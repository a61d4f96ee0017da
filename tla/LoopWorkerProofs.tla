-------------------------- MODULE LoopWorkerProofs --------------------------
(***************************************************************************)
(* Theorems about LoopWorker, for any number of generations.               *)
(***************************************************************************)
EXTENDS LoopWorkerProperties, WorkerRecordProofs, TLAPS

-----------------------------------------------------------------------------
(* Type correctness *)

\* A goroutine that takes a step stays a goroutine (runLoop).
LEMMA LoopUpdate ==
    ASSUME LoopTypeOK, NEW g, NEW r, g \in Generation => r \in Loop,
           loop' = [loop EXCEPT ![g] = r]
    PROVE  loop' \in [Generation -> Loop]
  BY DEF LoopTypeOK

\* The fields have their types when the worker is created (NewLoopWorker).
LEMMA LoopInitType == Init => LoopTypeOK
<1> SUFFICES ASSUME Init PROVE LoopTypeOK
  OBVIOUS
<1>1. 0 \in 0 .. MaxGeneration
  BY RecordAssumption DEF RecordAssumption
<1>2. rec \in WorkerState
  BY <1>1 DEF Init, NewWorkerState, WorkerState, LifecycleState, Failure
<1>3. op \in OpState
  BY <1>1 DEF Init, IdleOp, OpState
<1>4. loop \in [Generation -> Loop]
  BY DEF Init, NoLoop, Loop
<1> QED
  BY <1>1, <1>2, <1>3, <1>4 DEF Init, LoopTypeOK, LoopState

\* Every step keeps the types, whatever the operation and the loops do (loop.go).
LEMMA LoopStepType == LoopTypeOK /\ [Next]_vars => LoopTypeOK'
<1> SUFFICES ASSUME LoopTypeOK, Next PROVE LoopTypeOK'
  BY DEF vars, LoopTypeOK
<1>a. 0 \in 0 .. MaxGeneration /\ Generation \subseteq 0 .. MaxGeneration
  BY RecordAssumption DEF RecordAssumption, Generation
<1>b. rec \in WorkerState /\ op \in OpState
  BY DEF LoopTypeOK
<1>c. ASSUME NEW pc \in {"idle", "begin", "startHook", "lower", "launch", "raise", "backoff",
                         "cancel", "join", "cleanup", "hook", "settle"}, GoTo(pc)
      PROVE  op' \in OpState
  BY <1>b, <1>c DEF GoTo, OpState
<1>d. ASSUME NEW o \in {"ok", "failed", "panic", "cleanup"}, Settling(o)
      PROVE  op' \in OpState
  BY <1>b, <1>d DEF Settling, OpState
<1>e. ASSUME NEW k \in {"failed", "cleanup"}, StartEnds(k) PROVE op' \in OpState
  BY <1>b, <1>e DEF StartEnds, GoTo, Settling, OpState
<1>f. IdleOp \in OpState
  BY <1>a DEF IdleOp, OpState
<1>g. Recorded(rec) \in WorkerState
  BY <1>b DEF Recorded, WorkerState, Failure
<1>1. CASE Operation
  <2>1. CASE RuntimeStart
    <3>1. rec' \in WorkerState
      BY <1>b, <2>1, TransformerTypes DEF RuntimeStart
    <3>2. op' \in OpState
      BY <2>1, <1>a DEF RuntimeStart, IdleOp, OpState
    <3> QED
      BY <2>1, <3>1, <3>2 DEF RuntimeStart, LoopTypeOK
  <2>2. CASE RuntimeStop
    <3>1. rec' \in WorkerState
      BY <1>b, <2>2, TransformerTypes DEF RuntimeStop
    <3>2. op' \in OpState
      BY <2>2, <1>a DEF RuntimeStop, IdleOp, OpState
    <3> QED
      BY <2>2, <3>1, <3>2 DEF RuntimeStop, LoopTypeOK
  <2>3. CASE RuntimeDrain
    BY <1>b, <2>3, TransformerTypes DEF RuntimeDrain, LoopTypeOK
  <2>4. CASE Expire
    BY <1>b, <2>4 DEF Expire, LoopTypeOK, OpState
  <2> QED
    BY <1>1, <2>1, <2>2, <2>3, <2>4 DEF Operation
<1>2. CASE Internal
  <2>1. CASE Backoff
    BY <2>1, <1>c, <1>d DEF Backoff, LoopTypeOK
  <2>2. CASE Settle
    <3>1. rec' \in WorkerState
      <4>1. op.phase \in {"start", "stop"} /\ op.outcome \in {"ok", "failed", "panic", "cleanup"}
        BY <1>b DEF OpState
      <4> QED
        BY <1>b, <2>2, <4>1, TransformerTypes DEF Settle
    <3> QED
      BY <2>2, <3>1, <1>f DEF Settle, LoopTypeOK
  <2>3. CASE BeginStart
    BY <2>3, <1>c DEF BeginStart, LoopTypeOK, LoopState
  <2>4. CASE BeginStartRefused
    BY <2>4, <1>e, <1>g DEF BeginStartRefused, LoopTypeOK
  <2>5. CASE StartHookSucceeds
    BY <2>5, <1>c DEF StartHookSucceeds, LoopTypeOK
  <2>6. CASE StartHookFails
    BY <2>6, <1>d, <1>e, <1>g DEF StartHookFails, LoopTypeOK, LoopState
  <2>7. CASE SignalReady
    <3>1. rec' \in WorkerState
      BY <1>b, <2>7, SignalTypes, LoopAssumption DEF SignalReady
    <3>2. op' \in OpState
      BY <2>7, <1>c, <1>d DEF SignalReady
    <3> QED
      BY <2>7, <3>1, <3>2 DEF SignalReady, LoopTypeOK
  <2>8. CASE Launch
    <3>1. loop' \in [Generation -> Loop]
      <4>1. rec.generation \in Generation =>
                [loop[rec.generation] EXCEPT !.pc = "running"] \in Loop
        BY DEF LoopTypeOK, Loop
      <4> QED
        BY <2>8, <4>1, LoopUpdate DEF Launch
    <3>2. current' \in 0 .. MaxGeneration
      BY <1>b, <2>8 DEF Launch, WorkerState
    <3>3. op' \in OpState
      BY <2>8, <1>c, <1>d DEF Launch
    <3> QED
      BY <2>8, <3>1, <3>2, <3>3 DEF Launch, LoopTypeOK, LoopState
  <2>9. CASE BeginStop
    <3>1. op' \in OpState
      BY <1>b, <2>9, <1>c DEF BeginStop, LoopTypeOK, OpState
    <3> QED
      BY <2>9, <3>1 DEF BeginStop, LoopTypeOK, LoopState
  <2>10. CASE Cancel
    <3>1. op.target \in Generation =>
              [loop[op.target] EXCEPT !.cancelled = TRUE] \in Loop
      BY DEF LoopTypeOK, Loop
    <3>2. loop' \in [Generation -> Loop]
      BY <2>10, <3>1, LoopUpdate DEF Cancel
    <3> QED
      BY <2>10, <3>2, <1>c DEF Cancel, LoopTypeOK
  <2>11. CASE Joined
    BY <2>11, <1>c DEF Joined, LoopTypeOK
  <2>12. CASE WaitExpired
    BY <2>12, <1>d, <1>g DEF WaitExpired, LoopTypeOK
  <2>13. CASE CleanupComplete
    BY <2>13, <1>d DEF CleanupComplete, LoopTypeOK
  <2>14. CASE BeginCleanup
    BY <2>14, <1>c DEF BeginCleanup, LoopTypeOK
  <2>15. CASE CleanupSucceeds
    BY <2>15, <1>d DEF CleanupSucceeds, LoopTypeOK
  <2>16. CASE CleanupFails
    BY <2>16, <1>d DEF CleanupFails, LoopTypeOK
  <2> QED
    BY <1>2, <2>1, <2>2, <2>3, <2>4, <2>5, <2>6, <2>7, <2>8, <2>9, <2>10,
       <2>11, <2>12, <2>13, <2>14, <2>15, <2>16 DEF Internal
<1>3. ASSUME NEW g \in Generation, UserSignals(g) PROVE LoopTypeOK'
  BY <1>b, <1>3, TransformerTypes, SignalTypes DEF UserSignals, LoopTypeOK
<1>4. ASSUME NEW g \in Generation, LoopReturns(g) \/ LoopInternal(g) PROVE LoopTypeOK'
  <2>1. \A pc \in {"none", "running", "exited", "report", "cleanup", "hook",
                    "finish", "close", "done"}, e \in {"nil", "cancelled", "other"} :
            /\ [loop[g] EXCEPT !.pc = pc] \in Loop
            /\ [loop[g] EXCEPT !.pc = pc, !.err = e] \in Loop
    BY DEF LoopTypeOK, Loop
  <2>2. CASE LoopReturns(g)
    <3>1. PICK e \in {"nil", "cancelled", "other"} :
              loop' = [loop EXCEPT ![g].pc = "exited", ![g].err = e]
      BY <2>2 DEF LoopReturns
    <3>2. loop' = [loop EXCEPT ![g] = [loop[g] EXCEPT !.pc = "exited", !.err = e]]
      BY <3>1 DEF LoopTypeOK
    <3>3. loop' \in [Generation -> Loop]
      BY <3>2, <2>1, LoopUpdate
    <3> QED
      BY <2>2, <3>3 DEF LoopReturns, LoopTypeOK
  <2>a. ASSUME NEW pc \in {"none", "running", "exited", "report", "cleanup", "hook",
                           "finish", "close", "done"}, LoopGoTo(g, pc)
        PROVE  loop' \in [Generation -> Loop]
    BY <2>a, <2>1, LoopUpdate DEF LoopGoTo
  <2>3. CASE Classify(g)
    BY <2>3, <2>a DEF Classify, LoopTypeOK, LoopState
  <2>4. CASE Report(g)
    BY <1>b, <2>4, <2>a, TransformerTypes DEF Report, LoopTypeOK
  <2>5. CASE LoopBeginCleanup(g)
    BY <2>5, <2>a DEF LoopBeginCleanup, LoopTypeOK
  <2>6. CASE LoopCleanup(g)
    BY <2>6, <2>a DEF LoopCleanup, LoopTypeOK
  <2>7. CASE FinishLoop(g)
    BY <2>7, <2>a, <1>a DEF FinishLoop, LoopTypeOK, LoopState
  <2>8. CASE CloseDone(g)
    BY <2>8, <2>a DEF CloseDone, LoopTypeOK
  <2> QED
    BY <1>4, <2>2, <2>3, <2>4, <2>5, <2>6, <2>7, <2>8 DEF LoopInternal
<1> QED
  BY <1>1, <1>2, <1>3, <1>4 DEF Next

\* The loop state, the goroutines and the cleanup attempt have their types in
\* every state the worker reaches, for any number of restarts (loop.go).
THEOREM LoopTypeCorrect == Spec => []LoopTypeOK
<1>1. Init => LoopTypeOK
  BY LoopInitType
<1>2. LoopTypeOK /\ [Next]_vars => LoopTypeOK'
  BY LoopStepType
<1> QED
  BY <1>1, <1>2, PTL DEF Spec

-----------------------------------------------------------------------------
(* The inductive invariant *)

Live(g) == loop[g].pc \notin {"none", "close", "done"}
Before(g) == loop[g].pc \in {"running", "exited", "report", "cleanup"}

\* The fields name the one loop that has not finished, and the loop state says
\* whether there is one.
CurrentIsLive ==
    /\ \A g \in Generation : Live(g) <=> current = g
    /\ current # 0 <=> state \in {"running", "stopping"}
    /\ state = "starting" <=> op.pc \in {"startHook", "lower", "launch"}

\* Stop goes on to clean up when no loop is left, and waits for the one that is.
StopWaits ==
    /\ op.pc \in {"cleanup", "hook"} => current = 0
    /\ op.pc \in {"cancel", "join"} =>
          /\ op.target \in Generation /\ loop[op.target].pc # "none"
          /\ current \in {0, op.target}
          /\ current # 0 => state = "stopping"

\* One attempt is open exactly while one hook runs, and none is made for a loop
\* before its failure has been reported.
AttemptMatches ==
    /\ attempt = "running" <=> op.pc = "hook" \/ \E g \in Generation : loop[g].pc = "hook"
    /\ \A g \in Generation : Before(g) => attempt = "nil"
    /\ state = "starting" => attempt = "nil"

\* A cleanup that is owed is known to be: Start will be refused.
Owed == uncleaned => state \in {"running", "stopping", "stopped"} /\ attempt # "complete"

\* A start under way has opened a generation.
StartHasGeneration == op.pc # "idle" /\ op.phase = "start" => rec.generation \in Generation

\* Start and Stop each keep to their own steps.
PhaseMatches ==
    /\ op.pc \in {"startHook", "lower", "launch", "raise", "backoff"} => op.phase = "start"
    /\ op.pc \in {"cancel", "join", "cleanup", "hook"} => op.phase = "stop"

LoopInv ==
    /\ CurrentIsLive /\ StopWaits /\ AttemptMatches /\ Owed
    /\ StartHasGeneration /\ PhaseMatches

\* It holds when the worker is created.
LEMMA LoopInitInv == Init => LoopInv
<1> SUFFICES ASSUME Init PROVE LoopInv
  OBVIOUS
<1>1. \A g \in Generation : loop[g].pc = "none" /\ g # 0
  BY DEF Init, NoLoop, Generation
<1>2. op = IdleOp /\ state = "idle" /\ current = 0 /\ attempt = "nil" /\ uncleaned = FALSE
  BY DEF Init
<1>3. op.pc = "idle" /\ op.phase = "start"
  BY <1>2 DEF IdleOp
<1> QED
  BY <1>1, <1>2, <1>3 DEF LoopInv, CurrentIsLive, Live, StopWaits,
     AttemptMatches, Before,
     Owed, StartHasGeneration, PhaseMatches

\* Steps of the runtime and of its operation on the worker keep it
\* (Start and Stop in loop.go).
LEMMA OperationKeepsInv ==
    ASSUME LoopTypeOK, LoopInv, Operation \/ Internal
    PROVE  LoopInv'
<1> USE DEF At, GoTo, Settling, InStart, InStop
<1>a. op \in OpState /\ rec \in WorkerState
  BY DEF LoopTypeOK
<1>b. \A g \in Generation : g # 0 /\ g \in Nat
  BY RecordAssumption DEF Generation
<1>1. CASE RuntimeStart
  <2>1. op'.pc = "begin" /\ op'.phase = "start"
    BY <1>1 DEF RuntimeStart, IdleOp
  <2>2. rec'.generation \in Generation
    BY <1>1, <1>a, RecordAssumption, GenerationKept DEF RuntimeStart, Generation,
       WorkerState
  <2> QED
    BY <1>1, <2>1, <2>2 DEF RuntimeStart, LoopInv, CurrentIsLive, Live, StopWaits,
       AttemptMatches, Before, Owed, StartHasGeneration, PhaseMatches
<1>2. CASE RuntimeStop
  <2>1. op'.pc = "begin" /\ op'.phase = "stop"
    BY <1>2 DEF RuntimeStop, IdleOp
  <2> QED
    BY <1>2, <2>1 DEF RuntimeStop, LoopInv, CurrentIsLive, Live, StopWaits,
       AttemptMatches, Before, Owed, StartHasGeneration, PhaseMatches
<1>d. Recorded(rec).generation = rec.generation
  BY <1>a DEF Recorded, WorkerState
<1>3. CASE RuntimeDrain
  <2>1. rec'.generation = rec.generation
    BY <1>3, <1>a, GenerationKept DEF RuntimeDrain
  <2> QED
    BY <1>3, <2>1 DEF RuntimeDrain, LoopInv, CurrentIsLive, Live, StopWaits,
       AttemptMatches, Before, Owed, StartHasGeneration, PhaseMatches
<1>4. CASE Expire
  <2>1. op'.pc = op.pc /\ op'.phase = op.phase /\ op'.target = op.target
    BY <1>4, <1>a DEF Expire, OpState
  <2> QED
    BY <1>4, <2>1 DEF Expire, LoopInv, CurrentIsLive, Live, StopWaits,
       AttemptMatches, Before, Owed, StartHasGeneration, PhaseMatches
<1>5. CASE Backoff
  <2>1./\  op'.pc \in {"begin", "settle"}
        /\ op'.phase = op.phase /\ op'.target = op.target
    BY <1>5, <1>a DEF Backoff, OpState
  <2> QED
    BY <1>5, <1>a, <1>b, <1>d, <2>1 DEF Backoff, LoopInv, CurrentIsLive, Live,
       StopWaits,
       AttemptMatches, Before, Owed, StartHasGeneration, PhaseMatches
<1>6. CASE Settle
  <2>1. op'.pc = "idle"
    BY <1>6 DEF Settle, IdleOp
  <2> QED
    BY <1>6, <2>1 DEF Settle, LoopInv, CurrentIsLive, Live, StopWaits,
       AttemptMatches, Before, Owed, StartHasGeneration, PhaseMatches
<1>7. CASE BeginStart
  <2>1. op'.pc \in {"startHook"} /\ op'.phase = op.phase /\ op'.target = op.target
    BY <1>7, <1>a DEF BeginStart, OpState
  <2>2. ~ uncleaned
    BY <1>7 DEF BeginStart, CleanupPending, LoopActive, LoopTypeOK, LoopInv, Owed
  <2>3. attempt # "running" /\ attempt' = "nil" /\ state' = "starting" /\ current = 0
    BY <1>7 DEF BeginStart, CleanupPending, LoopActive, LoopInv, CurrentIsLive
  <2> QED
    BY <1>7, <2>1, <2>2, <2>3 DEF BeginStart, LoopInv, CurrentIsLive, Live,
       StopWaits,
       AttemptMatches, Before, Owed, StartHasGeneration, PhaseMatches
<1>8. CASE BeginStartRefused
  <2>1./\  op'.pc \in {"backoff", "settle"}
        /\ op'.phase = op.phase /\ op'.target = op.target
    BY <1>8, <1>a DEF BeginStartRefused, OpState, StartEnds
  <2> QED
    BY <1>8, <1>a, <1>b, <1>d, <2>1 DEF BeginStartRefused, LoopInv,
       CurrentIsLive, Live, StopWaits,
       AttemptMatches, Before, Owed, StartHasGeneration, PhaseMatches
<1>9. CASE StartHookSucceeds
  <2>1./\  op'.pc \in {"launch", "lower"}
        /\ op'.phase = op.phase /\ op'.target = op.target
    BY <1>9, <1>a DEF StartHookSucceeds, OpState
  <2> QED
    BY <1>9, <1>a, <1>b, <1>d, <2>1 DEF StartHookSucceeds, LoopInv,
       CurrentIsLive, Live, StopWaits,
       AttemptMatches, Before, Owed, StartHasGeneration, PhaseMatches
<1>10. CASE StartHookFails
  <2>1./\  op'.pc \in {"backoff", "settle"}
        /\ op'.phase = op.phase /\ op'.target = op.target
    BY <1>10, <1>a DEF StartHookFails, OpState, StartEnds
  <2> QED
    BY <1>10, <1>a, <1>b, <1>d, <2>1 DEF StartHookFails, LoopInv, CurrentIsLive,
       Live, StopWaits,
       AttemptMatches, Before, Owed, StartHasGeneration, PhaseMatches
<1>11. CASE SignalReady
  <2>1. /\ \/ op.pc = "lower" /\ op'.pc = "launch"
           \/ op.pc = "raise" /\ op'.pc = "settle"
        /\ op'.phase = op.phase /\ op'.target = op.target
    BY <1>11, <1>a, LoopAssumption DEF SignalReady, OpState, LoopAssumption
  <2>2. rec'.generation = rec.generation
    BY <1>11, <1>a, GenerationKept DEF SignalReady
  <2>3. /\ state' = state /\ current' = current /\ attempt' = attempt
        /\ loop' = loop /\ uncleaned' = uncleaned
    BY <1>11 DEF SignalReady
  <2> QED
    BY <1>11, <1>a, <1>b, <1>d, <2>1, <2>2, <2>3 DEF LoopInv,
       CurrentIsLive, Live, StopWaits,
       AttemptMatches, Before, Owed, StartHasGeneration, PhaseMatches
<1>12. CASE Launch
  <2>1. /\ op'.pc \in {"raise", "settle"} /\ op'.phase = op.phase
        /\ op'.target = op.target
    BY <1>12, <1>a DEF Launch, OpState
  <2>2. rec.generation \in Generation /\ current = 0 /\ attempt = "nil"
    BY <1>12 DEF Launch, LoopInv, StartHasGeneration, PhaseMatches,
       CurrentIsLive, AttemptMatches
  <2>3. \A g \in Generation :
            loop'[g].pc = IF g = rec.generation THEN "running" ELSE loop[g].pc
    BY <1>12, <2>2 DEF Launch, LoopTypeOK, Loop
  <2> QED
    BY <1>12, <1>b, <2>1, <2>2, <2>3 DEF Launch, LoopInv, CurrentIsLive, Live,
       StopWaits,
       AttemptMatches, Before, Owed, StartHasGeneration, PhaseMatches
<1>13. CASE BeginStop
  <2>1. current \in Generation \cup {0}
    BY RecordAssumption DEF LoopTypeOK, Generation
  <2>2. CASE current # 0 /\ state \in {"running", "stopping"}
    <3>1. op'.pc = "cancel" /\ op'.phase = op.phase /\ op'.target = current
      BY <1>13, <1>a, <2>2 DEF BeginStop, OpState
    <3>2. state' = "stopping"
      BY <1>13, <2>2 DEF BeginStop
    <3> QED
      BY <1>13, <2>1, <2>2, <3>1, <3>2 DEF BeginStop, LoopInv, CurrentIsLive,
         Live, StopWaits,
       AttemptMatches, Before, Owed, StartHasGeneration, PhaseMatches
  <2>3. CASE ~ (current # 0 /\ state \in {"running", "stopping"})
    <3>1. op'.pc = "cleanup" /\ op'.phase = op.phase /\ op'.target = op.target
      BY <1>13, <1>a, <2>3 DEF BeginStop, OpState
    <3> QED
      BY <1>13, <2>3, <3>1 DEF BeginStop, LoopInv, CurrentIsLive, Live, StopWaits,
       AttemptMatches, Before, Owed, StartHasGeneration, PhaseMatches
  <2> QED
    BY <2>2, <2>3
<1>14. CASE Cancel
  <2>1. op'.pc = "join" /\ op'.phase = op.phase /\ op'.target = op.target
    BY <1>14, <1>a DEF Cancel, OpState
  <2>2. \A g \in Generation : loop'[g].pc = loop[g].pc
    BY <1>14 DEF Cancel, LoopTypeOK, Loop
  <2> QED
    BY <1>14, <2>1, <2>2 DEF Cancel, LoopInv, CurrentIsLive, Live, StopWaits,
       AttemptMatches, Before, Owed, StartHasGeneration, PhaseMatches
<1>15. CASE Joined
  <2>1. op'.pc \in {"cleanup"} /\ op'.phase = op.phase /\ op'.target = op.target
    BY <1>15, <1>a DEF Joined, OpState
  <2> QED
    BY <1>15, <1>a, <1>b, <1>d, <2>1 DEF Joined, LoopInv, CurrentIsLive, Live,
       StopWaits,
       AttemptMatches, Before, Owed, StartHasGeneration, PhaseMatches
<1>16. CASE WaitExpired
  <2>1. op'.pc \in {"settle"} /\ op'.phase = op.phase /\ op'.target = op.target
    BY <1>16, <1>a DEF WaitExpired, OpState
  <2> QED
    BY <1>16, <1>a, <1>b, <1>d, <2>1 DEF WaitExpired, LoopInv, CurrentIsLive,
       Live, StopWaits,
       AttemptMatches, Before, Owed, StartHasGeneration, PhaseMatches
<1>17. CASE CleanupComplete
  <2>1. op'.pc \in {"settle"} /\ op'.phase = op.phase /\ op'.target = op.target
    BY <1>17, <1>a DEF CleanupComplete, OpState
  <2> QED
    BY <1>17, <1>a, <1>b, <1>d, <2>1 DEF CleanupComplete, LoopInv, CurrentIsLive,
       Live, StopWaits,
       AttemptMatches, Before, Owed, StartHasGeneration, PhaseMatches
<1>18. CASE BeginCleanup
  <2>1. op'.pc \in {"hook"} /\ op'.phase = op.phase /\ op'.target = op.target
    BY <1>18, <1>a DEF BeginCleanup, OpState
  <2> QED
    BY <1>18, <1>a, <1>b, <1>d, <2>1 DEF BeginCleanup, LoopInv, CurrentIsLive,
       Live, StopWaits,
       AttemptMatches, Before, Owed, StartHasGeneration, PhaseMatches
<1>19. CASE CleanupSucceeds
  <2>1. op'.pc \in {"settle"} /\ op'.phase = op.phase /\ op'.target = op.target
    BY <1>19, <1>a DEF CleanupSucceeds, OpState
  <2> QED
    BY <1>19, <1>a, <1>b, <1>d, <2>1 DEF CleanupSucceeds, LoopInv, CurrentIsLive,
       Live, StopWaits,
       AttemptMatches, Before, Owed, StartHasGeneration, PhaseMatches
<1>20. CASE CleanupFails
  <2>1. op'.pc \in {"settle"} /\ op'.phase = op.phase /\ op'.target = op.target
    BY <1>20, <1>a DEF CleanupFails, OpState
  <2> QED
    BY <1>20, <1>a, <1>b, <1>d, <2>1 DEF CleanupFails, LoopInv, CurrentIsLive,
       Live, StopWaits,
       AttemptMatches, Before, Owed, StartHasGeneration, PhaseMatches
<1> QED
  BY <1>1, <1>2, <1>3, <1>4, <1>5, <1>6, <1>7, <1>8, <1>9, <1>10, <1>11, <1>12,
     <1>13, <1>14, <1>15, <1>16, <1>17, <1>18, <1>19, <1>20 DEF Operation, Internal

\* Steps of a loop goroutine, and of user code, keep it (runLoop in loop.go).
LEMMA GoroutineKeepsInv ==
    ASSUME LoopTypeOK, LoopInv, NEW g \in Generation, LoopReturns(g) \/ LoopInternal(g)
    PROVE  LoopInv'
<1> USE DEF LoopGoTo
<1>b. g # 0 /\ rec \in WorkerState
  BY RecordAssumption DEF Generation, LoopTypeOK
<1>c. \A h \in Generation : loop[h] \in Loop
  BY DEF LoopTypeOK
<1>1. CASE LoopReturns(g)
  <2>1. /\ \A h \in Generation : h # g => loop'[h].pc = loop[h].pc
        /\ loop'[g].pc = "exited"
    BY <1>1, <1>c DEF LoopReturns, LoopTypeOK, Loop
  <2>2. CurrentIsLive'
    BY <1>1, <1>b, <2>1 DEF LoopReturns, LoopInv, CurrentIsLive, Live
  <2>3. StopWaits'
    BY <1>1, <1>b, <2>1 DEF LoopReturns, LoopInv, CurrentIsLive, Live, StopWaits
  <2>4. AttemptMatches'
    BY <1>1, <1>b, <2>1 DEF LoopReturns, LoopInv, CurrentIsLive, Live,
       AttemptMatches, Before
  <2>5. Owed'
    BY <1>1, <1>b, <2>1 DEF LoopReturns, LoopInv, CurrentIsLive, Live, Owed
  <2> QED
    BY <1>1, <2>2, <2>3, <2>4, <2>5 DEF LoopReturns, LoopInv, StartHasGeneration,
       PhaseMatches
<1>2. CASE Classify(g)
  <2>1. /\ \A h \in Generation : h # g => loop'[h].pc = loop[h].pc
        /\ loop'[g].pc \in {"finish", "report"}
    BY <1>2, <1>c DEF Classify, LoopTypeOK, Loop
  <2> QED
    BY <1>2, <1>b, <2>1 DEF Classify, LoopInv, CurrentIsLive, Live, StopWaits,
       AttemptMatches, Before, Owed, StartHasGeneration, PhaseMatches
<1>3. CASE Report(g)
  <2>1. /\ \A h \in Generation : h # g => loop'[h].pc = loop[h].pc
        /\ loop'[g].pc = "cleanup"
    BY <1>3, <1>c DEF Report, LoopTypeOK, Loop
  <2>2. rec'.generation = rec.generation
    BY <1>3, <1>b, GenerationKept DEF Report
  <2> QED
    BY <1>3, <1>b, <2>1, <2>2 DEF Report, LoopInv, CurrentIsLive, Live, StopWaits,
       AttemptMatches, Before, Owed, StartHasGeneration, PhaseMatches
<1>4. CASE LoopBeginCleanup(g)
  <2>1. /\ \A h \in Generation : h # g => loop'[h].pc = loop[h].pc
        /\ loop'[g].pc = "hook"
    BY <1>4, <1>c DEF LoopBeginCleanup, LoopTypeOK, Loop
  <2> QED
    BY <1>4, <1>b, <2>1 DEF LoopBeginCleanup, LoopInv, CurrentIsLive, Live,
       StopWaits,
       AttemptMatches, Before, Owed, StartHasGeneration, PhaseMatches
<1>5. CASE LoopCleanup(g)
  <2>1. /\ \A h \in Generation : h # g => loop'[h].pc = loop[h].pc
        /\ loop'[g].pc = "finish"
    BY <1>5, <1>c DEF LoopCleanup, LoopTypeOK, Loop
  <2> QED
    BY <1>5, <1>b, <2>1 DEF LoopCleanup, LoopInv, CurrentIsLive, Live, StopWaits,
       AttemptMatches, Before, Owed, StartHasGeneration, PhaseMatches
<1>6. CASE FinishLoop(g)
  <2>1. /\ \A h \in Generation : h # g => loop'[h].pc = loop[h].pc
        /\ loop'[g].pc = "close"
    BY <1>6, <1>c DEF FinishLoop, LoopTypeOK, Loop
  <2>a. current' = 0 /\ state' = "stopped" /\ \A h \in Generation : h # 0
    BY <1>6, RecordAssumption DEF FinishLoop, LoopInv, CurrentIsLive, Live,
       Generation
  <2>2. CurrentIsLive'
    BY <1>6, <2>1, <2>a DEF FinishLoop, LoopInv, CurrentIsLive, Live
  <2>3. StopWaits'
    BY <1>6, <1>b, <2>1 DEF FinishLoop, LoopInv, CurrentIsLive, Live, StopWaits
  <2>4. AttemptMatches'
    BY <1>6, <1>b, <2>1 DEF FinishLoop, LoopInv, CurrentIsLive, Live,
       AttemptMatches, Before
  <2>5. Owed'
    BY <1>6, <1>b, <2>1 DEF FinishLoop, LoopInv, CurrentIsLive, Live, Owed
  <2> QED
    BY <1>6, <2>2, <2>3, <2>4, <2>5 DEF FinishLoop, LoopInv, StartHasGeneration,
       PhaseMatches
<1>7. CASE CloseDone(g)
  <2>1. /\ \A h \in Generation : h # g => loop'[h].pc = loop[h].pc
        /\ loop'[g].pc = "done"
    BY <1>7, <1>c DEF CloseDone, LoopTypeOK, Loop
  <2> QED
    BY <1>7, <1>b, <2>1 DEF CloseDone, LoopInv, CurrentIsLive, Live, StopWaits,
       AttemptMatches, Before, Owed, StartHasGeneration, PhaseMatches
<1> QED
  BY <1>1, <1>2, <1>3, <1>4, <1>5, <1>6, <1>7 DEF LoopInternal

\* Every step keeps it, and it says which code of the user may run.
LEMMA LoopStepInv ==
    /\ LoopTypeOK /\ LoopInv /\ [Next]_vars => LoopInv'
    /\ LoopTypeOK /\ LoopInv => UserCodeExclusive /\ CleanedBeforeRestart
<1>1. ASSUME LoopTypeOK, LoopInv, [Next]_vars PROVE LoopInv'
  <2>1. ASSUME NEW g, UserSignals(g) PROVE LoopInv'
    <3>1. rec'.generation = rec.generation
      BY <1>1, <2>1, GenerationKept DEF UserSignals, LoopTypeOK
    <3> QED
      BY <1>1, <2>1, <3>1 DEF UserSignals, LoopInv, CurrentIsLive, Live, StopWaits,
       AttemptMatches, Before, Owed, StartHasGeneration, PhaseMatches
  <2>2. CASE UNCHANGED vars
    BY <1>1, <2>2 DEF vars, LoopInv, CurrentIsLive, Live, StopWaits,
       AttemptMatches, Before, Owed, StartHasGeneration, PhaseMatches
  <2> QED
    BY <1>1, <2>1, <2>2, OperationKeepsInv, GoroutineKeepsInv DEF Next
<1>2. ASSUME LoopTypeOK, LoopInv PROVE UserCodeExclusive /\ CleanedBeforeRestart
  <2>1. \A g \in Generation : LoopBusy(g) => current = g /\ g # 0
    BY <1>2, RecordAssumption DEF LoopInv, CurrentIsLive, Live, LoopBusy, Generation
  <2>2. OpBusy => current = 0
    BY <1>2 DEF LoopInv, CurrentIsLive, StopWaits, OpBusy
  <2>3. op.pc = "cleanup" => attempt # "running"
    BY <1>2, RecordAssumption DEF LoopInv, CurrentIsLive, StopWaits,
       AttemptMatches, Live, Generation
  <2>4. CleanedBeforeRestart
    BY <1>2 DEF LoopInv, CurrentIsLive, Owed, CleanedBeforeRestart
  <2> QED
    BY <2>1, <2>2, <2>3, <2>4 DEF UserCodeExclusive
<1> QED
  BY <1>1, <1>2

\* The user's start hook, loop function and cleanup hook never run two at a time,
\* in whatever generation each began, although Stop gives up waiting for a loop
\* and a loop that failed cleans up by itself (beginStart, beginStop, runLoop).
THEOREM LoopUserCodeIsExclusive == Spec => []UserCodeExclusive
<1>1. Init => LoopTypeOK /\ LoopInv
  BY LoopInitType, LoopInitInv
<1>2. LoopTypeOK /\ LoopInv /\ [Next]_vars => (LoopTypeOK /\ LoopInv)'
  BY LoopStepType, LoopStepInv
<1>3. LoopTypeOK /\ LoopInv => UserCodeExclusive
  BY LoopStepInv
<1> QED
  BY <1>1, <1>2, <1>3, PTL DEF Spec

\* No start reaches user code before a cleanup has succeeded after the loop
\* launched last, however many starts were refused in between (beginStart).
THEOREM LoopIsCleanedBeforeRestart == Spec => []CleanedBeforeRestart
<1>1. Init => LoopTypeOK /\ LoopInv
  BY LoopInitType, LoopInitInv
<1>2. LoopTypeOK /\ LoopInv /\ [Next]_vars => (LoopTypeOK /\ LoopInv)'
  BY LoopStepType, LoopStepInv
<1>3. LoopTypeOK /\ LoopInv => CleanedBeforeRestart
  BY LoopStepInv
<1> QED
  BY <1>1, <1>2, <1>3, PTL DEF Spec

-----------------------------------------------------------------------------
(* The invariant that relates the worker's record to its loops *)

\* The loop function runs, or has ended and is about to be reported.
Serving(g) == loop[g].pc \in {"running", "exited", "report"}

\* The record is in transition exactly while the operation is under way.
OpMatches ==
    rec.lifecycle \in
        IF op.pc = "idle" THEN LifecycleState \ {"starting", "stopping"}
        ELSE IF op.phase = "start" THEN {"starting"} ELSE {"stopping"}

\* Loops are launched by the generations opened so far.
Opened ==
    /\ rec.lifecycle # "registered" => rec.generation \in Generation
    /\ \A g \in Generation : g > rec.generation => loop[g] = NoLoop

Launched ==
    op.phase = "start" /\ (op.pc = "raise" \/ (op.pc = "settle" /\ op.outcome = "ok"))

\* A start that is to succeed has launched a loop, which can be past its report
\* only if the record says so; any other has launched none.
StartKnows ==
    /\ op.pc # "idle" /\ op.phase = "start" /\ ~ Launched => loop[rec.generation] = NoLoop
    /\ Launched => Serving(rec.generation) \/ rec.failureReportedDuringStart

\* Stop fails in clean-up, or succeeds, with no loop left.
StopKnows ==
    /\ op.pc = "settle" /\ op.phase = "stop" /\ op.outcome # "failed" => current = 0
    /\ op.pc = "settle" /\ op.phase = "stop" /\ op.outcome = "ok" => ~ uncleaned
    /\ rec.lifecycle \in {"registered", "stopped"} => current = 0 /\ ~ uncleaned

\* Only a stop cancels a loop, and the loop sees that it was asked to stop.
CancelKnown ==
    \A g \in Generation : loop[g].cancelled =>
        /\ loop[g].pc # "none"
        /\ Live(g) => state = "stopping"
        /\ g = rec.generation => rec.lifecycle \in {"stopping", "stopped", "failed"}

ErrorKnown ==
    \A g \in Generation :
        /\ loop[g].pc \in {"none", "running"} => loop[g].err = "nil"
        /\ loop[g].err = "cancelled" =>
              loop[g].cancelled /\ loop[g].pc \notin {"report", "cleanup", "hook"}

\* A worker in service has its loop; one that failed in spite of its loop, and
\* one whose loop ended by itself, has a failure of the worker as evidence.
FailureKnown ==
    /\ rec.failureReportedDuringStart => rec.lastFailure = "primary"
    /\ rec.lifecycle \in {"running", "draining"} => Serving(rec.generation)
    /\ rec.lifecycle = "failed" /\ Serving(rec.generation) => rec.lastFailure = "primary"
    /\ \A g \in Generation :
          EndedByItself(g) /\ rec.generation = g
            /\ loop[g].pc \in {"cleanup", "hook", "finish", "close", "done"}
            => rec.lastFailure = "primary"

ServiceInv ==
    /\ OpMatches /\ Opened /\ StartKnows /\ StopKnows
    /\ CancelKnown /\ ErrorKnown /\ FailureKnown

\* What the transitions of a record do to its lifecycle and its evidence
\* (the locked transitions of runtime.go).
LEMMA RecordEffects ==
    ASSUME NEW w, NEW s \in WorkerState, NEW b
    PROVE  /\ BegunStart(s).lifecycle = "starting"
           /\ BegunStart(s).failureReportedDuringStart = FALSE
           /\ BegunStart(s).lastFailure = s.lastFailure
           /\ BegunStop(s).lifecycle = "stopping"
           /\ BegunStop(s).failureReportedDuringStart = s.failureReportedDuringStart
           /\ BegunStop(s).lastFailure = s.lastFailure
           /\ Drained(s).lifecycle = "draining"
           /\ Drained(s).failureReportedDuringStart = s.failureReportedDuringStart
           /\ Drained(s).lastFailure = s.lastFailure
           /\ ReadySet(s, b).lifecycle = s.lifecycle
           /\ ReadySet(s, b).failureReportedDuringStart = s.failureReportedDuringStart
           /\ ReadySet(s, b).lastFailure = s.lastFailure
           /\ Recorded(s).lifecycle = s.lifecycle
           /\ Recorded(s).generation = s.generation
           /\ Recorded(s).failureReportedDuringStart = s.failureReportedDuringStart
           /\ Recorded(s).lastFailure = "primary"
<1> USE DEF WorkerState
<1>1. /\ BegunStart(s).lifecycle = "starting"
      /\ BegunStart(s).failureReportedDuringStart = FALSE
      /\ BegunStart(s).lastFailure = s.lastFailure
  BY DEF BegunStart
<1>2. /\ BegunStop(s).lifecycle = "stopping"
      /\ BegunStop(s).failureReportedDuringStart = s.failureReportedDuringStart
      /\ BegunStop(s).lastFailure = s.lastFailure
  BY DEF BegunStop
<1>3. /\ Drained(s).lifecycle = "draining"
      /\ Drained(s).failureReportedDuringStart = s.failureReportedDuringStart
      /\ Drained(s).lastFailure = s.lastFailure
  BY DEF Drained
<1>4. /\ ReadySet(s, b).lifecycle = s.lifecycle
      /\ ReadySet(s, b).failureReportedDuringStart = s.failureReportedDuringStart
      /\ ReadySet(s, b).lastFailure = s.lastFailure
  BY DEF ReadySet
<1>5. /\ Recorded(s).lifecycle = s.lifecycle
      /\ Recorded(s).generation = s.generation
      /\ Recorded(s).failureReportedDuringStart = s.failureReportedDuringStart
      /\ Recorded(s).lastFailure = "primary"
  BY DEF Recorded
<1> QED
  BY <1>1, <1>2, <1>3, <1>4, <1>5

\* A start completes unless a failure was reported meanwhile
\* (completeWorkerStart).
LEMMA StartEffects ==
    ASSUME NEW w, NEW s \in WorkerState, NEW t, t = CompletedStart(w, s)
    PROVE  /\ t.failureReportedDuringStart = FALSE
           /\ s.failureReportedDuringStart = TRUE =>
                 t.lifecycle = "failed" /\ t.lastFailure = s.lastFailure
           /\ s.failureReportedDuringStart = FALSE => t.lifecycle = "running"
<1> USE DEF WorkerState
<1>1. CASE s.failureReportedDuringStart = TRUE
  BY <1>1 DEF CompletedStart
<1>2. CASE s.failureReportedDuringStart = FALSE
  BY <1>2 DEF CompletedStart
<1> QED
  BY <1>1, <1>2

\* What the other transitions out of starting and stopping do to them, and what
\* a report does (failLoopCleanup, reportWorkerFailure).
LEMMA OutcomeEffects ==
    ASSUME NEW s \in WorkerState
    PROVE  /\ CompletedStop(s).lifecycle = "stopped"
           /\ CompletedStop(s).failureReportedDuringStart = s.failureReportedDuringStart
           /\ CompletedStop(s).lastFailure = s.lastFailure
           /\ Failed(s).lifecycle = "failed"
           /\ Failed(s).failureReportedDuringStart = FALSE
           /\ Failed(s).lastFailure = "primary"
           /\ CleanupFailed(s).lifecycle = "failed"
           /\ CleanupFailed(s).failureReportedDuringStart = FALSE
           /\ s.lastFailure = "primary" => CleanupFailed(s).lastFailure = "primary"
           /\ Reported(s).lastFailure = "primary"
           /\ s.lifecycle \in {"starting", "stopping"} =>
                 /\ Reported(s).lifecycle = s.lifecycle
           /\ s.lifecycle \notin {"starting", "stopping"} =>
                 Reported(s).lifecycle = "failed"
<1> USE DEF WorkerState
<1>1. /\ Failed(s).lifecycle = "failed"
      /\ Failed(s).failureReportedDuringStart = FALSE
      /\ Failed(s).lastFailure = "primary"
  BY DEF Failed
<1>2. /\ CleanupFailed(s).lifecycle = "failed"
      /\ CleanupFailed(s).failureReportedDuringStart = FALSE
      /\ s.lastFailure = "primary" => CleanupFailed(s).lastFailure = "primary"
  BY DEF CleanupFailed, Failed
<1>3. /\ CompletedStop(s).lifecycle = "stopped"
      /\ CompletedStop(s).failureReportedDuringStart = s.failureReportedDuringStart
      /\ CompletedStop(s).lastFailure = s.lastFailure
  BY DEF CompletedStop
<1>4. /\ Reported(s).lastFailure = "primary"
      /\ s.lifecycle \in {"starting", "stopping"} =>
            /\ Reported(s).lifecycle = s.lifecycle
      /\ s.lifecycle \notin {"starting", "stopping"} => Reported(s).lifecycle = "failed"
  BY <1>1 DEF Reported
<1> QED
  BY <1>1, <1>2, <1>3, <1>4

\* It holds when the worker is created.
LEMMA ServiceInit == Init => ServiceInv
<1> SUFFICES ASSUME Init PROVE ServiceInv
  OBVIOUS
<1>1. \A g \in Generation : loop[g] = NoLoop
  BY DEF Init
<1>2. /\ NoLoop.pc = "none" /\ NoLoop.cancelled = FALSE /\ NoLoop.err = "nil"
      /\ rec.lifecycle = "registered" /\ rec.failureReportedDuringStart = FALSE
      /\ op.pc = "idle" /\ current = 0 /\ uncleaned = FALSE
  BY DEF Init, NoLoop, NewWorkerState, IdleOp
<1> QED
  BY <1>1, <1>2 DEF ServiceInv, OpMatches, Opened, StartKnows, Launched, StopKnows,
     CancelKnown, ErrorKnown, FailureKnown, LifecycleState

\* A step inside an operation that launches and cancels no loop keeps it.
LEMMA QuietKeepsService ==
    ASSUME LoopTypeOK, LoopInv, ServiceInv, UNCHANGED <<loop, current>>,
           rec'.generation = rec.generation, rec'.lifecycle = rec.lifecycle,
           rec'.failureReportedDuringStart = rec.failureReportedDuringStart,
           rec'.lastFailure \in {rec.lastFailure, "primary"},
           op.pc # "idle", op'.pc # "idle", op'.phase = op.phase,
           Launched' <=> Launched,
           state' \in {state, "stopping"} \/ current = 0,
           uncleaned' => uncleaned,
           op'.pc = "settle" /\ op'.phase = "stop" =>
              \/ op'.outcome = "failed"
              \/ current = 0 /\ (op'.outcome = "ok" => ~ uncleaned')
    PROVE  ServiceInv'
<1>1. OpMatches' /\ Opened'
  BY DEF ServiceInv, OpMatches, Opened
<1>2. StartKnows' /\ StopKnows'
  BY DEF ServiceInv, OpMatches, StartKnows, StopKnows, Serving
<1>3. CancelKnown' /\ ErrorKnown'
  BY RecordAssumption DEF ServiceInv, CancelKnown, ErrorKnown, Live, LoopInv,
     CurrentIsLive, Generation
<1>4. FailureKnown'
  BY DEF ServiceInv, FailureKnown, Serving, EndedByItself
<1> QED
  BY <1>1, <1>2, <1>3, <1>4 DEF ServiceInv

\* The steps of Start and Stop between the runtime's begin and its settling.
LEMMA InsideKeepsService ==
    ASSUME LoopTypeOK, LoopInv, ServiceInv,
           \/ Expire \/ Backoff \/ BeginStart \/ BeginStartRefused
           \/ StartHookSucceeds \/ StartHookFails \/ SignalReady
           \/ BeginStop \/ Joined \/ WaitExpired \/ CleanupComplete
           \/ BeginCleanup \/ CleanupSucceeds \/ CleanupFails
    PROVE  ServiceInv'
<1> USE DEF At, GoTo, Settling, InStart, InStop
<1>a. op \in OpState /\ rec \in WorkerState
  BY DEF LoopTypeOK
<1>b. /\ Recorded(rec).generation = rec.generation
      /\ Recorded(rec).lifecycle = rec.lifecycle
      /\ Recorded(rec).failureReportedDuringStart = rec.failureReportedDuringStart
      /\ Recorded(rec).lastFailure = "primary"
  BY <1>a, RecordEffects
<1>c. LoopInv /\ PhaseMatches /\ CurrentIsLive /\ StopWaits
  BY DEF LoopInv
<1>d. op.pc \in {"cleanup", "hook"} => current = 0
  BY <1>c DEF StopWaits
<1>1. CASE Expire
  BY <1>1, <1>a, QuietKeepsService
  DEF Expire, OpState, Launched, ServiceInv, StopKnows
<1>2. CASE Backoff \/ BeginStartRefused
  <2>1. /\ UNCHANGED <<state, current, loop, uncleaned>>
        /\ op.phase = "start" /\ op'.phase = "start" /\ op.pc \in {"backoff", "begin"}
        /\ \/ op'.pc \in {"begin", "backoff"}
           \/ op'.pc = "settle" /\ op'.outcome \in {"failed", "cleanup"}
    BY <1>2, <1>a, <1>c, ZenonT(60)
    DEF Backoff, BeginStartRefused, StartEnds, PhaseMatches, OpState
  <2>2. rec' = rec \/ rec' = Recorded(rec)
    BY <1>2 DEF Backoff, BeginStartRefused
  <2>3. Launched' <=> Launched
    BY <2>1 DEF Launched
  <2> QED
    BY <1>b, <2>1, <2>2, <2>3, QuietKeepsService
<1>3. CASE BeginStart \/ StartHookSucceeds \/ StartHookFails
  <2>1. /\ UNCHANGED <<current, loop, uncleaned>>
        /\ op.phase = "start" /\ op'.phase = "start" /\ op.pc \in {"begin", "startHook"}
        /\ \/ op'.pc \in {"startHook", "launch", "lower", "backoff"}
           \/ op'.pc = "settle" /\ op'.outcome \in {"failed", "panic"}
    BY <1>3, <1>a, <1>c, ZenonT(60) DEF BeginStart, StartHookSucceeds, StartHookFails, StartEnds,
       PhaseMatches, OpState
  <2>2. rec' = rec \/ rec' = Recorded(rec)
    BY <1>3 DEF BeginStart, StartHookSucceeds, StartHookFails
  <2>3. Launched' <=> Launched
    BY <2>1 DEF Launched
  <2>4. current = 0
    BY <1>3, <1>c DEF BeginStart, LoopActive, StartHookSucceeds, StartHookFails,
       CurrentIsLive
  <2> QED
    BY <1>b, <2>1, <2>2, <2>3, <2>4, QuietKeepsService
<1>4. CASE SignalReady
  <2>1. /\ UNCHANGED <<state, current, loop, uncleaned>>
        /\ op.phase = "start" /\ op'.phase = "start"
        /\ \/ op.pc = "lower" /\ op'.pc = "launch"
           \/ op.pc = "raise" /\ op'.pc = "settle" /\ op'.outcome = "ok"
    BY <1>4, <1>a, <1>c, LoopAssumption, ZenonT(60) DEF SignalReady, PhaseMatches, OpState,
       LoopAssumption
  <2>2. rec' = ReadySet(rec, AutoReady)
    BY <1>4 DEF SignalReady
  <2>3. Launched' <=> Launched
    BY <2>1 DEF Launched
  <2>4. /\ rec'.generation = rec.generation /\ rec'.lifecycle = rec.lifecycle
        /\ rec'.failureReportedDuringStart = rec.failureReportedDuringStart
        /\ rec'.lastFailure = rec.lastFailure
    BY <1>a, <2>2 DEF ReadySet, WorkerState
  <2> QED
    BY <2>1, <2>3, <2>4, QuietKeepsService
<1>5. CASE BeginStop \/ Joined \/ BeginCleanup
  <2>1. /\ UNCHANGED <<rec, current, loop, uncleaned>> /\ state' \in {state, "stopping"}
        /\ op.phase = "stop" /\ op'.phase = "stop" /\ op.pc # "idle"
        /\ op'.pc \in {"cancel", "cleanup", "hook"}
    BY <1>5, <1>a, <1>c DEF BeginStop, Joined, BeginCleanup, PhaseMatches, OpState
  <2>2. Launched' <=> Launched
    BY <2>1 DEF Launched
  <2> QED
    BY <2>1, <2>2, QuietKeepsService
<1>6. CASE WaitExpired
  <2>1. /\ UNCHANGED <<state, current, loop, uncleaned>> /\ rec' = Recorded(rec)
        /\ op.phase = "stop" /\ op'.phase = "stop" /\ op.pc # "idle"
        /\ op'.pc = "settle" /\ op'.outcome = "failed"
    BY <1>6, <1>a, <1>c DEF WaitExpired, PhaseMatches, OpState
  <2>2. Launched' <=> Launched
    BY <2>1 DEF Launched
  <2> QED
    BY <1>b, <2>1, <2>2, QuietKeepsService
<1>7. CASE CleanupComplete \/ CleanupSucceeds \/ CleanupFails
  <2>1. /\ UNCHANGED <<rec, state, current, loop>>
        /\ op.phase = "stop" /\ op'.phase = "stop" /\ op.pc \in {"cleanup", "hook"}
        /\ op'.pc = "settle"
    BY <1>7, <1>a, <1>c DEF CleanupComplete, CleanupSucceeds, CleanupFails,
       PhaseMatches, OpState
  <2>2. (uncleaned' => uncleaned) /\ (op'.outcome = "ok" => ~ uncleaned')
    <3>1. CASE CleanupComplete
      BY <3>1 DEF CleanupComplete, LoopInv, Owed
    <3>2. CASE CleanupSucceeds
      BY <3>2 DEF CleanupSucceeds
    <3>3. CASE CleanupFails
      <4>1. PICK o \in {"cleanup", "panic"} : Settling(o)
        BY <3>3 DEF CleanupFails
      <4>2. op'.outcome = o
        BY <1>a, <4>1 DEF OpState
      <4> QED
        BY <3>3, <4>2 DEF CleanupFails
    <3> QED
      BY <1>7, <3>1, <3>2, <3>3
  <2>3. Launched' <=> Launched
    BY <2>1 DEF Launched
  <2> QED
    BY <1>d, <2>1, <2>2, <2>3, QuietKeepsService
<1> QED
  BY <1>1, <1>2, <1>3, <1>4, <1>5, <1>6, <1>7

\* The runtime begins an operation on the worker, or drains it.
LEMMA BeginKeepsService ==
    ASSUME LoopTypeOK, LoopInv, ServiceInv, RuntimeStart \/ RuntimeStop \/ RuntimeDrain
    PROVE  ServiceInv'
<1> USE DEF At
<1>a. rec \in WorkerState /\ NoLoop.pc = "none" /\ NoLoop.cancelled = FALSE
  BY DEF LoopTypeOK, NoLoop
<1>1. CASE RuntimeStart
  <2>1. /\ rec'.generation = rec.generation + 1 /\ rec'.lifecycle = "starting"
        /\ rec'.failureReportedDuringStart = FALSE
        /\ rec'.lastFailure = rec.lastFailure
    BY <1>1, <1>a, RecordEffects, GenerationKept DEF RuntimeStart
  <2>2. rec.generation \in Nat /\ rec.generation + 1 \in Generation
    BY <1>1, <1>a, RecordAssumption DEF RuntimeStart, WorkerState, Generation
  <2>3. op'.pc = "begin" /\ op'.phase = "start"
    BY <1>1 DEF RuntimeStart, IdleOp
  <2>4. UNCHANGED <<state, current, loop, uncleaned>>
    BY <1>1 DEF RuntimeStart
  <2>5. loop[rec'.generation] = NoLoop
    BY <2>1, <2>2 DEF ServiceInv, Opened
  <2>6. OpMatches' /\ Opened'
    BY <2>1, <2>2, <2>3, <2>4, RecordAssumption DEF ServiceInv, OpMatches, Opened,
       Generation
  <2>7. StartKnows' /\ StopKnows'
    BY <2>1, <2>3, <2>4, <2>5 DEF StartKnows, StopKnows, Launched
  <2>8. CancelKnown' /\ ErrorKnown' /\ FailureKnown'
    BY <1>a, <2>1, <2>4, <2>5 DEF ServiceInv, CancelKnown, ErrorKnown, FailureKnown,
       Live, Serving, EndedByItself
  <2> QED
    BY <2>6, <2>7, <2>8 DEF ServiceInv
<1>2. CASE RuntimeStop
  <2>1. /\ rec'.generation = rec.generation /\ rec'.lifecycle = "stopping"
        /\ rec'.failureReportedDuringStart = rec.failureReportedDuringStart
        /\ rec'.lastFailure = rec.lastFailure
    BY <1>2, <1>a, RecordEffects, GenerationKept DEF RuntimeStop
  <2>2. op'.pc = "begin" /\ op'.phase = "stop"
    BY <1>2 DEF RuntimeStop, IdleOp
  <2>3. rec.lifecycle # "registered" /\ UNCHANGED <<state, current, loop, uncleaned>>
    BY <1>2 DEF RuntimeStop, Stoppable
  <2> QED
    BY <2>1, <2>2, <2>3 DEF ServiceInv, OpMatches, Opened, StartKnows, StopKnows,
       Launched, CancelKnown, ErrorKnown, FailureKnown, Live, Serving, EndedByItself
<1>3. CASE RuntimeDrain
  <2>1. /\ rec'.generation = rec.generation /\ rec'.lifecycle = "draining"
        /\ rec'.failureReportedDuringStart = rec.failureReportedDuringStart
        /\ rec'.lastFailure = rec.lastFailure
    BY <1>3, <1>a, RecordEffects, GenerationKept DEF RuntimeDrain
  <2>2. /\ op.pc = "idle" /\ rec.lifecycle = "running"
        /\ UNCHANGED <<op, state, current, loop, uncleaned>>
    BY <1>3 DEF RuntimeDrain
  <2> QED
    BY <2>1, <2>2 DEF ServiceInv, OpMatches, Opened, StartKnows, StopKnows,
       Launched, CancelKnown, ErrorKnown, FailureKnown, Live, Serving, EndedByItself,
       LifecycleState
<1> QED
  BY <1>1, <1>2, <1>3

\* The runtime settles the outcome of an operation.
LEMMA SettleKeepsService ==
    ASSUME LoopTypeOK, LoopInv, ServiceInv, Settle
    PROVE  ServiceInv'
<1>a. rec \in WorkerState /\ op \in OpState /\ NoLoop.pc = "none"
  BY DEF LoopTypeOK, NoLoop
<1>b. op.pc = "settle" /\ op'.pc = "idle" /\ UNCHANGED <<state, current, loop, uncleaned>>
  BY DEF Settle, IdleOp, At
<1>c. /\ op.phase \in {"start", "stop"}
      /\ op.outcome \in {"ok", "failed", "panic", "cleanup"}
      /\ rec.lifecycle = IF op.phase = "start" THEN "starting" ELSE "stopping"
  BY <1>a, <1>b DEF OpState, ServiceInv, OpMatches
<1>d. \A g \in Generation : Serving(g) => current = g /\ g # 0
  BY RecordAssumption DEF Serving, LoopInv, CurrentIsLive, Live, Generation
<1>e. rec.generation \in Generation
  BY <1>c DEF ServiceInv, Opened
<1>f. /\ rec.failureReportedDuringStart => rec.lastFailure = "primary"
      /\ op.phase = "start" /\ op.outcome # "ok" => loop[rec.generation] = NoLoop
      /\ op.phase = "start" /\ op.outcome = "ok" =>
            Serving(rec.generation) \/ rec.failureReportedDuringStart
      /\ op.phase = "stop" /\ op.outcome # "failed" => current = 0
      /\ op.phase = "stop" /\ op.outcome = "ok" => ~ uncleaned
  BY <1>b DEF ServiceInv, StartKnows, StopKnows, FailureKnown, Launched
<1>g. ASSUME rec'.generation = rec.generation,
             rec'.lifecycle \in {"running", "stopped", "failed"},
             rec'.lifecycle = "stopped" => current = 0 /\ ~ uncleaned,
             rec'.lifecycle = "running" =>
                op.phase = "start" /\ Serving(rec.generation),
             rec'.failureReportedDuringStart => rec'.lastFailure = "primary",
             rec'.lifecycle = "failed" /\ Serving(rec.generation) =>
                rec'.lastFailure = "primary",
             rec.lastFailure = "primary" =>
                rec'.lastFailure = "primary" \/ Serving(rec.generation)
      PROVE  ServiceInv'
  <2>1. OpMatches' /\ Opened'
    BY <1>b, <1>e, <1>g DEF OpMatches, Opened, ServiceInv, LifecycleState
  <2>2. StartKnows' /\ StopKnows'
    BY <1>b, <1>g DEF StartKnows, StopKnows, Launched
  <2>3. CancelKnown' /\ ErrorKnown'
    BY <1>b, <1>c, <1>g DEF ServiceInv, CancelKnown, ErrorKnown, Live
  <2>4. FailureKnown'
    BY <1>b, <1>g DEF ServiceInv, FailureKnown, Serving, EndedByItself
  <2> QED
    BY <2>1, <2>2, <2>3, <2>4 DEF ServiceInv
<1>1. CASE op.outcome = "ok" /\ op.phase = "start"
  <2>1. rec' = CompletedStart(Self, rec)
    BY <1>1 DEF Settle
  <2>2. rec'.generation = rec.generation
    BY <1>a, <2>1, GenerationKept
  <2>3. rec'.failureReportedDuringStart = FALSE
    BY <1>a, <2>1, StartEffects
  <2>4. CASE rec.failureReportedDuringStart = TRUE
    <3>1. rec'.lifecycle = "failed" /\ rec'.lastFailure = rec.lastFailure
      BY <1>a, <2>1, <2>4, StartEffects
    <3> QED
      BY <1>f, <1>g, <2>2, <2>3, <2>4, <3>1
  <2>5. CASE rec.failureReportedDuringStart = FALSE
    <3>1. rec'.lifecycle = "running"
      BY <1>a, <2>1, <2>5, StartEffects
    <3> QED
      BY <1>1, <1>f, <1>g, <2>2, <2>3, <2>5, <3>1
  <2> QED
    BY <1>a, <2>4, <2>5 DEF WorkerState
<1>2. CASE op.outcome = "ok" /\ op.phase = "stop"
  <2>1. rec' = CompletedStop(rec)
    BY <1>2 DEF Settle
  <2>2. /\ rec'.generation = rec.generation
        /\ rec'.lifecycle = "stopped" /\ rec'.lastFailure = rec.lastFailure
        /\ rec'.failureReportedDuringStart = rec.failureReportedDuringStart
    BY <1>a, <2>1, GenerationKept, OutcomeEffects
  <2> QED
    BY <1>2, <1>f, <1>g, <2>2
<1>3. CASE op.outcome = "cleanup"
  <2>1. rec' = CleanupFailed(rec)
    BY <1>3 DEF Settle
  <2>2. /\ rec'.generation = rec.generation
        /\ rec'.lifecycle = "failed" /\ rec'.failureReportedDuringStart = FALSE
        /\ rec.lastFailure = "primary" => rec'.lastFailure = "primary"
    BY <1>a, <2>1, GenerationKept, OutcomeEffects
  <2>3. ~ Serving(rec.generation)
    <3>1. CASE op.phase = "start"
      BY <1>a, <1>f, <1>3, <3>1 DEF Serving
    <3>2. CASE op.phase = "stop"
      BY <1>d, <1>e, <1>f, <1>3, <3>2
    <3> QED
      BY <1>c, <3>1, <3>2
  <2> QED
    BY <1>g, <2>2, <2>3
<1>4. CASE op.outcome \in {"failed", "panic"}
  <2>1. rec' = Failed(rec)
    BY <1>4 DEF Settle
  <2>2. /\ rec'.generation = rec.generation
        /\ rec'.lifecycle = "failed" /\ rec'.failureReportedDuringStart = FALSE
        /\ rec'.lastFailure = "primary"
    BY <1>a, <2>1, GenerationKept, OutcomeEffects
  <2> QED
    BY <1>g, <2>2
<1> QED
  BY <1>c, <1>1, <1>2, <1>3, <1>4

\* Launch and Cancel are the steps of an operation that touch a loop (finishStart
\* and the go statement, and the cancel of Stop).
LEMMA LaunchKeepsService ==
    ASSUME LoopTypeOK, LoopInv, ServiceInv, Launch \/ Cancel
    PROVE  ServiceInv'
<1> USE DEF At, GoTo, Settling
<1>a. rec \in WorkerState /\ op \in OpState /\ \A g \in Generation : loop[g] \in Loop
  BY DEF LoopTypeOK
<1>b. NoLoop.pc = "none" /\ NoLoop.cancelled = FALSE /\ NoLoop.err = "nil"
  BY DEF NoLoop
<1>1. CASE Launch
  <2>1. /\ op.pc = "launch" /\ op.phase = "start" /\ op'.phase = "start"
        /\ op'.pc = "raise" \/ (op'.pc = "settle" /\ op'.outcome = "ok")
        /\ UNCHANGED rec
    BY <1>1, <1>a DEF Launch, OpState, LoopInv, PhaseMatches
  <2>2. rec.generation \in Generation /\ loop[rec.generation] = NoLoop
        /\ rec.lifecycle = "starting" /\ current = 0
    BY <1>1, <2>1 DEF LoopInv, StartHasGeneration, CurrentIsLive, ServiceInv,
       StartKnows, Launched, OpMatches, Launch
  <2>3. \A g \in Generation :
           /\ loop'[g].pc = IF g = rec.generation THEN "running" ELSE loop[g].pc
           /\ loop'[g].cancelled = loop[g].cancelled /\ loop'[g].err = loop[g].err
           /\ g # rec.generation => loop'[g] = loop[g]
    BY <1>1, <1>a, <2>2 DEF Launch, LoopTypeOK, Loop
  <2>4. OpMatches' /\ Opened'
    BY <2>1, <2>2, <2>3, RecordAssumption DEF ServiceInv, OpMatches, Opened, Generation
  <2>5. StartKnows' /\ StopKnows'
    BY <2>1, <2>2, <2>3 DEF StartKnows, StopKnows, Launched, Serving
  <2>6. \A g \in Generation : ~ Live(g)
    BY <2>2, RecordAssumption DEF LoopInv, CurrentIsLive, Generation
  <2>7. CancelKnown' /\ ErrorKnown'
    BY <1>b, <2>1, <2>2, <2>3, <2>6 DEF ServiceInv, CancelKnown, ErrorKnown, Live
  <2>8. FailureKnown'
    BY <2>1, <2>2, <2>3 DEF ServiceInv, FailureKnown, Serving, EndedByItself
  <2> QED
    BY <2>4, <2>5, <2>7, <2>8 DEF ServiceInv
<1>2. CASE Cancel
  <2>1. /\ op.pc = "cancel" /\ op'.pc = "join" /\ op.phase = "stop" /\ op'.phase = "stop"
        /\ op.target \in Generation /\ loop[op.target].pc # "none"
        /\ UNCHANGED <<rec, state, current, uncleaned>>
    BY <1>2, <1>a DEF Cancel, OpState, LoopInv, PhaseMatches, StopWaits
  <2>2. rec.lifecycle = "stopping"
    BY <2>1 DEF ServiceInv, OpMatches
  <2>3. \A g \in Generation :
           /\ loop'[g].pc = loop[g].pc /\ loop'[g].err = loop[g].err
           /\ g = op.target => loop'[g].cancelled = TRUE
           /\ g # op.target => loop'[g] = loop[g]
    BY <1>2, <1>a, <2>1 DEF Cancel, LoopTypeOK, Loop
  <2>4. OpMatches' /\ Opened'
    <3>1. ~ (op.target > rec.generation)
      BY <1>b, <2>1 DEF ServiceInv, Opened
    <3> QED
      BY <2>1, <2>2, <2>3, <3>1 DEF ServiceInv, OpMatches, Opened
  <2>5. StartKnows' /\ StopKnows'
    BY <2>1, <2>2 DEF StartKnows, StopKnows, Launched
  <2>6. Live(op.target) => state = "stopping"
    BY <2>1, RecordAssumption DEF LoopInv, CurrentIsLive, StopWaits, Generation
  <2>7. CancelKnown' /\ ErrorKnown'
    BY <2>1, <2>2, <2>3, <2>6 DEF ServiceInv, CancelKnown, ErrorKnown, Live
  <2>8. FailureKnown'
    BY <2>1, <2>2, <2>3 DEF ServiceInv, FailureKnown, Serving, EndedByItself
  <2> QED
    BY <2>4, <2>5, <2>7, <2>8 DEF ServiceInv
<1> QED
  BY <1>1, <1>2

\* A step of a loop goroutine that leaves the record alone: the loop goes on, and
\* leaves service unreported only when a stop cancelled it (runLoop).
LEMMA LoopStepKeepsService ==
    ASSUME LoopTypeOK, LoopInv, ServiceInv, NEW g \in Generation,
           UNCHANGED <<rec, op>>,
           \A h \in Generation \ {g} : loop'[h] = loop[h],
           loop[g].pc # "none", loop'[g].pc # "none",
           loop'[g].cancelled = loop[g].cancelled,
           Live(g)' => Live(g), Serving(g)' => Serving(g),
           Serving(g) => Serving(g)' \/ loop[g].cancelled = TRUE,
           loop'[g].pc = "running" => loop'[g].err = "nil",
           loop'[g].err = "cancelled" => loop[g].cancelled = TRUE
                           /\ loop'[g].pc \notin {"report", "cleanup", "hook"},
           loop'[g].pc \in {"cleanup", "hook", "finish", "close", "done"} =>
              \/ /\ loop[g].pc \in {"cleanup", "hook", "finish", "close", "done"}
                 /\ loop'[g].err = loop[g].err
              \/ loop'[g].err # "other" /\ loop[g].cancelled = TRUE,
           state' \in {state, "stopping"} \/ \A h \in Generation : ~ Live(h)',
           current' \in {current, 0}, uncleaned' => uncleaned
    PROVE  ServiceInv'
<1>a. loop[g] # NoLoop /\ loop[g].cancelled \in BOOLEAN /\ rec.lifecycle \in LifecycleState
  BY DEF NoLoop, LoopTypeOK, Loop, WorkerState
<1>b. loop[g].cancelled = TRUE /\ g = rec.generation =>
         rec.lifecycle \in {"stopping", "stopped", "failed"}
  BY DEF ServiceInv, CancelKnown
<1>1. OpMatches' /\ Opened'
  BY <1>a DEF ServiceInv, OpMatches, Opened
<1>2. StartKnows'
  <2>1. ASSUME op.pc # "idle", op.phase = "start", ~ Launched
        PROVE  loop'[rec.generation] = NoLoop
    BY <1>a, <2>1 DEF ServiceInv, StartKnows, LoopInv, StartHasGeneration
  <2>2. ASSUME Launched, ~ Serving(rec.generation)' PROVE rec.failureReportedDuringStart
    <3>1. op.pc # "idle" /\ op.phase = "start"
      BY <2>2 DEF Launched
    <3>2. rec.generation \in Generation /\ rec.lifecycle = "starting"
      BY <3>1 DEF ServiceInv, OpMatches, LoopInv, StartHasGeneration
    <3>3. ~ Serving(rec.generation)
      <4>1. CASE rec.generation = g
        BY <1>b, <2>2, <3>2, <4>1
      <4>2. CASE rec.generation # g
        BY <2>2, <3>2, <4>2 DEF Serving
      <4> QED
        BY <4>1, <4>2
    <3> QED
      BY <2>2, <3>3 DEF ServiceInv, StartKnows
  <2> QED
    BY <2>1, <2>2 DEF StartKnows, Launched
<1>3. StopKnows'
  BY DEF ServiceInv, StopKnows
<1>4. CancelKnown'
  BY DEF ServiceInv, CancelKnown, Live
<1>5. ErrorKnown'
  BY DEF ServiceInv, ErrorKnown
<1>6. FailureKnown'
  <2>1. ASSUME rec.lifecycle \in {"running", "draining"}
        PROVE  Serving(rec.generation)'
    <3>1. Serving(rec.generation) /\ rec.generation \in Generation
      BY <2>1 DEF ServiceInv, FailureKnown, Opened
    <3>2. CASE rec.generation = g
      BY <1>b, <2>1, <3>1, <3>2
    <3>3. CASE rec.generation # g
      BY <3>1, <3>3 DEF Serving
    <3> QED
      BY <3>2, <3>3
  <2>2. ASSUME rec.lifecycle = "failed", Serving(rec.generation)'
        PROVE  rec.lastFailure = "primary"
    <3>1. rec.generation \in Generation
      BY <2>2 DEF ServiceInv, Opened
    <3>2. Serving(rec.generation)
      BY <2>2, <3>1 DEF Serving
    <3> QED
      BY <2>2, <3>2 DEF ServiceInv, FailureKnown
  <2>3. ASSUME NEW h \in Generation, EndedByItself(h)', rec.generation = h,
               loop'[h].pc \in {"cleanup", "hook", "finish", "close", "done"}
        PROVE  rec.lastFailure = "primary"
    <3>1. /\ EndedByItself(h)
          /\ loop[h].pc \in {"cleanup", "hook", "finish", "close", "done"}
      <4>1. CASE h = g
        BY <2>3, <4>1 DEF EndedByItself
      <4>2. CASE h # g
        BY <2>3, <4>2 DEF EndedByItself
      <4> QED
        BY <4>1, <4>2
    <3> QED
      BY <2>3, <3>1 DEF ServiceInv, FailureKnown
  <2>4. rec.failureReportedDuringStart => rec.lastFailure = "primary"
    BY DEF ServiceInv, FailureKnown
  <2> QED
    BY <2>1, <2>2, <2>3, <2>4 DEF FailureKnown
<1> QED
  BY <1>1, <1>2, <1>3, <1>4, <1>5, <1>6 DEF ServiceInv

\* What a report does to the record of a worker it is accepted for
\* (reportWorkerFailure).
LEMMA ReportEffects ==
    ASSUME NEW s \in WorkerState, NEW t, t = Reported(s), s.lifecycle \in Reportable
    PROVE  /\ t.generation = s.generation /\ t.lastFailure = "primary"
           /\ \/ s.lifecycle \in {"running", "draining"} /\ t.lifecycle = "failed"
              \/ s.lifecycle = "stopping" /\ t.lifecycle = "stopping"
              \/ s.lifecycle = "starting" /\ t.lifecycle = "starting"
           /\ s.lifecycle = "starting" => t.failureReportedDuringStart = TRUE
<1>1. t.generation = s.generation /\ t.lastFailure = "primary"
  BY OutcomeEffects, GenerationKept
<1>2. s.lifecycle = "starting" => t.failureReportedDuringStart = TRUE
  BY DEF Reported, WorkerState
<1> QED
  BY <1>1, <1>2, OutcomeEffects DEF Reportable

\* A signal keeps it, and so does the report of a goroutine, which is past its
\* report then (the handle's SetReady and ReportFailure).
LEMMA SignalKeepsService ==
    ASSUME LoopTypeOK, LoopInv, ServiceInv, NEW g \in Generation,
           \/ UserSignals(g)
           \/ Report(g) /\ HandleMayReport(rec, g)
    PROVE  ServiceInv'
<1>a. rec \in WorkerState /\ UNCHANGED <<op, state, current, uncleaned>>
  BY DEF LoopTypeOK, UserSignals, Report
<1>b. rec.failureReportedDuringStart \in BOOLEAN /\ rec.lifecycle \in LifecycleState
  BY <1>a DEF WorkerState
<1>c. \A h \in Generation :
         /\ loop'[h].cancelled = loop[h].cancelled /\ loop'[h].err = loop[h].err
         /\ \/ loop'[h] = loop[h]
            \/ h = g /\ loop[g].pc = "report" /\ loop'[g].pc = "cleanup"
  <2>1. CASE UserSignals(g)
    BY <2>1 DEF UserSignals
  <2>2. CASE Report(g)
    BY <2>2 DEF LoopTypeOK, Loop, Report, LoopGoTo
  <2> QED
    BY <2>1, <2>2
<1>d. NoLoop.pc = "none" /\ NoLoop.cancelled = FALSE
  BY DEF NoLoop
<1>1. CASE \E b \in BOOLEAN : HandleMay(rec, g, b) /\ rec' = ReadySet(rec, b)
                                /\ UNCHANGED loop
  <2>1. PICK b : rec' = ReadySet(rec, b)
    BY <1>1
  <2>2. /\ rec'.generation = rec.generation /\ rec'.lifecycle = rec.lifecycle
        /\ rec'.failureReportedDuringStart = rec.failureReportedDuringStart
        /\ rec'.lastFailure = rec.lastFailure
    BY <1>a, <2>1 DEF ReadySet, WorkerState
  <2> QED
    BY <1>1, <1>a, <2>2 DEF ServiceInv, OpMatches, Opened, StartKnows, StopKnows,
       Launched, CancelKnown, ErrorKnown, FailureKnown, Live, Serving, EndedByItself
<1>2. CASE HandleMayReport(rec, g) /\ rec' = Reported(rec)
  <2>1. rec.generation = g /\ rec.lifecycle \in Reportable
    BY <1>2 DEF HandleMayReport
  <2>2. /\ rec'.generation = rec.generation /\ rec'.lastFailure = "primary"
        /\ \/ rec.lifecycle \in {"running", "draining"} /\ rec'.lifecycle = "failed"
           \/ rec.lifecycle = "stopping" /\ rec'.lifecycle = "stopping"
           \/ rec.lifecycle = "starting" /\ rec'.lifecycle = "starting"
        /\ rec.lifecycle = "starting" => rec'.failureReportedDuringStart = TRUE
    BY <1>2, <1>a, <2>1, ReportEffects
  <2>4. OpMatches' /\ Opened'
    BY <1>a, <1>c, <1>d, <2>1, <2>2 DEF ServiceInv, OpMatches, Opened, LifecycleState
  <2>5. StartKnows'
    <3>1. Launched' <=> Launched
      BY <1>a DEF Launched
    <3>2. Launched => rec'.failureReportedDuringStart
      BY <2>2 DEF ServiceInv, OpMatches, Launched
    <3>3. ASSUME op.pc # "idle", op.phase = "start", ~ Launched
          PROVE  loop'[rec'.generation] = NoLoop
      BY <1>c, <1>d, <2>1, <2>2, <3>3 DEF ServiceInv, StartKnows
    <3> QED
      BY <1>a, <3>1, <3>2, <3>3 DEF StartKnows
  <2>6. StopKnows'
    BY <1>a, <2>2 DEF ServiceInv, StopKnows
  <2>7. CancelKnown' /\ ErrorKnown'
    BY <1>a, <1>c, <2>1, <2>2 DEF ServiceInv, CancelKnown, ErrorKnown, Live
  <2>8. FailureKnown'
    BY <2>2 DEF FailureKnown
  <2> QED
    BY <2>4, <2>5, <2>6, <2>7, <2>8 DEF ServiceInv
<1> QED
  BY <1>1, <1>2 DEF UserSignals, Report

\* A report that is refused comes from an old generation, or the worker has failed
\* already (ReportFailure, whose error runLoop ignores).
LEMMA RefusedReportKeepsService ==
    ASSUME LoopTypeOK, LoopInv, ServiceInv, NEW g \in Generation,
           Report(g), ~ HandleMayReport(rec, g)
    PROVE  ServiceInv'
<1>a. /\ loop[g].pc = "report" /\ UNCHANGED <<rec, op, state, current, uncleaned>>
      /\ \A h \in Generation :
            /\ loop'[h].cancelled = loop[h].cancelled /\ loop'[h].err = loop[h].err
            /\ h # g => loop'[h] = loop[h]
      /\ loop'[g].pc = "cleanup"
  BY DEF Report, LoopTypeOK, Loop, LoopGoTo
<1>b. rec.lifecycle \in LifecycleState /\ NoLoop.pc = "none"
  BY DEF LoopTypeOK, WorkerState, NoLoop
<1>c. current = g /\ g # 0
  BY <1>a, RecordAssumption DEF LoopInv, CurrentIsLive, Live, Generation
<1>d. rec.generation = g => rec.lifecycle = "failed" /\ rec.lastFailure = "primary"
  <2>1. ASSUME rec.generation = g PROVE rec.lifecycle = "failed"
    BY <1>b, <1>c, <2>1 DEF HandleMayReport, Reportable, LifecycleState, ServiceInv,
       StopKnows
  <2> QED
    BY <1>a, <2>1 DEF ServiceInv, FailureKnown, Serving
<1>1. OpMatches' /\ Opened'
  BY <1>a, <1>b DEF ServiceInv, OpMatches, Opened
<1>2. StartKnows' /\ StopKnows'
  <2>1. op.pc # "idle" /\ op.phase = "start" => rec.lifecycle = "starting"
    BY DEF ServiceInv, OpMatches
  <2>2. op.pc # "idle" /\ op.phase = "start" =>
           rec.generation \in Generation /\ rec.generation # g
    BY <1>d, <2>1 DEF LoopInv, StartHasGeneration
  <2>3. op.pc # "idle" /\ op.phase = "start" =>
           loop'[rec.generation] = loop[rec.generation]
    BY <1>a, <2>2
  <2> QED
    BY <1>a, <2>3 DEF ServiceInv, StartKnows, StopKnows, Launched, Serving
<1>3. CancelKnown' /\ ErrorKnown'
  BY <1>a DEF ServiceInv, CancelKnown, ErrorKnown, Live
<1>4. FailureKnown'
  <2>1. rec.lifecycle \in {"running", "draining"} =>
           rec.generation \in Generation /\ rec.generation # g
    BY <1>d DEF ServiceInv, Opened
  <2>2. rec.lifecycle = "failed" => rec.generation \in Generation
    BY DEF ServiceInv, Opened
  <2> QED
    BY <1>a, <1>d, <2>1, <2>2 DEF ServiceInv, FailureKnown, Serving, EndedByItself
<1> QED
  BY <1>1, <1>2, <1>3, <1>4 DEF ServiceInv

\* Every step of a loop goroutine keeps it (runLoop).
LEMMA GoroutineKeepsService ==
    ASSUME LoopTypeOK, LoopInv, ServiceInv, NEW g \in Generation,
           LoopReturns(g) \/ LoopInternal(g)
    PROVE  ServiceInv'
<1> USE DEF LoopGoTo
<1>a. /\ loop \in [Generation -> Loop] /\ current \in 0 .. MaxGeneration
      /\ loop[g].cancelled \in BOOLEAN /\ NoLoop.pc = "none"
  BY DEF LoopTypeOK, Loop, NoLoop
<1>b. loop[g].err = "cancelled" =>
         loop[g].cancelled = TRUE /\ loop[g].pc \notin {"report", "cleanup", "hook"}
  BY DEF ServiceInv, ErrorKnown
<1>c. loop[g].cancelled = TRUE /\ Live(g) => state = "stopping"
  BY DEF ServiceInv, CancelKnown
<1>1. CASE LoopReturns(g)
  <2>1. PICK e \in {"nil", "cancelled", "other"} :
           /\ e = "cancelled" => loop[g].cancelled
           /\ loop' = [loop EXCEPT ![g].pc = "exited", ![g].err = e]
    BY <1>1 DEF LoopReturns
  <2>2. /\ \A h \in Generation \ {g} : loop'[h] = loop[h]
        /\ loop'[g].cancelled = loop[g].cancelled /\ loop'[g].pc = "exited"
        /\ loop'[g].err = e /\ loop[g].pc = "running"
        /\ UNCHANGED <<rec, op, state, current, uncleaned>>
    BY <1>1, <1>a, <2>1 DEF LoopReturns, Loop
  <2>3. loop'[g].err = "cancelled" => loop[g].cancelled = TRUE
    BY <2>1, <2>2
  <2> QED
    BY <2>2, <2>3, LoopStepKeepsService DEF Live, Serving
<1>2. CASE Classify(g)
  <2>1. /\ \A h \in Generation \ {g} : loop'[h] = loop[h]
        /\ loop'[g].cancelled = loop[g].cancelled /\ loop'[g].err = loop[g].err
        /\ loop[g].pc = "exited" /\ loop'[g].pc \in {"finish", "report"}
        /\ state' \in {state, "stopping"}
        /\ UNCHANGED <<rec, op, current, uncleaned>>
    BY <1>2, <1>a DEF Classify, Loop
  <2>2. loop'[g].pc = "finish" =>
           loop[g].cancelled = TRUE /\ loop[g].err # "other"
    BY <1>2, <1>a DEF Classify, Loop
  <2>3. loop'[g].pc = "report" => loop[g].err # "cancelled"
    BY <1>2, <1>a, <1>b, <1>c DEF Classify, Loop, Live
  <2> QED
    BY <1>b, <2>1, <2>2, <2>3, LoopStepKeepsService DEF Live, Serving
<1>3. CASE Report(g)
  BY <1>3, SignalKeepsService, RefusedReportKeepsService
<1>4. CASE LoopBeginCleanup(g) \/ LoopCleanup(g) \/ CloseDone(g)
  <2>1. /\ \A h \in Generation \ {g} : loop'[h] = loop[h]
        /\ loop'[g].cancelled = loop[g].cancelled /\ loop'[g].err = loop[g].err
        /\ \/ loop[g].pc = "cleanup" /\ loop'[g].pc = "hook"
           \/ loop[g].pc = "hook" /\ loop'[g].pc = "finish"
           \/ loop[g].pc = "close" /\ loop'[g].pc = "done"
        /\ (uncleaned' => uncleaned) /\ UNCHANGED <<rec, op, state, current>>
    <3>1. CASE LoopBeginCleanup(g)
      BY <3>1, <1>a DEF LoopBeginCleanup, Loop
    <3>2. CASE LoopCleanup(g)
      BY <3>2, <1>a DEF LoopCleanup, Loop
    <3>3. CASE CloseDone(g)
      BY <3>3, <1>a DEF CloseDone, Loop
    <3> QED
      BY <1>4, <3>1, <3>2, <3>3
  <2> QED
    BY <1>b, <2>1, LoopStepKeepsService DEF Live, Serving
<1>5. CASE FinishLoop(g)
  <2>1. /\ \A h \in Generation \ {g} : loop'[h] = loop[h]
        /\ loop'[g].cancelled = loop[g].cancelled /\ loop'[g].err = loop[g].err
        /\ loop[g].pc = "finish" /\ loop'[g].pc = "close"
        /\ current' = 0 /\ UNCHANGED <<rec, op, uncleaned>>
    BY <1>5, <1>a DEF FinishLoop, Loop, LoopInv, CurrentIsLive, Live
  <2>2. \A h \in Generation : ~ Live(h)'
    BY <2>1 DEF LoopInv, CurrentIsLive, Live
  <2> QED
    BY <1>b, <2>1, <2>2, LoopStepKeepsService DEF Live, Serving
<1> QED
  BY <1>1, <1>2, <1>3, <1>4, <1>5 DEF LoopInternal

\* Every step keeps it (loop.go and the runtime's side of an operation).
LEMMA ServiceStep ==
    LoopTypeOK /\ LoopInv /\ ServiceInv /\ [Next]_vars => ServiceInv'
<1> SUFFICES ASSUME LoopTypeOK, LoopInv, ServiceInv, [Next]_vars PROVE ServiceInv'
  OBVIOUS
<1>1. CASE Operation
  BY <1>1, BeginKeepsService, InsideKeepsService DEF Operation
<1>2. CASE Internal
  BY <1>2, SettleKeepsService, LaunchKeepsService, InsideKeepsService DEF Internal
<1>3. CASE \E g \in Generation : UserSignals(g) \/ LoopReturns(g) \/ LoopInternal(g)
  BY <1>3, SignalKeepsService, GoroutineKeepsService
<1>4. CASE UNCHANGED vars
  BY <1>4 DEF vars, ServiceInv, OpMatches, Opened, StartKnows, StopKnows,
     Launched, CancelKnown, ErrorKnown, FailureKnown, Live, Serving, EndedByItself
<1> QED
  BY <1>1, <1>2, <1>3, <1>4 DEF Next

\* The record and the loops agree in every state, for any number of restarts.
LEMMA ServiceInvariant == Spec => [](LoopTypeOK /\ LoopInv /\ ServiceInv)
<1>1. Init => LoopTypeOK /\ LoopInv /\ ServiceInv
  BY LoopInitType, LoopInitInv, ServiceInit
<1>2. LoopTypeOK /\ LoopInv /\ ServiceInv /\ [Next]_vars
        => (LoopTypeOK /\ LoopInv /\ ServiceInv)'
  BY LoopStepType, LoopStepInv, ServiceStep
<1> QED
  BY <1>1, <1>2, PTL DEF Spec

\* A worker in service has its loop and one that is stopped has none and owes no
\* cleanup, so Start never completes over a dead loop and Stop never returns nil
\* too early (Start and Stop in loop.go, completeWorkerStart).
THEOREM ServiceIsTheLoop == Spec => []ServiceMatchesLoop
<1>1. LoopTypeOK /\ LoopInv /\ ServiceInv => ServiceMatchesLoop
  <2> SUFFICES ASSUME LoopTypeOK, LoopInv, ServiceInv PROVE ServiceMatchesLoop
    OBVIOUS
  <2>1. rec.lifecycle \in {"running", "draining"} => Serving(rec.generation)
    BY DEF ServiceInv, FailureKnown
  <2>2. rec.lifecycle \in {"registered", "stopped"} => current = 0 /\ ~ uncleaned
    BY DEF ServiceInv, StopKnows
  <2>3. current = 0 => \A g \in Generation : loop[g].pc \in {"none", "close", "done"}
    BY RecordAssumption DEF LoopInv, CurrentIsLive, Live, Generation
  <2> QED
    BY <2>1, <2>2, <2>3 DEF ServiceMatchesLoop, Serving
<1> QED
  BY <1>1, ServiceInvariant, PTL

\* A loop that ended by itself leaves a failure of the worker as evidence, and one
\* that ended because Stop cancelled it is never taken for a failure, however the
\* end raced with Start and Stop (runLoop, intentionalLoopStop).
THEOREM LoopFailureIsKept == Spec => []LoopFailureKept
<1>1. ServiceInv => LoopFailureKept
  BY DEF ServiceInv, FailureKnown, ErrorKnown, LoopFailureKept
<1> QED
  BY <1>1, ServiceInvariant, PTL

-----------------------------------------------------------------------------
(* The worker implements LoopContract *)

\* A loop that has not begun its cleanup owes one: between Launch and that moment
\* nothing can have cleaned up.
Indebted == \A g \in Generation : Before(g) => uncleaned

LEMMA IndebtedStep ==
    ASSUME LoopTypeOK, LoopInv, Indebted, [Next]_vars
    PROVE  Indebted'
<1>1. \A g \in Generation : Before(g) => current = g /\ g # 0
  BY RecordAssumption DEF LoopInv, CurrentIsLive, Live, Before, Generation
<1>2. CASE Launch
  BY <1>2 DEF Launch, Indebted
<1>3. CASE CleanupSucceeds
  <2>1. current = 0
    BY <1>3 DEF CleanupSucceeds, At, LoopInv, StopWaits
  <2> QED
    BY <1>1, <1>3, <2>1 DEF CleanupSucceeds, Indebted, Before
<1>4. CASE Cancel
  BY <1>4 DEF Cancel, Indebted, Before, LoopTypeOK
<1>5. ASSUME UNCHANGED <<loop, uncleaned>> PROVE Indebted'
  BY <1>5 DEF Indebted, Before
<1>6. ASSUME NEW g \in Generation, LoopReturns(g) PROVE Indebted'
  <2>1. \A h \in Generation : Before(h)' => Before(h)
    BY <1>6 DEF LoopReturns, Before, LoopTypeOK
  <2> QED
    BY <1>6, <2>1 DEF LoopReturns, Indebted
<1>7. ASSUME NEW g \in Generation, LoopInternal(g) PROVE Indebted'
  <2>1. CASE LoopCleanup(g)
    <3>1. current = g
      BY <2>1, RecordAssumption DEF LoopCleanup, LoopInv, CurrentIsLive, Live
    <3>2. \A h \in Generation : ~ Before(h)
      BY <1>1, <2>1, <3>1 DEF LoopCleanup, Before
    <3>3. \A h \in Generation : ~ Before(h)'
      BY <2>1, <3>2 DEF LoopCleanup, LoopGoTo, Before, LoopTypeOK
    <3> QED
      BY <3>3 DEF Indebted
  <2>2. CASE ~ LoopCleanup(g)
    <3>1. uncleaned' = uncleaned
      BY <1>7, <2>2 DEF LoopInternal, Classify, Report, LoopBeginCleanup, FinishLoop, CloseDone
    <3>2. \E pc \in {"finish", "report", "cleanup", "hook", "close", "done"} :
             LoopGoTo(g, pc) /\ (Before(g) \/ pc \in {"close", "done"})
      BY <1>7, <2>2 DEF LoopInternal, Classify, Report, LoopBeginCleanup, FinishLoop,
         CloseDone, Before
    <3>3. PICK pc \in {"finish", "report", "cleanup", "hook", "close", "done"} :
             LoopGoTo(g, pc) /\ (Before(g) \/ pc \in {"close", "done"})
      BY <3>2
    <3>4. \A h \in Generation \ {g} : loop'[h] = loop[h]
      BY <3>3 DEF LoopGoTo, LoopTypeOK
    <3>5. loop'[g].pc = pc
      BY <3>3 DEF LoopGoTo, LoopTypeOK, Loop
    <3>6. Before(g)' => Before(g)
      BY <3>3, <3>5 DEF Before
    <3>7. \A h \in Generation : Before(h)' => Before(h)
      BY <3>4, <3>6 DEF Before
    <3> QED
      BY <3>1, <3>7 DEF Indebted
  <2> QED
    BY <2>1, <2>2
<1>8. ASSUME NEW g \in Generation, UserSignals(g) PROVE Indebted'
  BY <1>5, <1>8 DEF UserSignals
<1>9. CASE UNCHANGED vars
  BY <1>5, <1>9 DEF vars
<1>10. CASE Operation
  BY <1>5, <1>10 DEF Operation, RuntimeStart, RuntimeStop, RuntimeDrain, Expire
<1>11. CASE Internal
  <2>1. ASSUME \/ Backoff \/ Settle \/ BeginStart \/ BeginStartRefused \/ StartHookSucceeds
               \/ StartHookFails \/ SignalReady \/ BeginStop \/ Joined \/ WaitExpired
               \/ CleanupComplete \/ BeginCleanup \/ CleanupFails
        PROVE  UNCHANGED <<loop, uncleaned>>
    BY <2>1 DEF Backoff, Settle, BeginStart, BeginStartRefused, StartHookSucceeds,
       StartHookFails, SignalReady, BeginStop, Joined, WaitExpired, CleanupComplete,
       BeginCleanup, CleanupFails
  <2> QED
    BY <1>2, <1>3, <1>4, <1>5, <1>11, <2>1 DEF Internal
<1> QED
  BY <1>6, <1>7, <1>8, <1>9, <1>10, <1>11 DEF Next

\* What the invariants say of the hook and of the loop that are mapped.
HookOf(s, a) ==
    IF s = "starting" THEN "start" ELSE IF a = "running" THEN "cleanup" ELSE "none"

LEMMA HookIsOpenAttempt == LoopInv => Hook = HookOf(state, attempt)
  BY DEF LoopInv, CurrentIsLive, AttemptMatches, Hook, HookOf

LEMMA NextHookIsOpenAttempt == LoopInv' => Hook' = HookOf(state', attempt')
  BY DEF LoopInv, CurrentIsLive, AttemptMatches, Hook, HookOf

LEMMA ServingIsCurrent ==
    ASSUME LoopTypeOK, LoopInv
    PROVE  /\ current = 0 => LoopServing = 0
           /\ \A g \in Generation : Serving(g) <=> LoopServing = g
<1>1. \A g \in Generation : g # 0 /\ (Serving(g) => current = g)
  BY RecordAssumption DEF LoopInv, CurrentIsLive, Live, Serving, Generation
<1> QED
  BY <1>1 DEF LoopServing, Serving

\* A step that touches nothing the contract speaks of is none of its steps.
LEMMA HiddenStep ==
    ASSUME rec'.lifecycle = rec.lifecycle, rec'.generation = rec.generation,
           Hook' = Hook, LoopServing' = LoopServing,
           uncleaned' = uncleaned, (attempt' = "complete") = (attempt = "complete")
    PROVE  UNCHANGED Contract!vars
  BY DEF Contract!vars

\* The runtime's steps on the record are steps of the contract (beginWorkerStart,
\* beginWorkerStop, beginWorkerDrain, completeWorkerStart, failWorker).
LEMMA RecordStepFits ==
    ASSUME LoopTypeOK, LoopInv, ServiceInv, LoopInv', Operation \/ Settle
    PROVE  [Contract!Next]_(Contract!vars)
<1>a. rec \in WorkerState /\ op \in OpState
  BY DEF LoopTypeOK
<1>b. Hook = HookOf(state, attempt) /\ Hook' = HookOf(state', attempt')
  BY HookIsOpenAttempt, NextHookIsOpenAttempt
<1>c. UNCHANGED <<state, current, attempt, loop, uncleaned>>
  BY DEF Operation, RuntimeStart, RuntimeStop, RuntimeDrain, Expire, Settle
<1>d. Hook' = Hook /\ LoopServing' = LoopServing
  BY <1>b, <1>c DEF LoopServing
<1>1. CASE RuntimeStart
  <2>1. /\ rec.lifecycle \in Startable /\ rec'.lifecycle = "starting"
        /\ rec'.generation = rec.generation + 1
    BY <1>1, <1>a, RecordEffects, GenerationKept DEF RuntimeStart
  <2>2. Contract!Start
    BY <1>c, <1>d, <2>1 DEF Contract!Start, Contract!Startable, Startable
  <2> QED
    BY <2>2 DEF Contract!Next
<1>2. CASE RuntimeStop
  <2>1. /\ rec.lifecycle \in Stoppable /\ rec'.lifecycle = "stopping"
        /\ rec'.generation = rec.generation
    BY <1>2, <1>a, RecordEffects, GenerationKept DEF RuntimeStop
  <2>2. Contract!Stop
    BY <1>c, <1>d, <2>1 DEF Contract!Stop, Contract!Stoppable, Stoppable
  <2> QED
    BY <2>2 DEF Contract!Next
<1>3. CASE RuntimeDrain
  <2>1. /\ rec.lifecycle = "running" /\ rec'.lifecycle = "draining"
        /\ rec'.generation = rec.generation
    BY <1>3, <1>a, RecordEffects, GenerationKept DEF RuntimeDrain
  <2>2. Contract!Drain
    BY <1>c, <1>d, <2>1 DEF Contract!Drain
  <2> QED
    BY <2>2 DEF Contract!Next
<1>4. CASE Expire
  <2>1. rec' = rec
    BY <1>4 DEF Expire
  <2> QED
    BY <1>c, <1>d, <2>1, HiddenStep
<1>5. CASE Settle
  <2> DEFINE o == op.outcome
  <2>1. op.pc = "settle" /\ op.phase \in {"start", "stop"}
           /\ o \in {"ok", "failed", "panic", "cleanup"}
    BY <1>5, <1>a DEF Settle, At, OpState
  <2>2. rec'.generation = rec.generation
    BY <1>5, <1>a, <2>1, GenerationKept DEF Settle
  <2>3. CASE op.phase = "start"
    <3>1. rec.lifecycle = "starting"
      BY <2>1, <2>3 DEF ServiceInv, OpMatches
    <3>2. state # "starting"
      BY <2>1 DEF LoopInv, CurrentIsLive
    <3>3. Hook # "start"
      BY <1>b, <3>2 DEF HookOf
    <3>4. rec'.lifecycle = "failed" \/ (rec'.lifecycle = "running" /\ LoopServing = rec.generation)
      <4>1. CASE o = "ok"
        <5>1. rec' = CompletedStart(Self, rec)
          BY <1>5, <2>1, <2>3, <4>1 DEF Settle
        <5>2. CASE rec.failureReportedDuringStart = TRUE
          <6>1. CompletedStart(Self, rec).lifecycle = "failed"
            BY <1>a, <5>2 DEF CompletedStart, WorkerState
          <6> QED
            BY <5>1, <6>1
        <5>3. CASE rec.failureReportedDuringStart = FALSE
          <6>1. Serving(rec.generation)
            BY <2>1, <2>3, <4>1, <5>3 DEF ServiceInv, StartKnows, Launched
          <6>2. rec.generation \in Generation
            BY <2>1, <2>3 DEF LoopInv, StartHasGeneration
          <6>3. LoopServing = rec.generation
            BY <6>1, <6>2, ServingIsCurrent
          <6> QED
            <7>1. CompletedStart(Self, rec).lifecycle = "running"
              BY <1>a, <5>3 DEF CompletedStart, WorkerState
            <7> QED
              BY <5>1, <6>3, <7>1
        <5> QED
          BY <1>a, <5>2, <5>3 DEF WorkerState
      <4>2. CASE o # "ok"
        <5>1. rec' \in {CleanupFailed(rec), Failed(rec)}
          BY <1>5, <2>1, <2>3, <4>2 DEF Settle
        <5> QED
          BY <1>a, <5>1, OutcomeEffects
      <4> QED
        BY <4>1, <4>2
    <3>5. Contract!Started
      BY <1>c, <1>d, <2>2, <3>1, <3>3, <3>4 DEF Contract!Started
    <3> QED
      BY <3>5 DEF Contract!Next
  <2>4. CASE op.phase = "stop"
    <3>1. rec.lifecycle = "stopping"
      BY <2>1, <2>4 DEF ServiceInv, OpMatches
    <3>2. rec'.lifecycle = "failed"
             \/ (rec'.lifecycle = "stopped" /\ Contract!NoUserCode /\ ~ uncleaned)
      <4>1. CASE o = "ok"
        <5>1. rec' = CompletedStop(rec)
          BY <1>5, <2>1, <2>4, <4>1 DEF Settle
        <5>2. current = 0 /\ ~ uncleaned
          BY <2>1, <2>4, <4>1 DEF ServiceInv, StopKnows
        <5>3. LoopServing = 0
          BY <5>2, ServingIsCurrent
        <5>4. Hook = "none"
          <6>1. \A g \in Generation : loop[g].pc # "hook"
            BY <5>2, RecordAssumption DEF LoopInv, CurrentIsLive, Live, Generation
          <6> QED
            BY <2>1, <6>1 DEF Hook
        <5> QED
          BY <1>a, <5>1, <5>2, <5>3, <5>4, OutcomeEffects DEF Contract!NoUserCode
      <4>2. CASE o # "ok"
        <5>1. rec' \in {CleanupFailed(rec), Failed(rec)}
          BY <1>5, <2>1, <2>4, <4>2 DEF Settle
        <5> QED
          BY <1>a, <5>1, OutcomeEffects
      <4> QED
        BY <4>1, <4>2
    <3>3. Contract!Stopped
      BY <1>c, <1>d, <2>2, <3>1, <3>2 DEF Contract!Stopped
    <3> QED
      BY <3>3 DEF Contract!Next
  <2> QED
    BY <2>1, <2>3, <2>4
<1> QED
  BY <1>1, <1>2, <1>3, <1>4, <1>5 DEF Operation

\* The steps of Start are (beginStart, finishFailedStart, finishStart).
LEMMA StartStepFits ==
    ASSUME LoopTypeOK, LoopInv, ServiceInv, LoopInv', LoopTypeOK',
           \/ Backoff \/ BeginStart \/ BeginStartRefused \/ StartHookSucceeds
           \/ StartHookFails \/ SignalReady \/ Launch
    PROVE  [Contract!Next]_(Contract!vars)
<1>a. rec \in WorkerState /\ op \in OpState
  BY DEF LoopTypeOK
<1>b. Hook = HookOf(state, attempt) /\ Hook' = HookOf(state', attempt')
  BY HookIsOpenAttempt, NextHookIsOpenAttempt
<1>c. Recorded(rec).lifecycle = rec.lifecycle /\ Recorded(rec).generation = rec.generation
  BY <1>a, RecordEffects
<1>1. CASE Backoff \/ BeginStartRefused \/ StartHookSucceeds \/ SignalReady
  <2>1. UNCHANGED <<state, current, attempt, loop, uncleaned>>
    BY <1>1 DEF Backoff, BeginStartRefused, StartHookSucceeds, SignalReady
  <2>2. rec'.lifecycle = rec.lifecycle /\ rec'.generation = rec.generation
    <3>1. CASE SignalReady
      <4>1. rec' = ReadySet(rec, AutoReady)
        BY <3>1 DEF SignalReady
      <4>2. ReadySet(rec, AutoReady).lifecycle = rec.lifecycle
        BY <1>a, RecordEffects
      <4>3. ReadySet(rec, AutoReady).generation = rec.generation
        BY <1>a, GenerationKept
      <4> QED
        BY <4>1, <4>2, <4>3
    <3> QED
      BY <1>1, <1>c, <3>1 DEF Backoff, BeginStartRefused, StartHookSucceeds
  <2>3. Hook' = Hook /\ LoopServing' = LoopServing
    BY <1>b, <2>1 DEF LoopServing
  <2> QED
    BY <2>1, <2>2, <2>3, HiddenStep
<1>2. CASE BeginStart
  <2>1. op.pc = "begin" /\ op.phase = "start"
    BY <1>2 DEF BeginStart, InStart, At
  <2>2. rec.lifecycle = "starting"
    BY <2>1 DEF ServiceInv, OpMatches
  <2>3. state \notin {"starting", "running", "stopping"} /\ attempt # "running" /\ ~ uncleaned
    BY <1>2 DEF BeginStart, LoopActive, CleanupPending, LoopInv, Owed
  <2>4. current = 0
    BY <2>3 DEF LoopInv, CurrentIsLive
  <2>5. Contract!NoUserCode
    BY <1>b, <2>3, <2>4, ServingIsCurrent DEF HookOf, Contract!NoUserCode
  <2>6. /\ Hook' = "start" /\ LoopServing' = LoopServing
        /\ attempt' # "complete" /\ UNCHANGED <<rec, uncleaned>>
    BY <1>2, <1>b DEF BeginStart, HookOf, LoopServing
  <2>7. Contract!EnterStart
    BY <2>2, <2>3, <2>5, <2>6 DEF Contract!EnterStart
  <2> QED
    BY <2>7 DEF Contract!Next
<1>3. CASE StartHookFails
  <2>1. op.pc = "startHook" /\ state = "starting" /\ attempt = "nil"
    BY <1>3 DEF StartHookFails, At, LoopInv, CurrentIsLive, AttemptMatches
  <2>2. /\ Hook = "start" /\ Hook' = "none" /\ LoopServing' = LoopServing
        /\ UNCHANGED <<attempt, uncleaned>>
    BY <1>3, <1>b, <2>1 DEF StartHookFails, HookOf, LoopServing
  <2>3. rec'.lifecycle = rec.lifecycle /\ rec'.generation = rec.generation
    BY <1>3, <1>c DEF StartHookFails
  <2>4. Contract!StartFails
    BY <2>2, <2>3 DEF Contract!StartFails
  <2> QED
    BY <2>4 DEF Contract!Next
<1>4. CASE Launch
  <2>1. op.pc = "launch" /\ state = "starting" /\ attempt = "nil"
    BY <1>4 DEF Launch, At, LoopInv, CurrentIsLive, AttemptMatches
  <2>2. rec.generation \in Generation
    BY <2>1 DEF LoopInv, StartHasGeneration, PhaseMatches
  <2>3. Hook = "start" /\ Hook' = "none" /\ attempt' = attempt /\ uncleaned' = TRUE /\ rec' = rec
    BY <1>4, <1>b, <2>1 DEF Launch, HookOf
  <2>4. LoopServing' = rec.generation
    <3>1. current' = rec.generation /\ loop'[rec.generation].pc = "running"
      BY <1>4, <2>2 DEF Launch, LoopTypeOK, Loop
    <3>2. rec.generation # 0
      BY <2>2, RecordAssumption DEF Generation
    <3> QED
      BY <3>1, <3>2 DEF LoopServing
  <2>5. Contract!Launch
    BY <2>3, <2>4 DEF Contract!Launch
  <2> QED
    BY <2>5 DEF Contract!Next
<1> QED
  BY <1>1, <1>2, <1>3, <1>4

\* The steps of Stop are (beginStop, runStopHook, finishStopHook).
LEMMA StopStepFits ==
    ASSUME LoopTypeOK, LoopInv, ServiceInv, LoopInv', LoopTypeOK',
           \/ BeginStop \/ Cancel \/ Joined \/ WaitExpired \/ CleanupComplete
           \/ BeginCleanup \/ CleanupSucceeds \/ CleanupFails
    PROVE  [Contract!Next]_(Contract!vars)
<1>a. rec \in WorkerState /\ op \in OpState
  BY DEF LoopTypeOK
<1>b. Hook = HookOf(state, attempt) /\ Hook' = HookOf(state', attempt')
  BY HookIsOpenAttempt, NextHookIsOpenAttempt
<1>1. CASE BeginStop \/ Cancel \/ Joined \/ WaitExpired \/ CleanupComplete
  <2>1. UNCHANGED <<current, attempt, uncleaned>>
    BY <1>1 DEF BeginStop, Cancel, Joined, WaitExpired, CleanupComplete
  <2>2. state' = state \/ (state = "running" /\ state' = "stopping")
    BY <1>1 DEF BeginStop, Cancel, Joined, WaitExpired, CleanupComplete
  <2>3. Hook' = Hook
    BY <1>b, <2>1, <2>2 DEF HookOf
  <2>4. \A g \in Generation : loop'[g].pc = loop[g].pc
    <3>1. CASE Cancel
      BY <3>1 DEF Cancel, LoopTypeOK, Loop
    <3>2. CASE BeginStop \/ Joined \/ WaitExpired \/ CleanupComplete
      BY <3>2 DEF BeginStop, Joined, WaitExpired, CleanupComplete
    <3> QED
      BY <1>1, <3>1, <3>2
  <2>5. current \in Generation \cup {0}
    BY RecordAssumption DEF LoopTypeOK, Generation
  <2>6. LoopServing' = LoopServing
    BY <2>1, <2>4, <2>5 DEF LoopServing
  <2>7. rec'.lifecycle = rec.lifecycle /\ rec'.generation = rec.generation
    <3>1. Recorded(rec).lifecycle = rec.lifecycle /\ Recorded(rec).generation = rec.generation
      BY <1>a DEF Recorded, WorkerState
    <3>2. rec' = rec \/ rec' = Recorded(rec)
      BY <1>1 DEF BeginStop, Cancel, Joined, WaitExpired, CleanupComplete
    <3> QED
      BY <3>1, <3>2
  <2> QED
    BY <2>1, <2>3, <2>6, <2>7, HiddenStep
<1>2. CASE BeginCleanup
  <2>1. op.pc = "cleanup" /\ attempt \in {"nil", "failed"} /\ current = 0
    BY <1>2 DEF BeginCleanup, At, LoopInv, StopWaits
  <2>2. rec.lifecycle = "stopping"
    BY <2>1 DEF LoopInv, PhaseMatches, ServiceInv, OpMatches
  <2>3. state # "starting"
    BY <2>1 DEF LoopInv, CurrentIsLive
  <2>4. Contract!NoUserCode
    BY <1>b, <2>1, <2>3, ServingIsCurrent DEF HookOf, Contract!NoUserCode
  <2>5. /\ Hook' = "cleanup" /\ LoopServing' = LoopServing
        /\ attempt' # "complete" /\ UNCHANGED <<rec, uncleaned>>
    BY <1>2, <1>b, <2>3 DEF BeginCleanup, HookOf, LoopServing
  <2>6. Contract!EnterCleanup
    BY <2>1, <2>2, <2>4, <2>5 DEF Contract!EnterCleanup
  <2> QED
    BY <2>6 DEF Contract!Next
<1>3. CASE CleanupSucceeds \/ CleanupFails
  <2>1. op.pc = "hook" /\ attempt = "running" /\ state # "starting"
    BY <1>3 DEF CleanupSucceeds, CleanupFails, At, LoopInv, AttemptMatches, CurrentIsLive
  <2>2. /\ Hook = "cleanup" /\ Hook' = "none" /\ LoopServing' = LoopServing /\ rec' = rec
    BY <1>3, <1>b, <2>1 DEF CleanupSucceeds, CleanupFails, HookOf, LoopServing
  <2>3. \/ attempt' = "complete" /\ uncleaned' = FALSE
        \/ attempt' = "failed" /\ uncleaned' = uncleaned
    BY <1>3 DEF CleanupSucceeds, CleanupFails
  <2>4. Contract!LeaveCleanup
    BY <2>1, <2>2, <2>3 DEF Contract!LeaveCleanup
  <2> QED
    BY <2>4 DEF Contract!Next
<1> QED
  BY <1>1, <1>2, <1>3

\* The end of a loop is (runLoop up to runFailureStopHook): it takes the worker
\* out of service unless Stop has done so.
LEMMA LoopEndFits ==
    ASSUME LoopTypeOK, LoopInv, ServiceInv, LoopInv', LoopTypeOK',
           NEW g \in Generation, Classify(g) \/ Report(g)
    PROVE  [Contract!Next]_(Contract!vars)
<1>a. rec \in WorkerState /\ g # 0 /\ loop[g] \in Loop
  BY RecordAssumption DEF LoopTypeOK, Generation
<1>b. Hook = HookOf(state, attempt) /\ Hook' = HookOf(state', attempt')
  BY HookIsOpenAttempt, NextHookIsOpenAttempt
<1>c. loop[g].pc \in {"exited", "report"} /\ current = g /\ LoopServing = g
  BY ServingIsCurrent DEF Classify, Report, Serving, LoopInv, CurrentIsLive, Live
<1>d. state \in {"running", "stopping"} /\ UNCHANGED <<current, attempt, uncleaned>>
  BY <1>a, <1>c DEF LoopInv, CurrentIsLive, Classify, Report
<1>e. state' # "starting"
  BY <1>d DEF Classify, Report
<1>f. Hook' = Hook
  BY <1>b, <1>d, <1>e DEF HookOf
<1>1. CASE Report(g)
  <2>1. LoopServing' = 0
    BY <1>1, <1>a, <1>c, <1>d DEF Report, LoopGoTo, LoopServing, LoopTypeOK
  <2>2. rec'.generation = rec.generation
    BY <1>1, <1>a, GenerationKept DEF Report
  <2>3. rec'.lifecycle = IF rec.lifecycle \in {"running", "draining"} THEN "failed"
                         ELSE rec.lifecycle
    <3>1. CASE HandleMayReport(rec, g)
      BY <1>1, <1>a, <3>1, OutcomeEffects DEF Report, HandleMayReport, Reportable
    <3>2. CASE ~ HandleMayReport(rec, g)
      <4>1. rec' = rec
        BY <1>1, <3>2 DEF Report
      <4>2. rec.lifecycle \notin {"running", "draining"}
        <5> SUFFICES ASSUME rec.lifecycle \in {"running", "draining"} PROVE FALSE
          OBVIOUS
        <5>1. Serving(rec.generation) /\ rec.generation \in Generation
          BY DEF ServiceInv, FailureKnown, Opened
        <5>2. rec.generation = g
          BY <1>c, <5>1, ServingIsCurrent
        <5> QED
          BY <3>2, <5>2 DEF HandleMayReport, Reportable
      <4> QED
        BY <4>1, <4>2
    <3> QED
      BY <3>1, <3>2
  <2>4. Contract!LoopEnds
    BY <1>a, <1>c, <1>d, <1>f, <2>1, <2>2, <2>3 DEF Contract!LoopEnds, Contract!InService
  <2> QED
    BY <2>4 DEF Contract!Next
<1>2. CASE Classify(g)
  <2>1. rec' = rec /\ loop'[g].pc \in {"finish", "report"}
    BY <1>2, <1>a DEF Classify, LoopGoTo, LoopTypeOK
  <2>2. CASE loop'[g].pc = "report"
    <3>1. LoopServing' = LoopServing
      BY <1>a, <1>c, <1>d, <2>2 DEF LoopServing
    <3> QED
      BY <1>d, <1>f, <2>1, <3>1, HiddenStep
  <2>3. CASE loop'[g].pc = "finish"
    <3>1. LoopServing' = 0
      BY <1>c, <1>d, <2>3 DEF LoopServing
    <3>2. loop[g].cancelled
      BY <1>2, <2>3 DEF Classify, LoopGoTo, LoopTypeOK
    <3>3. rec.lifecycle \notin {"running", "draining"}
      <4> SUFFICES ASSUME rec.lifecycle \in {"running", "draining"} PROVE FALSE
        OBVIOUS
      <4>1. Serving(rec.generation) /\ rec.generation \in Generation
        BY DEF ServiceInv, FailureKnown, Opened
      <4>2. rec.generation = g
        BY <1>c, <4>1, ServingIsCurrent
      <4> QED
        BY <3>2, <4>2 DEF ServiceInv, CancelKnown
    <3>4. Contract!LoopEnds
      BY <1>a, <1>c, <1>d, <1>f, <2>1, <3>1, <3>3 DEF Contract!LoopEnds, Contract!InService
    <3> QED
      BY <3>4 DEF Contract!Next
  <2> QED
    BY <2>1, <2>2, <2>3
<1> QED
  BY <1>1, <1>2

\* The other steps of a loop, and the signals of user code, are
\* (runStopHook, finishLoop, reportWorkerFailure).
LEMMA GoroutineStepFits ==
    ASSUME LoopTypeOK, LoopInv, ServiceInv, Indebted, LoopInv', LoopTypeOK',
           NEW g \in Generation, UserSignals(g) \/ LoopReturns(g) \/ LoopInternal(g)
    PROVE  [Contract!Next]_(Contract!vars)
<1>a. rec \in WorkerState /\ g # 0 /\ loop[g] \in Loop
  BY RecordAssumption DEF LoopTypeOK, Generation
<1>b. Hook = HookOf(state, attempt) /\ Hook' = HookOf(state', attempt')
  BY HookIsOpenAttempt, NextHookIsOpenAttempt
<1>c. loop[g].pc \notin {"none", "close", "done"} => current = g
  BY DEF LoopInv, CurrentIsLive, Live
<1>1. CASE UserSignals(g)
  <2>1. UNCHANGED <<state, current, attempt, loop, uncleaned>>
    BY <1>1 DEF UserSignals
  <2>2. Hook' = Hook /\ LoopServing' = LoopServing
    BY <1>b, <2>1 DEF LoopServing
  <2>3. rec'.generation = rec.generation
    BY <1>1, <1>a, GenerationKept DEF UserSignals
  <2>4. CASE rec'.lifecycle = rec.lifecycle
    BY <2>1, <2>2, <2>3, <2>4, HiddenStep
  <2>5. CASE rec'.lifecycle # rec.lifecycle
    <3>1. HandleMayReport(rec, g) /\ rec' = Reported(rec)
      <4>1. \A b \in BOOLEAN : ReadySet(rec, b).lifecycle = rec.lifecycle
        BY <1>a, RecordEffects
      <4> QED
        BY <1>1, <2>5, <4>1 DEF UserSignals
    <3>2. rec.lifecycle \in {"running", "draining"} /\ rec'.lifecycle = "failed"
      BY <1>a, <2>5, <3>1, OutcomeEffects DEF HandleMayReport, Reportable
    <3>3. Contract!Break
      BY <2>1, <2>2, <2>3, <3>2 DEF Contract!Break, Contract!InService
    <3> QED
      BY <3>3 DEF Contract!Next
  <2> QED
    BY <2>4, <2>5
<1>2. CASE LoopReturns(g)
  <2>1. loop[g].pc = "running" /\ loop'[g].pc = "exited" /\ current = g
    BY <1>2, <1>a, <1>c DEF LoopReturns, LoopTypeOK, Loop
  <2>2. UNCHANGED <<rec, state, current, attempt, uncleaned>>
    BY <1>2 DEF LoopReturns
  <2>3. Hook' = Hook /\ LoopServing' = LoopServing
    BY <1>a, <1>b, <2>1, <2>2 DEF LoopServing
  <2> QED
    BY <2>2, <2>3, HiddenStep
<1>3. CASE LoopBeginCleanup(g)
  <2>1. /\ loop[g].pc = "cleanup" /\ loop'[g].pc = "hook" /\ current = g
        /\ attempt = "nil" /\ uncleaned /\ state # "starting"
    BY <1>3, <1>a, <1>c DEF LoopBeginCleanup, LoopGoTo, LoopTypeOK, Indebted, Before,
       LoopInv, AttemptMatches, CurrentIsLive
  <2>2. UNCHANGED <<rec, state, current, uncleaned>> /\ attempt' = "running"
    BY <1>3 DEF LoopBeginCleanup
  <2>3. LoopServing = 0 /\ LoopServing' = 0
    BY <2>1, <2>2 DEF LoopServing
  <2>4. Hook = "none" /\ Hook' = "cleanup"
    BY <1>b, <2>1, <2>2 DEF HookOf
  <2>5. Contract!EnterCleanup
    BY <2>1, <2>2, <2>3, <2>4 DEF Contract!EnterCleanup, Contract!NoUserCode
  <2> QED
    BY <2>5 DEF Contract!Next
<1>4. CASE LoopCleanup(g)
  <2>1. /\ loop[g].pc = "hook" /\ loop'[g].pc = "finish" /\ current = g
        /\ attempt = "running" /\ state # "starting"
    BY <1>4, <1>a, <1>c DEF LoopCleanup, LoopGoTo, LoopTypeOK, LoopInv, AttemptMatches,
       CurrentIsLive
  <2>2. UNCHANGED <<rec, state, current>>
    BY <1>4 DEF LoopCleanup
  <2>3. LoopServing = 0 /\ LoopServing' = 0
    BY <2>1, <2>2 DEF LoopServing
  <2>4. \/ attempt' = "complete" /\ uncleaned' = FALSE
        \/ attempt' = "failed" /\ uncleaned' = uncleaned
    BY <1>4 DEF LoopCleanup, LoopTypeOK
  <2>5. Hook = "cleanup" /\ Hook' = "none"
    BY <1>b, <2>1, <2>2, <2>4 DEF HookOf
  <2>6. Contract!LeaveCleanup
    BY <2>1, <2>2, <2>3, <2>4, <2>5 DEF Contract!LeaveCleanup
  <2> QED
    BY <2>6 DEF Contract!Next
<1>5. CASE FinishLoop(g)
  <2>1. loop[g].pc = "finish" /\ current = g /\ state # "starting"
    BY <1>5, <1>a, <1>c DEF FinishLoop, LoopInv, CurrentIsLive
  <2>2. current' = 0 /\ state' = "stopped" /\ UNCHANGED <<rec, attempt, uncleaned>>
    BY <1>5, <2>1 DEF FinishLoop
  <2>3. LoopServing' = LoopServing
    BY <2>1, <2>2 DEF LoopServing
  <2>4. Hook' = Hook
    BY <1>b, <2>1, <2>2 DEF HookOf
  <2> QED
    BY <2>2, <2>3, <2>4, HiddenStep
<1>6. CASE CloseDone(g)
  <2>1. UNCHANGED <<rec, state, current, attempt, uncleaned>>
    BY <1>6 DEF CloseDone
  <2>2. current # g
    BY <1>6 DEF CloseDone, LoopInv, CurrentIsLive, Live
  <2>3. loop'[current] = loop[current] \/ current = 0
    BY <1>6, <2>2, RecordAssumption DEF CloseDone, LoopGoTo, LoopTypeOK, Generation
  <2>4. Hook' = Hook /\ LoopServing' = LoopServing
    BY <1>b, <2>1, <2>3 DEF LoopServing
  <2> QED
    BY <2>1, <2>4, HiddenStep
<1> QED
  BY <1>1, <1>2, <1>3, <1>4, <1>5, <1>6, LoopEndFits DEF LoopInternal

LEMMA StepFits ==
    ASSUME LoopTypeOK, LoopInv, ServiceInv, Indebted, LoopTypeOK', LoopInv', [Next]_vars
    PROVE  [Contract!Next]_(Contract!vars)
<1>1. CASE Operation
  BY <1>1, RecordStepFits
<1>2. CASE Internal
  BY <1>2, RecordStepFits, StartStepFits, StopStepFits DEF Internal
<1>3. CASE \E g \in Generation : UserSignals(g) \/ LoopReturns(g) \/ LoopInternal(g)
  BY <1>3, GoroutineStepFits
<1>4. CASE UNCHANGED vars
  <2>1. Hook' = Hook /\ LoopServing' = LoopServing
    BY <1>4 DEF vars, Hook, LoopServing
  <2> QED
    BY <1>4, <2>1, HiddenStep DEF vars
<1> QED
  BY <1>1, <1>2, <1>3, <1>4 DEF Next

\* A LoopWorker keeps LoopContract: each of its steps is one of the contract, or
\* none. Whatever Stop gave up on and whatever a loop cleaned up by itself, user code
\* runs one piece at a time, a launch follows the cleanup of the loop before, and
\* no cleanup follows one that succeeded (loop.go).
THEOREM LoopImplementsContract == Spec => ImplementsLoopContract
<1>1. Init => Contract!Init /\ Indebted
  <2> SUFFICES ASSUME Init PROVE Contract!Init /\ Indebted
    OBVIOUS
  <2>1. /\ op.pc = "idle" /\ current = 0 /\ attempt = "nil" /\ uncleaned = FALSE
        /\ \A g \in Generation : loop[g].pc = "none"
        /\ rec.lifecycle = "registered" /\ rec.generation = 0
    BY DEF Init, IdleOp, NoLoop, NewWorkerState
  <2>2. Hook = "none" /\ LoopServing = 0
    BY <2>1 DEF Hook, LoopServing
  <2> QED
    BY <2>1, <2>2 DEF Contract!Init, Indebted, Before
<1>2. LoopTypeOK /\ LoopInv /\ ServiceInv /\ Indebted /\ LoopTypeOK' /\ LoopInv' /\ [Next]_vars
         => [Contract!Next]_(Contract!vars)
  BY StepFits
<1>3. LoopTypeOK /\ LoopInv /\ Indebted /\ [Next]_vars => Indebted'
  BY IndebtedStep
<1> QED
  BY <1>1, <1>2, <1>3, ServiceInvariant, PTL DEF Spec, ImplementsLoopContract, Contract!Spec

\* A step of the contract moves the worker through the automaton of the runtime.
LEMMA ContractMovesAutomaton == [Contract!Next]_(Contract!vars) => [Automaton!Next]_(Automaton!vars)
<1> SUFFICES ASSUME [Contract!Next]_(Contract!vars) PROVE [Automaton!Next]_(Automaton!vars)
  OBVIOUS
<1> DEFINE l == [w \in {Self} |-> rec.lifecycle]
           n == [w \in {Self} |-> rec.generation]
<1>a. ASSUME NEW x, rec'.lifecycle = x PROVE l' = [l EXCEPT ![Self] = x]
  BY <1>a
<1>b. rec'.generation = rec.generation => n' = n
  OBVIOUS
<1>c. rec'.generation = rec.generation + 1 => n' = [n EXCEPT ![Self] = @ + 1]
  OBVIOUS
<1>d. l[Self] = rec.lifecycle
  OBVIOUS
<1>e. rec.lifecycle \notin {"starting", "stopping"} => Automaton!Quiet
  BY DEF Automaton!Quiet
<1>1. CASE Contract!Start
  <2>1. Automaton!Start(Self)
    BY <1>1, <1>a, <1>c, <1>e DEF Contract!Start, Automaton!Start, Automaton!Move,
       Automaton!Startable, Contract!Startable
  <2> QED
    BY <2>1 DEF Automaton!Next
<1>2. CASE Contract!Started
  <2>1. Automaton!Started(Self)
    BY <1>2, <1>a, <1>b DEF Contract!Started, Automaton!Started, Automaton!Move
  <2> QED
    BY <2>1 DEF Automaton!Next
<1>3. CASE Contract!Drain
  <2>1. Automaton!Drain(Self)
    BY <1>3, <1>a, <1>b, <1>e DEF Contract!Drain, Automaton!Drain, Automaton!Move
  <2> QED
    BY <2>1 DEF Automaton!Next
<1>4. CASE Contract!Stop
  <2>1. Automaton!Stop(Self)
    BY <1>4, <1>a, <1>b, <1>e DEF Contract!Stop, Automaton!Stop, Automaton!Move,
       Automaton!Stoppable, Contract!Stoppable
  <2> QED
    BY <2>1 DEF Automaton!Next
<1>5. CASE Contract!Stopped
  <2>1. Automaton!Stopped(Self)
    BY <1>5, <1>a, <1>b DEF Contract!Stopped, Automaton!Stopped, Automaton!Move
  <2> QED
    BY <2>1 DEF Automaton!Next
<1>6. ASSUME rec.lifecycle \in {"running", "draining"}, rec'.lifecycle = "failed",
             rec'.generation = rec.generation
      PROVE  Automaton!Next
  <2>1. Automaton!Break(Self)
    BY <1>6, <1>a, <1>b DEF Automaton!Break, Automaton!Move
  <2> QED
    BY <2>1 DEF Automaton!Next
<1>7. ASSUME UNCHANGED <<rec.lifecycle, rec.generation>> PROVE UNCHANGED Automaton!vars
  BY <1>7 DEF Automaton!vars
<1>8. CASE Contract!Break \/ Contract!LoopEnds
  BY <1>6, <1>7, <1>8 DEF Contract!Break, Contract!LoopEnds, Contract!InService
<1>9. CASE \/ Contract!EnterStart \/ Contract!StartFails \/ Contract!Launch
           \/ Contract!EnterCleanup \/ Contract!LeaveCleanup \/ UNCHANGED Contract!vars
  BY <1>7, <1>9 DEF Contract!EnterStart, Contract!StartFails, Contract!Launch,
     Contract!EnterCleanup, Contract!LeaveCleanup, Contract!vars
<1> QED
  BY <1>1, <1>2, <1>3, <1>4, <1>5, <1>8, <1>9 DEF Contract!Next

\* The record of a LoopWorker moves as LifecycleContract says that of every worker
\* does, however the reports of its loops race with Start and Stop (runtime.go).
THEOREM LoopImplementsLifecycle == Spec => ImplementsLifecycle
<1>1. Init => Automaton!Init
  BY DEF Init, NewWorkerState, Automaton!Init
<1>2. ImplementsLoopContract => [][Automaton!Next]_(Automaton!vars)
  BY ContractMovesAutomaton, PTL DEF ImplementsLoopContract, Contract!Spec
<1> QED
  BY <1>1, <1>2, LoopImplementsContract, PTL DEF Spec, ImplementsLifecycle, Automaton!Spec
=============================================================================
