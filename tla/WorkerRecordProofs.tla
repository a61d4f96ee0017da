------------------------- MODULE WorkerRecordProofs -------------------------
(***************************************************************************)
(* Lemmas about the transitions of a worker record, for the proofs about   *)
(* the runtime and about the loop worker.                                  *)
(***************************************************************************)
EXTENDS WorkerRecord, TLAPS

\* Every locked transition of a worker record yields a worker record.
LEMMA TransformerTypes ==
    ASSUME NEW w, NEW s \in WorkerState, NEW gen
    PROVE  /\ Failed(s) \in WorkerState
           /\ CleanupFailed(s) \in WorkerState
           /\ s.generation < MaxGeneration => BegunStart(s) \in WorkerState
           /\ BegunStop(s) \in WorkerState
           /\ Drained(s) \in WorkerState
           /\ CompletedStart(w, s) \in WorkerState
           /\ CompletedStop(s) \in WorkerState
           /\ Reported(s) \in WorkerState
           /\ CommandFailed(s, gen) \in WorkerState
           /\ CommandPanicked(s, gen) \in WorkerState
<1>a. {"starting", "running", "draining", "stopping", "stopped", "failed"}
          \subseteq LifecycleState
  BY DEF LifecycleState
<1>b. {"nil", "primary", "cleanup"} = Failure
  BY DEF Failure
<1>1. Failed(s) \in WorkerState
  BY <1>a, <1>b DEF Failed, WorkerState
<1>2. CleanupFailed(s) \in WorkerState
  BY <1>1, <1>b DEF CleanupFailed, WorkerState
<1>3. s.generation < MaxGeneration => BegunStart(s) \in WorkerState
  <2>1. s.generation < MaxGeneration => s.generation + 1 \in 0 .. MaxGeneration
    BY RecordAssumption DEF RecordAssumption, WorkerState
  <2> QED
    BY <2>1, <1>a DEF BegunStart, WorkerState
<1>4. BegunStop(s) \in WorkerState /\ Drained(s) \in WorkerState
  BY <1>a DEF BegunStop, Drained, WorkerState
<1>5. CompletedStart(w, s) \in WorkerState
  <2>1. PICK r \in BOOLEAN :
            r = (IF s.readySetDuringStart THEN s.ready ELSE w \in ReadyOnStart)
    <3>1. s.ready \in BOOLEAN /\ (w \in ReadyOnStart) \in BOOLEAN
      BY DEF WorkerState
    <3> QED
      BY <3>1, Zenon
  <2>2. PICK a \in BOOLEAN :
            a = (IF s.acceptingWorkSetDuringStart THEN s.acceptingWork ELSE w \in AcceptOnStart)
    <3>1. s.acceptingWork \in BOOLEAN /\ (w \in AcceptOnStart) \in BOOLEAN
      BY DEF WorkerState
    <3> QED
      BY <3>1, Zenon
  <2>3. CASE s.failureReportedDuringStart
    BY <2>3, <1>a DEF CompletedStart, WorkerState
  <2>4. CASE ~ s.failureReportedDuringStart
    <3>1. CompletedStart(w, s) =
             [s EXCEPT !.lifecycle = "running", !.ready = r, !.acceptingWork = a,
                       !.readySetDuringStart = FALSE, !.acceptingWorkSetDuringStart = FALSE,
                       !.lastFailure = "nil"]
      BY <2>1, <2>2, <2>4, Zenon DEF CompletedStart
    <3> QED
      BY <3>1, <1>a, <1>b DEF WorkerState
  <2> QED
    BY <2>3, <2>4
<1>6. CompletedStop(s) \in WorkerState
  BY <1>a DEF CompletedStop, WorkerState
<1>7. Reported(s) \in WorkerState
  <2>1. CASE s.lifecycle = "starting"
    BY <2>1, <1>a, <1>b DEF Reported, WorkerState
  <2>2. CASE s.lifecycle = "stopping"
    BY <2>2, <1>a, <1>b DEF Reported, WorkerState
  <2>3. CASE s.lifecycle \notin {"starting", "stopping"}
    BY <2>3, <1>1 DEF Reported
  <2> QED
    BY <2>1, <2>2, <2>3
<1>8. CommandFailed(s, gen) \in WorkerState
  BY DEF CommandFailed, WorkerState
<1>9. CommandPanicked(s, gen) \in WorkerState
  BY <1>1 DEF CommandPanicked, WorkerState
<1> QED
  BY <1>1, <1>2, <1>3, <1>4, <1>5, <1>6, <1>7, <1>8, <1>9

\* So do the signals of a handle.
LEMMA SignalTypes ==
    ASSUME NEW s \in WorkerState, NEW b \in BOOLEAN
    PROVE  ReadySet(s, b) \in WorkerState /\ AcceptingWorkSet(s, b) \in WorkerState
<1>1. PICK f \in BOOLEAN : f = (s.readySetDuringStart \/ s.lifecycle = "starting")
  OBVIOUS
<1>2. ReadySet(s, b) = [s EXCEPT !.ready = b, !.readySetDuringStart = f]
  BY <1>1 DEF ReadySet, WorkerState
<1>3. PICK h \in BOOLEAN : h = (s.acceptingWorkSetDuringStart \/ s.lifecycle = "starting")
  OBVIOUS
<1>4. AcceptingWorkSet(s, b) =
         [s EXCEPT !.acceptingWork = b, !.acceptingWorkSetDuringStart = h]
  BY <1>3 DEF AcceptingWorkSet, WorkerState
<1> QED
  BY <1>2, <1>4 DEF WorkerState

\* Only a start opens a generation.
LEMMA GenerationKept ==
    ASSUME NEW w, NEW s \in WorkerState, NEW b
    PROVE  /\ \A t \in {Failed(s), CleanupFailed(s), BegunStop(s), Drained(s),
                        CompletedStart(w, s), CompletedStop(s), Reported(s),
                        ReadySet(s, b)} : t.generation = s.generation
           /\ BegunStart(s).generation = s.generation + 1
<1> USE DEF WorkerState
<1>1. /\ Failed(s).generation = s.generation
      /\ BegunStop(s).generation = s.generation
      /\ Drained(s).generation = s.generation
      /\ CompletedStop(s).generation = s.generation
      /\ ReadySet(s, b).generation = s.generation
      /\ BegunStart(s).generation = s.generation + 1
  BY DEF Failed, BegunStop, Drained, CompletedStop, ReadySet, BegunStart
<1>2. CompletedStart(w, s).generation = s.generation
  BY DEF CompletedStart
<1>3. CleanupFailed(s).generation = s.generation
  BY DEF CleanupFailed, Failed
<1>4. Reported(s).generation = s.generation
  BY DEF Reported, Failed
<1> QED
  BY <1>1, <1>2, <1>3, <1>4
=============================================================================
