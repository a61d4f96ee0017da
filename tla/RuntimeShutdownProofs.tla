------------------------ MODULE RuntimeShutdownProofs ------------------------
(***************************************************************************)
(* What the runtime-wide operations guarantee, for every number of workers *)
(* and callers: the admission cutoff of StopAll and Shutdown, the order in *)
(* which workers are started and stopped, what a nil error promises, and   *)
(* what that comes to for the Servekit service, which is one such caller.  *)
(***************************************************************************)
EXTENDS ServekitServiceProperties, WorkerRuntimeProofs

-----------------------------------------------------------------------------
(* The shape of a call: what its operation says of where it stands *)

PhaseFits(r) ==
    \/ r.phase = PhaseOf(r.op)
    \/ r.op = "Shutdown" /\ r.phase = "stop" /\ r.pc \notin {"waiting", "close"}

Shaped(r) ==
    /\ r.pc \in {"close", "reopen"} => r.op \in ClosingOps
    /\ r.pc = "waitIdle" => r.op = "Shutdown"

WellShaped == \A c \in Caller : PhaseFits(call[c]) /\ Shaped(call[c])

\* The cutoff that a call restores when it is done is an open one.
CutoffFromOpen == \A c \in Caller : InCutoff(c) => ~ call[c].wasClosed

CutoffInv == WellShaped /\ CutoffFromOpen /\ CutoffScoped /\ ShutdownStopsIdleRuntime

-----------------------------------------------------------------------------
(* The walk of a runtime-wide operation *)

Distinct ==
    \A i, j \in 1 .. Len(workerOrder) : workerOrder[i] = workerOrder[j] => i = j

\* The k-th worker of a snapshot.
Place(phase, k) ==
    workerOrder[IF phase = "stop" THEN Len(workerOrder) + 1 - k ELSE k]

Touring(c) == call[c].op \notin SingleOps /\ (At(c, "walk") \/ InUserCode(c))

\* How many entries of the snapshot the walk is past, or at.
Passed(c) == Len(workerOrder) - Len(call[c].walk)

\* The state st of a snapshot and the state l of the worker afterwards, while
\* the gate is held: only a failure comes between.
Drifted(st, l) == st = l \/ (st \in {"running", "draining"} /\ l = "failed")

\* What is left of the walk is the end of the snapshot.
WalkIsRest(c) ==
    /\ Len(call[c].walk) <= Len(workerOrder)
    /\ \A k \in 1 .. Len(call[c].walk) :
          /\ call[c].walk[k].worker = Place(call[c].phase, Passed(c) + k)
          /\ Drifted(call[c].walk[k].state, ws[call[c].walk[k].worker].lifecycle)
    /\ InUserCode(c) =>
          Passed(c) > 0 /\ call[c].worker = Place(call[c].phase, Passed(c))

\* What the walk leaves behind it.
Settled(phase, err, l) ==
    \/ phase = "start" /\ l \in {"running", "failed"}
    \/ phase = "drain" /\ l \notin {"running", "starting", "stopping"}
    \/ phase = "stop"  /\ l \in {"registered", "stopped"}
    \/ phase = "stop"  /\ l = "failed" /\ err

\* Neither an error nor a panic keeps the operation from its next worker.
Unbroken(op) == KeepsGoing(op) /\ CrashOnPanic = {}

CutShort(c) ==
    At(c, "walk") /\ call[c].walk = << >> /\ call[c].err /\ ~ Unbroken(call[c].op)

PassedSettled(c) ==
    ~ CutShort(c) =>
       \A m \in 1 .. Passed(c) :
          \/ InUserCode(c) /\ m = Passed(c)
          \/ Settled(call[c].phase, call[c].err, ws[Place(call[c].phase, m)].lifecycle)

\* The operation has been to every worker, with an error or without one. Shutdown
\* does not get to the stop when its context ends first.
ToTheEnd(r) == ~ r.err \/ (Unbroken(r.op) /\ (r.op = "Shutdown" => ~ r.expired))

\* A runtime-wide operation that got to its end leaves every worker settled.
Done(c) ==
    call[c].op \notin SingleOps /\ call[c].pc \in {"reopen", "release"} /\ ToTheEnd(call[c]) =>
       /\ call[c].op \in ClosingOps => call[c].phase = "stop"
       /\ \A w \in Registered : Settled(call[c].phase, call[c].err, ws[w].lifecycle)

Toured(c) == (Touring(c) => WalkIsRest(c) /\ PassedSettled(c)) /\ Done(c)

WalkInv == Distinct /\ \A c \in Caller : Toured(c)

-----------------------------------------------------------------------------
(* How a call goes from one point to the next *)

\* The points a call r and the same call t after a step are at, once entered.
Edge(r, t) ==
    /\ t.op = r.op
    /\ \/ t.pc = r.pc
       \/ /\ r.pc = "waiting"
          /\ t.pc = (IF r.op \in ClosingOps THEN "close"
                     ELSE IF r.op \in SingleOps THEN "walk" ELSE "snapshot")
       \/ r.pc = "close" /\ t.pc = "snapshot"
       \/ r.pc = "snapshot" /\ t.pc = "walk"
       \/ r.pc = "walk" /\ t.pc = "user"
       \/ r.pc = "walk" /\ t.pc = "waitIdle" /\ r.op = "Shutdown"
       \/ r.pc = "walk" /\ t.pc = (IF r.op \in ClosingOps THEN "reopen" ELSE "release")
       \/ r.pc = "waitIdle" /\ t.pc \in {"snapshot", "reopen"}
       \/ r.pc \in {"user", "backoff"} /\ t.pc \in {"user", "backoff", "settle"}
       \/ r.pc = "settle" /\ t.pc = "walk"
       \/ r.pc = "reopen" /\ t.pc = "release"

\* What a step of a call does to its phase, its cutoff and the admission flag.
KeepsCutoff(r, t) ==
    /\ t.phase = r.phase
    /\ t.wasClosed = r.wasClosed
    /\ admissionClosed' = admissionClosed

\* The steps of a caller, by what they do to the call (runLifecycle,
\* runWithCommandAdmissionClosed and the operations' own code).
LEMMA CallEdges ==
    ASSUME TypeOK, NEW c \in Caller, CallerStep(c)
    PROVE  \/ /\ At(c, "idle") /\ call'[c].pc = "waiting"
              /\ call'[c].phase = PhaseOf(call'[c].op)
              /\ UNCHANGED admissionClosed
           \/ /\ call[c].pc \in {"waiting", "release"} /\ call'[c] = IdleCall
              /\ UNCHANGED admissionClosed
           \/ /\ ~ At(c, "idle") /\ Edge(call[c], call'[c])
              /\ \/ KeepsCutoff(call[c], call'[c]) /\ (At(c, "close") => call'[c].pc = "close")
                    /\ (At(c, "reopen") => call'[c].pc = "reopen")
                 \/ CloseAdmission(c) \/ Reopen(c) \/ WaitedIdle(c)
<1> USE DEF TypeOK, At
<1>a. call[c] \in CallState
  OBVIOUS
<1>1. ASSUME NEW op, NEW by, Enter(c, op, by)
      PROVE  /\ At(c, "idle") /\ call'[c].pc = "waiting"
             /\ call'[c].phase = PhaseOf(call'[c].op)
             /\ UNCHANGED admissionClosed
  <2> DEFINE r(walk, ended) ==
                [IdleCall EXCEPT !.pc = "waiting", !.op = op, !.by = by,
                                 !.phase = PhaseOf(op), !.expired = ended,
                                 !.walk = walk]
  <2>1. PICK walk, ended : call' = [call EXCEPT ![c] = r(walk, ended)]
    BY <1>1 DEF Enter
  <2>2. r(walk, ended).pc = "waiting" /\ r(walk, ended).phase = PhaseOf(r(walk, ended).op)
    BY DEF IdleCall
  <2> HIDE DEF r
  <2> QED
    BY <1>1, <2>1, <2>2 DEF Enter
<1>2. CASE Abandon(c) \/ Release(c)
  BY <1>2 DEF Abandon, Release
<1> DEFINE Kept == /\ ~ At(c, "idle") /\ Edge(call[c], call'[c])
                   /\ KeepsCutoff(call[c], call'[c])
                   /\ At(c, "close") => call'[c].pc = "close"
                   /\ At(c, "reopen") => call'[c].pc = "reopen"
<1> USE DEF Edge, KeepsCutoff
<1>3. ASSUME Expire(c) PROVE Kept
  BY <1>3, <1>a DEF Expire, CallState
<1>4. ASSUME Acquire(c) PROVE Kept
  BY <1>4, <1>a DEF Acquire, CallState
<1>5. CASE CloseAdmission(c)
  BY <1>5, <1>a DEF CloseAdmission, CallState
<1>6. CASE Reopen(c)
  BY <1>6, <1>a DEF Reopen, CallState
<1>7. ASSUME Snapshot(c) PROVE Kept
  BY <1>7, <1>a DEF Snapshot, CallState
<1>8. ASSUME Skip(c) \/ Reject(c) \/ Drain(c) PROVE Kept
  BY <1>8, <1>a DEF Skip, Reject, Drain, CanBegin, Walking, CallState
<1>9. ASSUME BeginStart(c) \/ BeginStop(c) PROVE Kept
  BY <1>9, <1>a DEF BeginStart, BeginStop, CanBegin, Walking, CallUser, CallState
<1>10. ASSUME WalkDone(c) PROVE Kept
  BY <1>10, <1>a DEF WalkDone, CallState
<1>11. CASE WaitedIdle(c)
  BY <1>11, <1>a DEF WaitedIdle, CallState
<1>12. ASSUME WaitExpired(c) PROVE Kept
  BY <1>12, <1>a DEF WaitExpired, CallState
<1>13. ASSUME UserEnds(c) PROVE Kept
  BY <1>13, <1>a DEF UserEnds, UserReturns, UserFails, UserCleanupFails, Settling, CallState
<1>14. ASSUME Retry(c) \/ BackoffElapses(c) \/ BackoffExpires(c) PROVE Kept
  BY <1>14, <1>a DEF Retry, BackoffElapses, BackoffExpires, Settling, CallState
<1>15. ASSUME Complete(c) \/ Fail(c) PROVE Kept
  BY <1>15, <1>a DEF Complete, Fail, Proceed, CallState
<1> HIDE DEF Edge, KeepsCutoff, At
<1> QED
  BY <1>1, <1>2, <1>3, <1>4, <1>5, <1>6, <1>7, <1>8, <1>9, <1>10, <1>11, <1>12, <1>13,
     <1>14, <1>15
  DEF CallerStep, Internal, Invoke, InvokeFromHandler

-----------------------------------------------------------------------------
(* The admission cutoff *)

\* Steps that no lifecycle call takes leave the calls and the cutoff alone.
LEMMA CallsUntouched ==
    ASSUME TypeOK, [Next]_vars, ~ \E c \in Caller : CallerStep(c)
    PROVE  UNCHANGED <<call, admissionClosed>>
  BY SignalFrame, CommandFrame DEF Next, Register, vars

\* A call keeps its shape: Shutdown drains before it stops, and only StopAll and
\* Shutdown close and reopen admission.
LEMMA ShapeStep == TypeOK /\ WellShaped /\ [Next]_vars => WellShaped'
<1> SUFFICES ASSUME TypeOK, WellShaped, [Next]_vars PROVE WellShaped'
  OBVIOUS
<1>1. ASSUME NEW c \in Caller, CallerStep(c) PROVE WellShaped'
  <2>1. \A k \in Caller : k # c => call'[k] = call[k]
    BY <1>1, GateFrame
  <2> DEFINE r == call[c]
             t == call'[c]
  <2>2. PhaseFits(r) /\ Shaped(r)
    BY DEF WellShaped
  <2>3. CASE t.pc = "waiting" /\ t.phase = PhaseOf(t.op)
    BY <2>1, <2>3 DEF WellShaped, PhaseFits, Shaped
  <2>4. CASE t = IdleCall
    <3>1. PhaseFits(IdleCall) /\ Shaped(IdleCall)
      BY DEF IdleCall, PhaseFits, Shaped, PhaseOf
    <3> QED
      BY <2>1, <2>4, <3>1 DEF WellShaped
  <2>5. ASSUME Edge(r, t) PROVE Shaped(t)
    BY <2>2, <2>5 DEF Edge, Shaped, ClosingOps
  <2>6. CASE Edge(r, t) /\ t.phase = r.phase
    <3>1. PhaseFits(t)
      BY <2>2, <2>6 DEF Edge, PhaseFits
    <3> QED
      BY <2>1, <2>5, <2>6, <3>1 DEF WellShaped
  <2>7. CASE CloseAdmission(c) \/ Reopen(c)
    <3>1. t.phase = r.phase
      BY <2>7 DEF CloseAdmission, Reopen, TypeOK, CallState
    <3> QED
      BY <1>1, <2>3, <2>4, <2>6, <3>1, CallEdges
  <2>8. CASE WaitedIdle(c)
    <3>1. t.pc = "snapshot" /\ t.phase = "stop" /\ t.op = r.op /\ r.pc = "waitIdle"
      BY <2>8 DEF WaitedIdle, TypeOK, CallState, At
    <3>2. PhaseFits(t) /\ Shaped(t)
      BY <2>2, <3>1 DEF PhaseFits, Shaped, PhaseOf, ClosingOps
    <3> QED
      BY <2>1, <3>2 DEF WellShaped
  <2> HIDE DEF r, t
  <2> QED
    BY <1>1, <2>3, <2>4, <2>6, <2>7, <2>8, CallEdges DEF KeepsCutoff, r, t
<1>2. CASE UNCHANGED call
  BY <1>2 DEF WellShaped
<1> QED
  BY <1>1, <1>2, CallsUntouched

\* Within the cutoff a call holds the gate.
LEMMA CutoffHoldsGate == \A c \in Caller : InCutoff(c) => HoldsGate(c)
  BY DEF InCutoff, HoldsGate

\* The cutoff is entered by CloseAdmission and left by Reopen.
LEMMA CutoffFrame ==
    ASSUME TypeOK, WellShaped, NEW c \in Caller, CallerStep(c)
    PROVE  \/ CloseAdmission(c) \/ Reopen(c)
           \/ /\ admissionClosed' = admissionClosed
              /\ InCutoff(c)' <=> InCutoff(c)
              /\ InCutoff(c) => call'[c].wasClosed = call[c].wasClosed
<1>1. CASE At(c, "idle") /\ call'[c].pc = "waiting"
  BY <1>1, CallEdges DEF InCutoff, At, Edge
<1>2. CASE call[c].pc \in {"waiting", "release"} /\ call'[c] = IdleCall
  <2>1. call'[c].pc = "idle"
    BY <1>2 DEF IdleCall
  <2>2. UNCHANGED admissionClosed
    BY <1>2, <2>1, CallEdges DEF Edge, At, KeepsCutoff, CloseAdmission, Reopen
  <2> QED
    BY <1>2, <2>1, <2>2 DEF InCutoff
<1>3. CASE /\ Edge(call[c], call'[c]) /\ KeepsCutoff(call[c], call'[c])
           /\ At(c, "close") => call'[c].pc = "close"
           /\ At(c, "reopen") => call'[c].pc = "reopen"
           /\ ~ At(c, "idle")
  <2>1. call'[c].op = call[c].op
    BY <1>3 DEF Edge
  <2>2. CASE call[c].op \notin ClosingOps
    BY <1>3, <2>1, <2>2 DEF InCutoff, KeepsCutoff
  <2>3. CASE call[c].op \in ClosingOps
    <3>1. call[c].pc \in {"waiting", "close", "release"} <=>
             call'[c].pc \in {"waiting", "close", "release"}
      BY <1>3, <2>3 DEF Edge, At
    <3>2. call'[c].pc # "idle"
      BY <1>3 DEF Edge, At
    <3> QED
      BY <1>3, <2>1, <3>1, <3>2 DEF InCutoff, KeepsCutoff, At
  <2> QED
    BY <2>2, <2>3
<1>4. CASE WaitedIdle(c)
  <2>1. /\ call[c].pc = "waitIdle" /\ call'[c].pc = "snapshot"
        /\ call'[c].op = call[c].op /\ call'[c].wasClosed = call[c].wasClosed
        /\ UNCHANGED admissionClosed
    BY <1>4 DEF WaitedIdle, At, TypeOK, CallState
  <2> QED
    BY <2>1 DEF InCutoff
<1> QED
  BY <1>1, <1>2, <1>3, <1>4, CallEdges

\* Admission is closed exactly within a cutoff, and each cutoff restores an open
\* admission.
LEMMA CutoffStep ==
    TypeOK /\ GateExclusive /\ WellShaped /\ CutoffFromOpen /\ CutoffScoped /\ [Next]_vars
        => CutoffFromOpen' /\ CutoffScoped'
<1> SUFFICES ASSUME TypeOK, GateExclusive, WellShaped, CutoffFromOpen, CutoffScoped, [Next]_vars
             PROVE  CutoffFromOpen' /\ CutoffScoped'
  OBVIOUS
<1> USE DEF CutoffFromOpen, CutoffScoped
<1>1. CASE UNCHANGED <<call, admissionClosed>>
  BY <1>1 DEF InCutoff
<1>2. ASSUME NEW c \in Caller, CallerStep(c) PROVE CutoffFromOpen' /\ CutoffScoped'
  <2>1. /\ \A k \in Caller : k # c => call'[k] = call[k]
        /\ \A k \in Caller : k # c => (InCutoff(k)' <=> InCutoff(k))
    BY <1>2, GateFrame DEF InCutoff
  <2>2. ASSUME HoldsGate(c) PROVE \A k \in Caller : k # c => ~ InCutoff(k)
    BY <2>2, CutoffHoldsGate DEF GateExclusive
  <2>3. CASE CloseAdmission(c)
    <3>1. /\ call[c].pc = "close" /\ call'[c].pc = "snapshot"
          /\ call'[c].op = call[c].op /\ call'[c].wasClosed = admissionClosed
          /\ admissionClosed' = TRUE
      BY <2>3 DEF CloseAdmission, At, TypeOK, CallState
    <3>2. call[c].op \in ClosingOps
      BY <3>1 DEF WellShaped, Shaped
    <3>3. HoldsGate(c) /\ ~ InCutoff(c) /\ InCutoff(c)'
      BY <3>1, <3>2 DEF HoldsGate, InCutoff
    <3> QED
      BY <2>1, <2>2, <3>1, <3>3
  <2>4. CASE Reopen(c)
    <3>1. /\ call[c].pc = "reopen" /\ call'[c].pc = "release"
          /\ admissionClosed' = call[c].wasClosed
      BY <2>4 DEF Reopen, At, TypeOK, CallState
    <3>2. call[c].op \in ClosingOps
      BY <3>1 DEF WellShaped, Shaped
    <3>3. HoldsGate(c) /\ InCutoff(c) /\ ~ InCutoff(c)'
      BY <3>1, <3>2 DEF HoldsGate, InCutoff
    <3> QED
      BY <2>1, <2>2, <3>1, <3>3
  <2> QED
    BY <1>2, <2>1, <2>3, <2>4, CutoffFrame
<1> QED
  BY <1>1, <1>2, CallsUntouched

\* While admission is closed no slot is taken (admitCommand's first check).
LEMMA ClosedAdmitsNothing ==
    ASSUME TypeOK, admissionClosed, [Next]_vars
    PROVE  Holding' \subseteq Holding
<1>1. ASSUME UNCHANGED cmd PROVE Holding' \subseteq Holding
  BY <1>1 DEF Holding
<1>2. ASSUME NEW d \in Dispatch, CommandStep(d) PROVE Holding' \subseteq Holding
  <2>1. ~ \E w \in Worker : Admit(d, w)
    BY DEF Admit
  <2>2. CASE HandlerReturns(d) \/ HandlerFails(d) \/ HandlerPanics(d)
    BY <2>2, HandlerEvolves DEF Holding
  <2>3. CASE ReleaseSlot(d)
    BY <2>3 DEF ReleaseSlot, Holding, TypeOK, IdleCommand
  <2> QED
    BY <1>2, <2>1, <2>2, <2>3 DEF CommandStep
<1>3. ASSUME NEW w \in Worker, Signal(w) PROVE UNCHANGED cmd
  BY <1>3, SignalFrame
<1>4. ASSUME NEW c \in Caller, CallerStep(c) PROVE UNCHANGED cmd
  BY <1>4, GateFrame
<1> QED
  BY <1>1, <1>2, <1>3, <1>4 DEF Next, Register, vars

\* Shutdown stops workers only when no command is left, and none comes back.
LEMMA ShutdownStep ==
    RuntimeInv /\ CutoffInv /\ [Next]_vars => ShutdownStopsIdleRuntime'
<1> SUFFICES ASSUME RuntimeInv, CutoffInv, [Next]_vars,
                    NEW k \in Caller, InCutoff(k)', call'[k].op = "Shutdown",
                    call'[k].phase = "stop"
             PROVE  Holding' = {}
  BY DEF ShutdownStopsIdleRuntime
<1>a. TypeOK /\ WellShaped
  BY DEF RuntimeInv, CutoffInv
<1>1. CASE WaitedIdle(k)
  <2>1. Holding = {}
    <3>1. Cardinality(Holding) = 0
      BY <1>1 DEF WaitedIdle, RuntimeInv, SlotAccounting
    <3> QED
      BY <3>1, HoldingFinite, FS_EmptySet
  <2>2. UNCHANGED cmd
    BY <1>1 DEF WaitedIdle
  <2> QED
    BY <2>1, <2>2 DEF Holding
<1>2. CASE InCutoff(k) /\ call[k].op = "Shutdown" /\ call[k].phase = "stop"
  <2>1. Holding = {} /\ admissionClosed
    BY <1>2 DEF CutoffInv, ShutdownStopsIdleRuntime, CutoffScoped, TypeOK
  <2> QED
    BY <1>a, <2>1, ClosedAdmitsNothing
<1>3. ASSUME ~ WaitedIdle(k)
      PROVE  InCutoff(k) /\ call[k].op = "Shutdown" /\ call[k].phase = "stop"
  <2>1. CASE UNCHANGED call
    BY <2>1 DEF InCutoff
  <2>2. ASSUME NEW c \in Caller, c # k, CallerStep(c) PROVE call'[k] = call[k]
    BY <1>a, <2>2, GateFrame
  <2>3. CASE CallerStep(k)
    <3>1. ~ CloseAdmission(k)
      <4>1. ASSUME CloseAdmission(k)
            PROVE  /\ call[k].pc = "close" /\ call[k].op = "Shutdown"
                   /\ call[k].phase = "stop"
        BY <1>a, <4>1 DEF CloseAdmission, At, TypeOK, CallState
      <4> QED
        BY <1>a, <4>1 DEF WellShaped, PhaseFits, PhaseOf
    <3>2. ~ Reopen(k)
      BY <1>a DEF Reopen, At, TypeOK, CallState, InCutoff
    <3>3. InCutoff(k)
      BY <1>a, <2>3, <3>1, <3>2, CutoffFrame
    <3>4. Edge(call[k], call'[k]) /\ call'[k].phase = call[k].phase
      BY <1>a, <1>3, <2>3, <3>1, <3>2, <3>3, CallEdges DEF InCutoff, KeepsCutoff, At
    <3> QED
      BY <3>3, <3>4 DEF Edge
  <2> QED
    BY <1>a, <2>1, <2>2, <2>3, CallsUntouched DEF InCutoff
<1> QED
  BY <1>1, <1>2, <1>3

\* Nothing is under way initially, and admission is open (New).
LEMMA CutoffInit == Init => CutoffInv
<1> SUFFICES ASSUME Init PROVE CutoffInv
  OBVIOUS
<1>1. \A c \in Caller : call[c] = IdleCall
  BY DEF Init
<1>2. IdleCall.pc = "idle" /\ IdleCall.op = "Start" /\ IdleCall.phase = "start"
  BY DEF IdleCall
<1>3. \A c \in Caller : ~ InCutoff(c)
  BY <1>1, <1>2 DEF InCutoff
<1>4. WellShaped
  BY <1>1, <1>2 DEF WellShaped, PhaseFits, Shaped, PhaseOf
<1> QED
  BY <1>3, <1>4 DEF Init, CutoffInv, CutoffFromOpen, CutoffScoped, ShutdownStopsIdleRuntime

\* The cutoff and the shapes of calls hold in every reachable state
\* (runWithCommandAdmissionClosed).
THEOREM CutoffInvariant == Spec => []CutoffInv
<1>1. RuntimeInv /\ CutoffInv /\ [Next]_vars => CutoffInv'
  BY ShapeStep, CutoffStep, ShutdownStep DEF CutoffInv, RuntimeInv
<1> QED
  BY <1>1, CutoffInit, RuntimeInvariant, PTL DEF Spec

\* Admission is closed exactly while StopAll or Shutdown is under way, for any
\* number of callers and every way such an operation ends.
THEOREM CutoffIsScoped == Spec => []CutoffScoped
<1>1. CutoffInv => CutoffScoped
  BY DEF CutoffInv
<1> QED
  BY <1>1, CutoffInvariant, PTL

\* Shutdown calls Worker.Stop only in a runtime without commands in flight, and
\* none is admitted until it is done (shutdown, WaitAllIdle, admitCommand).
THEOREM ShutdownStopsIdle == Spec => []ShutdownStopsIdleRuntime
<1>1. CutoffInv => ShutdownStopsIdleRuntime
  BY DEF CutoffInv
<1> QED
  BY <1>1, CutoffInvariant, PTL

\* Between the cutoff of StopAll or Shutdown and its end commands only finish:
\* the set of those in flight never grows (admitCommand).
THEOREM CutoffAdmitsNothing == Spec => NoAdmissionInCutoff
<1>1. RuntimeInv /\ CutoffInv /\ [Next]_vars =>
         ((\E c \in Caller : InCutoff(c) /\ InCutoff(c)') => Holding' \subseteq Holding)
  <2> SUFFICES ASSUME RuntimeInv, CutoffInv, [Next]_vars,
                      NEW c \in Caller, InCutoff(c)
               PROVE  Holding' \subseteq Holding
    OBVIOUS
  <2>1. TypeOK /\ admissionClosed
    BY DEF RuntimeInv, CutoffInv, CutoffScoped, TypeOK
  <2> QED
    BY <2>1, ClosedAdmitsNothing
<1> QED
  BY <1>1, RuntimeInvariant, CutoffInvariant, PTL DEF Spec, NoAdmissionInCutoff

-----------------------------------------------------------------------------
(* Places in a walk *)

\* A worker is registered once (Register).
LEMMA DistinctStep == TypeOK /\ Distinct /\ [Next]_vars => Distinct'
<1> SUFFICES ASSUME TypeOK, Distinct, [Next]_vars PROVE Distinct'
  OBVIOUS
<1>1. CASE UNCHANGED workerOrder
  BY <1>1 DEF Distinct
<1>2. ASSUME NEW w \in Worker, Register(w) PROVE Distinct'
  <2>1. w \notin Registered /\ workerOrder' = Append(workerOrder, w)
    BY <1>2 DEF Register
  <2>2. /\ Len(workerOrder) \in Nat /\ Len(workerOrder') = Len(workerOrder) + 1
        /\ \A i \in 1 .. Len(workerOrder) : workerOrder'[i] = workerOrder[i]
        /\ workerOrder'[Len(workerOrder) + 1] = w
    BY <2>1 DEF TypeOK
  <2>3. \A i \in 1 .. Len(workerOrder) : workerOrder[i] # w
    BY <2>1 DEF Registered
  <2> QED
    BY <2>2, <2>3 DEF Distinct
<1> QED
  BY <1>1, <1>2, SignalFrame, GateFrame, CommandFrame DEF Next, vars

\* The places of a walk are the registered workers, each once.
LEMMA Places ==
    ASSUME TypeOK, Distinct, NEW phase
    PROVE  /\ Len(workerOrder) \in Nat
           /\ \A m \in 1 .. Len(workerOrder) : Place(phase, m) \in Registered
           /\ \A m, k \in 1 .. Len(workerOrder) :
                 Place(phase, m) = Place(phase, k) => m = k
           /\ \A w \in Registered : \E m \in 1 .. Len(workerOrder) : Place(phase, m) = w
<1>1. Len(workerOrder) \in Nat
  BY DEF TypeOK
<1>2. CASE phase # "stop"
  BY <1>1, <1>2 DEF Place, Registered, Distinct
<1>3. CASE phase = "stop"
  <2>1. \A m \in 1 .. Len(workerOrder) : /\ Len(workerOrder) + 1 - m \in 1 .. Len(workerOrder)
                                         /\ Place(phase, m) = workerOrder[Len(workerOrder) + 1 - m]
    BY <1>1, <1>3 DEF Place
  <2>2. ASSUME NEW m \in 1 .. Len(workerOrder), NEW k \in 1 .. Len(workerOrder),
               Place(phase, m) = Place(phase, k)
        PROVE  m = k
    BY <1>1, <2>1, <2>2 DEF Distinct
  <2>3. ASSUME NEW i \in 1 .. Len(workerOrder)
        PROVE  \E m \in 1 .. Len(workerOrder) : Place(phase, m) = workerOrder[i]
    <3>1. /\ Len(workerOrder) + 1 - i \in 1 .. Len(workerOrder)
          /\ Len(workerOrder) + 1 - (Len(workerOrder) + 1 - i) = i
      BY <1>1
    <3>2. Place(phase, Len(workerOrder) + 1 - i) = workerOrder[i]
      BY <2>1, <3>1
    <3> QED
      BY <3>1, <3>2
  <2> QED
    BY <1>1, <2>1, <2>2, <2>3, SMTT(30) DEF Registered
<1> QED
  BY <1>2, <1>3

-----------------------------------------------------------------------------
(* Steps beside the walk *)

\* Beside the operations on them, workers only fail.
Faded ==
    \A w \in Worker :
        \/ ws'[w].lifecycle = ws[w].lifecycle
        \/ ws[w].lifecycle \in {"running", "draining"} /\ ws'[w].lifecycle = "failed"

\* The fields of a call that its walk depends on.
SameWalk(r, t) ==
    /\ t.op = r.op /\ t.phase = r.phase /\ t.walk = r.walk
    /\ t.worker = r.worker /\ t.err = r.err /\ (r.expired => t.expired)

\* A walk names workers (registeredWorkerLifecycles).
LEMMA WalkEntries ==
    ASSUME TypeOK, NEW c \in Caller
    PROVE  /\ Len(call[c].walk) \in Nat
           /\ \A k \in 1 .. Len(call[c].walk) : call[c].walk[k] \in Entry
<1>1. PICK walk \in Seq(Entry) : walk = call[c].walk
  BY DEF TypeOK, CallState
<1> QED
  BY <1>1

\* What the walk has settled stays settled, and what is ahead only drifts, while
\* failures are reported and commands panic.
LEMMA FadeKeeps ==
    ASSUME TypeOK, Distinct, NEW c \in Caller, Toured(c),
           UNCHANGED workerOrder, Faded, SameWalk(call[c], call'[c]),
           call'[c].pc = call[c].pc \/ (InUserCode(c) /\ InUserCode(c)')
    PROVE  Toured(c)'
<1>a. /\ InUserCode(c)' <=> InUserCode(c)
      /\ At(c, "walk")' <=> At(c, "walk")
      /\ Touring(c)' <=> Touring(c)
      /\ CutShort(c)' <=> CutShort(c)
      /\ Passed(c)' = Passed(c) /\ Registered' = Registered
      /\ \A phase, k : Place(phase, k)' = Place(phase, k)
  BY DEF InUserCode, At, Touring, CutShort, SameWalk, Passed, Place, Registered
<1>b. \A phase, err, w : w \in Worker =>
         (Settled(phase, err, ws[w].lifecycle) => Settled(phase, err, ws'[w].lifecycle))
  BY DEF Faded, Settled
<1>c. \A w \in Worker : \A st : Drifted(st, ws[w].lifecycle) => Drifted(st, ws'[w].lifecycle)
  BY DEF Faded, Drifted
<1>d. Registered \subseteq Worker
  BY RegisteredWorkers
<1>1. ASSUME Touring(c) PROVE WalkIsRest(c)'
  <2>1. WalkIsRest(c)
    BY <1>1 DEF Toured
  <2>2. \A k \in 1 .. Len(call[c].walk) : call[c].walk[k].worker \in Worker
    BY WalkEntries DEF Entry
  <2>3. /\ call'[c].walk = call[c].walk /\ call'[c].phase = call[c].phase
        /\ call'[c].worker = call[c].worker
    BY DEF SameWalk
  <2>4. ASSUME NEW k \in 1 .. Len(call[c].walk)
        PROVE  /\ call'[c].walk[k].worker = Place(call'[c].phase, Passed(c) + k)
               /\ Drifted(call'[c].walk[k].state, ws'[call'[c].walk[k].worker].lifecycle)
    BY <1>c, <2>1, <2>2, <2>3, <2>4 DEF WalkIsRest
  <2> QED
    BY <1>a, <2>1, <2>3, <2>4 DEF WalkIsRest
<1>2. ASSUME Touring(c) PROVE PassedSettled(c)'
  <2>1. PassedSettled(c) /\ WalkIsRest(c)
    BY <1>2 DEF Toured
  <2>2. Len(workerOrder) \in Nat /\ Len(call[c].walk) \in Nat
    BY DEF TypeOK, CallState
  <2>3. \A m \in 1 .. Passed(c) : Place(call[c].phase, m) \in Worker
    BY <1>d, <2>1, <2>2, Places DEF Passed, WalkIsRest
  <2> QED
    BY <1>a, <1>b, <2>1, <2>3 DEF PassedSettled, SameWalk
<1>3. Done(c)'
  <2>1. Done(c)
    BY DEF Toured
  <2>2. call[c].pc \in {"reopen", "release"} <=> call'[c].pc \in {"reopen", "release"}
    BY DEF InUserCode
  <2>3. ToTheEnd(call'[c]) => ToTheEnd(call[c])
    BY DEF ToTheEnd, SameWalk
  <2> QED
    BY <1>a, <1>b, <1>d, <2>1, <2>2, <2>3 DEF Done, SameWalk
<1> QED
  BY <1>a, <1>1, <1>2, <1>3 DEF Toured

-----------------------------------------------------------------------------
(* Steps of the walk *)

\* Before the walk takes its next entry: where the entry stands, how far its
\* worker can be from the state in the snapshot, and what lies behind.
LEMMA NextPlace ==
    ASSUME RuntimeInv, Distinct, NEW c \in Caller, Toured(c), Touring(c), Walking(c)
    PROVE  /\ NextEntry(c).worker = Place(call[c].phase, Passed(c) + 1)
           /\ NextEntry(c).worker \in Registered
           /\ Passed(c) \in 0 .. Len(workerOrder) - 1
           /\ Drifted(NextEntry(c).state, ws[NextEntry(c).worker].lifecycle)
           /\ ws[NextEntry(c).worker].lifecycle \notin {"starting", "stopping"}
           /\ \A m \in 1 .. Passed(c) :
                 Settled(call[c].phase, call[c].err, ws[Place(call[c].phase, m)].lifecycle)
           /\ Len(Tail(call[c].walk)) = Len(call[c].walk) - 1
           /\ \A k \in 1 .. Len(call[c].walk) - 1 :
                 Tail(call[c].walk)[k] = call[c].walk[k + 1]
<1>a. TypeOK
  BY DEF RuntimeInv
<1>1. PICK walk \in Seq(Entry) : walk = call[c].walk
  BY <1>a DEF TypeOK, CallState
<1>2. /\ walk # << >> /\ NextEntry(c) = walk[1]
      /\ Len(walk) \in Nat /\ Len(walk) > 0 /\ 1 \in 1 .. Len(walk)
      /\ Len(Tail(walk)) = Len(walk) - 1
      /\ \A k \in 1 .. Len(walk) - 1 : Tail(walk)[k] = walk[k + 1]
  BY <1>1 DEF Walking, NextEntry
<1>3. WalkIsRest(c) /\ PassedSettled(c)
  BY DEF Toured
<1>4. Passed(c) \in 0 .. Len(workerOrder) - 1
  BY <1>a, <1>1, <1>2, <1>3, Places DEF WalkIsRest, Passed
<1>5. /\ NextEntry(c).worker = Place(call[c].phase, Passed(c) + 1)
      /\ Drifted(NextEntry(c).state, ws[NextEntry(c).worker].lifecycle)
  BY <1>1, <1>2, <1>3 DEF WalkIsRest
<1>6. NextEntry(c).worker \in Registered
  BY <1>a, <1>4, <1>5, Places
<1>7. \A m \in 1 .. Passed(c) :
         Settled(call[c].phase, call[c].err, ws[Place(call[c].phase, m)].lifecycle)
  BY <1>1, <1>2, <1>3 DEF PassedSettled, CutShort, InUserCode, Walking, At
<1>8. ws[NextEntry(c).worker].lifecycle \notin {"starting", "stopping"}
  <2>1. \A k \in Caller : ~ InUserCode(k)
    BY DEF RuntimeInv, GateExclusive, Walking, At, InUserCode, HoldsGate
  <2> QED
    BY <1>a, <1>6, <2>1, RegisteredWorkers DEF RuntimeInv, TransitionsOwned, Owns
<1> QED
  BY <1>1, <1>2, <1>4, <1>5, <1>6, <1>7, <1>8

\* The walk goes past its next entry, whose worker is settled, or calls user
\* code of that worker.
LEMMA AdvanceKeeps ==
    ASSUME RuntimeInv, Distinct, NEW c \in Caller, Toured(c), Touring(c), Walking(c),
           UNCHANGED workerOrder,
           call'[c].op = call[c].op, call'[c].phase = call[c].phase,
           call'[c].walk = Tail(call[c].walk), call[c].err => call'[c].err,
           \A v \in Worker : v # NextEntry(c).worker =>
              ws'[v].lifecycle = ws[v].lifecycle,
           \/ /\ call'[c].pc = "walk"
              /\ Settled(call[c].phase, call'[c].err, ws'[NextEntry(c).worker].lifecycle)
           \/ InUserCode(c)' /\ call'[c].worker = NextEntry(c).worker
    PROVE  Toured(c)'
<1> DEFINE w == NextEntry(c).worker
           p == Passed(c)
           n == Len(workerOrder)
           ph == call[c].phase
<1>a. TypeOK /\ Registered \subseteq Worker /\ n \in Nat
  BY RegisteredWorkers, Places DEF RuntimeInv
<1>b. /\ w = Place(ph, p + 1) /\ p \in 0 .. n - 1
      /\ \A m \in 1 .. p : Settled(ph, call[c].err, ws[Place(ph, m)].lifecycle)
      /\ Len(Tail(call[c].walk)) = Len(call[c].walk) - 1
      /\ \A k \in 1 .. Len(call[c].walk) - 1 : Tail(call[c].walk)[k] = call[c].walk[k + 1]
  BY NextPlace
<1>c. Len(call[c].walk) \in Nat /\ p = n - Len(call[c].walk)
  BY <1>a, WalkEntries DEF Passed
<1>d. /\ Passed(c)' = p + 1
      /\ \A phase, k : Place(phase, k)' = Place(phase, k)
      /\ call'[c].phase = ph
  <2>1. \A phase, k : Place(phase, k)' = Place(phase, k)
    BY DEF Place
  <2> DEFINE rest == Len(Tail(call[c].walk))
  <2>2. Passed(c)' = n - rest /\ rest = Len(call[c].walk) - 1
    BY <1>b DEF Passed
  <2>3. Passed(c)' = p + 1
    <3> HIDE DEF p, n, rest
    <3> QED
      BY <1>a, <1>c, <2>2
  <2> QED
    BY <2>1, <2>3
<1>e. \A m \in 1 .. n : m # p + 1 => /\ Place(ph, m) \in Worker
                                     /\ ws'[Place(ph, m)].lifecycle = ws[Place(ph, m)].lifecycle
  <2> SUFFICES ASSUME NEW m \in 1 .. n, m # p + 1
               PROVE  Place(ph, m) \in Worker /\ Place(ph, m) # w
    OBVIOUS
  <2>1. Place(ph, m) \in Registered /\ p + 1 \in 1 .. n
    BY <1>a, <1>b, Places
  <2>2. Place(ph, m) # Place(ph, p + 1)
    BY <1>a, <2>1, Places
  <2> QED
    BY <1>a, <1>b, <2>1, <2>2
<1>1. WalkIsRest(c)'
  <2>1. WalkIsRest(c)
    BY DEF Toured
  <2>2. Len(call'[c].walk) <= n
    BY <1>b, <1>c, <2>1 DEF WalkIsRest
  <2>3. ASSUME NEW k \in 1 .. Len(call[c].walk) - 1
        PROVE  /\ call'[c].walk[k].worker = Place(ph, p + 1 + k)
               /\ Drifted(call'[c].walk[k].state, ws'[call'[c].walk[k].worker].lifecycle)
    <3>1. k + 1 \in 1 .. Len(call[c].walk) /\ p + (k + 1) \in 1 .. n /\ p + (k + 1) # p + 1
          /\ p + 1 + k = p + (k + 1)
      <4> DEFINE q == Len(call[c].walk)
      <4>1. /\ n \in Nat /\ q \in Nat /\ p \in 0 .. n - 1 /\ p = n - q
            /\ k \in 1 .. q - 1
        BY <1>a, <1>b, <1>c
      <4> HIDE DEF p, n, q
      <4>2. /\ k + 1 \in 1 .. q /\ p + (k + 1) \in 1 .. n /\ p + (k + 1) # p + 1
            /\ p + 1 + k = p + (k + 1)
        BY <4>1
      <4> QED
        BY <4>2 DEF q
    <3>2. /\ call[c].walk[k + 1].worker = Place(ph, p + (k + 1))
          /\ Drifted(call[c].walk[k + 1].state, ws[call[c].walk[k + 1].worker].lifecycle)
      BY <2>1, <3>1 DEF WalkIsRest
    <3>3. call'[c].walk[k] = call[c].walk[k + 1]
      BY <1>b
    <3> HIDE DEF ph, p, n, w
    <3> QED
      BY <1>e, <3>1, <3>2, <3>3
  <2>4. InUserCode(c)' => p + 1 > 0 /\ call'[c].worker = Place(ph, p + 1)
    BY <1>b DEF InUserCode
  <2>5. Len(call'[c].walk) = Len(call[c].walk) - 1
    BY <1>b
  <2> HIDE DEF ph, p, n, w
  <2> QED
    BY <1>d, <2>2, <2>3, <2>4, <2>5 DEF WalkIsRest, n
<1>2. PassedSettled(c)'
  <2>1. ASSUME NEW m \in 1 .. p + 1
        PROVE  \/ InUserCode(c)' /\ m = p + 1
               \/ Settled(ph, call'[c].err, ws'[Place(ph, m)].lifecycle)
    <3>1. CASE m = p + 1
      BY <1>b, <3>1 DEF InUserCode
    <3>2. CASE m # p + 1
      <4>1. m \in 1 .. p /\ m \in 1 .. n
        BY <1>a, <1>b, <2>1, <3>2
      <4>2. Settled(ph, call[c].err, ws'[Place(ph, m)].lifecycle)
        BY <1>b, <1>e, <3>2, <4>1
      <4> QED
        BY <4>2 DEF Settled
    <3> QED
      BY <3>1, <3>2
  <2> HIDE DEF ph, p, n, w
  <2> QED
    BY <1>d, <2>1 DEF PassedSettled
<1>3. Done(c)'
  BY DEF Done, InUserCode
<1> QED
  BY <1>1, <1>2, <1>3 DEF Toured

\* An error that ends the walk leaves nothing to say of the workers behind it.
LEMMA CutKeeps ==
    ASSUME TypeOK, NEW c \in Caller, UNCHANGED workerOrder,
           call'[c].pc = "walk", call'[c].walk = << >>, call'[c].err = TRUE,
           ~ Unbroken(call'[c].op)
    PROVE  Toured(c)'
<1>1. Len(workerOrder') \in Nat /\ Len(call'[c].walk) = 0
  BY DEF TypeOK
<1>2. WalkIsRest(c)'
  BY <1>1 DEF WalkIsRest, InUserCode
<1>3. PassedSettled(c)' /\ Done(c)'
  BY DEF PassedSettled, CutShort, Done, At
<1> QED
  BY <1>2, <1>3 DEF Toured

\* User code of a worker has returned, and the worker is settled.
LEMMA LeaveKeeps ==
    ASSUME TypeOK, Distinct, NEW c \in Caller, Toured(c), Touring(c), InUserCode(c),
           UNCHANGED workerOrder, call'[c].pc = "walk",
           call'[c].op = call[c].op, call'[c].phase = call[c].phase,
           call'[c].walk = call[c].walk, call[c].err => call'[c].err,
           \A v \in Worker : v # call[c].worker =>
              ws'[v].lifecycle = ws[v].lifecycle,
           Settled(call[c].phase, call'[c].err, ws'[call[c].worker].lifecycle)
    PROVE  Toured(c)'
<1> DEFINE p == Passed(c)
           n == Len(workerOrder)
           ph == call[c].phase
           w == call[c].worker
<1>a. /\ n \in Nat /\ Len(call[c].walk) \in Nat /\ p = n - Len(call[c].walk)
      /\ Registered \subseteq Worker
  BY WalkEntries, RegisteredWorkers, Places DEF Passed
<1>b. /\ Len(call[c].walk) <= n /\ p > 0 /\ w = Place(ph, p)
      /\ \A k \in 1 .. Len(call[c].walk) :
            /\ call[c].walk[k].worker = Place(ph, p + k)
            /\ Drifted(call[c].walk[k].state, ws[call[c].walk[k].worker].lifecycle)
  BY DEF Toured, WalkIsRest
<1>c. /\ Passed(c)' = p /\ call'[c].phase = ph
      /\ \A phase, k : Place(phase, k)' = Place(phase, k)
      /\ ~ InUserCode(c)' /\ ~ CutShort(c)
  BY DEF Passed, Place, InUserCode, CutShort, At
<1>d. p \in 1 .. n
  <2> HIDE DEF p, n
  <2> QED
    BY <1>a, <1>b
<1>e. \A m \in 1 .. n : m # p => /\ Place(ph, m) \in Worker
                                 /\ ws'[Place(ph, m)].lifecycle = ws[Place(ph, m)].lifecycle
  <2> SUFFICES ASSUME NEW m \in 1 .. n, m # p
               PROVE  Place(ph, m) \in Worker /\ Place(ph, m) # w
    OBVIOUS
  <2>1. Place(ph, m) \in Registered /\ Place(ph, m) # Place(ph, p)
    BY <1>d, Places
  <2> QED
    BY <1>a, <1>b, <2>1
<1>1. WalkIsRest(c)'
  <2>1. ASSUME NEW k \in 1 .. Len(call[c].walk)
        PROVE  Drifted(call[c].walk[k].state, ws'[call[c].walk[k].worker].lifecycle)
    <3>1. p + k \in 1 .. n /\ p + k # p
      <4> DEFINE q == Len(call[c].walk)
      <4>1. k \in 1 .. q /\ q \in Nat /\ p = n - q /\ n \in Nat /\ p \in 1 .. n
        BY <1>a, <1>d, <2>1
      <4> HIDE DEF p, n, q
      <4> QED
        BY <4>1
    <3> HIDE DEF p, n, ph
    <3> QED
      BY <1>b, <1>e, <2>1, <3>1
  <2> QED
    BY <1>b, <1>c, <2>1 DEF WalkIsRest
<1>2. PassedSettled(c)'
  <2>1. ASSUME NEW m \in 1 .. p
        PROVE  Settled(ph, call'[c].err, ws'[Place(ph, m)].lifecycle)
    <3>1. CASE m = p
      BY <1>b, <3>1
    <3>2. CASE m # p
      <4>1. Settled(ph, call[c].err, ws[Place(ph, m)].lifecycle)
        BY <1>c, <3>2 DEF Toured, PassedSettled
      <4>2. m \in 1 .. n
        <5> HIDE DEF p, n
        <5> QED
          BY <1>a, <1>d, <2>1
      <4>3. ws'[Place(ph, m)].lifecycle = ws[Place(ph, m)].lifecycle
        BY <1>e, <3>2, <4>2
      <4> QED
        BY <4>1, <4>3 DEF Settled
    <3> QED
      BY <3>1, <3>2
  <2> HIDE DEF p, ph
  <2> QED
    BY <1>c, <2>1 DEF PassedSettled
<1>3. Done(c)'
  BY DEF Done
<1> QED
  BY <1>1, <1>2, <1>3 DEF Toured

\* There is nothing to keep of a call on a single worker, or of one that is
\* neither among the workers nor about to return without an error.
LEMMA ElsewhereKeeps ==
    ASSUME NEW c \in Caller,
           \/ call'[c].op \in SingleOps
           \/ call'[c].pc \notin {"walk", "user", "backoff", "settle", "reopen", "release"}
           \/ call'[c].pc \in {"reopen", "release"} /\ ~ ToTheEnd(call'[c])
    PROVE  Toured(c)'
  BY DEF Toured, Touring, Done, InUserCode, At

\* The snapshot is the walk at its beginning (registeredWorkerLifecycles).
LEMMA SnapshotTours ==
    ASSUME TypeOK, NEW c \in Caller, Snapshot(c)
    PROVE  Toured(c)'
<1> DEFINE n == Len(workerOrder)
           walk == SnapshotWalk(call[c].phase)
<1>1. /\ call'[c].pc = "walk" /\ call'[c].walk = walk
      /\ call'[c].phase = call[c].phase /\ UNCHANGED <<workerOrder, ws>>
  BY DEF Snapshot, TypeOK, CallState
<1>2. n \in Nat /\ Len(walk) = n
  BY DEF SnapshotWalk, TypeOK
<1>3. \A k \in 1 .. n :
         /\ walk[k].worker = Place(call[c].phase, k)
         /\ walk[k].state = ws[walk[k].worker].lifecycle
  BY DEF SnapshotWalk, EntryAt, Place
<1>4. Passed(c)' = 0 /\ \A phase, k : Place(phase, k)' = Place(phase, k)
  <2>1. Passed(c)' = Len(workerOrder') - Len(call'[c].walk)
    BY DEF Passed
  <2> HIDE DEF walk
  <2> QED
    BY <1>1, <1>2, <2>1 DEF Place
<1> HIDE DEF walk
<1>5. WalkIsRest(c)'
  BY <1>1, <1>2, <1>3, <1>4 DEF WalkIsRest, Drifted, InUserCode
<1>6. PassedSettled(c)' /\ Done(c)'
  BY <1>1, <1>4 DEF PassedSettled, Done
<1> QED
  BY <1>5, <1>6 DEF Toured

\* The worker of a refused entry can only have failed since the snapshot, or the
\* walk met a state that needs nothing of it (the bulk operations' switches).
LEMMA NothingToDo ==
    ASSUME NEW phase, NEW st, NEW l \in LifecycleState, NEW err,
           Drifted(st, l), l \notin {"starting", "stopping"}
    PROVE  /\ Skipped(phase, st) => Settled(phase, err, l)
           /\ /\ phase \in {"drain", "stop"}
              /\ ~ Skipped(phase, st)
              /\ ~ (Wanted(phase, st) /\ l \in Admissible(phase))
              => Settled(phase, TRUE, l)
  BY DEF LifecycleState, Drifted, Skipped, Settled, Wanted, Admissible,
         Stoppable, Drainable

\* One step of the walk of a call: an entry skipped, refused, drained, or taken
\* for a start or a stop.
LEMMA EntryStep ==
    ASSUME RuntimeInv, CutoffInv, Distinct, NEW c \in Caller, Toured(c),
           call[c].op \notin SingleOps,
           Skip(c) \/ Reject(c) \/ Drain(c) \/ BeginStart(c) \/ BeginStop(c)
    PROVE  Toured(c)'
<1> DEFINE w == NextEntry(c).worker
           st == NextEntry(c).state
           l == ws[w].lifecycle
           ph == call[c].phase
<1>a. TypeOK /\ Walking(c) /\ Touring(c) /\ UNCHANGED workerOrder
  BY DEF RuntimeInv, Skip, Reject, Drain, BeginStart, BeginStop, CanBegin,
         Walking, Touring
<1>b. call[c] \in CallState /\ call \in [Caller -> CallState] /\ call[c].pc = "walk"
  BY <1>a DEF TypeOK, Walking, At
<1>c. /\ w \in Registered /\ w \in Worker /\ l \in LifecycleState
      /\ Drifted(st, l) /\ l \notin {"starting", "stopping"}
  <2>1. /\ w \in Registered /\ Drifted(st, l) /\ l \notin {"starting", "stopping"}
    BY <1>a, NextPlace
  <2>2. w \in Worker
    BY <1>a, <2>1, RegisteredWorkers
  <2>3. ws[w] \in WorkerState
    BY <1>a, <2>2 DEF TypeOK
  <2> QED
    BY <2>1, <2>2, <2>3 DEF WorkerState
<1>1. CASE Skip(c)
  <2>1. /\ Skipped(ph, st) /\ ws' = ws
        /\ call'[c].pc = "walk" /\ call'[c].op = call[c].op
        /\ call'[c].phase = ph /\ call'[c].walk = Tail(call[c].walk)
        /\ call'[c].err = call[c].err
    BY <1>1, <1>b DEF Skip, CallState
  <2>2. Settled(ph, call'[c].err, ws'[w].lifecycle)
    BY <1>c, <2>1, NothingToDo
  <2> QED
    BY <1>a, <2>1, <2>2, AdvanceKeeps
<1>2. CASE Reject(c)
  <2>1. /\ ~ Skipped(ph, st) /\ ~ CanBegin(c, ph) /\ ws' = ws
        /\ call'[c].pc = "walk" /\ call'[c].op = call[c].op
        /\ call'[c].phase = ph /\ call'[c].err = TRUE
        /\ call'[c].walk = IF KeepsGoing(call[c].op) THEN Tail(call[c].walk) ELSE << >>
    BY <1>2, <1>b DEF Reject, CallState
  <2>2. CASE KeepsGoing(call[c].op)
    <3>1. ph \in {"drain", "stop"}
      <4>1. PhaseFits(call[c])
        BY DEF CutoffInv, WellShaped
      <4> QED
        BY <2>2, <4>1 DEF PhaseFits, KeepsGoing, PhaseOf
    <3>2. ~ (Wanted(ph, st) /\ l \in Admissible(ph))
      BY <1>a, <1>c, <2>1 DEF CanBegin
    <3>3. Settled(ph, call'[c].err, ws'[w].lifecycle)
      BY <1>c, <2>1, <3>1, <3>2, NothingToDo
    <3> QED
      BY <1>a, <2>1, <2>2, <3>3, AdvanceKeeps
  <2>3. CASE ~ KeepsGoing(call[c].op)
    BY <1>a, <2>1, <2>3, CutKeeps DEF Unbroken
  <2> QED
    BY <2>2, <2>3
<1>3. CASE Drain(c)
  <2>1. /\ ph = "drain" /\ Commit(w, Drained(ws[w]))
        /\ call'[c].pc = "walk" /\ call'[c].op = call[c].op
        /\ call'[c].phase = ph /\ call'[c].walk = Tail(call[c].walk)
        /\ call'[c].err = call[c].err
    BY <1>3, <1>b DEF Drain, CanBegin, CallState
  <2>2. ws[w] \in WorkerState
    BY <1>a, <1>c DEF TypeOK
  <2>3. ws'[w].lifecycle = "draining" /\ \A v \in Worker : v # w => ws'[v] = ws[v]
    BY <1>a, <1>c, <2>1, <2>2 DEF Commit, Drained, TypeOK, WorkerState
  <2>4. Settled(ph, call'[c].err, ws'[w].lifecycle)
    BY <2>1, <2>3 DEF Settled
  <2> QED
    BY <1>a, <2>1, <2>3, <2>4, AdvanceKeeps
<1>4. CASE BeginStart(c) \/ BeginStop(c)
  <2>1. /\ \E s : Commit(w, s)
        /\ call'[c].pc = "user" /\ call'[c].op = call[c].op
        /\ call'[c].phase = ph /\ call'[c].walk = Tail(call[c].walk)
        /\ call'[c].err = call[c].err /\ call'[c].worker = w
    <3>1. PICK s, gen : Commit(w, s) /\ CallUser(c, w, gen)
      BY <1>4, Zenon DEF BeginStart, BeginStop
    <3>2. CallUser(c, w, gen) =>
             /\ call'[c].pc = "user" /\ call'[c].op = call[c].op
             /\ call'[c].phase = ph /\ call'[c].walk = Tail(call[c].walk)
             /\ call'[c].err = call[c].err /\ call'[c].worker = w
      <4> HIDE DEF w
      <4> QED
        BY <1>b DEF CallUser, CallState
    <3> QED
      BY <3>1, <3>2
  <2>2. \A v \in Worker : v # w => ws'[v] = ws[v]
    BY <1>a, <2>1 DEF Commit, TypeOK
  <2>3. InUserCode(c)'
    BY <2>1 DEF InUserCode
  <2> QED
    BY <1>a, <2>1, <2>2, <2>3, AdvanceKeeps
<1> QED
  BY <1>1, <1>2, <1>3, <1>4

\* The walk ends. Unless it was cut short every worker is settled, and what
\* StopAll and Shutdown ended with is the stop (stopAllUnlocked, shutdown).
LEMMA WalkDoneKeeps ==
    ASSUME RuntimeInv, CutoffInv, Distinct, NEW c \in Caller, Toured(c),
           call[c].op \notin SingleOps, WalkDone(c)
    PROVE  Toured(c)'
<1>a. TypeOK /\ call[c] \in CallState
  BY DEF RuntimeInv, TypeOK
<1>b. /\ At(c, "walk") /\ call[c].walk = << >>
      /\ call'[c].op = call[c].op /\ call'[c].phase = call[c].phase
      /\ call'[c].pc \in {"waitIdle", "reopen", "release"}
      /\ UNCHANGED <<workerOrder, ws>>
  BY <1>a DEF WalkDone, TypeOK, CallState, ClosingOps
<1>c. /\ call[c].err => call'[c].err
      /\ call[c].op = "Shutdown" /\ call[c].phase = "drain" /\ call[c].expired
            => call'[c].err
      /\ call'[c].expired = call[c].expired
  <2>1. PICK g \in BOOLEAN :
           g = (call[c].err \/ (call[c].op = "Shutdown" /\ call[c].phase = "drain"
                                /\ call[c].expired))
    OBVIOUS
  <2>2. call'[c].err = g
    BY <1>a, <2>1 DEF WalkDone, TypeOK
  <2>3. call'[c].expired = call[c].expired
    BY <1>a DEF WalkDone, TypeOK, CallState
  <2> QED
    BY <2>1, <2>2, <2>3
<1>1. CASE call'[c].pc = "waitIdle"
  BY <1>1, ElsewhereKeeps
<1>2. CASE call'[c].pc \in {"reopen", "release"}
  <2>1. ~ Touring(c)'
    BY <1>2 DEF Touring, At, InUserCode
  <2>2. ASSUME ToTheEnd(call'[c]) PROVE ~ call[c].err \/ Unbroken(call[c].op)
    BY <1>b, <1>c, <2>2 DEF ToTheEnd
  <2>3. ASSUME ToTheEnd(call'[c]), call[c].op \in ClosingOps PROVE call[c].phase = "stop"
    <3>1. PhaseFits(call[c])
      BY DEF CutoffInv, WellShaped
    <3>2. ~ (call[c].op = "Shutdown" /\ call[c].phase = "drain")
      <4>1. call[c].op = "Shutdown" /\ call[c].phase = "drain" /\ ~ call[c].expired
               => call'[c].pc = "waitIdle"
        BY <1>a DEF WalkDone, TypeOK, CallState
      <4> QED
        BY <1>2, <1>b, <1>c, <2>3, <4>1 DEF ToTheEnd
    <3> QED
      BY <2>3, <3>1, <3>2 DEF PhaseFits, PhaseOf, ClosingOps
  <2>4. ASSUME ToTheEnd(call'[c]), NEW w \in Registered
        PROVE  Settled(call[c].phase, call'[c].err, ws[w].lifecycle)
    <3>1. Passed(c) = Len(workerOrder)
      <4>1. Len(workerOrder) \in Nat
        BY <1>a DEF TypeOK
      <4> QED
        BY <1>b, <4>1 DEF Passed
    <3>2. Touring(c) /\ ~ InUserCode(c) /\ ~ CutShort(c)
      BY <1>b, <2>2, <2>4 DEF Touring, At, InUserCode, CutShort
    <3>3. PICK m \in 1 .. Len(workerOrder) : Place(call[c].phase, m) = w
      BY <1>a, Places
    <3>4. Settled(call[c].phase, call[c].err, ws[w].lifecycle)
      BY <3>1, <3>2, <3>3 DEF Toured, PassedSettled
    <3> QED
      BY <1>c, <3>4 DEF Settled
  <2>5. Registered' = Registered /\ ws' = ws
    BY <1>b DEF Registered
  <2>6. Done(c)'
    BY <1>b, <2>3, <2>4, <2>5 DEF Done
  <2> QED
    BY <2>1, <2>6 DEF Toured
<1> QED
  BY <1>b, <1>1, <1>2

\* User code of a worker returns for good, with the operation completed or the
\* worker failed (completeWorkerStart, completeWorkerTransition, failWorker).
LEMMA ReturnKeeps ==
    ASSUME RuntimeInv, Distinct, NEW c \in Caller, Toured(c),
           call[c].op \notin SingleOps, Complete(c) \/ Fail(c)
    PROVE  Toured(c)'
<1> DEFINE w == call[c].worker
           ph == call[c].phase
<1>a. TypeOK /\ call[c] \in CallState /\ UNCHANGED workerOrder
  BY DEF RuntimeInv, TypeOK, Complete, Fail
<1>b. InUserCode(c) /\ Touring(c)
  BY DEF Complete, Fail, At, InUserCode, Touring
<1>c. /\ w \in Worker /\ Current(c) /\ ws[w] \in WorkerState
      /\ ws[w].lifecycle = (IF ph = "start" THEN "starting" ELSE "stopping")
  <2>1. w \in Registered /\ Current(c)
        /\ ws[w].lifecycle = (IF ph = "start" THEN "starting" ELSE "stopping")
    BY <1>b DEF RuntimeInv, TransitionsOwned, Current
  <2>2. w \in Worker
    BY <1>a, <2>1, RegisteredWorkers
  <2> QED
    BY <1>a, <2>1, <2>2 DEF TypeOK
<1>d. ASSUME NEW e \in BOOLEAN, Proceed(c, e)
      PROVE  /\ call'[c].pc = "walk" /\ call'[c].op = call[c].op /\ call'[c].phase = ph
             /\ call[c].err \/ e => call'[c].err = TRUE
             /\ call'[c].walk \in {call[c].walk, << >>}
             /\ ~ e /\ call[c].outcome = "ok" => call'[c].walk = call[c].walk
             /\ Unbroken(call[c].op) => call'[c].walk = call[c].walk
  <2>1. PICK g \in BOOLEAN : g = (call[c].err \/ e)
    OBVIOUS
  <2>2. call'[c].err = g
    BY <1>a, <1>d, <2>1 DEF Proceed, TypeOK
  <2>3. call'[c].pc = "walk" /\ call'[c].op = call[c].op /\ call'[c].phase = ph
    BY <1>a, <1>d DEF Proceed, TypeOK, CallState
  <2>4. /\ call'[c].walk \in {call[c].walk, << >>}
        /\ ~ e /\ call[c].outcome = "ok" => call'[c].walk = call[c].walk
        /\ Unbroken(call[c].op) => call'[c].walk = call[c].walk
    BY <1>a, <1>d DEF Proceed, Unbroken, TypeOK, CallState
  <2> QED
    BY <2>1, <2>2, <2>3, <2>4
<1>1. CASE Complete(c)
  <2> DEFINE s == IF ph = "start" THEN CompletedStart(w, ws[w]) ELSE CompletedStop(ws[w])
  <2>1. Commit(w, s) /\ Proceed(c, FALSE) /\ call[c].outcome = "ok"
    BY <1>1, <1>c DEF Complete
  <2>2. s.lifecycle \in (IF ph = "start" THEN {"running", "failed"} ELSE {"stopped"})
    BY <1>c, TransitionEnds
  <2>3. ws'[w].lifecycle = s.lifecycle /\ \A v \in Worker : v # w => ws'[v] = ws[v]
    <3> HIDE DEF s
    <3> QED
      BY <1>a, <1>c, <2>1 DEF Commit, TypeOK
  <2>4. Settled(ph, call'[c].err, ws'[w].lifecycle)
    <3>1. ph \in Phase
      BY <1>a DEF CallState
    <3> HIDE DEF s
    <3> QED
      BY <2>2, <2>3, <3>1 DEF Settled, Phase
  <2>5. /\ call'[c].pc = "walk" /\ call'[c].op = call[c].op /\ call'[c].phase = ph
        /\ call[c].err => call'[c].err
        /\ call'[c].walk = call[c].walk
    BY <1>d, <2>1
  <2> QED
    BY <1>a, <1>b, <2>3, <2>4, <2>5, LeaveKeeps
<1>2. CASE Fail(c)
  <2> DEFINE s == IF call[c].outcome = "cleanup"
                  THEN CleanupFailed(ws[w]) ELSE Failed(ws[w])
  <2>1. Commit(w, s) /\ Proceed(c, TRUE)
    BY <1>2, <1>c DEF Fail
  <2>2. s.lifecycle = "failed"
    BY <1>c, TransitionEnds
  <2>3. ws'[w].lifecycle = "failed" /\ \A v \in Worker : v # w => ws'[v] = ws[v]
    <3> HIDE DEF s
    <3> QED
      BY <1>a, <1>c, <2>1, <2>2 DEF Commit, TypeOK
  <2>4. /\ call'[c].pc = "walk" /\ call'[c].op = call[c].op /\ call'[c].phase = ph
        /\ call'[c].err = TRUE /\ call'[c].walk \in {call[c].walk, << >>}
        /\ Unbroken(call[c].op) => call'[c].walk = call[c].walk
    BY <1>d, <2>1
  <2>5. Settled(ph, call'[c].err, ws'[w].lifecycle)
    <3>1. ph \in Phase
      BY <1>a DEF CallState
    <3> QED
      BY <2>3, <2>4, <3>1 DEF Settled, Phase
  <2>6. CASE call'[c].walk = << >> /\ ~ Unbroken(call[c].op)
    BY <1>a, <2>4, <2>6, CutKeeps
  <2>7. CASE call'[c].walk = call[c].walk
    BY <1>a, <1>b, <2>3, <2>4, <2>5, <2>7, LeaveKeeps
  <2> QED
    BY <2>4, <2>6, <2>7
<1> QED
  BY <1>1, <1>2

\* Attempts of user code that are not the last, and the delays between them,
\* leave the walk and every lifecycle alone (runWithRetry).
LEMMA AttemptKeeps ==
    ASSUME RuntimeInv, Distinct, NEW c \in Caller, Toured(c),
           \/ UserEnds(c) \/ Retry(c) \/ BackoffElapses(c) \/ BackoffExpires(c)
    PROVE  Toured(c)'
<1>a. TypeOK /\ call[c] \in CallState /\ CallerStep(c)
  BY DEF RuntimeInv, TypeOK, CallerStep, Internal
<1>1. InUserCode(c) /\ InUserCode(c)' /\ UNCHANGED workerOrder
  BY <1>a DEF UserEnds, UserReturns, UserFails, UserCleanupFails, Retry,
     BackoffElapses, BackoffExpires, Settling, InUserCode, At, TypeOK, CallState
<1>2. SameWalk(call[c], call'[c])
  <2>1. \A f \in {"op", "phase", "walk", "worker", "err", "expired"} :
           call'[c][f] = call[c][f]
    BY <1>a DEF UserEnds, UserReturns, UserFails, UserCleanupFails, Retry,
       BackoffElapses, BackoffExpires, Settling, TypeOK, CallState
  <2> QED
    BY <2>1 DEF SameWalk
<1>3. Faded
  <2>1. Outside(c) \/ Inside(c) \/ Enters(c) \/ Leaves(c)
    BY <1>a, UserFrame DEF RuntimeInv
  <2>2. Inside(c)
    BY <1>1, <2>1 DEF Outside, Enters, Leaves
  <2> QED
    BY <2>2 DEF Inside, Faded
<1> QED
  BY <1>a, <1>1, <1>2, <1>3, FadeKeeps

\* Every step of a call keeps what its own walk has reached.
LEMMA OwnWalk ==
    ASSUME RuntimeInv, CutoffInv, Distinct, NEW c \in Caller, CallerStep(c), Toured(c)
    PROVE  Toured(c)'
<1>a. TypeOK /\ call[c] \in CallState
  BY DEF RuntimeInv, TypeOK
<1>1. CASE call'[c].op \in SingleOps
  BY <1>1, ElsewhereKeeps
<1>2. CASE call'[c].pc = "waiting" \/ call'[c] = IdleCall
  <2>1. call'[c].pc \in {"idle", "waiting"}
    BY <1>2 DEF IdleCall
  <2> QED
    BY <2>1, ElsewhereKeeps
<1>3. CASE call[c].op \notin SingleOps
  <2>1. CASE Expire(c)
    <3>1. /\ SameWalk(call[c], call'[c]) /\ call'[c].pc = call[c].pc
          /\ UNCHANGED <<workerOrder, ws>>
      BY <1>a, <2>1 DEF Expire, SameWalk, TypeOK, CallState
    <3> QED
      BY <1>a, <3>1, FadeKeeps DEF Faded
  <2>2. CASE Acquire(c) \/ CloseAdmission(c) \/ WaitedIdle(c)
    <3>1. call'[c].pc \in {"close", "snapshot"}
      BY <1>3, <1>a, <2>2 DEF Acquire, CloseAdmission, WaitedIdle, TypeOK, CallState
    <3> QED
      BY <3>1, ElsewhereKeeps
  <2>3. CASE Reopen(c)
    <3>1. /\ At(c, "reopen") /\ call'[c].pc = "release" /\ UNCHANGED <<workerOrder, ws>>
          /\ SameWalk(call[c], call'[c])
      BY <1>a, <2>3 DEF Reopen, At, SameWalk, TypeOK, CallState
    <3> QED
      BY <3>1 DEF SameWalk, Toured, Touring, Done, ToTheEnd, Registered, At, InUserCode
  <2>4. CASE Snapshot(c)
    BY <1>a, <2>4, SnapshotTours
  <2>5. CASE WaitExpired(c)
    <3>1. /\ call'[c].pc = "reopen" /\ call'[c].err = TRUE
          /\ call'[c].op = call[c].op /\ call'[c].expired = TRUE
      BY <1>a, <2>5 DEF WaitExpired, TypeOK, CallState
    <3>2. call[c].op = "Shutdown"
      BY <2>5 DEF CutoffInv, WellShaped, Shaped, WaitExpired, At
    <3> QED
      BY <3>1, <3>2, ElsewhereKeeps DEF ToTheEnd
  <2>6. CASE Abandon(c) \/ Release(c)
    BY <1>2, <1>a, <2>6 DEF Abandon, Release, TypeOK
  <2>7. CASE Invoke(c) \/ InvokeFromHandler(c)
    <3>1. At(c, "idle")
      BY <2>7 DEF Invoke, InvokeFromHandler, Enter
    <3>2. call'[c].pc = "waiting"
      <4>1. PICK op, by : Enter(c, op, by)
        BY <2>7 DEF Invoke, InvokeFromHandler
      <4> DEFINE r(walk, ended) ==
                    [IdleCall EXCEPT !.pc = "waiting", !.op = op, !.by = by,
                                     !.phase = PhaseOf(op), !.expired = ended,
                                     !.walk = walk]
      <4>2. PICK walk, ended : call' = [call EXCEPT ![c] = r(walk, ended)]
        BY <4>1 DEF Enter
      <4>3. r(walk, ended).pc = "waiting"
        BY DEF IdleCall
      <4> HIDE DEF r
      <4> QED
        BY <1>a, <4>2, <4>3 DEF TypeOK
    <3> QED
      BY <1>2, <3>2
  <2> QED
    BY <1>3, <2>1, <2>2, <2>3, <2>4, <2>5, <2>6, <2>7, EntryStep, WalkDoneKeeps,
       ReturnKeeps, AttemptKeeps
    DEF CallerStep, Internal
<1>4. \/ call'[c].pc = "waiting" \/ call'[c] = IdleCall
      \/ call'[c].op = call[c].op
  BY <1>a, CallEdges DEF Edge
<1> QED
  BY <1>1, <1>2, <1>3, <1>4

\* A call that does not hold the gate, while another does, changes no worker
\* (acquireLifecycle).
LEMMA WaiterChangesNothing ==
    ASSUME NEW c \in Caller, CallerStep(c), ~ HoldsGate(c), ~ gate
    PROVE  UNCHANGED ws
<1>1. Invoke(c) \/ InvokeFromHandler(c) \/ Expire(c) \/ Abandon(c)
  BY DEF CallerStep, Internal, UserEnds, HoldsGate, At, Acquire, CloseAdmission,
     Reopen, Release, Snapshot, Skip, Reject, BeginStart, BeginStop, Drain,
     CanBegin, Walking, WalkDone, WaitedIdle, WaitExpired, BackoffElapses,
     BackoffExpires, Complete, Fail, UserReturns, UserFails, UserCleanupFails, Retry
<1> QED
  BY <1>1 DEF Invoke, InvokeFromHandler, Enter, Expire, Abandon

\* Whatever else happens while a call is under way leaves its walk alone.
LEMMA OthersWalk ==
    ASSUME RuntimeInv, Distinct, NEW c \in Caller, Toured(c), [Next]_vars,
           ~ CallerStep(c)
    PROVE  Toured(c)'
<1>a. TypeOK /\ GateExclusive
  BY DEF RuntimeInv
<1>b. HoldsGate(c) => ~ gate
  BY <1>a DEF GateExclusive
<1>1. call'[c] = call[c]
  BY <1>a, GateFrame, CallsUntouched
<1>2. CASE ~ HoldsGate(c)
  <2>1. call'[c].pc \in {"idle", "waiting"}
    BY <1>1, <1>2 DEF HoldsGate
  <2> QED
    BY <2>1, ElsewhereKeeps
<1>3. CASE HoldsGate(c)
  <2>1. UNCHANGED workerOrder /\ Faded
    <3>1. ASSUME NEW k \in Caller, CallerStep(k)
          PROVE  UNCHANGED workerOrder /\ UNCHANGED ws
      <4>1. ~ HoldsGate(k)
        BY <1>a, <1>3, <3>1 DEF GateExclusive
      <4> QED
        BY <1>a, <1>3, <1>b, <3>1, <4>1, WaiterChangesNothing, GateFrame
    <3>2. ASSUME NEW w \in Worker, Register(w) PROVE FALSE
      BY <1>3, <1>b, <3>2 DEF Register
    <3>3. ASSUME \/ \E w \in Worker : Signal(w)
                 \/ \E d \in Dispatch : CommandStep(d)
          PROVE  UNCHANGED workerOrder /\ Untouched
      BY <1>a, <3>3, SignalFrame, CommandFrame
    <3> QED
      BY <3>1, <3>2, <3>3 DEF Next, vars, Faded, Untouched
  <2> QED
    BY <1>a, <1>1, <2>1, FadeKeeps DEF SameWalk
<1> QED
  BY <1>2, <1>3

\* What the walks of runtime-wide operations have reached and what they promise
\* holds in every reachable state.
THEOREM WalkInvariant == Spec => []WalkInv
<1>1. Init => WalkInv
  <2> SUFFICES ASSUME Init PROVE WalkInv
    OBVIOUS
  <2>1. Distinct
    BY DEF Init, Distinct
  <2>2. \A c \in Caller : call[c].pc = "idle"
    BY DEF Init, IdleCall
  <2>3. \A c \in Caller : Toured(c)
    BY <2>2 DEF Toured, Touring, Done, InUserCode, At
  <2> QED
    BY <2>1, <2>3 DEF WalkInv
<1>2. RuntimeInv /\ CutoffInv /\ WalkInv /\ [Next]_vars => WalkInv'
  <2> SUFFICES ASSUME RuntimeInv, CutoffInv, WalkInv, [Next]_vars PROVE WalkInv'
    OBVIOUS
  <2>1. Distinct'
    BY DistinctStep DEF RuntimeInv, WalkInv
  <2>2. ASSUME NEW c \in Caller PROVE Toured(c)'
    BY OwnWalk, OthersWalk DEF WalkInv
  <2> QED
    BY <2>1, <2>2 DEF WalkInv
<1> QED
  BY <1>1, <1>2, RuntimeInvariant, CutoffInvariant, PTL DEF Spec

\* While StopAll or Shutdown stops a worker, those registered after it are out
\* of service; while StartAll starts one, those before it have been started
\* (stopAllUnlocked walks the snapshot backwards, StartAll forwards).
THEOREM BulkOrderHolds == Spec => []BulkOrder
<1>1. RuntimeInv /\ WalkInv => BulkOrder
  <2> SUFFICES ASSUME RuntimeInv, WalkInv,
                      NEW c \in Caller, InUserCode(c), call[c].op \notin SingleOps,
                      NEW i \in 1 .. Len(workerOrder), NEW j \in 1 .. Len(workerOrder),
                      i < j
               PROVE  /\ call[c].phase = "stop" /\ call[c].worker = workerOrder[i] =>
                            ws[workerOrder[j]].lifecycle
                               \notin {"starting", "running", "draining"}
                      /\ call[c].phase = "start" /\ call[c].worker = workerOrder[j] =>
                            ws[workerOrder[i]].lifecycle \in {"running", "failed"}
    BY DEF BulkOrder
  <2> DEFINE n == Len(workerOrder)
             p == Passed(c)
  <2>a. TypeOK /\ Distinct /\ n \in Nat
    BY Places DEF RuntimeInv, WalkInv
  <2>b. /\ p > 0 /\ call[c].worker = Place(call[c].phase, p)
        /\ \A m \in 1 .. p : m # p =>
              Settled(call[c].phase, call[c].err, ws[Place(call[c].phase, m)].lifecycle)
    BY DEF WalkInv, Toured, Touring, WalkIsRest, PassedSettled, CutShort, InUserCode, At
  <2>c. p \in 1 .. n
    <3> DEFINE q == Len(call[c].walk)
    <3>1. q \in Nat /\ p = n - q /\ p > 0
      BY <2>a, <2>b, WalkEntries DEF Passed
    <3> HIDE DEF p, n, q
    <3> QED
      BY <2>a, <3>1
  <2>1. ASSUME call[c].phase = "stop", call[c].worker = workerOrder[i]
        PROVE  ws[workerOrder[j]].lifecycle \notin {"starting", "running", "draining"}
    <3>1. /\ n + 1 - i \in 1 .. n /\ n + 1 - j \in 1 .. n
          /\ n + 1 - (n + 1 - i) = i /\ n + 1 - (n + 1 - j) = j
          /\ n + 1 - j < n + 1 - i
      BY <2>a
    <3>2. /\ Place("stop", n + 1 - i) = workerOrder[i]
          /\ Place("stop", n + 1 - j) = workerOrder[j]
      BY <3>1 DEF Place
    <3>a. \A m, k \in 1 .. n : Place("stop", m) = Place("stop", k) => m = k
      BY <2>a, Places
    <3>b. Place("stop", p) = workerOrder[i]
      BY <2>1, <2>b
    <3>3. p = n + 1 - i
      <4> HIDE DEF p, n
      <4> QED
        BY <2>c, <3>a, <3>b, <3>1, <3>2
    <3>4. n + 1 - j \in 1 .. p /\ n + 1 - j # p
      <4> HIDE DEF p, n
      <4> QED
        BY <2>a, <2>c, <3>1, <3>3
    <3>5. Settled("stop", call[c].err, ws[workerOrder[j]].lifecycle)
      BY <2>1, <2>b, <3>2, <3>4
    <3> QED
      BY <3>5 DEF Settled
  <2>2. ASSUME call[c].phase = "start", call[c].worker = workerOrder[j]
        PROVE  ws[workerOrder[i]].lifecycle \in {"running", "failed"}
    <3>1. Place("start", i) = workerOrder[i] /\ Place("start", j) = workerOrder[j]
      BY DEF Place
    <3>2. p = j
      BY <2>2, <2>a, <2>b, <2>c, <3>1, Places
    <3>3. i \in 1 .. p /\ i # p
      <4> HIDE DEF p, n
      <4> QED
        BY <2>a, <2>c, <3>2
    <3>4. Settled("start", call[c].err, ws[workerOrder[i]].lifecycle)
      BY <2>2, <2>b, <3>1, <3>3
    <3> QED
      BY <3>4 DEF Settled
  <2> QED
    BY <2>1, <2>2
<1> QED
  BY <1>1, RuntimeInvariant, WalkInvariant, PTL

\* A nil error of a runtime-wide operation means that its work is done on every
\* worker, whatever failed or was reported meanwhile (StartAll, drainAllUnlocked,
\* stopAllUnlocked, shutdown).
THEOREM NilMeansWorkersDone == Spec => NilMeansDone
<1>1. CutoffInv /\ WalkInv =>
         \A c \in Caller : Returns(c) /\ ~ call[c].err =>
            \A w \in Registered :
               /\ call[c].op \in ClosingOps => ws[w].lifecycle \in {"registered", "stopped"}
               /\ call[c].op \in {"DrainAll", "DrainAllBestEffort"} =>
                     ws[w].lifecycle # "running"
               /\ call[c].op = "StartAll" => ws[w].lifecycle \in {"running", "failed"}
  <2> SUFFICES ASSUME CutoffInv, WalkInv, NEW c \in Caller,
                      Returns(c), ~ call[c].err, NEW w \in Registered
               PROVE  /\ call[c].op \in ClosingOps =>
                            ws[w].lifecycle \in {"registered", "stopped"}
                      /\ call[c].op \in {"DrainAll", "DrainAllBestEffort"} =>
                            ws[w].lifecycle # "running"
                      /\ call[c].op = "StartAll" =>
                            ws[w].lifecycle \in {"running", "failed"}
    OBVIOUS
  <2>1. Done(c) /\ call[c].pc = "release" /\ PhaseFits(call[c])
    BY DEF WalkInv, Toured, CutoffInv, WellShaped, Returns
  <2>2. ASSUME call[c].op \notin SingleOps
        PROVE  /\ call[c].op \in ClosingOps => call[c].phase = "stop"
               /\ Settled(call[c].phase, FALSE, ws[w].lifecycle)
    BY <2>1, <2>2 DEF Done, ToTheEnd, Settled
  <2> QED
    BY <2>1, <2>2 DEF Settled, PhaseFits, PhaseOf, SingleOps, ClosingOps
<1> QED
  BY <1>1, CutoffInvariant, WalkInvariant, PTL DEF NilMeansDone

-----------------------------------------------------------------------------
(* The service of servekitservice uses the runtime as any caller does *)

\* Where Run stands says which call of the runtime it is in; the context of
\* Shutdown is the one the budget bounds, and the fallback follows its end.
ServiceFits(s, r) ==
    /\ s \in Service
    /\ r.pc # "idle" <=> s.pc \in {"starting", "shutdown", "stopAll"}
    /\ s.pc = "starting" => r.op = "StartAll"
    /\ s.pc = "shutdown" => r.op = "Shutdown" /\ (r.expired = TRUE <=> s.budget = "spent")
    /\ s.pc = "stopAll" => r.op = "StopAll"
    /\ s.pc \in {"fallback", "stopAll"} => s.budget = "spent"

ServiceInv == ServiceFits(service, call[Coordinator])

\* A call of the service enters the runtime as any call does (Service.Run).
LEMMA CallsEnter ==
    ASSUME TypeOK, NEW op \in {"StartAll", "StopAll", "Shutdown"}, NEW ended,
           Calls(op, ended)
    PROVE  /\ CallerStep(Coordinator)
           /\ At(Coordinator, "idle") /\ call'[Coordinator].pc = "waiting"
           /\ call'[Coordinator].op = op /\ call'[Coordinator].expired = ended
<1>a. Coordinator \in Caller /\ op \in Ops
  BY ServiceAssumption DEF ServiceAssumption
<1>1. CallerStep(Coordinator)
  BY <1>a DEF Calls, CallerStep, Invoke
<1> DEFINE r(walk, e) ==
              [IdleCall EXCEPT !.pc = "waiting", !.op = op, !.by = None,
                               !.phase = PhaseOf(op), !.expired = e, !.walk = walk]
<1>2. PICK walk, e : call' = [call EXCEPT ![Coordinator] = r(walk, e)]
  BY DEF Calls, Enter
<1>3. r(walk, e).pc = "waiting" /\ r(walk, e).op = op
  BY DEF IdleCall
<1> HIDE DEF r
<1>4. call'[Coordinator] = r(walk, e)
  BY <1>a, <1>2 DEF TypeOK
<1> QED
  BY <1>1, <1>3, <1>4 DEF Calls, Enter

\* A step of the service's call, all but its return, does not end it.
LEMMA CoordinatorKeeps ==
    ASSUME TypeOK, CoordinatorStep
    PROVE  /\ CallerStep(Coordinator)
           /\ ~ At(Coordinator, "idle") /\ call'[Coordinator].pc # "idle"
           /\ call'[Coordinator].op = call[Coordinator].op
           /\ call'[Coordinator].expired = call[Coordinator].expired
<1> DEFINE c == Coordinator
<1>a. c \in Caller /\ call[c] \in CallState
  BY ServiceAssumption DEF ServiceAssumption, TypeOK
<1>1. CallerStep(c)
  BY DEF CoordinatorStep, CallerStep
<1>2. /\ ~ At(c, "idle") /\ call'[c].pc # "idle" /\ call'[c].op = call[c].op
      /\ call'[c].expired = call[c].expired
  <2> USE DEF TypeOK, At
  <2> HIDE DEF c
  <2>1. CASE Acquire(c) \/ CloseAdmission(c) \/ Reopen(c) \/ Snapshot(c)
    BY <1>a, <2>1 DEF Acquire, CloseAdmission, Reopen, Snapshot, CallState
  <2>2. CASE Skip(c) \/ Reject(c) \/ Drain(c)
    BY <1>a, <2>2 DEF Skip, Reject, Drain, CanBegin, Walking, CallState
  <2>3. CASE BeginStart(c) \/ BeginStop(c)
    BY <1>a, <2>3 DEF BeginStart, BeginStop, CanBegin, Walking, CallUser, CallState
  <2>4. CASE WalkDone(c) \/ WaitedIdle(c) \/ WaitExpired(c)
    BY <1>a, <2>4 DEF WalkDone, WaitedIdle, WaitExpired, CallState
  <2>5. CASE UserEnds(c) \/ Retry(c) \/ BackoffElapses(c) \/ BackoffExpires(c)
    BY <1>a, <2>5 DEF UserEnds, UserReturns, UserFails, UserCleanupFails, Retry,
       BackoffElapses, BackoffExpires, Settling, CallState
  <2>6. CASE Complete(c) \/ Fail(c)
    BY <1>a, <2>6 DEF Complete, Fail, Proceed, CallState
  <2> HIDE DEF TypeOK
  <2> QED
    BY <2>1, <2>2, <2>3, <2>4, <2>5, <2>6
    DEF c, CoordinatorStep, Internal, Abandon, Release
<1> QED
  BY <1>1, <1>2

\* The other callers and the handlers leave the service's call alone.
LEMMA OthersKeep ==
    ASSUME TypeOK, Others
    PROVE  Next /\ call'[Coordinator] = call[Coordinator]
<1>a. Coordinator \in Caller
  BY ServiceAssumption DEF ServiceAssumption
<1>1. ASSUME NEW c \in Caller \ {Coordinator}, CallerStep(c)
      PROVE  Next /\ call'[Coordinator] = call[Coordinator]
  BY <1>a, <1>1, GateFrame DEF Next
<1>2. ASSUME NEW w \in Worker, Register(w) \/ \E gen \in Handles(w) : ReportFailure(w, gen)
      PROVE  Next /\ UNCHANGED call
  BY <1>2 DEF Register, ReportFailure, Next, Signal
<1>3. ASSUME NEW d \in Dispatch,
             \/ \E w \in Worker : Admit(d, w)
             \/ HandlerReturns(d) \/ HandlerPanics(d) \/ ReleaseSlot(d)
      PROVE  Next /\ UNCHANGED call
  BY <1>3 DEF Admit, HandlerReturns, HandlerPanics, ReleaseSlot, Next, CommandStep
<1> QED
  BY <1>1, <1>2, <1>3 DEF Others

\* A call of the service that returns, and one whose context ends.
LEMMA CallEnds ==
    ASSUME TypeOK, NEW pc, CallReturns(pc) \/ Expire(Coordinator)
    PROVE  /\ CallerStep(Coordinator) /\ ~ At(Coordinator, "idle")
           /\ CallReturns(pc) => InRun(pc) /\ call'[Coordinator].pc = "idle"
           /\ Expire(Coordinator) =>
                 /\ ~ call[Coordinator].expired
                 /\ call'[Coordinator].pc = call[Coordinator].pc
                 /\ call'[Coordinator].op = call[Coordinator].op
                 /\ call'[Coordinator].expired = TRUE
<1>a. Coordinator \in Caller
  BY ServiceAssumption DEF ServiceAssumption
<1>1. CallerStep(Coordinator)
  BY DEF CallReturns, CallerStep, Internal
<1>2. ASSUME CallReturns(pc)
      PROVE  InRun(pc) /\ ~ At(Coordinator, "idle") /\ call'[Coordinator].pc = "idle"
  BY <1>a, <1>2 DEF CallReturns, Release, Abandon, At, IdleCall, TypeOK
<1>3. ASSUME Expire(Coordinator)
      PROVE  /\ ~ At(Coordinator, "idle") /\ ~ call[Coordinator].expired
             /\ call'[Coordinator].pc = call[Coordinator].pc
             /\ call'[Coordinator].op = call[Coordinator].op
             /\ call'[Coordinator].expired = TRUE
  BY <1>a, <1>3 DEF Expire, At, TypeOK, CallState
<1> QED
  BY <1>1, <1>2, <1>3

\* Every step of the service is a step of the runtime, or none, and leaves Run
\* where its call says it is.
LEMMA ServiceStepFits ==
    ASSUME TypeOK, ServiceInv, [ServiceNext]_serviceVars
    PROVE  [Next]_vars /\ ServiceInv'
<1> DEFINE k == Coordinator
<1>a. k \in Caller /\ service \in Service
  BY ServiceAssumption DEF ServiceAssumption, ServiceInv, ServiceFits
<1>b. ASSUME CallerStep(k) PROVE [Next]_vars
  BY <1>a, <1>b DEF Next
<1> USE DEF InRun, At, ServiceInv, ServiceFits
<1>1. CASE RunService
  <2>1. CASE service.config.startWorkers
    <3>1. Calls("StartAll", FALSE) /\ service' = [service EXCEPT !.pc = "starting"]
      BY <1>1, <2>1 DEF RunService
    <3> QED
      BY <1>1, <1>a, <1>b, <3>1, CallsEnter DEF RunService, Service
  <2>2. CASE ~ service.config.startWorkers
    BY <1>1, <2>2, <1>a DEF RunService, Service, vars
  <2> QED
    BY <2>1, <2>2
<1>2. CASE ServerShutsDown \/ ServerReturns
  BY <1>2, <1>a DEF ServerShutsDown, ServerReturns, Service, vars
<1>3. CASE BudgetSpent
  <2>1. CASE service.pc = "shutdown"
    BY <1>3, <2>1, <1>a, <1>b, CallEnds DEF BudgetSpent, Service
  <2>2. CASE service.pc # "shutdown"
    BY <1>3, <2>2, <1>a DEF BudgetSpent, Service, vars
  <2> QED
    BY <2>1, <2>2
<1>4. CASE ContextEnds
  BY <1>4, <1>a, <1>b, CallEnds DEF ContextEnds
<1>5. CASE StartFailed \/ StartSucceeded
  BY <1>5, <1>a, <1>b, CallEnds DEF StartFailed, StartSucceeded, Service
<1>6. CASE ShutdownReturned \/ ShutdownRanOut \/ StopAllReturned
  <2>1. CASE ShutdownReturned
    <3>1. PICK e \in BOOLEAN : service' = [service EXCEPT !.pc = "returned", !.err = e]
      BY <2>1 DEF ShutdownReturned
    <3> QED
      BY <2>1, <3>1, <1>a, <1>b, CallEnds DEF ShutdownReturned, Service
  <2>2. CASE ShutdownRanOut \/ StopAllReturned
    BY <2>2, <1>a, <1>b, CallEnds DEF ShutdownRanOut, StopAllReturned, Service
  <2> QED
    BY <1>6, <2>1, <2>2
<1>7. CASE ShutdownWorkers
  <2>1. PICK b \in {"live", "spent"} :
           /\ service' = [service EXCEPT !.pc = "shutdown", !.budget = b]
           /\ b = "spent" <=> service.budget = "spent"
    BY <1>7, <1>a DEF ShutdownWorkers, Service
  <2> QED
    BY <1>7, <2>1, <1>a, <1>b, CallsEnter DEF ShutdownWorkers, Service
<1>8. CASE StopAllWorkers
  BY <1>8, <1>a, <1>b, CallsEnter DEF StopAllWorkers, Service
<1>9. CASE CoordinatorStep /\ UNCHANGED service
  BY <1>9, <1>a, <1>b, CoordinatorKeeps
<1>10. CASE Others /\ UNCHANGED service
  BY <1>10, OthersKeep
<1>11. CASE UNCHANGED serviceVars
  BY <1>11 DEF serviceVars, vars
<1> HIDE DEF InRun, At, ServiceInv, ServiceFits
<1> QED
  BY <1>1, <1>2, <1>3, <1>4, <1>5, <1>6, <1>7, <1>8, <1>9, <1>10, <1>11
  DEF ServiceNext, ServiceStep

\* A run of the service is a run of the runtime: what is proved of the runtime
\* holds of one that servekitservice drives.
THEOREM ServiceUsesRuntime == ServiceSpec => Spec /\ []ServiceInv
<1>1. ServiceInit => Init /\ TypeOK /\ ServiceInv
  <2> SUFFICES ASSUME ServiceInit PROVE Init /\ TypeOK /\ ServiceInv
    OBVIOUS
  <2>1. Init /\ TypeOK
    BY TypeInit DEF ServiceInit
  <2>2. call[Coordinator].pc = "idle"
    BY <2>1, ServiceAssumption DEF ServiceAssumption, Init, IdleCall
  <2>3. service \in Service /\ service.pc = "run"
    BY ServiceAssumption DEF ServiceAssumption, ServiceInit, Service
  <2> QED
    BY <2>1, <2>2, <2>3 DEF ServiceInv, ServiceFits
<1>2. TypeOK /\ ServiceInv /\ [ServiceNext]_serviceVars =>
         [Next]_vars /\ TypeOK' /\ ServiceInv'
  BY ServiceStepFits, TypeStep
<1> QED
  BY <1>1, <1>2, PTL DEF ServiceSpec, Spec

\* The service stops a worker that may have commands in flight only after the
\* budget is spent (Service.Run, shutdownWorkersWithContext).
THEOREM GracefulWhileBudget == ServiceSpec => GracefulUntilBudget
<1>1. RuntimeInv /\ CutoffInv /\ ServiceInv =>
         (At(Coordinator, "walk") /\ call'[Coordinator].pc = "user"
            /\ call[Coordinator].phase = "stop" =>
          status.inFlight = 0 \/ service.budget = "spent")
  <2> SUFFICES ASSUME RuntimeInv, CutoffInv, ServiceInv, At(Coordinator, "walk"),
                      call[Coordinator].phase = "stop", service.budget # "spent"
               PROVE  status.inFlight = 0
    OBVIOUS
  <2>a. Coordinator \in Caller
    BY ServiceAssumption DEF ServiceAssumption
  <2>1. service.pc \in {"starting", "shutdown"} /\ PhaseFits(call[Coordinator])
    BY <2>a DEF ServiceInv, ServiceFits, At, CutoffInv, WellShaped
  <2>2. call[Coordinator].op = "Shutdown"
    BY <2>1 DEF ServiceInv, ServiceFits, PhaseFits, PhaseOf
  <2>3. Holding = {}
    BY <2>a, <2>2 DEF CutoffInv, ShutdownStopsIdleRuntime, InCutoff, InUserCode,
       At, ClosingOps
  <2> QED
    BY <2>3, FS_EmptySet DEF RuntimeInv, SlotAccounting
<1> QED
  BY <1>1, ServiceUsesRuntime, RuntimeInvariant, CutoffInvariant, PTL
  DEF GracefulUntilBudget

\* A graceful Run that returns leaves no worker in service, but for the fallback
\* that never gets the gate (Service.Run, shutdownWorkersWithContext).
THEOREM NothingIsLeft == ServiceSpec => NothingLeftServing
<1>1. TypeOK /\ WalkInv /\ ServiceInv /\ [ServiceNext]_serviceVars =>
         (service.pc # "returned" /\ service'.pc = "returned"
            /\ service.config.gracefulWorkerShutdown =>
          \/ InRun("stopAll") /\ At(Coordinator, "waiting")
          \/ \A w \in Registered : ws'[w].lifecycle \in {"registered", "stopped", "failed"})
  <2> SUFFICES ASSUME TypeOK, WalkInv, ServiceInv, [ServiceNext]_serviceVars,
                      service.pc # "returned", service'.pc = "returned",
                      service.config.gracefulWorkerShutdown,
                      ~ (InRun("stopAll") /\ At(Coordinator, "waiting")),
                      NEW w \in Registered
               PROVE  ws'[w].lifecycle \in {"registered", "stopped", "failed"}
    OBVIOUS
  <2> DEFINE r == call[Coordinator]
  <2>a. Coordinator \in Caller /\ CrashOnPanic = {} /\ r \in CallState
    BY ServiceAssumption DEF ServiceAssumption, TypeOK
  <2>b. service \in Service
    BY DEF ServiceInv, ServiceFits
  <2>1. ShutdownReturned \/ StopAllReturned
    BY <2>b DEF ServiceNext, ServiceStep, serviceVars, RunService, ServerShutsDown,
       ServerReturns, BudgetSpent, ContextEnds, StartFailed, StartSucceeded,
       ShutdownWorkers, ShutdownRanOut, StopAllWorkers, Service
  <2>2. /\ Release(Coordinator) /\ r.pc = "release" /\ ToTheEnd(r)
        /\ r.op \in ClosingOps
    <3> USE DEF CallReturns, CallFails, InRun, At, ServiceInv, ServiceFits, ClosingOps,
                ToTheEnd, Unbroken, KeepsGoing, Release, Abandon
    <3>1. CASE ShutdownReturned
      <4>1. r.op = "Shutdown" /\ (r.expired = TRUE <=> service.budget = "spent")
            /\ r.expired \in BOOLEAN
        BY <3>1, <2>a DEF ShutdownReturned, CallState
      <4> QED
        BY <3>1, <4>1, <2>a DEF ShutdownReturned
    <3>2. CASE StopAllReturned
      BY <3>2, <2>a DEF StopAllReturned
    <3> QED
      BY <2>1, <3>1, <3>2
  <2>3. Settled("stop", r.err, ws[w].lifecycle)
    BY <2>2, <2>a DEF WalkInv, Toured, Done, ClosingOps, SingleOps
  <2> QED
    BY <2>2, <2>3 DEF Settled, Release
<1>2. RuntimeInv => TypeOK
  BY DEF RuntimeInv
<1> QED
  BY <1>1, <1>2, ServiceUsesRuntime, RuntimeInvariant, WalkInvariant, PTL
  DEF NothingLeftServing, ServiceSpec
=============================================================================
