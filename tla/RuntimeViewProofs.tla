-------------------------- MODULE RuntimeViewProofs --------------------------
(***************************************************************************)
(* What readers see of the runtime, for every set of workers, policy and   *)
(* limit: the aggregate that Status publishes, the readiness an Opskit     *)
(* registry inspects, and the lifecycle states of the workers.             *)
(***************************************************************************)
EXTENDS OpskitView, WorkerRuntimeProofs

-----------------------------------------------------------------------------
(* The automaton of a worker record *)

\* The lifecycle states of a record before and after a step, and its generation.
Moves(s, t) ==
    \/ t.lifecycle = s.lifecycle /\ t.generation = s.generation
    \/ /\ s.lifecycle \in Startable /\ t.lifecycle = "starting"
       /\ t.generation = s.generation + 1
    \/ /\ t.generation = s.generation
       /\ \/ s.lifecycle \in Stoppable /\ t.lifecycle = "stopping"
          \/ s.lifecycle = "running" /\ t.lifecycle = "draining"
          \/ s.lifecycle = "starting" /\ t.lifecycle \in {"running", "failed"}
          \/ s.lifecycle = "stopping" /\ t.lifecycle \in {"stopped", "failed"}
          \/ s.lifecycle \in {"running", "draining"} /\ t.lifecycle = "failed"

\* Every transition of a workerState follows the automaton: a failure report,
\* a command panic or a late completion included (runtime.go).
LEMMA EvolvesMoves ==
    ASSUME NEW w \in Worker, NEW s \in WorkerState, NEW t, Evolves(w, s, t)
    PROVE  Moves(s, t)
<1> USE DEF WorkerState, Moves
<1>1. /\ Failed(s).lifecycle = "failed" /\ Failed(s).generation = s.generation
      /\ CleanupFailed(s).lifecycle = "failed"
      /\ CleanupFailed(s).generation = s.generation
      /\ CompletedStart(w, s).lifecycle \in {"running", "failed"}
      /\ CompletedStart(w, s).generation = s.generation
      /\ CompletedStop(s).lifecycle = "stopped"
      /\ CompletedStop(s).generation = s.generation
  BY TransitionEnds
<1>2. /\ [Failed(s) EXCEPT !.lastCommandFailure = TRUE].lifecycle = "failed"
      /\ [Failed(s) EXCEPT !.lastCommandFailure = TRUE].generation = s.generation
  BY DEF Failed
<1>3. CASE \E b, f \in BOOLEAN :
              \/ t = [s EXCEPT !.ready = b, !.readySetDuringStart = f]
              \/ t = [s EXCEPT !.acceptingWork = b, !.acceptingWorkSetDuringStart = f]
  BY <1>3
<1>4. CASE s.lifecycle \in Reportable /\ t = Reported(s)
  <2>1. CASE s.lifecycle \in {"starting", "stopping"}
    BY <1>4, <2>1 DEF Reported
  <2>2. CASE s.lifecycle \notin {"starting", "stopping"}
    BY <1>1, <1>4, <2>2 DEF Reported, Reportable
  <2> QED
    BY <2>1, <2>2
<1>5. CASE s.lifecycle \in Startable /\ t = BegunStart(s)
  BY <1>5 DEF BegunStart
<1>6. CASE s.lifecycle \in Stoppable /\ t = BegunStop(s)
  BY <1>6 DEF BegunStop
<1>7. CASE s.lifecycle \in Drainable /\ t = Drained(s)
  BY <1>7 DEF Drained, Drainable
<1>8. CASE \/ s.lifecycle = "starting" /\ t = CompletedStart(w, s)
           \/ s.lifecycle = "stopping" /\ t = CompletedStop(s)
           \/ /\ s.lifecycle \in {"starting", "stopping"}
              /\ t = Failed(s) \/ t = CleanupFailed(s)
  BY <1>1, <1>8
<1>9. CASE \/ t = s \/ t = [s EXCEPT !.lastFailure = "primary"]
           \/ t = [s EXCEPT !.lastCommandFailure = TRUE]
  BY <1>9
<1>10. CASE /\ s.lifecycle \in {"running", "draining"}
            /\ t = [Failed(s) EXCEPT !.lastCommandFailure = TRUE]
  BY <1>2, <1>10
<1> QED
  BY <1>3, <1>4, <1>5, <1>6, <1>7, <1>8, <1>9, <1>10 DEF Evolves

-----------------------------------------------------------------------------
(* When the aggregate is recomputed *)

\* A step either recomputes the aggregate from the records it leaves, or changes
\* nothing the aggregate is derived from.
Recomputed == status' = Recompute(Registered', ws', status)

Alike == \A w \in Worker : /\ ws'[w].lifecycle = ws[w].lifecycle
                           /\ ws'[w].ready = ws[w].ready

NothingToRecompute ==
    /\ UNCHANGED workerOrder
    /\ status'.state = status.state /\ status'.ready = status.ready
    /\ Alike

\* A step that stores a record with the same lifecycle and readiness changes
\* nothing the aggregate is derived from.
LEMMA AlikeOne ==
    ASSUME TypeOK, NEW v, NEW s, Stored(v, s),
           v \in Worker => s.lifecycle = ws[v].lifecycle /\ s.ready = ws[v].ready
    PROVE  Alike
  BY StoredEffect DEF Alike

\* Each step of a caller commits through commitWorkerStateLocked or leaves the
\* derived status alone, as recordWorkerFailureStatus does.
LEMMA CallerPublishes ==
    ASSUME TypeOK, NEW c \in Caller, CallerStep(c)
    PROVE  Recomputed \/ NothingToRecompute
<1>a. UNCHANGED workerOrder
  BY GateFrame
<1>b. Registered' = Registered
  BY <1>a DEF Registered
<1>1. ASSUME UNCHANGED <<ws, status>> PROVE NothingToRecompute
  BY <1>a, <1>1 DEF NothingToRecompute, Alike
<1>2. ASSUME NEW v, NEW s, Commit(v, s) PROVE Recomputed
  BY <1>b, <1>2 DEF Commit, Recomputed
<1>3. CASE BeginStart(c) \/ BeginStop(c) \/ Drain(c)
  BY <1>2, <1>3 DEF BeginStart, BeginStop, Drain
<1>4. CASE Complete(c) \/ Fail(c)
  BY <1>1, <1>2, <1>4 DEF Complete, Fail
<1>5. CASE UserFails(c) \/ Retry(c)
  <2> DEFINE v == call[c].worker
             s == [ws[v] EXCEPT !.lastFailure = "primary"]
  <2>1. UNCHANGED status /\ (UNCHANGED ws \/ Stored(v, s))
    BY <1>5 DEF UserFails, Retry, RecordFailure, Stored
  <2>2. v \in Worker => s.lifecycle = ws[v].lifecycle /\ s.ready = ws[v].ready
    BY DEF TypeOK, WorkerState
  <2> HIDE DEF v, s
  <2> QED
    BY <1>a, <1>1, <2>1, <2>2, AlikeOne DEF NothingToRecompute
<1>6. ASSUME NEW op, NEW by, Enter(c, op, by) PROVE UNCHANGED <<ws, status>>
  BY <1>6 DEF Enter
<1>7. CASE UserReturns(c) \/ UserCleanupFails(c)
  BY <1>1, <1>7 DEF UserReturns, UserCleanupFails
<1>8. CASE \/ Expire(c) \/ Acquire(c) \/ Abandon(c) \/ CloseAdmission(c) \/ Reopen(c)
           \/ Release(c) \/ Snapshot(c) \/ Skip(c) \/ Reject(c) \/ WalkDone(c)
           \/ WaitedIdle(c) \/ WaitExpired(c) \/ BackoffElapses(c) \/ BackoffExpires(c)
  BY <1>1, <1>8 DEF Expire, Acquire, Abandon, CloseAdmission, Reopen, Release, Snapshot,
       Skip, Reject, WalkDone, WaitedIdle, WaitExpired, BackoffElapses, BackoffExpires
<1> QED
  BY <1>1, <1>3, <1>4, <1>5, <1>6, <1>7, <1>8
  DEF CallerStep, Internal, UserEnds, Invoke, InvokeFromHandler

\* So does each step of a command: admission and release count, and only a
\* panic that fails the worker recomputes (admitCommand, recordCommandPanic).
LEMMA CommandPublishes ==
    ASSUME TypeOK, NEW d \in Dispatch, CommandStep(d)
    PROVE  Recomputed \/ NothingToRecompute
<1> DEFINE v == cmd[d].worker
<1>a. UNCHANGED workerOrder
  BY CommandFrame
<1>b. Registered' = Registered
  BY <1>a DEF Registered
<1>1. ASSUME NEW w \in Worker, Admit(d, w) PROVE NothingToRecompute
  <2>1. Alike
    BY <1>1 DEF Admit, Alike, TypeOK, WorkerState
  <2>2. status'.state = status.state /\ status'.ready = status.ready
    BY <1>1 DEF Admit, TypeOK, RuntimeStatusRec
  <2> QED
    BY <1>a, <2>1, <2>2 DEF NothingToRecompute
<1>2. ASSUME HandlerReturns(d) PROVE NothingToRecompute
  BY <1>a, <1>2 DEF HandlerReturns, NothingToRecompute, Alike
<1>3. ASSUME HandlerFails(d) PROVE NothingToRecompute
  <2> DEFINE s == CommandFailed(ws[v], cmd[d].gen)
  <2>1. Stored(v, s) /\ UNCHANGED status
    BY <1>3 DEF HandlerFails, Stored
  <2>2. v \in Worker => s.lifecycle = ws[v].lifecycle /\ s.ready = ws[v].ready
    BY DEF CommandFailed, TypeOK, WorkerState
  <2> HIDE DEF v, s
  <2> QED
    BY <1>a, <2>1, <2>2, AlikeOne DEF NothingToRecompute
<1>4. ASSUME HandlerPanics(d) PROVE Recomputed \/ NothingToRecompute
  <2> DEFINE s == CommandPanicked(ws[v], cmd[d].gen)
  <2>1. CASE Commit(v, s)
    BY <1>b, <2>1 DEF Commit, Recomputed
  <2>2. CASE Stored(v, s) /\ UNCHANGED status /\ s.lifecycle = ws[v].lifecycle
    <3>1. v \in Worker => s.ready = ws[v].ready
      BY <2>2 DEF CommandPanicked, Failed, TypeOK, WorkerState
    <3> HIDE DEF v, s
    <3> QED
      BY <1>a, <2>2, <3>1, AlikeOne DEF NothingToRecompute
  <2> QED
    BY <1>4, <2>1, <2>2 DEF HandlerPanics, Stored
<1>5. ASSUME ReleaseSlot(d) PROVE NothingToRecompute
  <2>1. Alike
    BY <1>5 DEF ReleaseSlot, Alike, TypeOK, WorkerState
  <2>2. status'.state = status.state /\ status'.ready = status.ready
    BY <1>5 DEF ReleaseSlot, TypeOK, RuntimeStatusRec
  <2> QED
    BY <1>a, <2>1, <2>2 DEF NothingToRecompute
<1> QED
  BY <1>1, <1>2, <1>3, <1>4, <1>5 DEF CommandStep

\* Taking and giving back a slot counts and changes nothing else that is read of
\* a worker (admitCommand, releaseCommandSlot).
LEMMA SlotFrame ==
    ASSUME TypeOK, NEW d \in Dispatch,
           (\E w \in Worker : Admit(d, w)) \/ ReleaseSlot(d)
    PROVE  \A w \in Worker : /\ ws'[w].lifecycle = ws[w].lifecycle
                             /\ ws'[w].generation = ws[w].generation
                             /\ ws'[w].ready = ws[w].ready
<1>1. \A w \in Worker : ws[w] \in WorkerState
  BY DEF TypeOK
<1>2. CASE ReleaseSlot(d)
  BY <1>1, <1>2 DEF ReleaseSlot, TypeOK, WorkerState
<1>3. ASSUME NEW v \in Worker, Admit(d, v)
      PROVE  \A w \in Worker : /\ ws'[w].lifecycle = ws[w].lifecycle
                               /\ ws'[w].generation = ws[w].generation
                               /\ ws'[w].ready = ws[w].ready
  BY <1>1, <1>3 DEF Admit, TypeOK, WorkerState
<1> QED
  BY <1>2, <1>3

\* In every step every worker moves along the automaton or not at all (Register
\* included, which takes a worker that is still untouched).
LEMMA StepMoves ==
    ASSUME RuntimeInv, [Next]_vars
    PROVE  \A w \in Worker : Moves(ws[w], ws'[w])
<1> USE DEF RuntimeInv
<1>1. ASSUME EvolvesAll PROVE \A w \in Worker : Moves(ws[w], ws'[w])
  BY <1>1, EvolvesMoves DEF EvolvesAll, TypeOK
<1>2. \A w \in Worker : Moves(ws[w], ws[w])
  BY DEF Moves
<1>3. ASSUME NEW v \in Worker, Register(v)
      PROVE  \A w \in Worker : Moves(ws[w], ws'[w])
  <2>1. ws[v] = NewWorkerState
    BY <1>3 DEF Register, Pristine
  <2> QED
    BY <1>2, <1>3, <2>1, RegisterFrame
<1>4. ASSUME NEW d \in Dispatch, CommandStep(d)
      PROVE  \A w \in Worker : Moves(ws[w], ws'[w])
  <2>1. CASE HandlerReturns(d) \/ HandlerFails(d) \/ HandlerPanics(d)
    BY <1>1, <2>1, HandlerEvolves
  <2>2. CASE (\E w \in Worker : Admit(d, w)) \/ ReleaseSlot(d)
    BY <2>2, SlotFrame DEF Moves, RuntimeInv
  <2> QED
    BY <1>4, <2>1, <2>2 DEF CommandStep
<1>5. ASSUME NEW v \in Worker, Signal(v) PROVE EvolvesAll
  BY <1>5, SignalEvolves
<1>6. ASSUME NEW c \in Caller, CallerStep(c) PROVE EvolvesAll
  BY <1>6, CallerEvolves
<1>7. CASE UNCHANGED vars
  BY <1>2, <1>7 DEF vars
<1> QED
  BY <1>1, <1>3, <1>4, <1>5, <1>6, <1>7 DEF Next

\* Every step recomputes the aggregate or changes nothing it is derived from.
LEMMA StepPublishes ==
    ASSUME RuntimeInv, [Next]_vars
    PROVE  Recomputed \/ NothingToRecompute
<1> USE DEF RuntimeInv
<1>1. ASSUME NEW w \in Worker, Register(w) PROVE Recomputed
  BY <1>1, RegisterFrame DEF Register, Recomputed
<1>2. ASSUME NEW w \in Worker, Signal(w) PROVE Recomputed
  <2>1. Registered' = Registered
    BY <1>2, SignalFrame DEF Registered
  <2>2. \E s : Commit(w, s)
    BY <1>2 DEF Signal, SetReady, ReadySet, SetAcceptingWork, AcceptingWorkSet,
         ReportFailure, HandleMayReport
  <2> QED
    BY <2>1, <2>2 DEF Commit, Recomputed
<1>3. CASE UNCHANGED vars
  BY <1>3 DEF vars, NothingToRecompute, Alike
<1> QED
  BY <1>1, <1>2, <1>3, CallerPublishes, CommandPublishes DEF Next

-----------------------------------------------------------------------------
(* The aggregate is current *)

\* The derivations read nothing but lifecycle states and readiness of R.
LEMMA DerivedAlike ==
    ASSUME NEW R, NEW f, NEW g, NEW prev,
           \A w \in R : g[w].lifecycle = f[w].lifecycle /\ g[w].ready = f[w].ready
    PROVE  /\ DeriveState(R, g, prev) = DeriveState(R, f, prev)
           /\ DeriveReady(R, g) = DeriveReady(R, f)
<1>1. /\ \A s : Some(R, g, s) <=> Some(R, f, s)
      /\ \A s : Every(R, g, s) <=> Every(R, f, s)
      /\ \A p : FailedUnder(R, g, p) <=> FailedUnder(R, f, p)
      /\ RunningReady(R, g) <=> RunningReady(R, f)
      /\ RunningReady(R \cap Contributes, g) <=> RunningReady(R \cap Contributes, f)
  BY DEF Some, Every, FailedUnder, RunningReady
<1>2. InTransition(R, g) <=> InTransition(R, f)
  BY <1>1 DEF InTransition
<1> QED
  BY <1>1, <1>2 DEF DeriveState, DeriveReady

\* The derivation has no case of its own for R: some of its workers were never
\* started and the others are stopped.
Unsettled(R, f) ==
    /\ \A w \in R : f[w].lifecycle \in {"registered", "stopped"}
    /\ \E w \in R : f[w].lifecycle = "registered"
    /\ \E w \in R : f[w].lifecycle = "stopped"

\* The previous state matters only for such an R (deriveRuntimeLifecycleState).
LEMMA DerivedFromPrevious ==
    ASSUME NEW R, NEW f, \A w \in R : f[w].lifecycle \in LifecycleState
    PROVE  /\ Unsettled(R, f) => \A prev : DeriveState(R, f, prev) = prev
           /\ ~ Unsettled(R, f) =>
                 \A p, q : DeriveState(R, f, p) = DeriveState(R, f, q)
<1> USE DEF DeriveState, Some, Every, FailedUnder
<1>1. ASSUME Unsettled(R, f), NEW prev PROVE DeriveState(R, f, prev) = prev
  BY <1>1 DEF Unsettled
<1>2. ASSUME ~ Unsettled(R, f), NEW p, NEW q
      PROVE  DeriveState(R, f, p) = DeriveState(R, f, q)
  <2>1. CASE \E w \in R : f[w].lifecycle \notin {"registered", "stopped"}
    <3>1. \/ Some(R, f, "starting") \/ Some(R, f, "draining") \/ Some(R, f, "stopping")
          \/ Some(R, f, "running") \/ Some(R, f, "failed")
      BY <2>1 DEF LifecycleState
    <3> HIDE DEF Some, Every, FailedUnder
    <3> QED
      BY <3>1
  <2>2. CASE \A w \in R : f[w].lifecycle \in {"registered", "stopped"}
    <3>1. R = {} \/ Every(R, f, "stopped") \/ Every(R, f, "registered")
      BY <1>2, <2>2 DEF Unsettled
    <3> HIDE DEF Some, Every, FailedUnder
    <3> QED
      BY <3>1
  <2> QED
    BY <2>1, <2>2
<1> QED
  BY <1>1, <1>2

\* While a worker is stopping and the others are at rest, the aggregate is
\* stopping.
LEMMA DerivedStopping ==
    ASSUME NEW R, NEW f, NEW prev, NEW v \in R, f[v].lifecycle = "stopping",
           \A w \in R : f[w].lifecycle \in {"registered", "stopped", "stopping"}
    PROVE  DeriveState(R, f, prev) = "stopping"
  BY DEF DeriveState, Some, Every, FailedUnder

\* A runtime whose derived state is registered has no worker that was started.
LEMMA DerivedRegistered ==
    ASSUME NEW R, NEW f, DeriveState(R, f, "stopping") = "registered"
    PROVE  \A w \in R : f[w].lifecycle = "registered"
  BY DEF DeriveState, Every

\* The aggregate stays current: recomputed or not, it is what the records say.
LEMMA AggregateStep == RuntimeInv /\ AggregateCurrent /\ [Next]_vars => AggregateCurrent'
<1> SUFFICES ASSUME RuntimeInv, AggregateCurrent, [Next]_vars PROVE AggregateCurrent'
  OBVIOUS
<1>a. /\ TypeOK /\ Registered \subseteq Worker
      /\ \A w \in Worker : Moves(ws[w], ws'[w])
  BY StepMoves, RegisteredWorkers DEF RuntimeInv
<1>b. TypeOK' /\ Registered' \subseteq Worker
  <2>1. TypeOK'
    BY TypeStep DEF RuntimeInv
  <2> QED
    BY <2>1 DEF TypeOK, Registered
<1>1. CASE NothingToRecompute
  <2>1. Registered' = Registered
    BY <1>1 DEF NothingToRecompute, Registered
  <2>2. /\ DeriveState(Registered, ws', "stopping") = DeriveState(Registered, ws, "stopping")
        /\ DeriveReady(Registered, ws') = DeriveReady(Registered, ws)
    BY <1>1, <1>a, DerivedAlike DEF NothingToRecompute, Alike
  <2> QED
    BY <1>1, <2>1, <2>2 DEF AggregateCurrent, NothingToRecompute
<1>2. CASE Recomputed
  <2>1. /\ status'.ready = DeriveReady(Registered', ws')
        /\ status'.state = DeriveState(Registered', ws', status.state)
    BY <1>2, <1>a DEF Recomputed, Recompute, TypeOK, RuntimeStatusRec
  <2>2. \A w \in Registered' : ws'[w].lifecycle \in LifecycleState
    BY <1>b DEF TypeOK, WorkerState
  <2>3. CASE ~ Unsettled(Registered', ws')
    <3>1. DeriveState(Registered', ws', status.state)
             = DeriveState(Registered', ws', "stopping")
      BY <2>2, <2>3, DerivedFromPrevious
    <3> QED
      BY <2>1, <3>1 DEF AggregateCurrent
  <2>4. CASE Unsettled(Registered', ws')
    <3>1. status'.state = status.state
          /\ DeriveState(Registered', ws', "stopping") = "stopping"
      BY <2>1, <2>2, <2>4, DerivedFromPrevious
    <3>2. status.state = DeriveState(Registered, ws, "stopping")
      BY DEF AggregateCurrent
    <3>3. \A w \in Registered' : \/ ws[w].lifecycle = ws'[w].lifecycle
                                 \/ ws[w].lifecycle = "stopping"
      BY <1>a, <1>b, <2>4 DEF Unsettled, Moves
    <3>4. CASE Registered' = Registered
      <4>1. CASE \E w \in Registered : ws[w].lifecycle = "stopping"
        <5>1. \A w \in Registered :
                 ws[w].lifecycle \in {"registered", "stopped", "stopping"}
          BY <2>4, <3>3, <3>4 DEF Unsettled
        <5>2. DeriveState(Registered, ws, "stopping") = "stopping"
          BY <4>1, <5>1, DerivedStopping
        <5> QED
          BY <2>1, <3>1, <3>2, <5>2 DEF AggregateCurrent
      <4>2. CASE \A w \in Registered : ws[w].lifecycle # "stopping"
        <5>1. Unsettled(Registered, ws)
          BY <2>4, <3>3, <3>4, <4>2 DEF Unsettled
        <5>2. \A w \in Registered : ws[w].lifecycle \in LifecycleState
          BY <1>a DEF TypeOK, WorkerState
        <5>3. DeriveState(Registered, ws, "stopping") = "stopping"
          BY <5>1, <5>2, DerivedFromPrevious
        <5> QED
          BY <2>1, <3>1, <3>2, <5>3 DEF AggregateCurrent
      <4> QED
        BY <4>1, <4>2
    <3>5. ASSUME NEW v \in Worker, Register(v) PROVE FALSE
      <4>1. \A w \in Registered : ws[w].lifecycle = "registered"
        BY <3>2, <3>5, DerivedRegistered DEF Register
      <4>2. /\ Registered' = Registered \cup {v} /\ ws'[v].lifecycle = "registered"
            /\ \A w \in Worker : w # v => ws'[w] = ws[w]
        BY <1>a, <3>5, RegisterFrame DEF NewWorkerState
      <4> QED
        BY <1>a, <2>4, <4>1, <4>2 DEF Unsettled
    <3>6. \/ \E v \in Worker : Register(v)
          \/ Registered' = Registered
      <4>1. \/ \E v \in Worker : Register(v)
            \/ UNCHANGED workerOrder
        BY <1>a, SignalFrame, GateFrame, CommandFrame DEF Next, vars
      <4> QED
        BY <4>1 DEF Registered
    <3> QED
      BY <3>4, <3>5, <3>6
  <2> QED
    BY <2>3, <2>4
<1> QED
  BY <1>1, <1>2, StepPublishes

\* New publishes what an empty runtime derives: registered and not ready.
LEMMA AggregateInit == Init => AggregateCurrent
<1> SUFFICES ASSUME Init PROVE AggregateCurrent
  OBVIOUS
<1>1. Registered = {}
  BY DEF Init, Registered
<1>2. DeriveReady(Registered, ws) = FALSE
  BY <1>1 DEF DeriveReady, Some
<1>3. DeriveState(Registered, ws, "stopping") = "registered"
  BY <1>1 DEF DeriveState
<1>4. status.ready = FALSE /\ status.state = "registered"
  BY DEF Init
<1> QED
  BY <1>2, <1>3, <1>4 DEF AggregateCurrent

\* The published aggregate is what the worker records say after every critical
\* section, for every number of workers, failure policies and readiness policy
\* (recomputeStatusLocked, and the sections that do without it).
THEOREM AggregateIsCurrent == Spec => []AggregateCurrent
<1>1. RuntimeInv /\ RuntimeInv' /\ AggregateCurrent /\ [Next]_vars => AggregateCurrent'
  BY AggregateStep
<1> QED
  BY <1>1, AggregateInit, RuntimeInvariant, PTL DEF Spec

\* What the readiness derivation says of the workers (deriveRuntimeReadiness).
LEMMA ReadyServes == StatusAssumption /\ TypeOK /\ AggregateCurrent => ReadyMeansServing
<1> SUFFICES ASSUME StatusAssumption, TypeOK, AggregateCurrent, status.ready
             PROVE  /\ RunningReady(Registered \cap Contributes, ws)
                    /\ \E w \in Registered : ws[w].lifecycle = "running"
                    /\ \A w \in Registered :
                          ws[w].lifecycle = "failed" => FailurePolicy[w] = "isolate"
  BY DEF ReadyMeansServing
<1>1. DeriveReady(Registered, ws) /\ Registered \subseteq Worker
  BY RegisteredWorkers DEF AggregateCurrent
<1>2. RunningReady(Registered \cap Contributes, ws)
  BY <1>1 DEF DeriveReady, RunningReady
<1>3. \E w \in Registered : ws[w].lifecycle = "running"
  BY <1>1 DEF DeriveReady, RunningReady, Some
<1>4. ASSUME NEW w \in Registered, ws[w].lifecycle = "failed"
      PROVE  FailurePolicy[w] = "isolate"
  <2>1. /\ FailurePolicy[w] # "fail_runtime"
        /\ FailurePolicy[w] # "mark_runtime_unready"
    BY <1>1, <1>4 DEF DeriveReady, FailedUnder
  <2> QED
    BY <1>1, <2>1 DEF StatusAssumption
<1> QED
  BY <1>2, <1>3, <1>4

\* A runtime that reports ready has its contributing workers running and ready
\* and no failed worker that weighs on readiness (deriveRuntimeReadiness,
\* published by commitWorkerStateLocked).
THEOREM ReadyRuntimeServes == Spec => []ReadyMeansServing
<1>1. TypeOK /\ AggregateCurrent => ReadyMeansServing
  BY StatusAssumption, ReadyServes
<1> QED
  BY <1>1, TypeCorrect, AggregateIsCurrent, PTL

-----------------------------------------------------------------------------
(* The items of the Opskit readiness *)

\* Every registered worker has an item, and every item is about a registered
\* worker (opskitReadinessSnapshot).
LEMMA ItemsOfWorkers ==
    ASSUME TypeOK
    PROVE  /\ \A w \in Registered : \E i \in DOMAIN Readiness.items :
                 Readiness.items[i] = ReadinessItem(w)
           /\ \A i \in DOMAIN Readiness.items : \E w \in Registered :
                 Readiness.items[i] = ReadinessItem(w)
           /\ Readiness.ready = status.ready
<1>1. Readiness.items = [i \in 1 .. Len(workerOrder) |-> ReadinessItem(workerOrder[i])]
      /\ Readiness.ready = status.ready
  BY DEF Readiness
<1> HIDE DEF ReadinessItem
<1> QED
  BY <1>1 DEF Registered

\* The items account for the aggregate they come with.
LEMMA ItemsExplain ==
    StatusAssumption /\ TypeOK /\ AggregateCurrent => ItemsExplainReadiness
<1> SUFFICES ASSUME StatusAssumption, TypeOK, AggregateCurrent
             PROVE  ItemsExplainReadiness
  OBVIOUS
<1>a. /\ Readiness.ready = DeriveReady(Registered, ws)
      /\ Registered \subseteq Worker
      /\ \A w \in Worker : ws[w].lifecycle \in LifecycleState
  BY ItemsOfWorkers, RegisteredWorkers DEF AggregateCurrent, TypeOK, WorkerState
<1>b. \A w : /\ ReadinessItem(w).impact = ReadinessImpact(w)
             /\ ReadinessItem(w).ready = OpskitWorkerReady(w)
             /\ ReadinessItem(w).state =
                   OpskitStateOf(ws[w].lifecycle, OpskitWorkerReady(w))
  BY DEF ReadinessItem
<1>1. ASSUME Registered # {}, ~ Readiness.ready
      PROVE  \E w \in Registered : ~ OpskitWorkerReady(w)
  <2> SUFFICES ASSUME \A w \in Registered : OpskitWorkerReady(w)
               PROVE  DeriveReady(Registered, ws)
    BY <1>1, <1>a
  <2> QED
    BY <1>1, StatusAssumption
    DEF OpskitWorkerReady, DeriveReady, RunningReady, Some, FailedUnder, InTransition,
        StatusAssumption
<1>2. ASSUME ~ Readiness.ready, Registered # {},
             ReadinessPolicy = "all_workers" \/ Registered \cap Contributes # {}
      PROVE  \E w \in Registered : ReadinessImpact(w) = "blocking" /\ ~ OpskitWorkerReady(w)
  <2>1. CASE ReadinessPolicy = "all_workers"
    BY <1>1, <1>2, <2>1 DEF ReadinessImpact
  <2>2. CASE ReadinessPolicy = "contributing_workers"
    <3>1. \/ FailedUnder(Registered, ws, "fail_runtime")
          \/ FailedUnder(Registered, ws, "mark_runtime_unready")
          \/ ~ RunningReady(Registered \cap Contributes, ws)
      BY <1>2, <1>a, <2>2 DEF DeriveReady
    <3> QED
      BY <3>1 DEF FailedUnder, RunningReady, ReadinessImpact, OpskitWorkerReady
  <2> QED
    BY <2>1, <2>2, StatusAssumption DEF StatusAssumption
<1>3. ASSUME Readiness.ready, NEW w \in Registered, ReadinessImpact(w) = "blocking"
      PROVE  ws[w].lifecycle # "failed"
  BY <1>3, <1>a
  DEF ReadinessImpact, DeriveReady, FailedUnder, RunningReady, Some, StatusAssumption
<1>4. ASSUME NEW w \in Registered, ReadinessItem(w).state = "failed"
      PROVE  ws[w].lifecycle = "failed"
  BY <1>4, <1>a, <1>b DEF OpskitStateOf, LifecycleState
<1> QED
  BY <1>1, <1>2, <1>3, <1>4, <1>b, ItemsOfWorkers
  DEF ItemsExplainReadiness, ItemsWith, NotReady, BlockingNotReady, BlockingFailed

\* What the Opskit registry reads is consistent: readiness that is withheld is
\* explained by an item, and readiness that is granted is contradicted by none
\* (opskitReadinessImpact against deriveRuntimeReadiness).
THEOREM ReadinessIsExplained == Spec => []ItemsExplainReadiness
<1>1. TypeOK /\ AggregateCurrent => ItemsExplainReadiness
  BY StatusAssumption, ItemsExplain
<1> QED
  BY <1>1, TypeCorrect, AggregateIsCurrent, PTL

-----------------------------------------------------------------------------
(* Generations and rest *)

\* A worker at rest is revived by a start only, and a start is what opens a
\* generation, whatever reports and commands come late (beginWorkerStart).
THEOREM RestIsEndedByStart == Spec => RestOnlyEndedByStart
<1>1. RuntimeInv /\ [Next]_vars =>
         \A w \in Worker :
           /\ ws[w].lifecycle \in {"registered", "stopped"}
                 /\ ws'[w].lifecycle # ws[w].lifecycle
              => ws'[w].lifecycle = "starting"
           /\ ws'[w].generation # ws[w].generation
                <=> ws'[w].lifecycle = "starting" /\ ws[w].lifecycle # "starting"
  <2> SUFFICES ASSUME RuntimeInv, [Next]_vars, NEW w \in Worker
               PROVE  /\ ws[w].lifecycle \in {"registered", "stopped"}
                            /\ ws'[w].lifecycle # ws[w].lifecycle
                         => ws'[w].lifecycle = "starting"
                      /\ ws'[w].generation # ws[w].generation
                           <=> /\ ws'[w].lifecycle = "starting"
                               /\ ws[w].lifecycle # "starting"
    OBVIOUS
  <2>1. Moves(ws[w], ws'[w]) /\ ws[w].generation \in Nat
    BY StepMoves, RecordAssumption
    DEF RuntimeInv, TypeOK, WorkerState, RecordAssumption
  <2> QED
    BY <2>1 DEF Moves, Startable, Stoppable
<1> QED
  BY <1>1, RuntimeInvariant, PTL DEF Spec, RestOnlyEndedByStart

\* A command admitted by an older generation changes nothing that readers,
\* admission or readiness are told about the worker: its error and its panic are
\* recognised as stale, and its slot is a count (recordCommandFailure,
\* recordCommandPanic, releaseCommandSlot).
THEOREM StaleCommandsAreInert == Spec => StaleCommandsInert
<1>1. RuntimeInv /\ [Next]_vars =>
         \A d \in Dispatch :
           LET w == cmd[d].worker
           IN  cmd[d].pc # "idle" /\ cmd'[d] # cmd[d] /\ cmd[d].gen # ws[w].generation
               => Evidence(ws'[w]) = Evidence(ws[w])
  <2> SUFFICES ASSUME RuntimeInv, [Next]_vars, NEW d \in Dispatch,
                      cmd[d].pc # "idle", cmd'[d] # cmd[d],
                      cmd[d].gen # ws[cmd[d].worker].generation
               PROVE  Evidence(ws'[cmd[d].worker]) = Evidence(ws[cmd[d].worker])
    OBVIOUS
  <2> DEFINE w == cmd[d].worker
  <2>1. TypeOK /\ w \in Worker /\ ws[w] \in WorkerState
    BY RegisteredWorkers DEF RuntimeInv, Pristine, TypeOK
  <2>2. CommandStep(d)
    <3>1. ASSUME NEW e \in Dispatch, CommandStep(e) PROVE e = d
      <4>1. CASE HandlerReturns(e) \/ HandlerFails(e) \/ HandlerPanics(e)
        BY <2>1, <4>1, HandlerEvolves
      <4>2. CASE (\E v \in Worker : Admit(e, v)) \/ ReleaseSlot(e)
        BY <2>1, <4>2 DEF Admit, ReleaseSlot, TypeOK
      <4> QED
        BY <3>1, <4>1, <4>2 DEF CommandStep
    <3>2. UNCHANGED cmd \/ \E e \in Dispatch : CommandStep(e)
      BY <2>1, SignalFrame, GateFrame DEF Next, Register, vars
    <3> QED
      BY <3>1, <3>2
  <2>3. ~ \E v \in Worker : Admit(d, v)
    BY DEF Admit
  <2>4. CASE HandlerReturns(d)
    BY <2>4 DEF HandlerReturns
  <2>5. CASE HandlerFails(d) \/ HandlerPanics(d)
    <3>1. ws'[w] = ws[w]
      BY <2>1, <2>5 DEF HandlerFails, HandlerPanics, CommandFailed, CommandPanicked, TypeOK
    <3> QED
      BY <3>1
  <2>6. CASE ReleaseSlot(d)
    <3>1. ws'[w] = [ws[w] EXCEPT !.inFlight = Decrement(ws[w].inFlight)]
      BY <2>1, <2>6 DEF ReleaseSlot, TypeOK
    <3> QED
      BY <2>1, <3>1 DEF Evidence, WorkerState
  <2> QED
    BY <2>2, <2>3, <2>4, <2>5, <2>6 DEF CommandStep
<1> QED
  BY <1>1, RuntimeInvariant, PTL DEF Spec, StaleCommandsInert

-----------------------------------------------------------------------------
(* The runtime implements LifecycleContract *)

\* A dispatch that is idle runs a command on no worker.
IdleIsNone == \A d \in Dispatch : cmd[d].pc = "idle" => cmd[d].worker = None

\* A dispatch forgets its worker when it gives its slot back (releaseCommandSlot).
LEMMA IdleIsNoneStep == TypeOK /\ IdleIsNone /\ [Next]_vars => IdleIsNone'
<1> SUFFICES ASSUME TypeOK, IdleIsNone, [Next]_vars PROVE IdleIsNone'
  OBVIOUS
<1>1. ASSUME UNCHANGED cmd PROVE IdleIsNone'
  BY <1>1 DEF IdleIsNone
<1>2. ASSUME NEW d \in Dispatch, CommandStep(d) PROVE IdleIsNone'
  <2>1. CASE HandlerReturns(d) \/ HandlerFails(d) \/ HandlerPanics(d)
    BY <2>1, HandlerEvolves DEF IdleIsNone
  <2>2. CASE \E w \in Worker : Admit(d, w)
    BY <2>2 DEF Admit, TypeOK, IdleIsNone
  <2>3. CASE ReleaseSlot(d)
    BY <2>3 DEF ReleaseSlot, TypeOK, IdleIsNone, IdleCommand
  <2> QED
    BY <1>2, <2>1, <2>2, <2>3 DEF CommandStep
<1> QED
  BY <1>1, <1>2, SignalFrame, GateFrame DEF Next, Register, vars

Operating(t) == t.lifecycle \in {"starting", "draining", "stopping"}

\* Only a call that holds the gate, and has no worker in transition yet, takes
\* a worker into an operation (beginWorkerStart, beginWorkerDrain,
\* beginWorkerStop).
LEMMA OperationBegins ==
    ASSUME RuntimeInv, NEW c \in Caller, CallerStep(c), NEW w \in Worker,
           Operating(ws'[w]), ws'[w].lifecycle # ws[w].lifecycle
    PROVE  HoldsGate(c) /\ ~ InUserCode(c)
<1> USE DEF RuntimeInv
<1>1. CASE BeginStart(c) \/ BeginStop(c) \/ Drain(c)
  BY <1>1 DEF BeginStart, BeginStop, Drain, CanBegin, Walking, At, HoldsGate, InUserCode
<1>2. CASE Inside(c)
  BY <1>2 DEF Inside
<1>3. CASE Leaves(c)
  <2>1. w = call[c].worker /\ ws[w].lifecycle \in {"starting", "stopping"}
    BY <1>3 DEF Leaves, TransitionsOwned
  <2>2. Moves(ws[w], ws'[w])
    BY StepMoves DEF Next
  <2> QED
    BY <1>3, <2>1, <2>2 DEF Leaves, Moves, Operating, Stoppable
<1>4. CASE Enters(c)
  BY <1>4 DEF Enters
<1>5. ASSUME Outside(c), ~ Drain(c), ~ BeginStart(c), ~ BeginStop(c) PROVE UNCHANGED ws
  <2>1. ASSUME NEW op, NEW by, Enter(c, op, by) PROVE UNCHANGED ws
    BY <2>1 DEF Enter
  <2>2. ~ At(c, "user") /\ ~ At(c, "settle")
    BY <1>5 DEF Outside, InUserCode, At
  <2> QED
    BY <1>5, <2>1, <2>2
    DEF CallerStep, Internal, UserEnds, Invoke, InvokeFromHandler, Expire, Acquire,
        Abandon, CloseAdmission, Reopen, Release, Snapshot, Skip, Reject, WalkDone,
        WaitedIdle, WaitExpired, BackoffElapses, BackoffExpires, UserReturns, UserFails,
        UserCleanupFails, Retry, Complete, Fail
<1> QED
  BY <1>1, <1>2, <1>3, <1>4, <1>5, UserFrame

\* A worker that moves while the others and the commands stay takes a step of
\* the contract, when nothing is in transition as an operation on it begins.
LEMMA MoveIsContractStep ==
    ASSUME TypeOK, NEW w \in Worker, Moves(ws[w], ws'[w]),
           \A v \in Worker : v # w => /\ ws'[v].lifecycle = ws[v].lifecycle
                                      /\ ws'[v].generation = ws[v].generation,
           \A d \in Dispatch : cmd'[d].worker = cmd[d].worker,
           Operating(ws'[w]) /\ ws'[w].lifecycle # ws[w].lifecycle =>
              \A v \in Worker : ws[v].lifecycle \notin {"starting", "stopping"}
    PROVE  [Contract!Next]_(Contract!vars)
<1> DEFINE L == [v \in Worker |-> ws[v].lifecycle]
           G == [v \in Worker |-> ws[v].generation]
           C == [d \in Dispatch |-> cmd[d].worker]
           LL == [v \in Worker |-> ws'[v].lifecycle]
           GG == [v \in Worker |-> ws'[v].generation]
           CC == [d \in Dispatch |-> cmd'[d].worker]
<1>1. /\ LL = [L EXCEPT ![w] = ws'[w].lifecycle]
      /\ GG = [G EXCEPT ![w] = ws'[w].generation]
      /\ CC = C
      /\ L[w] = ws[w].lifecycle /\ G[w] = ws[w].generation
  OBVIOUS
<1>2. Operating(ws'[w]) /\ ws'[w].lifecycle # ws[w].lifecycle =>
         \A v \in Worker : L[v] \notin {"starting", "stopping"}
  OBVIOUS
<1>3. CASE ws'[w].lifecycle = ws[w].lifecycle /\ ws'[w].generation = ws[w].generation
  <2>1. LL = L /\ GG = G
    BY <1>1, <1>3
  <2> QED
    BY <1>1, <2>1 DEF Contract!vars
<1>4. CASE /\ ws[w].lifecycle \in Startable /\ ws'[w].lifecycle = "starting"
           /\ ws'[w].generation = ws[w].generation + 1
  <2>1. Contract!Start(w)
    BY <1>1, <1>2, <1>4
    DEF Contract!Start, Contract!Quiet, Contract!Move, Operating, Startable,
        Contract!Startable
  <2> QED
    BY <2>1 DEF Contract!Next
<1>5. CASE ws'[w].generation = ws[w].generation /\ ws'[w].lifecycle # ws[w].lifecycle
  <2>1. GG = G
    BY <1>1, <1>5
  <2>2. CASE ws[w].lifecycle \in Stoppable /\ ws'[w].lifecycle = "stopping"
    <3>1. Contract!Stop(w)
      BY <1>1, <1>2, <1>5, <2>1, <2>2
      DEF Contract!Stop, Contract!Quiet, Contract!Move, Operating, Stoppable,
          Contract!Stoppable
    <3> QED
      BY <3>1 DEF Contract!Next
  <2>3. CASE ws[w].lifecycle = "running" /\ ws'[w].lifecycle = "draining"
    <3>1. Contract!Drain(w)
      BY <1>1, <1>2, <1>5, <2>1, <2>3
      DEF Contract!Drain, Contract!Quiet, Contract!Move, Operating
    <3> QED
      BY <3>1 DEF Contract!Next
  <2>4. CASE ws[w].lifecycle = "starting" /\ ws'[w].lifecycle \in {"running", "failed"}
    <3>1. Contract!Started(w)
      BY <1>1, <2>1, <2>4 DEF Contract!Started, Contract!Move
    <3> QED
      BY <3>1 DEF Contract!Next
  <2>5. CASE ws[w].lifecycle = "stopping" /\ ws'[w].lifecycle \in {"stopped", "failed"}
    <3>1. Contract!Stopped(w)
      BY <1>1, <2>1, <2>5 DEF Contract!Stopped, Contract!Move
    <3> QED
      BY <3>1 DEF Contract!Next
  <2>6. CASE ws[w].lifecycle \in {"running", "draining"} /\ ws'[w].lifecycle = "failed"
    <3>1. Contract!Break(w)
      BY <1>1, <2>1, <2>6 DEF Contract!Break, Contract!Move
    <3> QED
      BY <3>1 DEF Contract!Next
  <2>7. ws[w].generation \in Nat
    BY RecordAssumption DEF TypeOK, WorkerState, RecordAssumption
  <2>8. ws'[w].generation # ws[w].generation + 1
    BY <1>5, <2>7
  <2> QED
    BY <1>5, <2>2, <2>3, <2>4, <2>5, <2>6, <2>8 DEF Moves
<1> QED
  BY <1>3, <1>4, <1>5 DEF Moves

\* A step of a caller changes the record of one worker at most.
LEMMA CallerMovesOne ==
    ASSUME RuntimeInv, NEW c \in Caller, CallerStep(c)
    PROVE  \E v : \A w \in Worker : w # v => ws'[w] = ws[w]
<1>1. ASSUME NEW v, NEW s, Stored(v, s) \/ Commit(v, s)
      PROVE  \A w \in Worker : w # v => ws'[w] = ws[w]
  BY <1>1, StoredEffect DEF RuntimeInv
<1>2. CASE UNCHANGED ws
  BY <1>2
<1>3. CASE BeginStart(c) \/ BeginStop(c) \/ Drain(c) \/ Complete(c) \/ Fail(c)
  <2>1. UNCHANGED ws \/ \E v, s : Commit(v, s)
    BY <1>3 DEF BeginStart, BeginStop, Drain, Complete, Fail
  <2> QED
    BY <1>1, <2>1
<1>4. CASE UserFails(c) \/ Retry(c)
  <2>1. UNCHANGED ws \/ \E v, s : Stored(v, s)
    BY <1>4 DEF UserFails, Retry, RecordFailure, Stored
  <2> QED
    BY <1>1, <2>1
<1>5. ASSUME NEW op, NEW by, Enter(c, op, by) PROVE UNCHANGED ws
  BY <1>5 DEF Enter
<1>6. CASE \/ Expire(c) \/ Acquire(c) \/ Abandon(c) \/ CloseAdmission(c) \/ Reopen(c)
           \/ Release(c) \/ Snapshot(c) \/ Skip(c) \/ Reject(c) \/ WalkDone(c)
           \/ WaitedIdle(c) \/ WaitExpired(c) \/ BackoffElapses(c) \/ BackoffExpires(c)
           \/ UserReturns(c) \/ UserCleanupFails(c)
  BY <1>2, <1>6 DEF Expire, Acquire, Abandon, CloseAdmission, Reopen, Release, Snapshot,
       Skip, Reject, WalkDone, WaitedIdle, WaitExpired, BackoffElapses, BackoffExpires,
       UserReturns, UserCleanupFails
<1> QED
  BY <1>2, <1>3, <1>4, <1>5, <1>6
  DEF CallerStep, Internal, UserEnds, Invoke, InvokeFromHandler

\* A step that leaves states, generations and commands alone stutters.
LEMMA ContractStutters ==
    ASSUME \A v \in Worker : /\ ws'[v].lifecycle = ws[v].lifecycle
                             /\ ws'[v].generation = ws[v].generation,
           \A d \in Dispatch : cmd'[d].worker = cmd[d].worker
    PROVE  UNCHANGED (Contract!vars)
<1>1. /\ [v \in Worker |-> ws'[v].lifecycle] = [v \in Worker |-> ws[v].lifecycle]
      /\ [v \in Worker |-> ws'[v].generation] = [v \in Worker |-> ws[v].generation]
      /\ [d \in Dispatch |-> cmd'[d].worker] = [d \in Dispatch |-> cmd[d].worker]
  OBVIOUS
<1> QED
  BY <1>1 DEF Contract!vars

\* Every step of the runtime is a step of the contract or invisible to it.
LEMMA ContractStep ==
    RuntimeInv /\ IdleIsNone /\ [Next]_vars => [Contract!Next]_(Contract!vars)
<1> SUFFICES ASSUME RuntimeInv, IdleIsNone, [Next]_vars
             PROVE  [Contract!Next]_(Contract!vars)
  OBVIOUS
<1>a. TypeOK /\ \A w \in Worker : Moves(ws[w], ws'[w])
  BY StepMoves DEF RuntimeInv
<1>b. ASSUME NEW v, \A w \in Worker : w # v => ws'[w] = ws[w],
             \A d \in Dispatch : cmd'[d].worker = cmd[d].worker,
             \A w \in Worker : Operating(ws'[w]) /\ ws'[w].lifecycle # ws[w].lifecycle =>
                \A u \in Worker : ws[u].lifecycle \notin {"starting", "stopping"}
      PROVE  [Contract!Next]_(Contract!vars)
  <2>1. CASE v \in Worker
    BY <1>a, <1>b, <2>1, MoveIsContractStep
  <2>2. CASE v \notin Worker
    BY <1>b, <2>2, ContractStutters
  <2> QED
    BY <2>1, <2>2
<1>c. ASSUME Untouched
      PROVE  \A w \in Worker : Operating(ws'[w]) => ws'[w].lifecycle = ws[w].lifecycle
  BY <1>c DEF Untouched, Operating
<1>1. ASSUME NEW w \in Worker, Register(w) PROVE UNCHANGED (Contract!vars)
  <2>1. ws[w] = NewWorkerState
    BY <1>1 DEF Register, RuntimeInv, Pristine
  <2>2. UNCHANGED cmd
    BY <1>1 DEF Register
  <2> QED
    BY <1>1, <1>a, <2>1, <2>2, RegisterFrame, ContractStutters
<1>2. ASSUME NEW w \in Worker, Signal(w) PROVE [Contract!Next]_(Contract!vars)
  <2>1. \E s : Commit(w, s)
    BY <1>2 DEF Signal, SetReady, ReadySet, SetAcceptingWork, AcceptingWorkSet,
         ReportFailure, HandleMayReport
  <2>2. \A u \in Worker : u # w => ws'[u] = ws[u]
    BY <1>a, <2>1, StoredEffect
  <2> QED
    BY <1>2, <1>a, <1>b, <1>c, <2>2, SignalFrame
<1>3. ASSUME NEW c \in Caller, CallerStep(c) PROVE [Contract!Next]_(Contract!vars)
  <2>1. PICK v : \A w \in Worker : w # v => ws'[w] = ws[w]
    BY <1>3, CallerMovesOne
  <2>2. ASSUME NEW w \in Worker, Operating(ws'[w]), ws'[w].lifecycle # ws[w].lifecycle
        PROVE  \A u \in Worker : ws[u].lifecycle \notin {"starting", "stopping"}
    <3>1. HoldsGate(c) /\ ~ InUserCode(c)
      BY <1>3, <2>2, OperationBegins
    <3>2. \A k \in Caller : ~ InUserCode(k)
      BY <3>1 DEF RuntimeInv, GateExclusive, InUserCode, HoldsGate
    <3> QED
      BY <3>2 DEF RuntimeInv, TransitionsOwned, Owns
  <2>3. UNCHANGED cmd
    BY <1>3, <1>a, GateFrame
  <2> QED
    BY <1>b, <2>1, <2>2, <2>3
<1>4. ASSUME NEW d \in Dispatch, CommandStep(d) PROVE [Contract!Next]_(Contract!vars)
  <2> DEFINE C == [e \in Dispatch |-> cmd[e].worker]
             CC == [e \in Dispatch |-> cmd'[e].worker]
  <2>1. CASE HandlerReturns(d) \/ HandlerFails(d) \/ HandlerPanics(d)
    <3>1. \A e \in Dispatch : cmd'[e].worker = cmd[e].worker
      BY <1>a, <2>1, HandlerEvolves
    <3>2. UNCHANGED ws \/ \E s : Stored(cmd[d].worker, s)
      BY <2>1 DEF HandlerReturns, HandlerFails, HandlerPanics, Commit, Stored
    <3>3. \A u \in Worker : u # cmd[d].worker => ws'[u] = ws[u]
      BY <1>a, <3>2, StoredEffect
    <3> QED
      BY <1>4, <1>a, <1>b, <1>c, <3>1, <3>3, CommandFrame
  <2>2. ASSUME (\E w \in Worker : Admit(d, w)) \/ ReleaseSlot(d)
        PROVE  /\ [v \in Worker |-> ws'[v].lifecycle] = [v \in Worker |-> ws[v].lifecycle]
               /\ [v \in Worker |-> ws'[v].generation] = [v \in Worker |-> ws[v].generation]
    BY <1>a, <2>2, SlotFrame
  <2>3. ASSUME NEW w \in Worker, Admit(d, w) PROVE Contract!Begin(d, w)
    <3>1. C[d] = None /\ ws[w].lifecycle = "running"
      BY <2>3 DEF Admit, IdleIsNone
    <3>2. CC = [C EXCEPT ![d] = w]
      BY <1>a, <2>3 DEF Admit, TypeOK
    <3> HIDE DEF C, CC
    <3>3. [v \in Worker |-> ws[v].lifecycle][w] = "running"
      BY <3>1
    <3> QED
      BY <2>2, <2>3, <3>1, <3>2, <3>3 DEF Contract!Begin, C, CC
  <2>4. CASE ReleaseSlot(d)
    <3>1. CC = [C EXCEPT ![d] = None]
      BY <1>a, <2>4 DEF ReleaseSlot, TypeOK, IdleCommand
    <3>2. Contract!End(d)
      BY <2>2, <2>4, <3>1 DEF Contract!End
    <3> QED
      BY <3>2 DEF Contract!Next
  <2> QED
    BY <1>4, <2>1, <2>3, <2>4 DEF CommandStep, Contract!Next
<1>5. CASE UNCHANGED vars
  BY <1>5, ContractStutters DEF vars
<1> QED
  BY <1>1, <1>2, <1>3, <1>4, <1>5 DEF Next

\* The runtime implements the abstract lifecycle: gate, snapshots, retries, late
\* reports and stale commands together never take two workers into transition,
\* leave the automaton, or begin a command on a worker that is not running, for
\* any number of workers, callers and dispatches (runtime.go).
THEOREM RuntimeImplementsContract == Spec => ImplementsContract
<1>1. Init => Contract!Init /\ IdleIsNone
  <2> SUFFICES ASSUME Init PROVE Contract!Init /\ IdleIsNone
    OBVIOUS
  <2>1. /\ \A w \in Worker : ws[w].lifecycle = "registered" /\ ws[w].generation = 0
        /\ \A d \in Dispatch : cmd[d].worker = None
    BY DEF Init, NewWorkerState, IdleCommand
  <2> QED
    BY <2>1 DEF Contract!Init, IdleIsNone
<1>2. RuntimeInv /\ IdleIsNone /\ [Next]_vars
         => IdleIsNone' /\ [Contract!Next]_(Contract!vars)
  BY IdleIsNoneStep, ContractStep DEF RuntimeInv
<1> QED
  BY <1>1, <1>2, RuntimeInvariant, PTL DEF Spec, ImplementsContract, Contract!Spec
=============================================================================
