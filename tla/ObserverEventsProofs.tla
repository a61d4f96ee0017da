------------------------ MODULE ObserverEventsProofs ------------------------
(***************************************************************************)
(* What an observer may rely on, for every number of workers, callers,     *)
(* dispatches and goroutines that report failures.                         *)
(***************************************************************************)
EXTENDS ObserverEvents, RuntimeViewProofs

-----------------------------------------------------------------------------
(* The inductive invariants *)

EventTypeOK ==
    /\ event \in [Emitter -> Event \cup {None}]
    /\ seen \in [Worker -> LifecycleState]
    /\ told \in [Worker -> BOOLEAN]

\* A failure that is in the record, or will be when the start under way is
\* resolved.
Failing(s) == s.lifecycle = "failed" \/ s.failureReportedDuringStart = TRUE

FailureTold == \A w \in Worker : Failing(ws[w]) => told[w] = TRUE

\* Only the call that keeps the gate reports a transition to a state other than
\* failed, and its worker is in that state or has failed meanwhile.
EventsHoldGate ==
    \A e \in Emitter :
        event[e] # None /\ event[e].to # "failed" =>
            /\ e \in Caller /\ HoldsGate(e)
            /\ ws[event[e].worker].lifecycle \in {event[e].to, "failed"}

\* The state of a worker that has not failed was reported last, or is being
\* reported, or the report of an earlier failure came late.
StateReported ==
    \A w \in Worker :
        \/ ws[w].lifecycle = "failed"
        \/ seen[w] \in {ws[w].lifecycle, "failed"}
        \/ \E e \in Emitter : event[e] = [worker |-> w, to |-> ws[w].lifecycle]

EventInv == EventTypeOK /\ FailureTold /\ EventsHoldGate /\ StateReported

-----------------------------------------------------------------------------
(* Types, and that the events are those of the runtime *)

\* When the runtime is created nothing has been reported (New).
LEMMA EventInitInv == EventInit => EventInv
<1> SUFFICES ASSUME EventInit PROVE EventInv
  OBVIOUS
<1>1. \A w \in Worker : /\ ws[w].lifecycle = "registered"
                        /\ ws[w].failureReportedDuringStart = FALSE
                        /\ seen[w] = "registered"
  BY DEF EventInit, Init, NewWorkerState
<1>2. \A e \in Emitter : event[e] = None
  BY DEF EventInit
<1>3. EventTypeOK
  BY DEF EventInit, EventTypeOK, LifecycleState
<1> QED
  BY <1>1, <1>2, <1>3 DEF EventInv, FailureTold, Failing, EventsHoldGate, StateReported

\* Every step is one of the runtime, or the return of a callback, which moves
\* nothing in the runtime: an observer is told after a commit, never within it.
LEMMA EventSimulates == [EventNext]_<<vars, eventVars>> => [Next]_vars
<1> SUFFICES ASSUME [EventNext]_<<vars, eventVars>> PROVE [Next]_vars
  OBVIOUS
<1>1. CASE UNCHANGED <<vars, eventVars>>
  BY <1>1
<1>2. ASSUME NEW w \in Worker, Register(w) PROVE Next
  BY <1>2 DEF Next
<1>3. ASSUME NEW c \in Caller, CallerActs(c) PROVE Next
  BY <1>3 DEF CallerActs, Next
<1>4. ASSUME NEW d \in Dispatch, Panics(d) \/ Dispatches(d) PROVE Next
  BY <1>4 DEF Panics, Dispatches, CommandStep, Next
<1>5. ASSUME NEW e \in Signaller, NEW w \in Worker, Reports(e, w) PROVE Next
  BY <1>5 DEF Reports, Signal, Next
<1>6. ASSUME NEW e \in Emitter, Deliver(e) PROVE UNCHANGED vars
  BY <1>6 DEF Deliver
<1> QED
  BY <1>1, <1>2, <1>3, <1>4, <1>5, <1>6 DEF EventNext

\* A goroutine that moves one worker, or none, has that transition to report when
\* it is done and no other (observeTransition).
LEMMA EmitEffect ==
    ASSUME EventTypeOK, NEW e \in Emitter, Emit(e), NEW v,
           \A w \in Worker : w # v => ws'[w].lifecycle = ws[w].lifecycle,
           \A w \in Worker : ws'[w].lifecycle \in LifecycleState
    PROVE  /\ event' \in [Emitter -> Event \cup {None}]
           /\ \A f \in Emitter : f # e => event'[f] = event[f]
           /\ \/ /\ event'[e] = event[e]
                 /\ \A w \in Worker : ws'[w].lifecycle = ws[w].lifecycle
              \/ /\ v \in Worker
                 /\ event'[e] = [worker |-> v, to |-> ws'[v].lifecycle]
<1> DEFINE Moved == {w \in Worker : ws'[w].lifecycle # ws[w].lifecycle}
           first == CHOOSE m \in Moved : TRUE
<1>1. CASE Moved = {}
  <2>1. event' = event
    BY <1>1 DEF Emit, EventTypeOK
  <2> QED
    BY <1>1, <2>1 DEF EventTypeOK
<1>2. CASE Moved # {}
  <2>1. first \in Moved
    BY <1>2
  <2>2. first = v /\ v \in Worker
    BY <2>1
  <2>3. event' = [event EXCEPT ![e] = [worker |-> first, to |-> ws'[first].lifecycle]]
    BY <1>2 DEF Emit
  <2>4. event' = [event EXCEPT ![e] = [worker |-> v, to |-> ws'[v].lifecycle]]
    BY <2>2, <2>3
  <2>5. [worker |-> v, to |-> ws'[v].lifecycle] \in Event
    BY <2>2 DEF Event
  <2> QED
    BY <2>2, <2>4, <2>5 DEF EventTypeOK
<1> QED
  BY <1>1, <1>2

\* A callback that returns has told of its transition, and of no other.
LEMMA DeliverEffect ==
    ASSUME EventTypeOK, NEW e \in Emitter, Deliver(e)
    PROVE  /\ event[e] \in Event /\ event'[e] = None
           /\ \A f \in Emitter : f # e => event'[f] = event[f]
           /\ seen'[event[e].worker] = event[e].to
           /\ \A w \in Worker : w # event[e].worker => seen'[w] = seen[w]
           /\ EventTypeOK' /\ UNCHANGED <<vars, told>>
<1>1. event[e] \in Event
  BY DEF EventTypeOK, Deliver
<1>2. event[e].worker \in Worker /\ event[e].to \in LifecycleState
  BY <1>1 DEF Event
<1> QED
  BY <1>1, <1>2 DEF Deliver, EventTypeOK

-----------------------------------------------------------------------------
(* No failure in silence *)

\* What the transitions of a call make of a failing record: only failWorker and
\* failLoopCleanup fail a worker that has not been reported to have failed.
LEMMA CallFailing ==
    ASSUME NEW w, NEW s \in WorkerState, Evidenced(s)
    PROVE  /\ ~ Failing(BegunStart(s))
           /\ s.lifecycle # "starting" => ~ Failing(BegunStop(s))
           /\ s.lifecycle \in Drainable => ~ Failing(Drained(s))
           /\ Failing(CompletedStart(w, s)) => Failing(s)
           /\ Failing(CompletedStop(s)) => Failing(s)
           /\ Failing([s EXCEPT !.lastFailure = "primary"]) => Failing(s)
<1> USE DEF WorkerState, Failing
<1>0. s.failureReportedDuringStart = TRUE => s.lifecycle = "starting"
  BY DEF Evidenced
<1>1. ~ Failing(BegunStart(s))
  BY DEF BegunStart
<1>2. s.lifecycle # "starting" => ~ Failing(BegunStop(s))
  BY <1>0 DEF BegunStop
<1>3. s.lifecycle \in Drainable => ~ Failing(Drained(s))
  BY <1>0 DEF Drained, Drainable
<1>4. Failing(CompletedStart(w, s)) => Failing(s)
  BY DEF CompletedStart
<1>5. Failing(CompletedStop(s)) => Failing(s)
  BY DEF CompletedStop
<1>6. Failing([s EXCEPT !.lastFailure = "primary"]) => Failing(s)
  OBVIOUS
<1> QED
  BY <1>1, <1>2, <1>3, <1>4, <1>5, <1>6

\* A step of a call fails no worker but in failWorker and failLoopCleanup, and a
\* worker it begins to start or to stop has not failed.
LEMMA CallerFails ==
    ASSUME RuntimeInv, NEW c \in Caller, CallerStep(c), NEW w \in Worker, Failing(ws'[w])
    PROVE  /\ ~ Begins(c, w)
           /\ Failing(ws[w]) \/ (Fail(c) /\ Current(c) /\ w = call[c].worker)
<1>a. /\ TypeOK /\ ws[w] \in WorkerState /\ Evidenced(ws[w])
      /\ call[c] \in CallState /\ call \in [Caller -> CallState]
  BY DEF RuntimeInv, TypeOK, EvidenceInv
<1>b. ASSUME NEW v, NEW s, Commit(v, s), v = w => ~ Failing(s)
      PROVE  w # v /\ Failing(ws[w])
  BY <1>a, <1>b, StoredEffect
<1>c. ASSUME NEW v, NEW s, Stored(v, s) \/ Commit(v, s), v = w /\ Failing(s) => Failing(ws[w])
      PROVE  Failing(ws[w])
  BY <1>a, <1>c, StoredEffect
<1>1. CASE BeginStart(c)
  <2> DEFINE v == NextEntry(c).worker
  <2>1. Commit(v, BegunStart(ws[v])) /\ call'[c].worker = v
    BY <1>1, <1>a DEF BeginStart, CallUser, CallState
  <2> HIDE DEF v
  <2>2. w # v /\ Failing(ws[w])
    BY <1>a, <1>b, <2>1, CallFailing
  <2> QED
    BY <2>1, <2>2 DEF Begins
<1>2. CASE BeginStop(c)
  <2> DEFINE v == NextEntry(c).worker
  <2>1. /\ Commit(v, BegunStop(ws[v])) /\ call'[c].worker = v
        /\ ws[v].lifecycle # "starting"
    BY <1>2, <1>a DEF BeginStop, CallUser, CallState, CanBegin, Admissible, Stoppable
  <2> HIDE DEF v
  <2>2. w # v /\ Failing(ws[w])
    BY <1>a, <1>b, <2>1, CallFailing
  <2> QED
    BY <2>1, <2>2 DEF Begins
<1>3. CASE Drain(c)
  <2> DEFINE v == NextEntry(c).worker
  <2>1. /\ Commit(v, Drained(ws[v])) /\ call'[c].pc = "walk"
        /\ ws[v].lifecycle \in Drainable
    BY <1>3, <1>a DEF Drain, CallState, CanBegin, Walking, At, Admissible
  <2> HIDE DEF v
  <2>2. Failing(ws[w])
    BY <1>a, <1>b, <2>1, CallFailing
  <2> QED
    BY <2>1, <2>2 DEF Begins
<1>4. CASE Complete(c)
  <2> DEFINE v == call[c].worker
  <2>1. \/ UNCHANGED ws \/ Commit(v, CompletedStart(v, ws[v])) \/ Commit(v, CompletedStop(ws[v]))
    BY <1>4 DEF Complete
  <2> HIDE DEF v
  <2>2. Failing(ws[w])
    BY <1>a, <1>c, <2>1, CallFailing
  <2> QED
    BY <1>4, <2>2 DEF Complete, Begins, At
<1>5. CASE Fail(c)
  <2>1. CASE Current(c) /\ w # call[c].worker
    <3>1. PICK s : Commit(call[c].worker, s)
      BY <1>5, <2>1 DEF Fail
    <3>2. Failing(ws[w])
      BY <1>a, <2>1, <3>1, StoredEffect
    <3> QED
      BY <1>5, <3>2 DEF Fail, Begins, At
  <2>2. CASE ~ Current(c)
    BY <1>5, <2>2 DEF Fail, Begins, At
  <2>3. CASE Current(c) /\ w = call[c].worker
    BY <1>5, <2>3 DEF Fail, Begins, At
  <2> QED
    BY <2>1, <2>2, <2>3
<1>6. CASE UserFails(c) \/ Retry(c)
  <2> DEFINE v == call[c].worker
  <2>1. UNCHANGED ws \/ Stored(v, [ws[v] EXCEPT !.lastFailure = "primary"])
    BY <1>6, <1>a DEF UserFails, Retry, RecordFailure, Stored, TypeOK
  <2> HIDE DEF v
  <2>2. Failing(ws[w])
    BY <1>a, <1>c, <2>1, CallFailing
  <2> QED
    BY <1>6, <2>2 DEF UserFails, Retry, Begins, At
<1>7. ASSUME NEW op, NEW by, Enter(c, op, by)
      PROVE  ~ Begins(c, w) /\ Failing(ws[w])
  BY <1>7 DEF Enter, Begins, At
<1>8. CASE Expire(c)
  <2>1. call'[c].pc = call[c].pc
    BY <1>8, <1>a DEF Expire, CallState
  <2> QED
    BY <1>8, <2>1 DEF Expire, Begins, At
<1>9. CASE \/ Acquire(c) \/ Abandon(c) \/ CloseAdmission(c) \/ Reopen(c) \/ Release(c)
           \/ Snapshot(c) \/ WaitedIdle(c) \/ WaitExpired(c) \/ BackoffElapses(c)
           \/ BackoffExpires(c) \/ UserReturns(c) \/ UserCleanupFails(c)
  <2>1. UNCHANGED ws /\ ~ At(c, "walk")
    BY <1>9 DEF Acquire, Abandon, CloseAdmission, Reopen, Release, Snapshot, WaitedIdle,
       WaitExpired, BackoffElapses, BackoffExpires, UserReturns, UserCleanupFails, At
  <2> QED
    BY <2>1 DEF Begins
<1>10. CASE Skip(c) \/ Reject(c) \/ WalkDone(c)
  <2>1. call[c].pc = "walk" /\ UNCHANGED ws
    BY <1>10 DEF Skip, Reject, WalkDone, Walking, At
  <2>2. ASSUME Skip(c) \/ Reject(c) PROVE call'[c].pc = "walk"
    BY <1>a, <2>1, <2>2 DEF Skip, Reject, CallState
  <2>3. ASSUME WalkDone(c) PROVE call'[c].pc # "user"
    BY <1>a, <2>1, <2>3 DEF WalkDone, CallState
  <2> QED
    BY <1>10, <2>1, <2>2, <2>3 DEF Begins
<1> QED
  BY <1>1, <1>2, <1>3, <1>4, <1>5, <1>6, <1>7, <1>8, <1>9, <1>10
  DEF CallerStep, Internal, UserEnds, Invoke, InvokeFromHandler

\* A step that is not a call's, a panic or a report leaves every worker's state
\* and its pending failure alone (admitCommand, releaseCommandSlot,
\* recordCommandFailure).
LEMMA DispatchQuiet ==
    ASSUME TypeOK, NEW d \in Dispatch, Dispatches(d)
    PROVE  /\ UNCHANGED <<call, eventVars>>
           /\ \A w \in Worker :
                 /\ ws'[w].lifecycle = ws[w].lifecycle
                 /\ ws'[w].failureReportedDuringStart = ws[w].failureReportedDuringStart
<1>a. ws \in [Worker -> WorkerState] /\ \A w \in Worker : ws[w] \in WorkerState
  BY DEF TypeOK
<1>1. UNCHANGED <<call, eventVars>>
  BY DEF Dispatches, Admit, HandlerReturns, HandlerFails, ReleaseSlot
<1>2. CASE HandlerReturns(d)
  BY <1>1, <1>2 DEF HandlerReturns
<1>3. CASE \E v \in Worker : Admit(d, v)
  BY <1>a, <1>1, <1>3 DEF Admit, WorkerState
<1>4. CASE ReleaseSlot(d)
  BY <1>a, <1>1, <1>4 DEF ReleaseSlot, WorkerState
<1>5. CASE HandlerFails(d)
  BY <1>a, <1>1, <1>5 DEF HandlerFails, CommandFailed, WorkerState
<1> QED
  BY <1>2, <1>3, <1>4, <1>5 DEF Dispatches

\* Whoever fails a worker tells of it: in failWorker and failLoopCleanup, unless
\* a report has told of it since the operation began; in reportWorkerFailure and
\* in recordCommandPanic, always.
LEMMA FailureToldStep ==
    ASSUME RuntimeInv, EventTypeOK, FailureTold, [EventNext]_<<vars, eventVars>>
    PROVE  FailureTold' /\ told' \in [Worker -> BOOLEAN]
<1> USE DEF FailureTold
<1>a. TypeOK /\ told \in [Worker -> BOOLEAN]
  BY DEF RuntimeInv, EventTypeOK
<1>1. ASSUME NEW w \in Worker, Register(w), UNCHANGED eventVars PROVE FailureTold'
  BY <1>a, <1>1, RegisterFrame DEF Failing, NewWorkerState, eventVars
<1>2. ASSUME NEW c \in Caller, CallerActs(c)
      PROVE  FailureTold' /\ told' \in [Worker -> BOOLEAN]
  <2>1. \A w \in Worker : told'[w] = (~ Begins(c, w) /\ (told[w] \/ SendsFailure(c, w)))
    BY <1>2 DEF CallerActs
  <2>2. told' \in [Worker -> BOOLEAN]
    BY <1>2 DEF CallerActs
  <2>3. ASSUME NEW w \in Worker, Failing(ws'[w]) PROVE told'[w] = TRUE
    <3>1. ~ Begins(c, w)
      BY <1>2, <2>3, CallerFails DEF CallerActs
    <3>2. CASE Failing(ws[w])
      BY <2>1, <3>1, <3>2
    <3>3. CASE ~ Failing(ws[w])
      <4>1. Fail(c) /\ Current(c) /\ w = call[c].worker
        BY <1>2, <2>3, <3>3, CallerFails DEF CallerActs
      <4>2. call'[c].pc # "settle"
        BY <1>a, <4>1 DEF Fail, Proceed, TypeOK, CallState
      <4>3. ws[w].failureReportedDuringStart \in BOOLEAN
        BY <1>a DEF TypeOK, WorkerState
      <4>4. ~ Suppressed(ws[w])
        BY <3>3, <4>3 DEF Suppressed, Failing
      <4>5. SendsFailure(c, w)
        BY <4>1, <4>2, <4>4 DEF SendsFailure, Fail, At
      <4> QED
        BY <2>1, <3>1, <4>5
    <3> QED
      BY <3>2, <3>3
  <2> QED
    BY <2>2, <2>3
<1>3. ASSUME NEW d \in Dispatch, Panics(d)
      PROVE  FailureTold' /\ told' \in [Worker -> BOOLEAN]
  <2>1. \A w \in Worker : w # cmd[d].worker => ws'[w] = ws[w]
    BY <1>a, <1>3 DEF Panics, HandlerPanics, Commit, TypeOK
  <2>2. told' = [told EXCEPT ![cmd[d].worker] = TRUE]
    BY <1>3 DEF Panics
  <2> QED
    BY <1>a, <2>1, <2>2
<1>4. ASSUME NEW d \in Dispatch, Dispatches(d) PROVE FailureTold'
  BY <1>a, <1>4, DispatchQuiet DEF Failing, eventVars
<1>5. ASSUME NEW e \in Signaller, NEW w \in Worker, Reports(e, w)
      PROVE  FailureTold' /\ told' \in [Worker -> BOOLEAN]
  <2>1. PICK s : Commit(w, s)
    BY <1>5 DEF Reports, ReportFailure
  <2>2. \A v \in Worker : v # w => ws'[v] = ws[v]
    BY <1>a, <2>1, StoredEffect
  <2>3. told' = [told EXCEPT ![w] = TRUE]
    BY <1>5 DEF Reports
  <2> QED
    BY <1>a, <2>2, <2>3
<1>6. ASSUME NEW e \in Emitter, Deliver(e) PROVE FailureTold' /\ told' = told
  BY <1>6 DEF Deliver, vars
<1>7. CASE UNCHANGED <<vars, eventVars>>
  BY <1>a, <1>7 DEF vars, eventVars
<1>8. \A d \in Dispatch : Dispatches(d) => told' = told
  BY DEF Dispatches, eventVars
<1>9. UNCHANGED eventVars => told' = told
  BY DEF eventVars
<1> QED
  BY <1>a, <1>1, <1>2, <1>3, <1>4, <1>5, <1>6, <1>7, <1>8, <1>9 DEF EventNext

-----------------------------------------------------------------------------
(* The state an observer knows *)

\* A call moves a worker with the gate in its hands, and keeps it.
LEMMA MovesUnderGate ==
    ASSUME RuntimeInv, NEW c \in Caller, CallerStep(c), NEW w \in Worker,
           ws'[w].lifecycle # ws[w].lifecycle
    PROVE  HoldsGate(c) /\ HoldsGate(c)'
<1>a. TypeOK /\ call[c] \in CallState /\ call \in [Caller -> CallState]
  BY DEF RuntimeInv, TypeOK
<1>1. CASE BeginStart(c) \/ BeginStop(c)
  BY <1>a, <1>1 DEF BeginStart, BeginStop, CallUser, CanBegin, Walking, At, HoldsGate, CallState
<1>2. CASE Drain(c)
  BY <1>a, <1>2 DEF Drain, CanBegin, Walking, At, HoldsGate, CallState
<1>3. CASE Complete(c) \/ Fail(c)
  BY <1>a, <1>3 DEF Complete, Fail, Proceed, At, HoldsGate, CallState
<1>4. CASE UserFails(c) \/ Retry(c)
  BY <1>a, <1>4 DEF UserFails, Retry, Settling, At, HoldsGate, CallState
<1>5. ASSUME NEW op, NEW by, Enter(c, op, by) PROVE UNCHANGED ws
  BY <1>5 DEF Enter
<1>6. CASE \/ Expire(c) \/ Acquire(c) \/ Abandon(c) \/ CloseAdmission(c) \/ Reopen(c)
           \/ Release(c) \/ Snapshot(c) \/ Skip(c) \/ Reject(c) \/ WalkDone(c)
           \/ WaitedIdle(c) \/ WaitExpired(c) \/ BackoffElapses(c) \/ BackoffExpires(c)
           \/ UserReturns(c) \/ UserCleanupFails(c)
  BY <1>6 DEF Expire, Acquire, Abandon, CloseAdmission, Reopen, Release, Snapshot,
       Skip, Reject, WalkDone, WaitedIdle, WaitExpired, BackoffElapses, BackoffExpires,
       UserReturns, UserCleanupFails
<1> QED
  BY <1>1, <1>2, <1>3, <1>4, <1>5, <1>6
  DEF CallerStep, Internal, UserEnds, Invoke, InvokeFromHandler

\* A step that tells of its transition keeps the invariant, when another call
\* that keeps the gate sees no more than a failure of its worker, and a
\* transition to another state is told by the call that keeps the gate.
LEMMA EmissionKeeps ==
    ASSUME EventTypeOK, EventsHoldGate, StateReported, NEW e \in Emitter, Free(e), Emit(e),
           seen' = seen, NEW v, \A w \in Worker : w # v => ws'[w].lifecycle = ws[w].lifecycle,
           \A w \in Worker : ws'[w].lifecycle \in LifecycleState,
           \A f \in Caller : f # e /\ HoldsGate(f) =>
              /\ HoldsGate(f)'
              /\ \A w \in Worker : ws'[w].lifecycle \in {ws[w].lifecycle, "failed"},
           \A w \in Worker : ws'[w].lifecycle \notin {ws[w].lifecycle, "failed"} =>
              e \in Caller /\ HoldsGate(e)'
    PROVE  event' \in [Emitter -> Event \cup {None}] /\ EventsHoldGate' /\ StateReported'
<1>a. /\ event' \in [Emitter -> Event \cup {None}]
      /\ \A f \in Emitter : f # e => event'[f] = event[f]
      /\ \/ event'[e] = event[e] /\ \A w \in Worker : ws'[w].lifecycle = ws[w].lifecycle
         \/ v \in Worker /\ event'[e] = [worker |-> v, to |-> ws'[v].lifecycle]
  BY EmitEffect
<1>b. event[e] = None /\ \A f \in Emitter : event[f] \in Event \cup {None}
  BY DEF Free, EventTypeOK
<1>1. EventsHoldGate'
  <2>1. ASSUME NEW f \in Emitter, f # e, event'[f] # None, event'[f].to # "failed"
        PROVE  /\ f \in Caller /\ HoldsGate(f)'
               /\ ws'[event'[f].worker].lifecycle \in {event'[f].to, "failed"}
    <3>1. event'[f] = event[f] /\ event[f] \in Event
      BY <1>a, <1>b, <2>1
    <3>2. /\ f \in Caller /\ HoldsGate(f)
          /\ ws[event[f].worker].lifecycle \in {event[f].to, "failed"}
      BY <2>1, <3>1 DEF EventsHoldGate
    <3>3. event[f].worker \in Worker
      BY <3>1 DEF Event
    <3> QED
      BY <2>1, <3>1, <3>2, <3>3
  <2>2. ASSUME event'[e] # None, event'[e].to # "failed"
        PROVE  /\ e \in Caller /\ HoldsGate(e)'
               /\ ws'[event'[e].worker].lifecycle \in {event'[e].to, "failed"}
    <3>1. v \in Worker /\ event'[e].worker = v /\ event'[e].to = ws'[v].lifecycle
      BY <1>a, <1>b, <2>2
    <3>2. CASE ws'[v].lifecycle # ws[v].lifecycle
      BY <2>2, <3>1, <3>2
    <3>3. CASE ws'[v].lifecycle = ws[v].lifecycle
      <4>1. \A w \in Worker : ws'[w].lifecycle = ws[w].lifecycle
        BY <3>3
      <4>2. event' = event
        BY <4>1 DEF Emit, EventTypeOK
      <4> QED
        BY <1>b, <2>2, <4>2
    <3> QED
      BY <3>2, <3>3
  <2> QED
    BY <2>1, <2>2 DEF EventsHoldGate
<1>2. StateReported'
  <2> SUFFICES ASSUME NEW w \in Worker, ws'[w].lifecycle # "failed",
                      seen[w] \notin {ws'[w].lifecycle, "failed"}
               PROVE  \E f \in Emitter : event'[f] = [worker |-> w, to |-> ws'[w].lifecycle]
    BY DEF StateReported
  <2>1. CASE ws'[w].lifecycle = ws[w].lifecycle
    <3>1. PICK f \in Emitter : event[f] = [worker |-> w, to |-> ws[w].lifecycle]
      BY <2>1 DEF StateReported
    <3>2. [worker |-> w, to |-> ws[w].lifecycle] \in Event
      BY <2>1 DEF Event
    <3>3. f # e
      BY <1>b, <3>1, <3>2, EventAssumption DEF EventAssumption
    <3> QED
      BY <1>a, <2>1, <3>1, <3>3
  <2>2. CASE ws'[w].lifecycle # ws[w].lifecycle
    BY <1>a, <2>2
  <2> QED
    BY <2>1, <2>2
<1> QED
  BY <1>a, <1>1, <1>2

\* A callback that returns keeps it: what it told is the state of its worker, or
\* a failure is involved.
LEMMA DeliveryKeeps ==
    ASSUME EventTypeOK, EventsHoldGate, StateReported, NEW e \in Emitter, Deliver(e)
    PROVE  EventsHoldGate' /\ StateReported'
<1>a. /\ event[e] \in Event /\ event[e] # None /\ event'[e] = None
      /\ \A f \in Emitter : f # e => event'[f] = event[f]
      /\ seen'[event[e].worker] = event[e].to
      /\ \A w \in Worker : w # event[e].worker => seen'[w] = seen[w]
      /\ ws' = ws /\ call' = call
  BY DeliverEffect DEF Deliver, vars
<1>1. EventsHoldGate'
  BY <1>a DEF EventsHoldGate, HoldsGate
<1>2. ASSUME NEW w \in Worker, w # event[e].worker
      PROVE  \/ ws'[w].lifecycle = "failed"
             \/ seen'[w] \in {ws'[w].lifecycle, "failed"}
             \/ \E f \in Emitter : event'[f] = [worker |-> w, to |-> ws'[w].lifecycle]
  <2>1. CASE \E f \in Emitter : event[f] = [worker |-> w, to |-> ws[w].lifecycle]
    <3>1. PICK f \in Emitter : event[f] = [worker |-> w, to |-> ws[w].lifecycle]
      BY <2>1
    <3>2. f # e
      BY <1>2, <3>1
    <3> QED
      BY <1>a, <3>1, <3>2
  <2>2. CASE ws[w].lifecycle = "failed" \/ seen[w] \in {ws[w].lifecycle, "failed"}
    BY <1>a, <1>2, <2>2
  <2> QED
    BY <2>1, <2>2 DEF StateReported
<1>3. LET w == event[e].worker
      IN  ws'[w].lifecycle = "failed" \/ seen'[w] \in {ws'[w].lifecycle, "failed"}
  BY <1>a DEF EventsHoldGate
<1> QED
  BY <1>1, <1>2, <1>3 DEF StateReported

\* Every step keeps it: the gate orders the transitions of lifecycle calls, and
\* whatever else moves a worker fails it (observeWorkerStateChange).
LEMMA EventStep ==
    ASSUME RuntimeInv, EventInv, [EventNext]_<<vars, eventVars>>
    PROVE  EventInv'
<1>a. /\ TypeOK /\ GateExclusive /\ Pristine
      /\ EventTypeOK /\ EventsHoldGate /\ StateReported /\ FailureTold
  BY DEF RuntimeInv, EventInv
<1>b. \A w \in Worker : ws'[w].lifecycle \in LifecycleState
  BY <1>a, TypeStep, EventSimulates DEF TypeOK, WorkerState
<1>c. FailureTold' /\ told' \in [Worker -> BOOLEAN]
  BY <1>a, FailureToldStep
<1>d. ASSUME UNCHANGED <<call, event, seen>>,
             \A w \in Worker : ws'[w].lifecycle = ws[w].lifecycle
      PROVE  EventTypeOK' /\ EventsHoldGate' /\ StateReported'
  <2>1. \A f \in Emitter : event[f] # None => event[f].worker \in Worker
    BY <1>a DEF EventTypeOK, Event
  <2>2. EventsHoldGate'
    BY <1>a, <1>d, <2>1 DEF EventsHoldGate, HoldsGate
  <2> QED
    BY <1>a, <1>c, <1>d, <2>2 DEF EventTypeOK, StateReported
<1>1. ASSUME NEW w \in Worker, Register(w), UNCHANGED eventVars
      PROVE  EventTypeOK' /\ EventsHoldGate' /\ StateReported'
  <2>1. ws[w] = NewWorkerState
    BY <1>a, <1>1 DEF Register, Pristine
  <2>2. \A v \in Worker : ws'[v] = ws[v]
    BY <1>a, <1>1, <2>1, RegisterFrame
  <2> QED
    BY <1>1, <1>d, <2>2 DEF Register, eventVars
<1>2. ASSUME NEW c \in Caller, CallerActs(c)
      PROVE  EventTypeOK' /\ EventsHoldGate' /\ StateReported'
  <2>1. CallerStep(c) /\ Free(c) /\ Emit(c) /\ seen' = seen /\ c \in Emitter
    BY <1>2 DEF CallerActs, Emitter
  <2>2. PICK v : \A w \in Worker : w # v => ws'[w] = ws[w]
    BY <2>1, CallerMovesOne
  <2>3. ASSUME NEW f \in Caller, f # c, HoldsGate(f)
        PROVE  /\ HoldsGate(f)'
               /\ \A w \in Worker : ws'[w].lifecycle \in {ws[w].lifecycle, "failed"}
    <3>1. ~ HoldsGate(c)
      BY <1>a, <2>3 DEF GateExclusive
    <3>2. \A w \in Worker : ws'[w].lifecycle = ws[w].lifecycle
      BY <2>1, <3>1, MovesUnderGate
    <3>3. call'[f] = call[f]
      BY <1>a, <2>1, <2>3, GateFrame
    <3> QED
      BY <2>3, <3>2, <3>3 DEF HoldsGate
  <2>4. \A w \in Worker : ws'[w].lifecycle \notin {ws[w].lifecycle, "failed"} =>
            c \in Caller /\ HoldsGate(c)'
    BY <2>1, MovesUnderGate
  <2>5. event' \in [Emitter -> Event \cup {None}] /\ EventsHoldGate' /\ StateReported'
    BY <1>a, <1>b, <2>1, <2>2, <2>3, <2>4, EmissionKeeps
  <2> QED
    BY <1>a, <1>c, <2>1, <2>5 DEF EventTypeOK
<1>3. ASSUME NEW e \in Emitter, Free(e), Emit(e), seen' = seen, Untouched, UNCHANGED call,
             NEW v, \A w \in Worker : w # v => ws'[w] = ws[w]
      PROVE  EventTypeOK' /\ EventsHoldGate' /\ StateReported'
  <2>1. \A w \in Worker : ws'[w].lifecycle \in {ws[w].lifecycle, "failed"}
    BY <1>3 DEF Untouched
  <2>2. \A f \in Caller : HoldsGate(f) => HoldsGate(f)'
    BY <1>3 DEF HoldsGate
  <2>3. event' \in [Emitter -> Event \cup {None}] /\ EventsHoldGate' /\ StateReported'
    BY <1>a, <1>b, <1>3, <2>1, <2>2, EmissionKeeps
  <2> QED
    BY <1>a, <1>c, <1>3, <2>3 DEF EventTypeOK
<1>4. ASSUME NEW d \in Dispatch, Panics(d)
      PROVE  EventTypeOK' /\ EventsHoldGate' /\ StateReported'
  <2>1. d \in Emitter /\ Free(d) /\ Emit(d) /\ seen' = seen
    BY <1>4 DEF Panics, Emitter
  <2>2. Untouched /\ UNCHANGED call
    BY <1>a, <1>4, CommandFrame DEF Panics, CommandStep
  <2>3. \A w \in Worker : w # cmd[d].worker => ws'[w] = ws[w]
    BY <1>a, <1>4 DEF Panics, HandlerPanics, Commit, TypeOK
  <2> QED
    BY <1>3, <2>1, <2>2, <2>3
<1>5. ASSUME NEW e \in Signaller, NEW w \in Worker, Reports(e, w)
      PROVE  EventTypeOK' /\ EventsHoldGate' /\ StateReported'
  <2>1. e \in Emitter /\ Free(e) /\ Emit(e) /\ seen' = seen
    BY <1>5 DEF Reports, Emitter
  <2>2. Signal(w) /\ \E s : Commit(w, s)
    BY <1>5 DEF Reports, Signal, ReportFailure
  <2>3. Untouched /\ UNCHANGED call
    BY <1>a, <2>2, SignalFrame
  <2>4. \A u \in Worker : u # w => ws'[u] = ws[u]
    BY <1>a, <2>2, StoredEffect
  <2> QED
    BY <1>3, <2>1, <2>3, <2>4
<1>6. ASSUME NEW d \in Dispatch, Dispatches(d)
      PROVE  EventTypeOK' /\ EventsHoldGate' /\ StateReported'
  BY <1>a, <1>d, <1>6, DispatchQuiet DEF eventVars
<1>7. ASSUME NEW e \in Emitter, Deliver(e)
      PROVE  EventTypeOK' /\ EventsHoldGate' /\ StateReported'
  <2>1. EventTypeOK'
    BY <1>a, <1>7, DeliverEffect
  <2>2. EventsHoldGate' /\ StateReported'
    BY <1>a, <1>7, DeliveryKeeps
  <2> QED
    BY <2>1, <2>2
<1>8. CASE UNCHANGED <<vars, eventVars>>
  <2>1. UNCHANGED <<call, event, seen>> /\ ws' = ws
    BY <1>8 DEF vars, eventVars
  <2> QED
    BY <1>c, <1>d, <2>1 DEF EventInv
<1> QED
  BY <1>c, <1>1, <1>2, <1>4, <1>5, <1>6, <1>7, <1>8 DEF EventNext, EventInv

-----------------------------------------------------------------------------
(* The theorems *)

\* The runtime with its observers is the runtime: callbacks delay the goroutine
\* that makes them, and what is proved of the runtime holds beside them.
THEOREM ObserversOnlyWatch == EventSpec => Spec
<1>1. EventInit => Init
  BY DEF EventInit
<1>2. [EventNext]_<<vars, eventVars>> => [Next]_vars
  BY EventSimulates
<1> QED
  BY <1>1, <1>2, PTL DEF EventSpec, Spec

\* What is pending, told and seen agrees with the runtime in every state.
THEOREM EventInvariant == EventSpec => []EventInv
<1>1. EventInit => EventInv
  BY EventInitInv
<1>2. RuntimeInv /\ EventInv /\ [EventNext]_<<vars, eventVars>> => EventInv'
  BY EventStep
<1>3. EventSpec => []RuntimeInv
  BY ObserversOnlyWatch, RuntimeInvariant, PTL
<1> QED
  BY <1>1, <1>2, <1>3, PTL DEF EventSpec

\* No worker fails in silence, although retried attempts send no event and
\* failWorker suppresses a second report of a start (suppressFailureEvent).
THEOREM NoFailureInSilence == EventSpec => []NoSilentFailure
<1>1. EventInv => NoSilentFailure
  BY DEF EventInv, FailureTold, Failing, NoSilentFailure
<1> QED
  BY <1>1, EventInvariant, PTL

\* When no callback about a worker is outstanding an observer knows its state,
\* unless a failure overtook another transition or was overtaken by one
\* (observeWorkerStateChange).
THEOREM ObserversKnowTheState == EventSpec => []ObserverKnowsState
<1>1. TypeOK /\ EventInv => ObserverKnowsState
  <2> SUFFICES ASSUME TypeOK, EventInv, NEW w \in Worker, ~ Reporting(w)
               PROVE  seen[w] = ws[w].lifecycle \/ "failed" \in {seen[w], ws[w].lifecycle}
    BY DEF ObserverKnowsState
  <2>1. ASSUME NEW e \in Emitter, event[e] = [worker |-> w, to |-> ws[w].lifecycle]
        PROVE  FALSE
    <3>1. [worker |-> w, to |-> ws[w].lifecycle] \in Event
      BY DEF Event, TypeOK, WorkerState
    <3>2. event[e] # None /\ event[e].worker = w
      BY <2>1, <3>1, EventAssumption DEF EventAssumption
    <3> QED
      BY <3>2 DEF Reporting
  <2> QED
    BY <2>1 DEF EventInv, StateReported
<1>2. EventSpec => []TypeOK
  BY ObserversOnlyWatch, TypeCorrect, PTL
<1> QED
  BY <1>1, <1>2, EventInvariant, PTL
=============================================================================
