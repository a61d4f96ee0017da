--------------------------- MODULE ObserverEvents ---------------------------
(***************************************************************************)
(* What an Observer is told of the runtime of WorkerRuntime. A critical    *)
(* section that moves a worker commits first and calls the observer after  *)
(* r.mu is released, on the goroutine that committed: that goroutine goes  *)
(* on when the callback is done, but every other one may commit, and call  *)
(* the observer, in between. Transition events carry the worker's new      *)
(* state; readiness events and the aggregate's own events, which the same  *)
(* code sends next to them, are left out.                                  *)
(***************************************************************************)
EXTENDS WorkerRuntime

CONSTANT Signaller      \* goroutines that report failures through a handle

VARIABLES
    event,  \* goroutine -> the transition it is reporting, or None
    seen,   \* worker -> the state in the last transition event about it
    told    \* worker -> a failure was reported since the last start or stop began

eventVars == <<event, seen, told>>

Emitter == Caller \cup Dispatch \cup Signaller

Event == [worker : Worker, to : LifecycleState]

ASSUME EventAssumption == None \notin Event

EventInit ==
    /\ Init
    /\ event = [e \in Emitter |-> None]
    /\ seen = [w \in Worker |-> "registered"]
    /\ told = [w \in Worker |-> FALSE]

-----------------------------------------------------------------------------

\* Mutant: observers are called from a goroutine of their own, so that the
\* operation does not wait for them.
FreeAlways(e) == TRUE

\* A goroutine that is in a callback of the observer does nothing else; a
\* lifecycle operation keeps the gate meanwhile.
Free(e) == event[e] = None

\* observeTransition: called for a commit that changed the worker's state.
Emit(e) ==
    LET Moved == {w \in Worker : ws'[w].lifecycle # ws[w].lifecycle}
    IN  event' = [event EXCEPT ![e] =
            IF Moved = {} THEN @
            ELSE LET w == CHOOSE m \in Moved : TRUE
                 IN  [worker |-> w, to |-> ws'[w].lifecycle]]

\* The callback runs, and returns.
Deliver(e) ==
    /\ event[e] # None
    /\ seen' = [seen EXCEPT ![event[e].worker] = event[e].to]
    /\ event' = [event EXCEPT ![e] = None]
    /\ UNCHANGED <<vars, told>>

\* Mutant: any failure in the status is taken for a reported one, also the one
\* that a failed attempt of Start has just recorded there.
SuppressedByStatus(s) == s.lastFailure # "nil"

\* suppressFailureEvent in failWorker: a failure report has been sent already.
Suppressed(s) ==
    s.lastFailure # "nil" /\ (s.lifecycle = "failed" \/ s.failureReportedDuringStart)

\* The step of c begins a start or a stop of w.
Begins(c, w) == At(c, "walk") /\ call'[c].pc = "user" /\ call'[c].worker = w

\* The step of c is failWorker or failLoopCleanup on w. The second never
\* suppresses its report, and neither sends one for a stale generation.
SendsFailure(c, w) ==
    /\ At(c, "settle") /\ call'[c].pc # "settle"
    /\ call[c].worker = w /\ call[c].outcome # "ok" /\ Current(c)
    /\ call[c].outcome = "cleanup" \/ ~ Suppressed(ws[w])

\* Nothing else a lifecycle call does reports a failure: not the attempts that a
\* retry follows, nor the completion of a start whose worker reported one.
CallerActs(c) ==
    /\ Free(c)
    /\ CallerStep(c)
    /\ Emit(c)
    /\ told' = [w \in Worker |-> ~ Begins(c, w) /\ (told[w] \/ SendsFailure(c, w))]
    /\ UNCHANGED seen

\* recordCommandPanic reports the panic whether or not it failed the worker.
Panics(d) ==
    /\ Free(d)
    /\ HandlerPanics(d)
    /\ Emit(d)
    /\ told' = [told EXCEPT ![cmd[d].worker] = TRUE]
    /\ UNCHANGED seen

\* What else a dispatch does moves no worker.
Dispatches(d) ==
    /\ Free(d)
    /\ \/ \E w \in Worker : Admit(d, w)
       \/ HandlerReturns(d) \/ HandlerFails(d) \/ ReleaseSlot(d)
    /\ UNCHANGED eventVars

\* reportWorkerFailure always sends a failure event.
Reports(e, w) ==
    /\ Free(e)
    /\ \E gen \in Handles(w) : ReportFailure(w, gen)
    /\ Emit(e)
    /\ told' = [told EXCEPT ![w] = TRUE]
    /\ UNCHANGED seen

EventNext ==
    \/ \E w \in Worker : Register(w) /\ UNCHANGED eventVars
    \/ \E c \in Caller : CallerActs(c)
    \/ \E d \in Dispatch : Panics(d) \/ Dispatches(d)
    \/ \E e \in Signaller, w \in Worker : Reports(e, w)
    \/ \E e \in Emitter : Deliver(e)

EventSpec == EventInit /\ [][EventNext]_<<vars, eventVars>>

-----------------------------------------------------------------------------
(* What an observer may rely on *)

Reporting(w) == \E e \in Emitter : event[e] # None /\ event[e].worker = w

\* When no callback about a worker is outstanding, the last transition an
\* observer was told of is the state the worker is in, unless one of the two is
\* "failed": a lifecycle operation keeps the gate while it reports, so only the
\* transition of a failure report or a command panic, which no gate orders, can
\* overtake another or be overtaken (observeWorkerStateChange).
ObserverKnowsState ==
    \A w \in Worker :
        ~ Reporting(w) => seen[w] = ws[w].lifecycle \/ "failed" \in {seen[w], ws[w].lifecycle}

\* No worker fails in silence: since the start or stop that a failed worker was
\* last taken through began, a failure event was sent, although attempts that
\* are retried send none and failWorker suppresses a second report of a start
\* (suppressFailureEvent, recordWorkerFailureStatus).
NoSilentFailure == \A w \in Worker : ws[w].lifecycle = "failed" => told[w]
=============================================================================
