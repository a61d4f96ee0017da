---------------------------- MODULE RuntimeStatus ----------------------------
(***************************************************************************)
(* The aggregate status the runtime publishes, derived from the worker     *)
(* records every time one of them is committed (runtime_status.go).        *)
(*                                                                         *)
(* R is the set of registered workers and ws maps a worker to a record     *)
(* with at least the fields lifecycle and ready.                           *)
(***************************************************************************)
EXTENDS Lifecycle

CONSTANTS
    Worker,           \* every worker that can be registered
    FailurePolicy,    \* worker -> "isolate", "mark_runtime_unready", "fail_runtime"
    Contributes,      \* the workers that contribute to runtime readiness
    ReadinessPolicy   \* "contributing_workers" or "all_workers"

ASSUME StatusAssumption ==
    /\ FailurePolicy \in [Worker -> {"isolate", "mark_runtime_unready", "fail_runtime"}]
    /\ Contributes \subseteq Worker
    /\ ReadinessPolicy \in {"contributing_workers", "all_workers"}

Some(R, ws, s) == \E w \in R : ws[w].lifecycle = s
Every(R, ws, s) == R # {} /\ \A w \in R : ws[w].lifecycle = s

\* A failed worker whose policy has the given effect on the runtime.
FailedUnder(R, ws, policy) ==
    \E w \in R : ws[w].lifecycle = "failed" /\ FailurePolicy[w] = policy

RunningReady(S, ws) == \A w \in S : ws[w].lifecycle = "running" /\ ws[w].ready

\* Mutant: the switch has no default and leaves Go's zero value.
DeriveStateNoDefault(R, ws, prev) ==
    IF R = {} THEN "registered"
    ELSE IF FailedUnder(R, ws, "fail_runtime") THEN "failed"
    ELSE IF \E s \in {"starting", "draining", "stopping", "running", "failed"} : Some(R, ws, s)
    THEN CHOOSE s \in {"starting", "draining", "stopping", "running", "failed"} : Some(R, ws, s)
    ELSE IF Every(R, ws, "stopped")    THEN "stopped"
    ELSE IF Every(R, ws, "registered") THEN "registered"
    ELSE ""

\* Aggregate lifecycle, in the order of precedence of the code's switch. When
\* no case applies the previous state prev is kept.
DeriveState(R, ws, prev) ==
    IF R = {} THEN "registered"
    ELSE IF FailedUnder(R, ws, "fail_runtime") THEN "failed"
    ELSE IF Some(R, ws, "starting") THEN "starting"
    ELSE IF Some(R, ws, "draining") THEN "draining"
    ELSE IF Some(R, ws, "stopping") THEN "stopping"
    ELSE IF Some(R, ws, "running")  THEN "running"
    ELSE IF Some(R, ws, "failed")   THEN "failed"
    ELSE IF Every(R, ws, "stopped")    THEN "stopped"
    ELSE IF Every(R, ws, "registered") THEN "registered"
    ELSE prev

InTransition(R, ws) == \E s \in {"starting", "draining", "stopping"} : Some(R, ws, s)

DeriveReady(R, ws) ==
    /\ ~ FailedUnder(R, ws, "fail_runtime")
    /\ ~ FailedUnder(R, ws, "mark_runtime_unready")
    /\ \/ /\ ReadinessPolicy = "all_workers"
          /\ R # {}
          /\ ~ InTransition(R, ws)
          /\ ~ Some(R, ws, "failed")
          /\ RunningReady(R, ws)
       \/ /\ ReadinessPolicy = "contributing_workers"
          /\ R \cap Contributes = {}
          /\ Some(R, ws, "running")
          /\ ~ InTransition(R, ws)
       \/ /\ ReadinessPolicy = "contributing_workers"
          /\ R \cap Contributes # {}
          /\ RunningReady(R \cap Contributes, ws)

\* recomputeStatusLocked: the in-flight count is carried over.
Recompute(R, ws, status) ==
    [status EXCEPT !.state = DeriveState(R, ws, status.state),
                   !.ready = DeriveReady(R, ws)]
=============================================================================
