----------------------------- MODULE OpskitView -----------------------------
(***************************************************************************)
(* What the runtime tells an Opskit registry about itself (opskit.go):     *)
(* the component status, and the readiness with one item per worker. Both  *)
(* are read in one critical section of r.mu and change nothing.            *)
(***************************************************************************)
EXTENDS WorkerRuntime

OpskitState == {"initializing", "ready", "not_ready", "stopped", "failed", "unknown"}

\* opskitStateFromRuntimeStatus, for the runtime and for its workers.
OpskitStateOf(state, ready) ==
    CASE state \in {"registered", "stopped"} -> "stopped"
      [] state = "starting"                  -> "initializing"
      [] state = "running"                   -> IF ready THEN "ready" ELSE "not_ready"
      [] state \in {"draining", "stopping"}  -> "not_ready"
      [] state = "failed"                    -> "failed"
      [] OTHER                               -> "unknown"

OpskitWorkerReady(w) == ws[w].lifecycle = "running" /\ ws[w].ready

\* Mutant: a failure policy other than the one that fails the runtime is not
\* looked at.
ReadinessImpactPolicyOnly(w) ==
    IF \/ ReadinessPolicy = "all_workers"
       \/ w \in Contributes
       \/ FailurePolicy[w] = "fail_runtime"
    THEN "blocking" ELSE "non_blocking"

ReadinessImpact(w) ==
    IF \/ ReadinessPolicy = "all_workers"
       \/ w \in Contributes
       \/ FailurePolicy[w] \in {"mark_runtime_unready", "fail_runtime"}
    THEN "blocking" ELSE "non_blocking"

ReadinessItem(w) ==
    [name |-> w, impact |-> ReadinessImpact(w), ready |-> OpskitWorkerReady(w),
     state |-> OpskitStateOf(ws[w].lifecycle, OpskitWorkerReady(w))]

\* opskitReadinessSnapshot
Readiness ==
    [ready |-> status.ready,
     items |-> [i \in 1 .. Len(workerOrder) |-> ReadinessItem(workerOrder[i])]]

\* Runtime.Status
Status ==
    [state |-> OpskitStateOf(status.state, status.ready), ready |-> status.ready,
     workers |-> Len(workerOrder), inFlight |-> status.inFlight]

-----------------------------------------------------------------------------
ItemsWith(p(_)) ==
    \E i \in DOMAIN Readiness.items : p(Readiness.items[i])

NotReady(item) == ~ item.ready
BlockingNotReady(item) == item.impact = "blocking" /\ ~ item.ready
BlockingFailed(item) == item.impact = "blocking" /\ item.state = "failed"

\* The items account for the aggregate they come with, though it is derived by
\* other code and from other flags (opskitReadinessImpact,
\* deriveRuntimeReadiness): a runtime that is not ready has an item that is not,
\* one that carries weight where the policy waits for workers; and a ready
\* runtime has no failed item that carries weight.
ItemsExplainReadiness ==
    /\ Registered # {} /\ ~ Readiness.ready =>
          /\ ItemsWith(NotReady)
          /\ \/ ReadinessPolicy = "all_workers"
             \/ Registered \cap Contributes # {}
             => ItemsWith(BlockingNotReady)
    /\ Readiness.ready => ~ ItemsWith(BlockingFailed)
=============================================================================
