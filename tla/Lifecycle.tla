------------------------------ MODULE Lifecycle ------------------------------
(***************************************************************************)
(* The lifecycle states shared by workers and by the runtime's aggregate   *)
(* status (lifecycle.go), and the sets of states from which the locked     *)
(* transitions of runtime.go may leave.                                    *)
(***************************************************************************)

LifecycleState ==
    {"registered", "starting", "running", "draining", "stopping", "stopped", "failed"}

\* States a WorkerRuntime handle may mutate the worker in.
AllowsRuntimeMutation == {"starting", "running", "draining"}

\* States in which a handle may raise (not merely lower) a signal.
AllowsPositiveSignal == {"starting", "running"}

\* States Start, Stop, and Drain accept, and those ReportFailure accepts.
Startable  == {"registered", "stopped", "failed"}
Stoppable  == {"running", "draining", "failed"}
Drainable  == {"running", "draining"}
Reportable == {"starting", "running", "draining", "stopping"}
=============================================================================
