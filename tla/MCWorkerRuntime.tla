--------------------------- MODULE MCWorkerRuntime ---------------------------
(***************************************************************************)
(* Small instances of WorkerRuntime for TLC.                               *)
(***************************************************************************)
EXTENDS WorkerRuntimeProperties, OpskitView, TLC

CONSTANTS a, b

FailRuntimeA == [w \in Worker |-> IF w = a THEN "fail_runtime" ELSE "isolate"]
UnreadyB == [w \in Worker |-> IF w = b THEN "mark_runtime_unready" ELSE "isolate"]
OneEach == [w \in Worker |-> 1]
Unlimited == [w \in Worker |-> 0]

CallerSymmetry == Permutations(Caller)
DispatchSymmetry == Permutations(Dispatch)
Symmetry == CallerSymmetry \cup DispatchSymmetry
=============================================================================
