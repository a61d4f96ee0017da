-------------------------- MODULE MCObserverEvents --------------------------
(***************************************************************************)
(* A small instance of ObserverEvents for TLC.                             *)
(***************************************************************************)
EXTENDS ObserverEvents

CONSTANTS a, b

FailRuntimeA == [w \in Worker |-> IF w = a THEN "fail_runtime" ELSE "isolate"]
Unlimited == [w \in Worker |-> 0]
=============================================================================
