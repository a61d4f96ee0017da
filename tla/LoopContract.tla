---------------------------- MODULE LoopContract ----------------------------
(***************************************************************************)
(* What a LoopWorker promises the code it runs and the runtime, without    *)
(* its mechanism: no loop state, no cancel and done, no cleanup attempts   *)
(* (docs/lifecycle.md, "Failure Reporting"; the comments of loop.go).       *)
(*                                                                         *)
(* Of the start hook, the loop function and the cleanup hook one runs at a *)
(* time. A loop is launched once a start hook has succeeded, serves the    *)
(* generation that launched it, and its end takes the worker out of        *)
(* service. Every launch owes a cleanup, and no start reaches user code    *)
(* before one has succeeded; once one has, there is none until then.       *)
(***************************************************************************)
EXTENDS Lifecycle, Naturals

VARIABLES
    lifecycle,   \* the worker's state, as in LifecycleContract
    generation,  \* how often it was started
    hook,        \* the hook that runs: "none", "start", "cleanup"
    loop,        \* the generation whose loop function runs, 0 for none
    owed,        \* no cleanup has succeeded since the last launch
    cleaned      \* one has since a start last reached user code

vars == <<lifecycle, generation, hook, loop, owed, cleaned>>

Init ==
    /\ lifecycle = "registered" /\ generation = 0
    /\ hook = "none" /\ loop = 0
    /\ owed = FALSE /\ cleaned = FALSE

InService == lifecycle \in {"running", "draining"}
NoUserCode == hook = "none" /\ loop = 0

-----------------------------------------------------------------------------
(* The runtime *)

Start ==
    /\ lifecycle \in Startable
    /\ lifecycle' = "starting" /\ generation' = generation + 1
    /\ UNCHANGED <<hook, loop, owed, cleaned>>

Started ==
    /\ lifecycle = "starting" /\ hook # "start"
    /\ lifecycle' = "failed" \/ (lifecycle' = "running" /\ loop = generation)
    /\ UNCHANGED <<generation, hook, loop, owed, cleaned>>

Drain ==
    /\ lifecycle = "running" /\ lifecycle' = "draining"
    /\ UNCHANGED <<generation, hook, loop, owed, cleaned>>

Stop ==
    /\ lifecycle \in Stoppable /\ lifecycle' = "stopping"
    /\ UNCHANGED <<generation, hook, loop, owed, cleaned>>

Stopped ==
    /\ lifecycle = "stopping"
    /\ lifecycle' = "failed" \/ (lifecycle' = "stopped" /\ NoUserCode /\ ~ owed)
    /\ UNCHANGED <<generation, hook, loop, owed, cleaned>>

\* User code reports a failure.
Break ==
    /\ InService /\ lifecycle' = "failed"
    /\ UNCHANGED <<generation, hook, loop, owed, cleaned>>

-----------------------------------------------------------------------------
(* The worker *)

EnterStart ==
    /\ lifecycle = "starting" /\ NoUserCode /\ ~ owed
    /\ hook' = "start" /\ cleaned' = FALSE
    /\ UNCHANGED <<lifecycle, generation, loop, owed>>

StartFails ==
    /\ hook = "start" /\ hook' = "none"
    /\ UNCHANGED <<lifecycle, generation, loop, owed, cleaned>>

Launch ==
    /\ hook = "start" /\ hook' = "none"
    /\ loop' = generation /\ owed' = TRUE
    /\ UNCHANGED <<lifecycle, generation, cleaned>>

LoopEnds ==
    /\ loop # 0 /\ loop' = 0
    /\ lifecycle' = IF InService THEN "failed" ELSE lifecycle
    /\ UNCHANGED <<generation, hook, owed, cleaned>>

EnterCleanup ==
    /\ lifecycle = "stopping" \/ owed
    /\ NoUserCode /\ ~ cleaned
    /\ hook' = "cleanup"
    /\ UNCHANGED <<lifecycle, generation, loop, owed, cleaned>>

LeaveCleanup ==
    /\ hook = "cleanup" /\ hook' = "none"
    /\ UNCHANGED <<owed, cleaned>> \/ (owed' = FALSE /\ cleaned' = TRUE)
    /\ UNCHANGED <<lifecycle, generation, loop>>

Next ==
    \/ Start \/ Started \/ Drain \/ Stop \/ Stopped \/ Break
    \/ EnterStart \/ StartFails \/ Launch \/ LoopEnds
    \/ EnterCleanup \/ LeaveCleanup

Spec == Init /\ [][Next]_vars
=============================================================================
