-------------------------- MODULE LifecycleContract --------------------------
(***************************************************************************)
(* What the runtime promises of its workers, without its mechanism: no     *)
(* gate, no snapshots, no calls (docs/lifecycle.md, "Lifecycle             *)
(* Serialization", "Start", "Stop", "Failure Reporting").                  *)
(*                                                                         *)
(* Each worker goes through a fixed automaton. At most one worker of the   *)
(* runtime is starting or stopping, and nothing is started, drained or     *)
(* stopped meanwhile; only an active worker fails by itself; a command     *)
(* begins on a running worker and ends whenever its handler does.          *)
(***************************************************************************)
EXTENDS Lifecycle, Naturals

CONSTANTS Worker, Dispatch, None

VARIABLES
    lifecycle,   \* worker -> its state
    generation,  \* worker -> how often it was started
    work         \* dispatch -> the worker that runs its command, or None

vars == <<lifecycle, generation, work>>

Init ==
    /\ lifecycle = [w \in Worker |-> "registered"]
    /\ generation = [w \in Worker |-> 0]
    /\ work = [d \in Dispatch |-> None]

\* No lifecycle operation is under way.
Quiet == \A w \in Worker : lifecycle[w] \notin {"starting", "stopping"}

Move(w, to) == lifecycle' = [lifecycle EXCEPT ![w] = to]

Start(w) ==
    /\ Quiet /\ lifecycle[w] \in Startable
    /\ Move(w, "starting")
    /\ generation' = [generation EXCEPT ![w] = @ + 1]
    /\ UNCHANGED work

Started(w) ==
    /\ lifecycle[w] = "starting"
    /\ Move(w, "running") \/ Move(w, "failed")
    /\ UNCHANGED <<generation, work>>

Drain(w) ==
    /\ Quiet /\ lifecycle[w] = "running"
    /\ Move(w, "draining")
    /\ UNCHANGED <<generation, work>>

Stop(w) ==
    /\ Quiet /\ lifecycle[w] \in Stoppable
    /\ Move(w, "stopping")
    /\ UNCHANGED <<generation, work>>

Stopped(w) ==
    /\ lifecycle[w] = "stopping"
    /\ Move(w, "stopped") \/ Move(w, "failed")
    /\ UNCHANGED <<generation, work>>

Break(w) ==
    /\ lifecycle[w] \in {"running", "draining"}
    /\ Move(w, "failed")
    /\ UNCHANGED <<generation, work>>

Begin(d, w) ==
    /\ work[d] = None /\ lifecycle[w] = "running"
    /\ work' = [work EXCEPT ![d] = w]
    /\ UNCHANGED <<lifecycle, generation>>

End(d) ==
    /\ work' = [work EXCEPT ![d] = None]
    /\ UNCHANGED <<lifecycle, generation>>

Next ==
    \/ \E w \in Worker : Start(w) \/ Started(w) \/ Drain(w)
                         \/ Stop(w) \/ Stopped(w) \/ Break(w)
    \/ \E d \in Dispatch : End(d) \/ \E w \in Worker : Begin(d, w)

Spec == Init /\ [][Next]_vars
=============================================================================
