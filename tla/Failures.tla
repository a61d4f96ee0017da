------------------------------ MODULE Failures ------------------------------
(***************************************************************************)
(* Errors and the public code the runtime presents them under              *)
(* (failure.go, and the errors of adapted Opskit handlers in command.go).  *)
(*                                                                         *)
(* An error is the sequence of what errors.Is and errors.As meet in it,    *)
(* from the outside in: sentinels, and the codes of presentations. nil is  *)
(* the empty sequence. A code stands for the public message that goes      *)
(* with it; a presentation with a message and no code is left out.         *)
(***************************************************************************)
EXTENDS Sequences, FiniteSetsExt

Nil == << >>

Is(err, sentinel) == \E i \in 1 .. Len(err) : err[i] = sentinel

\* An explicit presentation hides nothing of its cause; a blank one is none.
WithOperationalFailure(cause, code) == IF code = "" THEN cause ELSE <<code>> \o cause

\* The error a recovered panic is turned into; the recovered value is dropped.
RecoveredPanic == WithOperationalFailure(Nil, "panic")

\* The private default of an OpskitCommandError that carries no code.
OpskitCode(kind) ==
    IF kind = "ops_rejected" THEN "opskit_command_rejected" ELSE "opskit_command_failed"

OpskitCommandError(kind, code) == <<IF code = "" THEN OpskitCode(kind) ELSE code, kind>>

\* The codes operationalFailureProvider may answer in a dispatch.
Presentations ==
    {"explicit", "panic", "opskit_command_rejected", "opskit_command_failed",
     "result_encoding_failed"}

\* operationalFailure: the outermost presentation, else what became of the
\* context, else the fallback of the place that asks.
PublicCode(err, fallback) ==
    LET explicit == {i \in 1 .. Len(err) : err[i] \in Presentations}
    IN  IF err = Nil THEN ""
        ELSE IF explicit # {} THEN err[Min(explicit)]
        ELSE IF Is(err, "deadline") THEN "deadline_exceeded"
        ELSE IF Is(err, "canceled") THEN "canceled"
        ELSE fallback

-----------------------------------------------------------------------------
(* opskitCommandHandler: what an Opskit result comes to *)

OpskitResult ==
    [failed : BOOLEAN, accepted : BOOLEAN, failure : {"", "explicit"}, encodes : BOOLEAN]

OpskitOutcome(result) ==
    IF result.failed THEN OpskitCommandError("ops_failed", result.failure)
    ELSE IF ~ result.accepted THEN OpskitCommandError("ops_rejected", result.failure)
    ELSE IF result.failure # "" THEN OpskitCommandError("ops_failed", result.failure)
    ELSE IF ~ result.encodes THEN OpskitCommandError("ops_failed", "result_encoding_failed")
    ELSE Nil

OpskitErrors == {OpskitOutcome(r) : r \in OpskitResult} \ {Nil}
=============================================================================
