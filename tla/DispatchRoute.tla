---------------------------- MODULE DispatchRoute ----------------------------
(***************************************************************************)
(* POST commands/dispatch (opshttp/commands.go): the request is decoded    *)
(* and validated, Dispatch looks its target up, runs it as CommandRun says *)
(* under the context of the request, and the route turns what comes back   *)
(* into a response. Servekit is external: an error that is not one of its  *)
(* own is answered with 500. A panic that PanicPolicyCrash lets through    *)
(* never comes back to the route, and is left to the server.               *)
(***************************************************************************)
EXTENDS CommandRun

VARIABLES
    request,  \* what the body turns out to be
    response  \* the HTTP status, or 0

routeVars == <<policy, opskit, pc, attempt, attempts, delay, slot, err, late, gone,
               next, observing, ended, span, failures, lastCode, handled,
               request, response>>

\* unreadable: not one JSON object of the known fields; invalid: no valid names;
\* foreign: a worker name qualified with another runtime's name.
Requests == {"unreadable", "invalid", "foreign", "no_worker", "no_command", "known"}

RouteInit == RunInit /\ request \in Requests /\ response = 0

Respond(httpStatus) ==
    /\ response' = httpStatus
    /\ UNCHANGED <<policy, opskit, pc, attempt, attempts, delay, slot, late, gone, next,
                   observing, ended, span, failures, lastCode, handled, request>>

\* decodeDispatchRequest and CommandRequest.Validate.
BadRequest ==
    /\ response = 0 /\ request \in {"unreadable", "invalid"}
    /\ Respond(400)
    /\ UNCHANGED err

\* Mutant: the table of mapDispatchError has no row for saturation.
MappedWithoutSaturation ==
    <<[of |-> {"worker_not_found"}, to |-> 404],
      [of |-> {"command_not_found"}, to |-> 404],
      [of |-> {"runtime_not_accepting"}, to |-> 503],
      [of |-> {"worker_not_accepting", "invalid_state"}, to |-> 409],
      [of |-> {"ops_rejected"}, to |-> 409]>>

\* The cases of mapDispatchError, in order, down to those that look the target up.
Mapped ==
    <<[of |-> {"worker_not_found"}, to |-> 404],
      [of |-> {"command_not_found"}, to |-> 404],
      [of |-> {"runtime_not_accepting"}, to |-> 503],
      [of |-> {"worker_not_accepting", "invalid_state"}, to |-> 409],
      [of |-> {"runtime_saturated", "worker_saturated"}, to |-> 429],
      [of |-> {"ops_rejected"}, to |-> 409]>>

ContainsWorker == request \in {"no_command", "known"}
ContainsCommand == request = "known"

MapDispatchError(e) ==
    LET rows == {i \in 1 .. Len(Mapped) : \E s \in Mapped[i].of : Is(e, s)}
    IN  IF rows # {} THEN Mapped[Min(rows)].to
        ELSE IF ContainsWorker /\ ContainsCommand THEN 500
        ELSE 404

\* normalizeCommandRequest refuses the name, or lookupCommandTarget the target:
\* nothing is observed.
LookupError ==
    CASE request = "foreign"    -> <<"plain">>
      [] request = "no_worker"  -> <<"worker_not_found">>
      [] request = "no_command" -> <<"command_not_found">>

TargetUnknown ==
    /\ response = 0 /\ request \in {"foreign", "no_worker", "no_command"}
    /\ err' = LookupError
    /\ Respond(MapDispatchError(err'))

DispatchRuns ==
    /\ response = 0 /\ request = "known"
    /\ RunNext
    /\ UNCHANGED <<request, response>>

\* encodeCommandResult: a payload that is not JSON is an error of its own, though
\* the command was executed.
Succeeded ==
    /\ response = 0 /\ pc = "done" /\ err = Nil
    /\ \/ Respond(200)
       \/ ~ opskit /\ Respond(500)
    /\ UNCHANGED err

DispatchFailed ==
    /\ response = 0 /\ pc = "done" /\ err # Nil
    /\ Respond(MapDispatchError(err))
    /\ UNCHANGED err

RouteNext == BadRequest \/ TargetUnknown \/ DispatchRuns \/ Succeeded \/ DispatchFailed

RouteSpec == RouteInit /\ [][RouteNext]_routeVars
=============================================================================
