-------------------------- MODULE CommandRunProofs --------------------------
(***************************************************************************)
(* Theorems about a dispatch and its HTTP route, for any observers, retry  *)
(* policies and handler errors, and about the delays a policy asks for,    *)
(* for every width of a Duration, every precision of a float64 and every   *)
(* argument.                                                               *)
(***************************************************************************)
EXTENDS CommandRunProperties, FiniteSetTheorems, SequenceTheorems,
        WellFoundedInduction, TLAPS

-----------------------------------------------------------------------------
(* The inductive invariant *)

Call == [answer : {"none", "ok", "error", "panic"}, gone : BOOLEAN]

\* Whatever text a status carries.
SpanWith(code) ==
    [state : {"none", "open", "ended"}, status : {"unset", "error", "ok"},
     code : {code}, recorded : Nat, attempts : Nat, dispatches : Nat, failures : Nat]

Child == {Observers[i] : i \in 1 .. Len(Observers)}

RouteTypeOK ==
    /\ policy \in Policy /\ opskit \in BOOLEAN
    /\ pc \in {"start", "attempt", "handling", "judge", "wait", "release", "end", "done"}
    /\ attempt \in Nat \ {0} /\ attempts \in Nat
    /\ slot \in BOOLEAN /\ late \in BOOLEAN
    /\ gone \in {"", "canceled", "deadline"}
    /\ next \in 1 .. Len(Observers) + 1
    /\ observing \in Seq(Child) /\ ended \in Seq(Child)
    /\ span \in SpanWith(span.code) /\ failures \in Seq(Nat)
    /\ handled \in Seq(Call)
    /\ request \in Requests /\ response \in Nat

\* The calls of the handler a policy grants.
CallLimit == IF policy.maxAttempts < 1 THEN 1 ELSE policy.maxAttempts

\* One failure event for each of the first n calls, in order.
FirstCalls(n) == [i \in 1 .. n |-> i]

LastAnswer == Last(handled).answer

\* Every call so far has been counted, and those before the last have failed.
Counted(n) == Len(handled) = attempt /\ attempts = attempt /\ failures = FirstCalls(n)

\* How an execution ended: with a success, an error or a panic.
Executed ==
    \/ Counted(attempt - 1) /\ err = Nil /\ LastAnswer = "ok"
    \/ /\ Counted(attempt) /\ err # Nil /\ LastAnswer = "error"
       /\ EndCode = lastCode \/ (err = <<gone>> /\ gone # "")
    \/ /\ Counted(attempt) /\ err = RecoveredPanic /\ LastAnswer = "panic"
       /\ EndCode = lastCode

NotCalled == handled = << >> /\ attempts = 0 /\ failures = << >>

\* Where Dispatch stands says what has been counted, told and kept so far.
RunInv ==
    /\ attempt <= CallLimit
    /\ slot = TRUE <=> pc \in {"attempt", "handling", "judge", "wait", "release"}
    /\ pc = "start" => NotCalled /\ attempt = 1 /\ (response = 0 => err = Nil)
    /\ pc = "attempt" =>
          Len(handled) = attempt - 1 /\ failures = FirstCalls(attempt - 1) /\ err = Nil
    /\ pc = "handling" => Counted(attempt - 1) /\ err = Nil
    /\ pc = "judge" =>
          Counted(attempt) /\ err # Nil /\ LastAnswer = "error" /\ EndCode = lastCode
    /\ pc = "wait" =>
          Counted(attempt) /\ err = Nil /\ LastAnswer = "error" /\ attempt < CallLimit
    /\ pc = "release" => Executed
    /\ pc \in {"end", "done"} => Executed \/ (NotCalled /\ err \in Refusals)

\* Only the call that is the last was made after the caller had given up, and no
\* other follows it.
GoneInv ==
    \A i \in 1 .. Len(handled) : handled[i].gone = TRUE =>
        i = Len(handled) /\ gone # "" /\ pc \notin {"attempt", "wait"}

\* The observations in the order in which they started, whether they are open or
\* were ended from the inside out.
Order == observing \o Reverse(ended)

OrderInv ==
    /\ \A i \in 1 .. Len(Order) : IndexOf(Order[i]) \in 1 .. next - 1
    /\ \A i, j \in 1 .. Len(Order) : i < j => IndexOf(Order[i]) < IndexOf(Order[j])
    /\ pc \notin {"end", "done"} => ended = << >>
    /\ pc = "done" => observing = << >>

\* The span is open while its observation is; it has seen every failure and, once
\* it has ended, the end.
SpanInv ==
    /\ span.state = "open" <=> \E i \in 1 .. Len(observing) : observing[i] = "otel"
    /\ span.state = "open" =>
          /\ span.status # "ok" /\ span.dispatches = 0
          /\ span.recorded = Len(failures) /\ span.failures = Len(failures)
    /\ span.state = "ended" =>
          /\ pc \in {"end", "done"} /\ span.dispatches = 1
          /\ span.status = (IF err = Nil THEN "ok" ELSE "error") /\ span.code = EndCode
          /\ span.failures = Len(failures)
          /\ span.recorded = Len(failures) + (IF err = Nil THEN 0 ELSE 1)
          /\ span.attempts = attempts

\* A request whose target is not found runs nothing.
RouteInv ==
    /\ request # "known" => pc = "start"
    /\ ResponseTellsTheRun

CommandInv == RunInv /\ GoneInv /\ OrderInv /\ SpanInv /\ RouteInv

-----------------------------------------------------------------------------
(* What the operators return *)

\* The order of the natural numbers.
Below == {p \in Nat \X Nat : p[1] < p[2]}

\* It has no infinite descent.
LEMMA BelowIsWellFounded == IsWellFoundedOn(Below, Nat)
<1>1. OpToRel(<, Nat) = Below
  BY Zenon DEF OpToRel, Below
<1> QED
  BY <1>1, NatLessThanWellFounded, Zenon

\* Induction over the naturals, for a set: what holds of 0 and of the successor of
\* each holds of all.
LEMMA SetInduction ==
    ASSUME NEW S, 0 \in S, \A n \in Nat : n \in S => n + 1 \in S
    PROVE  Nat \subseteq S
<1> DEFINE T == Nat \ S
<1>1. SUFFICES ASSUME T # {} PROVE FALSE
  OBVIOUS
<1>2. PICK x \in T : \A y \in T : <<y, x>> \notin Below
  BY <1>1, BelowIsWellFounded, WFMin
<1>3. x \in Nat /\ x # 0
  OBVIOUS
<1>4. x - 1 \in Nat /\ x - 1 < x /\ (x - 1) + 1 = x
  BY <1>3
<1>5. x - 1 \in T
  BY <1>4
<1> QED
  BY <1>2, <1>4, <1>5 DEF Below

\* A set of positions that is not empty has a first one.
LEMMA FirstIsMember ==
    ASSUME NEW S, S \subseteq Nat, S # {}
    PROVE  Min(S) \in S
<1>1. PICK n \in S : \A m \in S : <<m, n>> \notin Below
  BY BelowIsWellFounded, WFMin
<1>2. ASSUME NEW m \in S PROVE n <= m
  <2>1. n \in Nat /\ m \in Nat /\ <<m, n>> \notin Below
    BY <1>1, <1>2
  <2>2. ~ (m < n)
    BY <2>1 DEF Below
  <2> QED
    BY <2>1, <2>2
<1> QED
  BY <1>2 DEF Min

\* The errors of the handlers, of the admission, of a panic and of a caller that
\* has gone are errors (opskitCommandHandler, admitCommand, recoverCommandPanic).
LEMMA ErrorsAreErrors ==
    /\ Nil \notin AttemptErrors /\ Nil \notin Refusals
    /\ RecoveredPanic = <<"panic">> /\ RecoveredPanic # Nil
    /\ <<gone>> # Nil
<1>a. \A x : <<x>> # Nil
  BY DEF Nil
<1>1. Nil \notin OpskitErrors
  BY DEF OpskitErrors
<1>2. Nil \notin ContextErrors
  BY <1>a DEF ContextErrors
<1>3. Nil \notin AttemptErrors
  BY <1>1, <1>2, CommandRunAssumption DEF AttemptErrors, CommandRunAssumption
<1>4. RecoveredPanic = <<"panic">>
  BY DEF RecoveredPanic, WithOperationalFailure, Nil
<1>5. Nil \notin Refusals
  BY <1>a DEF Refusals
<1> QED
  BY <1>a, <1>3, <1>4, <1>5

\* What the OpenTelemetry observer does to a span (StartCommand).
LEMMA SpanStarts ==
    /\ StartCommand \in SpanWith(StartCommand.code)
    /\ StartCommand.state = "open" /\ StartCommand.status # "ok"
    /\ StartCommand.dispatches = 0
    /\ StartCommand.recorded = 0 /\ StartCommand.failures = 0
BY DEF StartCommand, NoSpan, SpanWith

\* A failure is recorded as an error and counted (ObserveFailure).
LEMMA SpanSeesFailure ==
    ASSUME NEW s, s \in SpanWith(s.code), NEW code, NEW t, t = ObserveFailure(s, code)
    PROVE  /\ t \in SpanWith(t.code) /\ t.state = s.state
           /\ t.dispatches = s.dispatches /\ t.failures = s.failures + 1
           /\ s.state = "open" /\ s.status # "ok" =>
                 t.recorded = s.recorded + 1 /\ t.status # "ok"
<1> DEFINE r == RecordError(s)
<1>1. /\ r \in SpanWith(s.code) /\ r.state = s.state /\ r.status = s.status
      /\ r.dispatches = s.dispatches /\ r.failures = s.failures
      /\ s.state = "open" => r.recorded = s.recorded + 1
  BY DEF RecordError, SpanWith
<1> HIDE DEF r
<1> DEFINE u == SetStatus(r, "error", code)
<1>2. /\ u \in SpanWith(u.code) /\ u.state = s.state /\ u.recorded = r.recorded
      /\ u.dispatches = s.dispatches /\ u.failures = s.failures
      /\ s.status # "ok" => u.status # "ok"
  BY <1>1 DEF SetStatus, SpanWith
<1>3. t = [u EXCEPT !.failures = @ + 1]
  BY DEF ObserveFailure, r
<1> HIDE DEF u
<1> QED
  BY <1>1, <1>2, <1>3 DEF SpanWith

\* Neither needs to know whether the span is open (commandObservation.End).
LEMMA SpanTyped ==
    ASSUME NEW s, s \in SpanWith(s.code), NEW success \in {TRUE, FALSE}, NEW code,
           NEW n \in Nat, NEW t, t = EndCommand(s, success, code, n)
    PROVE  t \in SpanWith(t.code)
<1> DEFINE r == RecordError(s)
           u == IF success THEN SetStatus(s, "ok", "") ELSE SetStatus(r, "error", code)
<1>1. r \in SpanWith(s.code)
  BY DEF RecordError, SpanWith
<1> HIDE DEF r
<1>2. u \in SpanWith(u.code)
  BY <1>1 DEF SetStatus, SpanWith
<1>3. t = [u EXCEPT !.attempts = n, !.state = "ended", !.dispatches = @ + 1]
  BY DEF EndCommand, r
<1> HIDE DEF u
<1>4. PICK d \in Nat : d = u.dispatches + 1
  BY <1>2 DEF SpanWith
<1>5. t = [u EXCEPT !.attempts = n, !.state = "ended", !.dispatches = d]
  BY <1>2, <1>3, <1>4 DEF SpanWith
<1> QED
  BY <1>2, <1>5 DEF SpanWith

\* An open span that is not "ok" takes either status (span.SetStatus).
LEMMA StatusIsOpen ==
    ASSUME NEW s, s \in SpanWith(s.code), s.status # "ok"
    PROVE  ~ (Rank[s.status] > Rank["ok"]) /\ ~ (Rank[s.status] > Rank["error"])
<1>1. s.status \in {"unset", "error"}
  BY DEF SpanWith
<1> QED
  BY <1>1 DEF Rank

\* A span that has ended.
Closed(status, code, recorded, n, dispatches, failed) ==
    [state |-> "ended", status |-> status, code |-> code, recorded |-> recorded,
     attempts |-> n, dispatches |-> dispatches, failures |-> failed]

\* The end is the last a span is told (commandObservation.End).
LEMMA SpanCloses ==
    ASSUME NEW u, u \in SpanWith(u.code), NEW n \in Nat
    PROVE  [u EXCEPT !.attempts = n, !.state = "ended", !.dispatches = @ + 1]
              = Closed(u.status, u.code, u.recorded, n, u.dispatches + 1, u.failures)
<1>1. PICK d \in Nat : d = u.dispatches + 1
  BY DEF SpanWith
<1>2. [u EXCEPT !.attempts = n, !.state = "ended", !.dispatches = @ + 1]
         = [u EXCEPT !.attempts = n, !.state = "ended", !.dispatches = d]
  BY <1>1 DEF SpanWith
<1>3. /\ DOMAIN u = {"state", "status", "code", "recorded", "attempts", "dispatches",
                     "failures"}
      /\ u = [x \in DOMAIN u |-> u[x]]
  BY DEF SpanWith
<1> DEFINE v == [u EXCEPT !.attempts = n, !.state = "ended", !.dispatches = d]
<1>4. /\ v = [x \in DOMAIN u |-> v[x]]
      /\ v.state = "ended" /\ v.attempts = n /\ v.dispatches = d
      /\ v.status = u.status /\ v.code = u.code /\ v.recorded = u.recorded
      /\ v.failures = u.failures
  BY <1>3
<1> HIDE DEF v
<1>5. v = Closed(u.status, u.code, u.recorded, n, d, u.failures)
  BY <1>3, <1>4 DEF Closed
<1> QED
  BY <1>1, <1>2, <1>5 DEF v

\* A success makes an open span "ok" (commandObservation.End).
LEMMA SpanEndsWell ==
    ASSUME NEW s, s \in SpanWith(s.code), s.state = "open", s.status # "ok",
           NEW code, NEW n \in Nat
    PROVE  EndCommand(s, TRUE, code, n)
              = Closed("ok", "", s.recorded, n, s.dispatches + 1, s.failures)
<1> DEFINE u == SetStatus(s, "ok", "")
<1>1. /\ u \in SpanWith(u.code) /\ u.failures = s.failures
      /\ u.dispatches = s.dispatches
      /\ u.status = "ok" /\ u.code = "" /\ u.recorded = s.recorded
  BY StatusIsOpen DEF SetStatus, SpanWith
<1>2. EndCommand(s, TRUE, code, n)
         = [u EXCEPT !.attempts = n, !.state = "ended", !.dispatches = @ + 1]
  BY DEF EndCommand
<1> HIDE DEF u
<1>3. EndCommand(s, TRUE, code, n)
         = Closed(u.status, u.code, u.recorded, n, u.dispatches + 1, u.failures)
  BY <1>1, <1>2, SpanCloses
<1> QED
  BY <1>1, <1>3

\* A failure makes an open span an error (commandObservation.End).
LEMMA SpanEndsFailed ==
    ASSUME NEW s, s \in SpanWith(s.code), s.state = "open", s.status # "ok",
           NEW code, NEW n \in Nat
    PROVE  EndCommand(s, FALSE, code, n)
              = Closed("error", code, s.recorded + 1, n, s.dispatches + 1, s.failures)
<1> DEFINE r == RecordError(s)
           u == SetStatus(r, "error", code)
<1>1. /\ r \in SpanWith(r.code) /\ r.state = "open" /\ r.status = s.status
      /\ r.dispatches = s.dispatches /\ r.failures = s.failures
      /\ r.recorded = s.recorded + 1
  BY DEF RecordError, SpanWith
<1>2. EndCommand(s, FALSE, code, n)
         = [u EXCEPT !.attempts = n, !.state = "ended", !.dispatches = @ + 1]
  BY DEF EndCommand
<1> HIDE DEF r
<1>3. /\ u \in SpanWith(u.code) /\ u.failures = r.failures
      /\ u.dispatches = r.dispatches
      /\ u.status = "error" /\ u.code = code /\ u.recorded = r.recorded
  BY <1>1, StatusIsOpen DEF SetStatus, SpanWith
<1> HIDE DEF u
<1>4. EndCommand(s, FALSE, code, n)
         = Closed(u.status, u.code, u.recorded, n, u.dispatches + 1, u.failures)
  BY <1>2, <1>3, SpanCloses
<1> QED
  BY <1>1, <1>3, <1>4

-----------------------------------------------------------------------------
(* Types *)

\* The constants have their types, and the child in each place is one.
LEMMA ObserverTypes ==
    /\ Len(Observers) \in Nat
    /\ \A i \in 1 .. Len(Observers) : Observers[i] \in Child
<1>1. Observers \in Seq(STRING)
  BY CommandRunAssumption DEF CommandRunAssumption
<1> QED
  BY <1>1, LenProperties DEF Child

\* Everything has its type when the request arrives.
LEMMA RouteInitType == RouteInit => RouteTypeOK
<1> SUFFICES ASSUME RouteInit PROVE RouteTypeOK
  OBVIOUS
<1>1. policy \in Policy
  BY CommandRunAssumption DEF RouteInit, RunInit, CommandRunAssumption
<1>2. span \in SpanWith(span.code)
  BY DEF RouteInit, RunInit, NoSpan, SpanWith
<1>3. << >> \in Seq(Child) /\ << >> \in Seq(Call) /\ << >> \in Seq(Nat)
  OBVIOUS
<1>4. 1 \in 1 .. Len(Observers) + 1
  BY ObserverTypes
<1>5. /\ observing \in Seq(Child) /\ ended \in Seq(Child) /\ handled \in Seq(Call)
      /\ failures \in Seq(Nat)
  BY <1>3 DEF RouteInit, RunInit
<1>6. /\ opskit \in BOOLEAN /\ slot \in BOOLEAN /\ late \in BOOLEAN
      /\ pc = "start" /\ gone = "" /\ request \in Requests
  BY DEF RouteInit, RunInit
<1>7. attempt = 1 /\ attempts = 0 /\ next = 1 /\ response = 0
  BY DEF RouteInit, RunInit
<1>8. /\ pc \in {"start", "attempt", "handling", "judge", "wait", "release", "end", "done"}
      /\ gone \in {"", "canceled", "deadline"}
  BY <1>6
<1>9. attempt \in Nat \ {0} /\ attempts \in Nat /\ response \in Nat
  BY <1>7
<1>10. next \in 1 .. Len(Observers) + 1
  BY <1>4, <1>7
<1> QED
  BY <1>1, <1>2, <1>5, <1>6, <1>8, <1>9, <1>10, Zenon DEF RouteTypeOK

\* Every step of a dispatch keeps the types (Dispatch, executeCommand,
\* runWithRetry).
LEMMA RunTypeStep ==
    ASSUME RouteTypeOK, DispatchRuns
    PROVE  RouteTypeOK'
<1>a. UNCHANGED <<request, response>>
  BY DEF DispatchRuns
<1>b. \A s \in Seq(Child), c \in Child : Append(s, c) \in Seq(Child)
  OBVIOUS
<1>t. /\ observing \in Seq(Child) /\ ended \in Seq(Child)
      /\ handled \in Seq(Call) /\ failures \in Seq(Nat)
      /\ next \in 1 .. Len(Observers) + 1 /\ attempt \in Nat \ {0}
  BY DEF RouteTypeOK
<1>1. CASE StartChild
  <2>1. Observers[next] \in Child /\ next' \in 1 .. Len(Observers) + 1
    BY <1>1, <1>t, ObserverTypes DEF StartChild
  <2>2. observing' \in Seq(Child)
    BY <1>1, <1>b, <1>t, <2>1 DEF StartChild
  <2>3. span' \in SpanWith(span'.code)
    <3>1. span' = StartCommand \/ span' = span
      BY <1>1 DEF StartChild
    <3> QED
      BY <3>1, SpanStarts DEF RouteTypeOK
  <2> QED
    BY <1>1, <1>a, <2>1, <2>2, <2>3 DEF StartChild, RouteTypeOK
<1>2. CASE EndChild
  <2> DEFINE o == observing[Len(observing)]
  <2>1. observing \in Seq(Child) /\ Len(observing) \in Nat \ {0} /\ o \in Child
    BY <1>2, <1>t, ElementOfSeq DEF EndChild
  <2>2. ended' \in Seq(Child)
    BY <1>2, <1>b, <1>t, <2>1 DEF EndChild
  <2>3. observing' \in Seq(Child)
    BY <1>2, <2>1 DEF EndChild
  <2>4. span' \in SpanWith(span'.code)
    <3>1. CASE o = "otel"
      <4>1. PICK success \in {TRUE, FALSE} : success = (err = Nil)
        BY Zenon
      <4>2. span' = EndCommand(span, success, EndCode, attempts)
        BY <1>2, <3>1, <4>1 DEF EndChild
      <4> QED
        BY <4>2, SpanTyped DEF RouteTypeOK
    <3>2. CASE o # "otel"
      BY <1>2, <3>2 DEF EndChild, RouteTypeOK
    <3> QED
      BY <3>1, <3>2
  <2> QED
    BY <1>2, <1>a, <2>2, <2>3, <2>4 DEF EndChild, RouteTypeOK
<1>3. CASE Returned \/ AdmitOrRefuse \/ ReleaseCommandSlot \/ AttemptTimesOut
              \/ CallerGivesUp
  BY <1>3, <1>a DEF Returned, AdmitOrRefuse, ReleaseCommandSlot, AttemptTimesOut,
     CallerGivesUp, RouteTypeOK
<1>4. CASE BeginAttempt
  <2>1. PICK b \in BOOLEAN : b = (gone # "")
    BY Zenon
  <2>2. handled' = Append(handled, [answer |-> "none", gone |-> b])
    BY <1>4, <2>1 DEF BeginAttempt
  <2>3. [answer |-> "none", gone |-> b] \in Call
    BY DEF Call
  <2>4. handled' \in Seq(Call)
    BY <1>t, <2>2, <2>3
  <2> QED
    BY <1>4, <1>a, <2>4 DEF BeginAttempt, RouteTypeOK
<1>c. ASSUME NEW a \in {"ok", "error", "panic"}, Answered(a)
      PROVE  handled' \in Seq(Call)
  <2>1. handled \in [1 .. Len(handled) -> Call] /\ Len(handled) \in Nat
    BY <1>t, LenProperties
  <2> DEFINE n == Len(handled)
  <2>2. \A c \in Call : [c EXCEPT !.answer = a] \in Call
    BY DEF Call
  <2>3. handled' = [handled EXCEPT ![n] = [handled[n] EXCEPT !.answer = a]]
    BY <1>c, <2>1 DEF Answered
  <2> HIDE DEF n
  <2>4. handled' \in [1 .. Len(handled) -> Call]
    BY <2>1, <2>2, <2>3
  <2> QED
    BY <2>1, <2>4, IsASeq
<1>d. ASSUME NEW n \in Nat, NEW e, FailureTold(n, e)
      PROVE  failures' \in Seq(Nat) /\ span' \in SpanWith(span'.code)
  <2>1. span' = ObserveFailure(span, PublicCode(e, "command_failed"))
    BY <1>d DEF FailureTold
  <2>2. span' \in SpanWith(span'.code)
    BY <2>1, SpanSeesFailure DEF RouteTypeOK
  <2> QED
    BY <1>d, <1>t, <2>2 DEF FailureTold
<1>5. CASE HandlerSucceeds
  BY <1>5, <1>a, <1>c DEF HandlerSucceeds, RouteTypeOK
<1>6. CASE HandlerErrs
  <2>1. failures' \in Seq(Nat) /\ span' \in SpanWith(span'.code)
    BY <1>6, <1>d DEF HandlerErrs, RouteTypeOK
  <2> QED
    BY <1>6, <1>a, <1>c, <2>1 DEF HandlerErrs, RouteTypeOK
<1>7. CASE HandlerPanicked
  <2>1. failures' \in Seq(Nat) /\ span' \in SpanWith(span'.code)
    BY <1>7, <1>d DEF HandlerPanicked, RouteTypeOK
  <2> QED
    BY <1>7, <1>a, <1>c, <2>1 DEF HandlerPanicked, RouteTypeOK
<1>8. CASE Judge \/ WaitCancelled
  BY <1>8, <1>a DEF Judge, WaitCancelled, RouteTypeOK
<1>9. CASE WaitElapses
  <2>1. attempt' \in Nat \ {0}
    BY <1>9, <1>t DEF WaitElapses
  <2> QED
    BY <1>9, <1>a, <2>1 DEF WaitElapses, RouteTypeOK
<1> QED
  BY <1>1, <1>2, <1>3, <1>4, <1>5, <1>6, <1>7, <1>8, <1>9
  DEF DispatchRuns, RunNext

\* What the route answers is a status (mapDispatchError).
LEMMA MapResults ==
    ASSUME NEW e
    PROVE  MapDispatchError(e) \in {404, 409, 429, 500, 503}
<1> DEFINE rows == {i \in 1 .. Len(Mapped) : \E s \in Mapped[i].of : Is(e, s)}
<1>1. Len(Mapped) = 6
  BY DEF Mapped
<1>2. \A i \in 1 .. 6 : Mapped[i].to \in {404, 409, 429, 503}
  BY DEF Mapped
<1>3. rows # {} => Min(rows) \in 1 .. 6
  BY <1>1, FirstIsMember
<1> HIDE DEF rows
<1>4. rows # {} => Mapped[Min(rows)].to \in {404, 409, 429, 503}
  BY <1>2, <1>3
<1> QED
  BY <1>4 DEF MapDispatchError, rows

\* Every step of the route keeps the types.
LEMMA RouteTypeStep == RouteTypeOK /\ [RouteNext]_routeVars => RouteTypeOK'
<1> SUFFICES ASSUME RouteTypeOK, [RouteNext]_routeVars PROVE RouteTypeOK'
  OBVIOUS
<1>1. ASSUME NEW n \in Nat, Respond(n) PROVE RouteTypeOK'
  BY <1>1 DEF Respond, RouteTypeOK
<1>2. CASE BadRequest \/ TargetUnknown \/ Succeeded \/ DispatchFailed
  BY <1>1, <1>2, MapResults DEF BadRequest, TargetUnknown, Succeeded, DispatchFailed
<1>3. CASE UNCHANGED routeVars
  BY <1>3 DEF routeVars, RouteTypeOK
<1> QED
  BY <1>2, <1>3, RunTypeStep DEF RouteNext

-----------------------------------------------------------------------------
(* What has been counted and told *)

\* One more failure extends the list by its number.
LEMMA OneMoreCall ==
    ASSUME NEW n \in Nat
    PROVE  /\ FirstCalls(n) \in Seq(Nat) /\ Len(FirstCalls(n)) = n
           /\ Append(FirstCalls(n), n + 1) = FirstCalls(n + 1)
           /\ FirstCalls(0) = << >>
<1>1. \A m \in Nat : FirstCalls(m) \in [1 .. m -> Nat]
  BY DEF FirstCalls
<1>2. \A m \in Nat : FirstCalls(m) \in Seq(Nat) /\ Len(FirstCalls(m)) = m
  BY <1>1, IsASeq
<1>3. Append(FirstCalls(n), n + 1) = FirstCalls(n + 1)
  <2> DEFINE s == Append(FirstCalls(n), n + 1)
  <2>1. s \in Seq(Nat) /\ Len(s) = n + 1
    BY <1>2, AppendProperties
  <2>2. \A i \in 1 .. n : s[i] = i
    BY <1>2, AppendProperties DEF FirstCalls
  <2>3. s[n + 1] = n + 1
    BY <1>2, AppendProperties
  <2> HIDE DEF s
  <2>4. \A i \in 1 .. n + 1 : s[i] = FirstCalls(n + 1)[i]
    BY <2>2, <2>3 DEF FirstCalls
  <2> QED
    BY <1>2, <2>1, <2>4, SeqEqual DEF s
<1>4. FirstCalls(0) = << >>
  BY <1>2, EmptySeq
<1> QED
  BY <1>2, <1>3, <1>4

\* The answer is that of the last call (the handler's return in executeCommand).
LEMMA AnswerIsLast ==
    ASSUME RouteTypeOK, Len(handled) # 0, NEW a \in {"ok", "error", "panic"}, Answered(a)
    PROVE  /\ Len(handled') = Len(handled) /\ LastAnswer' = a
           /\ \A i \in 1 .. Len(handled) : handled'[i].gone = handled[i].gone
<1>a. handled \in Seq(Call)
  BY DEF RouteTypeOK
<1>1. handled \in Seq(Call) /\ Len(handled) \in 1 .. Len(handled)
  BY <1>a
<1> DEFINE n == Len(handled)
           c == [handled[n] EXCEPT !.answer = a]
<1>2. handled' = [handled EXCEPT ![n] = c]
  BY <1>1 DEF Answered
<1>3. c \in Call /\ c.answer = a /\ c.gone = handled[n].gone
  <2>1. \A h \in Call : /\ [h EXCEPT !.answer = a] \in Call
                        /\ [h EXCEPT !.answer = a].answer = a
    BY DEF Call
  <2>2. \A h \in Call : [h EXCEPT !.answer = a].gone = h.gone
    BY DEF Call
  <2>3. handled[n] \in Call
    BY <1>1
  <2> QED
    BY <2>1, <2>2, <2>3
<1>4. handled' \in Seq(Call) /\ Len(handled') = n
  BY <1>1, <1>2, <1>3, ExceptSeq
<1>5. handled'[n] = c /\ \A i \in 1 .. n : i # n => handled'[i] = handled[i]
  BY <1>1, <1>2
<1> QED
  BY <1>1, <1>3, <1>4, <1>5 DEF LastAnswer, Last

\* A call is noted with whether the caller had given up by then (executeCommand).
LEMMA CallIsAdded ==
    ASSUME RouteTypeOK, BeginAttempt
    PROVE  /\ Len(handled') = Len(handled) + 1
           /\ \A i \in 1 .. Len(handled) : handled'[i] = handled[i]
           /\ handled'[Len(handled) + 1].gone = TRUE => gone # ""
<1>1. PICK b \in BOOLEAN : b = (gone # "")
  BY Zenon
<1> DEFINE c == [answer |-> "none", gone |-> b]
<1>2. handled' = Append(handled, c)
  BY <1>1 DEF BeginAttempt
<1>3. handled \in Seq(Call)
  BY DEF RouteTypeOK
<1>4. c \in Call /\ c.gone = b
  BY DEF Call
<1> HIDE DEF c
<1>5. /\ Len(handled') = Len(handled) + 1
      /\ \A i \in 1 .. Len(handled) : handled'[i] = handled[i]
      /\ handled'[Len(handled) + 1] = c
  BY <1>2, <1>3, <1>4, AppendProperties
<1> QED
  BY <1>1, <1>4, <1>5

\* Another call is within the policy (configPolicy.NextDelay).
LEMMA GrantWithinLimit ==
    ASSUME RouteTypeOK, Grants(policy, attempt)
    PROVE  attempt < CallLimit
<1>1. policy.maxAttempts \in Int
  <2>1. policy \in Policy
    BY DEF RouteTypeOK
  <2>2. policy.maxAttempts \in -1 .. MaxAttempt
    BY <2>1 DEF Policy
  <2> QED
    BY <2>2
<1>2. attempt \in Nat \ {0}
  BY DEF RouteTypeOK
<1> QED
  BY <1>1, <1>2 DEF Grants, AtLeastOne, CallLimit

\* Until the handler is called nothing is counted, and the steps that hand on what
\* an execution came to change none of it (admitCommand, releaseCommandSlot).
LEMMA AroundKeepsRun ==
    ASSUME RouteTypeOK, RunInv, response = 0, UNCHANGED <<request, response>>,
           StartChild \/ EndChild \/ Returned \/ AdmitOrRefuse
           \/ ReleaseCommandSlot \/ AttemptTimesOut \/ CallerGivesUp
    PROVE  RunInv'
<1>a. UNCHANGED <<policy, attempt, attempts, failures, lastCode, handled>>
  BY DEF StartChild, EndChild, Returned, AdmitOrRefuse, ReleaseCommandSlot,
     AttemptTimesOut, CallerGivesUp
<1>b. (NotCalled' <=> NotCalled) /\ CallLimit' = CallLimit /\ LastAnswer' = LastAnswer
  BY <1>a DEF NotCalled, CallLimit, LastAnswer
<1>c. \A n : Counted(n)' <=> Counted(n)
  BY <1>a DEF Counted
<1>d. err' = err => EndCode' = EndCode
  BY DEF EndCode
<1>e. ASSUME err' = err, gone' = gone \/ gone = "" PROVE Executed => Executed'
  BY <1>a, <1>b, <1>c, <1>d, <1>e DEF Executed
<1>1. CASE StartChild \/ AttemptTimesOut
  <2>1. UNCHANGED <<pc, slot, err, gone>>
    BY <1>1 DEF StartChild, AttemptTimesOut
  <2> QED
    BY <1>a, <1>b, <1>c, <1>d, <1>e, <2>1 DEF RunInv
<1>2. CASE CallerGivesUp
  <2>1. UNCHANGED <<pc, slot, err>> /\ gone = ""
    BY <1>2 DEF CallerGivesUp
  <2> QED
    BY <1>a, <1>b, <1>c, <1>d, <1>e, <2>1 DEF RunInv
<1>3. CASE EndChild \/ Returned
  <2>1. UNCHANGED <<slot, err, gone>> /\ pc = "end" /\ pc' \in {"end", "done"}
    BY <1>3 DEF EndChild, Returned
  <2> QED
    BY <1>a, <1>b, <1>d, <1>e, <2>1 DEF RunInv
<1>4. CASE ReleaseCommandSlot
  <2>1. UNCHANGED <<err, gone>> /\ pc = "release" /\ pc' = "end" /\ slot' = FALSE
    BY <1>4 DEF ReleaseCommandSlot
  <2> QED
    BY <1>a, <1>b, <1>d, <1>e, <2>1 DEF RunInv
<1>5. CASE AdmitOrRefuse
  <2>1. pc = "start" /\ NotCalled /\ attempt = 1 /\ slot = FALSE
    BY <1>5 DEF AdmitOrRefuse, RunInv, RouteTypeOK
  <2>2. CASE pc' = "attempt" /\ slot' = TRUE /\ UNCHANGED err
    <3>1. err = Nil
      BY <1>5, <2>1 DEF RunInv, AdmitOrRefuse, RouteTypeOK
    <3>2. Len(handled) = attempt - 1 /\ failures = FirstCalls(attempt - 1)
      BY <2>1, OneMoreCall DEF NotCalled
    <3> QED
      BY <1>a, <1>b, <2>2, <3>1, <3>2 DEF RunInv
  <2>3. CASE pc' = "end" /\ err' \in Refusals /\ UNCHANGED slot
    BY <1>a, <1>b, <2>1, <2>3 DEF RunInv
  <2> QED
    BY <1>5, <2>2, <2>3 DEF AdmitOrRefuse
<1> QED
  BY <1>1, <1>2, <1>3, <1>4, <1>5

\* A call of the handler is counted when it is made, and told when it has failed
\* (executeCommand, recordCommandFailure, recordCommandPanic).
LEMMA CallKeepsRun ==
    ASSUME RouteTypeOK, RunInv,
           BeginAttempt \/ HandlerSucceeds \/ HandlerErrs \/ HandlerPanicked
    PROVE  RunInv'
<1>s. handled \in Seq(Call) /\ attempt \in Nat \ {0}
  BY DEF RouteTypeOK
<1>t. Len(handled) \in Nat /\ attempt \in Nat \ {0}
  BY <1>s
<1>a. UNCHANGED <<policy, attempt, slot, gone>> /\ CallLimit' = CallLimit
  BY DEF BeginAttempt, HandlerSucceeds, HandlerErrs, HandlerPanicked, CallLimit
<1>b. attempt <= CallLimit
  BY DEF RunInv
<1>1. CASE BeginAttempt
  <2>1. /\ Len(handled) = attempt - 1 /\ failures = FirstCalls(attempt - 1) /\ err = Nil
        /\ pc = "attempt" /\ slot = TRUE
    BY <1>1 DEF BeginAttempt, RunInv
  <2>2. Len(handled') = Len(handled) + 1
    BY <1>1, CallIsAdded
  <2>3. pc' = "handling" /\ attempts' = attempt /\ UNCHANGED <<failures, err>>
    BY <1>1 DEF BeginAttempt
  <2>4. Counted(attempt - 1)'
    BY <1>t, <1>a, <2>1, <2>2, <2>3 DEF Counted
  <2> QED
    BY <1>a, <1>b, <2>1, <2>3, <2>4 DEF RunInv
<1>c. ASSUME pc = "handling"
      PROVE  /\ Len(handled) = attempt /\ attempts = attempt /\ err = Nil
             /\ failures = FirstCalls(attempt - 1) /\ slot = TRUE
  BY <1>c DEF RunInv, Counted
<1>d. ASSUME NEW e, pc = "handling", FailureTold(attempt, e)
      PROVE  failures' = FirstCalls(attempt) /\ lastCode' = PublicCode(e, "command_failed")
  <2>1. failures' = Append(FirstCalls(attempt - 1), attempt)
    BY <1>c, <1>d DEF FailureTold
  <2>2. attempt - 1 \in Nat /\ (attempt - 1) + 1 = attempt
    BY <1>t
  <2>3. failures' = FirstCalls(attempt)
    BY <2>1, <2>2, OneMoreCall
  <2> QED
    BY <1>d, <2>3 DEF FailureTold
<1>e. ASSUME pc = "handling", NEW a \in {"ok", "error", "panic"}, Answered(a)
      PROVE  Len(handled') = attempt /\ LastAnswer' = a
  BY <1>c, <1>e, <1>t, AnswerIsLast
<1>2. CASE HandlerSucceeds
  <2>1. /\ pc = "handling" /\ pc' = "release" /\ Answered("ok")
        /\ UNCHANGED <<attempts, err, failures>>
    BY <1>2 DEF HandlerSucceeds
  <2>2. Executed'
    BY <1>a, <1>c, <1>e, <2>1 DEF Executed, Counted
  <2> QED
    BY <1>a, <1>b, <1>c, <2>1, <2>2 DEF RunInv
<1>3. CASE HandlerErrs
  <2>1. /\ pc = "handling" /\ pc' = "judge" /\ Answered("error")
        /\ err' \in AttemptErrors /\ FailureTold(attempt, err') /\ UNCHANGED attempts
    BY <1>3 DEF HandlerErrs
  <2>2. err' # Nil
    BY <2>1, ErrorsAreErrors
  <2>3. Counted(attempt)' /\ EndCode' = lastCode' /\ LastAnswer' = "error"
    BY <1>a, <1>c, <1>d, <1>e, <2>1 DEF Counted, EndCode
  <2> QED
    BY <1>a, <1>b, <1>c, <2>1, <2>2, <2>3 DEF RunInv
<1>4. CASE HandlerPanicked
  <2>1. /\ pc = "handling" /\ pc' = "release" /\ Answered("panic")
        /\ err' = RecoveredPanic /\ FailureTold(attempts, err') /\ UNCHANGED attempts
    BY <1>4 DEF HandlerPanicked
  <2>2. FailureTold(attempt, err')
    BY <1>c, <2>1
  <2>3. Counted(attempt)' /\ EndCode' = lastCode' /\ LastAnswer' = "panic"
    BY <1>a, <1>c, <1>d, <1>e, <2>1, <2>2 DEF Counted, EndCode
  <2>4. Executed'
    BY <1>a, <2>1, <2>3 DEF Executed, RecoveredPanic
  <2> QED
    BY <1>a, <1>b, <1>c, <2>1, <2>4 DEF RunInv
<1> QED
  BY <1>1, <1>2, <1>3, <1>4

\* Nothing is counted between two calls, and a retry is within the policy
\* (runWithRetry, waitBeforeRetry).
LEMMA RetryKeepsRun ==
    ASSUME RouteTypeOK, RunInv, Judge \/ WaitElapses \/ WaitCancelled
    PROVE  RunInv'
<1>t. attempt \in Nat \ {0} /\ CallLimit \in Int
  <2>1. policy \in Policy /\ attempt \in Nat \ {0}
    BY DEF RouteTypeOK
  <2>2. policy.maxAttempts \in -1 .. MaxAttempt
    BY <2>1 DEF Policy
  <2> QED
    BY <2>1, <2>2 DEF CallLimit
<1>a. /\ UNCHANGED <<policy, attempts, slot, gone, failures, lastCode, handled>>
      /\ CallLimit' = CallLimit /\ LastAnswer' = LastAnswer
  BY DEF Judge, WaitElapses, WaitCancelled, CallLimit, LastAnswer
<1>b. attempt <= CallLimit
  BY DEF RunInv
<1>c. ASSUME Counted(attempt), attempt' = attempt, LastAnswer = "error",
             err' = <<gone>>, CallerGone
      PROVE  Executed'
  BY <1>a, <1>c, ErrorsAreErrors DEF Executed, Counted, CallerGone
<1>1. CASE Judge
  <2>1. /\ pc = "judge" /\ slot = TRUE /\ attempt' = attempt
        /\ Counted(attempt) /\ err # Nil /\ LastAnswer = "error" /\ EndCode = lastCode
    BY <1>1 DEF Judge, RunInv
  <2>2. CASE CallerGone /\ pc' = "release" /\ err' = <<gone>>
    BY <1>a, <1>b, <1>c, <2>1, <2>2 DEF RunInv
  <2>3. CASE pc' = "release" /\ UNCHANGED err
    <3>1. Executed'
      BY <1>a, <2>1, <2>3 DEF Executed, Counted, EndCode
    <3> QED
      BY <1>a, <1>b, <2>1, <2>3, <3>1 DEF RunInv
  <2>4. CASE Grants(policy, attempt) /\ pc' = "wait" /\ err' = Nil
    <3>1. attempt < CallLimit
      BY <2>4, GrantWithinLimit
    <3> QED
      BY <1>a, <1>b, <2>1, <2>4, <3>1 DEF RunInv, Counted
  <2> QED
    BY <1>1, <2>2, <2>3, <2>4 DEF Judge
<1>2. CASE WaitElapses \/ WaitCancelled
  <2>1. /\ pc = "wait" /\ slot = TRUE /\ Counted(attempt) /\ err = Nil
        /\ LastAnswer = "error" /\ attempt < CallLimit
    BY <1>2 DEF WaitElapses, WaitCancelled, RunInv
  <2>2. CASE WaitElapses
    <3>1. pc' = "attempt" /\ attempt' = attempt + 1 /\ UNCHANGED err
      BY <2>2 DEF WaitElapses
    <3>2. attempt' - 1 = attempt /\ attempt' <= CallLimit
      BY <1>t, <2>1, <3>1
    <3> QED
      BY <1>a, <2>1, <3>1, <3>2 DEF RunInv, Counted
  <2>3. CASE WaitCancelled
    <3>1. pc' = "release" /\ err' = <<gone>> /\ attempt' = attempt /\ CallerGone
      BY <2>3 DEF WaitCancelled
    <3> QED
      BY <1>a, <1>b, <1>c, <2>1, <3>1 DEF RunInv
  <2> QED
    BY <1>2, <2>2, <2>3
<1> QED
  BY <1>1, <1>2

-----------------------------------------------------------------------------
(* Calls after the caller has given up *)

\* No call follows one that was made after the caller had given up (runWithRetry).
LEMMA GoneStep ==
    ASSUME RouteTypeOK, RunInv, GoneInv, DispatchRuns
    PROVE  GoneInv'
<1>s. handled \in Seq(Call)
  BY DEF RouteTypeOK
<1>t. Len(handled) \in Nat
  BY <1>s
<1>a. gone' = gone \/ gone = ""
  BY DEF DispatchRuns, RunNext, StartChild, EndChild, Returned, AdmitOrRefuse,
     ReleaseCommandSlot, BeginAttempt, AttemptTimesOut, CallerGivesUp,
     HandlerSucceeds, HandlerErrs, HandlerPanicked, Judge, WaitElapses, WaitCancelled
<1>b. ASSUME UNCHANGED handled, pc' \notin {"attempt", "wait"} PROVE GoneInv'
  BY <1>a, <1>b DEF GoneInv
<1>c. ASSUME UNCHANGED handled,
             \A i \in 1 .. Len(handled) : ~ (handled[i].gone = TRUE)
      PROVE  GoneInv'
  BY <1>c DEF GoneInv
<1>1. CASE StartChild \/ EndChild \/ Returned \/ ReleaseCommandSlot \/ WaitCancelled
  BY <1>1, <1>b DEF StartChild, EndChild, Returned, ReleaseCommandSlot, WaitCancelled
<1>2. CASE AttemptTimesOut
  BY <1>2, <1>b DEF AttemptTimesOut
<1>3. CASE CallerGivesUp
  BY <1>3, <1>c DEF CallerGivesUp, GoneInv
<1>4. CASE AdmitOrRefuse
  <2>1. handled = << >>
    BY <1>4 DEF AdmitOrRefuse, RunInv, NotCalled
  <2> QED
    BY <1>4, <1>c, <2>1 DEF AdmitOrRefuse
<1>5. CASE BeginAttempt
  <2>1. \A i \in 1 .. Len(handled) : ~ (handled[i].gone = TRUE)
    BY <1>5 DEF BeginAttempt, GoneInv
  <2>2. pc' = "handling" /\ gone' = gone
    BY <1>5 DEF BeginAttempt
  <2>3. /\ Len(handled') = Len(handled) + 1
        /\ \A i \in 1 .. Len(handled) : handled'[i] = handled[i]
        /\ handled'[Len(handled) + 1].gone = TRUE => gone # ""
    BY <1>5, CallIsAdded
  <2> DEFINE n == Len(handled)
  <2> HIDE DEF n
  <2>4. ASSUME NEW i \in 1 .. n + 1, handled'[i].gone = TRUE
        PROVE  i = n + 1 /\ gone # ""
    <3>1. i \in 1 .. n \/ i = n + 1
      BY <1>t DEF n
    <3> QED
      BY <2>1, <2>3, <2>4, <3>1 DEF n
  <2> QED
    BY <2>2, <2>3, <2>4 DEF GoneInv, n
<1>6. CASE HandlerSucceeds \/ HandlerErrs \/ HandlerPanicked
  <2>1. pc = "handling" /\ pc' \notin {"attempt", "wait"}
    BY <1>6 DEF HandlerSucceeds, HandlerErrs, HandlerPanicked
  <2>2. Len(handled) # 0
    BY <2>1 DEF RunInv, Counted, RouteTypeOK
  <2>3. /\ Len(handled') = Len(handled)
        /\ \A i \in 1 .. Len(handled) : handled'[i].gone = handled[i].gone
    BY <1>6, <2>2, AnswerIsLast DEF HandlerSucceeds, HandlerErrs, HandlerPanicked
  <2> QED
    BY <1>a, <2>1, <2>3 DEF GoneInv
<1>7. CASE Judge
  <2>1. CASE CallerGone
    BY <1>7, <1>b, <2>1 DEF Judge
  <2>2. CASE ~ CallerGone
    BY <1>7, <1>c, <2>2 DEF Judge, GoneInv, CallerGone
  <2> QED
    BY <2>1, <2>2
<1>8. CASE WaitElapses
  BY <1>8, <1>c DEF WaitElapses, GoneInv
<1> QED
  BY <1>1, <1>2, <1>3, <1>4, <1>5, <1>6, <1>7, <1>8 DEF DispatchRuns, RunNext

-----------------------------------------------------------------------------
(* The order of the observations *)

\* A place determines its child and a child its place.
LEMMA PlaceOfChild ==
    \A i \in 1 .. Len(Observers) : IndexOf(Observers[i]) = i
BY CommandRunAssumption DEF CommandRunAssumption, IndexOf

\* The elements of a concatenation.
LEMMA ConcatAt ==
    ASSUME NEW S, NEW p \in Seq(S), NEW q \in Seq(S)
    PROVE  /\ p \o q \in Seq(S) /\ Len(p \o q) = Len(p) + Len(q)
           /\ \A i \in 1 .. Len(p) : (p \o q)[i] = p[i]
           /\ \A i \in 1 .. Len(q) : (p \o q)[Len(p) + i] = q[i]
OBVIOUS

\* Moving the last observation to the end of those that have ended leaves the
\* order in which they started (multiCommandObservation.End).
LEMMA EndKeepsOrder ==
    ASSUME NEW S, NEW s, NEW t
    PROVE  s \in Seq(S) /\ t \in Seq(S) /\ s # << >> =>
              SubSeq(s, 1, Len(s) - 1) \o Reverse(Append(t, s[Len(s)])) = s \o Reverse(t)
<1>1. ASSUME s \in Seq(S), t \in Seq(S), s # << >>
      PROVE  SubSeq(s, 1, Len(s) - 1) \o Reverse(Append(t, s[Len(s)])) = s \o Reverse(t)
  <2> DEFINE n == Len(s)
             k == Len(t)
             f == SubSeq(s, 1, n - 1)
             u == Append(t, s[n])
  <2>1. n \in Nat \ {0} /\ k \in Nat /\ s[n] \in S
    BY <1>1, ElementOfSeq
  <2>2. f \in Seq(S) /\ Len(f) = n - 1 /\ \A i \in 1 .. n - 1 : f[i] = s[i]
    <3>1. n - 1 \in 0 .. n
      <4> HIDE DEF n
      <4> QED
        BY <2>1
    <3>2. f \in Seq(S) /\ Len(f) = (IF 1 <= n - 1 THEN n - 1 - 1 + 1 ELSE 0)
          /\ \A i \in 1 .. n - 1 - 1 + 1 : f[i] = s[1 + i - 1]
      BY <1>1, <2>1, <3>1, SubSeqProperties
    <3> HIDE DEF n, f
    <3> QED
      BY <2>1, <3>2
  <2>3. /\ u \in Seq(S) /\ Len(u) = k + 1 /\ u[k + 1] = s[n]
        /\ \A i \in 1 .. k : u[i] = t[i]
    BY <1>1, <2>1, AppendProperties
  <2>4. /\ Reverse(u) \in Seq(S) /\ Len(Reverse(u)) = k + 1
        /\ \A i \in 1 .. k + 1 : Reverse(u)[i] = u[k + 1 - i + 1]
    <3>1. Reverse(u) = [i \in 1 .. k + 1 |-> u[k + 1 - i + 1]]
      BY <2>3 DEF Reverse
    <3>2. \A i \in 1 .. k + 1 : u[k + 1 - i + 1] \in S
      <4> HIDE DEF u, k
      <4> QED
        BY <2>1, <2>3, ElementOfSeq
    <3> HIDE DEF u, k
    <3>3. Reverse(u) \in [1 .. k + 1 -> S]
      BY <3>1, <3>2
    <3> QED
      BY <1>1, <2>1, <3>1, <3>3, IsASeq
  <2>5. /\ Reverse(t) \in Seq(S) /\ Len(Reverse(t)) = k
        /\ \A i \in 1 .. k : Reverse(t)[i] = t[k - i + 1]
    <3>1. Reverse(t) = [i \in 1 .. k |-> t[k - i + 1]]
      BY DEF Reverse
    <3>2. \A i \in 1 .. k : t[k - i + 1] \in S
      <4>1. \A j \in 1 .. k : t[j] \in S
        BY <1>1, ElementOfSeq
      <4> HIDE DEF k
      <4> QED
        BY <2>1, <4>1
    <3> HIDE DEF k
    <3>3. Reverse(t) \in [1 .. k -> S]
      BY <3>1, <3>2
    <3> QED
      BY <1>1, <2>1, <3>1, <3>3, IsASeq
  <2>d. n - 1 \in Nat /\ k + 1 \in Nat
    <3> HIDE DEF n, k
    <3> QED
      BY <2>1
  <2> HIDE DEF f, u
  <2> DEFINE a == f \o Reverse(u)
             b == s \o Reverse(t)
  <2>6. /\ a \in Seq(S) /\ Len(a) = (n - 1) + (k + 1)
        /\ \A i \in 1 .. n - 1 : a[i] = f[i]
        /\ \A i \in 1 .. k + 1 : a[(n - 1) + i] = Reverse(u)[i]
    <3> DEFINE r == Reverse(u)
               x == n - 1
               y == k + 1
    <3>1. f \in Seq(S) /\ r \in Seq(S) /\ Len(f) = x /\ Len(r) = y
      BY <2>2, <2>4
    <3> HIDE DEF r, x, y
    <3>2. /\ f \o r \in Seq(S) /\ Len(f \o r) = Len(f) + Len(r)
          /\ \A i \in 1 .. Len(f) : (f \o r)[i] = f[i]
          /\ \A i \in 1 .. Len(r) : (f \o r)[Len(f) + i] = r[i]
      BY <3>1
    <3> QED
      BY <3>1, <3>2 DEF r, x, y
  <2>7. /\ b \in Seq(S) /\ Len(b) = n + k
        /\ \A i \in 1 .. n : b[i] = s[i]
        /\ \A i \in 1 .. k : b[n + i] = Reverse(t)[i]
    <3> DEFINE r == Reverse(t)
    <3>1. s \in Seq(S) /\ r \in Seq(S) /\ Len(s) = n /\ Len(r) = k
      BY <1>1, <2>5
    <3> HIDE DEF r, n, k
    <3>2. /\ s \o r \in Seq(S) /\ Len(s \o r) = Len(s) + Len(r)
          /\ \A i \in 1 .. Len(s) : (s \o r)[i] = s[i]
          /\ \A i \in 1 .. Len(r) : (s \o r)[Len(s) + i] = r[i]
      BY <3>1
    <3> QED
      BY <3>1, <3>2 DEF r
  <2>8. ASSUME NEW i \in 1 .. n + k PROVE a[i] = b[i]
    <3> HIDE DEF n, k, a, b
    <3>1. CASE i < n
      <4>1. i \in 1 .. n - 1 /\ i \in 1 .. n
        BY <2>1, <3>1
      <4> QED
        BY <2>2, <2>6, <2>7, <4>1
    <3>2. CASE i = n
      <4>1. i = (n - 1) + 1 /\ 1 \in 1 .. k + 1 /\ k + 1 - 1 + 1 = k + 1 /\ i \in 1 .. n
        BY <2>1, <3>2
      <4>2. a[i] = Reverse(u)[1]
        BY <2>6, <4>1
      <4>3. Reverse(u)[1] = u[k + 1]
        BY <2>4, <4>1
      <4> QED
        BY <2>3, <2>7, <3>2, <4>1, <4>2, <4>3
    <3>3. CASE i > n
      <4> DEFINE m == i - n
                 l == k - m + 1
      <4>1. /\ i = (n - 1) + (m + 1) /\ i = n + m
            /\ m + 1 \in 1 .. k + 1 /\ m \in 1 .. k
            /\ k + 1 - (m + 1) + 1 = l /\ l \in 1 .. k
        BY <2>1, <3>3
      <4> HIDE DEF l
      <4>2. a[i] = Reverse(u)[m + 1] /\ b[i] = Reverse(t)[m]
        BY <2>6, <2>7, <4>1
      <4> HIDE DEF m
      <4>3. Reverse(u)[m + 1] = u[l]
        BY <2>4, <4>1
      <4>4. Reverse(t)[m] = t[l]
        BY <2>5, <4>1 DEF l
      <4> QED
        BY <2>3, <4>1, <4>2, <4>3, <4>4
    <3> QED
      BY <2>1, <3>1, <3>2, <3>3
  <2> HIDE DEF n, k, a, b
  <2>9. a = b
    <3>1. Len(a) = n + k
      BY <2>1, <2>6
    <3>2. a \in Seq(S) /\ b \in Seq(S) /\ Len(a) = Len(b)
          /\ \A i \in 1 .. Len(a) : a[i] = b[i]
      BY <2>6, <2>7, <2>8, <3>1
    <3> QED
      BY <3>2, SeqEqual
  <2> QED
    BY <2>9 DEF a, b, f, u, n
<1> QED
  BY <1>1

\* While none has ended the order is that of the open observations
\* (multiObserver.StartCommand).
LEMMA NothingEnded ==
    ASSUME NEW S, NEW s \in Seq(S)
    PROVE  s \o Reverse(<< >>) = s
<1>1. Reverse(<< >>) = << >>
  BY DEF Reverse
<1>2. s \o << >> = s
  OBVIOUS
<1> QED
  BY <1>1, <1>2

\* Observations start in the order of the children, and whether they are open or
\* have ended from the inside out, they stay in it (multiObserver.StartCommand,
\* multiCommandObservation.End).
LEMMA OrderStep ==
    ASSUME RouteTypeOK, OrderInv, DispatchRuns
    PROVE  OrderInv'
<1>t. /\ observing \in Seq(Child) /\ ended \in Seq(Child)
      /\ next \in 1 .. Len(Observers) + 1
  BY DEF RouteTypeOK
<1>a. ASSUME Order' = Order, next' = next,
             pc' \notin {"end", "done"} => ended' = << >>,
             pc' = "done" => observing' = << >>
      PROVE  OrderInv'
  BY <1>a DEF OrderInv
<1>1. CASE StartChild
  <2>1. /\ pc = "start" /\ next <= Len(Observers) /\ next' = next + 1
        /\ UNCHANGED <<pc, ended>>
    BY <1>1 DEF StartChild
  <2>2. ended = << >>
    BY <2>1 DEF OrderInv
  <2>3. next \in 1 .. Len(Observers) /\ next \in Nat
    BY <1>t, <2>1, ObserverTypes
  <2>4. Order = observing
    BY <1>t, <2>2, NothingEnded DEF Order
  <2> DEFINE o == Observers[next]
  <2>5. o \in Child /\ IndexOf(o) = next
    BY <2>3, ObserverTypes, PlaceOfChild
  <2>6. CASE observing' = Append(observing, o)
    <3> HIDE DEF o
    <3> DEFINE n == Len(observing)
    <3>1. /\ n \in Nat /\ observing' \in Seq(Child) /\ Len(observing') = n + 1
          /\ \A i \in 1 .. n : observing'[i] = observing[i]
          /\ observing'[n + 1] = o
      BY <1>t, <2>5, <2>6, AppendProperties, LenProperties
    <3>2. Order' = observing'
      BY <2>1, <2>2, <3>1, NothingEnded DEF Order
    <3> HIDE DEF n
    <3>3. /\ \A i \in 1 .. n : IndexOf(observing[i]) \in 1 .. next - 1
          /\ \A i, j \in 1 .. n : i < j => IndexOf(observing[i]) < IndexOf(observing[j])
      BY <2>4 DEF OrderInv, n
    <3>4. \A i \in 1 .. n + 1 : i \in 1 .. n \/ i = n + 1
      BY <3>1
    <3>5. \A i \in 1 .. n + 1 : IndexOf(observing'[i]) \in 1 .. next
      BY <2>3, <2>5, <3>1, <3>3, <3>4
    <3>6. ASSUME NEW i \in 1 .. n + 1, NEW j \in 1 .. n + 1, i < j
          PROVE  IndexOf(observing'[i]) < IndexOf(observing'[j])
      <4>1. i \in 1 .. n
        BY <3>1, <3>6
      <4>2. CASE j \in 1 .. n
        BY <3>1, <3>3, <3>6, <4>1, <4>2
      <4>3. CASE j = n + 1
        BY <2>3, <2>5, <3>1, <3>3, <4>1, <4>3
      <4> QED
        BY <3>4, <4>2, <4>3
    <3>7. next' - 1 = next
      BY <2>1, <2>3
    <3> QED
      BY <2>1, <2>2, <3>1, <3>2, <3>5, <3>6, <3>7 DEF OrderInv
  <2>7. CASE observing' = observing
    <3>1. Order' = Order
      BY <2>1, <2>7 DEF Order
    <3>2. 1 .. next - 1 \subseteq 1 .. next' - 1
      BY <2>1, <2>3
    <3> QED
      BY <2>1, <2>2, <3>1, <3>2 DEF OrderInv
  <2> QED
    BY <1>1, <2>6, <2>7 DEF StartChild
<1>2. CASE EndChild
  <2>1. Order' = Order
    BY <1>2, <1>t, EndKeepsOrder, ZenonT(60) DEF EndChild, Order
  <2> QED
    BY <1>2, <1>a, <2>1 DEF EndChild
<1>3. CASE Returned
  <2>1. Order' = Order
    BY <1>3 DEF Returned, Order
  <2> QED
    BY <1>3, <1>a, <2>1 DEF Returned
<1>4. CASE \/ AdmitOrRefuse \/ ReleaseCommandSlot \/ BeginAttempt \/ AttemptTimesOut
           \/ HandlerSucceeds \/ HandlerErrs \/ HandlerPanicked
           \/ Judge \/ WaitElapses \/ WaitCancelled
  <2>1. UNCHANGED <<observing, ended, next>> /\ pc \notin {"end", "done"} /\ pc' # "done"
    BY <1>4 DEF AdmitOrRefuse, ReleaseCommandSlot, BeginAttempt, AttemptTimesOut,
       HandlerSucceeds, HandlerErrs, HandlerPanicked, Judge, WaitElapses, WaitCancelled
  <2>2. ended' = << >>
    BY <2>1 DEF OrderInv
  <2> QED
    BY <1>a, <2>1, <2>2 DEF Order
<1>5. CASE CallerGivesUp
  <2>1. UNCHANGED <<observing, ended, next, pc>>
    BY <1>5 DEF CallerGivesUp
  <2> QED
    BY <1>a, <2>1 DEF Order, OrderInv
<1> QED
  BY <1>1, <1>2, <1>3, <1>4, <1>5 DEF DispatchRuns, RunNext

-----------------------------------------------------------------------------
(* The span *)

\* Turning a sequence round keeps its elements and its length
\* (multiCommandObservation.End).
LEMMA ReverseType ==
    ASSUME NEW S, NEW s \in Seq(S)
    PROVE  Reverse(s) \in Seq(S) /\ Len(Reverse(s)) = Len(s)
<1> DEFINE k == Len(s)
<1>1. k \in Nat /\ \A j \in 1 .. k : s[j] \in S
  BY ElementOfSeq, LenProperties
<1>2. Reverse(s) = [i \in 1 .. k |-> s[k - i + 1]]
  BY DEF Reverse
<1> HIDE DEF k
<1>3. Reverse(s) \in [1 .. k -> S]
  BY <1>1, <1>2
<1> QED
  BY <1>1, <1>2, <1>3, IsASeq DEF k

\* A child has at most one observation that is open (multiObserver.StartCommand).
LEMMA OnceOpen ==
    ASSUME RouteTypeOK, OrderInv,
           NEW i \in 1 .. Len(observing), NEW j \in 1 .. Len(observing),
           observing[i] = observing[j]
    PROVE  i = j
<1>1. /\ observing \in Seq(Child) /\ Reverse(ended) \in Seq(Child)
      /\ Len(observing) \in Nat /\ Len(Reverse(ended)) \in Nat
  BY ReverseType, LenProperties DEF RouteTypeOK
<1>2. /\ Len(Order) = Len(observing) + Len(Reverse(ended))
      /\ \A l \in 1 .. Len(observing) : Order[l] = observing[l]
  BY <1>1, ConcatAt DEF Order
<1>3. i \in 1 .. Len(Order) /\ j \in 1 .. Len(Order)
  BY <1>1, <1>2
<1>4. ~ (i < j) /\ ~ (j < i)
  <2>1. IndexOf(Order[i]) \in 1 .. next - 1 /\ Order[i] = Order[j]
    BY <1>2, <1>3 DEF OrderInv
  <2> QED
    BY <1>3, <2>1 DEF OrderInv
<1> QED
  BY <1>4

Open(o) == \E i \in 1 .. Len(observing) : observing[i] = o

\* A step that tells the span nothing leaves it true to the dispatch.
LEMMA SpanUntouched ==
    ASSUME SpanInv, UNCHANGED <<span, failures>>, Open("otel")' <=> Open("otel"),
           pc \in {"end", "done"} => /\ pc' \in {"end", "done"}
                                     /\ UNCHANGED <<err, attempts>>
    PROVE  SpanInv'
<1>1. err' = err => EndCode' = EndCode
  BY DEF EndCode
<1> QED
  BY <1>1 DEF SpanInv, Open

\* The span opens with its observation, sees each failure while it is open, and
\* ends with what the dispatch came to (StartCommand, ObserveFailure and
\* commandObservation.End of the OpenTelemetry observer).
LEMMA SpanStep ==
    ASSUME RouteTypeOK, RunInv, OrderInv, SpanInv, DispatchRuns
    PROVE  SpanInv'
<1>t. observing \in Seq(Child) /\ span \in SpanWith(span.code) /\ failures \in Seq(Nat)
  BY DEF RouteTypeOK
<1>u. Len(observing) \in Nat /\ Len(failures) \in Nat
  BY <1>t, LenProperties
<1>1. CASE StartChild
  <2> DEFINE n == Len(observing)
             o == Observers[next]
  <2>1. /\ pc = "start" /\ UNCHANGED <<pc, err, attempts, failures>>
        /\ next <= Len(Observers) /\ next \in 1 .. Len(Observers) + 1
    BY <1>1 DEF StartChild, RouteTypeOK
  <2>a. next \in 1 .. Len(Observers)
    BY <2>1, ObserverTypes
  <2>2. failures = << >> /\ span.state # "ended" /\ o \in Child
    BY <2>1, <2>a, ObserverTypes DEF RunInv, NotCalled, SpanInv
  <2>3. CASE UNCHANGED <<observing, span>>
    BY <2>1, <2>3, SpanUntouched DEF Open
  <2>4. ASSUME observing' = Append(observing, o)
        PROVE  Open("otel")' <=> Open("otel") \/ o = "otel"
    <3>1. /\ Len(observing') = n + 1 /\ observing'[n + 1] = o
          /\ \A i \in 1 .. n : observing'[i] = observing[i]
      BY <1>t, <2>2, <2>4, AppendProperties
    <3> HIDE DEF n, o
    <3>2. n \in Nat /\ \A i \in 1 .. n + 1 : i \in 1 .. n \/ i = n + 1
      BY <1>u DEF n
    <3>3. n + 1 \in 1 .. n + 1 /\ \A i \in 1 .. n : i \in 1 .. n + 1
      BY <3>2
    <3> QED
      BY <3>1, <3>2, <3>3 DEF Open, n
  <2>5. CASE observing' = Append(observing, o) /\ o = "otel" /\ span' = StartCommand
    BY <2>1, <2>2, <2>4, <2>5, SpanStarts DEF SpanInv, Open
  <2>6. CASE observing' = Append(observing, o) /\ o # "otel" /\ UNCHANGED span
    BY <2>1, <2>4, <2>6, SpanUntouched
  <2> QED
    BY <1>1, <2>3, <2>5, <2>6 DEF StartChild
<1>2. CASE EndChild
  <2> DEFINE n == Len(observing)
             o == observing[n]
  <2>1. /\ pc = "end" /\ observing # << >>
        /\ UNCHANGED <<pc, err, attempts, failures, gone, lastCode>>
    BY <1>2 DEF EndChild
  <2>2. n \in Nat \ {0} /\ n \in 1 .. n
    BY <1>t, <1>u, <2>1, EmptySeq
  <2>3. /\ Len(observing') = n - 1
        /\ \A i \in 1 .. n - 1 : observing'[i] = observing[i]
    <3>1. observing' = SubSeq(observing, 1, n - 1)
      BY <1>2 DEF EndChild
    <3>2. n - 1 \in 0 .. n
      <4> HIDE DEF n, o
      <4> QED
        BY <2>2
    <3>3. /\ Len(observing') = (IF 1 <= n - 1 THEN n - 1 - 1 + 1 ELSE 0)
          /\ \A i \in 1 .. n - 1 - 1 + 1 : observing'[i] = observing[1 + i - 1]
      BY <1>t, <2>2, <3>1, <3>2, SubSeqProperties
    <3> HIDE DEF n, o
    <3> QED
      BY <2>2, <3>3
  <2>4. EndCode' = EndCode
    BY <2>1 DEF EndCode
  <2>5. CASE o = "otel"
    <3>1. span.state = "open" /\ span.status # "ok" /\ span.dispatches = 0
          /\ span.recorded = Len(failures) /\ span.failures = Len(failures)
      BY <2>2, <2>5 DEF SpanInv
    <3>2. attempts \in Nat /\ span' = EndCommand(span, err = Nil, EndCode, attempts)
      BY <1>2, <2>5 DEF EndChild, RouteTypeOK
    <3> HIDE DEF n, o
    <3>7. ~ Open("otel")'
      <4>1. SUFFICES ASSUME NEW i \in 1 .. n - 1, observing'[i] = "otel" PROVE FALSE
        BY <2>3 DEF Open
      <4>2. i \in 1 .. n /\ observing[i] = "otel" /\ i # n
        BY <2>2, <2>3, <4>1
      <4> QED
        BY <2>2, <2>5, <4>2, OnceOpen DEF n, o
    <3>8. LET m == Len(failures)
          IN  span' = IF err = Nil THEN Closed("ok", EndCode, m, attempts, 1, m)
                      ELSE Closed("error", EndCode, m + 1, attempts, 1, m)
      <4>z. 0 + 1 = 1
        OBVIOUS
      <4>1. CASE err = Nil
        <5>1. span' = EndCommand(span, TRUE, EndCode, attempts) /\ EndCode = ""
          BY <3>2, <4>1 DEF EndCode, PublicCode
        <5> QED
          <6>1. span' = Closed("ok", "", Len(failures), attempts, 1, Len(failures))
            BY <1>t, <3>1, <3>2, <4>z, <5>1, SpanEndsWell
          <6> QED
            BY <4>1, <5>1, <6>1
      <4>2. CASE err # Nil
        <5>1. span' = EndCommand(span, FALSE, EndCode, attempts)
          BY <3>2, <4>2
        <5> QED
          BY <1>t, <3>1, <3>2, <4>2, <4>z, <5>1, SpanEndsFailed
      <4> QED
        BY <4>1, <4>2
    <3> QED
      BY <1>u, <2>1, <2>4, <3>7, <3>8 DEF SpanInv, Open, Closed
  <2>6. CASE o # "otel"
    <3>1. UNCHANGED span
      BY <1>2, <2>6 DEF EndChild
    <3> HIDE DEF n, o
    <3>2. \A i \in 1 .. n : i \in 1 .. n - 1 \/ i = n
      BY <2>2
    <3>3. \A i \in 1 .. n - 1 : i \in 1 .. n
      BY <2>2
    <3>4. Open("otel")' <=> Open("otel")
      BY <2>3, <2>6, <3>2, <3>3 DEF Open, n, o
    <3> QED
      BY <2>1, <3>1, <3>4, SpanUntouched
  <2> QED
    BY <2>5, <2>6
<1>3. ASSUME NEW m \in Nat, NEW e, FailureTold(m, e), pc = "handling",
             UNCHANGED observing, pc' \notin {"end", "done"}
      PROVE  SpanInv'
  <2>1. span.state # "ended"
    BY <1>3 DEF SpanInv
  <2>2. span' = ObserveFailure(span, PublicCode(e, "command_failed"))
    BY <1>3 DEF FailureTold
  <2>3. Len(failures') = Len(failures) + 1
    BY <1>3, <1>t DEF FailureTold
  <2>4. /\ span'.state = span.state
        /\ span'.dispatches = span.dispatches /\ span'.failures = span.failures + 1
        /\ span.state = "open" /\ span.status # "ok" =>
              span'.recorded = span.recorded + 1 /\ span'.status # "ok"
    BY <1>t, <2>2, SpanSeesFailure
  <2> QED
    BY <1>3, <2>1, <2>3, <2>4 DEF SpanInv
<1>4. CASE HandlerErrs \/ HandlerPanicked
  BY <1>3, <1>4 DEF HandlerErrs, HandlerPanicked, RouteTypeOK
<1>5. CASE \/ Returned \/ AdmitOrRefuse \/ ReleaseCommandSlot \/ BeginAttempt
           \/ AttemptTimesOut \/ CallerGivesUp \/ HandlerSucceeds
           \/ Judge \/ WaitElapses \/ WaitCancelled
  <2>1. UNCHANGED <<span, failures, observing>>
    BY <1>5 DEF Returned, AdmitOrRefuse, ReleaseCommandSlot, BeginAttempt,
       AttemptTimesOut, CallerGivesUp, HandlerSucceeds, Judge, WaitElapses, WaitCancelled
  <2>2. pc \in {"end", "done"} => pc' \in {"end", "done"} /\ UNCHANGED <<err, attempts>>
    BY <1>5 DEF Returned, AdmitOrRefuse, ReleaseCommandSlot, BeginAttempt,
       AttemptTimesOut, CallerGivesUp, HandlerSucceeds, Judge, WaitElapses, WaitCancelled
  <2> QED
    BY <2>1, <2>2, SpanUntouched DEF Open
<1> QED
  BY <1>1, <1>2, <1>4, <1>5 DEF DispatchRuns, RunNext

-----------------------------------------------------------------------------
(* The response *)

\* A refusal has a status of its own (mapDispatchError).
LEMMA RefusalsAreMapped ==
    ASSUME NEW e \in Refusals
    PROVE  MapDispatchError(e) \in {404, 409, 429, 503}
<1> DEFINE rows == {i \in 1 .. Len(Mapped) : \E s \in Mapped[i].of : Is(e, s)}
<1>1. /\ Len(Mapped) = 6
      /\ \A i \in 1 .. 6 : Mapped[i].to \in {404, 409, 429, 503}
      /\ "runtime_not_accepting" \in Mapped[3].of
      /\ "worker_not_accepting" \in Mapped[4].of /\ "invalid_state" \in Mapped[4].of
      /\ "runtime_saturated" \in Mapped[5].of /\ "worker_saturated" \in Mapped[5].of
  BY DEF Mapped
<1>2. \A s : Is(<<s>>, s)
  BY DEF Is
<1>3. \E i \in 1 .. 6 : \E s \in Mapped[i].of : Is(e, s)
  <2>1. \/ e = <<"runtime_not_accepting">> \/ e = <<"invalid_state">>
        \/ e = <<"worker_not_accepting">>
        \/ e = <<"runtime_saturated">> \/ e = <<"worker_saturated">>
    BY DEF Refusals
  <2>2. 3 \in 1 .. 6 /\ 4 \in 1 .. 6 /\ 5 \in 1 .. 6
    OBVIOUS
  <2>3. ASSUME NEW i \in 1 .. 6, NEW s, s \in Mapped[i].of, e = <<s>>
        PROVE  \E j \in 1 .. 6 : \E x \in Mapped[j].of : Is(e, x)
    <3>1. Is(e, s)
      BY <1>2, <2>3, Zenon
    <3> QED
      BY <2>3, <3>1, Zenon
  <2>4. CASE e = <<"runtime_not_accepting">>
    <3>1. 3 \in 1 .. 6 /\ "runtime_not_accepting" \in Mapped[3].of
      BY <1>1, <2>2
    <3> QED
      BY <2>3, <2>4, <3>1, Zenon
  <2>5. CASE e = <<"invalid_state">>
    <3>1. 4 \in 1 .. 6 /\ "invalid_state" \in Mapped[4].of
      BY <1>1, <2>2
    <3> QED
      BY <2>3, <2>5, <3>1, Zenon
  <2>6. CASE e = <<"worker_not_accepting">>
    <3>1. 4 \in 1 .. 6 /\ "worker_not_accepting" \in Mapped[4].of
      BY <1>1, <2>2
    <3> QED
      BY <2>3, <2>6, <3>1, Zenon
  <2>7. CASE e = <<"runtime_saturated">>
    <3>1. 5 \in 1 .. 6 /\ "runtime_saturated" \in Mapped[5].of
      BY <1>1, <2>2
    <3> QED
      BY <2>3, <2>7, <3>1, Zenon
  <2>8. CASE e = <<"worker_saturated">>
    <3>1. 5 \in 1 .. 6 /\ "worker_saturated" \in Mapped[5].of
      BY <1>1, <2>2
    <3> QED
      BY <2>3, <2>8, <3>1, Zenon
  <2> QED
    BY <2>1, <2>4, <2>5, <2>6, <2>7, <2>8
<1>4. rows # {}
  BY <1>1, <1>3
<1>5. Min(rows) \in 1 .. 6
  BY <1>1, <1>4, FirstIsMember
<1> HIDE DEF rows
<1>6. MapDispatchError(e) = Mapped[Min(rows)].to
  BY <1>4 DEF MapDispatchError, rows
<1> QED
  BY <1>1, <1>5, <1>6

\* A panic of the handler is an internal error (mapDispatchError).
LEMMA PanicIsInternal ==
    request = "known" => MapDispatchError(RecoveredPanic) = 500
<1>1. Len(Mapped) = 6 /\ \A i \in 1 .. 6 : "panic" \notin Mapped[i].of
  BY DEF Mapped
<1>2. \A s : Is(<<"panic">>, s) => s = "panic"
  BY DEF Is
<1>3. {i \in 1 .. Len(Mapped) : \E s \in Mapped[i].of : Is(RecoveredPanic, s)} = {}
  BY <1>1, <1>2, ErrorsAreErrors
<1> QED
  BY <1>3 DEF MapDispatchError, ContainsWorker, ContainsCommand

\* A target that is not found is never an internal error (mapDispatchError).
LEMMA UnknownIsNotInternal ==
    ASSUME NEW e, request # "known"
    PROVE  MapDispatchError(e) \in {404, 409, 429, 503}
<1> DEFINE rows == {i \in 1 .. Len(Mapped) : \E s \in Mapped[i].of : Is(e, s)}
<1>1. /\ Len(Mapped) = 6
      /\ \A i \in 1 .. 6 : Mapped[i].to \in {404, 409, 429, 503}
  BY DEF Mapped
<1>2. rows # {} => Min(rows) \in 1 .. 6
  BY <1>1, FirstIsMember
<1> HIDE DEF rows
<1> QED
  BY <1>1, <1>2 DEF MapDispatchError, ContainsWorker, ContainsCommand, rows

\* The response is written to a dispatch that has ended, or was never begun, and
\* changes nothing of it.
LEMMA ResponseKeepsRun ==
    ASSUME RunInv, GoneInv, OrderInv, SpanInv, NEW n \in Nat \ {0}, Respond(n),
           pc = "start" \/ UNCHANGED err
    PROVE  RunInv' /\ GoneInv' /\ OrderInv' /\ SpanInv'
<1>a. /\ UNCHANGED <<policy, pc, attempt, attempts, slot, gone, next, observing, ended,
                    span, failures, lastCode, handled>>
      /\ response' # 0
  BY DEF Respond
<1>b. /\ (NotCalled' <=> NotCalled) /\ CallLimit' = CallLimit /\ LastAnswer' = LastAnswer
      /\ Order' = Order
  BY <1>a DEF NotCalled, CallLimit, LastAnswer, Order
<1>c. \A m : Counted(m)' <=> Counted(m)
  BY <1>a DEF Counted
<1>d. err' = err => EndCode' = EndCode /\ (Executed' <=> Executed)
  <2>1. err' = err => EndCode' = EndCode
    BY DEF EndCode
  <2> QED
    BY <1>a, <1>b, <1>c, <2>1 DEF Executed
<1>1. RunInv'
  <2>1. CASE pc = "start"
    BY <1>a, <1>b, <2>1 DEF RunInv
  <2>2. CASE UNCHANGED err
    BY <1>a, <1>b, <1>c, <1>d, <2>2 DEF RunInv
  <2> QED
    BY <2>1, <2>2
<1>2. GoneInv'
  BY <1>a DEF GoneInv
<1>3. OrderInv'
  BY <1>a, <1>b DEF OrderInv
<1>4. SpanInv'
  BY <1>a, SpanUntouched DEF Open
<1> QED
  BY <1>1, <1>2, <1>3, <1>4

\* What the client is told follows from how the dispatch ended (mapDispatchError,
\* encodeCommandResult).
LEMMA RouteStep ==
    ASSUME RouteTypeOK, RunInv, RouteInv, RouteNext
    PROVE  RouteInv'
<1>1. CASE DispatchRuns
  BY <1>1 DEF DispatchRuns, RouteInv, ResponseTellsTheRun
<1>a. ASSUME NEW n, Respond(n),
             n \in {200, 400, 404, 409, 429, 500, 503}, slot = FALSE,
             n = 200 => handled # << >> /\ LastAnswer = "ok",
             n \in {400, 404, 409, 429, 503} => handled = << >> \/ LastAnswer = "error",
             n = 500 => handled # << >>
      PROVE  RouteInv'
  BY <1>a DEF Respond, RouteInv, ResponseTellsTheRun, LastAnswer
<1>b. request # "known" => pc = "start" /\ handled = << >> /\ slot = FALSE
  BY DEF RouteInv, RunInv, NotCalled, RouteTypeOK
<1>2. CASE BadRequest
  <2>1. request # "known" /\ Respond(400)
    BY <1>2 DEF BadRequest
  <2>2. pc = "start" /\ handled = << >> /\ slot = FALSE
    BY <1>b, <2>1
  <2> QED
    BY <2>1, <2>2 DEF Respond, RouteInv, ResponseTellsTheRun
<1>3. CASE TargetUnknown
  <2>1. request # "known" /\ Respond(MapDispatchError(err'))
    BY <1>3 DEF TargetUnknown
  <2>2. MapDispatchError(err') \in {404, 409, 429, 503}
    BY <2>1, UnknownIsNotInternal
  <2>3. pc = "start" /\ handled = << >> /\ slot = FALSE
    BY <1>b, <2>1
  <2>4. PICK n : Respond(n) /\ n \in {404, 409, 429, 503}
    BY <2>1, <2>2
  <2>5. n # 200 /\ n # 500
    BY <2>4
  <2> QED
    BY <2>3, <2>4, <2>5 DEF Respond, RouteInv, ResponseTellsTheRun
<1>c. ASSUME pc = "done"
      PROVE  /\ request = "known" /\ slot = FALSE
             /\ Executed \/ (NotCalled /\ err \in Refusals)
             /\ Executed => handled # << >>
  <2>1. request = "known" /\ slot = FALSE /\ (Executed \/ (NotCalled /\ err \in Refusals))
    BY <1>c DEF RouteInv, RunInv, RouteTypeOK
  <2>2. Executed => Len(handled) = attempt
    BY DEF Executed, Counted
  <2>3. attempt # 0 /\ Len(<< >>) = 0
    BY DEF RouteTypeOK
  <2> QED
    BY <2>1, <2>2, <2>3
<1>4. CASE Succeeded
  <2>1. pc = "done" /\ err = Nil /\ (Respond(200) \/ Respond(500))
    BY <1>4 DEF Succeeded
  <2>2. handled # << >> /\ LastAnswer = "ok"
    BY <1>c, <2>1, ErrorsAreErrors DEF Executed
  <2> QED
    BY <1>a, <1>c, <2>1, <2>2
<1>5. CASE DispatchFailed
  <2>1. pc = "done" /\ err # Nil /\ Respond(MapDispatchError(err))
    BY <1>5 DEF DispatchFailed
  <2>2. MapDispatchError(err) \in {404, 409, 429, 500, 503}
    BY MapResults
  <2>3. CASE Executed
    <3>1. handled # << >> /\ (LastAnswer = "error" \/ err = RecoveredPanic)
      BY <1>c, <2>1, <2>3 DEF Executed
    <3>2. err = RecoveredPanic => MapDispatchError(err) = 500
      BY <1>c, <2>1, PanicIsInternal
    <3> QED
      BY <1>a, <1>c, <2>1, <2>2, <3>1, <3>2
  <2>4. CASE NotCalled /\ err \in Refusals
    <3>1. MapDispatchError(err) \in {404, 409, 429, 503}
      BY <2>4, RefusalsAreMapped
    <3> QED
      BY <1>a, <1>c, <2>1, <2>4, <3>1 DEF NotCalled
  <2> QED
    BY <1>c, <2>1, <2>3, <2>4
<1> QED
  BY <1>1, <1>2, <1>3, <1>4, <1>5 DEF RouteNext

-----------------------------------------------------------------------------
(* The invariant and what it says *)

\* The invariant holds when the request arrives.
LEMMA CommandInvInit == RouteInit => RouteTypeOK /\ CommandInv
<1> SUFFICES ASSUME RouteInit PROVE RouteTypeOK /\ CommandInv
  OBVIOUS
<1>t. RouteTypeOK
  BY RouteInitType
<1>a. /\ pc = "start" /\ attempt = 1 /\ attempts = 0 /\ slot = FALSE /\ err = Nil
      /\ next = 1 /\ observing = << >> /\ ended = << >> /\ span = NoSpan
      /\ failures = << >> /\ handled = << >> /\ response = 0
  BY DEF RouteInit, RunInit
<1>1. RunInv
  <2>1. policy \in Policy
    BY <1>t DEF RouteTypeOK
  <2>2. policy.maxAttempts \in -1 .. MaxAttempt
    BY <2>1 DEF Policy
  <2>3. attempt <= CallLimit
    BY <1>a, <2>2, CommandRunAssumption DEF CallLimit, CommandRunAssumption
  <2> QED
    BY <1>a, <2>3 DEF RunInv, NotCalled
<1>e. \A i : i \notin 1 .. Len(<< >>)
  OBVIOUS
<1>2. GoneInv
  BY <1>a, <1>e, Zenon DEF GoneInv
<1>3. OrderInv
  <2>1. Order = << >>
    <3>1. << >> \in Seq(Child)
      OBVIOUS
    <3> QED
      BY <1>a, <3>1, NothingEnded DEF Order
  <2> QED
    BY <1>a, <2>1 DEF OrderInv
<1>4. SpanInv
  <2>1. span.state = "none"
    BY <1>a DEF NoSpan
  <2>2. ~ Open("otel")
    BY <1>a, <1>e, Zenon DEF Open
  <2> QED
    BY <2>1, <2>2 DEF SpanInv, Open
<1>5. RouteInv
  BY <1>a DEF RouteInv, ResponseTellsTheRun
<1> QED
  BY <1>t, <1>1, <1>2, <1>3, <1>4, <1>5 DEF CommandInv

\* Every step of the route keeps it.
LEMMA CommandInvStep ==
    RouteTypeOK /\ CommandInv /\ [RouteNext]_routeVars => CommandInv'
<1> SUFFICES ASSUME RouteTypeOK, CommandInv, [RouteNext]_routeVars PROVE CommandInv'
  OBVIOUS
<1>a. RunInv /\ GoneInv /\ OrderInv /\ SpanInv /\ RouteInv
  BY DEF CommandInv
<1>1. CASE DispatchRuns
  <2>1. response = 0 /\ UNCHANGED <<request, response>> /\ RunNext
    BY <1>1 DEF DispatchRuns
  <2>2. RunInv'
    BY <1>a, <2>1, AroundKeepsRun, CallKeepsRun, RetryKeepsRun DEF RunNext
  <2>3. GoneInv' /\ OrderInv' /\ SpanInv'
    BY <1>a, <1>1, GoneStep, OrderStep, SpanStep
  <2>4. RouteInv'
    BY <1>a, <1>1, RouteStep DEF RouteNext
  <2> QED
    BY <2>2, <2>3, <2>4 DEF CommandInv
<1>2. CASE BadRequest \/ TargetUnknown \/ Succeeded \/ DispatchFailed
  <2>1. RouteInv'
    BY <1>a, <1>2, RouteStep DEF RouteNext
  <2>2. \E n \in Nat \ {0} : Respond(n)
    <3>1. \A e : MapDispatchError(e) \in Nat \ {0}
      BY MapResults
    <3> QED
      BY <1>2, <3>1 DEF BadRequest, TargetUnknown, Succeeded, DispatchFailed
  <2>3. pc = "start" \/ UNCHANGED err
    BY <1>a, <1>2 DEF BadRequest, TargetUnknown, Succeeded, DispatchFailed, RouteInv
  <2>4. RunInv' /\ GoneInv' /\ OrderInv' /\ SpanInv'
    BY <1>a, <2>2, <2>3, ResponseKeepsRun
  <2> QED
    BY <2>1, <2>4 DEF CommandInv
<1>3. CASE UNCHANGED routeVars
  <2>a. UNCHANGED <<policy, pc, attempt, attempts, slot, err, gone, next, observing,
                    ended, span, failures, lastCode, handled, request, response>>
    BY <1>3 DEF routeVars
  <2>1. RunInv'
    BY <1>a, <2>a DEF RunInv, CallLimit, NotCalled, Counted, Executed, LastAnswer, EndCode
  <2>2. GoneInv' /\ OrderInv'
    BY <1>a, <2>a DEF GoneInv, OrderInv, Order
  <2>3. SpanInv'
    BY <1>a, <2>a, SpanUntouched DEF Open
  <2>4. RouteInv'
    BY <1>a, <2>a DEF RouteInv, ResponseTellsTheRun
  <2> QED
    BY <2>1, <2>2, <2>3, <2>4 DEF CommandInv
<1> QED
  BY <1>1, <1>2, <1>3 DEF RouteNext

\* The inductive invariant of a dispatch and its route (Dispatch, executeCommand,
\* runWithRetry, dispatchHandler).
THEOREM CommandInvariant == RouteSpec => [](RouteTypeOK /\ CommandInv)
<1>1. RouteInit => RouteTypeOK /\ CommandInv
  BY CommandInvInit
<1>2. RouteTypeOK /\ CommandInv /\ [RouteNext]_routeVars => (RouteTypeOK /\ CommandInv)'
  BY RouteTypeStep, CommandInvStep
<1> QED
  BY <1>1, <1>2, PTL DEF RouteSpec

\* The limit of a policy is a number (configPolicy).
LEMMA LimitIsInt == RouteTypeOK => CallLimit \in Nat \ {0}
<1> SUFFICES ASSUME RouteTypeOK PROVE CallLimit \in Nat \ {0}
  OBVIOUS
<1>1. policy \in Policy
  BY DEF RouteTypeOK
<1>2. policy.maxAttempts \in -1 .. MaxAttempt
  BY <1>1 DEF Policy
<1> QED
  BY <1>2 DEF CallLimit

\* The order of the observations is that of the children (multiObserver).
LEMMA Increasing ==
    ASSUME RouteTypeOK, OrderInv
    PROVE  StrictlyIncreasing([i \in 1 .. Len(Order) |-> IndexOf(Order[i])])
<1>1. /\ observing \in Seq(Child) /\ Reverse(ended) \in Seq(Child)
      /\ Len(observing) \in Nat /\ Len(Reverse(ended)) \in Nat
  BY ReverseType, LenProperties DEF RouteTypeOK
<1>2. Order \in Seq(Child) /\ Len(Order) \in Nat
  BY <1>1, ConcatAt DEF Order
<1> DEFINE m == Len(Order)
           s == [i \in 1 .. m |-> IndexOf(Order[i])]
<1>3. \A i \in 1 .. m : s[i] = IndexOf(Order[i]) /\ s[i] \in 1 .. next - 1
  BY DEF OrderInv
<1>4. s \in [1 .. m -> 1 .. next - 1]
  BY <1>3
<1> HIDE DEF s
<1>5. Len(s) = m
  BY <1>2, <1>4, IsASeq
<1> QED
  BY <1>3, <1>5 DEF StrictlyIncreasing, OrderInv, s

\* What the end of a dispatch tells is what the handler was asked and answered, for
\* any observers, policy and errors (Dispatch, executeCommand, multiObserver).
THEOREM EndsAreTrue == RouteSpec => []EndTellsTheRun
<1>1. RouteTypeOK /\ CommandInv => EndTellsTheRun
  <2> SUFFICES ASSUME RouteTypeOK, CommandInv, pc \in {"end", "done"}
               PROVE  EndTellsTheRun
    BY DEF EndTellsTheRun
  <2>a. RunInv /\ OrderInv
    BY DEF CommandInv
  <2>t. attempt \in Nat \ {0} /\ attempts \in Nat /\ handled \in Seq(Call)
    BY DEF RouteTypeOK
  <2>1. slot = FALSE
    BY <2>a DEF RunInv, RouteTypeOK
  <2>2. attempt <= CallLimit /\ (Executed \/ (NotCalled /\ err \in Refusals))
    BY <2>a DEF RunInv
  <2>3. CASE Executed
    <3>1. Len(handled) = attempt /\ attempts = attempt /\ handled # << >>
      <4>1. Len(handled) = attempt /\ attempts = attempt
        BY <2>3 DEF Executed, Counted
      <4> QED
        BY <2>t, <4>1, EmptySeq
    <3>2. err = Nil <=> Last(handled).answer = "ok"
      BY <2>3, ErrorsAreErrors DEF Executed, LastAnswer
    <3>3. failures = FirstCalls(attempt - (IF err = Nil THEN 1 ELSE 0))
      <4>1. CASE err = Nil
        BY <2>3, <4>1, ErrorsAreErrors DEF Executed, Counted
      <4>2. CASE err # Nil
        <5>1. attempt - 0 = attempt
          BY <2>t
        <5> QED
          BY <2>3, <4>2, <5>1 DEF Executed, Counted
      <4> QED
        BY <4>1, <4>2
    <3>4. err # Nil => EndCode = lastCode \/ err = <<gone>>
      BY <2>3 DEF Executed
    <3> HIDE DEF Executed
    <3>5. StrictlyIncreasing([i \in 1 .. Len(Order) |-> IndexOf(Order[i])])
      BY <2>a, Increasing
    <3> QED
      BY <2>1, <2>2, <3>1, <3>2, <3>3, <3>4, <3>5
      DEF EndTellsTheRun, FirstCalls, CallLimit, Order
  <2>4. CASE NotCalled /\ err \in Refusals
    <3>1. handled = << >> /\ Len(handled) = 0 /\ attempts = 0 /\ failures = FirstCalls(0)
      BY <2>4, OneMoreCall DEF NotCalled
    <3>2. err # Nil
      BY <2>4, ErrorsAreErrors
    <3>3. StrictlyIncreasing([i \in 1 .. Len(Order) |-> IndexOf(Order[i])])
      BY <2>a, Increasing
    <3>4. 0 <= CallLimit /\ 0 - 0 = 0
      BY <2>2, <2>t, LimitIsInt
    <3> QED
      BY <2>1, <3>1, <3>2, <3>3, <3>4
      DEF EndTellsTheRun, FirstCalls, CallLimit, Order
  <2> QED
    BY <2>2, <2>3, <2>4
<1> QED
  BY <1>1, CommandInvariant, PTL

\* Once the caller has given up at most one more call is made, for any policy
\* (runWithRetry, waitBeforeRetry).
THEOREM CancelStopsRetries == RouteSpec => []OneAttemptAfterCancel
<1>1. RouteTypeOK /\ CommandInv => OneAttemptAfterCancel
  <2> SUFFICES ASSUME RouteTypeOK, CommandInv PROVE OneAttemptAfterCancel
    OBVIOUS
  <2> DEFINE late_calls == {i \in 1 .. Len(handled) : handled[i].gone}
             n == Len(handled)
  <2>1. handled \in Seq(Call)
    BY DEF RouteTypeOK
  <2>2. \A i \in 1 .. n : handled[i].gone \in BOOLEAN
    <3>1. \A i \in 1 .. n : handled[i] \in Call
      BY <2>1, ElementOfSeq
    <3> QED
      BY <3>1 DEF Call
  <2>3. late_calls \subseteq {n}
    BY <2>2 DEF CommandInv, GoneInv
  <2>4. IsFiniteSet({n}) /\ Cardinality({n}) = 1
    BY FS_Singleton
  <2>5. Cardinality(late_calls) <= Cardinality({n})
    BY <2>3, <2>4, FS_Subset
  <2> HIDE DEF n
  <2> QED
    BY <2>4, <2>5 DEF OneAttemptAfterCancel
<1> QED
  BY <1>1, CommandInvariant, PTL

\* The span of a dispatch tells its outcome (ObserveFailure and
\* commandObservation.End of the OpenTelemetry observer).
THEOREM SpansAreTrue == RouteSpec => []SpanTellsTheRun
<1>1. RouteTypeOK /\ CommandInv => SpanTellsTheRun
  <2> SUFFICES ASSUME RouteTypeOK, CommandInv, pc = "done", span.state # "none"
               PROVE  SpanTellsTheRun
    BY DEF SpanTellsTheRun
  <2>1. span.state \in {"none", "open", "ended"}
    <3>1. span \in SpanWith(span.code)
      BY DEF RouteTypeOK
    <3> QED
      BY <3>1 DEF SpanWith
  <2>2. span.state # "open"
    <3>1. observing = << >>
      BY DEF CommandInv, OrderInv
    <3>2. ~ Open("otel")
      BY <3>1 DEF Open
    <3> QED
      BY <3>2 DEF CommandInv, SpanInv, Open
  <2>3. attempts = Len(handled)
    BY DEF CommandInv, RunInv, Executed, NotCalled, Counted
  <2> QED
    BY <2>1, <2>2, <2>3 DEF SpanTellsTheRun, CommandInv, SpanInv
<1> QED
  BY <1>1, CommandInvariant, PTL

\* A client can tell from the status what became of its command, for any observers,
\* policy and errors (mapDispatchError, encodeCommandResult).
THEOREM ResponsesAreTrue == RouteSpec => []ResponseTellsTheRun
<1>1. RouteTypeOK /\ CommandInv => ResponseTellsTheRun
  BY DEF CommandInv, RouteInv
<1> QED
  BY <1>1, CommandInvariant, PTL

-----------------------------------------------------------------------------
(* The delays of a retry policy *)

\* Reducing a number that fits in a Duration leaves it as it is.
LEMMA WrapsNothingInRange ==
    ASSUME NEW n \in 0 .. MaxDuration
    PROVE  Wrap(n) = n
<1>. DEFINE m == n + MaxDuration + 1
            k == 2 * (MaxDuration + 1)
<1>1. m \in Nat /\ k \in Nat /\ 0 <= m /\ m < k
  BY RetryAssumption
<1>2. m % k = m
  <2>. HIDE DEF m, k
  <2>. QED  BY <1>1
<1>. QED  BY <1>2, RetryAssumption DEF Wrap

\* The comparison Linear makes instead of computing the product.
LEMMA ProductUnderQuotient ==
    ASSUME NEW s \in Nat \ {0}, NEW n \in Nat, NEW l \in Nat
    PROVE  n <= l \div s <=> n * s <= l
<1>. DEFINE q == l \div s
<1>1. q \in Nat /\ q * s <= l /\ l < (q + 1) * s
  OBVIOUS
<1>. HIDE DEF q
<1>2. ASSUME n <= q PROVE n * s <= q * s
  BY <1>1, <1>2
<1>3. ASSUME q + 1 <= n PROVE (q + 1) * s <= n * s
  BY <1>1, <1>3
<1>4. n <= q <=> n * s <= l
  BY <1>1, <1>2, <1>3
<1>. QED  BY <1>4 DEF q

\* A limit is a Duration that is not negative, and at most the one asked for.
LEMMA LimitType ==
    ASSUME NEW max \in Duration
    PROVE  Limit(max) \in 0 .. MaxDuration
BY RetryAssumption DEF Limit, Duration

\* Linear returns the product of attempt and step, cut off at the limit: the
\* multiplication it makes never leaves the range of a Duration, whatever the
\* step, the cap, the attempt and the width are (backoff.go, Linear).
THEOREM LinearIsCappedProduct ==
    ASSUME NEW s \in Duration, NEW max \in Duration, NEW tries \in Int
    PROVE  LET exact == AtLeastOne(tries) * ClampDuration(s)
           IN  Linear(s, max, tries) = IF exact <= Limit(max) THEN exact ELSE Limit(max)
<1>. DEFINE n == AtLeastOne(tries)
            l == Limit(max)
<1>1. n \in Nat /\ l \in 0 .. MaxDuration
  BY LimitType DEF AtLeastOne
<1>2. CASE s <= 0
  <2>1. ClampDuration(s) = 0
    BY <1>2 DEF ClampDuration, Duration
  <2>2. Linear(s, max, tries) = 0
    BY <1>2 DEF Linear
  <2>. QED  BY <1>1, <2>1, <2>2
<1>3. CASE s > 0
  <2>1. s \in Nat \ {0} /\ ClampDuration(s) = s /\ l \in Nat
    BY <1>1, <1>3, RetryAssumption DEF ClampDuration, Duration
  <2>2. n <= l \div s <=> n * s <= l
    <3>. HIDE DEF n, l
    <3>. QED  BY <1>1, <2>1, ProductUnderQuotient
  <2>3. Linear(s, max, tries) = IF n > l \div s THEN l ELSE Wrap(n * s)
    BY <1>3, <2>1 DEF Linear
  <2>4. n * s \in Nat
    <3>. HIDE DEF n, l
    <3>. QED  BY <1>1, <2>1
  <2>5. ASSUME n * s <= l PROVE Wrap(n * s) = n * s
    <3>1. n * s \in 0 .. MaxDuration
      <4>. HIDE DEF n, l
      <4>. QED  BY <1>1, <2>4, <2>5, RetryAssumption
    <3>. QED  BY <3>1, WrapsNothingInRange
  <2>6. l \div s \in Int
    <3>. HIDE DEF l
    <3>. QED  BY <2>1
  <2>. HIDE DEF n, l
  <2>7. Linear(s, max, tries) = IF n * s <= l THEN n * s ELSE l
    BY <1>1, <2>2, <2>3, <2>5, <2>6
  <2>. QED  BY <2>1, <2>7 DEF n, l
<1>. QED  BY <1>2, <1>3 DEF Duration

-----------------------------------------------------------------------------
(* Powers, by induction over the exponent *)

\* f has the first powers of b, up to n.
PowersTo(b, n, f) == \A i \in 0 .. n : f[i] = IF i = 0 THEN 1 ELSE b * f[i - 1]

\* The first n values of the power exist.
LEMMA PowersUpTo ==
    ASSUME NEW b \in Nat, NEW n \in Nat
    PROVE  \E f \in [0 .. n -> Nat] : PowersTo(b, n, f)
<1> DEFINE S == {m \in Nat : \E f \in [0 .. m -> Nat] : PowersTo(b, m, f)}
<1>1. 0 \in S
  <2>1. [i \in 0 .. 0 |-> 1] \in [0 .. 0 -> Nat] /\ PowersTo(b, 0, [i \in 0 .. 0 |-> 1])
    BY DEF PowersTo
  <2> QED
    BY <2>1
<1>2. ASSUME NEW m \in Nat, m \in S PROVE m + 1 \in S
  <2>1. PICK f \in [0 .. m -> Nat] : PowersTo(b, m, f)
    BY <1>2
  <2> DEFINE g == [i \in 0 .. m + 1 |-> IF i = m + 1 THEN b * f[m] ELSE f[i]]
  <2>2. f[m] \in Nat /\ b * f[m] \in Nat
    OBVIOUS
  <2>3. g \in [0 .. m + 1 -> Nat]
    BY <2>2
  <2>4. ASSUME NEW i \in 0 .. m + 1
        PROVE  g[i] = IF i = 0 THEN 1 ELSE b * g[i - 1]
    <3>1. CASE i = m + 1
      <4>1. i - 1 \in 0 .. m + 1 /\ i - 1 = m /\ i # 0 /\ m # m + 1
        BY <3>1
      <4>2. g[i] = b * f[m] /\ g[m] = f[m]
        BY <3>1, <4>1
      <4> QED
        BY <4>1, <4>2
    <3>2. CASE i # m + 1
      <4>1. i \in 0 .. m /\ g[i] = f[i]
        BY <3>2
      <4>2. i # 0 => i - 1 \in 0 .. m /\ g[i - 1] = f[i - 1]
        BY <4>1
      <4> QED
        BY <4>1, <4>2, <2>1 DEF PowersTo
    <3> QED
      BY <3>1, <3>2
  <2>5. PowersTo(b, m + 1, g)
    BY <2>4 DEF PowersTo
  <2> HIDE DEF g
  <2>6. \E h \in [0 .. m + 1 -> Nat] : PowersTo(b, m + 1, h)
    BY <2>3, <2>5
  <2> QED
    BY <2>6
<1> HIDE DEF S
<1>3. Nat \subseteq S
  BY <1>1, <1>2, SetInduction
<1> QED
  BY <1>3 DEF S

\* They do not depend on how many there are.
LEMMA PowersAgree ==
    ASSUME NEW b \in Nat, NEW n \in Nat, NEW m \in Nat, n <= m,
           NEW f, NEW g,
           PowersTo(b, n, f), PowersTo(b, m, g)
    PROVE  f[n] = g[n]
<1> DEFINE S == {k \in Nat : k <= n => f[k] = g[k]}
<1>1. 0 \in S
  <2>1. f[0] = 1 /\ g[0] = 1
    BY DEF PowersTo
  <2> QED
    BY <2>1
<1>2. ASSUME NEW k \in Nat, k \in S PROVE k + 1 \in S
  <2>1. CASE k + 1 <= n
    <3>1. k + 1 \in 0 .. n /\ k + 1 \in 0 .. m /\ k + 1 # 0 /\ (k + 1) - 1 = k /\ k <= n
      BY <2>1
    <3>2. f[k + 1] = b * f[k] /\ g[k + 1] = b * g[k]
      BY <3>1 DEF PowersTo
    <3> QED
      BY <3>1, <3>2, <1>2
  <2>2. CASE ~ (k + 1 <= n)
    BY <2>2
  <2> QED
    BY <2>1, <2>2
<1> HIDE DEF S
<1>3. Nat \subseteq S
  BY <1>1, <1>2, SetInduction
<1> QED
  BY <1>3 DEF S

\* A power is the base multiplied as often as the exponent says.
LEMMA PowerMultiplies ==
    ASSUME NEW b \in Nat
    PROVE  /\ Power(b) \in [Nat -> Nat]
           /\ Power(b)[0] = 1
           /\ \A n \in Nat : Power(b)[n + 1] = b * Power(b)[n]
<1> DEFINE upTo == [m \in Nat |-> CHOOSE f \in [0 .. m -> Nat] : PowersTo(b, m, f)]
           p == [m \in Nat |-> upTo[m][m]]
<1>1. ASSUME NEW m \in Nat PROVE upTo[m] \in [0 .. m -> Nat] /\ PowersTo(b, m, upTo[m])
  <2>1. \E f \in [0 .. m -> Nat] : PowersTo(b, m, f)
    BY PowersUpTo
  <2> QED
    BY <2>1
<1> HIDE DEF upTo
<1>2. p \in [Nat -> Nat]
  BY <1>1
<1>3. p[0] = 1
  BY <1>1 DEF PowersTo
<1>4. ASSUME NEW n \in Nat PROVE p[n + 1] = b * p[n]
  <2>1. upTo[n + 1][n + 1] = b * upTo[n + 1][n]
    <3>1. n + 1 \in 0 .. n + 1 /\ n + 1 # 0 /\ (n + 1) - 1 = n
      OBVIOUS
    <3> QED
      BY <1>1, <3>1 DEF PowersTo
  <2>2. upTo[n][n] = upTo[n + 1][n]
    <3> DEFINE f == upTo[n]
               g == upTo[n + 1]
    <3>1. /\ n + 1 \in Nat /\ n <= n + 1
          /\ PowersTo(b, n, f) /\ PowersTo(b, n + 1, g)
      BY <1>1
    <3> HIDE DEF f, g
    <3>2. f[n] = g[n]
      BY <3>1, PowersAgree
    <3> QED
      BY <3>2 DEF f, g
  <2> QED
    BY <2>1, <2>2
<1> HIDE DEF p
<1>5. p = [n \in Nat |-> IF n = 0 THEN 1 ELSE b * p[n - 1]]
  <2>1. ASSUME NEW n \in Nat PROVE p[n] = IF n = 0 THEN 1 ELSE b * p[n - 1]
    <3>1. CASE n = 0
      BY <3>1, <1>3
    <3>2. CASE n # 0
      <4>1. n - 1 \in Nat /\ (n - 1) + 1 = n
        BY <3>2
      <4> QED
        BY <4>1, <3>2, <1>4
    <3> QED
      BY <3>1, <3>2
  <2> QED
    BY <1>2, <2>1
<1> DEFINE q == Power(b)
<1>6. q = [n \in Nat |-> IF n = 0 THEN 1 ELSE b * q[n - 1]]
  BY <1>5 DEF Power
<1> HIDE DEF q
<1>7. q[0] = 1 /\ \A n \in Nat : q[n + 1] = b * q[n]
  <2>1. q[0] = 1
    BY <1>6
  <2>2. ASSUME NEW n \in Nat PROVE q[n + 1] = b * q[n]
    <3>1. n + 1 \in Nat /\ n + 1 # 0 /\ (n + 1) - 1 = n
      OBVIOUS
    <3> QED
      BY <1>6, <3>1
  <2> QED
    BY <2>1, <2>2
<1>8. q \in [Nat -> Nat]
  <2> DEFINE S == {n \in Nat : q[n] \in Nat}
  <2>1. 0 \in S
    BY <1>7
  <2>2. ASSUME NEW n \in Nat, n \in S PROVE n + 1 \in S
    BY <1>7, <2>2
  <2> HIDE DEF S
  <2>3. Nat \subseteq S
    BY <2>1, <2>2, SetInduction
  <2>4. \A n \in Nat : q[n] \in Nat
    BY <2>3 DEF S
  <2> QED
    BY <1>6, <2>4
<1> QED
  BY <1>7, <1>8 DEF q

\* Powers of at least 1 never shrink.
LEMMA PowerGrows ==
    ASSUME NEW b \in Nat \ {0}, NEW n \in Nat
    PROVE  Power(b)[n] \in Nat \ {0} /\ Power(b)[n] <= Power(b)[n + 1]
<1> DEFINE q == Power(b)
           S == {k \in Nat : q[k] >= 1}
<1>1. q \in [Nat -> Nat] /\ q[0] = 1 /\ \A k \in Nat : q[k + 1] = b * q[k]
  BY PowerMultiplies
<1> HIDE DEF q
<1>2. ASSUME NEW k \in Nat PROVE q[k] \in Nat /\ q[k + 1] \in Nat /\ q[k] <= q[k + 1]
  <2>1. ASSUME NEW x \in Nat PROVE b * x \in Nat /\ x <= b * x
    OBVIOUS
  <2>2. q[k] \in Nat /\ q[k + 1] = b * q[k]
    BY <1>1
  <2> QED
    BY <2>1, <2>2
<1>3. 0 \in S
  BY <1>1
<1>4. ASSUME NEW k \in Nat, k \in S PROVE k + 1 \in S
  BY <1>2, <1>4
<1> HIDE DEF S
<1>5. Nat \subseteq S
  BY <1>3, <1>4, SetInduction
<1>6. q[n] >= 1 /\ q[n] \in Nat
  BY <1>1, <1>5 DEF S
<1> QED
  BY <1>2, <1>6 DEF q

-----------------------------------------------------------------------------
(* The powers of two, and the float64 next to a number *)

TwoToThe(k) == Power(2)[k]

\* They are positive and double.
LEMMA PowerDoubles ==
    ASSUME NEW k \in Nat
    PROVE  TwoToThe(k) \in Nat \ {0} /\ TwoToThe(k + 1) = 2 * TwoToThe(k) /\ TwoToThe(0) = 1
BY PowerMultiplies, PowerGrows DEF TwoToThe

\* They outgrow their exponents.
LEMMA PowerOutgrows ==
    ASSUME NEW n \in Nat
    PROVE  n < TwoToThe(n)
<1> DEFINE S == {k \in Nat : k < TwoToThe(k)}
<1>1. 0 \in S
  BY PowerDoubles
<1>2. ASSUME NEW k \in Nat, k \in S PROVE k + 1 \in S
  BY <1>2, PowerDoubles
<1> HIDE DEF S
<1>3. Nat \subseteq S
  BY <1>1, <1>2, SetInduction
<1> QED
  BY <1>3 DEF S

\* A greater one is at least twice as great.
LEMMA PowersApart ==
    ASSUME NEW j \in Nat, NEW k \in Nat, TwoToThe(j) < TwoToThe(k)
    PROVE  2 * TwoToThe(j) <= TwoToThe(k)
<1> DEFINE S == {m \in Nat : \A i \in 0 .. m : TwoToThe(i) <= TwoToThe(m)}
<1>1. 0 \in S
  BY PowerDoubles
<1>2. ASSUME NEW m \in Nat, m \in S PROVE m + 1 \in S
  <2>1. ASSUME NEW i \in 0 .. m + 1 PROVE TwoToThe(i) <= TwoToThe(m + 1)
    <3>1. CASE i = m + 1
      BY <3>1, PowerDoubles
    <3>2. CASE i \in 0 .. m
      BY <1>2, <3>2, PowerDoubles
    <3> QED
      BY <3>1, <3>2
  <2> QED
    BY <2>1
<1> HIDE DEF S
<1>3. Nat \subseteq S
  BY <1>1, <1>2, SetInduction
<1>4. \A m \in Nat : \A i \in 0 .. m : TwoToThe(i) <= TwoToThe(m)
  BY <1>3 DEF S
<1>5. TwoToThe(j) \in Nat /\ TwoToThe(k) \in Nat
  BY PowerDoubles
<1>6. ~ (k <= j)
  BY <1>4, <1>5
<1>7. j + 1 \in 0 .. k
  BY <1>6
<1> QED
  BY <1>4, <1>7, PowerDoubles

\* The units of smaller numbers are not greater.
LEMMA UnitsGrow ==
    ASSUME NEW n \in Nat, NEW m \in Nat, n <= m, NEW j \in Nat, NEW k \in Nat,
           IsUnit(TwoToThe(j), n), IsUnit(TwoToThe(k), m)
    PROVE  TwoToThe(j) <= TwoToThe(k)
<1> DEFINE u == TwoToThe(j)
           v == TwoToThe(k)
<1>1. u \in Nat \ {0} /\ v \in Nat \ {0} /\ Significand \in Nat \ {0}
  BY PowerDoubles, FloatAssumption
<1>2. v < u => 2 * v <= u
  BY PowersApart
<1>3. /\ m < Significand * v
      /\ u = 1 \/ Significand * u <= 2 * n
  BY DEF IsUnit
<1> HIDE DEF u, v
<1>4. ASSUME v < u PROVE FALSE
  <2>1. 2 * v <= u /\ u # 1
    BY <1>1, <1>2, <1>4
  <2>2. Significand * (2 * v) <= Significand * u
    BY <1>1, <2>1
  <2>3. Significand * (2 * v) = 2 * (Significand * v) /\ Significand * v \in Nat
    BY <1>1
  <2>4. Significand * u \in Nat
    BY <1>1
  <2> QED
    BY <1>3, <2>1, <2>2, <2>3, <2>4
<1> QED
  BY <1>1, <1>4 DEF u, v

\* Every number has a unit.
LEMMA UnitExists ==
    ASSUME NEW n \in Nat
    PROVE  \E k \in 0 .. n : IsUnit(TwoToThe(k), n)
<1> DEFINE q == Significand
           S == {j \in Nat : n < q * TwoToThe(j) => \E k \in 0 .. j : IsUnit(TwoToThe(k), n)}
<1>1. q \in Nat \ {0}
  BY FloatAssumption
<1>2. 0 \in S
  BY PowerDoubles DEF IsUnit
<1>3. ASSUME NEW j \in Nat, j \in S PROVE j + 1 \in S
  <2> DEFINE u == TwoToThe(j)
             v == TwoToThe(j + 1)
  <2>1. u \in Nat /\ v = 2 * u
    BY PowerDoubles
  <2>2. CASE n < q * u
    BY <1>3, <2>2
  <2>3. CASE ~ (n < q * u)
    <3>1. q * v <= 2 * n
      <4> HIDE DEF q, u, v
      <4>1. q * (2 * u) = 2 * (q * u) /\ q * u \in Nat
        BY <1>1, <2>1
      <4> QED
        BY <2>1, <2>3, <4>1
    <3>2. n < q * v => IsUnit(v, n)
      BY <3>1 DEF IsUnit
    <3> QED
      BY <3>2
  <2> QED
    BY <2>2, <2>3
<1> HIDE DEF S
<1>4. Nat \subseteq S
  BY <1>2, <1>3, SetInduction
<1>5. n < q * TwoToThe(n)
  <2> DEFINE p == TwoToThe(n)
  <2>1. p \in Nat /\ n < p
    BY PowerOutgrows, PowerDoubles
  <2> HIDE DEF p, q
  <2>2. p <= q * p
    BY <1>1, <2>1
  <2> QED
    BY <1>1, <2>1, <2>2 DEF p
<1> QED
  BY <1>4, <1>5 DEF S

LEMMA UnitIs ==
    ASSUME NEW n \in Nat
    PROVE  /\ \E k \in Nat : Unit(n) = TwoToThe(k)
           /\ IsUnit(Unit(n), n) /\ Unit(n) \in Nat \ {0}
<1> DEFINE K == CHOOSE k \in 0 .. n : IsUnit(TwoToThe(k), n)
<1>1. K \in 0 .. n /\ IsUnit(TwoToThe(K), n)
  BY UnitExists
<1>2. Unit(n) = TwoToThe(K)
  BY DEF Unit, TwoToThe
<1> HIDE DEF K
<1>3. K \in Nat
  BY <1>1
<1> QED
  BY <1>1, <1>2, <1>3, PowerDoubles

\* It is the only one.
LEMMA UnitIsTheOnly ==
    ASSUME NEW n \in Nat, NEW k \in Nat, IsUnit(TwoToThe(k), n)
    PROVE  Unit(n) = TwoToThe(k)
<1>1. PICK j \in Nat : Unit(n) = TwoToThe(j)
  BY UnitIs
<1>2. IsUnit(TwoToThe(j), n)
  BY <1>1, UnitIs
<1>3. TwoToThe(j) \in Nat /\ TwoToThe(k) \in Nat
  BY PowerDoubles
<1>4. TwoToThe(j) <= TwoToThe(k) /\ TwoToThe(k) <= TwoToThe(j)
  BY <1>2, UnitsGrow
<1> QED
  BY <1>1, <1>3, <1>4

-----------------------------------------------------------------------------
(* Rounding *)

\* A quotient and its remainder.
LEMMA Quotient ==
    ASSUME NEW u \in Nat, u > 0, NEW n \in Nat
    PROVE  /\ n \div u \in Nat /\ n % u \in 0 .. u - 1
           /\ n = (n \div u) * u + (n % u)
<1>1. n \div u \in Nat /\ n % u \in 0 .. u - 1
  OBVIOUS
<1>2. n = (n \div u) * u + (n % u)
  OBVIOUS
<1> QED
  BY <1>1, <1>2, Zenon

\* They are the only ones.
LEMMA QuotientIsTheOnly ==
    ASSUME NEW u \in Nat \ {0}, NEW q \in Nat, NEW r \in 0 .. u - 1
    PROVE  (q * u + r) \div u = q /\ (q * u + r) % u = r
<1> DEFINE n == q * u + r
           p == n \div u
           t == n % u
<1>1. n \in Nat
  OBVIOUS
<1>2. p \in Nat /\ t \in 0 .. u - 1 /\ n = p * u + t
  <2> HIDE DEF n
  <2> QED
    BY <1>1, Quotient
<1> HIDE DEF p, t
<1>3. \A a, b \in Nat : a + 1 <= b => a * u + u <= b * u /\ a * u \in Nat /\ b * u \in Nat
  <2> SUFFICES ASSUME NEW a \in Nat, NEW b \in Nat, a + 1 <= b
               PROVE  a * u + u <= b * u /\ a * u \in Nat /\ b * u \in Nat
    OBVIOUS
  <2>1. (a + 1) * u <= b * u
    OBVIOUS
  <2> QED
    BY <2>1
<1>4. q * u \in Nat /\ p * u \in Nat
  BY <1>2
<1>5. p = q
  <2>1. ASSUME p + 1 <= q PROVE FALSE
    BY <1>2, <1>3, <1>4, <2>1
  <2>2. ASSUME q + 1 <= p PROVE FALSE
    BY <1>2, <1>3, <1>4, <2>2
  <2> QED
    BY <1>2, <2>1, <2>2
<1> QED
  BY <1>2, <1>4, <1>5 DEF p, t

\* What is rounded to is a multiple of the unit, and at most half of it away.
LEMMA RoundsToMultiple ==
    ASSUME NEW u \in Nat \ {0}, NEW n \in Nat
    PROVE  /\ \E q \in Nat : RoundTo(u, n) = q * u
           /\ RoundTo(u, n) \in Nat
           /\ 2 * n <= 2 * RoundTo(u, n) + u /\ 2 * RoundTo(u, n) <= 2 * n + u
<1> DEFINE q == n \div u
           r == n % u
<1>1. q \in Nat /\ r \in 0 .. u - 1 /\ n = q * u + r
  BY Quotient
<1>2. RoundTo(u, n) = IF 2 * r < u \/ (2 * r = u /\ q % 2 = 0) THEN q * u ELSE (q + 1) * u
  BY DEF RoundTo
<1> HIDE DEF q, r
<1>3. q * u \in Nat /\ (q + 1) * u = q * u + u
  BY <1>1
<1>4. CASE RoundTo(u, n) = q * u /\ 2 * r <= u
  BY <1>1, <1>3, <1>4
<1>5. CASE RoundTo(u, n) = (q + 1) * u /\ 2 * r >= u
  <2>1. q + 1 \in Nat
    BY <1>1
  <2>2. /\ RoundTo(u, n) \in Nat
        /\ 2 * n <= 2 * RoundTo(u, n) + u /\ 2 * RoundTo(u, n) <= 2 * n + u
    BY <1>1, <1>3, <1>5
  <2> QED
    BY <1>5, <2>1, <2>2
<1> QED
  BY <1>1, <1>2, <1>4, <1>5

\* A multiple is not rounded.
LEMMA MultipleStays ==
    ASSUME NEW u \in Nat \ {0}, NEW q \in Nat
    PROVE  RoundTo(u, q * u) = q * u
<1>1. (q * u + 0) \div u = q /\ (q * u + 0) % u = 0 /\ q * u + 0 = q * u
  BY QuotientIsTheOnly
<1> QED
  BY <1>1 DEF RoundTo

\* Rounding keeps the order.
LEMMA RoundingIsMonotone ==
    ASSUME NEW u \in Nat \ {0}, NEW n \in Nat, NEW m \in Nat, n <= m
    PROVE  RoundTo(u, n) <= RoundTo(u, m)
<1> DEFINE q == n \div u
           r == n % u
           p == m \div u
           t == m % u
<1>1. /\ q \in Nat /\ r \in 0 .. u - 1 /\ n = q * u + r
      /\ p \in Nat /\ t \in 0 .. u - 1 /\ m = p * u + t
  BY Quotient
<1>2. /\ RoundTo(u, n) = IF 2 * r < u \/ (2 * r = u /\ q % 2 = 0) THEN q * u ELSE (q + 1) * u
      /\ RoundTo(u, m) = IF 2 * t < u \/ (2 * t = u /\ p % 2 = 0) THEN p * u ELSE (p + 1) * u
  BY DEF RoundTo
<1> HIDE DEF q, r, p, t
<1>3. \A a, b \in Nat : a + 1 <= b => a * u + u <= b * u
  <2> SUFFICES ASSUME NEW a \in Nat, NEW b \in Nat, a + 1 <= b
               PROVE  a * u + u <= b * u
    OBVIOUS
  <2>1. (a + 1) * u <= b * u
    OBVIOUS
  <2> QED
    BY <2>1
<1>4. /\ q * u \in Nat /\ (q + 1) * u = q * u + u
      /\ p * u \in Nat /\ (p + 1) * u = p * u + u
  BY <1>1
<1>5. CASE q + 1 <= p
  <2>1. q * u + u <= p * u
    BY <1>1, <1>3, <1>5
  <2> QED
    BY <1>2, <1>4, <2>1
<1>6. CASE q = p
  BY <1>1, <1>2, <1>4, <1>6
<1>7. ~ (p + 1 <= q)
  BY <1>1, <1>3, <1>4
<1> QED
  BY <1>1, <1>5, <1>6, <1>7

\* Rounding twice the number to twice the unit gives twice the result.
LEMMA RoundingScales ==
    ASSUME NEW u \in Nat \ {0}, NEW n \in Nat
    PROVE  RoundTo(2 * u, 2 * n) = 2 * RoundTo(u, n)
<1> DEFINE q == n \div u
           r == n % u
<1>1. q \in Nat /\ r \in 0 .. u - 1 /\ n = q * u + r
  BY Quotient
<1>2. RoundTo(u, n) = IF 2 * r < u \/ (2 * r = u /\ q % 2 = 0) THEN q * u ELSE (q + 1) * u
  BY DEF RoundTo
<1> HIDE DEF q, r
<1>3. 2 * n = q * (2 * u) + 2 * r
  BY <1>1
<1>4. 2 * u \in Nat \ {0} /\ 2 * r \in 0 .. 2 * u - 1
  BY <1>1
<1>5. (2 * n) \div (2 * u) = q /\ (2 * n) % (2 * u) = 2 * r
  BY <1>1, <1>3, <1>4, QuotientIsTheOnly
<1>6. RoundTo(2 * u, 2 * n) = IF 2 * (2 * r) < 2 * u \/ (2 * (2 * r) = 2 * u /\ q % 2 = 0)
                              THEN q * (2 * u) ELSE (q + 1) * (2 * u)
  BY <1>5 DEF RoundTo
<1>7. /\ q * (2 * u) = 2 * (q * u) /\ (q + 1) * (2 * u) = 2 * ((q + 1) * u)
      /\ 2 * (2 * r) < 2 * u <=> 2 * r < u
      /\ 2 * (2 * r) = 2 * u <=> 2 * r = u
  BY <1>1
<1> QED
  BY <1>2, <1>6, <1>7

-----------------------------------------------------------------------------
(* Floating point *)

\* Half the significand is a number.
LEMMA SignificandIsEven ==
    \E h \in Nat \ {0} : Significand = 2 * h
<1> DEFINE h == Significand \div 2
<1>1. Significand \in Nat \ {0} /\ Significand % 2 = 0
  BY FloatAssumption
<1>2. h \in Nat /\ Significand = 2 * h
  BY <1>1
<1> QED
  BY <1>1, <1>2

\* A float64 is a number, and of those with the unit of n it is the one nearest to n.
LEMMA FloatIs ==
    ASSUME NEW n \in Nat
    PROVE  /\ Float(n) \in Nat
           /\ \E q \in Nat : Float(n) = q * Unit(n)
           /\ 2 * n <= 2 * Float(n) + Unit(n) /\ 2 * Float(n) <= 2 * n + Unit(n)
<1>1. Unit(n) \in Nat \ {0}
  BY UnitIs
<1> QED
  BY <1>1, RoundsToMultiple DEF Float

\* Numbers below Significand are float64s.
LEMMA FloatOfSmall ==
    ASSUME NEW n \in Nat, n < Significand
    PROVE  Float(n) = n
<1>1. IsUnit(TwoToThe(0), n) /\ TwoToThe(0) = 1
  <2>1. TwoToThe(0) = 1
    BY PowerDoubles
  <2>2. Significand * 1 = Significand
    BY FloatAssumption
  <2> QED
    BY <2>1, <2>2 DEF IsUnit
<1>2. Unit(n) = 1
  BY <1>1, UnitIsTheOnly
<1>3. RoundTo(1, n * 1) = n * 1
  BY MultipleStays
<1> QED
  BY <1>2, <1>3 DEF Float

\* A float64 has at most as many bits as the significand, and so many from
\* Significand on.
LEMMA FloatBits ==
    ASSUME NEW n \in Nat, NEW h \in Nat \ {0}, Significand = 2 * h
    PROVE  /\ Float(n) <= Significand * Unit(n)
           /\ Unit(n) # 1 => h * Unit(n) <= Float(n)
<1> DEFINE u == Unit(n)
<1>1. /\ u \in Nat \ {0} /\ n < Significand * u
      /\ u = 1 \/ Significand * u <= 2 * n
  BY UnitIs DEF IsUnit
<1> HIDE DEF u
<1>2. Significand * u \in Nat /\ h * u \in Nat /\ Significand * u = 2 * (h * u)
  BY <1>1
<1>3. /\ RoundTo(u, Significand * u) = Significand * u
      /\ RoundTo(u, h * u) = h * u
  <2>1. Significand \in Nat /\ h \in Nat
    OBVIOUS
  <2>2. \A q \in Nat : RoundTo(u, q * u) = q * u
    BY <1>1, MultipleStays
  <2> QED
    BY <2>1, <2>2, Zenon
<1>4. RoundTo(u, n) <= Significand * u
  <2>1. n <= Significand * u
    BY <1>1, <1>2
  <2> QED
    BY <1>1, <1>2, <1>3, <2>1, RoundingIsMonotone
<1>5. ASSUME u # 1 PROVE h * u <= RoundTo(u, n)
  <2>1. h * u <= n
    BY <1>1, <1>2, <1>5
  <2> QED
    BY <1>1, <1>2, <1>3, <2>1, RoundingIsMonotone
<1> QED
  BY <1>4, <1>5 DEF Float, u

\* Conversion to floating point keeps the order.
LEMMA FloatIsMonotone ==
    ASSUME NEW n \in Nat, NEW m \in Nat, n <= m
    PROVE  Float(n) <= Float(m)
<1> DEFINE u == Unit(n)
           v == Unit(m)
<1>1. PICK h \in Nat \ {0} : Significand = 2 * h
  BY SignificandIsEven
<1>2. PICK j \in Nat : u = TwoToThe(j)
  BY UnitIs
<1>3. PICK k \in Nat : v = TwoToThe(k)
  BY UnitIs
<1>4. /\ u \in Nat \ {0} /\ v \in Nat \ {0}
      /\ Float(n) = RoundTo(u, n) /\ Float(m) = RoundTo(v, m)
  BY UnitIs DEF Float
<1>5. u <= v
  <2>1. IsUnit(TwoToThe(j), n) /\ IsUnit(TwoToThe(k), m)
    BY <1>2, <1>3, UnitIs
  <2> QED
    BY <1>2, <1>3, <2>1, UnitsGrow
<1>6. u < v => 2 * u <= v
  BY <1>2, <1>3, PowersApart
<1>7. Float(n) <= Significand * u /\ (v # 1 => h * v <= Float(m))
  BY <1>1, FloatBits
<1>8. Float(n) \in Nat /\ Float(m) \in Nat
  BY FloatIs
<1> HIDE DEF u, v
<1>9. CASE u = v
  BY <1>4, <1>9, RoundingIsMonotone
<1>10. CASE u < v
  <2>1. 2 * u <= v /\ v # 1
    BY <1>4, <1>6, <1>10
  <2>2. h * (2 * u) <= h * v /\ h * (2 * u) = Significand * u
    BY <1>1, <1>4, <2>1
  <2>3. h * v \in Nat /\ Significand * u \in Nat
    BY <1>1, <1>4
  <2> QED
    BY <1>7, <1>8, <2>1, <2>2, <2>3
<1> QED
  BY <1>4, <1>5, <1>9, <1>10

\* Doubling loses nothing.
LEMMA FloatDoubles ==
    ASSUME NEW n \in Nat
    PROVE  Float(2 * n) = 2 * Float(n)
<1> DEFINE u == Unit(n)
<1>1. PICK k \in Nat : u = TwoToThe(k)
  BY UnitIs
<1>2. u \in Nat \ {0} /\ n < Significand * u /\ (u = 1 \/ Significand * u <= 2 * n)
  BY UnitIs DEF IsUnit
<1>3. Float(n) = RoundTo(u, n)
  BY DEF Float
<1>4. Significand \in Nat \ {0}
  BY FloatAssumption
<1> HIDE DEF u
<1>5. CASE 2 * n < Significand
  BY <1>4, <1>5, FloatOfSmall
<1>6. CASE ~ (2 * n < Significand)
  <2>1. Significand * u \in Nat /\ Significand * (2 * u) = 2 * (Significand * u)
    BY <1>2, <1>4
  <2>2. 2 * n < Significand * (2 * u) /\ Significand * (2 * u) <= 2 * (2 * n)
    BY <1>2, <1>4, <1>6, <2>1
  <2>3. 2 * u = TwoToThe(k + 1) /\ k + 1 \in Nat
    BY <1>1, PowerDoubles
  <2>4. IsUnit(TwoToThe(k + 1), 2 * n)
    BY <2>2, <2>3 DEF IsUnit
  <2>5. Unit(2 * n) = 2 * u
    BY <2>3, <2>4, UnitIsTheOnly
  <2> QED
    BY <1>2, <1>3, <2>5, RoundingScales DEF Float
<1> QED
  BY <1>5, <1>6

\* A float64 is not rounded again.
LEMMA FloatStays ==
    ASSUME NEW n \in Nat
    PROVE  Float(Float(n)) = Float(n)
<1> DEFINE u == Unit(n)
<1>1. PICK h \in Nat \ {0} : Significand = 2 * h
  BY SignificandIsEven
<1>2. PICK k \in Nat : u = TwoToThe(k)
  BY UnitIs
<1>3. u \in Nat \ {0}
  BY UnitIs
<1>4. PICK q \in Nat : Float(n) = q * u
  BY FloatIs
<1>5. Float(n) <= Significand * u /\ (u # 1 => h * u <= Float(n))
  BY <1>1, FloatBits
<1> HIDE DEF u
<1>6. /\ q * u \in Nat /\ Significand * u \in Nat /\ h * u \in Nat
      /\ Significand * u = 2 * (h * u)
  BY <1>1, <1>3
<1>7. CASE Float(n) < Significand * u
  <2>1. IsUnit(TwoToThe(k), Float(n))
    BY <1>2, <1>4, <1>5, <1>6, <1>7 DEF IsUnit
  <2>2. Unit(q * u) = u
    BY <1>2, <1>4, <1>6, <2>1, UnitIsTheOnly
  <2> QED
    BY <1>3, <1>4, <2>2, MultipleStays DEF Float
<1>8. CASE Float(n) = Significand * u
  <2> DEFINE v == 2 * u
  <2>1. v = TwoToThe(k + 1) /\ k + 1 \in Nat /\ v \in Nat \ {0}
    BY <1>2, <1>3, PowerDoubles
  <2>2. Significand * u = h * v /\ h * v < Significand * v /\ Significand * v = 2 * (h * v)
    <3>1. h * v = Significand * u /\ Significand * v = 2 * (h * v)
      BY <1>1, <1>3
    <3>2. h * u # 0
      BY <1>1, <1>3
    <3> QED
      BY <1>6, <3>1, <3>2
  <2> HIDE DEF v
  <2>3. h * v \in Nat
    BY <1>6, <2>2
  <2>4. IsUnit(TwoToThe(k + 1), h * v)
    BY <2>1, <2>2, <2>3 DEF IsUnit
  <2>5. Unit(h * v) = v
    BY <2>1, <2>3, <2>4, UnitIsTheOnly
  <2>6. Float(h * v) = h * v
    BY <2>1, <2>5, MultipleStays DEF Float
  <2> QED
    BY <1>8, <2>2, <2>6
<1> QED
  BY <1>4, <1>5, <1>6, <1>7, <1>8

\* From Significand on, conversion does not lead below it.
LEMMA FloatOfLarge ==
    ASSUME NEW n \in Nat, ~ (n < Significand)
    PROVE  Significand <= Float(n)
<1> DEFINE u == Unit(n)
<1>1. PICK h \in Nat \ {0} : Significand = 2 * h
  BY SignificandIsEven
<1>2. u \in Nat \ {0} /\ n < Significand * u
  BY UnitIs DEF IsUnit
<1>3. u # 1 => h * u <= Float(n)
  BY <1>1, FloatBits
<1>4. Float(n) \in Nat
  BY FloatIs
<1> HIDE DEF u
<1>5. u # 1
  BY <1>1, <1>2
<1>6. h * 2 <= h * u
  BY <1>1, <1>2, <1>5
<1>7. h * u \in Nat
  BY <1>1, <1>2
<1> QED
  BY <1>1, <1>3, <1>4, <1>5, <1>6, <1>7

\* Multiplication by a power of four loses nothing.
LEMMA FloatScales ==
    ASSUME NEW k \in Nat, NEW n \in Nat
    PROVE  Float(Power(4)[k] * n) = Power(4)[k] * Float(n)
<1> DEFINE p == Power(4)
           S == {i \in Nat : Float(p[i] * n) = p[i] * Float(n)}
<1>1. p \in [Nat -> Nat] /\ p[0] = 1 /\ \A i \in Nat : p[i + 1] = 4 * p[i]
  BY PowerMultiplies
<1> HIDE DEF p
<1>2. Float(n) \in Nat
  BY FloatIs
<1>3. 0 \in S
  BY <1>1, <1>2
<1>4. ASSUME NEW i \in Nat, i \in S PROVE i + 1 \in S
  <2> DEFINE x == p[i] * n
  <2>1. p[i] \in Nat /\ p[i + 1] = 4 * p[i]
    BY <1>1
  <2>2. x \in Nat /\ p[i + 1] * n = 2 * (2 * x)
    BY <2>1
  <2>3. Float(x) \in Nat /\ Float(x) = p[i] * Float(n)
    BY <1>4, <2>2, FloatIs
  <2>4. p[i + 1] * Float(n) = 4 * Float(x)
    BY <1>2, <2>1, <2>3
  <2> HIDE DEF x
  <2>5. Float(2 * (2 * x)) = 2 * Float(2 * x) /\ Float(2 * x) = 2 * Float(x)
    BY <2>2, FloatDoubles
  <2>6. Float(2 * (2 * x)) = 4 * Float(x)
    BY <2>3, <2>5
  <2> QED
    BY <2>2, <2>4, <2>6
<1> HIDE DEF S
<1>5. Nat \subseteq S
  BY <1>3, <1>4, SetInduction
<1> QED
  BY <1>5 DEF S, p

-----------------------------------------------------------------------------
(* At most, but for some roundings *)

\* What the powers of a rounding are.
LEMMA RoundingPowers ==
    ASSUME NEW n \in Nat
    PROVE  LET low == Power(Significand - 1)
               high == Power(Significand)
           IN  /\ low[n] \in Nat /\ low[n + 1] = (Significand - 1) * low[n] /\ low[0] = 1
               /\ high[n] \in Nat /\ high[n + 1] = Significand * high[n] /\ high[0] = 1
<1>1. Significand \in Nat /\ Significand - 1 \in Nat
  BY FloatAssumption
<1> QED
  BY <1>1, PowerMultiplies

\* One rounding.
LEMMA OneRounding ==
    ASSUME NEW x \in Nat, NEW y \in Nat
    PROVE  AtMostRounded(1, x, y) <=> (Significand - 1) * x <= Significand * y
<1>1. Significand \in Nat /\ Significand - 1 \in Nat
  BY FloatAssumption
<1>2. Power(Significand - 1)[0 + 1] = Significand - 1 /\ Power(Significand)[0 + 1] = Significand
  BY <1>1, RoundingPowers
<1> QED
  BY <1>2 DEF AtMostRounded

\* A number and its float64 are one rounding apart.
LEMMA FloatIsRounding ==
    ASSUME NEW n \in Nat
    PROVE  AtMostRounded(1, n, Float(n)) /\ AtMostRounded(1, Float(n), n)
<1> DEFINE u == Unit(n)
           f == Float(n)
<1>1. u \in Nat \ {0} /\ (u = 1 \/ Significand * u <= 2 * n)
  BY UnitIs DEF IsUnit
<1>2. f \in Nat /\ 2 * n <= 2 * f + u /\ 2 * f <= 2 * n + u
  BY FloatIs
<1>3. Significand \in Nat \ {0}
  BY FloatAssumption
<1> HIDE DEF u, f
<1>4. CASE u = 1
  <2>1. f = n
    BY <1>2, <1>4
  <2>2. (Significand - 1) * n <= Significand * n
    BY <1>3
  <2> QED
    BY <1>2, <2>1, <2>2, OneRounding DEF f
<1>5. CASE Significand * u <= 2 * n
  <2>1. /\ Significand * (2 * n) <= Significand * (2 * f + u)
        /\ Significand * (2 * f) <= Significand * (2 * n + u)
    BY <1>1, <1>2, <1>3
  <2>2. /\ Significand * (2 * n) = 2 * (Significand * n)
        /\ Significand * (2 * f) = 2 * (Significand * f)
        /\ Significand * (2 * f + u) = 2 * (Significand * f) + Significand * u
        /\ Significand * (2 * n + u) = 2 * (Significand * n) + Significand * u
    BY <1>1, <1>2, <1>3
  <2>3. Significand * n \in Nat /\ Significand * f \in Nat /\ Significand * u \in Nat
    BY <1>1, <1>2, <1>3
  <2>4. /\ Significand * n <= Significand * f + n
        /\ Significand * f <= Significand * n + n
    BY <1>5, <2>1, <2>2, <2>3
  <2>5. (Significand - 1) * n = Significand * n - n /\ (Significand - 1) * f = Significand * f - f
    BY <1>2, <1>3
  <2>6. CASE f <= n
    BY <1>2, <1>3, <2>3, <2>4, <2>5, <2>6, OneRounding DEF f
  <2>7. CASE n <= f
    BY <1>2, <1>3, <2>3, <2>4, <2>5, <2>7, OneRounding DEF f
  <2> QED
    BY <1>2, <2>6, <2>7
<1> QED
  BY <1>1, <1>4, <1>5

\* Roundings add up.
LEMMA RoundingsAdd ==
    ASSUME NEW n \in Nat, NEW x \in Nat, NEW y \in Nat, NEW z \in Nat,
           AtMostRounded(n, x, y), AtMostRounded(1, y, z)
    PROVE  AtMostRounded(n + 1, x, z)
<1> DEFINE a == Power(Significand - 1)[n]
           b == Power(Significand)[n]
           q == Significand
<1>1. q \in Nat /\ q - 1 \in Nat
  BY FloatAssumption
<1>2. /\ a \in Nat /\ Power(q - 1)[n + 1] = (q - 1) * a
      /\ b \in Nat /\ Power(q)[n + 1] = q * b
  BY RoundingPowers
<1>3. a * x <= b * y /\ (q - 1) * y <= q * z
  BY OneRounding DEF AtMostRounded
<1> DEFINE r == q - 1
<1> HIDE DEF a, b, q, r
<1>4. r \in Nat
  BY <1>1 DEF r
<1>5. a * x \in Nat /\ b * y \in Nat /\ r * y \in Nat /\ q * z \in Nat
  BY <1>1, <1>2, <1>4
<1>6. r * (a * x) <= r * (b * y) /\ b * (r * y) <= b * (q * z)
  <2>1. \A c, d, e \in Nat : d <= e => c * d <= c * e
    OBVIOUS
  <2>2. r * y <= q * z
    BY <1>3 DEF r
  <2> QED
    BY <1>2, <1>3, <1>4, <1>5, <2>1, <2>2
<1>7. /\ (r * a) * x = r * (a * x) /\ r * (b * y) = b * (r * y)
      /\ (q * b) * z = b * (q * z)
  BY <1>1, <1>2, <1>4
<1>8. (r * a) * x <= (q * b) * z
  <2>1. \A c, d, e \in Int : c <= d /\ d <= e => c <= e
    OBVIOUS
  <2>2. r * (a * x) \in Int /\ r * (b * y) \in Int /\ b * (q * z) \in Int
    BY <1>1, <1>2, <1>4, <1>5
  <2>3. r * (a * x) <= b * (q * z)
    BY <1>6, <1>7, <2>1, <2>2
  <2> QED
    BY <1>7, <2>3
<1> QED
  BY <1>2, <1>8 DEF AtMostRounded, r, q

\* A common factor does not matter.
LEMMA RoundingsScale ==
    ASSUME NEW n \in Nat, NEW x \in Nat, NEW y \in Nat, NEW c \in Nat, AtMostRounded(n, x, y)
    PROVE  AtMostRounded(n, c * x, c * y)
<1> DEFINE a == Power(Significand - 1)[n]
           b == Power(Significand)[n]
<1>1. a \in Nat /\ b \in Nat /\ a * x <= b * y
  BY RoundingPowers DEF AtMostRounded
<1> HIDE DEF a, b
<1>2. a * x \in Nat /\ b * y \in Nat
  BY <1>1
<1>3. c * (a * x) <= c * (b * y)
  BY <1>1, <1>2
<1>4. c * (a * x) = a * (c * x) /\ c * (b * y) = b * (c * y)
  BY <1>1
<1> QED
  BY <1>3, <1>4 DEF AtMostRounded, a, b

\* Less is at most, and at least is more.
LEMMA RoundingsBound ==
    ASSUME NEW n \in Nat, NEW x \in Nat, NEW y \in Nat, NEW v \in Nat, NEW w \in Nat,
           AtMostRounded(n, x, y), v <= x, y <= w
    PROVE  AtMostRounded(n, v, w)
<1> DEFINE a == Power(Significand - 1)[n]
           b == Power(Significand)[n]
<1>1. a \in Nat /\ b \in Nat /\ a * x <= b * y
  BY RoundingPowers DEF AtMostRounded
<1> HIDE DEF a, b
<1>2. a * v <= a * x /\ b * y <= b * w
  BY <1>1
<1>3. a * v \in Nat /\ a * x \in Nat /\ b * y \in Nat /\ b * w \in Nat
  BY <1>1
<1> QED
  BY <1>1, <1>2, <1>3 DEF AtMostRounded, a, b

\* What is at most a number is so up to any roundings.
LEMMA AtMostIsRounded ==
    ASSUME NEW n \in Nat, NEW x \in Nat, NEW y \in Nat, x <= y
    PROVE  AtMostRounded(n, x, y)
<1> DEFINE S == {k \in Nat : AtMostRounded(k, x, x)}
<1>1. 0 \in S
  <2>1. Power(Significand - 1)[0] = 1 /\ Power(Significand)[0] = 1
    BY RoundingPowers
  <2> QED
    BY <2>1 DEF AtMostRounded
<1>2. AtMostRounded(1, x, x)
  <2>1. (Significand - 1) * x <= Significand * x
    BY FloatAssumption
  <2> QED
    BY <2>1, OneRounding
<1>3. ASSUME NEW k \in Nat, k \in S PROVE k + 1 \in S
  BY <1>2, <1>3, RoundingsAdd
<1> HIDE DEF S
<1>4. Nat \subseteq S
  BY <1>1, <1>3, SetInduction
<1>5. AtMostRounded(n, x, x)
  BY <1>4 DEF S
<1> QED
  BY <1>5, RoundingsBound

-----------------------------------------------------------------------------
(* Exponential delays *)

\* What is compared with the rounded limit and converted back stays within the
\* limit, which rounding may have carried beyond (durationFromBackoffFloat).
LEMMA ConversionCutsOff ==
    ASSUME NEW x \in Nat, NEW k \in Nat, NEW l \in Nat
    PROVE  LET whole == Float(x) \div Power(4)[k]
           IN  /\ whole \in Nat /\ FromFloat(whole, l) \in 0 .. l
               /\ FromFloat(whole, l) = IF whole < Float(l) THEN whole ELSE l
               /\ whole * Power(4)[k] <= Float(x)
               /\ Float(x) <= whole * Power(4)[k] + Power(4)[k] - 1
<1> DEFINE whole == Float(x) \div Power(4)[k]
           p == Power(4)[k]
           f == Float(x)
           r == f % p
<1>1. p \in Nat \ {0} /\ f \in Nat /\ Float(l) \in Nat
  <2>1. 4 \in Nat \ {0}
    OBVIOUS
  <2> QED
    BY <2>1, PowerGrows, FloatIs
<1>2. whole \in Nat /\ r \in 0 .. p - 1 /\ f = whole * p + r
  <2> HIDE DEF f, p
  <2>1. p \in Nat /\ p > 0 /\ f \in Nat
    BY <1>1
  <2>2. f \div p \in Nat /\ f % p \in 0 .. p - 1 /\ f = (f \div p) * p + (f % p)
    BY <2>1, Quotient, Zenon
  <2>3. whole = f \div p
    BY DEF f, p
  <2> QED
    BY <2>2, <2>3, Zenon DEF r
<1>3. Float(f) = f
  BY FloatStays
<1>4. Float(p * l) = p * Float(l)
  BY FloatScales
<1> HIDE DEF whole, p, f, r
<1>5. p * l \in Nat /\ whole * p \in Nat /\ p * Float(l) \in Nat
  BY <1>1, <1>2
<1>6. ASSUME whole < Float(l) PROVE whole <= l
  <2>1. SUFFICES ASSUME l + 1 <= whole PROVE FALSE
    BY <1>2
  <2>2. (l + 1) * p <= whole * p /\ (l + 1) * p = p * l + p
    BY <1>1, <1>2, <2>1
  <2>3. p * l <= f
    BY <1>1, <1>2, <1>5, <2>2
  <2>4. p * Float(l) <= f
    BY <1>1, <1>3, <1>4, <1>5, <2>3, FloatIsMonotone
  <2>5. (whole + 1) * p <= Float(l) * p /\ (whole + 1) * p = whole * p + p
    BY <1>1, <1>2, <1>6
  <2>6. Float(l) * p = p * Float(l)
    BY <1>1
  <2> QED
    BY <1>1, <1>2, <1>5, <2>4, <2>5, <2>6
<1>7. FromFloat(whole, l) = IF whole < Float(l) THEN whole ELSE l
  BY <1>1, <1>2 DEF FromFloat
<1>8. whole * p <= f /\ f <= whole * p + p - 1
  BY <1>1, <1>2, <1>5
<1> QED
  BY <1>2, <1>6, <1>7, <1>8 DEF whole, p, f

\* A multiplier is at least 1, and so are its powers.
LEMMA MultiplierPowers ==
    ASSUME NEW factor \in Int, NEW k \in Nat
    PROVE  /\ AtLeastWhole(factor) \in Nat \ {0} /\ 4 <= AtLeastWhole(factor)
           /\ Power(AtLeastWhole(factor))[k] \in Nat \ {0}
           /\ Power(AtLeastWhole(factor))[k + 1] =
                 AtLeastWhole(factor) * Power(AtLeastWhole(factor))[k]
<1>1. AtLeastWhole(factor) \in Nat \ {0} /\ 4 <= AtLeastWhole(factor)
  BY DEF AtLeastWhole
<1> QED
  BY <1>1, PowerMultiplies, PowerGrows

\* The powers of a whole multiplier are whole.
LEMMA WholePowers ==
    ASSUME NEW w \in Nat, NEW k \in Nat
    PROVE  Power(4 * w)[k] = Power(4)[k] * Power(w)[k]
<1> DEFINE m == Power(4 * w)
           p == Power(4)
           v == Power(w)
           S == {i \in Nat : m[i] = p[i] * v[i]}
<1>1. /\ m \in [Nat -> Nat] /\ m[0] = 1 /\ \A i \in Nat : m[i + 1] = (4 * w) * m[i]
      /\ p \in [Nat -> Nat] /\ p[0] = 1 /\ \A i \in Nat : p[i + 1] = 4 * p[i]
      /\ v \in [Nat -> Nat] /\ v[0] = 1 /\ \A i \in Nat : v[i + 1] = w * v[i]
  <2>1. 4 * w \in Nat
    OBVIOUS
  <2> QED
    BY <2>1, PowerMultiplies
<1> HIDE DEF m, p, v
<1>2. 0 \in S
  BY <1>1
<1>3. ASSUME NEW i \in Nat, i \in S PROVE i + 1 \in S
  <2>1. p[i] \in Nat /\ v[i] \in Nat /\ m[i] = p[i] * v[i]
    BY <1>1, <1>3
  <2>2. (4 * w) * (p[i] * v[i]) = (4 * p[i]) * (w * v[i])
    BY <2>1
  <2> QED
    BY <1>1, <2>1, <2>2
<1> HIDE DEF S
<1>4. Nat \subseteq S
  BY <1>2, <1>3, SetInduction
<1> QED
  BY <1>4 DEF S, m, p, v

\* What rounding does to the product of two numbers that were rounded.
LEMMA ProductOfRounded ==
    ASSUME NEW s \in Nat, NEW p \in Nat, NEW x, x = Float(s) * Float(p)
    PROVE  /\ x \in Nat /\ Float(x) \in Nat
           /\ AtMostRounded(3, s * p, Float(x)) /\ AtMostRounded(3, Float(x), s * p)
           /\ \A y \in Nat : AtMostRounded(1, y, Float(x)) => AtMostRounded(4, y, s * p)
<1> DEFINE a == Float(s)
           b == Float(p)
           e == s * p
           f == Float(x)
<1>1. a \in Nat /\ b \in Nat
  BY FloatIs
<1>2. /\ AtMostRounded(1, s, a) /\ AtMostRounded(1, a, s)
      /\ AtMostRounded(1, p, b) /\ AtMostRounded(1, b, p)
  BY FloatIsRounding
<1> DEFINE c == s * b
<1>3. x \in Nat /\ e \in Nat /\ c \in Nat
  <2> HIDE DEF a, b
  <2> QED
    BY <1>1 DEF a, b
<1>4. f \in Nat /\ AtMostRounded(1, x, f) /\ AtMostRounded(1, f, x)
  BY <1>3, FloatIs, FloatIsRounding
<1>5. AtMostRounded(1, e, c) /\ AtMostRounded(1, c, e)
  BY <1>1, <1>2, RoundingsScale
<1>6. AtMostRounded(1, c, x) /\ AtMostRounded(1, x, c)
  <2>1. AtMostRounded(1, b * s, b * a) /\ AtMostRounded(1, b * a, b * s)
    BY <1>1, <1>2, RoundingsScale
  <2>2. b * s = s * b /\ b * a = a * b
    <3> HIDE DEF a, b
    <3> QED
      BY <1>1
  <2> QED
    BY <2>1, <2>2
<1> HIDE DEF c, e, f
<1>7. \A n \in Nat, u, v, w \in Nat :
         AtMostRounded(n, u, v) /\ AtMostRounded(1, v, w) => AtMostRounded(n + 1, u, w)
  BY RoundingsAdd
<1>8. 1 + 1 = 2 /\ 2 + 1 = 3 /\ 3 + 1 = 4
  OBVIOUS
<1>9. AtMostRounded(3, e, f)
  <2>1. AtMostRounded(2, e, x)
    BY <1>3, <1>5, <1>6, <1>7, <1>8
  <2> QED
    BY <1>3, <1>4, <1>7, <1>8, <2>1
<1>10. AtMostRounded(3, f, e)
  <2>1. AtMostRounded(2, f, c)
    BY <1>3, <1>4, <1>6, <1>7, <1>8
  <2> QED
    BY <1>3, <1>4, <1>5, <1>7, <1>8, <2>1
<1>11. ASSUME NEW y \in Nat, AtMostRounded(1, y, f) PROVE AtMostRounded(4, y, e)
  <2>1. AtMostRounded(2, y, x)
    BY <1>3, <1>4, <1>7, <1>8, <1>11
  <2>2. AtMostRounded(3, y, c)
    BY <1>3, <1>6, <1>7, <1>8, <2>1
  <2> QED
    BY <1>3, <1>5, <1>7, <1>8, <2>2
<1> QED
  BY <1>3, <1>4, <1>9, <1>10, <1>11 DEF e, f

\* What Exponential computes, when there is an initial delay.
LEMMA ExponentialIs ==
    ASSUME NEW s \in Duration, s > 0, NEW max \in Duration, NEW factor \in Int,
           NEW tries \in Int, NEW k, k = AtLeastOne(tries) - 1,
           NEW p, p = Power(AtLeastWhole(factor))[k]
    PROVE  /\ s \in Nat \ {0} /\ k \in Nat /\ p \in Nat \ {0} /\ Limit(max) \in Nat
           /\ Float(s) * Float(p) \in Nat
           /\ Exponential(s, factor, max, tries) =
                 FromFloat(Float(Float(s) * Float(p)) \div Power(4)[k], Limit(max))
<1>1. s \in Nat \ {0} /\ k \in Nat
  BY RetryAssumption DEF Duration, AtLeastOne
<1>2. p \in Nat \ {0}
  BY <1>1, MultiplierPowers
<1>3. Limit(max) \in Nat
  BY LimitType, RetryAssumption
<1>4. Float(s) * Float(p) \in Nat
  <2>1. Float(s) \in Nat /\ Float(p) \in Nat
    BY <1>1, <1>2, FloatIs
  <2> QED
    BY <2>1
<1>5. ~ (s <= 0)
  BY <1>1
<1> QED
  BY <1>1, <1>2, <1>3, <1>4, <1>5 DEF Exponential

\* Exponential with a whole multiplier is exact while its product is a float64.
LEMMA ExponentialIsExact ==
    ASSUME NEW s \in Duration, s > 0, NEW max \in Duration, NEW w \in Nat \ {0},
           NEW tries \in Int, NEW k, k = AtLeastOne(tries) - 1,
           s * Power(w)[k] < Significand
    PROVE  Exponential(s, 4 * w, max, tries) = AtMost(s * Power(w)[k], Limit(max))
<1> DEFINE v == Power(w)[k]
           d == Power(4)[k]
           l == Limit(max)
           x == Float(s) * Float(d * v)
           e == s * v
<1>1. 4 * w \in Int /\ AtLeastWhole(4 * w) = 4 * w
  BY DEF AtLeastWhole
<1>2. Power(4 * w)[k] = d * v /\ k \in Nat /\ s \in Nat \ {0} /\ l \in Nat
  BY <1>1, ExponentialIs, WholePowers
<1>3. Exponential(s, 4 * w, max, tries) = FromFloat(Float(x) \div d, l)
  BY <1>1, <1>2, ExponentialIs
<1>4. v \in Nat \ {0} /\ d \in Nat \ {0}
  <2>1. 4 \in Nat \ {0}
    OBVIOUS
  <2> QED
    BY <1>2, <2>1, PowerGrows
<1> HIDE DEF v, d, l
<1>5. e \in Nat /\ e < Significand /\ s <= e /\ v <= e
  BY <1>2, <1>4 DEF v
<1>6. Float(s) = s /\ Float(v) = v /\ Float(e) = e
  BY <1>2, <1>4, <1>5, FloatOfSmall, FloatAssumption
<1>7. Float(d * v) = d * v /\ Float(d * e) = d * e
  BY <1>2, <1>4, <1>5, <1>6, FloatScales DEF d
<1>8. x = d * e
  BY <1>2, <1>4, <1>6, <1>7
<1> HIDE DEF e, x
<1>9. Float(x) \div d = e
  <2>1. (e * d + 0) \div d = e /\ e * d + 0 = d * e
    BY <1>4, <1>5, QuotientIsTheOnly
  <2> QED
    BY <1>7, <1>8, <2>1
<1>10. FromFloat(e, l) = IF e < Float(l) THEN e ELSE l
  <2>1. Float(l) \in Nat
    BY <1>2, FloatIs
  <2> QED
    BY <1>5, <2>1 DEF FromFloat
<1>11. e < Float(l) <=> e < l
  <2>1. CASE l < Significand
    BY <1>2, <2>1, FloatOfSmall
  <2>2. CASE ~ (l < Significand)
    <3>1. Significand <= Float(l) /\ Float(l) \in Nat /\ Significand \in Nat
      BY <1>2, <2>2, FloatOfLarge, FloatIs, FloatAssumption
    <3> QED
      BY <1>2, <1>5, <2>2, <3>1
  <2> QED
    BY <2>1, <2>2
<1> QED
  BY <1>3, <1>9, <1>10, <1>11 DEF AtMost, e, v, l

\* Exponential returns the product of the initial delay and the power of the
\* multiplier, cut off at the limit, up to three roundings on the way and that of the
\* limit it compares with: it never exceeds the limit, though the float64 of the limit
\* may, and it is exact while the product with a whole multiplier is a float64
\* (backoff.go, Exponential, durationFromBackoffFloat).
THEOREM ExponentialIsRoundedPower ==
    ASSUME NEW s \in Duration, NEW max \in Duration, NEW factor \in Int,
           NEW tries \in Nat \ {0}
    PROVE  IsExponential(ClampDuration(s), AtLeastWhole(factor), Limit(max), tries,
                         Exponential(s, factor, max, tries))
<1> DEFINE c == ClampDuration(s)
           m == AtLeastWhole(factor)
           l == Limit(max)
           k == tries - 1
           p == Power(m)[k]
           d == Power(4)[k]
           e == c * p
           result == Exponential(s, factor, max, tries)
<1>1. tries \in Int /\ AtLeastOne(tries) - 1 = k /\ k \in Nat
  BY DEF AtLeastOne
<1>2. m \in Nat \ {0} /\ 4 <= m /\ p \in Nat \ {0}
  BY <1>1, MultiplierPowers
<1>3. d \in Nat \ {0} /\ l \in Nat /\ c \in Nat
  <2>1. 4 \in Nat \ {0}
    OBVIOUS
  <2> QED
    BY <1>1, <2>1, PowerGrows, LimitType, RetryAssumption DEF ClampDuration, Duration
<1>4. e \in Nat /\ l * d \in Nat
  <2> HIDE DEF c, p, l, d
  <2> QED
    BY <1>2, <1>3
<1>5. SUFFICES /\ result \in 0 .. l
               /\ AtMostRounded(3, AtMost(e, l * d), result * d + d - 1)
               /\ AtMostRounded(4, result * d, e)
               /\ m % 4 = 0 /\ e \div d < Significand => result = AtMost(e \div d, l)
  BY DEF IsExponential
<1>6. CASE s <= 0
  <2>1. c = 0 /\ result = 0
    BY <1>6 DEF ClampDuration, Exponential, Duration
  <2> HIDE DEF c, m, l, k, p, d, result
  <2>2. e = 0
    BY <1>2, <2>1
  <2> HIDE DEF e
  <2>3. AtMost(e, l * d) = 0 /\ result * d = 0 /\ result * d + d - 1 \in Nat
    BY <1>3, <1>4, <2>1, <2>2 DEF AtMost
  <2>4. AtMostRounded(3, 0, result * d + d - 1) /\ AtMostRounded(4, 0, 0)
    BY <2>3, AtMostIsRounded
  <2>5. e \div d = 0
    <3>1. (0 * d + 0) \div d = 0 /\ 0 * d + 0 = 0
      BY <1>3, QuotientIsTheOnly
    <3> QED
      BY <2>2, <3>1
  <2> QED
    BY <1>3, <2>1, <2>2, <2>3, <2>4, <2>5 DEF AtMost
<1>7. CASE s > 0
  <2> DEFINE x == Float(c) * Float(p)
             f == Float(x)
             whole == f \div d
  <2>1. c = s /\ result = FromFloat(whole, l)
    <3>1. c = s
      BY <1>7 DEF ClampDuration, Duration
    <3> QED
      BY <1>1, <1>7, <3>1, ExponentialIs
  <2>2. /\ x \in Nat /\ f \in Nat
        /\ AtMostRounded(3, e, f) /\ AtMostRounded(3, f, e)
        /\ \A y \in Nat : AtMostRounded(1, y, f) => AtMostRounded(4, y, e)
    BY <1>2, <1>3, ProductOfRounded
  <2>3. /\ whole \in Nat /\ FromFloat(whole, l) \in 0 .. l
        /\ FromFloat(whole, l) = IF whole < Float(l) THEN whole ELSE l
        /\ whole * d <= f /\ f <= whole * d + d - 1
    <3> HIDE DEF x, l, k, result
    <3>1. x \in Nat /\ k \in Nat /\ l \in Nat
      BY <1>1, <1>3, <2>2
    <3> QED
      BY <3>1, ConversionCutsOff, Zenon
  <2>4. m % 4 = 0 /\ e \div d < Significand => result = AtMost(e \div d, l)
    <3> SUFFICES ASSUME m % 4 = 0, e \div d < Significand
                 PROVE  result = AtMost(e \div d, l)
      OBVIOUS
    <3> DEFINE w == m \div 4
    <3>1. w \in Nat \ {0} /\ m = 4 * w
      <4> HIDE DEF m
      <4> QED
        BY <1>2
    <3> HIDE DEF w
    <3>2. p = d * Power(w)[k]
      <4>1. Power(4 * w)[k] = d * Power(w)[k]
        BY <1>1, <3>1, WholePowers
      <4> QED
        BY <3>1, <4>1
    <3> DEFINE v == Power(w)[k]
    <3>3. v \in Nat
      BY <1>1, <3>1, PowerGrows
    <3>4. e \div d = s * v
      <4> HIDE DEF c, m, d, p, v
      <4>1. s \in Nat
        BY <1>3, <2>1
      <4>2. s * v \in Nat /\ s * (d * v) = (s * v) * d + 0
        BY <1>3, <3>3, <4>1
      <4>3. e = s * (d * v)
        BY <2>1, <3>2 DEF v
      <4> QED
        BY <1>3, <4>2, <4>3, QuotientIsTheOnly
    <3>5. Exponential(s, 4 * w, max, tries) = AtMost(s * v, l)
      BY <1>1, <1>7, <3>1, <3>4, ExponentialIsExact
    <3>6. Exponential(s, 4 * w, max, tries) = result
      <4>1. AtLeastWhole(4 * w) = 4 * w
        BY <3>1 DEF AtLeastWhole
      <4> QED
        BY <3>1, <4>1 DEF Exponential
    <3> QED
      BY <3>4, <3>5, <3>6
  <2> HIDE DEF e, d, f, x, whole, l, result, m, c, p, k
  <2>5. /\ whole * d \in Nat /\ whole * d + d - 1 \in Nat
        /\ l * d + d - 1 \in Nat /\ l * d <= l * d + d - 1
    BY <1>3, <1>4, <2>3
  <2>6. AtMost(e, l * d) \in Nat /\ AtMost(e, l * d) <= e /\ AtMost(e, l * d) <= l * d
    BY <1>4 DEF AtMost
  <2>7. CASE result = whole
    <3>1. AtMostRounded(3, AtMost(e, l * d), whole * d + d - 1)
      BY <1>4, <2>2, <2>3, <2>5, <2>6, RoundingsBound
    <3>2. AtMostRounded(1, whole * d, f)
      BY <2>2, <2>3, <2>5, AtMostIsRounded
    <3> QED
      BY <2>1, <2>2, <2>3, <2>4, <2>5, <2>7, <3>1, <3>2
  <2>8. CASE result = l /\ ~ (whole < Float(l))
    <3>1. AtMostRounded(3, AtMost(e, l * d), l * d + d - 1)
      <4>1. AtMost(e, l * d) <= l * d + d - 1
        BY <1>4, <2>5, <2>6
      <4> QED
        BY <2>5, <2>6, <4>1, AtMostIsRounded
    <3>2. AtMostRounded(1, l * d, f)
      <4> DEFINE a == Float(l)
      <4>1. a \in Nat /\ AtMostRounded(1, l, a)
        BY <1>3, FloatIs, FloatIsRounding
      <4> HIDE DEF a
      <4>2. AtMostRounded(1, d * l, d * a)
        BY <1>3, <4>1, RoundingsScale
      <4>3. d * a <= whole * d /\ d * l = l * d /\ d * a \in Nat
        <5>1. a <= whole
          BY <2>3, <2>8, <4>1 DEF a
        <5>2. a * d <= whole * d
          BY <1>3, <2>3, <4>1, <5>1
        <5> QED
          BY <1>3, <4>1, <5>2
      <4>4. d * a <= f
        BY <2>2, <2>3, <2>5, <4>3
      <4> QED
        BY <1>4, <2>2, <4>2, <4>3, <4>4, RoundingsBound
    <3>3. AtMostRounded(4, l * d, e)
      BY <1>4, <2>2, <3>2
    <3> QED
      BY <2>1, <2>3, <2>4, <2>8, <3>1, <3>3
  <2> QED
    BY <2>1, <2>3, <2>7, <2>8
<1> QED
  BY <1>6, <1>7 DEF Duration

\* What jitter may turn a delay into is what is between the fractions of it, but for
\* rounding, and never more than the longest Duration (jitter.go, durationFromFloat).
LEMMA JitterIsBetween ==
    ASSUME NEW base \in 0 .. MaxDuration, NEW low \in 0 .. 4, NEW high \in 0 .. 8,
           low <= high, NEW d \in Jittered(base, low, high)
    PROVE  IsBetween(base, low, high, d)
<1>1. /\ base \in Nat /\ base <= MaxDuration /\ MaxDuration \in Nat
      /\ low \in Nat /\ high \in Nat /\ 4 * MaxDuration \in Nat
  BY RetryAssumption
<1>2. base * low \in Nat /\ base * high \in Nat
  BY <1>1
<1>3. /\ AtMost(base * low, 4 * MaxDuration) \in Nat
      /\ AtMost(base * low, 4 * MaxDuration) <= base * low
      /\ AtMost(base * low, 4 * MaxDuration) <= 4 * MaxDuration
  BY <1>1, <1>2 DEF AtMost
<1>4. CASE base = 0
  <2>1. d = 0
    BY <1>4 DEF Jittered
  <2>2. base * low = 0 /\ base * high = 0
    BY <1>1, <1>4
  <2>3. AtMost(0, 4 * MaxDuration) = 0
    BY <1>1 DEF AtMost
  <2>4. AtMostRounded(2, 0, 3) /\ AtMostRounded(3, 0, 0)
    BY AtMostIsRounded
  <2> QED
    BY <1>1, <2>1, <2>2, <2>3, <2>4 DEF IsBetween
<1>5. CASE base # 0
  <2> DEFINE b == Float(base)
  <2>1. PICK e \in b * low .. b * high : d = FromFloat(Float(e) \div 4, MaxDuration)
    BY <1>1, <1>5 DEF Jittered
  <2>2. b \in Nat /\ AtMostRounded(1, base, b) /\ AtMostRounded(1, b, base)
    BY <1>1, FloatIs, FloatIsRounding
  <2> HIDE DEF b
  <2>3. b * low \in Nat /\ b * high \in Nat
    BY <1>1, <2>2
  <2>4. e \in Nat /\ b * low <= e /\ e <= b * high
    BY <2>1, <2>3
  <2>5. AtMostRounded(1, base * low, e)
    <3>1. AtMostRounded(1, low * base, low * b)
      BY <1>1, <2>2, RoundingsScale
    <3>2. low * base = base * low /\ low * b = b * low
      BY <1>1, <2>2
    <3> QED
      BY <1>2, <2>3, <2>4, <3>1, <3>2, RoundingsBound
  <2>6. AtMostRounded(1, e, base * high)
    <3>1. AtMostRounded(1, high * b, high * base)
      BY <1>1, <2>2, RoundingsScale
    <3>2. high * base = base * high /\ high * b = b * high
      BY <1>1, <2>2
    <3> QED
      BY <1>2, <2>3, <2>4, <3>1, <3>2, RoundingsBound
  <2> DEFINE f == Float(e)
             whole == f \div 4
             l == MaxDuration
  <2>7. f \in Nat /\ AtMostRounded(1, e, f) /\ AtMostRounded(1, f, e)
    BY <2>4, FloatIs, FloatIsRounding
  <2>8. Power(4)[1] = 4
    <3>1. Power(4)[0 + 1] = 4 * Power(4)[0] /\ Power(4)[0] = 1
      BY PowerMultiplies
    <3> QED
      BY <3>1
  <2>9. /\ whole \in Nat /\ FromFloat(whole, l) \in 0 .. l
        /\ FromFloat(whole, l) = IF whole < Float(l) THEN whole ELSE l
        /\ whole * 4 <= f /\ f <= whole * 4 + 4 - 1
    <3>1. 1 \in Nat /\ l \in Nat
      BY <1>1
    <3> DEFINE p == Power(4)[1]
               v == f \div p
    <3>2. /\ v \in Nat /\ FromFloat(v, l) \in 0 .. l
          /\ FromFloat(v, l) = IF v < Float(l) THEN v ELSE l
          /\ v * p <= f /\ f <= v * p + p - 1
      BY <2>4, <3>1, ConversionCutsOff, Zenon
    <3> QED
      BY <2>8, <3>2, Zenon
  <2>10. \A n \in Nat, u, v, w \in Nat :
            AtMostRounded(n, u, v) /\ AtMostRounded(1, v, w) => AtMostRounded(n + 1, u, w)
    BY RoundingsAdd
  <2>11. 1 + 1 = 2 /\ 2 + 1 = 3
    OBVIOUS
  <2> DEFINE lower == base * low
             upper == base * high
  <2>12. lower \in Nat /\ upper \in Nat
    BY <1>2
  <2> HIDE DEF f, whole, lower, upper
  <2>13. AtMostRounded(2, lower, f) /\ AtMostRounded(2, f, upper)
    BY <2>4, <2>5, <2>6, <2>7, <2>10, <2>11, <2>12 DEF lower, upper
  <2>14. \A y \in Nat : AtMostRounded(1, y, f) => AtMostRounded(3, y, upper)
    <3> SUFFICES ASSUME NEW y \in Nat, AtMostRounded(1, y, f)
                 PROVE  AtMostRounded(3, y, upper)
      OBVIOUS
    <3>1. AtMostRounded(2, y, e)
      BY <2>4, <2>7, <2>10, <2>11
    <3> QED
      BY <2>4, <2>6, <2>10, <2>11, <2>12, <3>1 DEF upper
  <2>15. d \in 0 .. l /\ (d = whole \/ (d = l /\ ~ (whole < Float(l))))
    BY <2>1, <2>9 DEF whole, f
  <2>16. CASE d = whole
    <3>1. AtMostRounded(2, AtMost(lower, 4 * l), 4 * d + 3)
      <4>1. f <= 4 * d + 3 /\ 4 * d + 3 \in Nat
        BY <2>7, <2>9, <2>16
      <4>2. AtMost(lower, 4 * l) \in Nat /\ AtMost(lower, 4 * l) <= lower
        BY <1>3 DEF lower
      <4> HIDE DEF l
      <4> QED
        BY <2>7, <2>12, <2>13, <4>1, <4>2, RoundingsBound
    <3>2. AtMostRounded(3, 4 * d, upper)
      <4>1. 4 * d \in Nat /\ 4 * d <= f
        BY <2>7, <2>9, <2>16
      <4>2. AtMostRounded(1, 4 * d, f)
        BY <2>7, <4>1, AtMostIsRounded
      <4> QED
        BY <2>14, <4>1, <4>2
    <3> QED
      BY <2>15, <3>1, <3>2 DEF IsBetween, lower, upper
  <2>17. CASE d = l /\ ~ (whole < Float(l))
    <3>1. AtMostRounded(2, AtMost(lower, 4 * l), 4 * d + 3)
      <4>1. 4 * d + 3 \in Nat /\ AtMost(lower, 4 * l) <= 4 * d + 3
        BY <1>1, <1>3, <2>17 DEF lower
      <4> QED
        BY <1>3, <4>1, AtMostIsRounded DEF lower
    <3>2. AtMostRounded(3, 4 * d, upper)
      <4> DEFINE a == Float(l)
      <4>1. a \in Nat /\ AtMostRounded(1, l, a)
        BY <1>1, FloatIs, FloatIsRounding
      <4> HIDE DEF a
      <4>2. AtMostRounded(1, 4 * l, 4 * a)
        BY <1>1, <4>1, RoundingsScale
      <4>3. 4 * a \in Nat /\ 4 * a <= f
        BY <2>7, <2>9, <2>17, <4>1 DEF a
      <4>4. AtMostRounded(1, 4 * l, f)
        BY <1>1, <2>7, <4>2, <4>3, RoundingsBound
      <4> QED
        BY <1>1, <2>14, <2>17, <4>4
    <3> QED
      BY <2>15, <3>1, <3>2 DEF IsBetween, lower, upper
  <2> QED
    BY <2>15, <2>16, <2>17
<1> QED
  BY <1>4, <1>5

\* Full jitter of a delay below Significand never exceeds it (Full).
LEMMA FullJitterBelow ==
    ASSUME NEW base \in 0 .. MaxDuration, base < Significand,
           NEW d \in Jittered(base, 0, 4)
    PROVE  d <= base
<1>1. base \in Nat /\ base <= MaxDuration /\ MaxDuration \in Nat /\ 4 * base \in Nat
  BY RetryAssumption
<1>2. CASE base = 0
  BY <1>2 DEF Jittered
<1>3. CASE base # 0
  <2>1. Float(base) = base
    BY <1>1, FloatOfSmall
  <2>2. PICK e \in base * 0 .. base * 4 : d = FromFloat(Float(e) \div 4, MaxDuration)
    BY <1>1, <1>3, <2>1 DEF Jittered
  <2>3. e \in Nat /\ e <= 2 * (2 * base)
    BY <1>1, <2>2
  <2>4. Float(2 * (2 * base)) = 4 * base
    <3>1. Float(2 * base) = 2 * Float(base) /\ Float(2 * (2 * base)) = 2 * Float(2 * base)
      BY <1>1, FloatDoubles
    <3> QED
      BY <1>1, <2>1, <3>1
  <2>5. Float(e) \in Nat /\ Float(e) <= 4 * base
    <3>1. 2 * (2 * base) \in Nat
      BY <1>1
    <3> QED
      BY <2>3, <2>4, <3>1, FloatIs, FloatIsMonotone
  <2> DEFINE f == Float(e)
             whole == f \div 4
             a == Float(MaxDuration)
  <2>6. whole \in Nat /\ whole <= base
    <3> HIDE DEF f
    <3> QED
      BY <1>1, <2>5 DEF f
  <2>7. a \in Nat /\ (a <= base => MaxDuration <= base)
    <3>1. CASE MaxDuration < Significand
      BY <1>1, <3>1, FloatOfSmall
    <3>2. CASE ~ (MaxDuration < Significand)
      <4>1. Significand <= a /\ a \in Nat /\ Significand \in Nat
        BY <1>1, <3>2, FloatOfLarge, FloatIs, FloatAssumption
      <4> HIDE DEF a
      <4> QED
        BY <1>1, <4>1
    <3> QED
      BY <3>1, <3>2
  <2>8. d = FromFloat(whole, MaxDuration)
    BY <2>2
  <2> HIDE DEF whole, a
  <2>9. d = IF whole >= a THEN MaxDuration ELSE IF whole <= 0 THEN 0 ELSE whole
    BY <2>8 DEF FromFloat, a
  <2> QED
    BY <1>1, <2>6, <2>7, <2>9
<1> QED
  BY <1>2, <1>3

\* No backoff returns a negative delay, nor one above its limit, and no jitter one
\* above the longest Duration, though the float64 of a limit may lie above it and the
\* product with a random factor as well: what passes the comparison fits (backoff.go,
\* jitter.go, durationFromBackoffFloat, durationFromFloat).
THEOREM DelaysStayInRange ==
    ASSUME NEW s \in Duration, NEW max \in Duration, NEW factor \in Int,
           NEW tries \in Nat \ {0}, NEW base \in 0 .. MaxDuration,
           NEW low \in 0 .. 4, NEW high \in 0 .. 8, low <= high
    PROVE  /\ Constant(s) \in 0 .. MaxDuration
           /\ Linear(s, max, tries) \in 0 .. Limit(max)
           /\ Exponential(s, factor, max, tries) \in 0 .. Limit(max)
           /\ Jittered(base, low, high) \subseteq 0 .. MaxDuration
<1> DEFINE n == AtLeastOne(tries)
           p == n * ClampDuration(s)
<1>1. n \in Nat /\ ClampDuration(s) \in 0 .. MaxDuration
  BY RetryAssumption DEF AtLeastOne, ClampDuration, Duration
<1>2. p \in Nat
  <2> HIDE DEF n
  <2> QED
    BY <1>1
<1>3. Linear(s, max, tries) \in 0 .. Limit(max)
  <2>1. Linear(s, max, tries) = IF p <= Limit(max) THEN p ELSE Limit(max)
    BY LinearIsCappedProduct
  <2> HIDE DEF p
  <2> QED
    BY <1>2, <2>1, LimitType, RetryAssumption
<1>4. Exponential(s, factor, max, tries) \in 0 .. Limit(max)
  BY ExponentialIsRoundedPower DEF IsExponential
<1>5. Jittered(base, low, high) \subseteq 0 .. MaxDuration
  BY JitterIsBetween DEF IsBetween
<1>6. Constant(s) \in 0 .. MaxDuration
  BY <1>1 DEF Constant
<1> QED
  BY <1>3, <1>4, <1>5, <1>6

\* Waiting never gets shorter from one attempt to the next, before jitter: at the
\* limit, where a product that wrapped around would be shorter, as well as below
\* it, and however the exponential is rounded (backoff.go, Linear and Exponential).
THEOREM DelaysNeverShrink ==
    ASSUME NEW s \in Duration, NEW max \in Duration, NEW factor \in Int,
           NEW tries \in Nat \ {0}
    PROVE  /\ Linear(s, max, tries) <= Linear(s, max, tries + 1)
           /\ Exponential(s, factor, max, tries) <= Exponential(s, factor, max, tries + 1)
<1> DEFINE c == ClampDuration(s)
           l == Limit(max)
<1>1. c \in Nat /\ l \in Nat
  BY LimitType, RetryAssumption DEF ClampDuration, Duration
<1>2. /\ tries \in Int /\ tries + 1 \in Int /\ tries - 1 \in Nat
      /\ (tries - 1) + 1 = tries /\ (tries + 1) - 1 = tries
      /\ AtLeastOne(tries) = tries /\ AtLeastOne(tries + 1) = tries + 1
  BY DEF AtLeastOne
<1>3. Linear(s, max, tries) <= Linear(s, max, tries + 1)
  <2> DEFINE x == tries * c
             y == (tries + 1) * c
  <2>1. /\ Linear(s, max, tries) = (IF x <= l THEN x ELSE l)
        /\ Linear(s, max, tries + 1) = (IF y <= l THEN y ELSE l)
    BY <1>2, LinearIsCappedProduct
  <2>2. x \in Nat /\ y \in Nat /\ x <= y
    <3> HIDE DEF c
    <3> QED
      BY <1>1
  <2> HIDE DEF x, y, l
  <2> QED
    BY <1>1, <2>1, <2>2
<1>4. CASE s <= 0
  <2>1. Exponential(s, factor, max, tries) = 0 /\ Exponential(s, factor, max, tries + 1) = 0
    BY <1>4 DEF Exponential
  <2> QED
    BY <1>3, <2>1
<1>5. CASE s > 0
  <2> DEFINE k == tries - 1
             m == AtLeastWhole(factor)
             p == Power(m)[k]
             q == Power(m)[k + 1]
             x == Float(s) * Float(p)
             y == Float(s) * Float(q)
             d == Power(4)[k]
             v == Float(x) \div d
             w == Float(y) \div Power(4)[k + 1]
  <2>1. /\ s \in Nat /\ p \in Nat /\ x \in Nat
        /\ Exponential(s, factor, max, tries) = FromFloat(v, l)
    BY <1>2, <1>5, ExponentialIs
  <2>2. /\ q \in Nat /\ y \in Nat
        /\ Exponential(s, factor, max, tries + 1) = FromFloat(w, l)
    BY <1>2, <1>5, ExponentialIs
  <2>3. 4 <= m /\ m \in Nat /\ q = m * p
    BY <1>2, MultiplierPowers
  <2>4. d \in Nat \ {0} /\ Power(4)[k + 1] = 4 * d
    <3>1. 4 \in Nat \ {0}
      OBVIOUS
    <3> QED
      BY <1>2, <3>1, PowerGrows, PowerMultiplies
  <2>5. /\ v \in Nat /\ FromFloat(v, l) \in 0 .. l
        /\ FromFloat(v, l) = IF v < Float(l) THEN v ELSE l
        /\ v * d <= Float(x)
    <3>1. k \in Nat
      BY <1>2
    <3> HIDE DEF x, l, k
    <3>2. /\ v \in Nat /\ FromFloat(v, l) \in 0 .. l
          /\ FromFloat(v, l) = IF v < Float(l) THEN v ELSE l
          /\ v * d <= Float(x) /\ Float(x) <= v * d + d - 1
      BY <1>1, <2>1, <3>1, ConversionCutsOff, Zenon
    <3> QED
      BY <3>2
  <2>6. /\ w \in Nat /\ FromFloat(w, l) = IF w < Float(l) THEN w ELSE l
        /\ Float(y) <= w * Power(4)[k + 1] + Power(4)[k + 1] - 1
    <3>1. k + 1 \in Nat
      BY <1>2
    <3> DEFINE g == Power(4)[k + 1]
    <3> HIDE DEF y, l, k
    <3>2. /\ w \in Nat /\ FromFloat(w, l) \in 0 .. l
          /\ FromFloat(w, l) = IF w < Float(l) THEN w ELSE l
          /\ w * g <= Float(y) /\ Float(y) <= w * g + g - 1
      BY <1>1, <2>2, <3>1, ConversionCutsOff, Zenon
    <3> QED
      BY <3>2
  <2>7. Float(s) \in Nat /\ Float(p) \in Nat /\ Float(q) \in Nat /\ Float(l) \in Nat
    BY <1>1, <2>1, <2>2, FloatIs
  <2>8. 2 * (2 * p) <= q
    <3> HIDE DEF m, p, q
    <3>1. 4 * p <= m * p
      BY <2>1, <2>3
    <3> QED
      BY <2>1, <2>3, <3>1
  <2>9. 4 * Float(p) <= Float(q)
    <3> HIDE DEF p, q
    <3>1. 2 * p \in Nat /\ 2 * (2 * p) \in Nat
      BY <2>1
    <3>2. Float(2 * (2 * p)) <= Float(q)
      BY <2>2, <2>8, <3>1, FloatIsMonotone
    <3>3. Float(2 * (2 * p)) = 2 * Float(2 * p) /\ Float(2 * p) = 2 * Float(p)
      BY <2>1, <3>1, FloatDoubles
    <3> QED
      BY <2>7, <3>2, <3>3
  <2>10. 2 * (2 * x) <= y
    <3> DEFINE a == Float(s)
               b == Float(p)
               e == Float(q)
    <3>1. a \in Nat /\ b \in Nat /\ e \in Nat /\ 4 * b <= e
      BY <2>7, <2>9
    <3> HIDE DEF a, b, e
    <3>2. a * (4 * b) <= a * e /\ a * (4 * b) = 2 * (2 * (a * b))
      BY <3>1
    <3>3. 2 * (2 * (a * b)) <= a * e
      BY <3>2
    <3> QED
      BY <3>3 DEF a, b, e
  <2> HIDE DEF c, l, m, p, q, x, y, d, v, w, k
  <2>11. Float(x) \in Nat /\ Float(y) \in Nat /\ 4 * Float(x) <= Float(y)
    <3>1. 2 * x \in Nat /\ 2 * (2 * x) \in Nat
      BY <2>1
    <3>2. Float(2 * (2 * x)) <= Float(y)
      BY <2>2, <2>10, <3>1, FloatIsMonotone
    <3>3. Float(2 * (2 * x)) = 2 * Float(2 * x) /\ Float(2 * x) = 2 * Float(x)
      BY <2>1, <3>1, FloatDoubles
    <3>4. Float(x) \in Nat /\ Float(y) \in Nat
      BY <2>1, <2>2, FloatIs
    <3> QED
      BY <3>2, <3>3, <3>4
  <2>12. v <= w
    <3>1. v * d \in Nat /\ w * (4 * d) \in Nat /\ 4 * (v * d) = v * (4 * d)
      BY <2>4, <2>5, <2>6
    <3>2. v * (4 * d) <= w * (4 * d) + 4 * d - 1
      BY <2>4, <2>5, <2>6, <2>11, <3>1
    <3>3. SUFFICES ASSUME w + 1 <= v PROVE FALSE
      BY <2>5, <2>6
    <3>4. (w + 1) * (4 * d) <= v * (4 * d) /\ (w + 1) * (4 * d) = w * (4 * d) + 4 * d
      BY <2>4, <2>5, <2>6, <3>3
    <3> QED
      BY <2>4, <3>1, <3>2, <3>4
  <2>13. FromFloat(v, l) <= FromFloat(w, l)
    BY <1>1, <2>5, <2>6, <2>7, <2>12
  <2> QED
    BY <1>3, <2>1, <2>2, <2>13
<1> QED
  BY <1>4, <1>5 DEF Duration

\* The delay of a policy before jitter is the documented one (configPolicy.NextDelay).
LEMMA BaseIsDocumented ==
    ASSUME NEW b \in [kind : {"none", "func", "constant", "linear", "exponential"},
                      step : Duration, factor : Int, max : Duration],
           NEW n \in Nat \ {0}
    PROVE  IsDocumented(b, n, Delay(b, n)) /\ Delay(b, n) \in 0 .. MaxDuration
<1>1. /\ AtLeastOne(n) = n /\ n \in Int
      /\ AtLeast(b.step, 0) = ClampDuration(b.step)
      /\ AtLeast(b.factor, 4) = AtLeastWhole(b.factor)
  BY DEF AtLeastOne, AtLeast, AtLeastWhole, ClampDuration
<1>2. Cap(b.max) = Limit(b.max) /\ Limit(b.max) \in 0 .. MaxDuration
  BY LimitType, RetryAssumption DEF Cap, Limit, AtMost, Duration
<1>3. ClampDuration(b.step) \in 0 .. MaxDuration
  BY RetryAssumption DEF ClampDuration, Duration
<1>4. CASE b.kind = "linear"
  <2> DEFINE exact == n * ClampDuration(b.step)
  <2>1. exact \in Nat
    <3> DEFINE c == ClampDuration(b.step)
    <3>1. c \in Nat
      BY <1>3, RetryAssumption
    <3> HIDE DEF c
    <3> QED
      BY <3>1 DEF c
  <2>2. Linear(b.step, b.max, n) = IF exact <= Limit(b.max) THEN exact ELSE Limit(b.max)
    BY <1>1, LinearIsCappedProduct
  <2>3. Delay(b, n) = Linear(b.step, b.max, n)
    BY <1>4 DEF Delay
  <2>4. IsDocumented(b, n, Delay(b, n)) <=> Delay(b, n) = AtMost(exact, Limit(b.max))
    BY <1>1, <1>2, <1>4 DEF IsDocumented
  <2> HIDE DEF exact
  <2> QED
    BY <1>2, <2>1, <2>2, <2>3, <2>4, RetryAssumption DEF AtMost
<1>5. CASE b.kind = "exponential"
  <2>1. IsExponential(ClampDuration(b.step), AtLeastWhole(b.factor), Limit(b.max), n,
                      Exponential(b.step, b.factor, b.max, n))
    BY ExponentialIsRoundedPower
  <2>2. Delay(b, n) = Exponential(b.step, b.factor, b.max, n)
    BY <1>5 DEF Delay
  <2>3. IsDocumented(b, n, Delay(b, n))
    BY <1>1, <1>2, <1>5, <2>1, <2>2 DEF IsDocumented
  <2>4. Delay(b, n) \in 0 .. Limit(b.max)
    BY <2>1, <2>2 DEF IsExponential
  <2> QED
    BY <1>2, <2>3, <2>4, RetryAssumption
<1>6. CASE b.kind \in {"none", "func", "constant"}
  BY <1>1, <1>3, <1>6, RetryAssumption DEF Delay, IsDocumented, Constant
<1> QED
  BY <1>4, <1>5, <1>6

\* What is waited for was asked of the policy for this attempt (runWithRetry).
AskedOfPolicy == pc = "wait" => delay \in NextDelays(policy, attempt)

LEMMA AskedStep == AskedOfPolicy /\ [RouteNext]_routeVars => AskedOfPolicy'
<1> SUFFICES ASSUME AskedOfPolicy, [RouteNext]_routeVars PROVE AskedOfPolicy'
  OBVIOUS
<1>1. CASE UNCHANGED <<pc, delay, policy, attempt>>
  BY <1>1 DEF AskedOfPolicy
<1>2. CASE Judge
  BY <1>2 DEF Judge, AskedOfPolicy
<1>3. CASE pc' # "wait"
  BY <1>3 DEF AskedOfPolicy
<1>4. CASE RunNext
  <2>1. CASE StartChild \/ EndChild \/ AttemptTimesOut \/ CallerGivesUp
    BY <1>1, <2>1 DEF StartChild, EndChild, AttemptTimesOut, CallerGivesUp
  <2>2. CASE \/ Returned \/ AdmitOrRefuse \/ ReleaseCommandSlot \/ BeginAttempt
             \/ HandlerSucceeds \/ HandlerErrs \/ HandlerPanicked \/ WaitElapses
             \/ WaitCancelled
    <3>1. pc' \in {"attempt", "handling", "judge", "release", "end", "done"}
      BY <2>2 DEF Returned, AdmitOrRefuse, ReleaseCommandSlot, BeginAttempt,
                 HandlerSucceeds, HandlerErrs, HandlerPanicked, WaitElapses, WaitCancelled
    <3> QED
      BY <1>3, <3>1
  <2> QED
    BY <1>2, <1>4, <2>1, <2>2 DEF RunNext
<1>5. CASE BadRequest \/ TargetUnknown \/ Succeeded \/ DispatchFailed
  BY <1>1, <1>5 DEF BadRequest, TargetUnknown, Succeeded, DispatchFailed, Respond
<1>6. CASE UNCHANGED routeVars
  BY <1>1, <1>6 DEF routeVars
<1> QED
  BY <1>4, <1>5, <1>6 DEF RouteNext, DispatchRuns

\* Dispatch waits for the delay its policy documents, for every backoff, jitter,
\* attempt, width of a Duration and precision of a float64 (Linear, Exponential,
\* Symmetric, NextDelay).
THEOREM DelaysAreDocumented == RouteSpec => []DelaysAsDocumented
<1>1. RouteTypeOK /\ AskedOfPolicy => DelaysAsDocumented
  <2> SUFFICES ASSUME RouteTypeOK, AskedOfPolicy, pc = "wait"
               PROVE  \E base \in 0 .. MaxDuration :
                         /\ IsDocumented(policy.backoff, attempt, base)
                         /\ IsJittered(policy.jitter, base, delay)
    BY DEF DelaysAsDocumented
  <2> DEFINE base == Delay(policy.backoff, attempt)
             fraction == policy.jitter.fraction
             part == AtLeast(AtMost(fraction, 4), 0)
  <2>1. /\ IsDocumented(policy.backoff, attempt, base) /\ base \in 0 .. MaxDuration
        /\ fraction \in Int /\ policy.jitter.kind \in {"none", "full", "symmetric"}
    <3>1. policy \in Policy /\ attempt \in Nat \ {0}
      BY DEF RouteTypeOK
    <3>2. policy.backoff \in [kind : {"none", "func", "constant", "linear", "exponential"},
                              step : Duration, factor : Int, max : Duration]
      BY <3>1 DEF Policy
    <3>3. policy.jitter.fraction \in Int /\ policy.jitter.kind \in {"none", "full", "symmetric"}
      BY <3>1 DEF Policy
    <3> QED
      BY <3>1, <3>2, <3>3, BaseIsDocumented
  <2>2. delay \in Apply(policy.jitter, base)
    BY DEF AskedOfPolicy, NextDelays
  <2> HIDE DEF base, fraction
  <2>3. CASE policy.jitter.kind = "none"
    <3>1. delay = ClampDuration(base)
      BY <2>2, <2>3 DEF Apply
    <3>2. delay = base
      BY <2>1, <3>1, RetryAssumption DEF ClampDuration
    <3> QED
      BY <2>1, <2>3, <3>2 DEF IsJittered
  <2>4. CASE policy.jitter.kind = "full"
    <3>1. delay \in Jittered(base, 0, 4)
      BY <2>2, <2>4 DEF Apply, Full
    <3>2. IsBetween(base, 0, 4, delay)
      BY <2>1, <3>1, JitterIsBetween
    <3>3. base < Significand => delay <= base
      BY <2>1, <3>1, FullJitterBelow
    <3>4. IsJittered(policy.jitter, base, delay)
      BY <2>4, <3>2, <3>3 DEF IsJittered
    <3> QED
      BY <2>1, <3>4
  <2>5. CASE policy.jitter.kind = "symmetric"
    <3>1. part = Quarters(fraction) /\ part \in 0 .. 4
      BY <2>1 DEF AtLeast, AtMost, Quarters
    <3>2. delay \in Jittered(base, 4 - part, 4 + part)
      BY <2>2, <2>5, <3>1 DEF Apply, Symmetric, fraction
    <3> HIDE DEF part
    <3>3. 4 - part \in 0 .. 4 /\ 4 + part \in 0 .. 8 /\ 4 - part <= 4 + part
      BY <3>1
    <3>4. IsBetween(base, 4 - part, 4 + part, delay)
      BY <2>1, <3>2, <3>3, JitterIsBetween
    <3>5. IsJittered(policy.jitter, base, delay)
      BY <2>5, <3>4 DEF IsJittered, part, fraction
    <3> QED
      BY <2>1, <3>5
  <2> QED
    BY <2>1, <2>3, <2>4, <2>5
<1>2. RouteInit => AskedOfPolicy
  BY DEF RouteInit, RunInit, AskedOfPolicy
<1> QED
  BY <1>1, <1>2, AskedStep, CommandInvariant, PTL DEF RouteSpec

-----------------------------------------------------------------------------
(* The execution refines the steps of WorkerRuntime *)

\* Two records with the same fields are the same.
LEMMA SameRecord ==
    ASSUME NEW r \in Runtime!WorkerState, NEW s \in Runtime!WorkerState,
           r.generation = s.generation, r.lifecycle = s.lifecycle, r.ready = s.ready,
           r.acceptingWork = s.acceptingWork, r.inFlight = s.inFlight,
           r.readySetDuringStart = s.readySetDuringStart,
           r.acceptingWorkSetDuringStart = s.acceptingWorkSetDuringStart,
           r.failureReportedDuringStart = s.failureReportedDuringStart,
           r.lastFailure = s.lastFailure, r.lastCommandFailure = s.lastCommandFailure
    PROVE  r = s
BY DEF Runtime!WorkerState

\* What the record is seen as.
Fresh(r) ==
    /\ r \in Runtime!WorkerState
    /\ r.generation = 1
    /\ r.readySetDuringStart = FALSE /\ r.acceptingWorkSetDuringStart = FALSE
    /\ r.failureReportedDuringStart = FALSE

InService(r) ==
    /\ r.lifecycle = "running" /\ r.ready = TRUE /\ r.acceptingWork = TRUE
    /\ r.lastFailure = "nil"

OutOfService(r) ==
    /\ r.lifecycle = "failed" /\ r.ready = FALSE /\ r.acceptingWork = FALSE
    /\ r.lastFailure = "primary"

\* A worker is in service until a handler of its own panics (workerState).
LEMMA Seen ==
    /\ Fresh(WorkerSeen)
    /\ ~ Panicked => InService(WorkerSeen)
    /\ Panicked => OutOfService(WorkerSeen)
    /\ slot = TRUE => WorkerSeen.inFlight = 1
    /\ slot = FALSE => WorkerSeen.inFlight = 0
    /\ failures = << >> => WorkerSeen.lastCommandFailure = FALSE
    /\ failures # << >> => WorkerSeen.lastCommandFailure = TRUE
<1> USE DEF WorkerSeen
<1>1. PICK told \in BOOLEAN : told = (failures # << >>)
  BY Zenon
<1>2. Fresh(WorkerSeen)
  BY <1>1 DEF Fresh, Runtime!WorkerState, Runtime!LifecycleState, Runtime!Failure
<1>3. ~ Panicked => InService(WorkerSeen)
  BY DEF InService
<1>4. Panicked => OutOfService(WorkerSeen)
  BY DEF OutOfService
<1>5. (slot = TRUE => WorkerSeen.inFlight = 1) /\ (slot = FALSE => WorkerSeen.inFlight = 0)
  OBVIOUS
<1>6. /\ failures = << >> => WorkerSeen.lastCommandFailure = FALSE
      /\ failures # << >> => WorkerSeen.lastCommandFailure = TRUE
  OBVIOUS
<1> QED
  BY <1>2, <1>3, <1>4, <1>5, <1>6

\* The same after a step.
LEMMA NextSeen ==
    /\ Fresh(WorkerSeen')
    /\ ~ Panicked' => InService(WorkerSeen')
    /\ Panicked' => OutOfService(WorkerSeen')
    /\ slot' = TRUE => WorkerSeen'.inFlight = 1
    /\ slot' = FALSE => WorkerSeen'.inFlight = 0
    /\ failures' = << >> => WorkerSeen'.lastCommandFailure = FALSE
    /\ failures' # << >> => WorkerSeen'.lastCommandFailure = TRUE
<1> USE DEF WorkerSeen
<1>1. PICK told \in BOOLEAN : told = (failures' # << >>)
  BY Zenon
<1>2. Fresh(WorkerSeen')
  BY <1>1 DEF Fresh, Runtime!WorkerState, Runtime!LifecycleState, Runtime!Failure
<1>3. ~ Panicked' => InService(WorkerSeen')
  BY DEF InService
<1>4. Panicked' => OutOfService(WorkerSeen')
  BY DEF OutOfService
<1>5. (slot' = TRUE => WorkerSeen'.inFlight = 1) /\ (slot' = FALSE => WorkerSeen'.inFlight = 0)
  OBVIOUS
<1>6. /\ failures' = << >> => WorkerSeen'.lastCommandFailure = FALSE
      /\ failures' # << >> => WorkerSeen'.lastCommandFailure = TRUE
  OBVIOUS
<1> QED
  BY <1>2, <1>3, <1>4, <1>5, <1>6

\* Admission and release change the count of a record and nothing else.
LEMMA CountEffects ==
    ASSUME NEW r \in Runtime!WorkerState, NEW n \in Nat, NEW s, s = [r EXCEPT !.inFlight = n]
    PROVE  /\ s \in Runtime!WorkerState /\ s.inFlight = n
           /\ s.generation = r.generation /\ s.lifecycle = r.lifecycle
           /\ s.ready = r.ready /\ s.acceptingWork = r.acceptingWork
           /\ s.readySetDuringStart = r.readySetDuringStart
           /\ s.acceptingWorkSetDuringStart = r.acceptingWorkSetDuringStart
           /\ s.failureReportedDuringStart = r.failureReportedDuringStart
           /\ s.lastFailure = r.lastFailure /\ s.lastCommandFailure = r.lastCommandFailure
BY DEF Runtime!WorkerState

\* recordCommandFailure changes LastCommandFailure and nothing else.
LEMMA ToldEffects ==
    ASSUME NEW r \in Runtime!WorkerState, NEW s, s = [r EXCEPT !.lastCommandFailure = TRUE]
    PROVE  /\ s \in Runtime!WorkerState /\ s.lastCommandFailure = TRUE
           /\ s.generation = r.generation /\ s.lifecycle = r.lifecycle
           /\ s.ready = r.ready /\ s.acceptingWork = r.acceptingWork
           /\ s.readySetDuringStart = r.readySetDuringStart
           /\ s.acceptingWorkSetDuringStart = r.acceptingWorkSetDuringStart
           /\ s.failureReportedDuringStart = r.failureReportedDuringStart
           /\ s.lastFailure = r.lastFailure /\ s.inFlight = r.inFlight
BY DEF Runtime!WorkerState

\* recordCommandPanic takes the worker out of service but not off its count.
LEMMA FailedEffects ==
    ASSUME NEW r \in Runtime!WorkerState, NEW s, s = Runtime!Failed(r)
    PROVE  /\ s \in Runtime!WorkerState /\ s.generation = r.generation
           /\ OutOfService(s) /\ s.inFlight = r.inFlight
           /\ s.readySetDuringStart = FALSE /\ s.acceptingWorkSetDuringStart = FALSE
           /\ s.failureReportedDuringStart = FALSE
<1> USE DEF Runtime!WorkerState
<1>1. s \in Runtime!WorkerState
  BY DEF Runtime!Failed, Runtime!Failure, Runtime!LifecycleState
<1>2. s.generation = r.generation /\ s.inFlight = r.inFlight
  BY DEF Runtime!Failed
<1>3. OutOfService(s)
  BY DEF Runtime!Failed, OutOfService
<1>4. /\ s.readySetDuringStart = FALSE /\ s.acceptingWorkSetDuringStart = FALSE
      /\ s.failureReportedDuringStart = FALSE
  BY DEF Runtime!Failed
<1> HIDE DEF Runtime!WorkerState
<1> QED
  BY <1>1, <1>2, <1>3, <1>4

\* A panic is the last answer: the execution is over.
PanicEnds == Panicked => pc \in {"release", "end", "done"}

\* No step follows a panic with another call (executeCommand).
LEMMA PanicEndsStep ==
    ASSUME RouteTypeOK, RunInv, PanicEnds, [RouteNext]_routeVars
    PROVE  PanicEnds'
<1>1. CASE BeginAttempt
  <2>1. handled \in Seq(Call)
    BY DEF RouteTypeOK
  <2>2. PICK b \in BOOLEAN : b = (gone # "")
    BY Zenon
  <2>3. handled' = Append(handled, [answer |-> "none", gone |-> b])
    BY <1>1, <2>2 DEF BeginAttempt
  <2>4. Last(handled') = [answer |-> "none", gone |-> b]
    BY <2>1, <2>3, AppendProperties DEF Last, Call
  <2> QED
    BY <2>4 DEF PanicEnds, Panicked
<1>2. CASE HandlerErrs
  <2>1. Len(handled) # 0
    BY <1>2 DEF HandlerErrs, RunInv, Counted, RouteTypeOK
  <2>2. LastAnswer' = "error"
    BY <1>2, <2>1, AnswerIsLast DEF HandlerErrs
  <2> QED
    BY <2>2 DEF PanicEnds, Panicked, LastAnswer
<1>3. CASE HandlerSucceeds \/ HandlerPanicked
  BY <1>3 DEF HandlerSucceeds, HandlerPanicked, PanicEnds
<1>4. ASSUME handled' = handled,
             pc' = pc \/ pc \notin {"release", "end", "done"} \/ pc' \in {"end", "done"}
      PROVE  PanicEnds'
  BY <1>4 DEF PanicEnds, Panicked
<1>5. CASE StartChild \/ EndChild \/ Returned \/ AdmitOrRefuse \/ ReleaseCommandSlot
           \/ AttemptTimesOut \/ CallerGivesUp \/ Judge \/ WaitElapses \/ WaitCancelled
  BY <1>4, <1>5 DEF StartChild, EndChild, Returned, AdmitOrRefuse, ReleaseCommandSlot,
     AttemptTimesOut, CallerGivesUp, Judge, WaitElapses, WaitCancelled
<1>6. CASE BadRequest \/ TargetUnknown \/ Succeeded \/ DispatchFailed \/ UNCHANGED routeVars
  BY <1>4, <1>6 DEF BadRequest, TargetUnknown, Succeeded, DispatchFailed, Respond, routeVars
<1> QED
  BY <1>1, <1>2, <1>3, <1>5, <1>6 DEF RouteNext, DispatchRuns, RunNext

\* The one worker of the instance is registered.
LEMMA OnlyWorker == Runtime!Registered = {TheWorker}
BY DEF Runtime!Registered

\* A dispatch is seen as the command of WorkerRuntime.
Held(where) == [pc |-> where, worker |-> TheWorker, gen |-> 1]
Idle == [pc |-> "idle", worker |-> "none", gen |-> 0]

\* Where Dispatch stands is what WorkerRuntime distinguishes.
LEMMA CommandSeenIs ==
    ASSUME RouteTypeOK, RunInv
    PROVE  /\ pc \in {"attempt", "handling", "judge", "wait"} => CommandSeen = Held("running")
           /\ pc = "release" => CommandSeen = Held("finished")
           /\ pc \in {"start", "end", "done"} => CommandSeen = Idle
BY DEF RunInv, RouteTypeOK, CommandSeen, Held, Idle

\* The same after a step.
LEMMA NextCommandSeenIs ==
    ASSUME RouteTypeOK', RunInv'
    PROVE  /\ pc' \in {"attempt", "handling", "judge", "wait"} => CommandSeen' = Held("running")
           /\ pc' = "release" => CommandSeen' = Held("finished")
           /\ pc' \in {"start", "end", "done"} => CommandSeen' = Idle
BY DEF RunInv, RouteTypeOK, CommandSeen, Held, Idle

\* What makes a step an admission of WorkerRuntime (admitCommand).
LEMMA AdmitIs ==
    ASSUME CommandSeen = Idle, CommandSeen' = Held("running"),
           InService(WorkerSeen), WorkerSeen.generation = 1, WorkerSeen.inFlight = 0,
           WorkerSeen' = [WorkerSeen EXCEPT !.inFlight = @ + 1],
           WorkerSeen'.lifecycle = WorkerSeen.lifecycle, WorkerSeen'.ready = WorkerSeen.ready,
           WorkerSeen'.inFlight = 1
    PROVE  Runtime!Admit(TheDispatch, TheWorker)
<1> DEFINE cmd1 == [d \in {TheDispatch} |-> CommandSeen]
           ws1 == [w \in {TheWorker} |-> WorkerSeen]
           st1 == [state |-> WorkerSeen.lifecycle, ready |-> WorkerSeen.ready,
                   inFlight |-> WorkerSeen.inFlight]
<1>1. cmd1[TheDispatch].pc = "idle"
  BY DEF Idle
<1>2. ws1[TheWorker].lifecycle = "running" /\ ws1[TheWorker].acceptingWork
  BY DEF InService
<1>3. st1.state = "running" /\ st1.inFlight = 0 /\ ws1[TheWorker].inFlight = 0
  BY DEF InService
<1>4. ws1' = [ws1 EXCEPT ![TheWorker].inFlight = @ + 1]
  OBVIOUS
<1>5. st1' = [st1 EXCEPT !.inFlight = @ + 1]
  OBVIOUS
<1>6. cmd1' = [cmd1 EXCEPT ![TheDispatch] =
                 [pc |-> "running", worker |-> TheWorker, gen |-> ws1[TheWorker].generation]]
  BY DEF Held
<1>7. /\ Runtime!Under(st1.inFlight, 1)
      /\ Runtime!Under(ws1[TheWorker].inFlight, [w \in {TheWorker} |-> 1][TheWorker])
  BY <1>3 DEF Runtime!Under
<1> QED
  BY <1>1, <1>2, <1>3, <1>4, <1>5, <1>6, <1>7, OnlyWorker DEF Runtime!Admit

\* What makes it the return of a handler (executeCommand).
LEMMA ReturnsIs ==
    ASSUME CommandSeen = Held("running"), CommandSeen' = Held("finished"),
           WorkerSeen' = WorkerSeen
    PROVE  Runtime!HandlerReturns(TheDispatch)
<1> DEFINE cmd1 == [d \in {TheDispatch} |-> CommandSeen]
<1>1. cmd1[TheDispatch].pc = "running"
  BY DEF Held
<1>2. cmd1' = [cmd1 EXCEPT ![TheDispatch].pc = "finished"]
  BY DEF Held
<1> QED
  BY <1>1, <1>2 DEF Runtime!HandlerReturns, Runtime!HandlerReady, Runtime!Blocked

\* What makes it a failure that is retried (recordCommandFailure).
LEMMA FailsIs ==
    ASSUME CommandSeen = Held("running"), CommandSeen' = Held("running"),
           WorkerSeen.generation = 1,
           WorkerSeen' = [WorkerSeen EXCEPT !.lastCommandFailure = TRUE],
           WorkerSeen'.lifecycle = WorkerSeen.lifecycle, WorkerSeen'.ready = WorkerSeen.ready,
           WorkerSeen'.inFlight = WorkerSeen.inFlight
    PROVE  Runtime!HandlerFails(TheDispatch)
<1> DEFINE cmd1 == [d \in {TheDispatch} |-> CommandSeen]
           ws1 == [w \in {TheWorker} |-> WorkerSeen]
<1>1. cmd1[TheDispatch] = [pc |-> "running", worker |-> TheWorker, gen |-> 1]
  BY DEF Held
<1>2. Runtime!CommandFailed(ws1[TheWorker], 1) = WorkerSeen'
  BY DEF Runtime!CommandFailed
<1>4. ws1' = [ws1 EXCEPT ![cmd1[TheDispatch].worker] =
                 Runtime!CommandFailed(@, cmd1[TheDispatch].gen)]
  <2>1. ws1' = [ws1 EXCEPT ![TheWorker] = Runtime!CommandFailed(ws1[TheWorker], 1)]
    BY <1>2
  <2>2. cmd1[TheDispatch].worker = TheWorker /\ cmd1[TheDispatch].gen = 1
    BY <1>1
  <2> HIDE DEF cmd1, ws1
  <2> QED
    BY <2>1, <2>2
<1>3. cmd1' = [cmd1 EXCEPT ![TheDispatch].pc = "running"]
  BY DEF Held
<1> QED
  BY <1>1, <1>3, <1>4 DEF Runtime!HandlerFails, Runtime!HandlerReady, Runtime!Blocked

\* What makes it a panic: the aggregate is derived again (recordCommandPanic).
LEMMA PanicsIs ==
    ASSUME CommandSeen = Held("running"), CommandSeen' = Held("finished"),
           WorkerSeen.generation = 1, InService(WorkerSeen), OutOfService(WorkerSeen'),
           WorkerSeen' = [Runtime!Failed(WorkerSeen) EXCEPT !.lastCommandFailure = TRUE],
           WorkerSeen'.inFlight = WorkerSeen.inFlight
    PROVE  Runtime!HandlerPanics(TheDispatch)
<1> DEFINE cmd1 == [d \in {TheDispatch} |-> CommandSeen]
           ws1 == [w \in {TheWorker} |-> WorkerSeen]
           st1 == [state |-> WorkerSeen.lifecycle, ready |-> WorkerSeen.ready,
                   inFlight |-> WorkerSeen.inFlight]
<1>1. cmd1[TheDispatch] = [pc |-> "running", worker |-> TheWorker, gen |-> 1]
  BY DEF Held
<1>2. Runtime!CommandPanicked(WorkerSeen, 1) = WorkerSeen'
  BY DEF Runtime!CommandPanicked, InService
<1>3. ws1' = [ws1 EXCEPT ![TheWorker] = WorkerSeen']
  OBVIOUS
<1>4. Runtime!DeriveState({TheWorker}, ws1', st1.state) = "failed"
  BY DEF Runtime!DeriveState, Runtime!Some, Runtime!Every, Runtime!FailedUnder, OutOfService
<1>5. Runtime!DeriveReady({TheWorker}, ws1') = FALSE
  BY DEF Runtime!DeriveReady, Runtime!Some, Runtime!RunningReady, OutOfService
<1>6. st1' = Runtime!Recompute({TheWorker}, ws1', st1)
  <2>1. st1' = [state |-> "failed", ready |-> FALSE, inFlight |-> WorkerSeen.inFlight]
    BY DEF OutOfService
  <2>2. Runtime!Recompute({TheWorker}, ws1', st1) = [st1 EXCEPT !.state = "failed", !.ready = FALSE]
    BY <1>4, <1>5, Zenon DEF Runtime!Recompute
  <2> QED
    BY <2>1, <2>2
<1>7. cmd1' = [cmd1 EXCEPT ![TheDispatch].pc = "finished"]
  BY DEF Held
<1>8. WorkerSeen'.lifecycle # WorkerSeen.lifecycle
  BY DEF InService, OutOfService
<1>9. Runtime!Commit(TheWorker, WorkerSeen')
  BY <1>3, <1>6, OnlyWorker DEF Runtime!Commit
<1>10. Runtime!HandlerReady(TheDispatch)
  BY <1>1 DEF Runtime!HandlerReady, Runtime!Blocked
<1>11. /\ cmd1[TheDispatch].worker = TheWorker /\ cmd1[TheDispatch].gen = 1
       /\ ws1[TheWorker] = WorkerSeen
  BY <1>1
<1> QED
  <2> DEFINE s == Runtime!CommandPanicked(ws1[cmd1[TheDispatch].worker], cmd1[TheDispatch].gen)
  <2>1. s = WorkerSeen' /\ s.lifecycle # ws1[cmd1[TheDispatch].worker].lifecycle
    BY <1>2, <1>8, <1>11
  <2>2. Runtime!Commit(cmd1[TheDispatch].worker, s)
    BY <1>9, <1>11, <2>1
  <2> QED
    BY <1>7, <1>10, <2>1, <2>2, Zenon DEF Runtime!HandlerPanics

\* What makes it a release (releaseCommandSlot).
LEMMA ReleaseIs ==
    ASSUME CommandSeen = Held("finished"), CommandSeen' = Idle,
           WorkerSeen.inFlight = 1, WorkerSeen'.inFlight = 0,
           WorkerSeen' = [WorkerSeen EXCEPT !.inFlight = 0],
           WorkerSeen'.lifecycle = WorkerSeen.lifecycle, WorkerSeen'.ready = WorkerSeen.ready
    PROVE  Runtime!ReleaseSlot(TheDispatch)
<1> DEFINE cmd1 == [d \in {TheDispatch} |-> CommandSeen]
           ws1 == [w \in {TheWorker} |-> WorkerSeen]
           st1 == [state |-> WorkerSeen.lifecycle, ready |-> WorkerSeen.ready,
                   inFlight |-> WorkerSeen.inFlight]
<1>1. cmd1[TheDispatch] = [pc |-> "finished", worker |-> TheWorker, gen |-> 1]
  BY DEF Held
<1>2. Runtime!Decrement(1) = 0
  BY DEF Runtime!Decrement
<1>3. ws1' = [ws1 EXCEPT ![cmd1[TheDispatch].worker].inFlight = Runtime!Decrement(@)]
  BY <1>1, <1>2
<1>4. st1' = [st1 EXCEPT !.inFlight = Runtime!Decrement(@)]
  BY <1>2
<1>5. cmd1' = [cmd1 EXCEPT ![TheDispatch] = Runtime!IdleCommand]
  BY DEF Idle, Runtime!IdleCommand
<1> QED
  BY <1>1, <1>3, <1>4, <1>5 DEF Runtime!ReleaseSlot

\* A step of the execution that WorkerRuntime does not see.
LEMMA NothingSeen ==
    ASSUME slot' = slot, Panicked' <=> Panicked,
           (failures' = << >>) <=> (failures = << >>)
    PROVE  WorkerSeen' = WorkerSeen
<1>1. (failures' # << >>) = (failures # << >>)
  OBVIOUS
<1>2. (~ Panicked') = (~ Panicked)
  OBVIOUS
<1>3. /\ (IF Panicked' THEN "failed" ELSE "running") = (IF Panicked THEN "failed" ELSE "running")
      /\ (IF Panicked' THEN "primary" ELSE "nil") = (IF Panicked THEN "primary" ELSE "nil")
      /\ (IF slot' THEN 1 ELSE 0) = (IF slot THEN 1 ELSE 0)
  OBVIOUS
<1> QED
  BY <1>1, <1>2, <1>3, Zenon DEF WorkerSeen

\* A step that shows nowhere is a stutter of WorkerRuntime.
LEMMA Unseen ==
    ASSUME WorkerSeen' = WorkerSeen, CommandSeen' = CommandSeen
    PROVE  UNCHANGED Runtime!vars
BY DEF Runtime!vars

\* What a step leaves of the record: all but one field.
LEMMA CountSeen ==
    ASSUME NEW n \in Nat, Fresh(WorkerSeen), Fresh(WorkerSeen'), WorkerSeen'.inFlight = n,
           WorkerSeen'.lifecycle = WorkerSeen.lifecycle, WorkerSeen'.ready = WorkerSeen.ready,
           WorkerSeen'.acceptingWork = WorkerSeen.acceptingWork,
           WorkerSeen'.lastFailure = WorkerSeen.lastFailure,
           WorkerSeen'.lastCommandFailure = WorkerSeen.lastCommandFailure
    PROVE  WorkerSeen' = [WorkerSeen EXCEPT !.inFlight = n]
<1> DEFINE r == WorkerSeen
           s == [r EXCEPT !.inFlight = n]
<1>1. r \in Runtime!WorkerState /\ r' \in Runtime!WorkerState
  BY DEF Fresh
<1>2. /\ s \in Runtime!WorkerState /\ s.inFlight = n
      /\ s.generation = r.generation /\ s.lifecycle = r.lifecycle
      /\ s.ready = r.ready /\ s.acceptingWork = r.acceptingWork
      /\ s.readySetDuringStart = r.readySetDuringStart
      /\ s.acceptingWorkSetDuringStart = r.acceptingWorkSetDuringStart
      /\ s.failureReportedDuringStart = r.failureReportedDuringStart
      /\ s.lastFailure = r.lastFailure /\ s.lastCommandFailure = r.lastCommandFailure
  BY <1>1, CountEffects
<1> HIDE DEF s
<1>3. r' = s
  BY <1>1, <1>2, SameRecord DEF Fresh
<1> QED
  BY <1>3 DEF s

\* All but what recordCommandFailure sets.
LEMMA ToldSeen ==
    ASSUME Fresh(WorkerSeen), Fresh(WorkerSeen'), WorkerSeen'.inFlight = WorkerSeen.inFlight,
           InService(WorkerSeen), InService(WorkerSeen'),
           WorkerSeen'.lastCommandFailure = TRUE
    PROVE  WorkerSeen' = [WorkerSeen EXCEPT !.lastCommandFailure = TRUE]
<1> DEFINE r == WorkerSeen
           s == [r EXCEPT !.lastCommandFailure = TRUE]
<1>1. r \in Runtime!WorkerState /\ r' \in Runtime!WorkerState
  BY DEF Fresh
<1>2. /\ s \in Runtime!WorkerState /\ s.lastCommandFailure = TRUE
      /\ s.generation = r.generation /\ s.lifecycle = r.lifecycle
      /\ s.ready = r.ready /\ s.acceptingWork = r.acceptingWork
      /\ s.readySetDuringStart = r.readySetDuringStart
      /\ s.acceptingWorkSetDuringStart = r.acceptingWorkSetDuringStart
      /\ s.failureReportedDuringStart = r.failureReportedDuringStart
      /\ s.lastFailure = r.lastFailure /\ s.inFlight = r.inFlight
  BY <1>1, ToldEffects
<1> HIDE DEF s
<1>3. r' = s
  BY <1>1, <1>2, SameRecord DEF Fresh, InService
<1> QED
  BY <1>3 DEF s

\* All that recordCommandPanic sets.
LEMMA FailureSeen ==
    ASSUME Fresh(WorkerSeen), Fresh(WorkerSeen'), WorkerSeen'.inFlight = WorkerSeen.inFlight,
           OutOfService(WorkerSeen'), WorkerSeen'.lastCommandFailure = TRUE
    PROVE  WorkerSeen' = [Runtime!Failed(WorkerSeen) EXCEPT !.lastCommandFailure = TRUE]
<1> DEFINE r == WorkerSeen
           f == Runtime!Failed(r)
           s == [f EXCEPT !.lastCommandFailure = TRUE]
<1>1. r \in Runtime!WorkerState /\ r' \in Runtime!WorkerState
  BY DEF Fresh
<1>2. /\ f \in Runtime!WorkerState /\ f.generation = r.generation
      /\ OutOfService(f) /\ f.inFlight = r.inFlight
      /\ f.readySetDuringStart = FALSE /\ f.acceptingWorkSetDuringStart = FALSE
      /\ f.failureReportedDuringStart = FALSE
  BY <1>1, FailedEffects
<1> HIDE DEF f
<1>3. /\ s \in Runtime!WorkerState /\ s.lastCommandFailure = TRUE
      /\ s.generation = f.generation /\ s.lifecycle = f.lifecycle
      /\ s.ready = f.ready /\ s.acceptingWork = f.acceptingWork
      /\ s.readySetDuringStart = f.readySetDuringStart
      /\ s.acceptingWorkSetDuringStart = f.acceptingWorkSetDuringStart
      /\ s.failureReportedDuringStart = f.failureReportedDuringStart
      /\ s.lastFailure = f.lastFailure /\ s.inFlight = f.inFlight
  BY <1>2, ToldEffects
<1> HIDE DEF s
<1>4. Fresh(s) /\ OutOfService(s) /\ s.inFlight = r.inFlight
  BY <1>2, <1>3 DEF Fresh, OutOfService
<1>5. /\ r'.lifecycle = s.lifecycle /\ r'.ready = s.ready
      /\ r'.acceptingWork = s.acceptingWork /\ r'.lastFailure = s.lastFailure
  BY <1>4 DEF OutOfService
<1>6. r' = s
  BY <1>1, <1>3, <1>4, <1>5, SameRecord DEF Fresh
<1> QED
  BY <1>6 DEF s, f

\* admitCommand finds the worker in service and below its limit.
LEMMA AdmitFits ==
    ASSUME RouteTypeOK, RunInv, RouteTypeOK', RunInv', PanicEnds, AdmitOrRefuse
    PROVE  [Runtime!CommandStep(TheDispatch)]_(Runtime!vars)
<1>1. pc = "start" /\ slot = FALSE /\ handled' = handled /\ failures' = failures
  BY DEF AdmitOrRefuse, RunInv, RouteTypeOK
<1>2. ~ Panicked /\ ~ Panicked'
  BY <1>1 DEF PanicEnds, Panicked
<1>3. CASE pc' = "attempt" /\ slot' = TRUE
  <2>1. Fresh(WorkerSeen) /\ InService(WorkerSeen) /\ WorkerSeen.inFlight = 0
    BY <1>1, <1>2, Seen
  <2>2. Fresh(WorkerSeen') /\ InService(WorkerSeen') /\ WorkerSeen'.inFlight = 1
    BY <1>2, <1>3, NextSeen
  <2>3. WorkerSeen'.lastCommandFailure = WorkerSeen.lastCommandFailure
    BY <1>1, Seen, NextSeen
  <2>4. /\ WorkerSeen'.lifecycle = WorkerSeen.lifecycle
        /\ WorkerSeen'.ready = WorkerSeen.ready
        /\ WorkerSeen'.acceptingWork = WorkerSeen.acceptingWork
        /\ WorkerSeen'.lastFailure = WorkerSeen.lastFailure
    BY <2>1, <2>2 DEF InService
  <2>5. WorkerSeen' = [WorkerSeen EXCEPT !.inFlight = 1]
    BY <2>1, <2>2, <2>3, <2>4, CountSeen
  <2>6. WorkerSeen' = [WorkerSeen EXCEPT !.inFlight = @ + 1]
    BY <2>1, <2>5
  <2>7. CommandSeen = Idle /\ CommandSeen' = Held("running")
    BY <1>1, <1>3, CommandSeenIs, NextCommandSeenIs
  <2>8. Runtime!Admit(TheDispatch, TheWorker)
    BY <2>1, <2>2, <2>6, <2>7, AdmitIs DEF Fresh, InService
  <2> QED
    BY <2>8 DEF Runtime!CommandStep
<1>4. CASE pc' = "end" /\ slot' = slot
  <2>1. WorkerSeen' = WorkerSeen
    BY <1>1, <1>2, <1>4, NothingSeen
  <2>2. CommandSeen' = CommandSeen
    BY <1>1, <1>4, CommandSeenIs, NextCommandSeenIs
  <2> QED
    BY <2>1, <2>2, Unseen
<1> QED
  BY <1>3, <1>4 DEF AdmitOrRefuse

\* The execution is over: no call of the handler follows.
LEMMA ReturnFits ==
    ASSUME RouteTypeOK, RunInv, RouteTypeOK', RunInv', ~ Panicked, ~ Panicked',
           pc \in {"handling", "judge", "wait"}, pc' = "release", failures' = failures
    PROVE  [Runtime!CommandStep(TheDispatch)]_(Runtime!vars)
<1>1. slot = TRUE /\ slot' = TRUE
  BY DEF RunInv
<1>2. WorkerSeen' = WorkerSeen
  BY <1>1, NothingSeen
<1>3. CommandSeen = Held("running") /\ CommandSeen' = Held("finished")
  BY CommandSeenIs, NextCommandSeenIs
<1> QED
  BY <1>2, <1>3, ReturnsIs DEF Runtime!CommandStep

\* recordCommandFailure leaves the worker in service.
LEMMA FailFits ==
    ASSUME RouteTypeOK, RunInv, RouteTypeOK', RunInv', PanicEnds, PanicEnds', HandlerErrs
    PROVE  [Runtime!CommandStep(TheDispatch)]_(Runtime!vars)
<1>1. pc = "handling" /\ pc' = "judge" /\ slot = TRUE /\ slot' = TRUE
  BY DEF HandlerErrs, RunInv
<1>2. ~ Panicked /\ ~ Panicked'
  BY <1>1 DEF PanicEnds
<1>3. failures' # << >>
  <2>1. failures \in Seq(Nat) /\ failures' = Append(failures, attempt) /\ attempt \in Nat
    BY DEF HandlerErrs, FailureTold, RouteTypeOK
  <2> QED
    BY <2>1
<1>4. /\ Fresh(WorkerSeen) /\ InService(WorkerSeen) /\ WorkerSeen.inFlight = 1
      /\ Fresh(WorkerSeen') /\ InService(WorkerSeen') /\ WorkerSeen'.inFlight = 1
      /\ WorkerSeen'.lastCommandFailure = TRUE
  BY <1>1, <1>2, <1>3, Seen, NextSeen
<1>5. WorkerSeen' = [WorkerSeen EXCEPT !.lastCommandFailure = TRUE]
  BY <1>4, ToldSeen
<1>6. CommandSeen = Held("running") /\ CommandSeen' = Held("running")
  BY <1>1, CommandSeenIs, NextCommandSeenIs
<1>7. Runtime!HandlerFails(TheDispatch)
  BY <1>4, <1>5, <1>6, FailsIs DEF Fresh, InService
<1> QED
  BY <1>7 DEF Runtime!CommandStep

\* recordCommandPanic takes the worker out of service.
LEMMA PanicFits ==
    ASSUME RouteTypeOK, RunInv, RouteTypeOK', RunInv', PanicEnds, HandlerPanicked
    PROVE  [Runtime!CommandStep(TheDispatch)]_(Runtime!vars)
<1>1. pc = "handling" /\ pc' = "release" /\ slot = TRUE /\ slot' = TRUE
  BY DEF HandlerPanicked, RunInv
<1>2. ~ Panicked
  BY <1>1 DEF PanicEnds
<1>3. failures' # << >>
  <2>1. failures \in Seq(Nat) /\ failures' = Append(failures, attempts) /\ attempts \in Nat
    BY DEF HandlerPanicked, FailureTold, RouteTypeOK
  <2> QED
    BY <2>1
<1>4. Panicked'
  <2>1. Len(handled) \in Nat /\ Len(handled) # 0
    BY <1>1 DEF RunInv, Counted, RouteTypeOK
  <2>2. Len(handled') = Len(handled) /\ LastAnswer' = "panic"
    BY <2>1, AnswerIsLast DEF HandlerPanicked
  <2>3. handled' # << >>
    BY <2>1, <2>2
  <2> QED
    BY <2>2, <2>3 DEF Panicked, LastAnswer
<1>5. /\ Fresh(WorkerSeen) /\ InService(WorkerSeen) /\ WorkerSeen.inFlight = 1
      /\ Fresh(WorkerSeen') /\ OutOfService(WorkerSeen') /\ WorkerSeen'.inFlight = 1
      /\ WorkerSeen'.lastCommandFailure = TRUE
  BY <1>1, <1>2, <1>3, <1>4, Seen, NextSeen
<1>6. WorkerSeen' = [Runtime!Failed(WorkerSeen) EXCEPT !.lastCommandFailure = TRUE]
  BY <1>5, FailureSeen
<1>7. CommandSeen = Held("running") /\ CommandSeen' = Held("finished")
  BY <1>1, CommandSeenIs, NextCommandSeenIs
<1>8. Runtime!HandlerPanics(TheDispatch)
  BY <1>5, <1>6, <1>7, PanicsIs DEF Fresh
<1> QED
  BY <1>8 DEF Runtime!CommandStep

\* releaseCommandSlot, whatever came of the execution.
LEMMA ReleaseFits ==
    ASSUME RouteTypeOK, RunInv, RouteTypeOK', RunInv', ReleaseCommandSlot
    PROVE  [Runtime!CommandStep(TheDispatch)]_(Runtime!vars)
<1>1. /\ pc = "release" /\ pc' = "end" /\ slot = TRUE /\ slot' = FALSE
      /\ handled' = handled /\ failures' = failures
  BY DEF ReleaseCommandSlot, RunInv
<1>2. Panicked' <=> Panicked
  BY <1>1 DEF Panicked
<1>3. Fresh(WorkerSeen) /\ Fresh(WorkerSeen') /\ WorkerSeen.inFlight = 1 /\ WorkerSeen'.inFlight = 0
  BY <1>1, Seen, NextSeen
<1>4. /\ WorkerSeen'.lifecycle = WorkerSeen.lifecycle /\ WorkerSeen'.ready = WorkerSeen.ready
      /\ WorkerSeen'.acceptingWork = WorkerSeen.acceptingWork
      /\ WorkerSeen'.lastFailure = WorkerSeen.lastFailure
  BY <1>2, Seen, NextSeen DEF InService, OutOfService
<1>5. WorkerSeen'.lastCommandFailure = WorkerSeen.lastCommandFailure
  BY <1>1, Seen, NextSeen
<1>6. WorkerSeen' = [WorkerSeen EXCEPT !.inFlight = 0]
  BY <1>3, <1>4, <1>5, CountSeen
<1>7. CommandSeen = Held("finished") /\ CommandSeen' = Idle
  BY <1>1, CommandSeenIs, NextCommandSeenIs
<1>8. Runtime!ReleaseSlot(TheDispatch)
  BY <1>3, <1>4, <1>6, <1>7, ReleaseIs
<1> QED
  BY <1>8 DEF Runtime!CommandStep

\* Observers, deadlines, the policy and the route do not show in the status.
LEMMA NothingFits ==
    ASSUME RouteTypeOK, RunInv, RouteTypeOK', RunInv', Panicked' <=> Panicked,
           failures' = failures,
           \/ pc' = pc
           \/ {pc, pc'} \subseteq {"attempt", "handling", "judge", "wait"}
           \/ {pc, pc'} \subseteq {"start", "end", "done"}
    PROVE  [Runtime!CommandStep(TheDispatch)]_(Runtime!vars)
<1>1. slot' = slot
  <2> DEFINE Holding == {"attempt", "handling", "judge", "wait", "release"}
  <2>1. (slot = TRUE <=> pc \in Holding) /\ (slot' = TRUE <=> pc' \in Holding)
    BY DEF RunInv
  <2>2. pc' \in Holding <=> pc \in Holding
    OBVIOUS
  <2>3. slot \in BOOLEAN /\ slot' \in BOOLEAN
    BY DEF RouteTypeOK
  <2> QED
    BY <2>1, <2>2, <2>3
<1>2. WorkerSeen' = WorkerSeen
  BY <1>1, NothingSeen
<1>3. CommandSeen' = CommandSeen
  BY CommandSeenIs, NextCommandSeenIs DEF RouteTypeOK
<1> QED
  BY <1>2, <1>3, Unseen

\* Each step of the execution fits.
LEMMA RunStepFits ==
    ASSUME RouteTypeOK, RunInv, RouteTypeOK', RunInv', PanicEnds, PanicEnds', RunNext
    PROVE  [Runtime!CommandStep(TheDispatch)]_(Runtime!vars)
<1>1. CASE StartChild \/ EndChild \/ AttemptTimesOut \/ CallerGivesUp
  <2>1. UNCHANGED <<pc, handled, failures>>
    BY <1>1 DEF StartChild, EndChild, AttemptTimesOut, CallerGivesUp
  <2>2. Panicked' <=> Panicked
    BY <2>1 DEF Panicked
  <2> QED
    BY <2>1, <2>2, NothingFits
<1>2. CASE Returned \/ WaitElapses
  <2>1. /\ UNCHANGED <<handled, failures>>
        /\ (pc = "end" /\ pc' = "done") \/ (pc = "wait" /\ pc' = "attempt")
    BY <1>2 DEF Returned, WaitElapses
  <2>2. Panicked' <=> Panicked
    BY <2>1 DEF Panicked
  <2> QED
    BY <2>1, <2>2, NothingFits
<1>3. CASE BeginAttempt
  <2>1. pc = "attempt" /\ pc' = "handling" /\ failures' = failures
    BY <1>3 DEF BeginAttempt
  <2>2. ~ Panicked /\ ~ Panicked'
    BY <2>1 DEF PanicEnds
  <2> QED
    BY <2>1, <2>2, NothingFits
<1>4. CASE HandlerSucceeds
  <2>1. pc = "handling" /\ pc' = "release" /\ failures' = failures
    BY <1>4 DEF HandlerSucceeds
  <2>2. ~ Panicked
    BY <2>1 DEF PanicEnds
  <2>3. ~ Panicked'
    <3>1. Len(handled) # 0
      BY <2>1 DEF RunInv, Counted, RouteTypeOK
    <3>2. LastAnswer' = "ok"
      BY <1>4, <3>1, AnswerIsLast DEF HandlerSucceeds
    <3> QED
      BY <3>2 DEF Panicked, LastAnswer
  <2> QED
    BY <2>1, <2>2, <2>3, ReturnFits
<1>5. CASE Judge \/ WaitCancelled
  <2>1. /\ pc \in {"judge", "wait"} /\ UNCHANGED <<handled, failures>>
        /\ pc' = "release" \/ (pc = "judge" /\ pc' = "wait")
    BY <1>5 DEF Judge, WaitCancelled
  <2>2. ~ Panicked /\ ~ Panicked'
    BY <2>1 DEF PanicEnds, Panicked
  <2> QED
    BY <2>1, <2>2, ReturnFits, NothingFits
<1> QED
  BY <1>1, <1>2, <1>3, <1>4, <1>5, AdmitFits, FailFits, PanicFits, ReleaseFits DEF RunNext

\* And each step of the route.
LEMMA RouteStepFits ==
    ASSUME RouteTypeOK, RunInv, RouteTypeOK', RunInv', PanicEnds, PanicEnds',
           [RouteNext]_routeVars
    PROVE  [Runtime!CommandStep(TheDispatch)]_(Runtime!vars)
<1>1. CASE DispatchRuns
  BY <1>1, RunStepFits DEF DispatchRuns
<1>2. CASE BadRequest \/ TargetUnknown \/ Succeeded \/ DispatchFailed \/ UNCHANGED routeVars
  <2>1. UNCHANGED <<pc, handled, failures>>
    BY <1>2 DEF BadRequest, TargetUnknown, Succeeded, DispatchFailed, Respond, routeVars
  <2>2. Panicked' <=> Panicked
    BY <2>1 DEF Panicked
  <2> QED
    BY <2>1, <2>2, NothingFits
<1> QED
  BY <1>1, <1>2 DEF RouteNext

\* What a dispatch does to the status is what WorkerRuntime takes for a step, for
\* any policy, any observers and any errors (admitCommand, executeCommand,
\* recordCommandPanic, releaseCommandSlot).
THEOREM DispatchTakesRuntimeSteps == RouteSpec => TakesRuntimeSteps
<1>1. RouteInit => PanicEnds
  BY DEF RouteInit, RunInit, PanicEnds, Panicked
<1>2. RouteTypeOK /\ CommandInv /\ PanicEnds /\ [RouteNext]_routeVars => PanicEnds'
  BY PanicEndsStep DEF CommandInv
<1>3. /\ RouteTypeOK /\ CommandInv /\ PanicEnds
      /\ (RouteTypeOK /\ CommandInv)' /\ PanicEnds' /\ [RouteNext]_routeVars
      => [Runtime!CommandStep(TheDispatch)]_(Runtime!vars)
  BY RouteStepFits DEF CommandInv
<1>4. RouteSpec => [](RouteTypeOK /\ CommandInv)
  BY CommandInvariant
<1>5. RouteSpec => []PanicEnds
  BY <1>1, <1>2, <1>4, PTL DEF RouteSpec
<1> QED
  BY <1>3, <1>4, <1>5, PTL DEF RouteSpec, TakesRuntimeSteps
=============================================================================
