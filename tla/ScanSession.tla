---------------------------- MODULE ScanSession ----------------------------
(***************************************************************************)
(* ScanForDurationContext (internal/bluetooth/scan.go): one BLE scan with  *)
(* the goroutines that outlive it.  Around the body run the platform's     *)
(* blocking Scan call, the duration timer, the watcher of the caller's     *)
(* context and the goroutine of the platform stop.  The platform may hang  *)
(* in any of its calls; every wait of the body is bounded.                 *)
(*                                                                         *)
(* The module follows one session.  Another one is refused while it owns   *)
(* the slot activeScan, and meets nothing of it afterwards: the platform   *)
(* hands over the identity of the scan it has started, so that a late stop *)
(* reaches its own scan only.                                              *)
(***************************************************************************)
VARIABLES
    session,        \* the scanSession record, its body and its goroutines
    ctx             \* the caller's context: "live", "cancelled", "expired" or
                    \* "released", cancelled by the caller when all is over

sessionVars == <<session, ctx>>

Bodies == {"none", "waiting", "grace", "abandon", "startGrace", "finishing", "stopWait",
           "timerWait", "clearing", "settling", "done"}
\* The platform's Scan: called, its watcher accepted, its timer armed, returned
\* and its outcome published.
Platforms == {"none", "called", "accepted", "live", "returned", "published"}
Errors == {"nil", "unavailable", "other", "startTimeout"}
Outcomes == {"none", "results", "unavailable", "failed", "timedOut", "cancelled", "stopFailed"}

SessionType ==
    [body : Bodies, started : BOOLEAN, finished : BOOLEAN, platformDone : BOOLEAN,
     reason : {"none", "duration", "cancelled"}, latched : BOOLEAN, intent : BOOLEAN,
     awaited : BOOLEAN, stop : {"none", "issued", "over"}, stopDone : BOOLEAN,
     stopErr : {"nil", "failed", "wedged", "abandoned"},
     timer : {"off", "armed", "fired", "over"}, watcher : {"on", "off"},
     platform : Platforms, result : Errors, scanErr : Errors, wedged : BOOLEAN,
     outcome : Outcomes]

Unopened ==
    [body |-> "none", started |-> FALSE, finished |-> FALSE, platformDone |-> FALSE,
     reason |-> "none", latched |-> FALSE, intent |-> FALSE, awaited |-> FALSE,
     stop |-> "none", stopDone |-> FALSE, stopErr |-> "nil", timer |-> "off",
     watcher |-> "on", platform |-> "none", result |-> "nil", scanErr |-> "nil", wedged |-> FALSE,
     outcome |-> "none"]

SessionInit == session = Unopened /\ ctx = "live"

Set(r) == session' = r /\ ctx' = ctx
Body(pc) == session.body = pc
ContextOver == ctx # "live"

-----------------------------------------------------------------------------
(* Stops.                                                                  *)
(***************************************************************************)
\* requestStopAsync: a scan that has ended by itself takes no reason any more;
\* a cancellation overrides the duration, which stays latched.
Requested(r, reason) ==
    IF r.finished \/ r.platformDone THEN r
    ELSE [r EXCEPT
            !.reason = IF @ = "none" \/ reason = "cancelled" THEN reason ELSE @,
            !.latched = @ \/ (reason = "duration" /\ r.reason = "none"),
            !.intent = @ \/ r.started]

\* requestStop: the asynchronous request, and a bounded wait unless the scan has
\* not started or is over.
RequestedAndAwaited(r, reason) ==
    [Requested(r, reason) EXCEPT !.awaited = @ \/ (r.started /\ ~r.finished)]

\* issueStop: the stop goroutine is started once, for a scan that has started.
IssueStop ==
    LET r == session IN
    /\ r.intent
    /\ Set([r EXCEPT !.intent = FALSE,
                  !.stop = IF @ = "none" /\ r.started THEN "issued" ELSE @])

\* The platform's stop returns: with success (a watcher that has ended by itself
\* counts as stopped), with an error, or giving up on a call that hangs.
StopReturns ==
    LET r == session IN
    /\ r.stop = "issued"
    /\ \E err \in {"nil", "failed", "wedged"} :
          Set([r EXCEPT !.stop = "over", !.stopDone = TRUE,
                     !.stopErr = IF @ = "nil" THEN err ELSE @])

\* awaitStop runs out of its budget and records the stop as abandoned.
AbandonStop ==
    LET r == session IN
    /\ r.awaited /\ ~r.intent /\ ~r.stopDone
    /\ Set([r EXCEPT !.stopDone = TRUE,
                  !.stopErr = IF @ = "nil" THEN "abandoned" ELSE @])

\* The watcher of the caller's context requests a stop, unless the body has
\* released it.
ContextStops ==
    LET r == session IN
    /\ ContextOver /\ r.watcher = "on" /\ r.body \notin {"none", "done"}
    /\ Set([RequestedAndAwaited(r, "cancelled") EXCEPT !.watcher = "off"])

TimerFires ==
    /\ session.timer = "armed"
    /\ Set([session EXCEPT !.timer = "fired"])

TimerStops ==
    LET r == session IN
    /\ r.timer = "fired"
    /\ Set([RequestedAndAwaited(r, "duration") EXCEPT !.timer = "over"])

-----------------------------------------------------------------------------
(* The platform's Scan call, on a goroutine of its own.                    *)
(***************************************************************************)
\* Mutant: a scan that has been given up is not stopped when it starts after all.
AcceptedUnlessFinished ==
    LET r == session IN
    /\ r.platform = "called"
    /\ Set([r EXCEPT !.platform = "accepted", !.started = TRUE,
                  !.intent = @ \/ (r.reason # "none" /\ ~r.finished)])

\* markStarted: a reason recorded before the start issues its stop now, for a
\* scan that has been given up meanwhile too.
Accepted ==
    LET r == session IN
    /\ r.platform = "called"
    /\ Set([r EXCEPT !.platform = "accepted", !.started = TRUE,
                  !.intent = @ \/ r.reason # "none"])

ArmTimer ==
    /\ session.platform = "accepted"
    /\ Set([session EXCEPT !.platform = "live", !.timer = "armed"])

\* Scan fails before it has started, or ends: stopped, by itself or failing.
ScanReturns ==
    LET r == session IN
    /\ r.platform \in {"called", "live"}
    /\ \E err \in {"nil", "unavailable", "other"} :
          /\ r.platform = "called" => err # "nil"
          /\ Set([r EXCEPT !.platform = "returned", !.result = err])

\* The outcome counts as delivered before the body can receive it.
Publish ==
    /\ session.platform = "returned"
    /\ Set([session EXCEPT !.platform = "published", !.platformDone = TRUE])

-----------------------------------------------------------------------------
(* The body.                                                               *)
(***************************************************************************)
\* A scan whose context is over does not open.
Open ==
    /\ Body("none") /\ ~ContextOver
    /\ Set([Unopened EXCEPT !.body = "waiting", !.platform = "called"])

\* The body leaves its wait with an error of the scan.
Leave(err, wedged) ==
    Set([session EXCEPT !.body = "finishing", !.scanErr = err, !.wedged = wedged])

Published == session.platform = "published"

Receive ==
    /\ Body("waiting") /\ Published
    /\ Leave(session.result, FALSE)

\* The stop is over or abandoned: the platform's call has a grace to return.
SeeStop ==
    /\ Body("waiting") /\ session.stopDone
    /\ Set([session EXCEPT !.body = "grace"])

GraceEnds ==
    /\ Body("grace")
    /\ IF Published THEN Leave(session.result, FALSE) ELSE Leave("nil", TRUE)

\* The budget of the start runs out on a scan that has not started.
StartBudgetEnds ==
    /\ Body("waiting") /\ ~session.started
    /\ Set([session EXCEPT !.body = "abandon"])

\* abandonStart: a stop stays requested, should the scan start after all.
AbandonStart ==
    LET r == session IN
    /\ Body("abandon")
    /\ Set([r EXCEPT !.body = "startGrace", !.intent = @ \/ r.started,
                  !.reason = IF @ = "none" THEN "cancelled" ELSE @])

\* An error that the platform reports meanwhile wins over the timeout.
StartGraceEnds ==
    LET r == session IN
    /\ Body("startGrace")
    /\ Leave(IF Published /\ r.result # "nil" THEN r.result ELSE "startTimeout", TRUE)

\* markFinished: with no stop issued there is none to wait for.
MarkFinished ==
    LET r == session IN
    /\ Body("finishing")
    /\ Set(IF r.stop = "none"
              THEN [r EXCEPT !.finished = TRUE, !.stopDone = TRUE, !.body = "timerWait"]
              ELSE [r EXCEPT !.finished = TRUE, !.awaited = @ \/ ~r.wedged,
                             !.body = IF r.wedged THEN "timerWait" ELSE "stopWait"])

WaitForIssuedStop ==
    /\ Body("stopWait") /\ session.stopDone
    /\ Set([session EXCEPT !.body = "timerWait"])

\* A timer that has fired already is given the time to finish with this scan.
StopTimer ==
    LET r == session IN
    /\ Body("timerWait")
    /\ IF r.timer \in {"off", "armed"}
       THEN Set([r EXCEPT !.body = "clearing", !.timer = IF @ = "armed" THEN "over" ELSE @])
       ELSE IF r.stopDone
       THEN Set([r EXCEPT !.body = "clearing"])
       ELSE ~r.awaited /\ Set([r EXCEPT !.awaited = TRUE])

\* A clean end of the scan proves that its stop has succeeded in the end.
ClearStopError ==
    LET r == session IN
    /\ Body("clearing")
    /\ Set([r EXCEPT !.body = "settling",
                  !.stopErr = IF ~r.wedged /\ r.scanErr = "nil" THEN "nil" ELSE @])

Failure(err) == IF err = "unavailable" THEN "unavailable" ELSE "failed"

\* What a cancelled scan, or one whose context is over, reports.
Interrupted(r, context) ==
    IF r.scanErr # "nil" /\ (r.scanErr \in {"unavailable", "startTimeout"} \/ ~r.started)
    THEN Failure(r.scanErr)
    ELSE IF context = "expired" THEN "timedOut"
    ELSE IF r.stopErr = "failed" THEN "stopFailed"
    ELSE "cancelled"

\* Mutant: an interrupted scan hides the loss of the adapter.
OutcomeOfInterrupted(r, context) ==
    IF r.latched THEN "results"
    ELSE IF r.reason = "cancelled" \/ context # "live" THEN "cancelled"
    ELSE IF r.scanErr # "nil" THEN Failure(r.scanErr)
    ELSE IF r.reason # "duration" THEN "failed"
    ELSE "results"

\* A scan that has run its duration keeps its results however its stop went,
\* unless the adapter is lost.
OutcomeOf(r, context) ==
    IF r.latched /\ r.scanErr # "unavailable" THEN "results"
    ELSE IF r.reason = "cancelled" \/ (context # "live" /\ (r.reason # "none" \/ r.scanErr # "nil"))
    THEN Interrupted(r, context)
    ELSE IF r.scanErr # "nil" THEN Failure(r.scanErr)
    ELSE IF r.reason # "duration" THEN "failed"
    ELSE IF r.stopErr # "nil" THEN "stopFailed"
    ELSE "results"

\* The body returns: the context watcher and the slot are released.
Settle ==
    LET r == session IN
    /\ Body("settling")
    /\ Set([r EXCEPT !.body = "done", !.outcome = OutcomeOf(r, ctx)])

StopStep ==
    \/ IssueStop \/ AbandonStop \/ ContextStops \/ TimerFires \/ TimerStops

BodyStep ==
    \/ Receive \/ SeeStop \/ GraceEnds
    \/ StartBudgetEnds \/ AbandonStart \/ StartGraceEnds
    \/ MarkFinished \/ WaitForIssuedStop \/ StopTimer
    \/ ClearStopError \/ Settle

\* What the platform does it may also never do.
PlatformStep == Accepted \/ ScanReturns \/ StopReturns

SessionStep ==
    \/ StopStep \/ BodyStep \/ PlatformStep \/ ArmTimer \/ Publish

====
