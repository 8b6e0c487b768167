----------------------------- MODULE ScanProofs -----------------------------
(***************************************************************************)
(* What holds of every scan of ScanLifecycle: one inductive invariant,     *)
(* ScanIInv, which ties the worker of the scan to the slot, the operation, *)
(* the session and the drain beside it, and the safety properties of the   *)
(* module that follow from it.                                             *)
(***************************************************************************)
EXTENDS ScanLifecycle, TLAPS

\* The workers that have ended the scan, and those that hold the operation.
Over == {"ended", "notifying", "done"}
Holding == {"ready", "check", "running", "release", "opening", "scanning", "reading", "finishing"}

\* The caller makes the slot and the worker; the worker gives the slot back
\* with a terminal status (reserveScan, finishScan).
SlotShape ==
    /\ worker = "none" <=> caller \in {"idle", "publish", "reserved"}
    /\ slot = "free" <=> caller = "idle"
    /\ slot = "publishing" <=> caller = "publish"
    /\ slot = "released" <=> worker \in Over
    /\ worker \in Over => status \in Terminals

\* The operation is held from the preparation to the end of the scan, and the
\* session is opened and ended between (prepareScan, scanAndFetchStations).
WorkShape ==
    /\ worker \in Holding => operation
    /\ operation => worker \in Holding \cup {"aborting"}
    /\ worker \notin {"scanning", "reading", "finishing"} \cup Over => Body("none")
    /\ worker \in {"reading", "finishing"} \cup Over => session.body \in {"none", "done"}

\* The drain begins with the flag that keeps new scans out, and goes on from
\* operationWg when no operation is left.
DrainShape ==
    /\ drain # "none" => shuttingDown
    /\ drainStop # "none" => shuttingDown
    /\ drainStop = "nil" => slot \in {"free", "released"}
    /\ drain \in {"asyncScans", "disconnecting"} => ~operation

\* The session never hides the loss of the adapter.
ScanIInv == TypeOK /\ SlotShape /\ WorkShape /\ DrainShape /\ AdapterLossReported

-----------------------------------------------------------------------------
(* The session.                                                            *)

\* A step beside the body leaves its place, its error and its outcome alone.
Carried ==
    /\ session' \in SessionType /\ ctx' = ctx
    /\ session'.body = session.body
    /\ session'.scanErr = session.scanErr /\ session'.outcome = session.outcome

\* A step of the body is one of an open session, and ends it honestly.
Advanced ==
    /\ session' \in SessionType /\ ctx' = ctx
    /\ session.body \notin {"none", "done"} /\ session'.body # "none"
    /\ AdapterLossReported'

\* The fields of a session, each in its set.
LEMMA SessionFields ==
  ASSUME NEW r \in SessionType
  PROVE  /\ r.body \in Bodies /\ r.stop \in {"none", "issued", "over"}
         /\ {r.started, r.finished, r.platformDone, r.latched, r.intent, r.awaited, r.stopDone,
             r.wedged} \subseteq BOOLEAN
         /\ r.reason \in {"none", "duration", "cancelled"}
         /\ r.stopErr \in {"nil", "failed", "wedged", "abandoned"}
         /\ r.timer \in {"off", "armed", "fired", "over"} /\ r.platform \in Platforms
         /\ r.result \in Errors /\ r.scanErr \in Errors /\ r.outcome \in Outcomes
BY DEF SessionType

\* requestStopAsync touches the reason and the intent of a stop only.
LEMMA RequestedShape ==
  ASSUME NEW r \in SessionType, NEW reason \in {"duration", "cancelled"}
  PROVE  /\ Requested(r, reason) \in SessionType
         /\ Requested(r, reason).body = r.body
         /\ Requested(r, reason).scanErr = r.scanErr /\ Requested(r, reason).outcome = r.outcome
<1>1. CASE r.finished \/ r.platformDone
  BY <1>1 DEF Requested
<1>2. CASE ~(r.finished \/ r.platformDone)
  <2>1. PICK i \in BOOLEAN : i = (r.intent \/ r.started)
    BY SessionFields
  <2>2. PICK l \in BOOLEAN : l = (r.latched \/ (reason = "duration" /\ r.reason = "none"))
    BY SessionFields
  <2>3. PICK w \in {"none", "duration", "cancelled"} :
             w = (IF r.reason = "none" \/ reason = "cancelled" THEN reason ELSE r.reason)
    BY SessionFields
  <2>4. Requested(r, reason) = [r EXCEPT !.reason = w, !.latched = l, !.intent = i]
    BY <1>2, <2>1, <2>2, <2>3 DEF Requested, SessionType
  <2> QED BY <2>4, ZenonT(40) DEF SessionType
<1> QED BY <1>1, <1>2

\* requestStop waits besides.
LEMMA AwaitedShape ==
  ASSUME NEW r \in SessionType, NEW reason \in {"duration", "cancelled"}
  PROVE  /\ RequestedAndAwaited(r, reason) \in SessionType
         /\ RequestedAndAwaited(r, reason).body = r.body
         /\ RequestedAndAwaited(r, reason).scanErr = r.scanErr
         /\ RequestedAndAwaited(r, reason).outcome = r.outcome
<1>1. PICK q \in SessionType : q = Requested(r, reason)
  BY RequestedShape
<1>2. PICK a \in BOOLEAN : a = (q.awaited \/ (r.started /\ ~r.finished))
  BY SessionFields
<1>3. RequestedAndAwaited(r, reason) = [q EXCEPT !.awaited = a]
  BY <1>1, <1>2 DEF RequestedAndAwaited, SessionType
<1> QED BY <1>1, <1>3, RequestedShape DEF SessionType

\* The steps beside the body, one by one.
LEMMA CarriedStep ==
  ASSUME session \in SessionType, StopStep \/ PlatformStep \/ ArmTimer \/ Publish
  PROVE  Carried
<1> USE DEF Set, Carried
<1>1. CASE IssueStop
  <2>1. PICK t \in {"none", "issued", "over"} :
             t = (IF session.stop = "none" /\ session.started THEN "issued" ELSE session.stop)
    BY SessionFields
  <2>2. session' = [session EXCEPT !.intent = FALSE, !.stop = t] /\ ctx' = ctx
    BY <1>1, <2>1 DEF IssueStop, SessionType
  <2> QED BY <2>2 DEF SessionType
<1>2. CASE StopReturns
  <2>1. PICK e \in {"nil", "failed", "wedged"} :
             session' = [session EXCEPT !.stop = "over", !.stopDone = TRUE,
                            !.stopErr = IF @ = "nil" THEN e ELSE @]
    BY <1>2 DEF StopReturns
  <2>2. PICK f \in {"nil", "failed", "wedged", "abandoned"} :
             f = (IF session.stopErr = "nil" THEN e ELSE session.stopErr)
    BY SessionFields
  <2>3. session' = [session EXCEPT !.stop = "over", !.stopDone = TRUE, !.stopErr = f]
    BY <2>1, <2>2 DEF SessionType
  <2>4. ctx' = ctx
    BY <1>2 DEF StopReturns
  <2> QED BY <2>3, <2>4 DEF SessionType
<1>3. CASE AbandonStop
  BY <1>3, SessionFields, ZenonT(40) DEF AbandonStop, SessionType, Platforms, Errors
<1>4. CASE ContextStops
  BY <1>4, SessionFields, AwaitedShape DEF ContextStops, SessionType, Platforms, Errors
<1>5. CASE TimerFires
  BY <1>5, SessionFields DEF TimerFires, SessionType, Platforms, Errors
<1>6. CASE TimerStops
  BY <1>6, SessionFields, AwaitedShape DEF TimerStops, SessionType, Platforms, Errors
<1>7. CASE Accepted
  <2>1. PICK i \in BOOLEAN : i = (session.intent \/ session.reason # "none")
    BY SessionFields
  <2>2. /\ session' = [session EXCEPT !.platform = "accepted", !.started = TRUE, !.intent = i]
        /\ ctx' = ctx
    BY <1>7, <2>1 DEF Accepted, SessionType
  <2> QED BY <2>2, ZenonT(40) DEF SessionType, Platforms
<1>8. CASE ArmTimer
  BY <1>8, SessionFields DEF ArmTimer, SessionType, Platforms, Errors
<1>9. CASE ScanReturns
  <2>1. PICK e \in Errors :
             session' = [session EXCEPT !.platform = "returned", !.result = e]
    BY <1>9 DEF ScanReturns, Errors
  <2>2. ctx' = ctx
    BY <1>9 DEF ScanReturns
  <2> QED BY <2>1, <2>2, ZenonT(40) DEF SessionType, Platforms
<1>10. CASE Publish
  BY <1>10, SessionFields DEF Publish, SessionType, Platforms, Errors
<1> QED BY <1>1, <1>2, <1>3, <1>4, <1>5, <1>6, <1>7, <1>8, <1>9, <1>10 DEF StopStep, PlatformStep

\* Whatever else has happened, a session that has lost its adapter says so.
LEMMA LossIsReported ==
  ASSUME NEW r \in SessionType, r.scanErr = "unavailable", NEW context
  PROVE  OutcomeOf(r, context) = "unavailable"
BY DEF OutcomeOf, Interrupted, Failure

LEMMA OutcomeInType ==
  ASSUME NEW r \in SessionType, NEW context
  PROVE  OutcomeOf(r, context) \in Outcomes
BY DEF OutcomeOf, Interrupted, Failure, Outcomes

\* The steps of the body, one by one.
LEMMA AdvancedStep ==
  ASSUME session \in SessionType, BodyStep
  PROVE  Advanced
<1> USE DEF Set, Advanced, Body, AdapterLossReported
<1>1. CASE Receive
  <2>1. /\ session' = [session EXCEPT !.body = "finishing", !.scanErr = session.result,
                                      !.wedged = FALSE]
        /\ ctx' = ctx /\ session.body = "waiting"
    BY <1>1 DEF Receive, Leave
  <2> QED BY <2>1, SessionFields DEF SessionType, Bodies
<1>2. CASE SeeStop
  BY <1>2, SessionFields DEF SeeStop, SessionType, Bodies
<1>3. CASE GraceEnds
  <2>1. PICK e \in Errors, b \in BOOLEAN : Leave(e, b)
    BY <1>3, SessionFields DEF GraceEnds, Errors
  <2>2. /\ session' = [session EXCEPT !.body = "finishing", !.scanErr = e, !.wedged = b]
        /\ ctx' = ctx /\ session.body = "grace"
    BY <1>3, <2>1 DEF Leave, GraceEnds
  <2> QED BY <2>2 DEF SessionType, Bodies
<1>4. CASE StartBudgetEnds
  BY <1>4, SessionFields DEF StartBudgetEnds, SessionType, Bodies
<1>5. CASE AbandonStart
  <2>1. PICK i \in BOOLEAN : i = (session.intent \/ session.started)
    BY SessionFields
  <2>2. PICK w \in {"none", "duration", "cancelled"} :
             w = (IF session.reason = "none" THEN "cancelled" ELSE session.reason)
    BY SessionFields
  <2>3. /\ session' = [session EXCEPT !.body = "startGrace", !.intent = i, !.reason = w]
        /\ ctx' = ctx /\ session.body = "abandon"
    BY <1>5, <2>1, <2>2 DEF AbandonStart, SessionType
  <2> QED BY <2>3 DEF SessionType, Bodies
<1>6. CASE StartGraceEnds
  <2>1. PICK e \in Errors : Leave(e, TRUE)
    BY <1>6, SessionFields DEF StartGraceEnds, Errors
  <2>2. /\ session' = [session EXCEPT !.body = "finishing", !.scanErr = e, !.wedged = TRUE]
        /\ ctx' = ctx /\ session.body = "startGrace"
    BY <1>6, <2>1 DEF Leave, StartGraceEnds
  <2> QED BY <2>2 DEF SessionType, Bodies
<1>7. CASE MarkFinished
  <2>1. session.body = "finishing" /\ ctx' = ctx
    BY <1>7 DEF MarkFinished
  <2>2. CASE session.stop = "none"
    <3>1. session' = [session EXCEPT !.finished = TRUE, !.stopDone = TRUE, !.body = "timerWait"]
      BY <1>7, <2>2 DEF MarkFinished
    <3> QED BY <2>1, <3>1 DEF SessionType, Bodies
  <2>3. CASE session.stop # "none"
    <3>1. PICK a \in BOOLEAN : a = (session.awaited \/ ~session.wedged)
      BY SessionFields
    <3>2. PICK b \in {"timerWait", "stopWait"} :
               b = (IF session.wedged THEN "timerWait" ELSE "stopWait")
      OBVIOUS
    <3>3. session' = [session EXCEPT !.finished = TRUE, !.awaited = a, !.body = b]
      BY <1>7, <2>3, <3>1, <3>2 DEF MarkFinished, SessionType
    <3> QED BY <2>1, <3>3 DEF SessionType, Bodies
  <2> QED BY <2>2, <2>3
<1>8. CASE WaitForIssuedStop
  BY <1>8, SessionFields DEF WaitForIssuedStop, SessionType, Bodies
<1>9. CASE StopTimer
  <2>1. session.body = "timerWait" /\ ctx' = ctx
    BY <1>9 DEF StopTimer
  <2>2. CASE session.timer \in {"off", "armed"}
    <3>1. PICK t \in {"off", "over"} :
               t = (IF session.timer = "armed" THEN "over" ELSE session.timer)
      BY <2>2
    <3>2. session' = [session EXCEPT !.body = "clearing", !.timer = t]
      BY <1>9, <2>2, <3>1 DEF StopTimer, SessionType
    <3> QED BY <2>1, <3>2 DEF SessionType, Bodies
  <2>3. CASE session.timer \notin {"off", "armed"} /\ session.stopDone
    <3>1. session' = [session EXCEPT !.body = "clearing"]
      BY <1>9, <2>3 DEF StopTimer
    <3> QED BY <2>1, <3>1 DEF SessionType, Bodies
  <2>4. CASE session.timer \notin {"off", "armed"} /\ ~session.stopDone
    <3>1. session' = [session EXCEPT !.awaited = TRUE]
      BY <1>9, <2>4 DEF StopTimer
    <3> QED BY <2>1, <3>1 DEF SessionType, Bodies
  <2> QED BY <2>2, <2>3, <2>4
<1>10. CASE ClearStopError
  <2>1. PICK f \in {"nil", "failed", "wedged", "abandoned"} :
             f = (IF ~session.wedged /\ session.scanErr = "nil" THEN "nil" ELSE session.stopErr)
    BY SessionFields
  <2>2. /\ session' = [session EXCEPT !.body = "settling", !.stopErr = f]
        /\ ctx' = ctx /\ session.body = "clearing"
    BY <1>10, <2>1 DEF ClearStopError, SessionType
  <2> QED BY <2>2 DEF SessionType, Bodies
<1>11. CASE Settle
  <2>1. PICK o \in Outcomes : o = OutcomeOf(session, ctx)
    BY OutcomeInType
  <2>2. session' = [session EXCEPT !.body = "done", !.outcome = o] /\ ctx' = ctx
    BY <1>11, <2>1 DEF Settle
  <2>3. session.body = "settling"
    BY <1>11 DEF Settle
  <2>4. session.scanErr = "unavailable" => o = "unavailable"
    BY <2>1, LossIsReported
  <2> QED BY <2>2, <2>3, <2>4 DEF SessionType, Bodies
<1> QED BY <1>1, <1>2, <1>3, <1>4, <1>5, <1>6, <1>7, <1>8, <1>9, <1>10, <1>11 DEF BodyStep

\* A scan opens a new session.
LEMMA OpenShape ==
  ASSUME Open
  PROVE  session' \in SessionType /\ session'.body = "waiting" /\ ctx' = ctx
<1>1. PICK u \in SessionType : u = Unopened
  BY DEF Unopened, SessionType, Bodies, Platforms, Errors, Outcomes
<1>2. PICK v \in SessionType : v = [u EXCEPT !.body = "waiting"]
  BY DEF SessionType, Bodies
<1>3. session' = [v EXCEPT !.platform = "called"] /\ ctx' = ctx
  BY <1>1, <1>2 DEF Open, Set, SessionType
<1>4. session' \in SessionType
  BY <1>3 DEF SessionType, Platforms
<1> QED BY <1>2, <1>3, <1>4 DEF SessionType

-----------------------------------------------------------------------------
(* The scan: one lemma per actor, one step per action.                     *)

\* The caller, and what ends its context.
LEMMA CallerKeeps ==
  ASSUME ScanIInv,
         \/ Reserve \/ PublishSlot \/ Launch \/ CallbackReturns \/ StopReturnsToCallback
         \/ CallbackStops \/ ContextExpires
  PROVE  ScanIInv'
<1> USE DEF ScanIInv, TypeOK, SlotShape, WorkShape, DrainShape, AdapterLossReported, Body,
            sessionVars, lifecycleVars, drainVars, Callers, Workers, Terminals, Over, Holding
<1>1. CASE Reserve
  BY <1>1 DEF Reserve, ContextOver
<1>2. CASE PublishSlot
  BY <1>2 DEF PublishSlot
<1>3. CASE Launch
  <2>1. TypeOK'
    <3>1. CASE kind = "async"
      BY <1>3, <3>1 DEF Launch
    <3>2. CASE kind # "async"
      BY <1>3, <3>2 DEF Launch
    <3> QED BY <3>1, <3>2
  <2>2. SlotShape'
    BY <1>3 DEF Launch
  <2>3. WorkShape'
    BY <1>3 DEF Launch
  <2>4. DrainShape'
    BY <1>3 DEF Launch
  <2>5. AdapterLossReported'
    BY <1>3 DEF Launch
  <2> QED BY <2>1, <2>2, <2>3, <2>4, <2>5
<1>4. CASE CallbackReturns
  BY <1>4 DEF CallbackReturns
<1>5. CASE StopReturnsToCallback
  BY <1>5 DEF StopReturnsToCallback
<1>6. CASE CallbackStops
  BY <1>6 DEF CallbackStops, Cancel
<1>7. CASE ContextExpires
  BY <1>7 DEF ContextExpires, Cancel
<1> QED BY <1>1, <1>2, <1>3, <1>4, <1>5, <1>6, <1>7

\* The worker.
LEMMA WorkerKeeps ==
  ASSUME ScanIInv,
         \/ Acquire \/ Ready \/ CheckBeforeScan \/ PrepareFails \/ MarkRunning
         \/ Release \/ OpenRefused \/ SessionOver \/ Reads \/ Finish
         \/ Uncount \/ Notify \/ OpenSession
  PROVE  ScanIInv'
<1> USE DEF ScanIInv, TypeOK, SlotShape, WorkShape, DrainShape, AdapterLossReported, Body,
            sessionVars, lifecycleVars, drainVars, Callers, Workers, Terminals, Over, Holding,
            Work, Same
<1>1. CASE Acquire
  BY <1>1 DEF Acquire, ContextOver
<1>2. CASE Ready
  BY <1>2 DEF Ready
<1>3. CASE CheckBeforeScan
  BY <1>3 DEF CheckBeforeScan
<1>4. CASE PrepareFails
  BY <1>4 DEF PrepareFails, AbortError
<1>5. CASE MarkRunning
  BY <1>5 DEF MarkRunning
<1>6. CASE Release
  BY <1>6 DEF Release, Interrupt
<1>7. CASE OpenRefused
  BY <1>7 DEF OpenRefused, Interrupt
<1>8. CASE SessionOver
  BY <1>8 DEF SessionOver
<1>9. CASE Reads
  BY <1>9 DEF Reads, Interrupt
<1>10. CASE Finish
  <2>1. TypeOK'
    <3>1. ctx' \in {"live", "cancelled", "expired", "released"} /\ status' \in Terminals
      BY <1>10 DEF Finish, EndScan, Cancel, TerminalOf
    <3>2. started' \in BOOLEAN
      <4>1. started' = (started \/ kind = "sync")
        BY <1>10 DEF Finish
      <4> QED BY <4>1
    <3> QED BY <1>10, <3>1, <3>2, ZenonT(40) DEF Finish, EndScan
  <2>2. SlotShape'
    BY <1>10 DEF Finish, EndScan, Cancel, TerminalOf
  <2>3. WorkShape'
    BY <1>10 DEF Finish, EndScan, Cancel, TerminalOf
  <2>4. DrainShape'
    BY <1>10 DEF Finish, EndScan, Cancel, TerminalOf
  <2>5. AdapterLossReported'
    BY <1>10 DEF Finish, EndScan, Cancel, TerminalOf
  <2> QED BY <2>1, <2>2, <2>3, <2>4, <2>5
<1>11. CASE Uncount
  <2>1. TypeOK'
    <3>1. worker' \in {"notifying", "done"} /\ counted' \in BOOLEAN
      BY <1>11 DEF Uncount
    <3>2. UNCHANGED <<session, ctx, kind, caller, err, slot, status, operation, started, terminal,
                      drainVars>>
      BY <1>11 DEF Uncount
    <3> QED BY <3>1, <3>2
  <2>2. SlotShape'
    BY <1>11 DEF Uncount
  <2>3. WorkShape'
    BY <1>11 DEF Uncount
  <2>4. DrainShape'
    BY <1>11 DEF Uncount
  <2>5. AdapterLossReported'
    BY <1>11 DEF Uncount
  <2> QED BY <2>1, <2>2, <2>3, <2>4, <2>5
<1>12. CASE Notify
  BY <1>12 DEF Notify, TerminalOf
<1>13. CASE OpenSession
  <2>1. session' \in SessionType
    BY <1>13, OpenShape DEF OpenSession
  <2>2. session'.body = "waiting"
    BY <1>13, OpenShape DEF OpenSession
  <2>3. ctx' = ctx
    BY <1>13, OpenShape DEF OpenSession
  <2>4. TypeOK'
    BY <1>13, <2>1, <2>2, <2>3 DEF OpenSession
  <2>5. SlotShape'
    BY <1>13, <2>1, <2>2, <2>3 DEF OpenSession
  <2>6. WorkShape'
    BY <1>13, <2>1, <2>2, <2>3 DEF OpenSession
  <2>7. DrainShape'
    BY <1>13, <2>1, <2>2, <2>3 DEF OpenSession
  <2>8. AdapterLossReported'
    BY <1>13, <2>1, <2>2, <2>3 DEF OpenSession
  <2> QED BY <2>4, <2>5, <2>6, <2>7, <2>8
<1> QED BY <1>1, <1>2, <1>3, <1>4, <1>5, <1>6, <1>7, <1>8, <1>9, <1>10, <1>11, <1>12, <1>13

\* The drain of a shutdown.
LEMMA DrainKeeps ==
  ASSUME ScanIInv,
         \/ BeginShutdown \/ CancelPublished \/ SeeScan \/ StopScanReturns \/ StopScanTimesOut
         \/ OperationsEnded \/ AsyncScansEnded
  PROVE  ScanIInv'
<1> USE DEF ScanIInv, TypeOK, SlotShape, WorkShape, DrainShape, AdapterLossReported, Body,
            sessionVars, lifecycleVars, drainVars, Callers, Workers, Terminals, Over, Holding, Drain
<1>1. CASE BeginShutdown
  BY <1>1 DEF BeginShutdown
<1>2. CASE CancelPublished
  BY <1>2 DEF CancelPublished, Cancel
<1>3. CASE SeeScan
  BY <1>3 DEF SeeScan, Cancel
<1>4. CASE StopScanReturns
  BY <1>4 DEF StopScanReturns
<1>5. CASE StopScanTimesOut
  BY <1>5 DEF StopScanTimesOut
<1>6. CASE OperationsEnded
  BY <1>6 DEF OperationsEnded
<1>7. CASE AsyncScansEnded
  BY <1>7 DEF AsyncScansEnded
<1> QED BY <1>1, <1>2, <1>3, <1>4, <1>5, <1>6, <1>7

\* A step of the session beside the scan.
LEMMA SessionKeeps ==
  ASSUME ScanIInv, Beside(SessionStep)
  PROVE  ScanIInv'
<1> USE DEF ScanIInv, TypeOK
<1>1. UNCHANGED <<lifecycleVars, drainVars>>
  BY DEF Beside
<1>2. CASE StopStep \/ PlatformStep \/ ArmTimer \/ Publish
  <2>1. Carried
    BY <1>2, CarriedStep
  <2> QED
    BY <1>1, <2>1 DEF Carried, SlotShape, WorkShape, DrainShape, AdapterLossReported, Body,
                      lifecycleVars, drainVars
<1>3. CASE BodyStep
  <2>1. Advanced
    BY <1>3, AdvancedStep
  <2> QED
    BY <1>1, <2>1 DEF Advanced, SlotShape, WorkShape, DrainShape, Body, Workers, Over,
                      lifecycleVars, drainVars
<1> QED BY <1>2, <1>3 DEF Beside, SessionStep

-----------------------------------------------------------------------------
(* The theorems.                                                           *)

LEMMA InitKeeps ==
  Init => ScanIInv
<1> SUFFICES ASSUME Init PROVE ScanIInv
  OBVIOUS
<1>1. session \in SessionType /\ session.body = "none" /\ ctx = "live"
  BY DEF Init, SessionInit, Unopened, SessionType, Bodies, Platforms, Errors, Outcomes
<1> QED
  BY <1>1 DEF Init, ScanIInv, TypeOK, SlotShape, WorkShape, DrainShape, AdapterLossReported, Body,
              Callers, Workers, Terminals, Over, Holding

\* A scan of internal/station/scan.go, its caller (reserveScan, scan.go:80-136,
\* and StartScan, 922-967), the session it opens in internal/bluetooth/scan.go and
\* the drain of config_lifecycle.go stay in step: the slot is given back by
\* the worker alone and with a terminal status, the operation spans the work,
\* the session is open within it.
THEOREM ScanInvariant == Spec => []ScanIInv
<1>1. ASSUME ScanIInv, [Next]_vars
      PROVE  ScanIInv'
  <2>1. CASE Reserve \/ CallerStep \/ CallbackStops \/ ContextExpires
    BY <1>1, <2>1, CallerKeeps DEF CallerStep
  <2>2. CASE WorkerStep
    BY <1>1, <2>2, WorkerKeeps DEF WorkerStep
  <2>3. CASE Beside(SessionStep)
    BY <1>1, <2>3, SessionKeeps
  <2>4. CASE BeginShutdown \/ DrainStep \/ StopScanTimesOut
    BY <1>1, <2>4, DrainKeeps DEF DrainStep
  <2>5. CASE UNCHANGED vars
    BY <1>1, <2>5 DEF ScanIInv, TypeOK, SlotShape, WorkShape, DrainShape, AdapterLossReported, Body,
                      vars
  <2> QED BY <1>1, <2>1, <2>2, <2>3, <2>4, <2>5 DEF Next
<1> QED BY InitKeeps, <1>1, PTL DEF Spec

\* A StopScan that reports success has seen the end of its scan: no operation
\* and no session is left and the polled status is terminal (StopScan,
\* scan.go:828-862).
THEOREM ScansEndInOrder == Spec => []ScanInv
<1>1. ScanIInv => ScanInv
  BY DEF ScanIInv, ScanInv, StoppedIsOver, TypeOK, SlotShape, WorkShape, DrainShape, Over, Holding
<1> QED BY ScanInvariant, <1>1, PTL

\* The fleet is disconnected beside no scan, though the drain gives up waiting
\* for StopScan and may look before asyncScanWg counts a scan
\* (runShutdownDrain, config_lifecycle.go:127).
THEOREM DrainMeetsNoScan == Spec => []DrainQuiet
<1>1. ScanIInv => DrainQuiet
  BY DEF ScanIInv, DrainQuiet, WorkShape, DrainShape, Holding
<1> QED BY ScanInvariant, <1>1, PTL

\* A session that has ended with a lost adapter says so, whatever stop, timer or
\* context came beside the loss (ScanForDurationContext,
\* internal/bluetooth/scan.go:679-758).
THEOREM LossIsNeverHidden == Spec => []AdapterLossReported
<1>1. ScanIInv => AdapterLossReported
  BY DEF ScanIInv
<1> QED BY ScanInvariant, <1>1, PTL

====
