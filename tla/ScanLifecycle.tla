--------------------------- MODULE ScanLifecycle ---------------------------
(***************************************************************************)
(* One scan of the station manager (internal/station/scan.go) from its     *)
(* reservation to its terminal callback, over the session that carries it  *)
(* out (ScanSession), beside the calls that stop it: a StopScan out of the *)
(* Started callback and the drain of a shutdown (config_lifecycle.go).     *)
(*                                                                         *)
(* An asynchronous scan (StartScan) has a caller, which delivers Started,  *)
(* and a worker, which scans; a synchronous one (ScanAndFetchStations) is  *)
(* its caller's own work and no one hears of it.  What the adapter does    *)
(* around the scan is only taken as succeeding or failing.                 *)
(***************************************************************************)
EXTENDS ScanSession

VARIABLES
    kind,           \* "async" or "sync"
    caller,         \* StartScan, or ScanAndFetchStationsContext
    worker,         \* prepareScan, scanAndFetchStations and finishScan
    err,            \* the error the worker carries to the end
    slot,           \* m.scanLifecycle: "free", "publishing" (the transition lock
                    \* is held, no slot yet), "taken", "released"
    status,         \* the state of GetScanStatus
    operation,      \* the scan holds the global operation, which is registered
    started,        \* lifecycle.startedDone is closed
    counted,        \* asyncScanWg counts the scan
    terminal,       \* the terminal callback that was delivered
    shuttingDown,
    drain,          \* Shutdown: its steps, and a StopScan that has timed out
    drainStop       \* how StopScan ended for the drain: "none", "nil", "timeout"

lifecycleVars == <<kind, caller, worker, err, slot, status, operation, started, counted, terminal>>
drainVars == <<shuttingDown, drain, drainStop>>
vars == <<session, ctx, kind, caller, worker, err, slot, status, operation, started, counted,
          terminal, shuttingDown, drain, drainStop>>

Callers == {"idle", "publish", "reserved", "callback", "stopping", "returned"}
Workers == {"none", "prepare", "ready", "check", "running", "aborting", "release", "opening",
            "scanning", "reading", "finishing", "ended", "notifying", "done"}
Terminals == {"completed", "failed", "cancelled"}

Init ==
    /\ SessionInit
    /\ kind \in {"async", "sync"}
    /\ caller = "idle" /\ worker = "none" /\ err = "nil"
    /\ slot = "free" /\ status = "idle" /\ operation = FALSE
    /\ started = FALSE /\ counted = FALSE /\ terminal = "none"
    /\ shuttingDown = FALSE /\ drain = "none" /\ drainStop = "none"

\* lifecycle.cancel: the context keeps its first reason.
Cancel(how) == ctx' = IF ctx = "live" THEN how ELSE ctx

-----------------------------------------------------------------------------
(* The caller.                                                             *)
(***************************************************************************)
\* reserveScan, under the transition lock up to the publication of the slot.
Reserve ==
    /\ caller = "idle" /\ ~shuttingDown /\ ~ContextOver
    /\ caller' = "publish" /\ slot' = "publishing"
    /\ UNCHANGED <<sessionVars, kind, worker, err, status, operation, started, counted, terminal,
                   drainVars>>

PublishSlot ==
    /\ caller = "publish"
    /\ slot' = "taken" /\ status' = "starting"
    /\ caller' = "reserved"
    /\ UNCHANGED <<sessionVars, kind, worker, err, operation, started, counted, terminal, drainVars>>

\* StartScan counts its goroutine and starts it; a synchronous caller goes on as
\* the worker itself.
Launch ==
    /\ caller = "reserved"
    /\ worker' = "prepare"
    /\ IF kind = "async"
       THEN caller' = "callback" /\ counted' = TRUE
       ELSE caller' = "returned" /\ UNCHANGED counted
    /\ UNCHANGED <<sessionVars, kind, err, slot, status, operation, started, terminal, drainVars>>

CallbackReturns ==
    /\ caller = "callback"
    /\ caller' = "returned" /\ started' = TRUE
    /\ UNCHANGED <<sessionVars, kind, worker, err, slot, status, operation, counted, terminal,
                   drainVars>>

\* The Started callback calls StopScan and returns when that is over.
CallbackStops ==
    /\ caller = "callback" /\ slot = "taken"
    /\ Cancel("cancelled") /\ caller' = "stopping"
    /\ UNCHANGED <<session, kind, worker, err, slot, status, operation, started, counted, terminal,
                   drainVars>>

StopReturnsToCallback ==
    /\ caller = "stopping" /\ slot = "released"
    /\ caller' = "returned" /\ started' = TRUE
    /\ UNCHANGED <<sessionVars, kind, worker, err, slot, status, operation, counted, terminal,
                   drainVars>>

\* The deadline of a synchronous caller passes.
ContextExpires ==
    /\ kind = "sync" /\ caller # "idle" /\ ctx = "live"
    /\ Cancel("expired")
    /\ UNCHANGED <<session, lifecycleVars, drainVars>>

-----------------------------------------------------------------------------
(* The worker.                                                             *)
(***************************************************************************)
Work(pc) == worker' = pc
Same == UNCHANGED <<sessionVars, kind, caller, slot, started, counted, terminal, drainVars>>

\* The error of a scan that does not get to run: a deadline is a failure, any
\* other end of its context a cancellation.
AbortError(e) ==
    IF shuttingDown THEN "cancelled" ELSE IF ctx = "cancelled" THEN "cancelled" ELSE e

\* Mutant: the operation is not registered, so that no drain waits for it.
AcquireUnregistered ==
    /\ worker = "prepare" /\ ~ContextOver /\ ~shuttingDown
    /\ Work("ready")
    /\ Same /\ UNCHANGED <<err, status, operation>>

\* prepareScan takes the global operation, unless the context is over, the
\* manager is shutting down or other work is in the way.
Acquire ==
    /\ worker = "prepare" /\ ~ContextOver /\ ~shuttingDown
    /\ operation' = TRUE /\ Work("ready")
    /\ Same /\ UNCHANGED <<err, status>>

\* ensureReady is bounded, and fails or succeeds.
Ready ==
    /\ worker = "ready" /\ Work("check")
    /\ Same /\ UNCHANGED <<err, status, operation>>

CheckBeforeScan ==
    /\ worker = "check" /\ ~shuttingDown /\ ~ContextOver
    /\ Work("running")
    /\ Same /\ UNCHANGED <<err, status, operation>>

\* No global operation, no adapter, a shutdown or a context that is over.
PrepareFails ==
    /\ \/ worker \in {"prepare", "ready"}
       \/ worker = "check" /\ (shuttingDown \/ ContextOver)
    /\ err' = AbortError("failed") /\ Work("aborting")
    /\ Same /\ UNCHANGED <<status, operation>>

MarkRunning ==
    /\ worker = "running"
    /\ status' = "running" /\ Work("release")
    /\ Same /\ UNCHANGED <<err, operation>>

\* A context that is over ends the scan: cancelled, or failed by its deadline.
Interrupt ==
    /\ ContextOver
    /\ err' = (IF ctx = "expired" THEN "failed" ELSE "cancelled") /\ Work("finishing")

\* scanAndFetchStations: the cached connections are released first.
Release ==
    /\ worker = "release"
    /\ Interrupt \/ (~ContextOver /\ Work("opening") /\ UNCHANGED err)
    /\ Same /\ UNCHANGED <<status, operation>>

OpenSession ==
    /\ worker = "opening"
    /\ Open /\ Work("scanning")
    /\ UNCHANGED <<kind, caller, err, slot, status, operation, started, counted, terminal, drainVars>>

OpenRefused ==
    /\ worker = "opening"
    /\ Interrupt
    /\ Same /\ UNCHANGED <<status, operation>>

\* The session is over; with results the initial reads follow, unless the
\* context is over.
SessionOver ==
    LET outcome == session.outcome IN
    /\ worker = "scanning" /\ Body("done")
    /\ err' = CASE outcome = "results" -> "nil"
                [] outcome = "cancelled" -> "cancelled"
                [] OTHER -> "failed"
    /\ Work(IF outcome = "results" /\ ~ContextOver THEN "reading" ELSE "finishing")
    /\ Same /\ UNCHANGED <<status, operation>>

\* The initial reads complete, or end with the context.
Reads ==
    /\ worker = "reading"
    /\ Interrupt \/ (~ContextOver /\ Work("finishing") /\ UNCHANGED err)
    /\ Same /\ UNCHANGED <<status, operation>>

TerminalOf(e) == IF e = "nil" THEN "completed" ELSE e

\* Operation, terminal state and slot are given up in one critical section of
\* the transition lock; the waiters of StopScan are let go with it.
EndScan(pc) ==
    /\ slot' = "released" /\ operation' = FALSE
    /\ status' = TerminalOf(err)
    /\ Cancel("released")
    /\ Work(pc)
    /\ UNCHANGED <<session, kind, caller, err, counted, terminal, drainVars>>

\* Mutant: the slot is kept until the Started callback has returned.
FinishAfterStarted ==
    /\ worker \in {"aborting", "finishing"}
    /\ started \/ kind = "sync"
    /\ EndScan("ended")
    /\ started' = (started \/ kind = "sync")

\* abortScanStart and finishScan; a synchronous scan has no Started to wait for.
Finish ==
    /\ worker \in {"aborting", "finishing"}
    /\ EndScan("ended")
    /\ started' = (started \/ kind = "sync")

\* asyncScanWg.Done
Uncount ==
    /\ worker = "ended"
    /\ counted' = FALSE
    /\ Work(IF kind = "async" THEN "notifying" ELSE "done")
    /\ UNCHANGED <<sessionVars, kind, caller, err, slot, status, operation, started, terminal,
                   drainVars>>

\* The terminal callback, behind Started.
Notify ==
    /\ worker = "notifying" /\ started
    /\ terminal' = TerminalOf(err) /\ Work("done")
    /\ UNCHANGED <<sessionVars, kind, caller, err, slot, status, operation, started, counted,
                   drainVars>>

-----------------------------------------------------------------------------
(* The drain of a shutdown.                                                *)
(***************************************************************************)
Drain(pc) == drain' = pc

BeginShutdown ==
    /\ drain = "none"
    /\ shuttingDown' = TRUE /\ Drain("cancel")
    /\ UNCHANGED <<sessionVars, lifecycleVars, drainStop>>

\* It cancels the scan whose slot it sees.
CancelPublished ==
    /\ drain = "cancel" /\ Drain("stopScan")
    /\ IF slot = "taken" THEN Cancel("cancelled") ELSE UNCHANGED ctx
    /\ UNCHANGED <<session, lifecycleVars, shuttingDown, drainStop>>

\* Mutant: StopScan takes an empty slot for no scan.
SeeScanUnlocked ==
    /\ drain = "stopScan"
    /\ IF slot = "taken"
       THEN Cancel("cancelled") /\ Drain("stopping") /\ UNCHANGED drainStop
       ELSE Drain("operations") /\ drainStop' = "nil" /\ UNCHANGED ctx
    /\ UNCHANGED <<session, lifecycleVars, shuttingDown>>

\* StopScan with no slot waits for the transition lock and looks again.
SeeScan ==
    /\ drain = "stopScan" /\ slot # "publishing"
    /\ IF slot = "taken"
       THEN Cancel("cancelled") /\ Drain("stopping") /\ UNCHANGED drainStop
       ELSE Drain("operations") /\ drainStop' = "nil" /\ UNCHANGED ctx
    /\ UNCHANGED <<session, lifecycleVars, shuttingDown>>

StopScanReturns ==
    /\ drain = "stopping" /\ slot = "released"
    /\ Drain("operations") /\ drainStop' = "nil"
    /\ UNCHANGED <<sessionVars, lifecycleVars, shuttingDown>>

StopScanTimesOut ==
    /\ drain = "stopping"
    /\ Drain("operations") /\ drainStop' = "timeout"
    /\ UNCHANGED <<sessionVars, lifecycleVars, shuttingDown>>

OperationsEnded ==
    /\ drain = "operations" /\ ~operation /\ Drain("asyncScans")
    /\ UNCHANGED <<sessionVars, lifecycleVars, shuttingDown, drainStop>>

AsyncScansEnded ==
    /\ drain = "asyncScans" /\ ~counted /\ Drain("disconnecting")
    /\ UNCHANGED <<sessionVars, lifecycleVars, shuttingDown, drainStop>>

-----------------------------------------------------------------------------
CallerStep ==
    \/ PublishSlot \/ Launch \/ CallbackReturns \/ StopReturnsToCallback

WorkerStep ==
    \/ Acquire \/ Ready \/ CheckBeforeScan \/ PrepareFails \/ MarkRunning
    \/ Release \/ OpenSession \/ OpenRefused \/ SessionOver \/ Reads
    \/ Finish \/ Uncount \/ Notify

DrainStep ==
    \/ CancelPublished \/ SeeScan \/ StopScanReturns \/ OperationsEnded \/ AsyncScansEnded

Beside(step) == step /\ UNCHANGED <<lifecycleVars, drainVars>>

Next ==
    \/ Reserve \/ CallerStep \/ CallbackStops \/ ContextExpires
    \/ WorkerStep
    \/ Beside(SessionStep)
    \/ BeginShutdown \/ DrainStep \/ StopScanTimesOut

Spec == Init /\ [][Next]_vars

\* Go runs every goroutine that can run, every timer fires and a Started
\* callback returns.  Nobody has to stop the scan, the time of a StopScan need
\* not run out, and the platform may hang in each of its calls.
Fairness ==
    /\ WF_vars(CallerStep)
    /\ WF_vars(WorkerStep)
    /\ WF_vars(DrainStep)
    /\ WF_vars(Beside(BodyStep))
    /\ WF_vars(Beside(StopStep))
    /\ WF_vars(Beside(ArmTimer \/ Publish))

FairSpec == Spec /\ Fairness

-----------------------------------------------------------------------------
(* Properties.                                                             *)
(***************************************************************************)
TypeOK ==
    /\ session \in SessionType
    /\ ctx \in {"live", "cancelled", "expired", "released"}
    /\ kind \in {"async", "sync"} /\ caller \in Callers /\ worker \in Workers
    /\ err \in {"nil", "failed", "cancelled"}
    /\ slot \in {"free", "publishing", "taken", "released"}
    /\ status \in Terminals \union {"idle", "starting", "running"}
    /\ {operation, started, counted, shuttingDown} \subseteq BOOLEAN
    /\ terminal \in Terminals \union {"none"}
    /\ drain \in {"none", "cancel", "stopScan", "stopping", "operations", "asyncScans",
                  "disconnecting"}
    /\ drainStop \in {"none", "nil", "timeout"}

\* A StopScan that reports success has seen the end of the scan: nothing of it
\* is left in the session, its operation is given back and the status that a
\* client polls is terminal.  No scan appears after the one of a shutdown.
StoppedIsOver ==
    drainStop = "nil" =>
        /\ slot \in {"free", "released"} /\ ~operation
        /\ slot = "released" => status \in Terminals /\ session.body \in {"none", "done"}

\* The variables have their types and a successful StopScan has seen the end.
ScanInv == TypeOK /\ StoppedIsOver

\* The fleet is disconnected beside no scan, although a drain that came before
\* asyncScanWg counted the scan does not wait for its worker, and a StopScan
\* that has timed out does not either.
DrainQuiet ==
    drain = "disconnecting" =>
        worker \notin {"running", "release", "opening", "scanning", "reading"}

\* A lost adapter is never passed for a completed or a cancelled scan: the
\* recovery of the adapter depends on it.
AdapterLossReported ==
    Body("done") /\ session.scanErr = "unavailable" => session.outcome = "unavailable"

\* Every scan ends and its terminal callback is delivered, even when the
\* platform hangs and the Started callback stops the scan it announces.
ScanEnds ==
    (slot = "publishing") ~> (slot = "released" /\ (kind = "async" => terminal # "none"))

\* A watcher that starts after its scan has been given up is stopped or ends:
\* else no later scan could start.
LateStartIsStopped ==
    (Body("done") /\ session.platform = "live")
        ~> (session.stop # "none" \/ session.platform = "published")

====
