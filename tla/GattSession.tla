---------------------------- MODULE GattSession ----------------------------
(***************************************************************************)
(* The GATT session of one base station (internal/bluetooth): the calls   *)
(* that open, use and close it, the lock of the station that they release *)
(* while a transport call or a wait runs, the operating system's           *)
(* disconnect events, the worker that invalidates dropped sessions and     *)
(* the goroutines that clean them up.                                      *)
(*                                                                         *)
(* A process is a call of the package's API (Calls) or the cleanup         *)
(* goroutine of one handle (Handles).  Its record holds the label it       *)
(* stands at, the labels its procedures return to and the result of the    *)
(* last one.  Every step up to the next transport call or unlock is one    *)
(* action; labels are named for the code they precede.                     *)
(*                                                                         *)
(* isConnected is folded into device: every assignment of one is next to  *)
(* an assignment of the other.                                             *)
(***************************************************************************)
EXTENDS Naturals, Sequences, FiniteSets

CONSTANTS
    Calls,              \* calls of the package's API, each made at most once
    NoOne,              \* nobody holds the lock, no disconnect is in flight
    Kinds,              \* the kinds of call that each of them may be
    Cancellers,         \* the calls whose context may be cancelled or time out
    MaxHandles,         \* bound: sessions the transport opens
    DiscoveryAttempts   \* TimingPolicy.DiscoveryAttempts

Handles == 1..MaxHandles
None == 0
Procs == Calls \cup Handles
SessionKinds == {"ensure", "refresh", "fetch", "release", "sweep", "probe"}

ASSUME CallsAssumption == NoOne \notin Calls /\ NoOne \notin Nat /\ Calls \cap Nat = {}
                            /\ Cancellers \subseteq Calls /\ Kinds \in [Calls -> SUBSET SessionKinds]
ASSUME BoundsAssumption == MaxHandles \in Nat \ {0} /\ DiscoveryAttempts \in Nat \ {0}

VARIABLES
    lock,       \* station.mutex: its holder or NoOne
    device,     \* station.device: a handle or None
    chars,      \* station.characteristic is set
    pending,    \* station.pendingCleanup: a handle or None
    inFlight,   \* station.disconnectInFlight: the process that set it or NoOne
    connected,  \* the station is in connectedStations
    tracked,    \* the station is in pendingCleanupStations
    opened,     \* sessions opened so far; handle n is the n-th
    released,   \* handles whose Disconnect has released the session
    down,       \* handles whose link has dropped
    events,     \* dropped handles whose event the adapter has not delivered
    queue,      \* station.pendingInvalidations
    drainer,    \* drainDeviceInvalidations: "off", "idle" or "busy"
    invalid,    \* the handle the drainer has taken
    ctxDone,    \* the calls whose context is done
    proc        \* the processes

sessionVars == <<device, chars, pending, inFlight, connected, tracked>>
transportVars == <<opened, released, down>>
eventVars == <<events, queue, drainer, invalid>>
vars == <<lock, sessionVars, transportVars, eventVars, ctxDone, proc>>

Open == (1..opened) \ released
Running(p) == proc[p].pc \notin {"idle", "done"}
CtxDone(p) == p \in ctxDone

-----------------------------------------------------------------------------
(* Procedures: a label to go to, a procedure to call, a result to return.  *)
(***************************************************************************)
At(p, label) == proc[p].pc = label
Locked(p, label) == At(p, label) /\ lock = p
Unlocked(p, label) == At(p, label) /\ lock = NoOne

Idle == [pc |-> "idle", stack |-> << >>, kind |-> "none", h |-> None,
         res |-> "ok", tries |-> 0, uses |-> None, faulted |-> FALSE]

Goto(p, label) == proc' = [proc EXCEPT ![p].pc = label]
Call(p, sub, ret) ==
    proc' = [proc EXCEPT ![p].pc = sub, ![p].stack = <<ret>> \o @]
Return(p, res) ==
    proc' = [proc EXCEPT ![p].pc = Head(proc[p].stack), ![p].stack = Tail(@),
                         ![p].res = res, ![p].h = None,
                         ![p].faulted = @ \/ res = "fail"]
\* The same for a procedure that has worked on the session of the station.
ReturnUsing(p, res) ==
    proc' = [proc EXCEPT ![p].pc = Head(proc[p].stack), ![p].stack = Tail(@),
                         ![p].res = res, ![p].uses = device]
\* The last label of a call: its result is settled and the lock released.
Finish(p, res) ==
    /\ proc' = [proc EXCEPT ![p] = [Idle EXCEPT !.pc = "done", !.kind = proc[p].kind,
                                               !.res = res],
                            ![p].faulted = proc[p].faulted \/ res = "fail"]
    /\ lock' = NoOne

Init ==
    /\ lock = NoOne /\ device = None /\ chars = FALSE
    /\ pending = None /\ inFlight = NoOne
    /\ connected = FALSE /\ tracked = FALSE
    /\ opened = 0 /\ released = {} /\ down = {}
    /\ events = {} /\ queue = << >> /\ drainer = "off" /\ invalid = None
    /\ ctxDone = {}
    /\ proc = [p \in Procs |-> Idle]

-----------------------------------------------------------------------------
(* cleanupPendingInternal: Disconnect the handle a failed disconnect or a  *)
(* dropped link has left behind.                                           *)
(***************************************************************************)
\* Its result is "ok" at once when there is nothing to clean up; otherwise
\* the Disconnect starts, outside the lock, and ret is where it returns to.
StartCleanup(p, ret, rest) ==
    IF pending = None
    THEN /\ proc' = [proc EXCEPT ![p].pc = ret, ![p].stack = rest, ![p].res = "ok"]
         /\ UNCHANGED <<lock, pending, inFlight>>
    ELSE /\ proc' = [proc EXCEPT ![p].pc = "cleaning", ![p].h = pending,
                                 ![p].stack = <<ret>> \o rest]
         /\ pending' = None
         /\ inFlight' = p
         /\ lock' = NoOne

\* endInFlightDisconnect clears the marker only if it is this process's own.
EndInFlight(p) == inFlight' = IF inFlight = p THEN NoOne ELSE inFlight

\* The transport has closed the session of h, whose link no longer counts.
Release(h) == released' = released \cup {h} /\ down' = down \ {h}

\* Disconnect has released the session: the station leaves the cleanup list,
\* and the connected list too unless it is connected again.
CleanupSucceeds(p) ==
    /\ Unlocked(p, "cleaning")
    /\ lock' = p
    /\ EndInFlight(p)
    /\ Release(proc[p].h)
    /\ tracked' = FALSE
    /\ connected' = (connected /\ device # None)
    /\ Return(p, "ok")
    /\ UNCHANGED <<device, chars, pending, opened, eventVars, ctxDone>>

\* Disconnect has failed: the handle is kept for a later attempt.
KeepForCleanup(p) ==
    /\ pending' = IF pending = None THEN proc[p].h ELSE pending
    /\ tracked' = (tracked \/ pending = None)

CleanupFails(p) ==
    /\ Unlocked(p, "cleaning")
    /\ lock' = p
    /\ EndInFlight(p)
    /\ KeepForCleanup(p)
    /\ Return(p, "fail")
    /\ UNCHANGED <<device, chars, connected, opened, released, down, eventVars, ctxDone>>

-----------------------------------------------------------------------------
(* disconnectInternal: finish an older cleanup, then close the session.    *)
(***************************************************************************)
Disconnect(p) ==
    /\ Locked(p, "disconnect")
    /\ StartCleanup(p, "detach", proc[p].stack)
    /\ UNCHANGED <<device, chars, connected, tracked, transportVars, eventVars, ctxDone>>

\* The lists keep a station that still has a session or a handle to clean up.
Untrack(session, leftover) ==
    connected' = (connected /\ (session # None \/ leftover # None))

\* With the older cleanup done the session is detached and Disconnect starts,
\* outside the lock; with no session there is only the list to settle.
Detach(p) ==
    /\ Locked(p, "detach")
    /\ IF proc[p].res = "fail"
       THEN Return(p, "fail") /\ UNCHANGED <<lock, sessionVars>>
       ELSE /\ chars' = FALSE
            /\ device' = None
            /\ UNCHANGED <<pending, tracked>>
            /\ IF device # None
               THEN /\ proc' = [proc EXCEPT ![p].pc = "disconnecting", ![p].h = device]
                    /\ inFlight' = p
                    /\ lock' = NoOne
                    /\ UNCHANGED connected
               ELSE /\ Return(p, "ok")
                    /\ Untrack(None, pending)
                    /\ UNCHANGED <<lock, inFlight>>
    /\ UNCHANGED <<transportVars, eventVars, ctxDone>>

DisconnectSucceeds(p) ==
    /\ Unlocked(p, "disconnecting")
    /\ lock' = p
    /\ EndInFlight(p)
    /\ Release(proc[p].h)
    /\ Untrack(device, pending)
    /\ Return(p, "ok")
    /\ UNCHANGED <<device, chars, pending, tracked, opened, eventVars, ctxDone>>

\* Mutant: a Disconnect that fails leaves the marker behind.
DisconnectFailsInFlight(p) ==
    /\ Unlocked(p, "disconnecting")
    /\ lock' = p
    /\ KeepForCleanup(p)
    /\ Untrack(device, pending')
    /\ Return(p, "fail")
    /\ UNCHANGED <<device, chars, inFlight, opened, released, down, eventVars, ctxDone>>

DisconnectFails(p) ==
    /\ Unlocked(p, "disconnecting")
    /\ lock' = p
    /\ EndInFlight(p)
    /\ KeepForCleanup(p)
    /\ Untrack(device, pending')
    /\ Return(p, "fail")
    /\ UNCHANGED <<device, chars, opened, released, down, eventVars, ctxDone>>

-----------------------------------------------------------------------------
(* connectGate: wait for a disconnect in flight, then finish a cleanup.    *)
(* A done context ends only the wait, and counts as a call that never      *)
(* started (contextNotStartedError).                                       *)
(***************************************************************************)
\* Mutant: the gate does not wait for a disconnect in flight.
GateOpenInFlight(p) ==
    /\ Locked(p, "gate")
    /\ StartCleanup(p, Head(proc[p].stack), Tail(proc[p].stack))
    /\ UNCHANGED <<device, chars, connected, tracked, transportVars, eventVars, ctxDone>>

Gate(p) ==
    /\ Locked(p, "gate")
    /\ IF inFlight = NoOne
       THEN StartCleanup(p, Head(proc[p].stack), Tail(proc[p].stack))
       ELSE Goto(p, "gateWait") /\ lock' = NoOne /\ UNCHANGED <<pending, inFlight>>
    /\ UNCHANGED <<device, chars, connected, tracked, transportVars, eventVars, ctxDone>>

GateWake(p) ==
    /\ Unlocked(p, "gateWait")
    /\ inFlight = NoOne
    /\ lock' = p
    /\ Goto(p, "gate")
    /\ UNCHANGED <<sessionVars, transportVars, eventVars, ctxDone>>

\* Mutant: a wait that was cancelled reads like an interrupted operation.
GateInterrupted(p) ==
    /\ Unlocked(p, "gateWait")
    /\ CtxDone(p)
    /\ lock' = p
    /\ Return(p, "cancelled")
    /\ UNCHANGED <<sessionVars, transportVars, eventVars, ctxDone>>

GateCancelled(p) ==
    /\ Unlocked(p, "gateWait")
    /\ CtxDone(p)
    /\ lock' = p
    /\ Return(p, "notStarted")
    /\ UNCHANGED <<sessionVars, transportVars, eventVars, ctxDone>>

-----------------------------------------------------------------------------
(* connectAndDiscoverInternalContext.                                      *)
(***************************************************************************)
ProcOnly == UNCHANGED <<lock, sessionVars, transportVars, eventVars, ctxDone>>

Connect(p) ==
    /\ Locked(p, "connect")
    /\ IF CtxDone(p)
       THEN Return(p, "notStarted")
       ELSE proc' = [proc EXCEPT ![p].pc = "gate", ![p].tries = 0,
                                 ![p].stack = <<"gated">> \o @]
    /\ ProcOnly

\* Behind the first gate a complete session is asked whether it still lives.
\* A query that fails for another reason leaves it to the next operation.
GatePassed(p) ==
    /\ Locked(p, "gated")
    /\ \/ proc[p].res # "ok" /\ Return(p, proc[p].res)
       \/ proc[p].res = "ok" /\ ~(device # None /\ chars) /\ Goto(p, "rebuild")
       \/ /\ proc[p].res = "ok" /\ device # None /\ chars
          /\ \/ ReturnUsing(p, "ok")
             \/ /\ device \in down
                /\ proc' = [proc EXCEPT ![p].pc = "disconnect", ![p].uses = device,
                                        ![p].stack = <<"staleClosed">> \o @]
    /\ ProcOnly

StaleClosed(p) ==
    /\ Locked(p, "staleClosed")
    /\ IF proc[p].res = "fail" THEN Return(p, "fail") ELSE Goto(p, "rebuild")
    /\ ProcOnly

\* The gate is passed again right before a session is opened.
Rebuild(p) ==
    /\ Locked(p, "rebuild")
    /\ IF device = None THEN Call(p, "gate", "open") ELSE Goto(p, "discover")
    /\ ProcOnly

\* connectContext: the transport opens a session.
OpenSession(p, next) ==
    /\ opened < MaxHandles
    /\ opened' = opened + 1
    /\ proc' = [proc EXCEPT ![p].pc = next, ![p].h = opened + 1]
    /\ UNCHANGED <<lock, sessionVars, released, down, eventVars, ctxDone>>

\* The gate may have let another call rebuild the session: it is looked for
\* again before a second one is opened.
OpenOrReuse(p) ==
    /\ Locked(p, "open")
    /\ \/ proc[p].res # "ok" /\ Return(p, proc[p].res) /\ ProcOnly
       \/ proc[p].res = "ok" /\ device # None /\ Goto(p, "discover") /\ ProcOnly
       \/ /\ proc[p].res = "ok" /\ device = None
          /\ \/ OpenSession(p, "opened")
             \/ Return(p, "fail") /\ ProcOnly
             \/ CtxDone(p) /\ Return(p, "cancelled") /\ ProcOnly

\* The handle reaches the station and the station the connected list.
Opened(p) ==
    /\ Locked(p, "opened")
    /\ device' = proc[p].h
    /\ connected' = TRUE
    /\ proc' = [proc EXCEPT ![p].pc = "discover", ![p].uses = proc[p].h, ![p].h = None]
    /\ UNCHANGED <<lock, chars, pending, inFlight, tracked, transportVars, eventVars, ctxDone>>

\* A session that is complete needs no discovery; otherwise the services are
\* walked, and an attempt that fails is followed by a disconnect, whether
\* another attempt follows or not.
Discover(p) ==
    /\ Locked(p, "discover")
    /\ \/ /\ chars
          /\ Return(p, "ok")
          /\ ProcOnly
       \/ /\ ~chars /\ CtxDone(p)
          /\ ReturnUsing(p, "cancelled")
          /\ ProcOnly
       \/ /\ ~chars /\ device \notin down
          /\ chars' = TRUE
          /\ ReturnUsing(p, "ok")
          /\ UNCHANGED <<lock, device, pending, inFlight, connected, tracked,
                         transportVars, eventVars, ctxDone>>
       \/ /\ ~chars
          /\ proc' = [proc EXCEPT ![p].pc = "attemptFailed", ![p].uses = device]
          /\ ProcOnly

AttemptFailed(p) ==
    /\ Locked(p, "attemptFailed")
    /\ LET last == proc[p].tries + 1 >= DiscoveryAttempts
       IN  \/ /\ ~last /\ CtxDone(p)
              /\ proc' = [proc EXCEPT ![p].pc = Head(proc[p].stack), ![p].stack = Tail(@),
                                      ![p].res = "cancelled", ![p].faulted = TRUE]
           \/ /\ last \/ ~CtxDone(p)
              /\ proc' = [proc EXCEPT
                            ![p].pc = "disconnect", ![p].faulted = TRUE,
                            ![p].tries = @ + 1,
                            ![p].stack = <<IF last THEN "giveUp" ELSE "retryClosed">> \o @]
    /\ ProcOnly

GiveUp(p) == Locked(p, "giveUp") /\ Return(p, "fail") /\ ProcOnly

\* The wait between two attempts runs outside the lock.
RetryClosed(p) ==
    /\ Locked(p, "retryClosed")
    /\ IF proc[p].res = "fail"
       THEN Return(p, "fail") /\ UNCHANGED lock
       ELSE Goto(p, "retryWait") /\ lock' = NoOne
    /\ UNCHANGED <<sessionVars, transportVars, eventVars, ctxDone>>

RetryWake(p) ==
    /\ Unlocked(p, "retryWait")
    /\ lock' = p
    /\ \/ Call(p, "gate", "reopen")
       \/ CtxDone(p) /\ Return(p, "notStarted")
    /\ UNCHANGED <<sessionVars, transportVars, eventVars, ctxDone>>

\* The unlocked wait may have let another call rebuild the session here too.
Reopen(p) ==
    /\ Locked(p, "reopen")
    /\ \/ proc[p].res # "ok" /\ Return(p, proc[p].res) /\ ProcOnly
       \/ proc[p].res = "ok" /\ device # None /\ Goto(p, "discover") /\ ProcOnly
       \/ /\ proc[p].res = "ok" /\ device = None
          /\ \/ OpenSession(p, "opened")
             \/ Goto(p, "attemptFailed") /\ ProcOnly
             \/ CtxDone(p) /\ Return(p, "notStarted") /\ ProcOnly

ConnectStep(p) ==
    \/ Gate(p) \/ GateWake(p) \/ GateCancelled(p)
    \/ Connect(p) \/ GatePassed(p) \/ StaleClosed(p) \/ Rebuild(p)
    \/ OpenOrReuse(p) \/ Opened(p) \/ Discover(p) \/ AttemptFailed(p) \/ GiveUp(p)
    \/ RetryClosed(p) \/ RetryWake(p) \/ Reopen(p)

DisconnectStep(p) ==
    \/ CleanupSucceeds(p) \/ CleanupFails(p)
    \/ Disconnect(p) \/ Detach(p) \/ DisconnectSucceeds(p) \/ DisconnectFails(p)

-----------------------------------------------------------------------------
(* The calls of the package: EnsureCapabilitiesContext,                    *)
(* RefreshCapabilitiesContext, FetchInitialPowerStateContext,              *)
(* DisconnectStation with ReleaseStationForScan, DisconnectAllStations     *)
(* with InvalidateAllConnections, IsConnected.                             *)
(***************************************************************************)
FirstLabel(kind) ==
    CASE kind \in {"ensure", "fetch"} -> "connect"
      [] kind \in {"refresh", "release", "sweep"} -> "disconnect"
      [] kind = "probe" -> "probe"

AfterFirst(kind) ==
    CASE kind = "ensure" -> << "ensured" >>
      [] kind = "fetch" -> << "fetched" >>
      [] kind = "refresh" -> << "refreshClosed" >>
      [] kind \in {"release", "sweep"} -> << "releaseDone" >>
      [] OTHER -> << >>

\* A sweep visits the station only if one of the lists names it.
Begin(p, kind) ==
    /\ p \in Calls /\ At(p, "idle")
    /\ proc' = [proc EXCEPT ![p].kind = kind,
                            ![p].pc = IF kind = "sweep" /\ ~connected /\ ~tracked
                                      THEN "done" ELSE "enter"]
    /\ ProcOnly

\* The lock is taken and a call whose context is done by then touches nothing.
Enter(p) ==
    /\ Unlocked(p, "enter") /\ proc[p].kind \in SessionKinds
    /\ IF CtxDone(p) /\ proc[p].kind \in {"ensure", "fetch", "refresh"}
       THEN Finish(p, "notStarted")
       ELSE /\ proc' = [proc EXCEPT ![p].pc = FirstLabel(proc[p].kind),
                                    ![p].stack = AfterFirst(proc[p].kind)]
            /\ lock' = p
    /\ UNCHANGED <<sessionVars, transportVars, eventVars, ctxDone>>

\* A connect or a discovery that a context has ended, or that failed with the
\* context done, closes the session it used; one that never started does not.
CloseIfInterrupted(p) ==
    IF proc[p].res \in {"fail", "cancelled"} /\ CtxDone(p)
    THEN Call(p, "disconnect", "interrupted") /\ UNCHANGED lock
    ELSE Finish(p, proc[p].res)

Ensured(p) ==
    /\ Locked(p, "ensured")
    /\ CloseIfInterrupted(p)
    /\ UNCHANGED <<sessionVars, transportVars, eventVars, ctxDone>>

\* The result of the cleanup joins the error it follows.
Interrupted(p) ==
    /\ Locked(p, "interrupted")
    /\ Finish(p, IF proc[p].faulted \/ proc[p].res = "fail" THEN "fail" ELSE "cancelled")
    /\ UNCHANGED <<sessionVars, transportVars, eventVars, ctxDone>>

RefreshClosed(p) ==
    /\ Locked(p, "refreshClosed")
    /\ IF proc[p].res = "fail"
       THEN Finish(p, "fail")
       ELSE Call(p, "connect", "ensured") /\ UNCHANGED lock
    /\ UNCHANGED <<sessionVars, transportVars, eventVars, ctxDone>>

\* The reads after the connection: one that the context ends before a field
\* is complete closes the session, a failed read by itself does not.
Fetched(p) ==
    /\ Locked(p, "fetched")
    /\ \/ proc[p].res # "ok" /\ CloseIfInterrupted(p)
       \/ proc[p].res = "ok" /\ device \notin down /\ Finish(p, "ok")
       \/ proc[p].res = "ok" /\ ~CtxDone(p) /\ Finish(p, "fail")
       \/ /\ proc[p].res = "ok" /\ CtxDone(p)
          /\ \E genuine \in BOOLEAN :
                proc' = [proc EXCEPT ![p].pc = "disconnect", ![p].uses = device,
                                     ![p].faulted = @ \/ genuine,
                                     ![p].stack = <<"interrupted">> \o @]
          /\ UNCHANGED lock
    /\ UNCHANGED <<sessionVars, transportVars, eventVars, ctxDone>>

\* A success takes the station off the cleanup list.
ReleaseDone(p) ==
    /\ Locked(p, "releaseDone")
    /\ tracked' = (tracked /\ proc[p].res = "fail")
    /\ Finish(p, proc[p].res)
    /\ UNCHANGED <<device, chars, pending, inFlight, connected,
                   transportVars, eventVars, ctxDone>>

\* A link known to be dead is closed, a query that fails is not believed.
Probe(p) ==
    /\ Locked(p, "probe")
    /\ \/ Finish(p, "ok")
       \/ device # None /\ device \in down /\ Call(p, "disconnect", "probed") /\ UNCHANGED lock
    /\ UNCHANGED <<sessionVars, transportVars, eventVars, ctxDone>>

Probed(p) ==
    /\ Locked(p, "probed")
    /\ Finish(p, "ok")
    /\ UNCHANGED <<sessionVars, transportVars, eventVars, ctxDone>>

CallStep(p) ==
    \/ Enter(p) \/ Ensured(p) \/ Interrupted(p) \/ RefreshClosed(p)
    \/ Fetched(p) \/ ReleaseDone(p) \/ Probe(p) \/ Probed(p)

Cancel(p) ==
    /\ p \in Cancellers /\ Running(p) /\ ~CtxDone(p)
    /\ ctxDone' = ctxDone \cup {p}
    /\ UNCHANGED <<lock, sessionVars, transportVars, eventVars, proc>>

-----------------------------------------------------------------------------
(* Disconnect events of the adapter, and what they start.                  *)
(***************************************************************************)
\* The link of a session drops, whether it is in use or being closed.
LinkDrops(h) ==
    /\ h \in Open \ down
    /\ down' = down \cup {h}
    /\ events' = events \cup {h}
    /\ UNCHANGED <<lock, sessionVars, opened, released, queue, drainer,
                   invalid, ctxDone, proc>>

\* Mutant: one pending invalidation, overwritten by the next event.
DeliverLast(h) ==
    /\ h \in events
    /\ events' = events \ {h}
    /\ IF connected
       THEN queue' = <<h>> /\ drainer' = IF drainer = "off" THEN "idle" ELSE drainer
       ELSE UNCHANGED <<queue, drainer>>
    /\ UNCHANGED <<lock, sessionVars, transportVars, invalid, ctxDone, proc>>

\* handleAdapterConnectionChange and queueDeviceInvalidation: only a station
\* of the connected list hears of the event; a handle waits once, and one
\* worker serves the queue.
DeliverDrop(h) ==
    /\ h \in events
    /\ events' = events \ {h}
    /\ IF connected /\ \A i \in DOMAIN queue : queue[i] # h
       THEN /\ queue' = Append(queue, h)
            /\ drainer' = IF drainer = "off" THEN "idle" ELSE drainer
       ELSE UNCHANGED <<queue, drainer>>
    /\ UNCHANGED <<lock, sessionVars, transportVars, invalid, ctxDone, proc>>

\* drainDeviceInvalidations: take the oldest handle, or end.
DrainNext ==
    /\ drainer = "idle"
    /\ IF queue = << >>
       THEN drainer' = "off" /\ UNCHANGED <<queue, invalid>>
       ELSE drainer' = "busy" /\ invalid' = Head(queue) /\ queue' = Tail(queue)
    /\ UNCHANGED <<lock, sessionVars, transportVars, events, ctxDone, proc>>

\* Mutant: an event detaches whatever session the station holds by then.
InvalidateAny ==
    /\ drainer = "busy" /\ lock = NoOne
    /\ drainer' = "idle" /\ invalid' = None
    /\ IF device = None
       THEN UNCHANGED <<sessionVars, proc>>
       ELSE /\ pending' = device
            /\ device' = None
            /\ chars' = FALSE
            /\ connected' = FALSE
            /\ tracked' = TRUE
            /\ UNCHANGED inFlight
            /\ proc' = [proc EXCEPT ![device].pc = "sweeping", ![device].kind = "dropped"]
    /\ UNCHANGED <<lock, transportVars, events, queue, ctxDone>>

\* invalidateDisconnectedDevice: an event of the current session detaches it
\* for cleanup and starts a goroutine that cleans it up; an older one is over.
Invalidate ==
    /\ drainer = "busy" /\ lock = NoOne
    /\ drainer' = "idle" /\ invalid' = None
    /\ IF device # invalid
       THEN UNCHANGED <<sessionVars, proc>>
       ELSE /\ pending' = device
            /\ device' = None
            /\ chars' = FALSE
            /\ connected' = FALSE
            /\ tracked' = TRUE
            /\ UNCHANGED inFlight
            /\ proc' = [proc EXCEPT ![invalid].pc = "sweeping", ![invalid].kind = "dropped"]
    /\ UNCHANGED <<lock, transportVars, events, queue, ctxDone>>

EagerCleanup(p) ==
    /\ Unlocked(p, "sweeping")
    /\ IF pending = None
       THEN Goto(p, "done") /\ UNCHANGED <<lock, pending, inFlight>>
       ELSE StartCleanup(p, "cleaned", << >>)
    /\ UNCHANGED <<device, chars, connected, tracked, transportVars, eventVars, ctxDone>>

EagerCleaned(p) ==
    /\ Locked(p, "cleaned")
    /\ Finish(p, "ok")
    /\ UNCHANGED <<sessionVars, transportVars, eventVars, ctxDone>>

EventStep ==
    \/ \E h \in Handles : LinkDrops(h) \/ DeliverDrop(h)
    \/ DrainNext \/ Invalidate

ProcStep(p) ==
    \/ ConnectStep(p) \/ DisconnectStep(p) \/ CallStep(p)
    \/ EagerCleanup(p) \/ EagerCleaned(p)

Next ==
    \/ \E p \in Procs : ProcStep(p)
    \/ \E p \in Calls : Cancel(p) \/ \E kind \in Kinds[p] : Begin(p, kind)
    \/ EventStep

Spec == Init /\ [][Next]_vars

(***************************************************************************)
(* Fairness: the mutex of a station serves its waiters in turn, the        *)
(* transport bounds every call it makes, timers fire, and the goroutines   *)
(* of the package run.  Nothing obliges a link to drop, a caller to cancel *)
(* or a call to be made.                                                   *)
(***************************************************************************)
FairSpec ==
    /\ Spec
    /\ \A p \in Procs : SF_vars(ProcStep(p))
    /\ \A h \in Handles : WF_vars(DeliverDrop(h))
    /\ WF_vars(DrainNext)
    /\ SF_vars(Invalidate)

-----------------------------------------------------------------------------
(* Types and properties.                                                   *)
(***************************************************************************)
Labels ==
    {"idle", "enter", "done", "connect", "gate", "gateWait", "gated", "staleClosed",
     "rebuild", "open", "opened", "discover", "attemptFailed", "giveUp", "retryClosed",
     "retryWait", "reopen", "cleaning", "disconnect", "detach",
     "disconnecting", "ensured", "interrupted", "refreshClosed", "fetched",
     "releaseDone", "probe", "probed", "sweeping", "cleaned"}
Results == {"ok", "fail", "cancelled", "notStarted"}

ProcType ==
    [pc : Labels, stack : Seq(Labels), kind : SessionKinds \cup {"none", "dropped"},
     h : 0..MaxHandles, res : Results, tries : 0..DiscoveryAttempts,
     uses : 0..MaxHandles, faulted : BOOLEAN]

\* Every variable holds a value of its type.
TypeOK ==
    /\ lock \in Procs \cup {NoOne} /\ inFlight \in Procs \cup {NoOne}
    /\ device \in 0..MaxHandles /\ pending \in 0..MaxHandles
    /\ chars \in BOOLEAN /\ connected \in BOOLEAN /\ tracked \in BOOLEAN
    /\ opened \in 0..MaxHandles
    /\ released \subseteq Handles
    /\ down \subseteq Handles /\ events \subseteq Handles
    /\ queue \in Seq(Handles) /\ drainer \in {"off", "idle", "busy"}
    /\ invalid \in 0..MaxHandles /\ ctxDone \subseteq Calls
    /\ proc \in [Procs -> ProcType]

\* The process that closes a session, or has just been given it.
HandPcs == {"cleaning", "disconnecting", "opened"}
InHandAt(p) == proc[p].pc \in HandPcs
InHand(p, h) == InHandAt(p) /\ proc[p].h = h
HolderCount(h) ==
    Cardinality({p \in Procs : InHand(p, h)})
    + (IF device = h THEN 1 ELSE 0) + (IF pending = h THEN 1 ELSE 0)

\* A station never has two GATT sessions, and the one it has belongs to exactly
\* one of: the station, its cleanup, a disconnect in flight (connection.go
\* 443-447, 478-484: a second session drops or corrupts the first, and a
\* handle nobody holds stays open until the process ends).
OneSession ==
    /\ Cardinality(Open) <= 1
    /\ \A h \in Open : HolderCount(h) = 1

\* Whenever the lock is free, a station that holds a session is in the list
\* that hears disconnect events, and one that holds a session or a handle to
\* clean up is in a list that the fleet-wide cleanup visits (connection.go
\* 519-524, 639-642; runtime.go 288-296).
HeldIsTracked ==
    lock = NoOne =>
        /\ device # None => connected
        /\ pending # None => connected \/ tracked

\* The variables have their types, and every session has its one holder, in
\* reach of the disconnect events and of the fleet-wide cleanup.
SessionInv == TypeOK /\ OneSession /\ HeldIsTracked

Cancellable == {"ensure", "fetch"}
\* A cancelled or failed call closes only a session it has itself used, never
\* one that another call rebuilt while this one waited outside the lock
\* (connection.go 13-16, 30-35).
ForeignSessionKept ==
    [][\A p \in Calls :
          proc[p].kind \in Cancellable /\ proc'[p].pc = "disconnecting"
              /\ proc[p].pc # "disconnecting"
          => device = proc[p].uses]_vars

\* The session in the hand of a process, which opens or closes it, and those of
\* the station, as sets.
HandOf == [p \in Procs |-> IF InHandAt(p) THEN {proc[p].h} ELSE {}]
SetOf(h) == IF h = None THEN {} ELSE {h}
Opening == \E p \in Procs : At(p, "opened")

Owner == INSTANCE SessionOwner WITH
    Users  <- Procs,
    count  <- opened,
    live   <- Open,
    down   <- down,
    held   <- SetOf(device),
    usable <- chars,
    kept   <- SetOf(pending),
    hand   <- HandOf,
    fresh  <- Opening

\* The session of a station is opened only when none is open, is handed from its
\* opener to the station and from there to whoever closes it, and is detached
\* by an event only when its own link has dropped; what was discovered of it
\* goes with it (connection.go 443-447, 478-484; model.go 57-61; runtime.go
\* 297-325).
ImplementsSessionOwner == Owner!Spec

\* A drop of the session the station holds is noticed, whatever older events
\* are still queued or delivered after it, and a session it detaches for cleanup
\* is released, or the goroutine started for it has had its attempt, without
\* another call having to be made (model.go 57-61, runtime.go 318-325).
DropNoticed ==
    \A h \in Handles :
        (device = h /\ h \in events)
        ~> (/\ device # h
            /\ (proc[h].kind = "dropped" => h \in released \/ At(h, "done")))

\* Every call ends: the waits for the gate, the lock and one another make no
\* circle (connection.go 448-461, 470-478).
CallsEnd == \A p \in Calls : Running(p) ~> ~Running(p)

====
