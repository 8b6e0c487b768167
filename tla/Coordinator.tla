----------------------------- MODULE Coordinator -----------------------------
(***************************************************************************)
(* The operation coordinator of internal/station: who may use the adapter  *)
(* and which station, and who waits for whom.                              *)
(*                                                                         *)
(* Foreground callers (UI and HTTP API) start station commands, bulk power *)
(* batches, configuration writes and scans.  The manager itself runs       *)
(* status refreshes and one recovery loop in the background.  They meet on *)
(*                                                                         *)
(*   - operationMutex, a try-only RWMutex (exclusive: scan and bulk);      *)
(*   - activeDeviceOperations and the GATT slot channel (station work);    *)
(*   - scanTransitionMutex, which serialises the start of foreground work  *)
(*     with the start and the end of a scan;                               *)
(*   - the done channels of background work, on which foreground callers   *)
(*     wait after having cancelled it;                                     *)
(*   - the registration count that the shutdown drain waits on.            *)
(*                                                                         *)
(* One action is one critical section of the code.  A release of           *)
(* operationMutex and the unregisterOperation that follows it are one      *)
(* action: only the drain reads the count, and it merely gets to run a     *)
(* little earlier.                                                         *)
(***************************************************************************)
EXTENDS Naturals, FiniteSets

CONSTANTS
  Callers,    \* goroutines of foreground requests
  SyncScanners, \* those that scan by ScanAndFetchStationsContext, not StartScan
  Refreshes,  \* status refreshes: a dispatcher and its single worker each
  Recovery,   \* the recovery loop
  Requests,   \* the public calls made: station, shared, bulk, scan
  Stations,   \* lower-case station addresses, the keys of the device map
  GattSlots,  \* capacity of deviceOperationSlots (2 in NewManager)
  None

Agents == Callers \cup Refreshes \cup {Recovery}

ASSUME CoordinatorAssumption ==
  /\ IsFiniteSet(Callers) /\ IsFiniteSet(Refreshes) /\ IsFiniteSet(Stations)
  /\ SyncScanners \subseteq Callers
  /\ Requests \subseteq {"station", "shared", "bulk", "scan"}
  /\ GattSlots \in Nat
  /\ Callers \cap Refreshes = {}
  /\ Recovery \notin Callers \cup Refreshes
  /\ Stations \cap Agents = {}
  /\ None \notin Agents \cup Stations

VARIABLES
  pc,           \* where each agent's operation stands
  op,           \* its kind: the public call, or the device-operation kind
  target,       \* the station it is for
  waitOn,       \* the open done channel a caller waits on, or None
  stale,        \* callers whose captured recoveryGeneration is out of date
  registered,   \* activeOperations
  readers,      \* operationMutex: read locks held
  writer,       \*   and whether the write lock is (exclusiveOperationActive)
  foregroundGlobalActive,
  foregroundSharedActive,
  transition,   \* holder of scanTransitionMutex
  isScanning,
  scanLifecycle,        \* the scan that owns the published lifecycle
  active,       \* activeDeviceOperations: the agent that owns each entry
  slots,        \* tokens in deviceOperationSlots
  phase,        \* where each status refresh's dispatcher stands
  todo,         \* stations it has not handed to its worker yet
  statusMutex,  \* holder of statusOperationMutex
  statusDone,   \* statusOperationDone: the refresh whose channel is published
  recoveryDone, \* recoveryOperationDone # nil
  cancelled,    \* background lifecycles whose context a caller has cancelled
  shuttingDown,
  drain         \* progress of runShutdownDrain

callVars   == <<op, target, stale>>
lockVars   == <<registered, readers, writer>>
flagVars   == <<foregroundGlobalActive, foregroundSharedActive>>
scanVars   == <<transition, isScanning, scanLifecycle>>
deviceVars == <<active, slots>>
statusVars == <<phase, todo, statusMutex, statusDone>>
lifeVars   == <<shuttingDown, drain>>
agentVars  == <<pc, callVars, waitOn>>
sharedVars == <<lockVars, flagVars, scanVars, deviceVars>>
worldVars  == <<statusVars, recoveryDone, cancelled, lifeVars>>
vars == <<agentVars, sharedVars, worldVars>>

Kinds == {"none", "station", "shared", "bulk", "scan", "status", "recovery"}
Steps == {"idle", "enter", "transition", "register", "lock", "device", "mark",
          "missed", "missedStatus", "waiting", "holding", "release",
          "reserve", "publish", "ready", "finish", "abort", "unpublish",
          "round", "clear", "giveUp", "exited"}
Phases == {"idle", "register", "lock", "refreshing", "closing", "abandoned"}
DrainSteps == {"none", "stopScan", "recovery", "operations", "asyncScan",
               "disconnecting"}

IsGlobal(a) == op[a] \in {"bulk", "scan"}

Init ==
  /\ pc = [a \in Agents |-> "idle"]
  /\ op = [a \in Agents |-> IF a \in Refreshes THEN "status"
                            ELSE IF a = Recovery THEN "recovery" ELSE "none"]
  /\ target = [a \in Agents |-> None]
  /\ waitOn = [c \in Callers |-> None]
  /\ stale = {}
  /\ registered = 0 /\ readers = 0 /\ writer = FALSE
  /\ foregroundGlobalActive = FALSE
  /\ foregroundSharedActive = 0
  /\ transition = None /\ isScanning = FALSE /\ scanLifecycle = None
  /\ active = [s \in Stations |-> None] /\ slots = 0
  /\ phase = [r \in Refreshes |-> "idle"]
  /\ todo = [r \in Refreshes |-> {}]
  /\ statusMutex = None /\ statusDone = None
  /\ recoveryDone = FALSE /\ cancelled = {}
  /\ shuttingDown = FALSE /\ drain = "none"

-----------------------------------------------------------------------------
(* How an operation moves on, ends, or is refused.                         *)

Go(a, step) ==
  /\ pc' = [pc EXCEPT ![a] = step]
  /\ UNCHANGED callVars

\* The public call returns to its caller, or the worker to its dispatcher.
Quit(a) ==
  /\ pc' = [pc EXCEPT ![a] = "idle"]
  /\ op' = [op EXCEPT ![a] = IF a \in Callers THEN "none" ELSE @]
  /\ target' = [target EXCEPT ![a] = None]
  /\ stale' = stale \ {a}

\* An error leaves the begin functions: a scan still has its reservation to
\* undo, the recovery loop its published lifecycle.
Refuse(a) ==
  \/ op[a] = "scan" /\ Go(a, "abort")
  \/ op[a] = "recovery" /\ Go(a, "giveUp")
  \/ op[a] \notin {"scan", "recovery"} /\ Quit(a)

UnlockTransition(a) ==
  transition' = IF transition = a THEN None ELSE transition

Unregister == registered' = registered - 1

\* Mutant: the done channel is dropped without being closed.
DropChannel(channel) == UNCHANGED waitOn

\* The channel is closed: whoever waits on it may go on.
Close(channel) ==
  waitOn' = [c \in Callers |-> IF waitOn[c] = channel THEN None ELSE waitOn[c]]

\* Mutant: the generation is not advanced.
KeepGeneration == UNCHANGED stale

\* Every captured generation is out of date from now on.
BumpGeneration == stale' = stale \cup {c \in Callers : op[c] = "station"}

WaitFor(c, channel) ==
  /\ Go(c, "waiting")
  /\ waitOn' = [waitOn EXCEPT ![c] = channel]

-----------------------------------------------------------------------------
(* The foreground begin functions, up to the registration.                 *)

FirstStep(kind) ==
  CASE kind = "scan" -> "reserve" [] kind = "shared" -> "transition"
    [] OTHER -> "enter"

\* A public call.  Only a scan reserves its slot before it asks for the lock; a
\* configuration write has no context and no attempt loop.
Begin(c, kind, s) ==
  /\ pc[c] = "idle"
  /\ pc' = [pc EXCEPT ![c] = FirstStep(kind)]
  /\ op' = [op EXCEPT ![c] = kind]
  /\ target' = [target EXCEPT ![c] = s]
  /\ UNCHANGED <<stale, waitOn, worldVars, sharedVars>>

\* The head of the attempt loops; a station call captures the recovery
\* generation.
Enter(c) ==
  /\ pc[c] = "enter"
  /\ pc' = [pc EXCEPT ![c] =
              IF op[c] = "scan" THEN "register" ELSE "transition"]
  /\ stale' = stale \ {c}
  /\ UNCHANGED <<op, target>>
  /\ UNCHANGED <<waitOn, worldVars, sharedVars>>

\* The caller's context (a cancellation, a deadline, or the lifecycle context a
\* shutdown cancels) is found stopped there, or once scanTransitionMutex is
\* held.
ContextStopped(c) ==
  /\ \/ pc[c] = "enter"
     \/ pc[c] = "transition" /\ op[c] # "shared" /\ transition = None
  /\ Refuse(c)
  /\ UNCHANGED <<waitOn, worldVars, sharedVars>>

\* Under scanTransitionMutex a running scan refuses all other foreground work.
LockTransition(c) ==
  /\ pc[c] = "transition"
  /\ transition = None
  /\ \/ /\ isScanning
        /\ Quit(c)
        /\ UNCHANGED transition
     \/ /\ ~isScanning
        /\ Go(c, "register")
        /\ transition' = c
  /\ UNCHANGED <<waitOn, lockVars, flagVars, isScanning, scanLifecycle,
                 deviceVars, worldVars>>

Register(a) ==
  /\ pc[a] = "register"
  /\ \/ /\ shuttingDown
        /\ IF op[a] = "recovery" THEN Go(a, "clear") ELSE Refuse(a)
        /\ UnlockTransition(a)
        /\ UNCHANGED registered
     \/ /\ ~shuttingDown
        /\ registered' = registered + 1
        /\ Go(a, "lock")
        /\ UNCHANGED transition
  /\ UNCHANGED <<waitOn, readers, writer, flagVars, isScanning, scanLifecycle,
                 deviceVars, worldVars>>

-----------------------------------------------------------------------------
(* Shared access: configuration writes and work on one station.            *)

LockShared(a) ==
  /\ pc[a] = "lock"
  /\ ~IsGlobal(a)
  /\ \/ /\ writer
        /\ Unregister
        /\ IF op[a] = "station" THEN Go(a, "missed") ELSE Refuse(a)
        /\ UnlockTransition(a)
        /\ UNCHANGED readers
     \/ /\ ~writer
        /\ readers' = readers + 1
        /\ Go(a, IF op[a] = "shared" THEN "mark" ELSE "device")
        /\ UNCHANGED <<registered, transition>>
  /\ UNCHANGED <<waitOn, writer, flagVars, isScanning, scanLifecycle,
                 deviceVars, worldVars>>

MarkShared(c) ==
  /\ pc[c] = "mark"
  /\ op[c] = "shared"
  /\ foregroundSharedActive' = foregroundSharedActive + 1
  /\ UnlockTransition(c)
  /\ Go(c, "holding")
  /\ UNCHANGED <<waitOn, lockVars, foregroundGlobalActive, isScanning,
                 scanLifecycle, deviceVars, worldVars>>

EndShared(c) ==
  /\ pc[c] = "holding"
  /\ op[c] = "shared"
  /\ foregroundSharedActive' = foregroundSharedActive - 1
  /\ Go(c, "release")
  /\ UNCHANGED <<waitOn, lockVars, foregroundGlobalActive, scanVars,
                 deviceVars, worldVars>>

\* The deviceOperationMutex section of beginStationOperationKindContext: the
\* station is free and a slot is, or the read lock goes back.
DeviceBusy(a) ==
  /\ active[target[a]] # None
  /\ UnlockTransition(a)
  /\ readers' = readers - 1 /\ Unregister
  /\ IF a \in Callers /\ active[target[a]] \notin Callers
       THEN WaitFor(a, target[a])
       ELSE Refuse(a) /\ UNCHANGED waitOn
  /\ cancelled' = IF a \in Callers /\ active[target[a]] = Recovery
                    THEN cancelled \cup {Recovery} ELSE cancelled
  /\ UNCHANGED deviceVars

SlotsBusy(a) ==
  /\ active[target[a]] = None
  /\ slots >= GattSlots
  /\ UnlockTransition(a)
  /\ readers' = readers - 1 /\ Unregister
  /\ IF a \in Callers THEN Go(a, "missed") ELSE Refuse(a)
  /\ UNCHANGED <<waitOn, deviceVars, cancelled>>

\* Mutant: the entry of another operation is overwritten.
TakeAnyDevice(a) ==
  /\ slots < GattSlots
  /\ active' = [active EXCEPT ![target[a]] = a]
  /\ slots' = slots + 1
  /\ UnlockTransition(a)
  /\ Go(a, "holding")
  /\ UNCHANGED <<waitOn, registered, readers, cancelled>>

TakeDevice(a) ==
  /\ active[target[a]] = None
  /\ slots < GattSlots
  /\ active' = [active EXCEPT ![target[a]] = a]
  /\ slots' = slots + 1
  /\ UnlockTransition(a)
  /\ Go(a, "holding")
  /\ UNCHANGED <<waitOn, registered, readers, cancelled>>

BeginDevice(a) ==
  /\ pc[a] = "device"
  /\ DeviceBusy(a) \/ SlotsBusy(a) \/ TakeDevice(a)
  /\ UNCHANGED <<writer, flagVars, isScanning, scanLifecycle, statusVars,
                 recoveryDone, lifeVars>>

\* Mutant: the entry goes, its GATT slot stays taken.
EndDeviceKeepingSlot(a) ==
  /\ pc[a] = "holding"
  /\ op[a] \in {"station", "status", "recovery"}
  /\ active' = [active EXCEPT ![target[a]] = None]
  /\ Close(target[a])
  /\ Go(a, "release")
  /\ UNCHANGED <<slots, lockVars, flagVars, scanVars, worldVars>>

EndDevice(a) ==
  /\ pc[a] = "holding"
  /\ op[a] \in {"station", "status", "recovery"}
  /\ active' = [active EXCEPT ![target[a]] = None]
  /\ slots' = slots - 1
  /\ Close(target[a])
  /\ Go(a, "release")
  /\ UNCHANGED <<lockVars, flagVars, scanVars, worldVars>>

ReleaseShared(a) ==
  /\ pc[a] = "release"
  /\ ~IsGlobal(a)
  /\ readers' = readers - 1 /\ Unregister
  /\ IF a = Recovery THEN Go(a, "clear") ELSE Quit(a)
  /\ UNCHANGED <<waitOn, writer, flagVars, scanVars, deviceVars, worldVars>>

\* A station call that found no slot, or the write lock held, waits for the
\* recovery only.  A generation that moved meanwhile means a recovery ended
\* under its feet: look again.
MissedStation(c) ==
  /\ pc[c] = "missed"
  /\ op[c] = "station"
  /\ \/ /\ c \in stale
        /\ Go(c, "enter")
        /\ UNCHANGED <<waitOn, cancelled>>
     \/ /\ c \notin stale /\ recoveryDone
        /\ WaitFor(c, Recovery)
        /\ cancelled' = cancelled \cup {Recovery}
     \/ /\ c \notin stale /\ ~recoveryDone
        /\ Quit(c)
        /\ UNCHANGED <<waitOn, cancelled>>
  /\ UNCHANGED <<statusVars, recoveryDone, lifeVars, sharedVars>>

-----------------------------------------------------------------------------
(* Exclusive access: a bulk batch (which attempts under scanTransition) and *)
(* a scan (which has reserved its slot).                                   *)

\* Mutant: readers do not keep the writer out.
LockBesideReaders(c) ==
  /\ pc[c] = "lock" /\ IsGlobal(c) /\ ~writer
  /\ writer' = TRUE
  /\ Go(c, "mark")
  /\ UNCHANGED <<waitOn, registered, readers, flagVars, scanVars, deviceVars,
                 worldVars>>

LockExclusive(c) ==
  /\ pc[c] = "lock"
  /\ IsGlobal(c)
  /\ \/ /\ writer \/ readers > 0
        /\ Unregister
        /\ Go(c, "missed")
        /\ UNCHANGED writer
     \/ /\ ~writer /\ readers = 0
        /\ writer' = TRUE
        /\ Go(c, "mark")
        /\ UNCHANGED registered
  /\ UNCHANGED <<waitOn, readers, foregroundGlobalActive,
                 foregroundSharedActive, scanVars, deviceVars, worldVars>>

\* Mutant: the write lock goes back, the registration stays.
EndOperationRegistered ==
  /\ writer' = FALSE
  /\ UNCHANGED <<registered, readers, foregroundSharedActive>>

\* endOperation
EndOperation ==
  /\ writer' = FALSE
  /\ Unregister
  /\ UNCHANGED <<readers, foregroundSharedActive>>

\* The context is read once more after the lock has been won.
MarkGlobal(c) ==
  /\ pc[c] = "mark"
  /\ IsGlobal(c)
  /\ UnlockTransition(c)
  /\ \/ /\ EndOperation
        /\ Refuse(c)
        /\ UNCHANGED foregroundGlobalActive
     \/ /\ foregroundGlobalActive' = TRUE
        /\ Go(c, IF op[c] = "scan" THEN "ready" ELSE "holding")
        /\ UNCHANGED <<lockVars, foregroundSharedActive>>
  /\ UNCHANGED <<waitOn, isScanning, scanLifecycle, deviceVars, worldVars>>

\* Mutant: whatever refresh is published is cancelled beside the recovery.
CancelAllGlobal(c) ==
  /\ pc[c] = "missed" /\ IsGlobal(c)
  /\ ~foregroundGlobalActive /\ recoveryDone
  /\ WaitFor(c, Recovery)
  /\ UnlockTransition(c)
  /\ cancelled' = cancelled \cup {Recovery} \cup ({statusDone} \ {None})
  /\ UNCHANGED <<lockVars, flagVars, isScanning, scanLifecycle, deviceVars,
                 statusVars, recoveryDone, lifeVars>>

\* The lock was taken: refuse beside another foreground global operation, else
\* cancel the background work found and wait for it.
MissedGlobal(c) ==
  /\ pc[c] = "missed"
  /\ IsGlobal(c)
  /\ \/ /\ foregroundGlobalActive
        /\ Refuse(c)
        /\ UnlockTransition(c)
        /\ UNCHANGED <<waitOn, cancelled>>
     \/ /\ ~foregroundGlobalActive /\ recoveryDone
        /\ WaitFor(c, Recovery)
        /\ UnlockTransition(c)
        /\ cancelled' = cancelled \cup {Recovery}
     \/ /\ ~foregroundGlobalActive /\ ~recoveryDone
        /\ Go(c, "missedStatus")
        /\ UNCHANGED <<waitOn, transition, cancelled>>
  /\ UNCHANGED <<lockVars, flagVars, isScanning, scanLifecycle, deviceVars,
                 statusVars, recoveryDone, lifeVars>>

MissedStatus(c) ==
  /\ pc[c] = "missedStatus"
  /\ UnlockTransition(c)
  /\ \/ /\ statusDone # None
        /\ WaitFor(c, statusDone)
        /\ cancelled' = cancelled \cup {statusDone}
     \/ /\ statusDone = None
        /\ Refuse(c)
        /\ UNCHANGED <<waitOn, cancelled>>
  /\ UNCHANGED <<lockVars, flagVars, isScanning, scanLifecycle, deviceVars,
                 statusVars, recoveryDone, lifeVars>>

EndBulk(c) ==
  /\ pc[c] = "holding"
  /\ op[c] = "bulk"
  /\ foregroundGlobalActive' = FALSE
  /\ Go(c, "release")
  /\ UNCHANGED <<waitOn, lockVars, foregroundSharedActive, scanVars,
                 deviceVars, worldVars>>

ReleaseExclusive(c) ==
  /\ pc[c] = "release"
  /\ IsGlobal(c)
  /\ EndOperation
  /\ IF op[c] = "scan" THEN Go(c, "unpublish") ELSE Quit(c)
  /\ UNCHANGED <<waitOn, foregroundGlobalActive, scanVars, deviceVars,
                 worldVars>>

-----------------------------------------------------------------------------
(* The wait for background work, which every foreground begin function of  *)
(* a station, a bulk or a scan shares.                                     *)

\* The channel was closed: try again.
Woken(c) ==
  /\ pc[c] = "waiting"
  /\ waitOn[c] = None
  /\ Go(c, "enter")
  /\ UNCHANGED <<waitOn, worldVars, sharedVars>>

\* Mutant: only the shutdown ends a wait, there is no drain deadline.
WaitForever(c) ==
  /\ pc[c] = "waiting" /\ shuttingDown
  /\ Refuse(c)
  /\ waitOn' = [waitOn EXCEPT ![c] = None]
  /\ UNCHANGED <<worldVars, sharedVars>>

\* The wait ends with an error: the drain deadline, the caller's context or the
\* shutdown, any of which select may choose over a closed channel.
StopWaiting(c) ==
  /\ pc[c] = "waiting"
  /\ Refuse(c)
  /\ waitOn' = [waitOn EXCEPT ![c] = None]
  /\ UNCHANGED <<worldVars, sharedVars>>

-----------------------------------------------------------------------------
(* A scan's slot: reserveScan, prepareScan, finishScan and abortScanStart. *)

\* Mutant: the device map is not looked at.
HasForegroundFlag == foregroundGlobalActive \/ foregroundSharedActive > 0

\* hasForegroundOperation
HasForeground ==
  \/ foregroundGlobalActive
  \/ foregroundSharedActive > 0
  \/ \E s \in Stations : active[s] \in Callers

ReserveScan(c) ==
  /\ pc[c] = "reserve"
  /\ transition = None
  /\ \/ /\ shuttingDown \/ HasForeground \/ scanLifecycle # None
        /\ Quit(c)
        /\ UNCHANGED transition
     \/ /\ ~shuttingDown /\ ~HasForeground /\ scanLifecycle = None
        /\ transition' = c
        /\ Go(c, "publish")
  /\ UNCHANGED <<waitOn, lockVars, flagVars, isScanning, scanLifecycle,
                 deviceVars, worldVars>>

PublishScan(c) ==
  /\ pc[c] = "publish"
  /\ scanLifecycle' = c
  /\ isScanning' = TRUE
  /\ UnlockTransition(c)
  /\ Go(c, "enter")
  /\ UNCHANGED <<waitOn, lockVars, flagVars, deviceVars, worldVars>>

\* The adapter may turn out not to be ready; a shutdown or a stop seen here
\* aborts the start.
PrepareScan(c) ==
  /\ pc[c] = "ready"
  /\ \/ Go(c, "finish")
     \/ ~shuttingDown /\ Go(c, "holding")
  /\ UNCHANGED <<waitOn, worldVars, sharedVars>>

\* Under scanTransitionMutex until the slot is free again.
FinishScan(c) ==
  /\ \/ pc[c] = "holding" /\ op[c] = "scan"
     \/ pc[c] = "finish"
  /\ transition = None
  /\ transition' = c
  /\ isScanning' = FALSE
  /\ foregroundGlobalActive' = FALSE
  /\ Go(c, "release")
  /\ UNCHANGED <<waitOn, lockVars, foregroundSharedActive, scanLifecycle,
                 deviceVars, worldVars>>

\* Mutant: the flag is left behind.
AbortScanFlagged(c) ==
  /\ pc[c] = "abort"
  /\ transition = None
  /\ transition' = c
  /\ Go(c, "unpublish")
  /\ UNCHANGED <<waitOn, lockVars, flagVars, isScanning, scanLifecycle,
                 deviceVars, worldVars>>

AbortScan(c) ==
  /\ pc[c] = "abort"
  /\ transition = None
  /\ transition' = c
  /\ isScanning' = FALSE
  /\ Go(c, "unpublish")
  /\ UNCHANGED <<waitOn, lockVars, flagVars, scanLifecycle, deviceVars,
                 worldVars>>

UnpublishScan(c) ==
  /\ pc[c] = "unpublish"
  /\ scanLifecycle' = None
  /\ UnlockTransition(c)
  /\ Quit(c)
  /\ UNCHANGED <<waitOn, lockVars, flagVars, isScanning, deviceVars, worldVars>>

-----------------------------------------------------------------------------
(* The recovery loop: one candidate at a time.                             *)

RecoveryRound ==
  /\ pc[Recovery] = "idle"
  /\ ~shuttingDown /\ ~isScanning /\ ~writer
  /\ Go(Recovery, "round")
  /\ UNCHANGED <<waitOn, worldVars, sharedVars>>

\* No candidate is left to try.
RecoveryRoundEnd ==
  /\ pc[Recovery] = "round"
  /\ Go(Recovery, "idle")
  /\ UNCHANGED <<waitOn, worldVars, sharedVars>>

\* beginRecoveryStationOperation publishes the lifecycle first.
BeginRecovery(s) ==
  /\ pc[Recovery] = "round"
  /\ recoveryDone' = TRUE
  /\ cancelled' = cancelled \ {Recovery}
  /\ BumpGeneration
  /\ pc' = [pc EXCEPT ![Recovery] = "register"]
  /\ target' = [target EXCEPT ![Recovery] = s]
  /\ UNCHANGED <<op, waitOn, statusVars, lifeVars, sharedVars>>

\* The end of endRecoveryStationOperation, or of a begin that failed; after a
\* Busy the round goes on with its next candidate.
ClearRecovery ==
  /\ pc[Recovery] \in {"clear", "giveUp"}
  /\ recoveryDone' = FALSE
  /\ cancelled' = cancelled \ {Recovery}
  /\ BumpGeneration
  /\ Close(Recovery)
  /\ pc' = [pc EXCEPT ![Recovery] = IF pc[Recovery] = "clear" THEN "idle"
                                                             ELSE "round"]
  /\ target' = [target EXCEPT ![Recovery] = None]
  /\ UNCHANGED <<op, statusVars, lifeVars, sharedVars>>

RecoveryExit ==
  /\ pc[Recovery] = "idle"
  /\ shuttingDown
  /\ Go(Recovery, "exited")
  /\ UNCHANGED <<waitOn, worldVars, sharedVars>>

-----------------------------------------------------------------------------
(* Status refreshes: the dispatcher holds the shared lock, its worker adds *)
(* a station operation per read.                                           *)

Phase(r, next) == phase' = [phase EXCEPT ![r] = next]

BeginRefresh(r) ==
  /\ phase[r] = "idle"
  /\ statusMutex = None
  /\ statusMutex' = r
  /\ statusDone' = r
  /\ cancelled' = cancelled \ {r}
  /\ Phase(r, "register")
  /\ UNCHANGED <<todo, recoveryDone, lifeVars, sharedVars, agentVars>>

RegisterRefresh(r) ==
  /\ phase[r] = "register"
  /\ \/ shuttingDown /\ Phase(r, "closing") /\ UNCHANGED registered
     \/ ~shuttingDown /\ Phase(r, "lock") /\ registered' = registered + 1
  /\ UNCHANGED <<readers, writer, flagVars, scanVars, deviceVars, todo,
                 statusMutex, statusDone, recoveryDone, cancelled, lifeVars,
                 agentVars>>

\* The stations found connected are the ones to read; none when the adapter is
\* not ready.
LockRefresh(r, candidates) ==
  /\ phase[r] = "lock"
  /\ \/ /\ writer
        /\ Unregister
        /\ Phase(r, "closing")
        /\ UNCHANGED <<readers, todo>>
     \/ /\ ~writer
        /\ readers' = readers + 1
        /\ Phase(r, "refreshing")
        /\ todo' = [todo EXCEPT ![r] = candidates]
        /\ UNCHANGED registered
  /\ UNCHANGED <<writer, flagVars, scanVars, deviceVars, statusMutex,
                 statusDone, recoveryDone, cancelled, lifeVars, agentVars>>

\* The worker starts the read of a station.
Dispatch(r, s) ==
  /\ phase[r] = "refreshing"
  /\ pc[r] = "idle"
  /\ s \in todo[r]
  /\ todo' = [todo EXCEPT ![r] = @ \ {s}]
  /\ pc' = [pc EXCEPT ![r] = "register"]
  /\ target' = [target EXCEPT ![r] = s]
  /\ UNCHANGED <<op, stale, waitOn, phase, statusMutex, statusDone,
                 recoveryDone, cancelled, lifeVars, sharedVars>>

\* The refresh context stopped: the rest is skipped.
SkipRest(r) ==
  /\ phase[r] = "refreshing"
  /\ todo[r] # {}
  /\ todo' = [todo EXCEPT ![r] = {}]
  /\ UNCHANGED <<phase, statusMutex, statusDone, recoveryDone, cancelled,
                 lifeVars, sharedVars, agentVars>>

JoinRefresh(r) ==
  /\ phase[r] = "refreshing"
  /\ todo[r] = {} /\ pc[r] = "idle"
  /\ readers' = readers - 1 /\ Unregister
  /\ Phase(r, "closing")
  /\ UNCHANGED <<writer, flagVars, scanVars, deviceVars, todo, statusMutex,
                 statusDone, recoveryDone, cancelled, lifeVars, agentVars>>

\* endStatusLifecycle
EndRefresh(r) ==
  /\ phase[r] = "closing"
  /\ statusDone' = IF statusDone = r THEN None ELSE statusDone
  /\ IF statusDone = r THEN Close(r) ELSE UNCHANGED waitOn
  /\ statusMutex' = None
  /\ cancelled' = cancelled \ {r}
  /\ Phase(r, "idle")
  /\ UNCHANGED <<pc, callVars, todo, recoveryDone, lifeVars, sharedVars>>

\* Mutant: the early return forgets the dispatcher's read lock.
AbandonHoldingLock(r) ==
  /\ phase[r] = "refreshing"
  /\ todo[r] = {} /\ pc[r] # "idle"
  /\ Unregister
  /\ statusMutex' = None
  /\ Phase(r, "abandoned")
  /\ UNCHANGED <<readers, writer, flagVars, scanVars, deviceVars, todo,
                 statusDone, recoveryDone, cancelled, lifeVars, agentVars>>

\* The join budget ran out with the worker inside a read: the refresh returns,
\* its done channel stays open until the worker is back.
AbandonRefresh(r) ==
  /\ phase[r] = "refreshing"
  /\ todo[r] = {} /\ pc[r] # "idle"
  /\ readers' = readers - 1 /\ Unregister
  /\ statusMutex' = None
  /\ Phase(r, "abandoned")
  /\ UNCHANGED <<writer, flagVars, scanVars, deviceVars, todo, statusDone,
                 recoveryDone, cancelled, lifeVars, agentVars>>

\* Mutant: the channel is closed only while it is still the published one.
EndAbandonedIfPublished(r) ==
  /\ phase[r] = "abandoned"
  /\ pc[r] = "idle"
  /\ statusDone' = IF statusDone = r THEN None ELSE statusDone
  /\ IF statusDone = r THEN Close(r) ELSE UNCHANGED waitOn
  /\ cancelled' = cancelled \ {r}
  /\ Phase(r, "idle")
  /\ UNCHANGED <<pc, callVars, todo, statusMutex, recoveryDone, lifeVars,
                 sharedVars>>

\* abandonStatusLifecycle
EndAbandoned(r) ==
  /\ phase[r] = "abandoned"
  /\ pc[r] = "idle"
  /\ statusDone' = IF statusDone = r THEN None ELSE statusDone
  /\ Close(r)
  /\ cancelled' = cancelled \ {r}
  /\ Phase(r, "idle")
  /\ UNCHANGED <<pc, callVars, todo, statusMutex, recoveryDone, lifeVars,
                 sharedVars>>

-----------------------------------------------------------------------------
(* Shutdown.                                                               *)

BeginShutdown ==
  /\ drain = "none"
  /\ shuttingDown' = TRUE
  /\ drain' = "stopScan"
  /\ UNCHANGED <<statusVars, recoveryDone, cancelled, sharedVars, agentVars>>

\* StopScan waits for the published scan at most 30 s, and for an unpublished
\* one until scanTransitionMutex is free.
ScanStopped == scanLifecycle # None \/ transition = None

\* Mutant: asyncScanWg counts the scans that run.
RunningScans ==
  {c \in Callers \ SyncScanners : op[c] = "scan" /\ pc[c] = "holding"}

\* asyncScanWg counts the scans of StartScan from their reservation on.
AsyncScans ==
  {c \in Callers \ SyncScanners : op[c] = "scan" /\ pc[c] # "reserve"}

DrainStep(from, to, ready) ==
  /\ drain = from /\ ready /\ drain' = to
  /\ UNCHANGED <<statusVars, recoveryDone, cancelled, shuttingDown, sharedVars,
                 agentVars>>

\* runShutdownDrain, up to the fleet disconnect.
Drain ==
  \/ DrainStep("stopScan", "recovery", ScanStopped)
  \/ DrainStep("recovery", "operations", pc[Recovery] = "exited")
  \/ DrainStep("operations", "asyncScan", registered = 0)
  \/ DrainStep("asyncScan", "disconnecting", AsyncScans = {})

-----------------------------------------------------------------------------

Arrive(c) ==
  \E kind \in Requests :
     \E s \in IF kind = "station" THEN Stations ELSE {None} : Begin(c, kind, s)

\* The code between two blocking points of a caller.
CallerStep(c) ==
  \/ Enter(c) \/ MarkShared(c)
  \/ LockExclusive(c) \/ MarkGlobal(c) \/ MissedGlobal(c) \/ MissedStatus(c)
  \/ MissedStation(c) \/ Woken(c)
  \/ PublishScan(c) \/ PrepareScan(c) \/ UnpublishScan(c)
  \/ ReleaseExclusive(c)

\* Acquisitions of scanTransitionMutex.
TransitionStep(c) ==
  LockTransition(c) \/ ReserveScan(c) \/ FinishScan(c) \/ AbortScan(c)

\* The admitted foreground work ends, with whatever outcome.
EndWork(c) == EndShared(c) \/ EndBulk(c)

AgentStep(a) ==
  Register(a) \/ LockShared(a) \/ BeginDevice(a) \/ ReleaseShared(a)

RecoveryStep == RecoveryRoundEnd \/ ClearRecovery \/ RecoveryExit

RefreshStep(r) ==
  \/ RegisterRefresh(r)
  \/ \E candidates \in SUBSET Stations : LockRefresh(r, candidates)
  \/ \E s \in Stations : Dispatch(r, s)
  \/ JoinRefresh(r) \/ EndRefresh(r) \/ EndAbandoned(r)

Next ==
  \/ \E c \in Callers : \/ Arrive(c) \/ CallerStep(c) \/ TransitionStep(c)
                        \/ EndWork(c) \/ ContextStopped(c)
                        \/ StopWaiting(c)
  \/ \E a \in Agents : AgentStep(a) \/ EndDevice(a)
  \/ RecoveryRound \/ RecoveryStep \/ \E s \in Stations : BeginRecovery(s)
  \/ \E r \in Refreshes : \/ BeginRefresh(r) \/ RefreshStep(r)
                          \/ SkipRest(r) \/ AbandonRefresh(r)
  \/ BeginShutdown \/ Drain

Spec == Init /\ [][Next]_vars

-----------------------------------------------------------------------------
(* Who holds what.                                                         *)

LockedSteps == {"device", "mark", "ready", "holding", "finish", "release"}

\* The agents that hold operationMutex for writing, and for reading; a
\* dispatcher holds a read lock of its own next to its worker's.
Exclusive       == {a \in Agents : IsGlobal(a) /\ pc[a] \in LockedSteps}
SharedAgents    == {a \in Agents : ~IsGlobal(a) /\ pc[a] \in LockedSteps}
SharedRefreshes == {r \in Refreshes : phase[r] = "refreshing"}

\* The registrations of activeOperations.
RegisteredAgents ==
  {a \in Agents : pc[a] = "lock" \/ pc[a] \in LockedSteps}
RegisteredRefreshes == {r \in Refreshes : phase[r] \in {"lock", "refreshing"}}

\* The agents at work on a station, and the foreground work admitted.
OnStation == {a \in Agents : pc[a] = "holding"
                             /\ op[a] \in {"station", "status", "recovery"}}
Admitted(c, kinds) == pc[c] = "holding" /\ op[c] \in kinds

TypeOK ==
  /\ pc \in [Agents -> Steps]
  /\ op \in [Agents -> Kinds]
  /\ target \in [Agents -> Stations \cup {None}]
  /\ waitOn \in [Callers -> Stations \cup Refreshes \cup {Recovery, None}]
  /\ stale \subseteq Callers
  /\ registered \in Nat /\ readers \in Nat /\ writer \in BOOLEAN
  /\ foregroundGlobalActive \in BOOLEAN
  /\ foregroundSharedActive \in Nat
  /\ transition \in Callers \cup {None}
  /\ isScanning \in BOOLEAN
  /\ scanLifecycle \in Callers \cup {None}
  /\ active \in [Stations -> Agents \cup {None}]
  /\ slots \in Nat
  /\ phase \in [Refreshes -> Phases]
  /\ todo \in [Refreshes -> SUBSET Stations]
  /\ statusMutex \in Refreshes \cup {None}
  /\ statusDone \in Refreshes \cup {None}
  /\ recoveryDone \in BOOLEAN
  /\ cancelled \subseteq Refreshes \cup {Recovery}
  /\ shuttingDown \in BOOLEAN
  /\ drain \in DrainSteps

-----------------------------------------------------------------------------
(* Safety.                                                                 *)

\* A scan or a bulk batch has the adapter for itself: while it is past
\* operationMutex.TryLock nobody else is, not even the background work it
\* waited for.
ExclusiveAlone ==
  \A c \in Exclusive :
    Exclusive = {c} /\ SharedAgents = {} /\ SharedRefreshes = {}

\* Every path of the begin and end functions gives back exactly what it took:
\* the read locks and the registrations counted are those of the operations
\* under way.  A leak would refuse every later scan, or hang the shutdown.
CountsExact ==
  /\ readers = Cardinality(SharedAgents) + Cardinality(SharedRefreshes)
  /\ registered =
       Cardinality(RegisteredAgents) + Cardinality(RegisteredRefreshes)

\* One operation per station and one GATT slot per operation: an entry of
\* activeDeviceOperations belongs to the one agent at work on the station, and
\* the tokens in the slot channel are the entries'.
DeviceOwnership ==
  /\ \A s \in Stations, a \in Agents :
       active[s] = a <=> a \in OnStation /\ target[a] = s
  /\ slots = Cardinality({s \in Stations : active[s] # None})
  /\ slots <= GattSlots

\* The variables have their types, and every station and slot in use its owner.
CoordinatorInv == TypeOK /\ DeviceOwnership

\* While a scan is published no other foreground work is admitted, whatever was
\* begun before it or drained for it: isScanning and hasForegroundOperation
\* together close the window between a scan's reservation and its lock.
ScanAlone ==
  isScanning =>
    \A c \in Callers \ {scanLifecycle} :
      ~Admitted(c, {"station", "shared", "bulk", "scan"})

\* There is one scan at a time, and the flag, the published lifecycle and the
\* global lock tell the same story about it.
ScanSlot ==
  /\ isScanning => scanLifecycle # None
  /\ \A c \in Callers :
       op[c] = "scan" /\ pc[c] \notin {"reserve", "publish"}
         <=> scanLifecycle = c

\* The fleet is disconnected only when nothing can use it any more: no
\* registered operation, no slot, no recovery loop, no exclusive operation.  A
\* scan that nobody waits for (its StopScan timed out, and asyncScanWg does not
\* know it) is one that can only undo its reservation.
DrainedIsQuiet ==
  drain = "disconnecting" =>
    /\ RegisteredAgents = {} /\ RegisteredRefreshes = {}
    /\ OnStation = {} /\ Exclusive = {}
    /\ scanLifecycle \in SyncScanners \cup {None}
    /\ pc[Recovery] = "exited"

\* A captured done channel has somebody who will close it, though the manager's
\* reference may point to a newer refresh by then.
WaitersHaveCloser ==
  \A c \in Callers :
    /\ waitOn[c] \in Stations => active[waitOn[c]] \in Agents \ Callers
    /\ waitOn[c] \in Refreshes => phase[waitOn[c]] # "idle"
    /\ waitOn[c] = Recovery => recoveryDone

-----------------------------------------------------------------------------
(* The inductive invariant behind the theorems of CoordinatorProofs.       *)

\* What an agent's step says about its operation.
OperationShape ==
  /\ \A r \in Refreshes : op[r] = "status"
  /\ op[Recovery] = "recovery"
  /\ \A c \in Callers : op[c] \in {"none"} \cup Requests
  /\ \A a \in Agents :
       /\ op[a] = "none" => pc[a] = "idle"
       /\ pc[a] = "mark" => op[a] \in {"shared", "bulk", "scan"}
       /\ pc[a] = "device" => op[a] \in {"station", "status", "recovery"}
       /\ pc[a] \in {"ready", "finish"} => op[a] = "scan"
       /\ op[a] = "station" => target[a] \in Stations
       /\ /\ op[a] \in {"status", "recovery"}
          /\ pc[a] \in {"register", "lock", "device", "holding"}
         => target[a] \in Stations

\* The write lock is held exactly when one exclusive operation is under way.
WriterAlone ==
  /\ writer => readers = 0 /\ \E c \in Callers : Exclusive = {c}
  /\ ~writer => Exclusive = {}

Writing == {c \in Callers : Admitted(c, {"shared"})}

SharedFlagExact == foregroundSharedActive = Cardinality(Writing)

\* From the moment the drain has seen the count at zero.
DrainHolds ==
  /\ drain # "none" => shuttingDown
  /\ drain \in {"asyncScan", "disconnecting"} => registered = 0

Inductive ==
  /\ TypeOK /\ OperationShape /\ CountsExact /\ WriterAlone
  /\ DeviceOwnership /\ SharedFlagExact /\ DrainHolds

ScanShape ==
  \A c \in Callers :
    /\ pc[c] = "idle" => op[c] = "none"
    /\ pc[c] \in {"reserve", "publish", "abort", "unpublish"} => op[c] = "scan"
    /\ op[c] = "scan" => pc[c] # "transition"

\* The callers inside a section of scanTransitionMutex: an attempt of
\* foreground work up to its admission, and both ends of a scan.
Attempting ==
  {c \in Callers :
     \/ /\ op[c] \in {"station", "shared", "bulk"}
        /\ pc[c] \in {"register", "lock", "device", "mark"}
     \/ op[c] = "bulk" /\ pc[c] \in {"missed", "missedStatus"}}

EndingScan ==
  {c \in Callers : op[c] = "scan" /\ pc[c] \in {"release", "unpublish"}}

TransitionHeld ==
  \A c \in Callers :
    /\ c \in Attempting \cup EndingScan => transition = c /\ ~isScanning
    /\ pc[c] = "publish" =>
         /\ transition = c /\ op[c] = "scan"
         /\ scanLifecycle = None /\ ~HasForeground

\* Who set foregroundGlobalActive.
GlobalHolders ==
  {c \in Callers : \/ op[c] = "bulk" /\ pc[c] = "holding"
                   \/ /\ op[c] = "scan"
                      /\ pc[c] \in {"ready", "holding", "finish"}}

GlobalFlagExact == foregroundGlobalActive <=> GlobalHolders # {}

\* What the drain has waited for stays ended.
DrainPassed ==
  /\ drain \in {"operations", "asyncScan", "disconnecting"}
       => pc[Recovery] = "exited"
  /\ drain = "disconnecting" => AsyncScans = {}

ScanInductive ==
  /\ ScanShape /\ TransitionHeld /\ ScanSlot
  /\ GlobalFlagExact /\ ScanAlone /\ DrainPassed

\* The background work that can be waited for: a refresh holds the mutex and
\* the published channel until it ends or is abandoned, the recovery publishes
\* its own for a candidate.
StatusShape ==
  \A r \in Refreshes :
    /\ phase[r] \in {"register", "lock", "refreshing", "closing"} =>
         statusMutex = r /\ statusDone = r
    /\ statusDone = r => phase[r] # "idle"

RecoveryShape ==
  pc[Recovery] \in {"register", "lock", "device", "holding", "release", "clear", "giveUp"}
    <=> recoveryDone

WaitInductive == StatusShape /\ RecoveryShape /\ WaitersHaveCloser

-----------------------------------------------------------------------------
(* What the coordinator implements.  A dispatcher and its worker hold two  *)
(* shared locks, in two roles.                                             *)

ExclusiveHolders == {<<c, "operation">> : c \in Exclusive}

SharedHolders ==
  {<<a, "operation">> : a \in SharedAgents}
    \cup {<<r, "dispatch">> : r \in SharedRefreshes}

StationOwner ==
  [s \in Stations |-> IF active[s] = None THEN {}
                                          ELSE {<<active[s], "operation">>}]

Fleet == INSTANCE FleetAccess WITH
  Holders   <- Agents \X {"operation", "dispatch"},
  exclusive <- ExclusiveHolders,
  shared    <- SharedHolders,
  owner     <- StationOwner,
  free      <- GattSlots - slots,
  closed    <- drain = "disconnecting"

\* Every step of the begin and end functions, of a scan's life cycle, of a
\* refresh and of the drain is a step of FleetAccess or none.
ImplementsFleetAccess == Fleet!Spec

-----------------------------------------------------------------------------
(* Action properties.                                                      *)

BesideForeground(c) == \E d \in Callers \ {c} : pc[d] # "idle"

\* The reads of status refreshes take every slot: an abandoned refresh leaves
\* its worker behind, beside the next one.
RefreshesFill == Cardinality(OnStation \cap Refreshes) >= GattSlots

\* The call will find the recovery it ran into: published, or ended since the
\* call captured the generation.
FindsRecovery(c) == recoveryDone \/ c \in stale

\* Recovery alone never makes a station call fail as Busy.  An attempt fails
\* beside other foreground work or, as long as refreshes leave a slot free,
\* beside a recovery; and that recovery is still found when the call looks at
\* recoveryOperationDone, so that it waits or tries again.
StationBusyOnlyBesideForeground ==
  [][\A c \in Callers : op[c] = "station" =>
       /\ pc[c] \in {"lock", "device"} /\ pc'[c] \in {"idle", "missed"} =>
            \/ BesideForeground(c) \/ RefreshesFill
            \/ pc'[c] = "missed" /\ FindsRecovery(c)
       /\ pc[c] = "missed" /\ FindsRecovery(c) =>
            \/ pc'[c] \in {"waiting", "enter"}
            \/ pc'[c] = "missed" /\ FindsRecovery(c)']_vars

\* Background work is cancelled by a caller that then waits for that very work,
\* never for an older lifecycle that has been replaced meanwhile.
CancelOnlyTheAwaited ==
  [][\A b \in cancelled' \ cancelled :
       \E c \in Callers :
         /\ pc'[c] = "waiting" /\ pc[c] # "waiting"
         /\ \/ waitOn'[c] = b
            \/ waitOn'[c] \in Stations /\ active[waitOn'[c]] = b]_vars

-----------------------------------------------------------------------------
(* Liveness.                                                               *)

\* The scheduler runs what can run, and Go's mutexes do not starve.  Nothing is
\* said of adapter calls and timers: each property names what it counts on.
Scheduling ==
  /\ \A c \in Callers : WF_vars(CallerStep(c)) /\ SF_vars(TransitionStep(c))
  /\ \A a \in Agents : WF_vars(AgentStep(a))

FairSpec == Spec /\ Scheduling

\* Contexts have deadlines, which stay expired, and the drain timer fires.
TimersFire ==
  \A c \in Callers : SF_vars(ContextStopped(c)) /\ SF_vars(StopWaiting(c))

\* A foreground call is admitted or refused in bounded time, even beside a
\* background worker that never comes back and a recovery that keeps
\* restarting.
AdmissionEnds ==
  TimersFire =>
    \A c \in Callers : pc[c] = "enter" ~> pc[c] \in {"idle", "ready", "holding"}

\* Adapter calls return and the background moves on; no timer is counted on.
WorkEnds ==
  /\ \A c \in Callers : WF_vars(EndWork(c))
  /\ \A a \in Agents : WF_vars(EndDevice(a))
  /\ \A r \in Refreshes : WF_vars(RefreshStep(r))
  /\ WF_vars(RecoveryStep) /\ SF_vars(Drain)

\* Whoever waits for background work is woken when it ends, the drain deadline
\* aside: no done channel is forgotten.
WaitEnds ==
  WorkEnds => \A c \in Callers : waitOn[c] # None ~> waitOn[c] = None

\* A shutdown gets to the fleet disconnect, with calls still arriving.
ShutdownDrains == WorkEnds => (shuttingDown ~> drain = "disconnecting")

=============================================================================
