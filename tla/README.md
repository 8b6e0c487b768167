# Verification of lhcontrol

lhcontrol switches SteamVR base stations on and off over Bluetooth LE. A Svelte
front end and a local HTTP API call a Go application, which serialises every
request onto one Windows Bluetooth adapter beside background work of its own.
What is hard about it is not any single protocol step but who runs beside whom,
and what is left over when something is cancelled, hangs or is shut down. That is
what these specifications are about.

1. [The system](#1-the-system)  2. [Modules](#2-modules)
3. [Coordinator](#3-coordinator)  4. [Automatic sleep](#4-automatic-sleep)
5. [Sessions and commands](#5-sessions-and-commands)  6. [Scans](#6-scans)
7. [Recovery](#7-recovery)  8. [Bulk power and the adapter](#8-bulk-power-and-the-adapter)
9. [Runs](#9-runs-and-bounds)  10. [Proofs](#10-what-is-proved)
11. [Findings](#11-where-code-and-comments-disagree)
12. [Not modelled](#12-what-is-not-modelled)  13. [Plan](#13-plan)

## 1. The system

Paths are relative to `src/`.

| Component | State it keeps | Operations | Correct when |
|---|---|---|---|
| Operation coordinator, `internal/station/coordinator.go` | `operationMutex` (try-only RWMutex), device map, GATT slots, registration count, done channels of background work | begin/end of shared, exclusive and station operations; waiting for and cancelling background work | exclusive work is alone; one operation per station; error paths leak nothing; nobody waits on a channel nobody closes; background work alone never refuses a user |
| Scan life cycle, `scan.go` | `isScanning`, `scanLifecycle`, `scanTransitionMutex`, `asyncScanWg`, scan status | StartScan, StopScan, ScanAndFetchStationsContext, callbacks | one scan at a time; no foreground work is admitted beside a published scan; Started is delivered before the terminal callback, each once |
| Status refresh, `status_refresh.go` | `statusOperationMutex`, `statusOperationDone`, queue of stations | CheckAllStationStatuses: dispatcher and one worker; abandoning a wedged worker | an abandoned worker can still be waited for; foreground keeps a GATT slot |
| Recovery, `recovery_scheduler.go`, `manager.go` | retry table (connection, channel, metadata, refresh), `recoveryOperationDone`, generation | recovery rounds; observed results clear or defer retries | no retry is lost or left for ever; stale results change nothing |
| Adapter initialisation, `manager.go` | the shared attempt, its channel, last error | ensureReady, bounded wait, retry | one attempt at a time; each waiter sees its outcome |
| Shutdown, `config_lifecycle.go`, root `lifecycle.go` | `shuttingDown`, drain progress | BeginShutdown, drain, fleet disconnect | nothing is in use at the disconnect; the drain ends |
| Commands, `power_single.go`, `power_bulk.go`, `channel.go`, `capabilities.go` | result list of a batch, its cancellation | power, bulk power and its cancel, channel, identify | every station of a batch gets exactly one outcome; a sent command is never reported unsent |
| BLE connection, `internal/bluetooth/connection.go`, `runtime.go`, `model.go` | connection, pending cleanup, in-flight disconnect per station | connect, disconnect, adapter events | no handle leaks; a connect waits for the disconnect under way |
| BLE scan session, `internal/bluetooth/scan.go` | `scanSession` | start, stop, platform completion | a stop reaches the platform once and is awaited |
| Power protocol, `internal/bluetooth/power.go` | command outcome | write, confirm, retry | success is reported only for a confirmed or stated-unconfirmed command |
| Automatic sleep, `auto_sleep.go`, `internal/autosleep` | watcher, monitor, trigger debt, rebuild timer, settled session | poll, action, settings, self-stop, rebuild, shutdown | a closed session is slept once and never forgotten; a relaunch or a shutdown stops it |
| Configuration, `internal/config` | settings, blocked-save flag, last error | load, setters, save, recovery | memory and disk agree after every failure |
| HTTP API, `api.go`, `api_server.go` | listener, restart gate | restart, shutdown | no listener outlives the shutdown |
| Front end, `frontend/src/lib` | revisions, operation gates, external scan | polls, actions | a stale answer never replaces a newer list |

Interaction. UI and API calls become goroutines that enter the coordinator; the
manager's recovery loop and periodic refreshes meet them there. A foreground call
that is in the way of nothing but background work cancels that work's context and
waits on its done channel. Automatic sleep is one more foreground caller: its
action scans and then runs a bulk batch. A shutdown sets `shuttingDown`
(`runShutdown`), closes registration (`BeginShutdown`), stops automatic sleep
(`stopAutoSleep`) and only then drains and disconnects (`Shutdown`).

The hard behaviours are listed under `hazards` in `PROJECT.json`, each at its line:
interleavings between a failed TryLock and the next look at a channel, background
work that ignores its cancellation, lifecycles replaced in a manager field while
somebody holds the old one, debts that travel between watchers, reapers and timers
that outlive what they were started for, and error paths that must give back exactly
what they took.

## 2. Modules

| Module | Models |
|---|---|
| `FleetAccess` | abstract: exclusive, shared and per-station access to the fleet, closed at the end |
| `Coordinator` | `coordinator.go` and its users in `scan.go`, `status_refresh.go`, `recovery_scheduler.go`, `config_lifecycle.go`; refines `FleetAccess` |
| `CoordinatorProofs`, `CoordinatorScanProofs` | theorems on both: the coordinator and its refinement; scans, the drain and waiting |
| `SessionMonitor` | the values of `internal/autosleep`: Monitor and trigger debt, with their operations |
| `AutoSleep` | `watcher.go` (the poll loop) and `auto_sleep.go` (the action, settings, reaper, rebuild, shutdown) |
| `AutoSleepProofs` | theorems on `AutoSleep` |
| `GattSession` | `internal/bluetooth/connection.go`, `runtime.go`, `model.go`: the session of one station, its lock, its events and their cleanup |
| `SessionOwner` | abstract: one session of a station at a time, and who has it; `GattSession` implements it |
| `StationCommand` | `power.go`, `channel.go`, `status.go` over `GattSession`: the commands, their retries and confirmations |
| `GattSessionProofs`, `StationCommandProofs` | theorems on both; the second rests on the first |
| `ScanSession` | `internal/bluetooth/scan.go`: one BLE scan and its stop handshake |
| `ScanLifecycle` | `internal/station/scan.go` over `ScanSession`: reservation, callbacks, StopScan, the drain |
| `ScanProofs` | theorems on both |
| `RetryTable` | `internal/station/manager.go`: an entry of the recovery table and every function on it |
| `StatusRetry` | `recovery_scheduler.go`, `status_refresh.go`, `presence.go`, the merge half of `scan.go`: everyone who reads or writes that entry |
| `StatusRetryProofs` | theorems on both |
| `AdapterInit` | `manager.go` 720-915: the shared attempt to enable the adapter |
| `BulkPower` | `power_bulk.go` over `AdapterInit`: the batch, its workers and its result |
| `BulkPowerProofs` | theorems on both |
| `MCCoordinator`, `MCAutoSleep`, `MCGattSession`, `MCStationCommand`, `MCBulkPower` | symmetry sets and structured constants for TLC |

Definitions commented `Mutant:` are faulty variants of the definition after them. No
specification uses them; they exist so that each property can be seen to fail.

## 3. Coordinator

**State.** `pc[a]` says where the operation of agent `a` (a caller, a refresh's worker or
the recovery loop) stands; `op[a]`, `target[a]`, `waitOn[a]` are its locals. The rest
carries the fields' names: `registered` (activeOperations), `readers`/`writer`
(operationMutex), `active`/`slots` (device map and slot channel), `transition`
(scanTransitionMutex), `scanLifecycle`, `statusDone`, `recoveryDone`, `cancelled`,
`drain`.

**Actions.** One per critical section. A station call is `Arrive`, `Enter`,
`LockTransition`, `Register`, `LockShared`, `BeginDevice`, then `EndDevice` or, after
a miss, `MissedStation` and a wait. A bulk batch and a scan go through `LockExclusive`
and `MissedGlobal`/`MissedStatus`; a scan also reserves (`ReserveScan`), publishes,
prepares, and finishes or aborts. A refresh is a dispatcher (`phase`) and one worker,
which the dispatcher may abandon. `BeginShutdown` and `Drain` model the shutdown.

**Abstractions.**
- The release of operationMutex and the following unregisterOperation are one step:
  only the drain reads the count, and it merely gets to run a little earlier.
- Every adapter call may take any time, fail, or ignore its cancellation; a single
  status read may end at any time, so its own cancel function is not kept.
- `asyncScanWg.Add` happens with the publication. In the code it comes just after
  (`scan.go:927`); `ScanLifecycle` has the gap (`PublishSlot`, `Launch`).
- StopScan's limit appears as "a shutdown may pass with a scan still published".
  The join of initialisation attempts and the 60 s limit of the drain are left out.
- A done channel and the cancel function that goes with it are captured in one section of one
  mutex, so they are one variable.
- Callers that scan with `ScanAndFetchStationsContext` are `SyncScanners`: they are not
  counted in `asyncScanWg`.

**Properties.** Section 10 has them with their theorems. `StationBusyOnlyBesideForeground` needs a
word: an attempt of a station call fails only beside a foreground caller, beside refreshes that
fill every slot, or into a miss whose recovery the call still finds when it looks for it, by
the done channel or by the generation (`FindsRecovery`).

**Fairness** (`FairSpec`): weak for the steps of goroutines; strong for taking
scanTransitionMutex, since Go's mutex hands over to a starving waiter after 1 ms. Each
liveness property names what else it counts on. `AdmissionEnds` counts on timers
only (contexts have deadlines and stay expired; the drain timer's value stays
in its channel, hence strong fairness) and on no adapter call ever returning. `WaitEnds`
and `ShutdownDrains` count on adapter calls returning and on no timer. Strong fairness of
`Drain`: its wait groups wake it once their count has been zero, although a call that arrives
afterwards may raise it again.

## 4. Automatic sleep

**State.** `watcher[w]` is a Watcher with its Monitor and debt (`SessionMonitor`), and
`life` says where its poll loop and reaper stand; `action[w]` is its trigger goroutine.
`current`, `selfStop`, `timer`, `failures`, `slot` and `settledSession` are App's fields.
`apply` is the settings call under `autoSleepSettingsMutex`; `cleared`, `reporting`,
`rebuilding` and `rechecking` count reapers and rebuild callbacks by where they stand.
`due`, `slept` and `lost` are history variables that no guard reads: the closed sessions whose sleep
is outstanding, those an action has settled, and those one has given up unslept.

**Actions.** `PollRunning` and `PollQuiet` are Run's poll with everything it does (follow
the countdown, clear or queue, arm again, fire). `SelfStop`, `StopCancelled`, `MarkExited`,
`JoinAction` are the loop's other exits and events. `GiveUp` to `FinishTrigger` are the action.
`Save`/`SaveFails`, `SettingsMatch`, `ApplyCancel`, `ApplySnapshot`, `ApplySeed`, and
`ApplyDetach` or `ApplyBuild` are a settings call, cut where a watcher's goroutine can come in
between. `ReapCancelled`, `ReapFailed`, `ReadEnabled`, `ScheduleRebuild`, `TimerFires`,
`SkipRebuild`, `Rebuild`, `Recheck` are the reaper and the rebuild it schedules.

**Abstractions.**
- Sessions are named `<<target, launch number>>` instead of by closedAt. Two closes
  are seen at different times, so the names are as distinct.
- Whether the delay has elapsed is an input of each poll; a changed delay is only
  the fact that the settings differ.
- The process check and its poll are one step: only polls look at a process.
  Ten failed checks in a row are one `SelfStop`, possible at any time.
- Starting the action's goroutine and its wait for the slot are one step. So are, in a
  rebuild whose save failed, the comparison, the failure count and the next timer.
- A scan ends, for the action, as cancelled, skipped or refused (`ScanEnds`, either way
  of settling), or goes on to the batch (`ScanReturns`); the batch settles or not.
- A failed save may have recovered a configuration that could not be read at startup,
  for which the defaults (disabled) stood. Recovery outside a settings call
  (`replayRecoveredConfigRuntime`) is not modelled.
- `ApplyCancel` waits until a `Watcher` value is unused: a bound of the model only.

**Properties.** `SleepInv` is the type invariant with two more parts. `SleepKept`: every closed session
that is outstanding is held by somebody on its way to an action (the current watcher, the remains of
one that stopped itself, or the settings call in progress). A session leaves `due` when an action takes it
up and settles, when its process relaunches, when a settings change drops its countdown deliberately, or
when the feature is disabled. It counts as held when *some* debt of the current watcher is still
outstanding, since the code lets a re-armed debt stand for the session that has just closed.
`OwnDebtOwnSession`: only an inherited debt ever stands for a session other than the one it names.

What an action does with the sessions it takes up is not always a sleep. `Deduplicate` finds its key settled
and sleeps nothing: the named session has been slept, any other goes to `lost`. `NoSleepLost`, what the
comments say, is violated (section 11); `OwnDebtOwnSession` and the theorem `OnlyInheritedDebtsLose` say
that this one way is the only one.

`ActionsRight` says that a running action serves the newest debt across generations
(`ActionServesDebt`) and that no session is slept twice, the race of settings with a settling action
included (`SettledOnce`). `NeverSilentlyOff` covers the reaper's gaps, `StopIsFinal` the shutdown.

**Fairness** (`Scheduling`): weak for goroutines, timers, polls with the delay elapsed
(closedAt is kept, so it stays elapsed) and for the process quitting some day. Strong for
`ScanReturns` and `PowerReturns(w, TRUE)`: a user may cancel scans and batches, but not every
one for ever. A settings call's save is free to fail; the rebuild's eventually succeeds.

## 5. Sessions and commands

**GattSession.** One process per call of the package (`Calls`) and per cleanup goroutine
(`Handles`). `proc[p].pc` is named for the code it precedes and `stack` holds the labels its
procedures return to; one action runs to the next transport call, wait or unlock. `lock` is
`station.mutex`; `device`, `chars`, `pending`, `inFlight`, `connected`, `tracked`, `queue` are
the station's fields and the two package lists. `Gate` to `Reopen` are
`connectAndDiscoverInternalContext`, `Disconnect` to `DisconnectFails` are `disconnectInternal`
with its in-flight marker, `DeliverDrop`, `DrainNext` and `Invalidate` the adapter's event, its
queue and the worker that detaches the session. The calls are EnsureCapabilities, Refresh,
FetchInitialPowerState, DisconnectStation, the fleet-wide sweep and the connection query.

**StationCommand** adds the commands: `Attempt` to `BackoffWake` the write attempts,
`Write`, `WriteAmbiguous`, `WriteUnsent` and the paired sleep write (`GapEnds`, `PairRebuilt`,
`FinalWrite`), `Confirm` to `PollReopened` the readback with its reconnects, and the channel
change, which reads first. A write is told apart by what the transport reports *and* by whether
the byte arrived: an ambiguous report goes with either. `wrote` and `reached` are history
variables. The run checks the command beside another call of `GattSession`.

*Abstractions.* One station. `isConnected` is folded into `device` and `characteristic` stands for
everything discovered. A transport call takes any time; values read, capabilities other than "the
peer refuses it" and the boot inference are inputs. Handles are numbered in the order they are
opened, `MaxHandles` of them.

**SessionOwner** says what this comes to for a station: sessions are opened one at a time and only
when none is open, the opener gives the new one to the station, whoever closes it takes it from
there, and releases it or keeps it to be closed later. A session is detached by an event only if
its own link has dropped, and what was discovered of it goes with it. `Owner` in `GattSession` is the
mapping: a process has in hand the handle it closes or has just been given (`HandOf`), the
station has `device` and `pending`, and the released handles are no longer `Open`.

*Properties.* `SessionInv`: never two sessions open, each with exactly one holder, and whoever
holds one is in a list the event handler or the sweep visits. `ForeignSessionKept`: a call that
waited outside the lock closes only a session it has used. `ImplementsSessionOwner`: the refinement.
`DropNoticed`, `CallsEnd`: liveness. `CommandInv`, `NeverReplayed`, `PollsBounded`: what a caller may
conclude from a verdict.

*Fairness* (`FairSpec`): strong for a process's next step, since it competes for the
station's mutex, which Go hands to a waiter that has starved for 1 ms, and since the transport bounds
its calls (the vendored library has timeouts on each); weak for the event's delivery
and the drainer. No link need drop, no caller cancel.

## 6. Scans

**ScanSession** follows `ScanForDurationContext`: `session` is the `scanSession` record with the
place of its body, its platform call, its stop goroutine, its timer and its context watcher.
`Requested` is `requestStopAsync`, `IssueStop`/`StopReturns`/`AbandonStop` the stop goroutine,
`Accepted` is `markStarted`, `StartBudgetEnds`/`AbandonStart` the start that takes too long,
`MarkFinished` to `Settle` the end with its grace periods, `OutcomeOf` the returned error.

**ScanLifecycle** puts the manager's scan around it: `Reserve`/`PublishSlot`/`Launch` is StartScan
with the gap before `asyncScanWg.Add`, `Acquire` to `Reads` the worker, `Finish`, `Uncount` and
`Notify` the end and its callback, `CallbackStops` a StopScan made by the Started callback, and
`BeginShutdown` to `AsyncScansEnded` the drain.

*Abstractions.* One scan; what a second one meets of the first is only the slot and a platform scan
that has not ended, and the identity the platform hands over keeps a late stop to its own scan. What
scan preparation and the initial reads do is success or failure; the merge of what was found is in
`StatusRetry`.

*Fairness*: weak for every goroutine and timer, none for the platform, which may hang in Scan, in
its stop and in its acceptance; `StopScanTimesOut` is not fair either. That `ScanEnds` holds all
the same is the point of the graces.

## 7. Recovery

**RetryTable** is the data: an entry is a function from the kinds owed (connection, channel, metadata,
refresh) to `[next, failures]`, with time counted down in ticks. The functions of `manager.go` on
it are operators, mapped one to one (`NoteFailure`, `TrackPending`, `Defer`, `Rebase`, `Revive`,
`PruneExhausted`, `Reschedule`, `RecordObserved`, ...).

**StatusRetry** is who uses it, for one station: the recovery loop from its sleep to its pruning
(`Loop...`), the refresh worker with its abandonment (`Refresh...`), the commands (`PowerEnds`,
`CommandEnds`, `CapabilitiesEnd`), a scan with its merge, its misses, its reads and the sighting that
waits for the station's lock (`Scan...`, `LateApplies`), and the settings. `wake` is the one-slot channel.
A round records a metadata result when it set out to read metadata, and a metadata *failure* also when it
discovered a disconnected station that was not tracked for it (`MetadataOf`): that brings an
exhausted retry back.

*Abstractions.* Who may use the device comes from `Coordinator` (`DeviceHeld`, `Interrupting`). Each
section of the table's mutex is a step; those a finished read runs through in a row, holding the
device, are one. Which of several overdue kinds is the oldest is not kept, so any of them may be
served. `since`, the time since the last failure, is taken at its two ends. `Offers` says which
values a station has at all. `MaxEvents` bounds what happens around the recovery (scans, refreshes,
commands, settings, hanging calls, the power switch) in any mix. `Init` is a program after a first
scan. The two legacy forms of an entry, which no code creates, and the bulk batch's longer rest are
left out.

*Properties.* `RetryInv` with `NeverSleepsThrough`: the loop is never parked on its channel with
work owed and no signal. It holds although an abandoned refresh worker records without a signal,
because its refresh has left a marker, so the loop is not parked. `MarkerBehindBackoff`,
`FailureCountedOnce`, `NoStaleRevival`: action properties. `GivesUpWithoutChannel`: an absent
station is left alone in the end.

*Fairness*: the loop, the clock, the refresh's deadline, and the end of calls, scans and reads: all have
deadlines, or end with the platform's call. None for successes: a read may fail for ever.

## 8. Bulk power and the adapter

**AdapterInit.** `adapter` holds the fields under `initializeMutex`, `enabling` the goroutines inside
`adapter.Enable`, `asker` what each caller has been told. `Initialize` and `EnsureReady` adopt, refuse or
begin an attempt; `AttemptSeen`, `WaitEnds`, `WaitShutDown` are the bounded wait; `AttemptEnds` may
never happen; `Lost` is `markBluetoothUnavailable`.

**BulkPower.** `batch` is the call with its context, `worker[b][s]` its workers, `lock[s]` the stations'
mutexes, which a call that ignores its context keeps (`Wedged`), `power[s]` the state each station is in and,
for a sleep, the batch that put it there. `StartBatch`, `AdmissionGranted` (or `Refused`, `Stops`), `Spawn`,
`Join`, `Return` are the call. A worker goes from `WorkerStarts` through its verification
(`WorkerApplies`, `WorkerReadEnds`, which may find the station at its target), its write
(`WorkerConnects`, `WorkerWrites` or `WorkerUnsent`, `WorkerWriteEnds`) and its confirmation to `WorkerEnds`.
A sleep is a pair of writes: after the first one the worker waits without the lock, and `FinalWriteEnds`
sends the second whatever has become of the batch. `WorkerYields` and `WorkerResumes` are the places at which a call
gives the station's lock up on its way: a cleanup or a second discovery (`connection.go` 154-156), the pair's
gap (`power.go` 721-723), the wait between two confirmation polls (325-327).
`Cancel`, `Expire` and `LifecycleCancels` end the context; the last one later than the flag
`BeginShutdown` sets, as `context.AfterFunc` does.

*Abstractions.* Batches follow one another (the slot and the exclusive lock), so only workers left
behind overlap; single commands, recovery and refreshes, which take a station's lock too, are left out.
`Target` says what each batch wants: sleep first and standby after it, so that the worker
left behind can be in its pair. Entries keep what tells outcomes apart. A write and what the station makes
of it are one step: what the radio has been given arrives in that order or not at all. A wedge comes from
the cleanup after a failure. Admission is granted, refused or stopped; its rules are `Coordinator`'s.
The second batch starts once `Initialize` has returned, and the cooldown ends only while another
attempt is allowed (`MaxEnables`): bounds of the model. `Known` gives each batch its
stations, `Found` the state each is in at first, and `Slots` is 1 for two stations, so that one queues behind the other
as a third does in the code, which has 2.

*Properties.* `BulkInv` with `BulkHonest`: no entry of an ended batch is without outcome, the error-only
form calls no batch a success that missed a station it could have reached, and a batch called cancelled left something undone.
The one exception is `"late"`: a station whose own budget ends an instant before a cancellation is recorded as
cancelled, but not as affected (`power_bulk.go` 549-559 and 220-237 look at the context at
different times), so the error-only form can return success for it. `NewestTargetWins`: what the newest batch reports
at its target stays there whatever workers an earlier batch left behind do, with one exception
(`UndoneBySleep`): the second byte of a sleep pair that one of them had begun. Without the
exception TLC finds the code violating it (section 11); with it, the property is the check of the context under the lock
(`power.go` 529 and 163). `AdapterOnce`, `BatchEnds`.

*Fairness*: the call's own steps, the deadline and the bounded wait of the batches' callers. No worker,
transport call or adapter attempt need ever end.

## 9. Runs and bounds

| Run | Instance | Shows |
|---|---|---|
| `coordinator_mixed` | 2 callers of all kinds, 1 refresh, recovery, 1 station, 2 slots; 970 k states | `ExclusiveAlone`, `CountsExact`, `ScanAlone`, `ScanSlot`, `DrainedIsQuiet`, `ImplementsFleetAccess`, `StationBusyOnlyBesideForeground` |
| `coordinator_background` | 1 caller, 2 refreshes, recovery, 2 stations; 2.4 M | `CoordinatorInv`, `WaitersHaveCloser`, `CancelOnlyTheAwaited` |
| `coordinator_liveness` | 1 synchronous scanner, 1 refresh, recovery, 1 station; 50 k | `AdmissionEnds`, `WaitEnds`, `ShutdownDrains` |
| `autosleep` | 2 processes, 2 launches, 2 watchers, 1 settings call, 1 self-stop; 500 k | `SleepInv`, `ActionsRight`, `NeverSilentlyOff`, `StopIsFinal` |
| `autosleep_liveness` | 1 process, 1 launch, otherwise the same; 43 k | `SleepSettles` |
| `gatt_session` | a cancellable initial read, beside a refresh, a sweep or a query; 2 sessions, 2 discovery attempts; 44 k | `SessionInv`, `ForeignSessionKept`, `ImplementsSessionOwner`, `DropNoticed`, `CallsEnd` |
| `station_command` | a power-on, sleep, channel change or identify, beside a refresh; 2 write attempts, 1 extension; 1.1 M | `CommandInv`, `NeverReplayed`, `PollsBounded` |
| `scan` | 1 scan of either kind, a Started callback, a deadline, a drain; 480 k | `ScanInv`, `DrainQuiet`, `AdapterLossReported`, `ScanEnds`, `LateStartIsStopped` |
| `status_retry` | 1 station, delays up to 2 ticks, limits and thresholds 1 and 2, 2 events; 320 k | `RetryInv`, `MarkerBehindBackoff`, `FailureCountedOnce`, `NoStaleRevival`, `GivesUpWithoutChannel` |
| `bulk_power` | a sleep batch on 1 station, a standby batch on 2, 1 worker slot, 2 attempts at the adapter; 1.0 M | `BulkInv`, `AdapterOnce`, `NewestTargetWins`, `BatchEnds` |
| `finding_absent_never_given_up` | as `status_retry`, one threshold, a station with a channel | section 11 |
| `finding_lost_sleep` | as `autosleep` | section 11 |

Why the bounds are enough. Two callers meet in every pair of kinds; a third adds only another
competitor for locks that have one winner, and the safety proved in section 10 holds for any
number. Two refreshes are needed for one to replace the lifecycle an abandoned one published,
two stations for an abandoned read beside a newer one. A station call that misses because the slots are full,
and not because its station is taken, takes three stations: a run of 2.0 M states without a violation while the
model was written, and a theorem now (`StationBusyIsForeground`). In `autosleep` two watchers are a
replaced one and its successor, two launches are a relaunch of one process or one session of
each, and the startup application comes on top of the settings call. Larger instances were
explored without a violation while the model was written: two settings calls (6.5 M states), two
self-stops (2.3 M), liveness with two settings calls (330 k). With one rebuild callback at a time
(`MaxRebuilds`) the give-up after `MaxRetries` failures is hardly reached: a rebuild whose save fails
has usually built the watcher all the same.

A session needs two callers for one to rebuild what the other used, and two handles for an event of
the first to come late. Two events in `status_retry` are every pair of actors beside the loop. A delay of two ticks tells the
base from the maximum, and two failures the count from the limit. Two batches are needed for a
worker to be left behind by one, and the first must be a sleep for it to be in the middle of a pair.

Symmetry is used in the coordinator and autosleep safety runs only. Callers, refreshes, stations, watchers and processes
are interchangeable in `Init`, `Next` and the properties, and no operator chooses among
them; `MCCoordinator` and `MCAutoSleep` define the sets.

Deadlock is checked in the coordinator and autosleep runs, whose ended systems (the drain done,
`Exited`) have steps of their own. The others turn it off, because their systems do end: every
call is made at most once, the one scan is over, the events are used up. What must not get stuck
there is stated as liveness (`CallsEnd`, `ScanEnds`, `GivesUpWithoutChannel`, `BatchEnds`).

## 10. What is proved

Every invariant and every action property that a passing run checks is also a theorem: it holds for
every value of the constants that the named assumptions allow. The assumptions say that sets
of agents are finite and disjoint, that markers like `None` are no member of what they stand
beside, and that limits are naturals, positive where the code's are. Liveness is only
model-checked (below). Lemmas are stated where they are used first; `PROJECT.json` lists
the results.

| Module | Theorem | States |
|---|---|---|
| `CoordinatorProofs` | `TypeCorrect` | `TypeOK`: no count goes below zero |
| | `CountsAreExact` | every lock and registration is returned exactly once |
| | `DevicesAreOwned` | `CoordinatorInv`: device map, slots and operations agree |
| | `ExclusiveIsAlone` | a scan or a batch is alone |
| | `FleetRefinement` | `Coordinator` implements `FleetAccess` |
| `CoordinatorScanProofs` | `ScanIsAlone`, `ScanHasItsSlot` | the reservation excludes other foreground work; flag and lifecycle agree |
| | `DrainLeavesQuiet` | at the fleet disconnect nothing is in use |
| | `WaitersAreClosed` | a captured done channel has somebody who will close it |
| | `CancelsWhatItAwaits` | only background work that is then awaited is cancelled |
| | `StationBusyIsForeground` | background work alone refuses no station call |
| `AutoSleepProofs` | `NoSleepDropped`, `ActionsAreRight` | a closed session's sleep is kept until an action takes it up, and not done twice |
| | `OnlyInheritedDebtsLose` | a session is given up unslept only behind an inherited debt |
| | `SomebodyWatches`, `NothingStartsAgain` | never silently off; a shutdown is final |
| `GattSessionProofs` | `SessionsAreHeld`, `ForeignSessionsStay` | one session in one place, in reach of its events; no call closes another's |
| | `SessionRefinement` | `GattSession` implements `SessionOwner` |
| `StationCommandProofs` | `CommandsAreHonest`, `NoReplay`, `PollsEnd` | what "not sent" means; no byte twice; bounded reads |
| | `CommandsShareTheSession`, `CommandsKeepForeign`, `CommandsImplementOwner` | the results on `GattSession` beside commands |
| `ScanProofs` | `ScansEndInOrder`, `DrainMeetsNoScan`, `LossIsNeverHidden` | a stop that succeeded has seen the end; no scan at the disconnect; a lost adapter is reported |
| `StatusRetryProofs` | `RetryIsSafe` | the loop never sleeps through work that is owed |
| | `MarkerStaysBehind`, `FailuresCountOnce`, `StaleSightingsStay` | what a step may not do to an entry |
| `BulkPowerProofs` | `BatchesAreHonest`, `AdapterIsOne`, `NewestTargetStays` | honest outcomes; one attempt; the newest target wins but for the end of a sleep pair |

Each module has one inductive invariant, or several in layers, and an invariant theorem of its own
(`InductiveInvariant`, `ScanInvariant`, `GattInvariant`, ...). TLC checked each of them on the
module's instance before it was proved.

**Coordinator** (`CoordinatorAssumption`). None of the parts of `Inductive` is inductive alone: that
`CountsExact` survives a release needs the shape of operations (`OperationShape`: which kind
may be at which `pc`), that `ExclusiveAlone` survives a TryLock needs the exact count of
read locks and `WriterAlone`, and that the map survives an end needs `DeviceOwnership` to
say whose token is given back. Counts are cardinalities of sets of agents;
`CardinalityStep` reduces each step to one agent entering or leaving a set.

`ScanInductive` adds who may hold scanTransitionMutex in which section (`TransitionHeld`), whose
flag `foregroundGlobalActive` is (`GlobalFlagExact`), and what the drain has waited for
(`DrainPassed`). `WaitInductive` is about waiting: a refresh holds statusMutex and the
published channel until it ends or is abandoned (`StatusShape`), the recovery's channel is published
exactly between its begin and its clear (`RecoveryShape`), and what a caller has captured is one
of the two or has been closed. That refreshes fill the slots when they are the only holders is a
counting argument (`FullSlotsOfRefreshes`): the map is injective. Its attempt showed that the
former statement of `StationBusyOnlyBesideForeground` held for a single caller only: a second
station call takes a slot beside the background work and ends while the first one looks around.
The statement and the run's instance were changed.

Refinement: exclusive holders, shared holders (a refresh holds two: dispatcher and
worker), owners and free slots are mapped from `pc`, `phase`, `active` and `slots`. Each
action maps to one abstract step or a stutter; that a step taken after the drain is a
stutter uses `DrainHolds`.

**Automatic sleep** (`AutoSleepAssumption`). Four layers, each inductive given the ones before.
`ShapeInv`: where watchers, their actions, the settings call, the remains of a self-stop and the counted
reapers may stand relative to each other; it already gives `NeverSilentlyOff`, `StopIsFinal` and
`ActionServesDebt`. `DueShape`: *where* each outstanding sleep is kept. The current watcher
counts it down or owes it (`WatcherKeeps`, which also says that an action about to clear the debt
covers it), a settings call carries it in the replacement monitor or its seed, or the self-stop
left it. `FreshShape`: the last session of a process has a name nothing has used while its close
has not been seen. `SettledShape`: whoever is at work has the slot, and a key that may still become
an action's (`Alive`) has not been slept, unless it was settled last, which the next action
recognises. That last part needs freshness, since a relaunched process must not be taken for its
predecessor.

**Sessions and commands** (`CallsAssumption`, `BoundsAssumption`, `CommandAssumption`). `GattIInv`
says for each process which labels its stack may hold (`Frames`: every procedure returns to its
caller), that whoever stands at a label under the lock holds it (`Locks`), where the session is
(`Place`: the station, the pending cleanup, or the hand of the one process inside), that it is
tracked, and what the lock's holder knows of the session it has used or is about to discover
(`Knows`). The procedures are
the same for commands, so the lemmas on them are about every label a caller may return to, and
`CommandIInv` reuses them: it adds, per label, what has been sent (`Sending`), how many attempts
and reads are behind the command (`Trying`, `Polling`). A command that waits in a procedure
counts as standing at the label it returns to (`Stands`).

Refinement: by `Place` a process that has the session in hand is the only one, so each step of the
code that opens, detaches, releases or keeps a handle is the abstract hand-over of the same name, and every
other step, a command's among them, is a discovery or a stutter. `OwnerShape` adds what the
mapping needs of the events: a handle reported as dropped, wherever its event has come to, has
dropped or is released already (`Told`). So an event that still finds its session at the station may detach it.

**Scans** (no assumption is needed). `ScanIInv`: the slot follows caller and worker (`SlotShape`), the
operation and the BLE session follow the worker (`WorkShape`), and the drain follows the shutdown flag
(`DrainShape`). Why the drain meets no scan although it may read `asyncScanWg` before it is counted:
the flag keeps a reservation from being made, and a published slot makes the drain's StopScan wait.

**Recovery** (`DelayAssumption`, `CapAssumption`, `MetadataAssumption` and those of `StatusRetry`).
`NeverSleepsThrough` needs that an abandoned refresh has its marker in the table as long as its
worker reads on (`AbandonedOwed`), which needs that nobody else completes it (`DeviceExclusive`); the late
sighting needs `LateIsLatest`. The action properties rest on lemmas about the operators of
`RetryTable`: each maps an entry to one in which no marker has moved ahead of the backoff and the
connection has failed at most once more (`Follows`). So the property of a step that applies several of
them in a row is that of their composition. `Delay` doubles by a power, not by
recursion, so it can be reasoned about.

**Bulk power** (`KnownAssumption`, `EnablesAssumption` and the others of `BulkPower`, `AdapterInit`).
`BulkIInv`: a worker at its write holds its station's lock (`WritingHoldsLock`), one that waits in the gap or
sends the second byte works for a sleep batch (`PairIsSleep`), entries and results tell what they may in
each phase of the call (`EntriesTell`, `ResultsTell`), and where the last batch has reached its target no older worker
is inside a write, and the station is at the target or undone by an older pair (`ReachedStays`). The last one is
`NewestTargetWins` made inductive: it has to speak of a target that was read and is not recorded yet.
That an older worker gets past the check of its context needs the batch's context to be live, and only the last
batch's is.

**Only model-checked**: the liveness properties (`AdmissionEnds`, `WaitEnds`, `ShutdownDrains`,
`SleepSettles`, `DropNoticed`, `CallsEnd`, `ScanEnds`, `LateStartIsStopped`,
`GivesUpWithoutChannel`, `BatchEnds`), since fairness and ENABLED are beyond the prover.

## 11. Where code and comments disagree

`finding_absent_never_given_up` checks what the tests and comments say of an absent station: it
is given up after a bounded number of failures. In the code a station that is switched off lets
every read fail before it connects, and such a failure is counted against the connection alone
(`recordUnstructuredStationFailure`). A channel retry in the same entry keeps its count and its
past deadline: it is never exhausted, and due at once in every round. The loop tries the station
for ever and without a backoff. Raising the limit creates this entry for every exhausted absent station
(`ReviveAbsentStationRecovery`). `findings` in `PROJECT.json` quotes the sources.

`finding_lost_sleep` checks that no session whose countdown an action has used up stays unslept. Settings
switch the process while an action has run and its debt is not cleared yet; the new watcher inherits a debt that is
settled already. When its own process closes, the re-armed debt consumes that countdown under the old key
("it belongs to the same stopped session this fire is settling", `watcher.go` 389-399), is recognised as
settled (`auto_sleep.go` 683-693), and the new session is never slept.

Other behaviours met while the models were written, which no run of the project checks:

- *Busy beside background work.* A bulk batch or a scan beside nothing but background work is refused
  as Busy when that work ends between the failed TryLock and the reading of the done channels
  (`coordinator.go:97`). Station commands close this window with `recoveryGeneration`.
- *The abandoned worker's channel.* The refresh after an abandoned one replaces and then clears
  the done channel that was left open for exclusive callers to drain on (`coordinator.go:188`).
- *A sleep undoes a newer target.* A worker that was cancelled in the gap of its sleep pair goes on under
  detached contexts (`power.go` 721-744). The drain's grace may end before it does, the next batch sets the station
  to on or standby and confirms it, and the pair's last byte puts it to sleep. The comment at `power_bulk.go:405-408`
  says that healthy workers cannot outlive the context; that the pair completes is deliberate (`power.go` 704-710).
- *A relaunch keeps the debt.* After a self-stop the debt comes back marked as another process's, so a
  relaunch of the same process no longer voids it (`auto_sleep.go:192`).
- *A phantom cancellation.* When the start budget of a scan runs out and its platform scan then starts
  and ends with an error within the grace, the scan is reported as cancelled (`bluetooth/scan.go:712`, 742).
- *A swallowed discovery failure.* A discovery attempt fails and the context ends in the wait for the
  next: the caller sees a connect that never started and books no failure (`connection.go:161`).
- *The settings and the marker.* `ApplyRecoverySettings` moves a running backoff and leaves the marker of a
  pending read where it was, possibly ahead of it; `MarkerBehindBackoff` excepts that step.
- *Two failures for one command.* A slow verification read and the command that follows count one each.
- *A check and a prune.* `stopExhaustedAbsentRecovery` reads the presence before it takes the table's mutex: a
  station seen in between is pruned all the same (`manager.go:541-564`).
- *An early "ready".* Before the first attempt has begun `ensureReady` reports ready, and the API server starts
  before `Initialize` (`app.go:240`).
- *Connections in an unavailable period.* The comment at `manager.go:886-895` says no connection can exist until an
  attempt succeeds; an operation that passed `ensureReady` before may still make one.
- *Cancelled without the flag.* A cancelled batch whose only unfinished worker is left behind is returned
  as neither cancelled nor affected, with that station busy.

## 12. What is not modelled

Byte formats, timing values, log and event texts, validation of settings, presentation, and the
vendored Bluetooth library. Adapter and process enumeration are operating-system calls. The
configuration store, the API server and the front end's gates are planned. Of the modelled parts:
the choice among several stations in a recovery round, the choice of a conflict-free channel, scan
warnings, the join of adapter attempts in the drain and the drain's 60 s limit. `components` in
`PROJECT.json` has the status of each.

## 13. Plan

Modelled, checked and proved: `Coordinator`, `FleetAccess`, `AutoSleep`, `GattSession`, `SessionOwner`, `StationCommand`,
`ScanSession`, `ScanLifecycle`, `RetryTable`, `StatusRetry`, `AdapterInit`, `BulkPower`. All of them use no
RECURSIVE operator and take their bounds as constants with named assumptions. Next, in this order:

1. An abstract specification of a batch's result, which `BulkPower` implements, with its refinement
   theorem in `BulkPowerProofs`.
2. The hazards without a property: the window at `coordinator.go:97`, the inherited debt at
   `auto_sleep.go:192`, the swallowed discovery failure at `connection.go:161`.
3. `ConfigStore` (a crash between write and rename, blocked-save recovery), `ApiServer`, `FrontEndGates`.
