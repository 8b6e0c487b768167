------------------------------- MODULE AutoSleep -------------------------------
(***************************************************************************)
(* Automatic sleep: a watcher polls a process; once a session of it has    *)
(* been closed for the delay, an action scans and puts the stations to     *)
(* sleep.  Settings replace the watcher (and hand its state to the next),  *)
(* a watcher may stop by itself and is rebuilt later, and a shutdown ends  *)
(* them all.                                                               *)
(*                                                                         *)
(* Goroutines: a watcher's poll loop, its action, its reaper, settings     *)
(* calls, rebuild timer callbacks and the shutdown.  They meet on          *)
(* autoSleepSettingsMutex (held while apply.step is not idle),             *)
(* autoSleepMutex (held during ApplySteps), a watcher's lifecycleMutex and *)
(* debt mutex (one action each) and autoSleepActionSlot.  A process check  *)
(* and the poll that uses it are one step: only polls look at a process.   *)
(***************************************************************************)
EXTENDS SessionMonitor, Naturals, FiniteSets

CONSTANTS
  Watchers,     \* Watcher values; one is used again when nothing refers to it
  Targets,      \* the processes that can be watched
  MaxLaunches,  \* bound: launches of the processes
  MaxSaves,     \* bound: settings calls
  MaxStops,     \* bound: watchers that stop themselves
  MaxRebuilds,  \* bound: reapers past the clear, and rebuild callbacks, at a time
  MaxRetries    \* maxAutoSleepRebuildRetries

\* The key of a session: its target and the number of the launch.
Sessions == Targets \X (1 .. MaxLaunches)
Keys == Sessions \cup {None}

ASSUME AutoSleepAssumption ==
  /\ IsFiniteSet(Watchers) /\ IsFiniteSet(Targets)
  /\ {MaxLaunches, MaxSaves, MaxStops, MaxRebuilds, MaxRetries} \subseteq Nat
  /\ None \notin Watchers \cup Targets \cup Sessions \cup MonitorOf(Sessions)

VARIABLES
  running, session,     \* each process: is it up, and which launch was its last
  launches,     \* launches so far
  config,       \* the target of the persisted settings, None when disabled
  saves,        \* settings calls made
  stops,        \* watchers that have stopped themselves
  apply,        \* the settings call in progress, under autoSleepSettingsMutex
  current,      \* autoSleepWatcher (autoSleepCancel is set with it)
  selfStop,     \* autoSleepSelfStopClosedAt (with ...Owed), ...CountdownAt
  timer,        \* autoSleepRebuildTimer is pending
  cleared,      \* reapers that have detached a watcher that stopped itself
  reporting,    \*   and those that have seen the feature enabled
  rebuilding,   \* callbacks that have not taken the settings mutex yet
  rechecking,   \*   and those whose save has failed
  failures,     \* autoSleepRebuildFailures
  watcher,      \* each Watcher and where its poll loop and its reaper stand
  action,       \* its trigger goroutine
  slot,         \* the watcher whose action holds autoSleepActionSlot
  settledSession,       \* autoSleepSettledSession
  shuttingDown, stopped,        \* runShutdown has begun, has run stopAutoSleep
  due,          \* history: closed sessions whose sleep is still outstanding
  slept,        \* history: sessions settled by an action that ran
  lost          \* history: closed sessions that an action has given up, unslept

processVars == <<running, session, launches>>
watcherVars == <<watcher, stops>>
appVars == <<current, selfStop, timer, failures>>
settingsVars == <<config, saves, apply>>
callbackVars == <<rebuilding, rechecking>>
rebuildVars == <<cleared, reporting, callbackVars>>
slotVars == <<slot, settledSession>>
history == <<due, slept, lost>>
vars == <<processVars, appVars, settingsVars, rebuildVars, watcherVars,
          action, slotVars, shuttingDown, stopped, history>>

ApplySteps == {"snapshot", "seed", "build"}

NoApply == [step |-> "idle", changed |-> FALSE, saved |-> TRUE,
            rebuild |-> FALSE, monitor |-> None, seed |-> None]
NoAction == [step |-> "none", key |-> None, covers |-> {}, newest |-> FALSE,
             stopped |-> FALSE, settled |-> FALSE]
NoSelfStop == [owed |-> None, countdown |-> None]
Unused == [life |-> "unused", watched |-> None, cancelled |-> FALSE,
           failed |-> FALSE, monitor |-> NewMonitor, debt |-> NoDebt,
           pending |-> None]

\* startup applies the settings it has loaded.
Init ==
  /\ running = [t \in Targets |-> FALSE]
  /\ session = [t \in Targets |-> 0] /\ launches = 0
  /\ config \in Targets \cup {None}
  /\ saves = 0 /\ stops = 0
  /\ apply = [NoApply EXCEPT !.step = "apply"]
  /\ current = None /\ selfStop = NoSelfStop /\ timer = FALSE
  /\ cleared = 0 /\ reporting = 0 /\ rebuilding = 0 /\ rechecking = 0
  /\ failures = 0
  /\ watcher = [w \in Watchers |-> Unused]
  /\ action = [w \in Watchers |-> NoAction]
  /\ slot = None /\ settledSession = None
  /\ shuttingDown = FALSE /\ stopped = FALSE
  /\ due = {} /\ slept = {} /\ lost = {}

SettingsFree == apply.step = "idle"
AppFree == apply.step \notin ApplySteps

-----------------------------------------------------------------------------
(* The watched processes.                                                  *)

Launch(t) ==
  /\ ~running[t]
  /\ launches < MaxLaunches
  /\ running' = [running EXCEPT ![t] = TRUE]
  /\ launches' = launches + 1
  /\ session' = [session EXCEPT ![t] = launches']
  /\ UNCHANGED <<appVars, settingsVars, rebuildVars, watcherVars, action,
                 slotVars, shuttingDown, stopped, history>>

Quit(t) ==
  /\ running[t]
  /\ running' = [running EXCEPT ![t] = FALSE]
  /\ UNCHANGED <<session, launches, appVars, settingsVars, rebuildVars,
                 watcherVars, action, slotVars, shuttingDown, stopped, history>>

-----------------------------------------------------------------------------
(* The poll loop of a watcher (Watcher.Run).                               *)

\* The check under lifecycleMutex that the watcher has not been cancelled.
Polls(w) == watcher[w].life = "polling" /\ ~watcher[w].cancelled

\* The context of the watcher's action is cancelled.
Stopped(w) == watcher[w].cancelled \/ action[w].stopped

LastSession(w) == <<watcher[w].watched, session[watcher[w].watched]>>

StopAction(a) == IF a.step = "none" THEN a ELSE [a EXCEPT !.stopped = TRUE]

\* The process runs: whatever its last session owed is void.
PollRunning(w) ==
  /\ Polls(w)
  /\ running[watcher[w].watched]
  /\ watcher' = [watcher EXCEPT
       ![w].monitor = PollUp(@), ![w].pending = None,
       ![w].debt = ClearSessionDebtUnlessCarried(@)]
  /\ action' = [action EXCEPT
       ![w] = [StopAction(action[w]) EXCEPT
                 !.newest = action[w].newest /\ watcher[w].debt.carried]]
  /\ due' = {k \in due : k[1] # watcher[w].watched}
  /\ UNCHANGED <<processVars, appVars, settingsVars, rebuildVars, slotVars,
                 shuttingDown, stopped, slept, lost, stops>>

\* Mutant: only an inherited debt is armed again.
RearmsCarried(w, elapsed) ==
  /\ ~Triggers(watcher[w].monitor, elapsed)
  /\ watcher[w].pending = None
  /\ action[w].step = "none"
  /\ watcher[w].debt.key # None /\ watcher[w].debt.carried

\* An owed trigger that no action is serving is armed again.
Rearms(w, elapsed) ==
  /\ ~Triggers(watcher[w].monitor, elapsed)
  /\ watcher[w].pending = None
  /\ action[w].step = "none"
  /\ watcher[w].debt.key # None

\* Debt and pending key after the poll has queued a trigger or armed the debt.
DebtAfter(w, elapsed) ==
  IF Triggers(watcher[w].monitor, elapsed)
    THEN QueueMonitorTrigger(watcher[w].debt, watcher[w].monitor.key)
    ELSE watcher[w].debt

PendingAfter(w, elapsed) ==
  IF Triggers(watcher[w].monitor, elapsed) \/ Rearms(w, elapsed)
    THEN DebtAfter(w, elapsed).key ELSE watcher[w].pending

MonitorAfter(w, elapsed) ==
  LET polled == PollDown(watcher[w].monitor, LastSession(w), elapsed)
  IN IF Rearms(w, elapsed) THEN ConsumeActiveCountdown(polled) ELSE polled

DueAfter(w) ==
  IF watcher[w].monitor.state = "running"
    THEN due \cup {LastSession(w)}
    ELSE due

Fires(w, elapsed) ==
  PendingAfter(w, elapsed) # None /\ action[w].step = "none"

\* The process is down: follow the countdown, queue, arm again, fire.
PollQuiet(w, elapsed) ==
  /\ Polls(w)
  /\ ~running[watcher[w].watched]
  /\ watcher' = [watcher EXCEPT
       ![w].monitor = MonitorAfter(w, elapsed),
       ![w].debt = DebtAfter(w, elapsed),
       ![w].pending = IF Fires(w, elapsed) THEN None
                      ELSE PendingAfter(w, elapsed)]
  /\ due' = DueAfter(w)
  /\ action' = [action EXCEPT ![w] =
       IF Fires(w, elapsed)
         THEN [NoAction EXCEPT !.step = "slot", !.newest = TRUE,
                 !.key = PendingAfter(w, elapsed), !.covers = DueAfter(w)]
         ELSE [action[w] EXCEPT !.newest = action[w].newest
                 /\ ~Triggers(watcher[w].monitor, elapsed)]]
  /\ UNCHANGED <<processVars, appVars, settingsVars, rebuildVars, slotVars,
                 shuttingDown, stopped, slept, lost, stops>>

\* Ten process checks in a row have failed; a cancellation is not looked at.
SelfStop(w) ==
  /\ watcher[w].life = "polling"
  /\ stops < MaxStops
  /\ stops' = stops + 1
  /\ watcher' = [watcher EXCEPT ![w].life = "stopping", ![w].failed = TRUE]
  /\ action' = [action EXCEPT ![w] = StopAction(@)]
  /\ UNCHANGED <<processVars, appVars, settingsVars, rebuildVars, slotVars,
                 shuttingDown, stopped, history>>

StopCancelled(w) ==
  /\ watcher[w].life = "polling" /\ watcher[w].cancelled
  /\ watcher' = [watcher EXCEPT ![w].life = "stopping"]
  /\ action' = [action EXCEPT ![w] = StopAction(@)]
  /\ UNCHANGED <<processVars, appVars, settingsVars, rebuildVars, slotVars,
                 shuttingDown, stopped, history, stops>>

\* stopTrigger has joined the action; Run returns and closes Done.
MarkExited(w) ==
  /\ watcher[w].life = "stopping"
  /\ action[w].step \in {"none", "finished"}
  /\ watcher' = [watcher EXCEPT ![w].life = "exited", ![w].pending = None]
  /\ action' = [action EXCEPT ![w] = NoAction]
  /\ UNCHANGED <<processVars, appVars, settingsVars, rebuildVars, slotVars,
                 shuttingDown, stopped, history, stops>>

\* The loop selects triggerDone; a pending trigger is then fired by a poll.
JoinAction(w) ==
  /\ watcher[w].life = "polling"
  /\ action[w].step = "finished"
  /\ action' = [action EXCEPT ![w] = NoAction]
  /\ UNCHANGED <<processVars, appVars, settingsVars, rebuildVars, watcherVars,
                 slotVars, shuttingDown, stopped, history>>

-----------------------------------------------------------------------------
(* The action (runAutoSleepSession).  Its start and its wait for the slot  *)
(* are one step.                                                           *)

ActionStep(w, step) == action' = [action EXCEPT ![w].step = step]

Returns(w, settled) ==
  action' = [action EXCEPT ![w].step = "returned", ![w].settled = settled]

\* Cancelled, or the program is shutting down.
GiveUp(w) ==
  /\ action[w].step = "slot"
  /\ Stopped(w) \/ shuttingDown
  /\ Returns(w, FALSE)
  /\ UNCHANGED <<processVars, appVars, settingsVars, rebuildVars, watcherVars,
                 slotVars, shuttingDown, stopped, history>>

MayAct(w) ==
  /\ action[w].step = "slot" /\ slot = None
  /\ ~Stopped(w) /\ ~shuttingDown

\* The session of this key has been settled by an earlier action.  Nothing is
\* slept: another session whose countdown the trigger has used up is lost.
Deduplicate(w) ==
  /\ MayAct(w)
  /\ settledSession = action[w].key
  /\ Returns(w, TRUE)
  /\ due' = due \ action[w].covers
  /\ lost' = lost \cup ((due \cap action[w].covers) \ {action[w].key})
  /\ UNCHANGED <<processVars, appVars, settingsVars, rebuildVars, watcherVars,
                 slotVars, shuttingDown, stopped, slept>>

StartScan(w) ==
  /\ MayAct(w)
  /\ settledSession # action[w].key
  /\ slot' = w
  /\ ActionStep(w, "scanning")
  /\ UNCHANGED <<processVars, appVars, settingsVars, rebuildVars, watcherVars,
                 settledSession, shuttingDown, stopped, history>>

\* The deferred release of the slot, and the record of a settled session.
Conclude(w, settled) ==
  /\ Returns(w, settled)
  /\ slot' = None
  /\ IF settled
       THEN /\ settledSession' = action[w].key
            /\ slept' = slept \cup {action[w].key}
            /\ due' = due \ action[w].covers
            /\ UNCHANGED lost
       ELSE UNCHANGED <<settledSession, history>>
  /\ UNCHANGED <<processVars, appVars, settingsVars, rebuildVars, watcherVars,
                 shuttingDown, stopped>>

\* The scan was cancelled (here, or by StopScan) or refused by a shutdown;
\* or another operation is in progress and the session is skipped.
ScanEnds(w) ==
  /\ action[w].step = "scanning"
  /\ \E settled \in BOOLEAN : Conclude(w, settled)

\* It went through, or failed: the known stations are put to sleep.
ScanReturns(w) ==
  /\ action[w].step = "scanning"
  /\ ~shuttingDown /\ ~Stopped(w)
  /\ ActionStep(w, "powering")
  /\ UNCHANGED <<processVars, appVars, settingsVars, rebuildVars, watcherVars,
                 slotVars, shuttingDown, stopped, history>>

\* A cancelled batch (also by CancelBulkPower) does not settle the session;
\* one that completed, failed, timed out or was refused as busy does.
PowerReturns(w, settled) ==
  /\ action[w].step = "powering"
  /\ Conclude(w, settled)

\* Mutant: an action clears a trigger queued after it began.
FinishAnyTrigger(w) ==
  /\ action[w].step = "returned"
  /\ watcher' = [watcher EXCEPT ![w].debt =
                   IF action[w].settled THEN NoDebt ELSE @]
  /\ action' = [action EXCEPT ![w].step = "finished", ![w].newest = FALSE]
  /\ UNCHANGED <<processVars, appVars, settingsVars, rebuildVars, slotVars,
                 shuttingDown, stopped, history, stops>>

\* The debt of this generation is cleared by an action that settled.
FinishTrigger(w) ==
  /\ action[w].step = "returned"
  /\ watcher' = [watcher EXCEPT ![w].debt =
                   IF action[w].newest /\ action[w].settled THEN NoDebt ELSE @]
  /\ action' = [action EXCEPT ![w].step = "finished", ![w].newest = FALSE]
  /\ UNCHANGED <<processVars, appVars, settingsVars, rebuildVars, slotVars,
                 shuttingDown, stopped, history, stops>>

-----------------------------------------------------------------------------
(* Settings calls (setAutoSleepSettingsLocked and applyAutoSleep).         *)

\* Mutant: no watcher at all passes for the configured one.
MatchesNoWatcher ==
  \/ current = None
  \/ config # None /\ ~shuttingDown /\ watcher[current].watched = config

\* autoSleepMatches.
Matches ==
  IF config = None \/ shuttingDown THEN current = None
  ELSE current # None /\ watcher[current].watched = config

\* SetAutoSleepSettings saves; with the same target it may be a new delay.
Save(settings, newDelay) ==
  /\ SettingsFree
  /\ saves < MaxSaves
  /\ saves' = saves + 1
  /\ config' = settings
  /\ apply' = [NoApply EXCEPT !.step = "match",
                 !.changed = newDelay \/ settings # config]
  /\ UNCHANGED <<processVars, appVars, rebuildVars, watcherVars, action,
                 slotVars, shuttingDown, stopped, history>>

\* The write fails.  Settings that could not be read at startup (so that the
\* default, disabled, stands for them) may have been recovered by the attempt.
SaveFails(recovered) ==
  /\ SettingsFree
  /\ saves < MaxSaves
  /\ saves' = saves + 1
  /\ recovered # config => config = None
  /\ config' = recovered
  /\ apply' = [NoApply EXCEPT !.step = "match", !.saved = FALSE]
  /\ UNCHANGED <<processVars, appVars, rebuildVars, watcherVars, action,
                 slotVars, shuttingDown, stopped, history>>

\* The settings call returns; a rebuild whose save failed looks again.
EndApply ==
  /\ apply' = NoApply
  /\ rechecking' = IF apply.rebuild /\ ~apply.saved
                     THEN rechecking + 1 ELSE rechecking

SettingsMatch ==
  /\ apply.step = "match"
  /\ \/ /\ ~apply.changed /\ Matches
        /\ EndApply
     \/ /\ apply.changed \/ ~Matches
        /\ apply' = [apply EXCEPT !.step = "apply"]
        /\ UNCHANGED rechecking
  /\ UNCHANGED <<processVars, appVars, config, saves, cleared, reporting,
                 rebuilding, watcherVars, action, slotVars, shuttingDown,
                 stopped, history>>

\* applyAutoSleep takes autoSleepMutex and cancels the watcher it replaces (when
\* the bound leaves a Watcher value for a new one).
ApplyCancel ==
  /\ apply.step = "apply"
  /\ \E w \in Watchers : watcher[w].life = "unused"
  /\ timer' = FALSE
  /\ IF current = None
       THEN apply' = [apply EXCEPT !.step = "build"] /\ UNCHANGED watcher
       ELSE /\ apply' = [apply EXCEPT !.step = "snapshot"]
            /\ watcher' = [watcher EXCEPT ![current].cancelled = TRUE]
  /\ UNCHANGED <<processVars, current, selfStop, failures, config, saves,
                 rebuildVars, action, slotVars, shuttingDown, stopped, history,
                 stops>>

\* The same target: ReplacementMonitor.  An inherited debt is read once more.
SnapshotSameTarget ==
  LET old == watcher[current]
      carried == old.debt.carried /\ old.debt.key # None
  IN /\ old.watched = config
     /\ apply' = [apply EXCEPT
          !.monitor = Replacement(old.monitor, old.debt.key # None),
          !.step = IF carried THEN "seed" ELSE "build"]
     /\ current' = IF carried THEN current ELSE None
     /\ UNCHANGED due

\* Mutant: a target change leaves the old watcher's debt behind.
SnapshotForgetsDebt ==
  /\ watcher[current].watched # config
  /\ apply' = [apply EXCEPT !.step = "build"]
  /\ current' = None
  /\ UNCHANGED due

\* Another target, or none: OwedSession; a countdown is dropped.
SnapshotNewTarget ==
  LET old == watcher[current]
      owed == old.debt.key
  IN /\ old.watched # config
     /\ apply' = [apply EXCEPT !.step = "build", !.seed = owed,
          !.monitor = IF owed = None THEN None ELSE NewMonitorContinuing(owed)]
     /\ current' = None
     /\ due' = IF old.monitor.state = "closed"
                 THEN due \ ({old.monitor.key} \ {owed}) ELSE due

ApplySnapshot ==
  /\ apply.step = "snapshot"
  /\ SnapshotSameTarget \/ SnapshotNewTarget
  /\ UNCHANGED <<processVars, selfStop, timer, failures, config, saves,
                 rebuildVars, watcherVars, action, slotVars, shuttingDown,
                 stopped, slept, lost>>

\* The action may have settled since: then there is nothing to seed.
ApplySeed ==
  /\ apply.step = "seed"
  /\ apply' = [apply EXCEPT !.step = "build", !.seed = watcher[current].debt.key]
  /\ current' = None
  /\ UNCHANGED <<processVars, selfStop, timer, failures, config, saves,
                 rebuildVars, watcherVars, action, slotVars, shuttingDown,
                 stopped, history>>

\* Disabled or shutting down: no watcher, and nothing is owed any more.
ApplyDetach ==
  /\ apply.step = "build"
  /\ config = None \/ shuttingDown
  /\ selfStop' = NoSelfStop
  /\ due' = {}
  /\ EndApply
  /\ UNCHANGED <<processVars, current, timer, failures, config, saves, cleared,
                 reporting, rebuilding, watcherVars, action, slotVars,
                 shuttingDown, stopped, slept, lost>>

\* What a new watcher starts from: the replaced one, else a self-stopped one.
FirstMonitor ==
  CASE apply.monitor # None -> apply.monitor
    [] apply.monitor = None /\ selfStop.owed # None ->
         NewMonitorContinuing(selfStop.owed)
    [] apply.monitor = None /\ selfStop.owed = None
         /\ selfStop.countdown # None ->
         NewMonitorContinuing(selfStop.countdown)
    [] OTHER -> NewMonitor

FirstDebt ==
  CASE apply.monitor = None /\ selfStop.owed # None ->
         SeedOwedSession(selfStop.owed)
    [] apply.seed # None -> SeedOwedSession(apply.seed)
    [] OTHER -> NoDebt

ApplyBuild(w) ==
  /\ apply.step = "build"
  /\ config # None /\ ~shuttingDown
  /\ watcher[w].life = "unused"
  /\ watcher' = [watcher EXCEPT
       ![w] = [Unused EXCEPT !.life = "polling", !.watched = config,
                 !.monitor = FirstMonitor, !.debt = FirstDebt]]
  /\ current' = w
  /\ selfStop' = IF apply.monitor # None THEN selfStop
                 ELSE IF selfStop.owed # None
                   THEN [selfStop EXCEPT !.owed = None]
                   ELSE [selfStop EXCEPT !.countdown = None]
  /\ failures' = 0
  /\ due' = {k \in due : selfStop.countdown = k => k[1] = config}
  /\ EndApply
  /\ UNCHANGED <<processVars, timer, config, saves, cleared, reporting,
                 rebuilding, action, slotVars, shuttingDown, stopped, slept,
                 lost, stops>>

-----------------------------------------------------------------------------
(* The reaper of a watcher, and the rebuild it schedules.                  *)

\* The watcher was cancelled: whoever did it has detached it.
ReapCancelled(w) ==
  /\ watcher[w].life = "exited" /\ ~watcher[w].failed
  /\ current # w
  /\ watcher' = [watcher EXCEPT ![w] = Unused]
  /\ UNCHANGED <<processVars, appVars, settingsVars, rebuildVars, action,
                 slotVars, shuttingDown, stopped, history, stops>>

\* The debt, or else the countdown, of a watcher that stopped itself.
LeftBy(old) ==
  CASE old.debt.key # None -> [selfStop EXCEPT !.owed = old.debt.key]
    [] old.debt.key = None /\ old.monitor.state = "closed" ->
         [selfStop EXCEPT !.countdown = old.monitor.key]
    [] OTHER -> selfStop

ReapFailed(w) ==
  /\ watcher[w].life = "exited" /\ watcher[w].failed
  /\ AppFree
  /\ watcher' = [watcher EXCEPT ![w] = Unused]
  /\ \/ /\ current = w
        /\ cleared + reporting < MaxRebuilds
        /\ current' = None
        /\ failures' = 0
        /\ selfStop' = LeftBy(watcher[w])
        /\ cleared' = cleared + 1
     \/ /\ current # w
        /\ UNCHANGED <<current, failures, selfStop, cleared>>
  /\ UNCHANGED <<processVars, timer, settingsVars, reporting, callbackVars,
                 action, slotVars, shuttingDown, stopped, history, stops>>

\* It reads, under autoSleepSettingsMutex, whether the feature is enabled.
ReadEnabled ==
  /\ cleared > 0
  /\ SettingsFree
  /\ cleared' = cleared - 1
  /\ reporting' = IF config = None THEN reporting ELSE reporting + 1
  /\ UNCHANGED <<processVars, appVars, settingsVars, callbackVars, watcherVars,
                 action, slotVars, shuttingDown, stopped, history>>

\* Mutant: a rebuild is scheduled during a shutdown too.
SchedulesAlways == timer' = (timer \/ current = None)

\* scheduleAutoSleepRebuild.
Schedules == timer' = (timer \/ (current = None /\ ~shuttingDown))

ScheduleRebuild ==
  /\ reporting > 0
  /\ AppFree
  /\ Schedules
  /\ reporting' = reporting - 1
  /\ UNCHANGED <<processVars, current, selfStop, failures, settingsVars,
                 cleared, callbackVars, watcherVars, action, slotVars,
                 shuttingDown, stopped, history>>

TimerFires ==
  /\ timer
  /\ AppFree
  /\ rebuilding + rechecking + (IF apply.rebuild THEN 1 ELSE 0) < MaxRebuilds
  /\ timer' = FALSE
  /\ rebuilding' = rebuilding + 1
  /\ UNCHANGED <<processVars, current, selfStop, failures, settingsVars,
                 cleared, reporting, rechecking, watcherVars, action, slotVars,
                 shuttingDown, stopped, history>>

\* runScheduledAutoSleepRebuild: shutting down, or disabled meanwhile.
SkipRebuild ==
  /\ rebuilding > 0
  /\ shuttingDown \/ (SettingsFree /\ config = None)
  /\ rebuilding' = rebuilding - 1
  /\ UNCHANGED <<processVars, appVars, settingsVars, cleared, reporting,
                 rechecking, watcherVars, action, slotVars, shuttingDown,
                 stopped, history>>

\* It saves the settings it has read; its save may fail like any other.
Rebuild(saved) ==
  /\ rebuilding > 0
  /\ SettingsFree /\ config # None
  /\ rebuilding' = rebuilding - 1
  /\ apply' = [NoApply EXCEPT !.step = "match", !.rebuild = TRUE,
                 !.saved = saved]
  /\ UNCHANGED <<processVars, appVars, config, saves, cleared, reporting,
                 rechecking, watcherVars, action, slotVars, shuttingDown,
                 stopped, history>>

\* After a failed save: unless the runtime has converged, try again later.
Recheck ==
  /\ rechecking > 0
  /\ AppFree
  /\ rechecking' = rechecking - 1
  /\ \/ Matches /\ UNCHANGED <<timer, failures>>
     \/ /\ ~Matches
        /\ failures' = failures + 1
        /\ IF failures' >= MaxRetries THEN UNCHANGED timer ELSE Schedules
  /\ UNCHANGED <<processVars, current, selfStop, settingsVars, cleared,
                 reporting, rebuilding, watcherVars, action, slotVars,
                 shuttingDown, stopped, history>>

-----------------------------------------------------------------------------
(* Shutdown.                                                               *)

BeginShutdown ==
  /\ ~shuttingDown
  /\ shuttingDown' = TRUE
  /\ UNCHANGED <<processVars, appVars, settingsVars, rebuildVars, watcherVars,
                 action, slotVars, stopped, history>>

StopAutoSleep ==
  /\ shuttingDown /\ ~stopped
  /\ AppFree
  /\ stopped' = TRUE
  /\ timer' = FALSE /\ failures' = 0 /\ selfStop' = NoSelfStop
  /\ current' = None
  /\ watcher' = IF current = None THEN watcher
                ELSE [watcher EXCEPT ![current].cancelled = TRUE]
  /\ due' = {}
  /\ UNCHANGED <<processVars, settingsVars, rebuildVars, action, slotVars,
                 shuttingDown, slept, lost, stops>>

\* autoSleepWG has been waited for.
Exited ==
  /\ stopped
  /\ \A w \in Watchers : watcher[w].life = "unused"
  /\ SettingsFree
  /\ cleared + reporting + rebuilding + rechecking = 0
  /\ UNCHANGED vars

WatcherNext(w) ==
  \/ PollRunning(w)
  \/ \E elapsed \in BOOLEAN : PollQuiet(w, elapsed)
  \/ SelfStop(w) \/ StopCancelled(w) \/ MarkExited(w) \/ JoinAction(w)

ActionNext(w) ==
  \/ GiveUp(w) \/ Deduplicate(w) \/ StartScan(w) \/ ScanEnds(w)
  \/ ScanReturns(w)
  \/ \E settled \in BOOLEAN : PowerReturns(w, settled)
  \/ FinishTrigger(w)

SettingsNext ==
  \/ \E settings \in Targets \cup {None} :
       \/ \E newDelay \in BOOLEAN : Save(settings, newDelay)
       \/ SaveFails(settings)
  \/ SettingsMatch \/ ApplyCancel \/ ApplySnapshot \/ ApplySeed \/ ApplyDetach
  \/ \E w \in Watchers : ApplyBuild(w)

RebuildNext ==
  \/ \E w \in Watchers : ReapCancelled(w) \/ ReapFailed(w)
  \/ ReadEnabled \/ ScheduleRebuild \/ TimerFires \/ SkipRebuild \/ Recheck
  \/ \E saved \in BOOLEAN : Rebuild(saved)

Next ==
  \/ \E t \in Targets : Launch(t) \/ Quit(t)
  \/ \E w \in Watchers : WatcherNext(w) \/ ActionNext(w)
  \/ SettingsNext \/ RebuildNext
  \/ BeginShutdown \/ StopAutoSleep \/ Exited

Spec == Init /\ [][Next]_vars

(* Goroutines run and timers fire.  Scans and batches may be cancelled by a *)
(* user, but not always; the processes are quit some day.  closedAt is kept, *)
(* so that once the delay has elapsed every poll finds it elapsed.           *)
Scheduling ==
  /\ \A t \in Targets : WF_vars(Quit(t))
  /\ \A w \in Watchers :
       /\ WF_vars(PollQuiet(w, TRUE))
       /\ WF_vars(StopCancelled(w) \/ MarkExited(w) \/ JoinAction(w))
       /\ WF_vars(ActionNext(w))
       /\ SF_vars(ScanReturns(w)) /\ SF_vars(PowerReturns(w, TRUE))
       /\ WF_vars(ReapCancelled(w) \/ ReapFailed(w))
  /\ WF_vars(SettingsMatch \/ ApplyCancel \/ ApplySnapshot \/ ApplySeed
             \/ ApplyDetach \/ \E w \in Watchers : ApplyBuild(w))
  /\ WF_vars(ReadEnabled) /\ WF_vars(ScheduleRebuild) /\ WF_vars(TimerFires)
  /\ WF_vars(SkipRebuild \/ Rebuild(TRUE)) /\ WF_vars(Recheck)
  /\ WF_vars(StopAutoSleep)

FairSpec == Spec /\ Scheduling

-----------------------------------------------------------------------------
(* Properties.                                                             *)

WatcherType ==
  [life : {"unused", "polling", "stopping", "exited"},
   watched : Targets \cup {None}, cancelled : BOOLEAN, failed : BOOLEAN,
   monitor : MonitorOf(Sessions), debt : DebtOf(Sessions), pending : Keys]

ActionType ==
  [step : {"none", "slot", "scanning", "powering", "returned", "finished"},
   key : Keys, covers : SUBSET Sessions, newest : BOOLEAN, stopped : BOOLEAN,
   settled : BOOLEAN]

ApplyType ==
  [step : {"idle", "match", "apply"} \cup ApplySteps, changed : BOOLEAN,
   saved : BOOLEAN, rebuild : BOOLEAN,
   monitor : MonitorOf(Sessions) \cup {None}, seed : Keys]

\* Every variable keeps its type (the fields of App and Watcher).
TypeOK ==
  /\ running \in [Targets -> BOOLEAN]
  /\ session \in [Targets -> 0..MaxLaunches] /\ launches \in 0..MaxLaunches
  /\ config \in Targets \cup {None} /\ saves \in 0..MaxSaves /\ stops \in 0..MaxStops
  /\ apply \in ApplyType
  /\ current \in Watchers \cup {None}
  /\ selfStop \in [owed : Keys, countdown : Keys]
  /\ timer \in BOOLEAN
  /\ {cleared, reporting, rebuilding, rechecking} \subseteq 0..MaxRebuilds
  /\ failures \in Nat
  /\ watcher \in [Watchers -> WatcherType]
  /\ action \in [Watchers -> ActionType]
  /\ slot \in Watchers \cup {None} /\ settledSession \in Keys
  /\ shuttingDown \in BOOLEAN /\ stopped \in BOOLEAN
  /\ due \subseteq Sessions /\ slept \subseteq Sessions /\ lost \subseteq Sessions

\* Somebody will put the stations to sleep for the closed session k: the current
\* watcher counts it down or owes a sleep, a watcher that stopped itself has left
\* it, or the settings call that replaces a watcher carries it.
Kept(k) ==
  \/ current # None /\ \/ watcher[current].monitor = NewMonitorContinuing(k)
                       \/ watcher[current].debt.key # None
  \/ selfStop.owed # None \/ selfStop.countdown = k
  \/ apply.step \in ApplySteps
       /\ (apply.monitor = NewMonitorContinuing(k) \/ apply.seed # None)

\* A closed session whose sleep is outstanding is not dropped on the way to its
\* action: not by a cancelled action, a new delay, a new target, a watcher that
\* stops itself or its rebuild (watcher.go:180-189, auto_sleep.go:137-172 and
\* 276-312).  What an action gives up unslept is in lost.
SleepKept == \A k \in due : Kept(k)

\* A watcher's own debt stands for the one session it is named for, so that an
\* action which finds that session settled gives up no other: only an inherited
\* debt has used up countdowns of later sessions (watcher.go:213-227, 380-399).
OwnDebtOwnSession ==
  current # None /\ watcher[current].debt.key # None
    /\ ~watcher[current].debt.carried =>
      due \subseteq {watcher[current].debt.key}

\* The variables have their types, no outstanding sleep is dropped before its
\* action, and none is at stake behind a watcher's own debt.
SleepInv == TypeOK /\ SleepKept /\ OwnDebtOwnSession

\* A fire consumes the countdown that is armed because "it belongs to the same
\* stopped session this fire is settling" (watcher.go:389-399): no session whose
\* countdown was consumed is left unslept by the action.
NoSleepLost == lost = {}

\* An action that nobody has cancelled serves the newest debt of the current
\* watcher, under that debt's key: a relaunch, a replacement or a later trigger
\* never leaves an obsolete action at large (watcher.go:51-63, 242-259).
ActionServesDebt ==
  \A w \in Watchers :
    action[w].step \in {"slot", "scanning", "powering"} /\ ~Stopped(w) =>
      /\ current = w
      /\ action[w].newest
      /\ watcher[w].debt.key = action[w].key

\* A session that an action has settled is not slept again, although its debt
\* may have been handed to another watcher before (auto_sleep.go:683-693).
SettledOnce ==
  \A w \in Watchers :
    action[w].step \in {"scanning", "powering"} => action[w].key \notin slept

\* An action that goes on serves the newest debt, and one that is outstanding.
ActionsRight == ActionServesDebt /\ SettledOnce

\* While the settings enable the feature and no settings call is under way, there
\* is a watcher, or somebody who will build one (auto_sleep.go:259-264, 350-360).
NeverSilentlyOff ==
  config # None /\ ~shuttingDown /\ SettingsFree =>
    \/ current # None
    \/ timer \/ cleared + reporting + rebuilding + rechecking > 0

\* Once stopAutoSleep has run nothing starts again: no watcher, no rebuild timer,
\* and every watcher still there is on its way out (auto_sleep.go:461-499).
StopIsFinal ==
  stopped =>
    /\ current = None /\ ~timer
    /\ \A w \in Watchers : watcher[w].life = "polling" => watcher[w].cancelled

\* The sleep of a closed session is settled, or its session is void in the end:
\* cancelled actions, replaced and self-stopped watchers and failed saves only
\* delay it (watcher.go:380-394, auto_sleep.go:338-360).
SleepSettles == \A k \in Sessions : k \in due ~> k \notin due \cup lost

=============================================================================
