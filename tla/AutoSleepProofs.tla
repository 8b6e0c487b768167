---------------------------- MODULE AutoSleepProofs ----------------------------
(***************************************************************************)
(* Proofs that automatic sleep is safe for every number of watchers,       *)
(* processes, launches, settings calls, self-stops and rebuilds: it is     *)
(* never silently off, a shutdown is final, an action serves the newest    *)
(* debt, no closed session is slept twice, and none is dropped on the way  *)
(* to its action, which gives one up only with an inherited debt.          *)
(***************************************************************************)
EXTENDS AutoSleep, TLAPS

-----------------------------------------------------------------------------
(* The first invariant: where the watchers, their actions and the settings *)
(* calls stand.                                                            *)

Working(a) == a.step \in {"slot", "scanning", "powering"}

\* Only the current watcher polls, a value that is free refers to nothing, and
\* the action of a watcher that is stopping has been cancelled.
LifeFits(x, a, isCurrent) ==
  /\ x.life # "unused" => x.watched \in Targets
  /\ x.life = "unused" => ~isCurrent
  /\ x.life = "polling" /\ ~x.cancelled => isCurrent
  /\ x.life \in {"unused", "exited"} => a.step = "none"
  /\ x.life = "stopping" /\ a.step # "none" => a.stopped
  /\ a.step = "none" => a = NoAction

\* A debt of the watcher's own is the last session that its monitor has seen.
OwnsLast(debt, monitor) ==
  debt.key # None /\ ~debt.carried =>
    debt.key = monitor.key /\ monitor.state # "running"

\* An action at work that nobody has cancelled serves the newest debt, and no
\* countdown runs beside it; a trigger that is still pending is the newest.
ActionFits(x, a) ==
  /\ Working(a) /\ ~x.cancelled /\ ~a.stopped =>
       a.newest /\ a.key = x.debt.key /\ x.monitor.state = "idle"
  /\ Working(a) => a.key # None
  /\ x.pending # None => x.pending = x.debt.key /\ x.monitor.state = "idle"
  /\ a.newest => x.pending = None
  /\ x.debt.carried => x.debt.key # None
  /\ OwnsLast(x.debt, x.monitor)

\* A process that a watcher has seen up has been launched.
SeenUp(x) ==
  x.monitor.state = "running" => x.watched \in Targets /\ session[x.watched] > 0

WatcherShape ==
  \A w \in Watchers :
    /\ LifeFits(watcher[w], action[w], current = w)
    /\ ActionFits(watcher[w], action[w])
    /\ SeenUp(watcher[w])

\* Between the cancellation of a watcher and the build of the next one nobody
\* else touches them.
ApplyShape ==
  /\ apply.step = "idle" => ~apply.rebuild
  /\ apply.step \notin {"seed", "build"} => apply.monitor = None
  /\ apply.step # "build" => apply.seed = None
  /\ apply.step \in {"snapshot", "seed"} => current # None /\ watcher[current].cancelled
  /\ apply.step = "seed" => apply.monitor # None /\ watcher[current].watched = config
  /\ apply.step = "build" => current = None
  /\ apply.monitor = None => apply.seed = None
  /\ apply.monitor # None /\ apply.monitor.state = "running" =>
       config \in Targets /\ session[config] > 0

\* What a watcher that stopped itself has left is there until the next is built.
SelfStopShape ==
  /\ current # None => selfStop = NoSelfStop
  /\ selfStop.owed = None \/ selfStop.countdown = None
  /\ apply.monitor # None => selfStop = NoSelfStop

Counts ==
  /\ cleared + reporting <= MaxRebuilds
  /\ rebuilding + rechecking + (IF apply.rebuild THEN 1 ELSE 0) <= MaxRebuilds
  /\ \A t \in Targets : session[t] <= launches /\ (running[t] => session[t] > 0)

\* A rebuild that only looks again after a failed save is not counted on.
StillOn ==
  config # None /\ ~shuttingDown /\ SettingsFree =>
    current # None \/ timer \/ cleared + reporting + rebuilding > 0

Ended == stopped => shuttingDown /\ current = None /\ ~timer

ShapeInv ==
  /\ TypeOK /\ WatcherShape /\ ApplyShape /\ SelfStopShape /\ Counts
  /\ StillOn /\ Ended

-----------------------------------------------------------------------------
(* The values of the model.                                                *)

LEMMA NoneApart == None \notin Sessions /\ None \notin Targets /\ None \notin Watchers
BY AutoSleepAssumption DEF Sessions

LEMMA MonitorFields ==
  ASSUME NEW m \in MonitorOf(Sessions)
  PROVE  /\ m.state \in {"idle", "running", "closed"} /\ m.key \in Keys
         /\ m.state = "closed" => m.key # None
         /\ m = [state |-> m.state, key |-> m.key]
         /\ m # None
BY AutoSleepAssumption DEF MonitorOf, Keys

LEMMA MonitorIntro ==
  ASSUME NEW s \in {"idle", "running", "closed"}, NEW k \in Keys,
         s = "closed" => k # None
  PROVE  [state |-> s, key |-> k] \in MonitorOf(Sessions)
BY DEF MonitorOf, Keys

LEMMA NewMonitorTyped ==
  /\ NewMonitor \in MonitorOf(Sessions)
  /\ \A k \in Sessions : NewMonitorContinuing(k) \in MonitorOf(Sessions)
BY NoneApart, MonitorIntro DEF NewMonitor, NewMonitorContinuing, Keys

\* What a poll makes of a monitor.
LEMMA PollUpTyped ==
  ASSUME NEW m \in MonitorOf(Sessions)
  PROVE  /\ PollUp(m) \in MonitorOf(Sessions)
         /\ PollUp(m).state = "running" /\ PollUp(m).key = m.key
<1>1. PollUp(m) = [state |-> "running", key |-> m.key]
  BY MonitorFields DEF PollUp
<1> QED
  BY <1>1, MonitorFields, MonitorIntro

LEMMA PollDownTyped ==
  ASSUME NEW m \in MonitorOf(Sessions), NEW s, m.state = "running" => s \in Sessions,
         NEW elapsed \in BOOLEAN
  PROVE  /\ PollDown(m, s, elapsed) \in MonitorOf(Sessions)
         /\ PollDown(m, s, elapsed).state # "running"
         /\ m.state = "running" => PollDown(m, s, elapsed) = NewMonitorContinuing(s)
         /\ m.state = "closed" =>
              /\ PollDown(m, s, elapsed).key = m.key
              /\ PollDown(m, s, elapsed).state = IF elapsed THEN "idle" ELSE "closed"
         /\ m.state = "idle" => PollDown(m, s, elapsed) = m
<1>1. CASE m.state = "running"
  BY <1>1, NewMonitorTyped DEF PollDown, NewMonitorContinuing
<1>2. CASE m.state = "closed" /\ elapsed
  <2>1. PollDown(m, s, elapsed) = [state |-> "idle", key |-> m.key]
    BY <1>2, MonitorFields DEF PollDown
  <2> QED
    BY <1>2, <2>1, MonitorFields, MonitorIntro
<1>3. CASE m.state = "closed" /\ ~elapsed
  BY <1>3, MonitorFields DEF PollDown
<1>4. CASE m.state = "idle"
  BY <1>4, MonitorFields DEF PollDown
<1> QED
  BY <1>1, <1>2, <1>3, <1>4, MonitorFields

LEMMA ConsumedTyped ==
  ASSUME NEW m \in MonitorOf(Sessions)
  PROVE  /\ ConsumeActiveCountdown(m) \in MonitorOf(Sessions)
         /\ ConsumeActiveCountdown(m).key = m.key
         /\ ConsumeActiveCountdown(m).state = IF m.state = "closed" THEN "idle" ELSE m.state
<1>1. CASE m.state = "closed"
  <2>1. ConsumeActiveCountdown(m) = [state |-> "idle", key |-> m.key]
    BY <1>1, MonitorFields DEF ConsumeActiveCountdown
  <2> QED
    BY <1>1, <2>1, MonitorFields, MonitorIntro
<1>2. CASE m.state # "closed"
  BY <1>2 DEF ConsumeActiveCountdown
<1> QED
  BY <1>1, <1>2

LEMMA DebtTyped ==
  /\ NoDebt \in DebtOf(Sessions)
  /\ \A k \in Keys : SeedOwedSession(k) \in DebtOf(Sessions)
  /\ \A d \in DebtOf(Sessions) :
       /\ d.key \in Keys /\ d.carried \in BOOLEAN
       /\ ClearSessionDebtUnlessCarried(d) \in DebtOf(Sessions)
       /\ \A k \in Keys :
            /\ QueueMonitorTrigger(d, k) \in DebtOf(Sessions)
            /\ QueueMonitorTrigger(d, k).carried = d.carried
            /\ QueueMonitorTrigger(d, k).key =
                 IF d.key # None /\ d.carried THEN d.key ELSE k
BY DEF DebtOf, Keys, NoDebt, SeedOwedSession, ClearSessionDebtUnlessCarried,
       QueueMonitorTrigger

LEMMA WatcherFields ==
  ASSUME NEW x \in WatcherType
  PROVE  /\ x.life \in {"unused", "polling", "stopping", "exited"}
         /\ x.watched \in Targets \cup {None}
         /\ x.cancelled \in BOOLEAN /\ x.failed \in BOOLEAN
         /\ x.monitor \in MonitorOf(Sessions) /\ x.debt \in DebtOf(Sessions)
         /\ x.pending \in Keys
BY DEF WatcherType

LEMMA ActionFields ==
  ASSUME NEW a \in ActionType
  PROVE  /\ a.step \in {"none", "slot", "scanning", "powering", "returned", "finished"}
         /\ a.key \in Keys /\ a.covers \in SUBSET Sessions /\ a.newest \in BOOLEAN
         /\ a.stopped \in BOOLEAN /\ a.settled \in BOOLEAN
BY DEF ActionType

LEMMA ActionEqual ==
  ASSUME NEW a \in ActionType, NEW b \in ActionType,
         a.step = b.step, a.key = b.key, a.covers = b.covers, a.newest = b.newest,
         a.stopped = b.stopped, a.settled = b.settled
  PROVE  a = b
BY DEF ActionType

LEMMA UnusedTyped ==
  /\ Unused \in WatcherType /\ NoAction \in ActionType /\ NoApply \in ApplyType
  /\ NoSelfStop \in [owed : Keys, countdown : Keys]
<1>1. NewMonitor \in MonitorOf(Sessions) /\ NoDebt \in DebtOf(Sessions)
  BY NewMonitorTyped, DebtTyped
<1> QED
  BY <1>1 DEF Unused, WatcherType, NoAction, ActionType, NoApply, ApplyType, ApplySteps,
              NoSelfStop, Keys

-----------------------------------------------------------------------------
(* Steps of a watcher and of its action.                                   *)

\* Such a step changes watcher w and its action, nothing of the application.
WorkStep(w) ==
  /\ UNCHANGED <<processVars, appVars, settingsVars, rebuildVars,
                 shuttingDown, stopped>>
  /\ watcher' \in [Watchers -> WatcherType]
  /\ action' \in [Watchers -> ActionType]
  /\ \A v \in Watchers \ {w} : watcher'[v] = watcher[v] /\ action'[v] = action[v]
  /\ watcher'[w].watched = watcher[w].watched
  /\ watcher'[w].cancelled = watcher[w].cancelled
  /\ stops' \in 0..MaxStops
  /\ slot' \in Watchers \cup {None} /\ settledSession' \in Keys
  /\ due' \subseteq Sessions /\ slept' \subseteq Sessions /\ lost' \subseteq Sessions

LEMMA WorkMoves ==
  ASSUME ShapeInv, NEW w \in Watchers, WorkStep(w),
         LifeFits(watcher'[w], action'[w], current = w),
         ActionFits(watcher'[w], action'[w]),
         watcher'[w].monitor.state = "running" =>
           watcher[w].watched \in Targets /\ session[watcher[w].watched] > 0
  PROVE  ShapeInv'
<1> USE DEF WorkStep
<1>1. TypeOK'
  BY DEF ShapeInv, TypeOK, processVars, appVars, settingsVars, rebuildVars, callbackVars
<1>2. WatcherShape'
  <2>1. SUFFICES ASSUME NEW v \in Watchers
                 PROVE  /\ LifeFits(watcher'[v], action'[v], current = v)
                        /\ ActionFits(watcher'[v], action'[v])
                        /\ SeenUp(watcher[v])'
    BY DEF WatcherShape, appVars
  <2>2. CASE v = w
    BY <2>2 DEF SeenUp, processVars
  <2>3. CASE v # w
    BY <2>3 DEF SeenUp, processVars, ShapeInv, WatcherShape
  <2> QED
    BY <2>2, <2>3
<1>3. ApplyShape'
  <2>1. current # None => watcher'[current].cancelled = watcher[current].cancelled
                          /\ watcher'[current].watched = watcher[current].watched
    BY DEF ShapeInv, TypeOK
  <2> QED
    BY <2>1 DEF ShapeInv, ApplyShape, processVars, appVars, settingsVars
<1>4. SelfStopShape' /\ Counts' /\ StillOn' /\ Ended'
  BY DEF ShapeInv, SelfStopShape, Counts, StillOn, Ended, SettingsFree, processVars,
         appVars, settingsVars, rebuildVars, callbackVars
<1> QED
  BY <1>1, <1>2, <1>3, <1>4 DEF ShapeInv

\* What the invariant says of one watcher.
LEMMA WatcherHere ==
  ASSUME ShapeInv, NEW w \in Watchers
  PROVE  /\ watcher[w] \in WatcherType /\ action[w] \in ActionType
         /\ LifeFits(watcher[w], action[w], current = w)
         /\ ActionFits(watcher[w], action[w])
         /\ SeenUp(watcher[w])
         /\ watcher[w].watched \in Targets => session[watcher[w].watched] \in 0..MaxLaunches
BY DEF ShapeInv, TypeOK, WatcherShape

\* Only the step of an action, or what it has been told, changes.
LEMMA ActionSet ==
  ASSUME ShapeInv, NEW w \in Watchers, NEW a \in ActionType
  PROVE  /\ [action EXCEPT ![w] = a] \in [Watchers -> ActionType]
         /\ [action EXCEPT ![w] = a][w] = a
         /\ \A v \in Watchers \ {w} : [action EXCEPT ![w] = a][v] = action[v]
BY DEF ShapeInv, TypeOK

LEMMA StopActionTyped ==
  ASSUME NEW a \in ActionType
  PROVE  /\ StopAction(a) \in ActionType
         /\ StopAction(a).step = a.step /\ StopAction(a).key = a.key
         /\ StopAction(a).newest = a.newest /\ StopAction(a).covers = a.covers
         /\ StopAction(a).settled = a.settled
         /\ a.step # "none" => StopAction(a).stopped
         /\ a.step = "none" => StopAction(a) = a
BY DEF StopAction, ActionType

\* The process is up: the action, if any, is stopped and its debt is void.
LEMMA PollRunningIs ==
  ASSUME ShapeInv, NEW w \in Watchers, PollRunning(w)
  PROVE  /\ WorkStep(w) /\ slept' = slept /\ UNCHANGED slotVars
         /\ current = w /\ watcher[w].life = "polling" /\ ~watcher[w].cancelled
         /\ running[watcher[w].watched] /\ watcher[w].watched \in Targets
         /\ watcher'[w].life = "polling" /\ watcher'[w].pending = None
         /\ watcher'[w].monitor = PollUp(watcher[w].monitor)
         /\ watcher'[w].debt = ClearSessionDebtUnlessCarried(watcher[w].debt)
         /\ action'[w].step = action[w].step /\ action'[w].key = action[w].key
         /\ action'[w].covers = action[w].covers
         /\ action'[w].settled = action[w].settled
         /\ action'[w].newest = (action[w].newest /\ watcher[w].debt.carried)
         /\ action[w].step = "none" => action'[w] = NoAction
         /\ action[w].step # "none" => action'[w].stopped
         /\ due' = {k \in due : k[1] # watcher[w].watched}
<1>1. /\ watcher[w] \in WatcherType /\ action[w] \in ActionType
      /\ LifeFits(watcher[w], action[w], current = w)
      /\ ActionFits(watcher[w], action[w])
  BY WatcherHere
<1>2. /\ current = w /\ watcher[w].life = "polling" /\ ~watcher[w].cancelled
      /\ watcher[w].watched \in Targets
  BY <1>1 DEF PollRunning, Polls, LifeFits
<1> DEFINE m == PollUp(watcher[w].monitor)
           d == ClearSessionDebtUnlessCarried(watcher[w].debt)
           n == action[w].newest /\ watcher[w].debt.carried
           a == [StopAction(action[w]) EXCEPT !.newest = n]
<1>3. m \in MonitorOf(Sessions) /\ d \in DebtOf(Sessions) /\ None \in Keys
  BY <1>1, WatcherFields, PollUpTyped, DebtTyped DEF Keys
<1>4. n \in BOOLEAN /\ n = (action[w].newest /\ watcher[w].debt.carried)
  BY <1>1, WatcherFields, ActionFields, DebtTyped, StopActionTyped
<1>5. /\ a \in ActionType /\ a.newest = n
      /\ a.step = action[w].step /\ a.key = action[w].key /\ a.covers = action[w].covers
      /\ a.settled = action[w].settled /\ a.stopped = StopAction(action[w]).stopped
  <2>1. StopAction(action[w]) \in ActionType
    BY <1>1, StopActionTyped
  <2> HIDE DEF n
  <2>2. /\ a \in ActionType /\ a.newest = n
        /\ a.step = StopAction(action[w]).step /\ a.key = StopAction(action[w]).key
        /\ a.covers = StopAction(action[w]).covers
        /\ a.settled = StopAction(action[w]).settled
        /\ a.stopped = StopAction(action[w]).stopped
    BY <1>4, <2>1 DEF ActionType
  <2> QED
    BY <1>1, <2>2, StopActionTyped
<1>6. action[w].step = "none" => a = NoAction
  <2> HAVE action[w].step = "none"
  <2>1. action[w] = NoAction /\ StopAction(action[w]) = NoAction
    BY <1>1, StopActionTyped DEF LifeFits
  <2>2. n = FALSE
    BY <1>4, <2>1 DEF NoAction
  <2> HIDE DEF n
  <2> QED
    BY <1>5, <2>1, <2>2, UnusedTyped, ActionEqual DEF NoAction
<1> HIDE DEF m, d
<1>7. /\ watcher' = [watcher EXCEPT ![w].monitor = m, ![w].pending = None, ![w].debt = d]
      /\ action' = [action EXCEPT ![w] = a]
  <2>1. action' = [action EXCEPT ![w] = a]
    BY DEF PollRunning, ShapeInv, TypeOK
  <2>2. watcher' = [watcher EXCEPT ![w].monitor = m, ![w].pending = None, ![w].debt = d]
    BY DEF PollRunning, ShapeInv, TypeOK, m, d
  <2> QED
    BY <2>1, <2>2
<1>8. /\ watcher' \in [Watchers -> WatcherType]
      /\ \A v \in Watchers \ {w} : watcher'[v] = watcher[v]
      /\ watcher'[w].monitor = m /\ watcher'[w].debt = d /\ watcher'[w].pending = None
      /\ watcher'[w].life = "polling" /\ watcher'[w].cancelled = watcher[w].cancelled
      /\ watcher'[w].watched = watcher[w].watched
  BY <1>1, <1>2, <1>3, <1>7 DEF ShapeInv, TypeOK, WatcherType
<1> HIDE DEF a
<1>9. /\ action' \in [Watchers -> ActionType] /\ action'[w] = a
      /\ \A v \in Watchers \ {w} : action'[v] = action[v]
  BY <1>5, <1>7, ActionSet
<1>10. WorkStep(w)
  BY <1>8, <1>9 DEF WorkStep, PollRunning, slotVars, ShapeInv, TypeOK
<1> QED
  <2>1. action[w].step # "none" => action'[w].stopped
    BY <1>1, <1>5, <1>9, StopActionTyped
  <2>2. action'[w].newest = (action[w].newest /\ watcher[w].debt.carried)
    BY <1>4, <1>5, <1>9, Zenon
  <2> HIDE DEF n
  <2> QED
    BY <1>2, <1>5, <1>6, <1>8, <1>9, <1>10, <2>1, <2>2 DEF PollRunning, m, d, slotVars

\* What a poll that finds the process down makes of the monitor, the debt and
\* the pending trigger: it queues, arms again, or neither.
LEMMA QuietValues ==
  ASSUME ShapeInv, NEW w \in Watchers, NEW elapsed \in BOOLEAN
  PROVE  LET m == watcher[w].monitor
             d == watcher[w].debt
         IN /\ MonitorAfter(w, elapsed) \in MonitorOf(Sessions)
            /\ DebtAfter(w, elapsed) \in DebtOf(Sessions)
            /\ PendingAfter(w, elapsed) \in Keys
            /\ MonitorAfter(w, elapsed).state # "running"
            /\ MonitorAfter(w, elapsed).key =
                 IF m.state = "running" THEN LastSession(w) ELSE m.key
            /\ m.state = "running" => LastSession(w) \in Sessions
            /\ Triggers(m, elapsed) \/ Rearms(w, elapsed) =>
                 /\ MonitorAfter(w, elapsed).state = "idle"
                 /\ PendingAfter(w, elapsed) = DebtAfter(w, elapsed).key
                 /\ DebtAfter(w, elapsed).key # None
            /\ ~Triggers(m, elapsed) => DebtAfter(w, elapsed) = d
            /\ Triggers(m, elapsed) =>
                 /\ m.state = "closed"
                 /\ DebtAfter(w, elapsed) = QueueMonitorTrigger(d, m.key)
            /\ ~Triggers(m, elapsed) /\ ~Rearms(w, elapsed) =>
                 /\ PendingAfter(w, elapsed) = watcher[w].pending
                 /\ MonitorAfter(w, elapsed) =
                      IF m.state = "running" THEN NewMonitorContinuing(LastSession(w)) ELSE m
<1> DEFINE m == watcher[w].monitor
           d == watcher[w].debt
           s == LastSession(w)
           polled == PollDown(m, s, elapsed)
<1>1. /\ watcher[w] \in WatcherType /\ SeenUp(watcher[w])
      /\ watcher[w].watched \in Targets => session[watcher[w].watched] \in 0..MaxLaunches
  BY WatcherHere
<1>2. m \in MonitorOf(Sessions) /\ d \in DebtOf(Sessions) /\ watcher[w].pending \in Keys
  BY <1>1, WatcherFields
<1>3. m.state = "running" => s \in Sessions
  BY <1>1 DEF SeenUp, Sessions, LastSession
<1>4. /\ m.state \in {"idle", "running", "closed"} /\ m.key \in Keys
      /\ m.state = "closed" => m.key # None
  BY <1>2, MonitorFields
<1> HIDE DEF s
<1>5. /\ polled \in MonitorOf(Sessions) /\ polled.state # "running"
      /\ m.state = "running" => polled = NewMonitorContinuing(s)
      /\ m.state = "closed" => polled.key = m.key
                               /\ polled.state = IF elapsed THEN "idle" ELSE "closed"
      /\ m.state = "idle" => polled = m
  BY <1>2, <1>3, PollDownTyped
<1>6. m.state = "closed" /\ ~elapsed => polled = m
  BY <1>4, <1>5, <1>2, MonitorFields
<1>7. polled.key = IF m.state = "running" THEN s ELSE m.key
  BY <1>4, <1>5 DEF NewMonitorContinuing
<1> HIDE DEF polled
<1>8. MonitorAfter(w, elapsed) =
        IF Rearms(w, elapsed) THEN ConsumeActiveCountdown(polled) ELSE polled
  BY DEF MonitorAfter, polled, m, s
<1>9. /\ ConsumeActiveCountdown(polled) \in MonitorOf(Sessions)
      /\ ConsumeActiveCountdown(polled).key = polled.key
      /\ ConsumeActiveCountdown(polled).state =
           IF polled.state = "closed" THEN "idle" ELSE polled.state
      /\ polled.state \in {"idle", "closed"}
  BY <1>5, ConsumedTyped, MonitorFields
<1>10. Rearms(w, elapsed) =>
         ~Triggers(m, elapsed) /\ d.key # None /\ watcher[w].pending = None
  BY DEF Rearms, m, d
<1>11. /\ Triggers(m, elapsed) => DebtAfter(w, elapsed) = QueueMonitorTrigger(d, m.key)
       /\ ~Triggers(m, elapsed) => DebtAfter(w, elapsed) = d
       /\ Triggers(m, elapsed) => m.state = "closed" /\ elapsed
       /\ m.state = "closed" /\ elapsed => Triggers(m, elapsed)
  BY DEF DebtAfter, Triggers, m, d
<1>12. PendingAfter(w, elapsed) =
         IF Triggers(m, elapsed) \/ Rearms(w, elapsed)
           THEN DebtAfter(w, elapsed).key ELSE watcher[w].pending
  BY DEF PendingAfter, m
<1>13. /\ DebtAfter(w, elapsed) \in DebtOf(Sessions)
       /\ DebtAfter(w, elapsed).key \in Keys
       /\ Triggers(m, elapsed) => DebtAfter(w, elapsed).key # None
  <2>1. CASE ~Triggers(m, elapsed)
    BY <1>2, <1>11, <2>1, DebtTyped
  <2>2. CASE Triggers(m, elapsed)
    <3> DEFINE q == QueueMonitorTrigger(d, m.key)
    <3>1. /\ q \in DebtOf(Sessions)
          /\ q.key = IF d.key # None /\ d.carried THEN d.key ELSE m.key
      BY <1>2, <1>4, DebtTyped
    <3>2. m.key # None /\ DebtAfter(w, elapsed) = q
      BY <1>4, <1>11, <2>2
    <3> HIDE DEF q, m, d
    <3> QED
      BY <3>1, <3>2, DebtTyped
  <2> QED
    BY <2>1, <2>2
<1>14. MonitorAfter(w, elapsed) \in MonitorOf(Sessions)
       /\ MonitorAfter(w, elapsed).state # "running"
       /\ MonitorAfter(w, elapsed).key = polled.key
  BY <1>5, <1>8, <1>9
<1>15. Triggers(m, elapsed) \/ Rearms(w, elapsed) => MonitorAfter(w, elapsed).state = "idle"
  BY <1>5, <1>8, <1>9, <1>10, <1>11
<1>16. ~Triggers(m, elapsed) /\ ~Rearms(w, elapsed) =>
         MonitorAfter(w, elapsed) =
           IF m.state = "running" THEN NewMonitorContinuing(s) ELSE m
  BY <1>4, <1>5, <1>6, <1>8, <1>11
<1> HIDE DEF m, d
<1>17. PendingAfter(w, elapsed) \in Keys
  BY <1>2, <1>12, <1>13
<1> QED
  BY <1>3, <1>7, <1>10, <1>11, <1>12, <1>13, <1>14, <1>15, <1>16, <1>17 DEF m, d, s

\* The process is down: the countdown goes on, and an action may be fired.
LEMMA PollQuietIs ==
  ASSUME ShapeInv, NEW w \in Watchers, NEW elapsed \in BOOLEAN, PollQuiet(w, elapsed)
  PROVE  /\ WorkStep(w) /\ slept' = slept /\ UNCHANGED slotVars
         /\ current = w /\ watcher[w].life = "polling" /\ ~watcher[w].cancelled
         /\ ~running[watcher[w].watched] /\ watcher[w].watched \in Targets
         /\ watcher'[w].life = "polling"
         /\ watcher'[w].monitor = MonitorAfter(w, elapsed)
         /\ watcher'[w].debt = DebtAfter(w, elapsed)
         /\ watcher'[w].pending = IF Fires(w, elapsed) THEN None
                                  ELSE PendingAfter(w, elapsed)
         /\ due' = DueAfter(w)
         /\ Fires(w, elapsed) =>
              /\ action[w].step = "none" /\ PendingAfter(w, elapsed) # None
              /\ action'[w].step = "slot" /\ action'[w].newest = TRUE
              /\ action'[w].key = PendingAfter(w, elapsed)
              /\ action'[w].covers = DueAfter(w)
              /\ action'[w].stopped = FALSE /\ action'[w].settled = FALSE
         /\ ~Fires(w, elapsed) =>
              /\ action[w].step # "none" \/ PendingAfter(w, elapsed) = None
              /\ action'[w].step = action[w].step /\ action'[w].key = action[w].key
              /\ action'[w].covers = action[w].covers
              /\ action'[w].stopped = action[w].stopped
              /\ action'[w].settled = action[w].settled
              /\ action'[w].newest =
                   (action[w].newest /\ ~Triggers(watcher[w].monitor, elapsed))
              /\ action[w].step = "none" => action'[w] = NoAction
<1>1. /\ watcher[w] \in WatcherType /\ action[w] \in ActionType
      /\ LifeFits(watcher[w], action[w], current = w)
      /\ ActionFits(watcher[w], action[w])
  BY WatcherHere
<1>2. /\ current = w /\ watcher[w].life = "polling" /\ ~watcher[w].cancelled
      /\ watcher[w].watched \in Targets
  BY <1>1 DEF PollQuiet, Polls, LifeFits
<1>3. /\ MonitorAfter(w, elapsed) \in MonitorOf(Sessions)
      /\ DebtAfter(w, elapsed) \in DebtOf(Sessions)
      /\ PendingAfter(w, elapsed) \in Keys
      /\ watcher[w].monitor.state = "running" => LastSession(w) \in Sessions
  BY QuietValues
<1>4. DueAfter(w) \subseteq Sessions
  BY <1>3 DEF DueAfter, ShapeInv, TypeOK
<1> DEFINE m == MonitorAfter(w, elapsed)
           d == DebtAfter(w, elapsed)
           k == PendingAfter(w, elapsed)
           p == IF Fires(w, elapsed) THEN None ELSE k
           n == action[w].newest /\ ~Triggers(watcher[w].monitor, elapsed)
           fresh == [NoAction EXCEPT !.step = "slot", !.newest = TRUE,
                       !.key = k, !.covers = DueAfter(w)]
           told == [action[w] EXCEPT !.newest = n]
           a == IF Fires(w, elapsed) THEN fresh ELSE told
<1>5. p \in Keys
  BY <1>3 DEF Keys
<1>6. n \in BOOLEAN /\ n = (action[w].newest /\ ~Triggers(watcher[w].monitor, elapsed))
  BY <1>1, ActionFields
<1> HIDE DEF m, d, k, p
<1>7. /\ watcher' = [watcher EXCEPT ![w].monitor = m, ![w].debt = d, ![w].pending = p]
      /\ action' = [action EXCEPT ![w] = a]
  BY DEF PollQuiet, m, d, p, k
<1>8. /\ watcher' \in [Watchers -> WatcherType]
      /\ \A v \in Watchers \ {w} : watcher'[v] = watcher[v]
      /\ watcher'[w].monitor = m /\ watcher'[w].debt = d /\ watcher'[w].pending = p
      /\ watcher'[w].life = "polling" /\ watcher'[w].cancelled = watcher[w].cancelled
      /\ watcher'[w].watched = watcher[w].watched
  <2>1. m \in MonitorOf(Sessions) /\ d \in DebtOf(Sessions)
    BY <1>3 DEF m, d
  <2> QED
    BY <1>1, <1>2, <1>5, <1>7, <2>1 DEF ShapeInv, TypeOK, WatcherType
<1>9. /\ fresh \in ActionType /\ fresh.step = "slot" /\ fresh.newest = TRUE
      /\ fresh.key = k /\ fresh.covers = DueAfter(w)
      /\ fresh.stopped = FALSE /\ fresh.settled = FALSE
  <2>1. k \in Keys
    BY <1>3 DEF k
  <2>2. /\ NoAction \in ActionType
        /\ NoAction.stopped = FALSE /\ NoAction.settled = FALSE
    BY UnusedTyped DEF NoAction
  <2> QED
    BY <1>4, <2>1, <2>2 DEF ActionType
<1> HIDE DEF n
<1>10. /\ told \in ActionType /\ told.step = action[w].step /\ told.key = action[w].key
       /\ told.covers = action[w].covers /\ told.stopped = action[w].stopped
       /\ told.settled = action[w].settled /\ told.newest = n
  BY <1>1, <1>6 DEF ActionType
<1>11. action[w].step = "none" => told = NoAction
  <2> HAVE action[w].step = "none"
  <2>1. action[w] = NoAction /\ NoAction \in ActionType
    BY <1>1, UnusedTyped DEF LifeFits
  <2>2. NoAction.newest = FALSE
    BY DEF NoAction
  <2>3. n = FALSE
    BY <1>6, <2>1, <2>2
  <2> HIDE DEF told
  <2> QED
    BY <1>10, <2>1, <2>2, <2>3, ActionEqual
<1> HIDE DEF fresh, told
<1>12. a \in ActionType
  BY <1>9, <1>10
<1>13. /\ action' \in [Watchers -> ActionType] /\ action'[w] = a
       /\ \A v \in Watchers \ {w} : action'[v] = action[v]
  <2> HIDE DEF a
  <2> QED
    BY <1>7, <1>12, ActionSet
<1>14. WorkStep(w)
  BY <1>4, <1>8, <1>13 DEF WorkStep, PollQuiet, slotVars, ShapeInv, TypeOK
<1>15. CASE Fires(w, elapsed)
  <2>1. action[w].step = "none" /\ k # None
    BY <1>15 DEF Fires, k
  <2> QED
    BY <1>2, <1>8, <1>9, <1>13, <1>14, <1>15, <2>1 DEF PollQuiet, m, d, p, k, slotVars
<1>16. CASE ~Fires(w, elapsed)
  <2>1. action[w].step # "none" \/ k = None
    BY <1>16 DEF Fires, k
  <2>2. action'[w].newest = (action[w].newest /\ ~Triggers(watcher[w].monitor, elapsed))
    BY <1>6, <1>10, <1>13, <1>16
  <2> QED
    BY <1>2, <1>8, <1>10, <1>11, <1>13, <1>14, <1>16, <2>1, <2>2
       DEF PollQuiet, m, d, p, k, slotVars
<1> QED
  BY <1>15, <1>16

LEMMA PollRunningShape ==
  ASSUME ShapeInv, NEW w \in Watchers, PollRunning(w)
  PROVE  ShapeInv'
<1>1. /\ watcher[w] \in WatcherType /\ action[w] \in ActionType
      /\ ActionFits(watcher[w], action[w])
      /\ session[watcher[w].watched] > 0
  BY WatcherHere, PollRunningIs DEF ShapeInv, Counts, TypeOK
<1>2. LifeFits(watcher'[w], action'[w], current = w)
  BY PollRunningIs DEF LifeFits, WorkStep
<1>3. ActionFits(watcher'[w], action'[w])
  <2>1. /\ watcher[w].debt \in DebtOf(Sessions)
        /\ watcher[w].debt.carried => watcher[w].debt.key # None
    BY <1>1, WatcherFields DEF ActionFits
  <2>2. watcher'[w].debt.carried => watcher'[w].debt.key # None
    BY <2>1, PollRunningIs DEF ClearSessionDebtUnlessCarried, NoDebt
  <2>3. Working(action'[w]) => action'[w].stopped /\ action'[w].key # None
    <3> HAVE Working(action'[w])
    <3>1. Working(action[w]) /\ action[w].step # "none"
      BY PollRunningIs DEF Working
    <3> QED
      BY <1>1, <3>1, PollRunningIs DEF ActionFits
  <2>4. watcher'[w].pending = None
    BY PollRunningIs
  <2>5. OwnsLast(watcher'[w].debt, watcher'[w].monitor)
    <3>1. watcher'[w].debt = IF watcher[w].debt.carried THEN watcher[w].debt ELSE NoDebt
      BY PollRunningIs DEF ClearSessionDebtUnlessCarried
    <3>2. NoDebt.key = None
      BY DEF NoDebt
    <3> QED
      BY <3>1, <3>2 DEF OwnsLast
  <2> QED
    BY <2>2, <2>3, <2>4, <2>5 DEF ActionFits
<1> QED
  BY <1>1, <1>2, <1>3, WorkMoves, PollRunningIs

LEMMA PollQuietShape ==
  ASSUME ShapeInv, NEW w \in Watchers, NEW elapsed \in BOOLEAN, PollQuiet(w, elapsed)
  PROVE  ShapeInv'
<1> DEFINE x == watcher[w]
           a == action[w]
           y == watcher'[w]
           b == action'[w]
           k == PendingAfter(w, elapsed)
           asks == Triggers(x.monitor, elapsed)
           again == Rearms(w, elapsed)
<1>1. /\ x \in WatcherType /\ a \in ActionType
      /\ LifeFits(x, a, current = w) /\ ActionFits(x, a) /\ SeenUp(x)
  BY WatcherHere
<1>2. /\ x.monitor \in MonitorOf(Sessions) /\ x.debt \in DebtOf(Sessions)
      /\ x.pending \in Keys
  BY <1>1, WatcherFields
<1>3. y.monitor.state # "running"
  BY PollQuietIs, QuietValues, ZenonT(40)
<1>4. LifeFits(y, b, current = w)
  <2>1. CASE Fires(w, elapsed)
    BY <2>1, PollQuietIs DEF LifeFits, WorkStep
  <2>2. CASE ~Fires(w, elapsed)
    BY <2>2, PollQuietIs DEF LifeFits, WorkStep
  <2> QED
    BY <2>1, <2>2
<1>5. y.debt.carried => y.debt.key # None
  <2>1. CASE asks
    <3>1. y.debt.key # None
      BY <2>1, PollQuietIs, QuietValues, ZenonT(40)
    <3> QED
      BY <3>1
  <2>2. CASE ~asks
    <3>1. y.debt = x.debt
      BY <2>2, PollQuietIs, QuietValues, ZenonT(40)
    <3> QED
      BY <1>1, <3>1 DEF ActionFits
  <2> QED
    BY <2>1, <2>2
<1>10. OwnsLast(y.debt, y.monitor)
  <2>1. CASE asks
    <3>1. /\ x.monitor.state = "closed" /\ x.monitor.key \in Keys
          /\ y.debt = QueueMonitorTrigger(x.debt, x.monitor.key)
      BY <1>2, <2>1, PollQuietIs, QuietValues, MonitorFields DEF Triggers
    <3>2. y.monitor.key = x.monitor.key
      BY <3>1, PollQuietIs, QuietValues
    <3>3. y.debt.carried = x.debt.carried
          /\ (~x.debt.carried => y.debt.key = x.monitor.key)
      BY <1>2, <3>1, DebtTyped
    <3> QED
      BY <1>3, <3>2, <3>3 DEF OwnsLast
  <2>2. CASE ~asks
    <3>1. y.debt = x.debt
      BY <2>2, PollQuietIs, QuietValues, ZenonT(40)
    <3>2. x.monitor.state # "running" => y.monitor.key = x.monitor.key
      BY PollQuietIs, QuietValues
    <3>3. OwnsLast(x.debt, x.monitor)
      BY <1>1 DEF ActionFits
    <3> QED
      BY <1>3, <3>1, <3>2, <3>3 DEF OwnsLast
  <2> QED
    BY <2>1, <2>2
<1>6. /\ asks \/ again => y.monitor.state = "idle" /\ k = y.debt.key
      /\ ~asks => y.debt = x.debt
      /\ ~asks /\ ~again => k = x.pending
      /\ ~asks /\ ~again /\ x.monitor.state = "idle" => y.monitor = x.monitor
  <2>1. y.monitor = MonitorAfter(w, elapsed) /\ y.debt = DebtAfter(w, elapsed)
    BY PollQuietIs
  <2>2. asks \/ again => MonitorAfter(w, elapsed).state = "idle"
    BY QuietValues
  <2>3. asks \/ again => k = DebtAfter(w, elapsed).key
    BY QuietValues
  <2>4. ~asks => DebtAfter(w, elapsed) = x.debt
    BY QuietValues
  <2>5. ~asks /\ ~again => k = x.pending
    BY QuietValues
  <2>6. ~asks /\ ~again /\ x.monitor.state = "idle" => MonitorAfter(w, elapsed) = x.monitor
    BY QuietValues
  <2> HIDE DEF k, x, y, asks, again
  <2> QED
    BY <2>1, <2>2, <2>3, <2>4, <2>5, <2>6
\* A pending trigger is that of the debt, and no countdown runs beside it.
<1>7. k # None => k = y.debt.key /\ y.monitor.state = "idle"
  <2> HAVE k # None
  <2>1. CASE asks \/ again
    BY <1>6, <2>1
  <2>2. CASE ~asks /\ ~again
    <3>1. k = x.pending /\ y.debt = x.debt
      BY <1>6, <2>2
    <3>2. x.pending = x.debt.key /\ x.monitor.state = "idle"
      BY <1>1, <3>1 DEF ActionFits
    <3>3. y.monitor = x.monitor
      BY <1>6, <2>2, <3>2
    <3> QED
      BY <3>1, <3>2, <3>3
  <2> QED
    BY <2>1, <2>2
<1> HIDE DEF k
<1>8. CASE Fires(w, elapsed)
  <2>1. /\ y.pending = None /\ k # None /\ b.key = k /\ b.newest = TRUE
        /\ y.debt.key = b.key /\ y.monitor.state = "idle"
    BY <1>7, <1>8, PollQuietIs DEF k
  <2>2. ActionFits(y, b)
    BY <1>5, <1>10, <2>1 DEF ActionFits
  <2> QED
    BY <1>3, <1>4, <2>2, WorkMoves, PollQuietIs
<1>9. CASE ~Fires(w, elapsed)
  <2>1. /\ y.pending = k /\ y.cancelled = x.cancelled
        /\ b.key = a.key /\ b.step = a.step /\ b.stopped = a.stopped
        /\ b.newest = (a.newest /\ ~asks)
        /\ a.step # "none" \/ k = None
    BY <1>9, PollQuietIs DEF WorkStep, k
  <2>2. b.newest => y.pending = None
    <3> HAVE b.newest
    <3>1. a.newest /\ ~asks /\ x.pending = None
      BY <1>1, <2>1 DEF ActionFits
    <3>2. a.step # "none"
      BY <1>1, <3>1 DEF LifeFits, NoAction
    <3>3. ~again
      BY <3>2 DEF Rearms
    <3> QED
      BY <2>1, <3>1, <3>3, QuietValues DEF k
  <2>3. Working(b) /\ ~y.cancelled /\ ~b.stopped =>
          b.newest /\ b.key = y.debt.key /\ y.monitor.state = "idle"
    <3> HAVE Working(b) /\ ~y.cancelled /\ ~b.stopped
    <3>1. Working(a) /\ ~x.cancelled /\ ~a.stopped
      BY <2>1 DEF Working
    <3>2. a.newest /\ a.key = x.debt.key /\ x.monitor.state = "idle"
      BY <1>1, <3>1 DEF ActionFits
    <3>3. ~asks /\ ~again
      BY <3>1, <3>2 DEF Triggers, Rearms, Working
    <3>4. y.debt = x.debt /\ y.monitor = x.monitor
      BY <1>6, <3>2, <3>3
    <3> QED
      BY <2>1, <3>2, <3>3, <3>4
  <2>4. Working(b) => b.key # None
    BY <1>1, <2>1 DEF ActionFits, Working
  <2>5. ActionFits(y, b)
    BY <1>5, <1>7, <1>10, <2>1, <2>2, <2>3, <2>4 DEF ActionFits
  <2> QED
    BY <1>3, <1>4, <2>5, WorkMoves, PollQuietIs
<1> QED
  BY <1>8, <1>9

\* The loop ends: the watcher stops, and its action is told to.
LEMMA StopIs ==
  ASSUME ShapeInv, NEW w \in Watchers, SelfStop(w) \/ StopCancelled(w)
  PROVE  /\ WorkStep(w) /\ UNCHANGED <<history, slotVars>>
         /\ watcher[w].life = "polling" /\ watcher'[w].life = "stopping"
         /\ watcher'[w].monitor = watcher[w].monitor
         /\ watcher'[w].debt = watcher[w].debt
         /\ watcher'[w].pending = watcher[w].pending
         /\ action'[w] = StopAction(action[w])
<1>1. watcher[w] \in WatcherType /\ action[w] \in ActionType
  BY WatcherHere
<1>2. StopAction(action[w]) \in ActionType
  BY <1>1, StopActionTyped
<1>3. action' = [action EXCEPT ![w] = StopAction(action[w])]
  BY DEF SelfStop, StopCancelled
<1>4. /\ action' \in [Watchers -> ActionType] /\ action'[w] = StopAction(action[w])
      /\ \A v \in Watchers \ {w} : action'[v] = action[v]
  BY <1>2, <1>3, ActionSet
<1>5. stops' \in 0..MaxStops
  BY AutoSleepAssumption DEF SelfStop, StopCancelled, ShapeInv, TypeOK
<1>6. /\ watcher' \in [Watchers -> WatcherType]
      /\ \A v \in Watchers \ {w} : watcher'[v] = watcher[v]
      /\ watcher[w].life = "polling" /\ watcher'[w].life = "stopping"
      /\ watcher'[w].cancelled = watcher[w].cancelled
      /\ watcher'[w].watched = watcher[w].watched
      /\ watcher'[w].monitor = watcher[w].monitor
      /\ watcher'[w].debt = watcher[w].debt
      /\ watcher'[w].pending = watcher[w].pending
  BY <1>1 DEF SelfStop, StopCancelled, ShapeInv, TypeOK, WatcherType
<1> QED
  BY <1>4, <1>5, <1>6
     DEF WorkStep, SelfStop, StopCancelled, slotVars, history, ShapeInv, TypeOK

LEMMA StopShape ==
  ASSUME ShapeInv, NEW w \in Watchers, SelfStop(w) \/ StopCancelled(w)
  PROVE  ShapeInv'
<1>1. /\ watcher[w] \in WatcherType /\ action[w] \in ActionType
      /\ LifeFits(watcher[w], action[w], current = w)
      /\ ActionFits(watcher[w], action[w]) /\ SeenUp(watcher[w])
  BY WatcherHere
<1>2. /\ action'[w].step = action[w].step /\ action'[w].key = action[w].key
      /\ action'[w].newest = action[w].newest
      /\ action[w].step # "none" => action'[w].stopped
      /\ action[w].step = "none" => action'[w] = action[w]
  BY <1>1, StopIs, StopActionTyped
<1>3. LifeFits(watcher'[w], action'[w], current = w)
  BY <1>1, <1>2, StopIs DEF LifeFits, WorkStep
<1>4. ActionFits(watcher'[w], action'[w])
  BY <1>1, <1>2, StopIs DEF ActionFits, WorkStep, Working
<1> QED
  BY <1>1, <1>3, <1>4, StopIs, WorkMoves DEF SeenUp

\* The action is joined, by the loop or as the watcher exits.
LEMMA JoinIs ==
  ASSUME ShapeInv, NEW w \in Watchers, MarkExited(w) \/ JoinAction(w)
  PROVE  /\ WorkStep(w) /\ UNCHANGED <<history, slotVars>>
         /\ watcher'[w].monitor = watcher[w].monitor
         /\ watcher'[w].debt = watcher[w].debt
         /\ action[w].step \in {"none", "finished"}
         /\ action'[w] = NoAction
         /\ MarkExited(w) => watcher'[w].life = "exited" /\ watcher'[w].pending = None
                             /\ watcher[w].life = "stopping"
         /\ JoinAction(w) => watcher'[w].life = "polling" /\ watcher'[w] = watcher[w]
<1>1. watcher[w] \in WatcherType /\ NoAction \in ActionType
  BY WatcherHere, UnusedTyped
<1>2. /\ action' \in [Watchers -> ActionType] /\ action'[w] = NoAction
      /\ \A v \in Watchers \ {w} : action'[v] = action[v]
  BY <1>1, ActionSet DEF MarkExited, JoinAction
<1>3. CASE MarkExited(w)
  <2>1. /\ watcher' \in [Watchers -> WatcherType]
        /\ \A v \in Watchers \ {w} : watcher'[v] = watcher[v]
        /\ watcher'[w].life = "exited" /\ watcher'[w].pending = None
        /\ watcher'[w].cancelled = watcher[w].cancelled
        /\ watcher'[w].watched = watcher[w].watched
        /\ watcher'[w].monitor = watcher[w].monitor
        /\ watcher'[w].debt = watcher[w].debt
    BY <1>1, <1>3 DEF MarkExited, ShapeInv, TypeOK, WatcherType, Keys
  <2> QED
    BY <1>2, <1>3, <2>1
       DEF WorkStep, MarkExited, JoinAction, slotVars, history, ShapeInv, TypeOK
<1>4. CASE JoinAction(w)
  BY <1>2, <1>4 DEF WorkStep, MarkExited, JoinAction, slotVars, history, watcherVars,
                    ShapeInv, TypeOK
<1> QED
  BY <1>3, <1>4

LEMMA JoinShape ==
  ASSUME ShapeInv, NEW w \in Watchers, MarkExited(w) \/ JoinAction(w)
  PROVE  ShapeInv'
<1>1. /\ LifeFits(watcher[w], action[w], current = w)
      /\ ActionFits(watcher[w], action[w]) /\ SeenUp(watcher[w])
  BY WatcherHere
<1>2. LifeFits(watcher'[w], action'[w], current = w)
  <2>1. /\ action'[w] = NoAction /\ action'[w].step = "none"
        /\ watcher'[w].watched = watcher[w].watched
        /\ watcher'[w].cancelled = watcher[w].cancelled
    <3>1. action'[w] = NoAction /\ WorkStep(w)
      BY JoinIs
    <3>2. NoAction.step = "none"
      BY DEF NoAction
    <3> QED
      BY <3>1, <3>2 DEF WorkStep
  <2>2. CASE MarkExited(w)
    BY <1>1, <2>1, <2>2, JoinIs DEF LifeFits
  <2>3. CASE JoinAction(w)
    BY <1>1, <2>1, <2>3, JoinIs DEF LifeFits
  <2> QED
    BY <2>2, <2>3
<1>3. ActionFits(watcher'[w], action'[w])
  BY <1>1, JoinIs DEF ActionFits, WorkStep, Working, NoAction
<1> QED
  BY <1>1, <1>2, <1>3, JoinIs, WorkMoves DEF SeenUp

\* An action goes from one step to the next, and may settle its session.
Advances(w, step) ==
  /\ WorkStep(w) /\ watcher' = watcher
  /\ action'[w].step = step /\ action'[w].key = action[w].key
  /\ action'[w].covers = action[w].covers /\ action'[w].newest = action[w].newest
  /\ action'[w].stopped = action[w].stopped

LEMMA AdvanceIs ==
  ASSUME ShapeInv, NEW w \in Watchers,
         NEW step \in {"slot", "scanning", "powering", "returned", "finished"},
         NEW settled \in BOOLEAN,
         action' = [action EXCEPT ![w].step = step, ![w].settled = settled],
         UNCHANGED <<processVars, appVars, settingsVars, rebuildVars, watcherVars,
                     shuttingDown, stopped>>,
         slot' \in {slot, w, None}, settledSession' \in {settledSession, action[w].key},
         due' \subseteq due, slept' \subseteq Sessions, lost' \subseteq Sessions
  PROVE  Advances(w, step) /\ action'[w].settled = settled
<1>1. action[w] \in ActionType
  BY WatcherHere
<1>2. /\ action' \in [Watchers -> ActionType]
      /\ \A v \in Watchers \ {w} : action'[v] = action[v]
      /\ action'[w].step = step /\ action'[w].key = action[w].key
      /\ action'[w].covers = action[w].covers /\ action'[w].newest = action[w].newest
      /\ action'[w].stopped = action[w].stopped /\ action'[w].settled = settled
  BY <1>1 DEF ShapeInv, TypeOK, ActionType
<1>3. action[w].key \in Keys
  BY <1>1, ActionFields
<1>4. /\ slot' \in Watchers \cup {None} /\ settledSession' \in Keys
      /\ due' \subseteq Sessions
  BY <1>3 DEF ShapeInv, TypeOK
<1> QED
  BY <1>2, <1>4 DEF Advances, WorkStep, watcherVars, ShapeInv, TypeOK

LEMMA AdvanceShape ==
  ASSUME ShapeInv, NEW w \in Watchers,
         NEW step \in {"slot", "scanning", "powering", "returned", "finished"},
         Advances(w, step), action[w].step # "none",
         step \in {"slot", "scanning", "powering"} => Working(action[w])
  PROVE  ShapeInv'
<1>1. /\ LifeFits(watcher[w], action[w], current = w)
      /\ ActionFits(watcher[w], action[w]) /\ SeenUp(watcher[w])
  BY WatcherHere
<1>2. LifeFits(watcher'[w], action'[w], current = w)
  BY <1>1 DEF Advances, LifeFits
<1>3. ActionFits(watcher'[w], action'[w])
  BY <1>1 DEF Advances, ActionFits, Working
<1> QED
  BY <1>1, <1>2, <1>3, WorkMoves DEF Advances, SeenUp

\* The steps of an action but its last.
LEMMA GiveUpIs ==
  ASSUME ShapeInv, NEW w \in Watchers, GiveUp(w)
  PROVE  /\ Advances(w, "returned") /\ UNCHANGED <<history, slotVars>>
         /\ action[w].step = "slot" /\ action'[w].settled = FALSE
BY AdvanceIs DEF GiveUp, Returns, slotVars, history, ShapeInv, TypeOK

LEMMA DeduplicateIs ==
  ASSUME ShapeInv, NEW w \in Watchers, Deduplicate(w)
  PROVE  /\ Advances(w, "returned") /\ UNCHANGED slotVars /\ slept' = slept
         /\ action[w].step = "slot" /\ action'[w].settled = TRUE
         /\ settledSession = action[w].key /\ slot = None /\ ~Stopped(w)
         /\ due' = due \ action[w].covers
BY AdvanceIs DEF Deduplicate, MayAct, Returns, slotVars, history, ShapeInv, TypeOK

LEMMA StartScanIs ==
  ASSUME ShapeInv, NEW w \in Watchers, StartScan(w)
  PROVE  /\ Advances(w, "scanning") /\ UNCHANGED history
         /\ settledSession' = settledSession
         /\ action[w].step = "slot" /\ action'[w].settled = action[w].settled
         /\ settledSession # action[w].key /\ slot = None /\ slot' = w /\ ~Stopped(w)
<1>1. action[w] \in ActionType /\ action[w].settled \in BOOLEAN
  BY WatcherHere, ActionFields
<1>2. action' = [action EXCEPT ![w].step = "scanning", ![w].settled = action[w].settled]
  BY <1>1 DEF StartScan, ActionStep, ShapeInv, TypeOK, ActionType
<1> QED
  BY <1>1, <1>2, AdvanceIs DEF StartScan, MayAct, history, ShapeInv, TypeOK

LEMMA ScanReturnsIs ==
  ASSUME ShapeInv, NEW w \in Watchers, ScanReturns(w)
  PROVE  /\ Advances(w, "powering") /\ UNCHANGED <<history, slotVars>>
         /\ action[w].step = "scanning" /\ action'[w].settled = action[w].settled
         /\ ~Stopped(w)
<1>1. action[w] \in ActionType /\ action[w].settled \in BOOLEAN
  BY WatcherHere, ActionFields
<1>2. action' = [action EXCEPT ![w].step = "powering", ![w].settled = action[w].settled]
  BY <1>1 DEF ScanReturns, ActionStep, ShapeInv, TypeOK, ActionType
<1> QED
  BY <1>1, <1>2, AdvanceIs DEF ScanReturns, slotVars, history, ShapeInv, TypeOK

LEMMA ConcludeIs ==
  ASSUME ShapeInv, NEW w \in Watchers,
         ScanEnds(w) \/ \E settled \in BOOLEAN : PowerReturns(w, settled)
  PROVE  /\ Advances(w, "returned") /\ slot' = None
         /\ action[w].step \in {"scanning", "powering"}
         /\ \/ action'[w].settled = FALSE /\ UNCHANGED <<settledSession, history>>
            \/ /\ action'[w].settled = TRUE
               /\ settledSession' = action[w].key
               /\ slept' = slept \cup {action[w].key}
               /\ due' = due \ action[w].covers
<1>1. PICK settled \in BOOLEAN :
        Conclude(w, settled) /\ action[w].step \in {"scanning", "powering"}
  BY DEF ScanEnds, PowerReturns
<1>2. action[w].key \in Sessions
  <2>1. Working(action[w]) /\ action[w] \in ActionType /\ ActionFits(watcher[w], action[w])
    BY <1>1, WatcherHere DEF Working
  <2> QED
    BY <2>1, ActionFields DEF ActionFits, Keys
<1>3. slept' \subseteq Sessions /\ due' \subseteq due /\ lost' \subseteq Sessions
      /\ settledSession' \in {settledSession, action[w].key}
  BY <1>1, <1>2 DEF Conclude, history, ShapeInv, TypeOK
<1> QED
  BY <1>1, <1>3, AdvanceIs DEF Conclude, Returns, history

LEMMA ActionShape ==
  ASSUME ShapeInv, NEW w \in Watchers,
         \/ GiveUp(w) \/ Deduplicate(w) \/ StartScan(w) \/ ScanEnds(w)
         \/ ScanReturns(w)
         \/ \E settled \in BOOLEAN : PowerReturns(w, settled)
  PROVE  ShapeInv'
<1>1. CASE GiveUp(w)
  BY <1>1, GiveUpIs, AdvanceShape
<1>2. CASE Deduplicate(w)
  BY <1>2, DeduplicateIs, AdvanceShape
<1>3. CASE StartScan(w)
  BY <1>3, StartScanIs, AdvanceShape DEF Working
<1>4. CASE ScanReturns(w)
  BY <1>4, ScanReturnsIs, AdvanceShape DEF Working
<1>5. CASE ScanEnds(w) \/ \E settled \in BOOLEAN : PowerReturns(w, settled)
  BY <1>5, ConcludeIs, AdvanceShape
<1> QED
  BY <1>1, <1>2, <1>3, <1>4, <1>5

\* The last one: the debt of an action that settled it is cleared.
LEMMA FinishIs ==
  ASSUME ShapeInv, NEW w \in Watchers, FinishTrigger(w)
  PROVE  /\ WorkStep(w) /\ UNCHANGED <<history, slotVars>>
         /\ action[w].step = "returned" /\ action'[w].step = "finished"
         /\ action'[w].newest = FALSE /\ action'[w].key = action[w].key
         /\ action'[w].stopped = action[w].stopped
         /\ watcher'[w].life = watcher[w].life
         /\ watcher'[w].monitor = watcher[w].monitor
         /\ watcher'[w].pending = watcher[w].pending
         /\ watcher'[w].debt = IF action[w].newest /\ action[w].settled THEN NoDebt
                               ELSE watcher[w].debt
<1>1. /\ watcher[w] \in WatcherType /\ action[w] \in ActionType
      /\ watcher[w].debt \in DebtOf(Sessions)
  BY WatcherHere, WatcherFields
<1> DEFINE d == IF action[w].newest /\ action[w].settled THEN NoDebt ELSE watcher[w].debt
<1>2. d \in DebtOf(Sessions)
  BY <1>1, DebtTyped
<1>3. watcher' = [watcher EXCEPT ![w].debt = d]
  BY DEF FinishTrigger
<1> HIDE DEF d
<1>4. /\ watcher' \in [Watchers -> WatcherType]
      /\ \A v \in Watchers \ {w} : watcher'[v] = watcher[v]
      /\ watcher'[w].watched = watcher[w].watched
      /\ watcher'[w].cancelled = watcher[w].cancelled
      /\ watcher'[w].life = watcher[w].life
      /\ watcher'[w].monitor = watcher[w].monitor
      /\ watcher'[w].pending = watcher[w].pending
      /\ watcher'[w].debt = d
  BY <1>1, <1>2, <1>3 DEF ShapeInv, TypeOK, WatcherType
<1>5. /\ action' \in [Watchers -> ActionType]
      /\ \A v \in Watchers \ {w} : action'[v] = action[v]
      /\ action'[w].step = "finished" /\ action'[w].newest = FALSE
      /\ action'[w].key = action[w].key /\ action'[w].stopped = action[w].stopped
  BY <1>1 DEF FinishTrigger, ShapeInv, TypeOK, ActionType
<1> QED
  BY <1>4, <1>5 DEF FinishTrigger, WorkStep, slotVars, history, ShapeInv, TypeOK, d

LEMMA FinishShape ==
  ASSUME ShapeInv, NEW w \in Watchers, FinishTrigger(w)
  PROVE  ShapeInv'
<1>1. /\ LifeFits(watcher[w], action[w], current = w)
      /\ ActionFits(watcher[w], action[w]) /\ SeenUp(watcher[w])
  BY WatcherHere
<1>2. LifeFits(watcher'[w], action'[w], current = w)
  BY <1>1, FinishIs DEF LifeFits, WorkStep
<1>3. ActionFits(watcher'[w], action'[w])
  <2>1. CASE action[w].newest /\ action[w].settled
    <3>1. watcher'[w].debt = NoDebt /\ watcher'[w].pending = None
      BY <1>1, <2>1, FinishIs DEF ActionFits
    <3>2. ~NoDebt.carried /\ NoDebt.key = None
      BY DEF NoDebt
    <3> QED
      BY <3>1, <3>2, FinishIs DEF ActionFits, OwnsLast, Working
  <2>2. CASE ~(action[w].newest /\ action[w].settled)
    BY <1>1, <2>2, FinishIs DEF ActionFits, Working
  <2> QED
    BY <2>1, <2>2
<1> QED
  BY <1>1, <1>2, <1>3, FinishIs, WorkMoves DEF SeenUp

\* No step of a watcher or of its action disturbs the invariant.
LEMMA WorkShape ==
  ASSUME ShapeInv, NEW w \in Watchers, WatcherNext(w) \/ ActionNext(w)
  PROVE  ShapeInv'
<1>1. CASE PollRunning(w) \/ \E elapsed \in BOOLEAN : PollQuiet(w, elapsed)
  BY <1>1, PollRunningShape, PollQuietShape
<1>2. CASE SelfStop(w) \/ StopCancelled(w) \/ MarkExited(w) \/ JoinAction(w)
  BY <1>2, StopShape, JoinShape
<1>3. CASE ActionNext(w)
  BY <1>3, ActionShape, FinishShape DEF ActionNext
<1> QED
  BY <1>1, <1>2, <1>3 DEF WatcherNext

-----------------------------------------------------------------------------
(* Steps of the processes, of a settings call, of a rebuild and of the     *)
(* shutdown.                                                               *)

\* The watchers and their actions stand as they did.
LEMMA WatchersStay ==
  ASSUME ShapeInv, UNCHANGED <<watcher, action>>,
         \A t \in Targets : session[t] > 0 => session'[t] > 0,
         current' = current
  PROVE  WatcherShape'
BY DEF WatcherShape, SeenUp, ShapeInv

LEMMA LaunchShape ==
  ASSUME ShapeInv, NEW t \in Targets, Launch(t)
  PROVE  ShapeInv'
<1>1. /\ running' \in [Targets -> BOOLEAN] /\ launches' \in 0..MaxLaunches
      /\ session' \in [Targets -> 0..MaxLaunches]
      /\ \A u \in Targets :
           /\ session[u] > 0 => session'[u] > 0
           /\ session'[u] <= launches' /\ (running'[u] => session'[u] > 0)
  BY AutoSleepAssumption DEF Launch, ShapeInv, TypeOK, Counts
<1>2. TypeOK'
  BY <1>1 DEF Launch, ShapeInv, TypeOK, appVars, settingsVars, rebuildVars, callbackVars,
              watcherVars, slotVars, history
<1>3. WatcherShape'
  BY <1>1, WatchersStay DEF Launch, appVars, watcherVars
<1>4. ApplyShape' /\ SelfStopShape' /\ Counts' /\ StillOn' /\ Ended'
  BY <1>1 DEF Launch, ShapeInv, ApplyShape, SelfStopShape, Counts, StillOn, Ended,
              SettingsFree, appVars, settingsVars, rebuildVars, callbackVars, watcherVars
<1> QED
  BY <1>2, <1>3, <1>4 DEF ShapeInv

LEMMA QuitShape ==
  ASSUME ShapeInv, NEW t \in Targets, Quit(t)
  PROVE  ShapeInv'
<1>1. running' \in [Targets -> BOOLEAN] /\ \A u \in Targets : running'[u] => running[u]
  BY DEF Quit, ShapeInv, TypeOK
<1>2. TypeOK'
  BY <1>1 DEF Quit, ShapeInv, TypeOK, appVars, settingsVars, rebuildVars, callbackVars,
              watcherVars, slotVars, history
<1>3. WatcherShape'
  BY WatchersStay DEF Quit, appVars, watcherVars
<1>4. ApplyShape' /\ SelfStopShape' /\ Counts' /\ StillOn' /\ Ended'
  BY <1>1 DEF Quit, ShapeInv, ApplyShape, SelfStopShape, Counts, StillOn, Ended,
              SettingsFree, appVars, settingsVars, rebuildVars, callbackVars, watcherVars
<1> QED
  BY <1>2, <1>3, <1>4 DEF ShapeInv

LEMMA ApplyFields ==
  ASSUME NEW p \in ApplyType
  PROVE  /\ p.step \in {"idle", "match", "apply", "snapshot", "seed", "build"}
         /\ p.changed \in BOOLEAN /\ p.saved \in BOOLEAN /\ p.rebuild \in BOOLEAN
         /\ p.monitor \in MonitorOf(Sessions) \cup {None} /\ p.seed \in Keys
BY DEF ApplyType, ApplySteps

\* A settings call begins: one of the settings itself, or a rebuild.
LEMMA BeginsTyped ==
  ASSUME NEW changed \in BOOLEAN, NEW saved \in BOOLEAN, NEW rebuild \in BOOLEAN
  PROVE  [step |-> "match", changed |-> changed, saved |-> saved, rebuild |-> rebuild,
          monitor |-> None, seed |-> None] \in ApplyType
BY DEF ApplyType, Keys

\* The settings call is not in the steps that hold autoSleepMutex.
LEMMA OutsideSteps ==
  ASSUME ShapeInv, AppFree
  PROVE  apply.monitor = None /\ apply.seed = None
BY DEF ShapeInv, ApplyShape, AppFree, ApplySteps

LEMMA SettingsShape ==
  ASSUME ShapeInv, NEW settings \in Targets \cup {None},
         \/ \E newDelay \in BOOLEAN : Save(settings, newDelay)
         \/ SaveFails(settings)
  PROVE  ShapeInv'
<1>1. PICK changed \in BOOLEAN, saved \in BOOLEAN :
        apply' = [step |-> "match", changed |-> changed, saved |-> saved,
                  rebuild |-> FALSE, monitor |-> None, seed |-> None]
  <2>1. CASE \E newDelay \in BOOLEAN : Save(settings, newDelay)
    <3>1. PICK newDelay \in BOOLEAN : Save(settings, newDelay)
      BY <2>1
    <3>2. (newDelay \/ settings # config) \in BOOLEAN
      OBVIOUS
    <3>3. apply' = [step |-> "match", changed |-> newDelay \/ settings # config,
                    saved |-> TRUE, rebuild |-> FALSE, monitor |-> None, seed |-> None]
      BY <3>1 DEF Save, NoApply
    <3> QED
      BY <3>2, <3>3
  <2>2. CASE SaveFails(settings)
    BY <2>2 DEF SaveFails, NoApply
  <2> QED
    BY <2>1, <2>2
<1>2. /\ apply' \in ApplyType /\ apply'.step = "match" /\ ~apply'.rebuild
      /\ apply'.monitor = None /\ apply'.seed = None
  BY <1>1, BeginsTyped
<1>3. /\ UNCHANGED <<processVars, appVars, rebuildVars, watcherVars, action, slotVars,
                     shuttingDown, stopped, history>>
      /\ saves' \in 0..MaxSaves /\ config' \in Targets \cup {None}
      /\ apply.step = "idle"
  <2>1. MaxSaves \in Nat /\ saves \in 0..MaxSaves
    BY AutoSleepAssumption DEF ShapeInv, TypeOK
  <2>2. saves < MaxSaves /\ saves' = saves + 1 /\ config' = settings
    BY DEF Save, SaveFails
  <2>3. CASE SaveFails(settings)
    BY <2>1, <2>2, <2>3 DEF SaveFails, SettingsFree
  <2>4. CASE \E newDelay \in BOOLEAN : Save(settings, newDelay)
    <3>1. PICK newDelay \in BOOLEAN : Save(settings, newDelay)
      BY <2>4
    <3>2. /\ UNCHANGED <<processVars, appVars, rebuildVars, watcherVars, action, slotVars,
                         shuttingDown, stopped, history>>
          /\ apply.step = "idle"
      BY <3>1, Zenon DEF Save, SettingsFree
    <3> QED
      BY <2>1, <2>2, <3>2
  <2> QED
    BY <2>3, <2>4
<1>4. TypeOK'
  BY <1>2, <1>3 DEF ShapeInv, TypeOK, processVars, appVars, rebuildVars, callbackVars,
                    watcherVars, slotVars, history
<1>5. WatcherShape'
  BY <1>3, WatchersStay DEF processVars, appVars, watcherVars
<1>6. ApplyShape' /\ SelfStopShape' /\ Counts' /\ StillOn' /\ Ended'
  BY <1>2, <1>3 DEF ShapeInv, ApplyShape, SelfStopShape, Counts, StillOn, Ended,
       SettingsFree, processVars, appVars, rebuildVars, callbackVars, watcherVars
<1> QED
  BY <1>4, <1>5, <1>6 DEF ShapeInv

\* The settings call returns: what is said of it then.
LEMMA EndIs ==
  ASSUME ShapeInv, EndApply
  PROVE  /\ apply' \in ApplyType /\ apply'.step = "idle" /\ ~apply'.rebuild
         /\ apply'.monitor = None /\ apply'.seed = None
         /\ rechecking' \in 0..MaxRebuilds
         /\ rebuilding + rechecking' <= MaxRebuilds
<1>1. apply' \in ApplyType /\ apply' = NoApply /\ NoApply.step = "idle" /\ ~NoApply.rebuild
      /\ NoApply.monitor = None /\ NoApply.seed = None
  BY UnusedTyped DEF EndApply, NoApply
<1>2. /\ rebuilding \in Nat /\ rechecking \in Nat /\ MaxRebuilds \in Nat
      /\ apply.rebuild \in BOOLEAN
      /\ rebuilding + rechecking + (IF apply.rebuild THEN 1 ELSE 0) <= MaxRebuilds
  BY AutoSleepAssumption, ApplyFields DEF ShapeInv, TypeOK, Counts
<1>3. rechecking' = rechecking \/ (apply.rebuild /\ rechecking' = rechecking + 1)
  BY DEF EndApply
<1> QED
  BY <1>1, <1>2, <1>3

LEMMA MatchShape ==
  ASSUME ShapeInv, SettingsMatch
  PROVE  ShapeInv'
<1>1. UNCHANGED <<processVars, appVars, config, saves, cleared, reporting, rebuilding,
                  watcherVars, action, slotVars, shuttingDown, stopped, history>>
      /\ apply.step = "match" /\ apply \in ApplyType
  BY DEF SettingsMatch, ShapeInv, TypeOK
<1>2. WatcherShape'
  BY <1>1, WatchersStay DEF processVars, appVars, watcherVars
<1>3. CASE ~apply.changed /\ Matches /\ EndApply
  <2>1. config # None /\ ~shuttingDown => current # None
    BY <1>3 DEF Matches
  <2>2. TypeOK'
    BY <1>1, <1>3, EndIs DEF ShapeInv, TypeOK, processVars, appVars, watcherVars, slotVars,
                             history
  <2>3. ApplyShape' /\ SelfStopShape' /\ Counts' /\ StillOn' /\ Ended'
    BY <1>1, <1>3, <2>1, EndIs DEF ShapeInv, TypeOK, ApplyShape, SelfStopShape, Counts,
         StillOn, Ended, SettingsFree, processVars, appVars, watcherVars
  <2> QED
    BY <1>2, <2>2, <2>3 DEF ShapeInv
<1>4. CASE apply' = [apply EXCEPT !.step = "apply"] /\ UNCHANGED rechecking
  <2>1. /\ apply' \in ApplyType /\ apply'.step = "apply"
        /\ apply'.rebuild = apply.rebuild /\ apply'.monitor = apply.monitor
        /\ apply'.seed = apply.seed
    BY <1>1, <1>4 DEF ApplyType, ApplySteps
  <2>2. TypeOK'
    BY <1>1, <1>4, <2>1 DEF ShapeInv, TypeOK, processVars, appVars, watcherVars, slotVars,
                            history
  <2>3. ApplyShape' /\ SelfStopShape' /\ Counts' /\ StillOn' /\ Ended'
    BY <1>1, <1>4, <2>1 DEF ShapeInv, TypeOK, ApplyShape, SelfStopShape, Counts, StillOn,
         Ended, SettingsFree, processVars, appVars, watcherVars
  <2> QED
    BY <1>2, <2>2, <2>3 DEF ShapeInv
<1> QED
  BY <1>3, <1>4 DEF SettingsMatch

\* A watcher is cancelled, and stays where it is.
LEMMA CancelIs ==
  ASSUME ShapeInv, NEW w \in Watchers,
         watcher' = [watcher EXCEPT ![w].cancelled = TRUE]
  PROVE  /\ watcher' \in [Watchers -> WatcherType]
         /\ \A v \in Watchers \ {w} : watcher'[v] = watcher[v]
         /\ watcher'[w].cancelled = TRUE
         /\ watcher'[w].life = watcher[w].life /\ watcher'[w].failed = watcher[w].failed
         /\ watcher'[w].watched = watcher[w].watched
         /\ watcher'[w].monitor = watcher[w].monitor
         /\ watcher'[w].debt = watcher[w].debt
         /\ watcher'[w].pending = watcher[w].pending
<1>1. watcher[w] \in WatcherType
  BY WatcherHere
<1> QED
  BY <1>1 DEF ShapeInv, TypeOK, WatcherType

\* ... which fits, whether it stays the current one or is detached.
LEMMA CancelShape ==
  ASSUME ShapeInv, NEW w \in Watchers, current = w, current' \in {w, None},
         watcher' = [watcher EXCEPT ![w].cancelled = TRUE],
         UNCHANGED <<action, session>>
  PROVE  WatcherShape'
<1>1. SUFFICES ASSUME NEW v \in Watchers
               PROVE  /\ LifeFits(watcher'[v], action'[v], current' = v)
                      /\ ActionFits(watcher'[v], action'[v])
                      /\ SeenUp(watcher[v])'
  BY DEF WatcherShape
<1>2. /\ LifeFits(watcher[v], action[v], current = v)
      /\ ActionFits(watcher[v], action[v]) /\ SeenUp(watcher[v])
  BY WatcherHere
<1>3. CASE v = w
  BY <1>2, <1>3, CancelIs DEF LifeFits, ActionFits, SeenUp
<1>4. CASE v # w
  <2>1. watcher'[v] = watcher[v] /\ current' # v /\ current # v
    BY <1>4, CancelIs, NoneApart
  <2> QED
    BY <1>2, <2>1 DEF LifeFits, ActionFits, SeenUp
<1> QED
  BY <1>3, <1>4

LEMMA ApplyCancelIs ==
  ASSUME ShapeInv, ApplyCancel
  PROVE  /\ UNCHANGED <<processVars, current, selfStop, failures, config, saves,
                        rebuildVars, action, slotVars, shuttingDown, stopped, history,
                        stops>>
         /\ timer' = FALSE /\ apply.step = "apply"
         /\ apply.monitor = None /\ apply.seed = None
         /\ apply' \in ApplyType /\ apply'.rebuild = apply.rebuild
         /\ apply'.monitor = None /\ apply'.seed = None
         /\ watcher' \in [Watchers -> WatcherType]
         /\ current = None => apply'.step = "build" /\ watcher' = watcher
         /\ current # None =>
              /\ apply'.step = "snapshot" /\ current \in Watchers
              /\ watcher' = [watcher EXCEPT ![current].cancelled = TRUE]
              /\ watcher'[current].cancelled
<1>1. /\ apply.step = "apply" /\ apply \in ApplyType
      /\ apply.monitor = None /\ apply.seed = None
  BY DEF ApplyCancel, ShapeInv, TypeOK, ApplyShape
<1>2. CASE current = None
  <2>1. apply' = [apply EXCEPT !.step = "build"] /\ watcher' = watcher
    BY <1>2 DEF ApplyCancel
  <2>2. /\ apply' \in ApplyType /\ apply'.rebuild = apply.rebuild /\ apply'.step = "build"
        /\ apply'.monitor = None /\ apply'.seed = None
    BY <1>1, <2>1 DEF ApplyType, ApplySteps
  <2> QED
    BY <1>1, <1>2, <2>1, <2>2 DEF ApplyCancel, ShapeInv, TypeOK
<1>3. CASE current # None
  <2>1. /\ apply' = [apply EXCEPT !.step = "snapshot"] /\ current \in Watchers
        /\ watcher' = [watcher EXCEPT ![current].cancelled = TRUE]
    BY <1>3 DEF ApplyCancel, ShapeInv, TypeOK
  <2>2. /\ apply' \in ApplyType /\ apply'.rebuild = apply.rebuild
        /\ apply'.step = "snapshot"
        /\ apply'.monitor = None /\ apply'.seed = None
    BY <1>1, <2>1 DEF ApplyType, ApplySteps
  <2>3. watcher' \in [Watchers -> WatcherType] /\ watcher'[current].cancelled
    BY <2>1, CancelIs
  <2> QED
    BY <1>1, <1>3, <2>1, <2>2, <2>3 DEF ApplyCancel
<1> QED
  BY <1>2, <1>3

LEMMA ApplyCancelShape ==
  ASSUME ShapeInv, ApplyCancel
  PROVE  ShapeInv'
<1>1. /\ UNCHANGED <<processVars, current, selfStop, failures, config, saves,
                     rebuildVars, action, slotVars, shuttingDown, stopped, history,
                     stops>>
      /\ timer' = FALSE /\ apply' \in ApplyType
      /\ watcher' \in [Watchers -> WatcherType]
      /\ apply'.rebuild = apply.rebuild
      /\ apply'.monitor = None /\ apply'.seed = None
      /\ apply'.step \in {"build", "snapshot"}
      /\ apply'.step = "build" => current = None
      /\ apply'.step = "snapshot" => current # None /\ watcher'[current].cancelled
  BY ApplyCancelIs
<1>2. TypeOK'
  BY <1>1 DEF ShapeInv, TypeOK, processVars, rebuildVars, callbackVars, slotVars, history
<1>3. WatcherShape'
  <2>1. CASE current = None
    BY <2>1, ApplyCancelIs, WatchersStay DEF processVars
  <2>2. CASE current # None
    BY <2>2, ApplyCancelIs, CancelShape DEF processVars
  <2> QED
    BY <2>1, <2>2
<1>4. ApplyShape' /\ SelfStopShape' /\ Counts' /\ StillOn' /\ Ended'
  BY <1>1 DEF ShapeInv, ApplyShape, SelfStopShape, Counts, StillOn, Ended, SettingsFree,
              processVars, rebuildVars, callbackVars
<1> QED
  BY <1>2, <1>3, <1>4 DEF ShapeInv

\* A cancelled watcher that nobody refers to any more fits.
LEMMA DetachShape ==
  ASSUME ShapeInv, UNCHANGED <<watcher, action, session>>,
         current \in Watchers => watcher[current].cancelled,
         current' \in {current, None}
  PROVE  WatcherShape'
<1>1. SUFFICES ASSUME NEW v \in Watchers
               PROVE  /\ LifeFits(watcher[v], action[v], current' = v)
                      /\ ActionFits(watcher[v], action[v])
                      /\ SeenUp(watcher[v])'
  BY DEF WatcherShape
<1>2. /\ LifeFits(watcher[v], action[v], current = v)
      /\ ActionFits(watcher[v], action[v]) /\ SeenUp(watcher[v])
  BY WatcherHere
<1>3. current' = v => current = v
  BY NoneApart
<1>4. current = v => watcher[v].cancelled
  OBVIOUS
<1> QED
  BY <1>2, <1>3, <1>4 DEF LifeFits, SeenUp

\* The state of the replaced watcher is copied; an inherited debt is not yet.
LEMMA ReplacementTyped ==
  ASSUME NEW m \in MonitorOf(Sessions), NEW owed \in BOOLEAN
  PROVE  /\ Replacement(m, owed) \in MonitorOf(Sessions)
         /\ Replacement(m, owed).key = m.key
         /\ Replacement(m, owed).state = "running" => m.state = "running"
         /\ Replacement(m, owed).state =
              IF owed /\ m.key # None THEN "closed" ELSE m.state
<1>1. CASE owed /\ m.key # None
  <2>1. Replacement(m, owed) = NewMonitorContinuing(m.key) /\ m.key \in Sessions
    BY <1>1, MonitorFields DEF Replacement, Keys
  <2>2. /\ NewMonitorContinuing(m.key) \in MonitorOf(Sessions)
        /\ NewMonitorContinuing(m.key).key = m.key
        /\ NewMonitorContinuing(m.key).state = "closed"
    BY <2>1, NewMonitorTyped DEF NewMonitorContinuing
  <2> QED
    BY <1>1, <2>1, <2>2
<1>2. CASE ~(owed /\ m.key # None)
  BY <1>2 DEF Replacement
<1> QED
  BY <1>1, <1>2

LEMMA SnapshotIs ==
  ASSUME ShapeInv, ApplySnapshot
  PROVE  /\ UNCHANGED <<processVars, selfStop, timer, failures, config, saves,
                        rebuildVars, watcherVars, action, slotVars, shuttingDown,
                        stopped, slept, lost>>
         /\ apply.step = "snapshot" /\ current \in Watchers /\ watcher[current].cancelled
         /\ apply.monitor = None /\ apply.seed = None
         /\ apply' \in ApplyType /\ apply'.rebuild = apply.rebuild
         /\ current' \in {current, None} /\ due' \subseteq due
         /\ LET old == watcher[current]
            IN \/ /\ old.watched = config /\ due' = due /\ apply'.seed = None
                  /\ apply'.monitor = Replacement(old.monitor, old.debt.key # None)
                  /\ apply'.monitor \in MonitorOf(Sessions)
                  /\ IF old.debt.carried /\ old.debt.key # None
                       THEN apply'.step = "seed" /\ current' = current
                       ELSE apply'.step = "build" /\ current' = None
               \/ /\ old.watched # config /\ SnapshotNewTarget
                  /\ apply'.step = "build" /\ current' = None
                  /\ apply'.seed = old.debt.key
                  /\ apply'.monitor =
                       IF old.debt.key = None THEN None
                       ELSE NewMonitorContinuing(old.debt.key)
<1>1. /\ apply.step = "snapshot" /\ apply \in ApplyType
      /\ apply.monitor = None /\ apply.seed = None
      /\ current \in Watchers /\ watcher[current].cancelled
  BY DEF ApplySnapshot, ShapeInv, TypeOK, ApplyShape
<1> DEFINE old == watcher[current]
<1>2. /\ old \in WatcherType /\ old.monitor \in MonitorOf(Sessions)
      /\ old.debt \in DebtOf(Sessions) /\ old.debt.key \in Keys
  BY <1>1, WatcherHere, WatcherFields, DebtTyped
<1>3. CASE SnapshotSameTarget
  <2> DEFINE m == Replacement(old.monitor, old.debt.key # None)
             s == IF old.debt.carried /\ old.debt.key # None THEN "seed" ELSE "build"
  <2>1. m \in MonitorOf(Sessions) /\ s \in {"seed", "build"}
    BY <1>2, ReplacementTyped
  <2>2. apply' = [apply EXCEPT !.monitor = m, !.step = s]
    BY <1>3 DEF SnapshotSameTarget
  <2> HIDE DEF m, s
  <2>3. /\ apply' \in ApplyType /\ apply'.rebuild = apply.rebuild
        /\ apply'.monitor = m /\ apply'.seed = None /\ apply'.step = s
    BY <1>1, <2>1, <2>2 DEF ApplyType, ApplySteps
  <2>4. old.watched = config /\ due' = due
    BY <1>3 DEF SnapshotSameTarget
  <2>5. IF old.debt.carried /\ old.debt.key # None THEN s = "seed" /\ current' = current
                                                   ELSE s = "build" /\ current' = None
    BY <1>3 DEF SnapshotSameTarget, s
  <2> QED
    BY <1>1, <2>1, <2>3, <2>4, <2>5 DEF ApplySnapshot, m
<1>4. CASE SnapshotNewTarget
  <2> DEFINE m == IF old.debt.key = None THEN None ELSE NewMonitorContinuing(old.debt.key)
  <2>1. m \in MonitorOf(Sessions) \cup {None}
    BY <1>2, NewMonitorTyped DEF Keys
  <2>2. apply' = [apply EXCEPT !.step = "build", !.seed = old.debt.key, !.monitor = m]
    BY <1>4 DEF SnapshotNewTarget
  <2> HIDE DEF m
  <2>3. /\ apply' \in ApplyType /\ apply'.rebuild = apply.rebuild
        /\ apply'.monitor = m /\ apply'.seed = old.debt.key /\ apply'.step = "build"
    BY <1>1, <1>2, <2>1, <2>2 DEF ApplyType, ApplySteps
  <2>4. old.watched # config /\ current' = None /\ due' \subseteq due
    BY <1>4 DEF SnapshotNewTarget
  <2> QED
    BY <1>1, <1>4, <2>3, <2>4 DEF ApplySnapshot, m
<1> QED
  BY <1>3, <1>4 DEF ApplySnapshot

LEMMA SnapshotShape ==
  ASSUME ShapeInv, ApplySnapshot
  PROVE  ShapeInv'
<1> DEFINE old == watcher[current]
<1>1. /\ UNCHANGED <<processVars, selfStop, timer, failures, config, saves,
                     rebuildVars, watcherVars, action, slotVars, shuttingDown,
                     stopped, slept, lost>>
      /\ apply.step = "snapshot" /\ current \in Watchers /\ old.cancelled
      /\ apply' \in ApplyType /\ apply'.rebuild = apply.rebuild
      /\ current' \in {current, None} /\ due' \subseteq due
      /\ apply'.step \in {"seed", "build"}
      /\ apply'.step = "build" => current' = None
      /\ apply'.step = "seed" => apply'.seed = None /\ current' = current
  BY SnapshotIs
<1>2. TypeOK'
  BY <1>1 DEF ShapeInv, TypeOK, processVars, rebuildVars, callbackVars, watcherVars, slotVars
<1>3. WatcherShape'
  BY <1>1, DetachShape DEF processVars, watcherVars
<1>4. /\ SeenUp(old) /\ LifeFits(old, action[current], TRUE)
      /\ old \in WatcherType /\ old.monitor \in MonitorOf(Sessions)
  BY <1>1, WatcherHere, WatcherFields
<1>5. /\ apply'.monitor = None => apply'.seed = None
      /\ apply'.step = "seed" => apply'.monitor # None /\ old.watched = config
      /\ apply'.monitor # None /\ apply'.monitor.state = "running" =>
           config \in Targets /\ session[config] > 0
  <2>1. CASE /\ old.watched = config /\ apply'.seed = None
             /\ apply'.monitor = Replacement(old.monitor, old.debt.key # None)
             /\ apply'.monitor \in MonitorOf(Sessions)
    <3>1. apply'.monitor.state = "running" => old.monitor.state = "running"
      BY <1>4, <2>1, ReplacementTyped
    <3>2. apply'.monitor # None
      BY <2>1, MonitorFields
    <3> QED
      BY <1>4, <2>1, <3>1, <3>2 DEF SeenUp
  <2>2. CASE /\ old.watched # config /\ apply'.step = "build"
             /\ apply'.seed = old.debt.key
             /\ apply'.monitor = IF old.debt.key = None THEN None
                                 ELSE NewMonitorContinuing(old.debt.key)
    <3>1. old.debt.key \in Keys
      BY <1>4, WatcherFields, DebtTyped
    <3>2. old.debt.key # None => NewMonitorContinuing(old.debt.key) \in MonitorOf(Sessions)
      BY <3>1, NewMonitorTyped DEF Keys
    <3>3. old.debt.key # None => NewMonitorContinuing(old.debt.key) # None
      BY <3>2, MonitorFields
    <3>4. NewMonitorContinuing(old.debt.key).state = "closed"
      BY DEF NewMonitorContinuing
    <3> QED
      BY <2>2, <3>3, <3>4
  <2> QED
    BY <2>1, <2>2, SnapshotIs
<1>6. ApplyShape'
  BY <1>1, <1>5, NoneApart DEF ApplyShape, processVars, watcherVars
<1>7. selfStop = NoSelfStop
  BY <1>1, NoneApart DEF ShapeInv, SelfStopShape
<1>8. SelfStopShape' /\ Counts' /\ StillOn' /\ Ended'
  BY <1>1, <1>7 DEF ShapeInv, SelfStopShape, Counts, StillOn, Ended, SettingsFree,
                    processVars, rebuildVars, callbackVars, NoSelfStop
<1> QED
  BY <1>2, <1>3, <1>6, <1>8 DEF ShapeInv

LEMMA SeedIs ==
  ASSUME ShapeInv, ApplySeed
  PROVE  /\ UNCHANGED <<processVars, selfStop, timer, failures, config, saves,
                        rebuildVars, watcherVars, action, slotVars, shuttingDown,
                        stopped, history>>
         /\ apply.step = "seed" /\ current \in Watchers /\ watcher[current].cancelled
         /\ apply.monitor # None /\ watcher[current].watched = config
         /\ apply' \in ApplyType /\ apply'.rebuild = apply.rebuild
         /\ apply'.step = "build" /\ current' = None
         /\ apply'.monitor = apply.monitor
         /\ apply'.seed = watcher[current].debt.key
<1>1. /\ apply.step = "seed" /\ apply \in ApplyType
      /\ current \in Watchers /\ watcher[current].cancelled
      /\ apply.monitor # None /\ watcher[current].watched = config
  BY DEF ApplySeed, ShapeInv, TypeOK, ApplyShape
<1>2. watcher[current].debt.key \in Keys
  BY <1>1, WatcherHere, WatcherFields, DebtTyped
<1>3. /\ apply' \in ApplyType /\ apply'.rebuild = apply.rebuild /\ apply'.step = "build"
      /\ apply'.monitor = apply.monitor /\ apply'.seed = watcher[current].debt.key
  BY <1>1, <1>2 DEF ApplySeed, ApplyType, ApplySteps
<1> QED
  BY <1>1, <1>3 DEF ApplySeed

LEMMA SeedShape ==
  ASSUME ShapeInv, ApplySeed
  PROVE  ShapeInv'
<1>1. TypeOK'
  BY SeedIs DEF ShapeInv, TypeOK, processVars, rebuildVars, callbackVars, watcherVars,
                slotVars, history
<1>2. WatcherShape'
  BY SeedIs, DetachShape DEF processVars, watcherVars
<1>3. ApplyShape' /\ SelfStopShape' /\ Counts' /\ StillOn' /\ Ended'
  BY SeedIs, NoneApart DEF ShapeInv, ApplyShape, SelfStopShape, Counts, StillOn, Ended,
       SettingsFree, processVars, rebuildVars, callbackVars
<1> QED
  BY <1>1, <1>2, <1>3 DEF ShapeInv

LEMMA ApplyDetachShape ==
  ASSUME ShapeInv, ApplyDetach
  PROVE  ShapeInv'
<1>1. /\ UNCHANGED <<processVars, current, timer, failures, config, saves, cleared,
                     reporting, rebuilding, watcherVars, action, slotVars,
                     shuttingDown, stopped, slept, lost>>
      /\ selfStop' = NoSelfStop /\ due' = {} /\ EndApply
      /\ config = None \/ shuttingDown
  BY DEF ApplyDetach
<1>2. TypeOK'
  BY <1>1, EndIs, UnusedTyped DEF ShapeInv, TypeOK, processVars, watcherVars, slotVars
<1>3. WatcherShape'
  BY <1>1, WatchersStay DEF processVars, watcherVars
<1>4. ApplyShape' /\ SelfStopShape' /\ Counts' /\ StillOn' /\ Ended'
  BY <1>1, EndIs DEF ShapeInv, TypeOK, ApplyShape, SelfStopShape, Counts, StillOn, Ended,
       SettingsFree, processVars, watcherVars, NoSelfStop
<1> QED
  BY <1>2, <1>3, <1>4 DEF ShapeInv

\* What the next watcher starts from.
LEMMA FirstTyped ==
  ASSUME ShapeInv, apply.step = "build"
  PROVE  /\ FirstMonitor \in MonitorOf(Sessions) /\ FirstDebt \in DebtOf(Sessions)
         /\ FirstDebt.carried => FirstDebt.key # None
         /\ FirstDebt.key # None => FirstDebt.carried
         /\ FirstMonitor.state = "running" => config \in Targets /\ session[config] > 0
<1>1. /\ apply \in ApplyType /\ apply.monitor \in MonitorOf(Sessions) \cup {None}
      /\ apply.seed \in Keys
      /\ selfStop.owed \in Keys /\ selfStop.countdown \in Keys
      /\ apply.monitor # None /\ apply.monitor.state = "running" =>
           config \in Targets /\ session[config] > 0
  BY ApplyFields DEF ShapeInv, TypeOK, ApplyShape
<1>2. /\ FirstMonitor \in MonitorOf(Sessions)
      /\ FirstMonitor.state = "running" => config \in Targets /\ session[config] > 0
  <2>1. CASE apply.monitor # None
    BY <1>1, <2>1 DEF FirstMonitor
  <2>2. CASE apply.monitor = None /\ selfStop.owed # None
    <3>1. selfStop.owed \in Sessions /\ FirstMonitor = NewMonitorContinuing(selfStop.owed)
      BY <1>1, <2>2 DEF Keys, FirstMonitor
    <3> QED
      BY <3>1, NewMonitorTyped DEF NewMonitorContinuing
  <2>3. CASE apply.monitor = None /\ selfStop.owed = None /\ selfStop.countdown # None
    <3>1. /\ selfStop.countdown \in Sessions
          /\ FirstMonitor = NewMonitorContinuing(selfStop.countdown)
      BY <1>1, <2>3 DEF Keys, FirstMonitor
    <3> QED
      BY <3>1, NewMonitorTyped DEF NewMonitorContinuing
  <2>4. CASE apply.monitor = None /\ selfStop.owed = None /\ selfStop.countdown = None
    BY <2>4, NewMonitorTyped DEF FirstMonitor, NewMonitor
  <2> QED
    BY <2>1, <2>2, <2>3, <2>4
<1>3. /\ FirstDebt \in DebtOf(Sessions)
      /\ FirstDebt.carried => FirstDebt.key # None
      /\ FirstDebt.key # None => FirstDebt.carried
  <2>1. CASE apply.monitor = None /\ selfStop.owed # None
    BY <1>1, <2>1, DebtTyped DEF FirstDebt, SeedOwedSession
  <2>2. CASE ~(apply.monitor = None /\ selfStop.owed # None) /\ apply.seed # None
    BY <1>1, <2>2, DebtTyped DEF FirstDebt, SeedOwedSession
  <2>3. CASE ~(apply.monitor = None /\ selfStop.owed # None) /\ apply.seed = None
    BY <2>3, DebtTyped DEF FirstDebt, NoDebt
  <2> QED
    BY <2>1, <2>2, <2>3
<1> QED
  BY <1>2, <1>3

\* The new watcher, and what is left of what it starts from.
LEMMA BuildIs ==
  ASSUME ShapeInv, NEW w \in Watchers, ApplyBuild(w)
  PROVE  /\ UNCHANGED <<processVars, timer, config, saves, cleared, reporting,
                        rebuilding, action, slotVars, shuttingDown, stopped, slept, lost,
                        stops>>
         /\ apply.step = "build" /\ current = None /\ current' = w
         /\ config \in Targets /\ ~shuttingDown /\ failures' = 0 /\ EndApply
         /\ watcher' \in [Watchers -> WatcherType]
         /\ \A v \in Watchers \ {w} : watcher'[v] = watcher[v]
         /\ watcher[w].life = "unused" /\ action[w] = NoAction
         /\ watcher'[w].life = "polling" /\ watcher'[w].watched = config
         /\ ~watcher'[w].cancelled /\ watcher'[w].pending = None
         /\ watcher'[w].monitor = FirstMonitor /\ watcher'[w].debt = FirstDebt
         /\ selfStop' = NoSelfStop
         /\ due' = {k \in due : selfStop.countdown = k => k[1] = config}
<1>1. /\ apply.step = "build" /\ current = None
      /\ config \in Targets /\ watcher[w].life = "unused"
  BY DEF ApplyBuild, ShapeInv, TypeOK, ApplyShape
<1>2. action[w] = NoAction
  BY <1>1, WatcherHere DEF LifeFits
<1>3. selfStop' = NoSelfStop
  <2>1. /\ selfStop \in [owed : Keys, countdown : Keys]
        /\ selfStop.owed = None \/ selfStop.countdown = None
        /\ apply.monitor # None => selfStop = NoSelfStop
    BY DEF ShapeInv, TypeOK, SelfStopShape
  <2>2. selfStop' = IF apply.monitor # None THEN selfStop
                    ELSE IF selfStop.owed # None
                      THEN [selfStop EXCEPT !.owed = None]
                      ELSE [selfStop EXCEPT !.countdown = None]
    BY DEF ApplyBuild
  <2> QED
    BY <2>1, <2>2 DEF NoSelfStop
<1>4. /\ watcher' \in [Watchers -> WatcherType]
      /\ \A v \in Watchers \ {w} : watcher'[v] = watcher[v]
      /\ watcher'[w].life = "polling" /\ watcher'[w].watched = config
      /\ watcher'[w].cancelled = FALSE /\ watcher'[w].pending = None
      /\ watcher'[w].monitor = FirstMonitor /\ watcher'[w].debt = FirstDebt
  <2> DEFINE m == FirstMonitor
             d == FirstDebt
             x == [Unused EXCEPT !.life = "polling", !.watched = config,
                     !.monitor = m, !.debt = d]
  <2>1. m \in MonitorOf(Sessions) /\ d \in DebtOf(Sessions)
    BY <1>1, FirstTyped
  <2>2. watcher' = [watcher EXCEPT ![w] = x]
    BY DEF ApplyBuild
  <2>3. /\ Unused \in WatcherType /\ Unused.cancelled = FALSE /\ Unused.pending = None
    BY UnusedTyped DEF Unused
  <2> HIDE DEF m, d
  <2>4. /\ x \in WatcherType /\ x.life = "polling" /\ x.watched = config
        /\ x.cancelled = FALSE /\ x.pending = None /\ x.monitor = m /\ x.debt = d
    BY <1>1, <2>1, <2>3 DEF WatcherType
  <2> HIDE DEF x
  <2>5. watcher \in [Watchers -> WatcherType]
    BY DEF ShapeInv, TypeOK
  <2> QED
    BY <2>2, <2>4, <2>5 DEF m, d
<1> QED
  BY <1>1, <1>2, <1>3, <1>4 DEF ApplyBuild

LEMMA BuildShape ==
  ASSUME ShapeInv, NEW w \in Watchers, ApplyBuild(w)
  PROVE  ShapeInv'
<1>1. TypeOK'
  <2>1. due' \subseteq Sessions /\ failures' \in Nat /\ current' \in Watchers \cup {None}
    BY BuildIs DEF ShapeInv, TypeOK
  <2>2. selfStop' \in [owed : Keys, countdown : Keys]
    BY BuildIs, UnusedTyped
  <2>3. /\ UNCHANGED <<processVars, timer, config, saves, cleared, reporting,
                       rebuilding, action, slotVars, shuttingDown, stopped, slept, lost,
                       stops>>
        /\ watcher' \in [Watchers -> WatcherType]
        /\ apply' \in ApplyType /\ rechecking' \in 0..MaxRebuilds
    BY BuildIs, EndIs
  <2> QED
    BY <2>1, <2>2, <2>3 DEF ShapeInv, TypeOK, processVars, slotVars
<1>2. WatcherShape'
  <2>1. SUFFICES ASSUME NEW v \in Watchers
                 PROVE  /\ LifeFits(watcher'[v], action'[v], current' = v)
                        /\ ActionFits(watcher'[v], action'[v])
                        /\ SeenUp(watcher[v])'
    BY DEF WatcherShape
  <2>2. /\ LifeFits(watcher[v], action[v], current = v)
        /\ ActionFits(watcher[v], action[v]) /\ SeenUp(watcher[v])
    BY WatcherHere
  <2>3. CASE v = w
    <3>1. NoAction.step = "none" /\ ~NoAction.newest
      BY DEF NoAction
    <3>2. /\ FirstDebt.carried => FirstDebt.key # None
          /\ FirstDebt.key # None => FirstDebt.carried
          /\ FirstMonitor.state = "running" => config \in Targets /\ session[config] > 0
      BY FirstTyped, BuildIs
    <3> QED
      BY <2>3, <3>1, <3>2, BuildIs
         DEF LifeFits, ActionFits, OwnsLast, SeenUp, Working, processVars
  <2>4. CASE v # w
    <3>1. watcher'[v] = watcher[v] /\ current' # v /\ current # v /\ action' = action
          /\ session' = session
      BY <2>4, BuildIs, NoneApart DEF processVars
    <3> QED
      BY <2>2, <3>1 DEF LifeFits, SeenUp
  <2> QED
    BY <2>3, <2>4
<1>3. ApplyShape' /\ SelfStopShape' /\ Counts' /\ StillOn' /\ Ended'
  BY BuildIs, EndIs, NoneApart DEF ShapeInv, TypeOK, ApplyShape, SelfStopShape, Counts,
       StillOn, Ended, SettingsFree, processVars, NoSelfStop
<1> QED
  BY <1>1, <1>2, <1>3 DEF ShapeInv

\* A watcher that has exited is forgotten.
LEMMA ReapIs ==
  ASSUME ShapeInv, NEW w \in Watchers, ReapCancelled(w) \/ ReapFailed(w)
  PROVE  /\ UNCHANGED <<processVars, timer, settingsVars, reporting, callbackVars,
                        action, slotVars, shuttingDown, stopped, history, stops>>
         /\ watcher[w].life = "exited" /\ action[w] = NoAction
         /\ watcher' \in [Watchers -> WatcherType] /\ watcher'[w] = Unused
         /\ \A v \in Watchers \ {w} : watcher'[v] = watcher[v]
         /\ \/ current # w /\ UNCHANGED <<current, failures, selfStop, cleared>>
            \/ /\ current = w /\ current' = None /\ failures' = 0 /\ AppFree
               /\ cleared' = cleared + 1 /\ cleared + reporting < MaxRebuilds
               /\ selfStop' = LeftBy(watcher[w])
<1>1. watcher[w].life = "exited" /\ watcher' = [watcher EXCEPT ![w] = Unused]
  BY DEF ReapCancelled, ReapFailed
<1>2. action[w] = NoAction
  BY <1>1, WatcherHere DEF LifeFits
<1>3. /\ watcher' \in [Watchers -> WatcherType] /\ watcher'[w] = Unused
      /\ \A v \in Watchers \ {w} : watcher'[v] = watcher[v]
  BY <1>1, UnusedTyped DEF ShapeInv, TypeOK
<1> QED
  BY <1>1, <1>2, <1>3 DEF ReapCancelled, ReapFailed, appVars, rebuildVars, callbackVars

\* It leaves its debt, or else its countdown.
LEMMA LeftByTyped ==
  ASSUME ShapeInv, NEW x \in WatcherType, selfStop = NoSelfStop
  PROVE  /\ LeftBy(x) \in [owed : Keys, countdown : Keys]
         /\ LeftBy(x).owed = x.debt.key
         /\ LeftBy(x).countdown =
              IF x.debt.key = None /\ x.monitor.state = "closed" THEN x.monitor.key ELSE None
<1>1. x.debt.key \in Keys /\ x.monitor.key \in Keys /\ None \in Keys
  BY WatcherFields, DebtTyped, MonitorFields DEF Keys
<1>2. CASE x.debt.key # None
  BY <1>1, <1>2 DEF LeftBy, NoSelfStop
<1>3. CASE x.debt.key = None /\ x.monitor.state = "closed"
  BY <1>1, <1>3 DEF LeftBy, NoSelfStop
<1>4. CASE x.debt.key = None /\ x.monitor.state # "closed"
  BY <1>1, <1>4 DEF LeftBy, NoSelfStop
<1> QED
  BY <1>2, <1>3, <1>4

LEMMA ReapShape ==
  ASSUME ShapeInv, NEW w \in Watchers, ReapCancelled(w) \/ ReapFailed(w)
  PROVE  ShapeInv'
<1>1. /\ UNCHANGED <<processVars, timer, settingsVars, reporting, callbackVars,
                     action, slotVars, shuttingDown, stopped, history, stops>>
      /\ watcher[w].life = "exited"
      /\ watcher' \in [Watchers -> WatcherType]
      /\ watcher[w] \in WatcherType
  BY ReapIs, WatcherHere
<1>2. \/ current # w /\ UNCHANGED <<current, failures, selfStop, cleared>>
      \/ /\ current = w /\ current' = None /\ failures' = 0 /\ AppFree
         /\ cleared' = cleared + 1 /\ cleared + reporting < MaxRebuilds
         /\ selfStop = NoSelfStop /\ selfStop' = LeftBy(watcher[w])
         /\ selfStop' \in [owed : Keys, countdown : Keys]
         /\ selfStop'.owed = None \/ selfStop'.countdown = None
  <2>1. CASE current = w
    <3>1. selfStop = NoSelfStop
      BY <2>1, NoneApart DEF ShapeInv, SelfStopShape
    <3> QED
      BY <1>1, <2>1, <3>1, ReapIs, LeftByTyped
  <2> QED
    BY <2>1, ReapIs
<1>3. cleared \in Nat /\ reporting \in Nat /\ MaxRebuilds \in Nat
  BY AutoSleepAssumption DEF ShapeInv, TypeOK
<1>4. cleared' \in 0..MaxRebuilds /\ cleared' + reporting <= MaxRebuilds
  BY <1>2, <1>3 DEF ShapeInv, TypeOK, Counts
<1>5. TypeOK'
  BY <1>1, <1>2, <1>4 DEF ShapeInv, TypeOK, processVars, settingsVars, callbackVars,
                          slotVars, history
<1>6. WatcherShape'
  <2>1. SUFFICES ASSUME NEW v \in Watchers
                 PROVE  /\ LifeFits(watcher'[v], action'[v], current' = v)
                        /\ ActionFits(watcher'[v], action'[v])
                        /\ SeenUp(watcher[v])'
    BY DEF WatcherShape
  <2>2. /\ LifeFits(watcher[v], action[v], current = v)
        /\ ActionFits(watcher[v], action[v]) /\ SeenUp(watcher[v])
    BY WatcherHere
  <2>3. current' = v => current = v /\ v # w
    BY <1>2, NoneApart
  <2>4. CASE v = w
    <3>1. /\ Unused.life = "unused" /\ Unused.pending = None /\ Unused.debt = NoDebt
          /\ ~NoDebt.carried /\ NoDebt.key = None /\ Unused.monitor.state = "idle"
          /\ NoAction.step = "none" /\ ~NoAction.newest
      BY DEF Unused, NoDebt, NewMonitor, NoAction
    <3>2. watcher'[v] = Unused /\ action'[v] = NoAction
      BY <2>4, ReapIs
    <3> QED
      BY <2>3, <2>4, <3>1, <3>2 DEF LifeFits, ActionFits, OwnsLast, SeenUp, Working
  <2>5. CASE v # w
    <3>1. watcher'[v] = watcher[v] /\ action' = action /\ session' = session
          /\ (current = v => current' = v)
      BY <1>2, <2>5, ReapIs DEF processVars
    <3> QED
      BY <2>2, <2>3, <3>1 DEF LifeFits, SeenUp
  <2> QED
    BY <2>4, <2>5
<1>7. ApplyShape'
  <2>1. apply.step \in {"snapshot", "seed"} => current # w
    BY <1>2 DEF AppFree, ApplySteps
  <2>2. current \in Watchers /\ current # w => watcher'[current] = watcher[current]
    BY ReapIs
  <2> QED
    BY <1>1, <1>2, <2>1, <2>2, NoneApart
       DEF ShapeInv, TypeOK, ApplyShape, processVars, settingsVars
<1>8. SelfStopShape' /\ Counts' /\ StillOn' /\ Ended'
  <2>1. current' # None => current' = current
    BY <1>2
  <2>2. apply.monitor # None => UNCHANGED selfStop
    BY <1>2, OutsideSteps
  <2>3. SelfStopShape'
    BY <1>1, <1>2, <2>1, <2>2 DEF ShapeInv, SelfStopShape, settingsVars
  <2>4. Counts'
    BY <1>1, <1>4 DEF ShapeInv, Counts, processVars, settingsVars, callbackVars
  <2>5. StillOn'
    <3>1. (current' = current /\ cleared' = cleared) \/ cleared' > 0
      BY <1>2, <1>3
    <3>2. rebuilding \in Nat
      BY DEF ShapeInv, TypeOK
    <3>3. /\ UNCHANGED <<config, shuttingDown, apply, timer, reporting, rebuilding>>
          /\ cleared' \in Nat
      BY <1>1, <1>3, <1>4 DEF settingsVars, callbackVars
    <3>4. StillOn
      BY DEF ShapeInv
    <3>5. cleared' > 0 => cleared' + reporting' + rebuilding' > 0
      <4>1. reporting' \in Nat /\ rebuilding' \in Nat
        BY <1>3, <3>2, <3>3
      <4>2. \A a, b, c \in Nat : a > 0 => a + b + c > 0
        OBVIOUS
      <4> QED
        BY <3>3, <4>1, <4>2
    <3> QED
      BY <3>1, <3>3, <3>4, <3>5 DEF StillOn, SettingsFree
  <2>6. Ended'
    BY <1>1, <2>1 DEF ShapeInv, Ended
  <2> QED
    BY <2>3, <2>4, <2>5, <2>6
<1> QED
  BY <1>5, <1>6, <1>7, <1>8 DEF ShapeInv

\* The rest of a rebuild only counts who is still to do what.
LEMMA RebuildingShape ==
  ASSUME ShapeInv,
         UNCHANGED <<processVars, current, selfStop, config, saves, watcherVars, action,
                     slotVars, shuttingDown, stopped, history>>,
         timer' \in BOOLEAN, failures' \in Nat,
         {cleared, reporting, rebuilding, rechecking}' \subseteq Nat,
         cleared' + reporting' <= MaxRebuilds,
         rebuilding' + rechecking' + (IF apply'.rebuild THEN 1 ELSE 0) <= MaxRebuilds,
         apply' \in ApplyType, ApplyShape',
         apply' = apply \/ (apply'.monitor = None /\ apply'.step # "idle"),
         StillOn', stopped => ~timer'
  PROVE  ShapeInv'
<1>1. {cleared, reporting, rebuilding, rechecking}' \subseteq 0..MaxRebuilds
  BY AutoSleepAssumption
<1>2. TypeOK'
  BY <1>1 DEF ShapeInv, TypeOK, processVars, watcherVars, slotVars, history
<1>3. WatcherShape'
  BY WatchersStay DEF processVars, watcherVars
<1>4. SelfStopShape' /\ Counts' /\ Ended'
  BY DEF ShapeInv, SelfStopShape, Counts, Ended, processVars
<1> QED
  BY <1>2, <1>3, <1>4 DEF ShapeInv

LEMMA CountsTyped ==
  ASSUME ShapeInv
  PROVE  /\ cleared \in Nat /\ reporting \in Nat /\ rebuilding \in Nat
         /\ rechecking \in Nat /\ failures \in Nat /\ MaxRebuilds \in Nat
         /\ timer \in BOOLEAN /\ apply \in ApplyType /\ apply.rebuild \in BOOLEAN
         /\ cleared + reporting <= MaxRebuilds
         /\ rebuilding + rechecking + (IF apply.rebuild THEN 1 ELSE 0) <= MaxRebuilds
         /\ stopped => shuttingDown /\ current = None /\ ~timer
BY AutoSleepAssumption, ApplyFields DEF ShapeInv, TypeOK, Counts, Ended

LEMMA ReadEnabledShape ==
  ASSUME ShapeInv, ReadEnabled
  PROVE  ShapeInv'
<1>1. /\ UNCHANGED <<processVars, appVars, settingsVars, callbackVars, watcherVars,
                     action, slotVars, shuttingDown, stopped, history>>
      /\ cleared > 0 /\ cleared' = cleared - 1
      /\ reporting' = IF config = None THEN reporting ELSE reporting + 1
  BY DEF ReadEnabled
<1>2. ApplyShape' /\ apply' = apply
  BY <1>1 DEF ShapeInv, ApplyShape, processVars, appVars, settingsVars, watcherVars
<1>3. StillOn'
  BY <1>1, CountsTyped DEF StillOn, appVars, settingsVars, callbackVars
<1> QED
  BY <1>1, <1>2, <1>3, CountsTyped, RebuildingShape DEF appVars, settingsVars, callbackVars

\* A rebuild is scheduled unless there is a watcher or a shutdown.
LEMMA SchedulesIs ==
  ASSUME ShapeInv, Schedules
  PROVE  /\ timer' \in BOOLEAN /\ (stopped => ~timer') /\ (timer => timer')
         /\ current = None /\ ~shuttingDown => timer'
BY CountsTyped DEF Schedules

LEMMA ScheduleShape ==
  ASSUME ShapeInv, ScheduleRebuild
  PROVE  ShapeInv'
<1>1. /\ UNCHANGED <<processVars, current, selfStop, failures, settingsVars,
                     cleared, callbackVars, watcherVars, action, slotVars,
                     shuttingDown, stopped, history>>
      /\ reporting > 0 /\ reporting' = reporting - 1 /\ Schedules
  BY DEF ScheduleRebuild
<1>2. ApplyShape' /\ apply' = apply
  BY <1>1 DEF ShapeInv, ApplyShape, processVars, settingsVars, watcherVars
<1>3. StillOn'
  BY <1>1, SchedulesIs DEF StillOn, settingsVars
<1> QED
  BY <1>1, <1>2, <1>3, CountsTyped, SchedulesIs, RebuildingShape
     DEF settingsVars, callbackVars

LEMMA TimerFiresShape ==
  ASSUME ShapeInv, TimerFires
  PROVE  ShapeInv'
<1>1. /\ UNCHANGED <<processVars, current, selfStop, failures, settingsVars,
                     cleared, reporting, rechecking, watcherVars, action, slotVars,
                     shuttingDown, stopped, history>>
      /\ timer' = FALSE /\ rebuilding' = rebuilding + 1
      /\ rebuilding + rechecking + (IF apply.rebuild THEN 1 ELSE 0) < MaxRebuilds
  BY DEF TimerFires
<1>2. ApplyShape' /\ apply' = apply
  BY <1>1 DEF ShapeInv, ApplyShape, processVars, settingsVars, watcherVars
<1>3. StillOn'
  BY <1>1, CountsTyped DEF StillOn
<1>4. rebuilding' + rechecking' + (IF apply'.rebuild THEN 1 ELSE 0) <= MaxRebuilds
  BY <1>1, <1>2, CountsTyped
<1>5. /\ {cleared, reporting, rebuilding, rechecking}' \subseteq Nat
      /\ cleared' + reporting' <= MaxRebuilds
      /\ timer' \in BOOLEAN /\ ~timer' /\ failures' \in Nat
      /\ apply' \in ApplyType
  <2>1. /\ cleared' = cleared /\ reporting' = reporting /\ rechecking' = rechecking
        /\ rebuilding' = rebuilding + 1 /\ failures' = failures /\ timer' = FALSE
    BY <1>1
  <2>2. rebuilding' \in Nat
    BY <2>1, CountsTyped
  <2> QED
    BY <1>2, <2>1, <2>2, CountsTyped
<1> QED
  BY <1>1, <1>2, <1>3, <1>4, <1>5, RebuildingShape DEF settingsVars

LEMMA SkipRebuildShape ==
  ASSUME ShapeInv, SkipRebuild
  PROVE  ShapeInv'
<1>1. /\ UNCHANGED <<processVars, appVars, settingsVars, cleared, reporting,
                     rechecking, watcherVars, action, slotVars, shuttingDown,
                     stopped, history>>
      /\ rebuilding > 0 /\ rebuilding' = rebuilding - 1
      /\ shuttingDown \/ config = None
  BY DEF SkipRebuild
<1>2. ApplyShape' /\ apply' = apply
  BY <1>1 DEF ShapeInv, ApplyShape, processVars, appVars, settingsVars, watcherVars
<1>3. StillOn'
  BY <1>1 DEF StillOn, settingsVars
<1>4. rebuilding' + rechecking' + (IF apply'.rebuild THEN 1 ELSE 0) <= MaxRebuilds
  BY <1>1, <1>2, CountsTyped
<1> QED
  BY <1>1, <1>2, <1>3, <1>4, CountsTyped, RebuildingShape DEF appVars, settingsVars

LEMMA RebuildShape ==
  ASSUME ShapeInv, NEW saved \in BOOLEAN, Rebuild(saved)
  PROVE  ShapeInv'
<1>1. /\ UNCHANGED <<processVars, appVars, config, saves, cleared, reporting,
                     rechecking, watcherVars, action, slotVars, shuttingDown,
                     stopped, history>>
      /\ rebuilding > 0 /\ rebuilding' = rebuilding - 1
      /\ apply.step = "idle" /\ ~apply.rebuild
  BY DEF Rebuild, SettingsFree, ShapeInv, ApplyShape
<1>2. apply' = [step |-> "match", changed |-> FALSE, saved |-> saved, rebuild |-> TRUE,
                monitor |-> None, seed |-> None]
  BY DEF Rebuild, NoApply
<1>3. /\ apply' \in ApplyType /\ apply'.step = "match" /\ apply'.rebuild
      /\ apply'.monitor = None /\ apply'.seed = None
  BY <1>2, BeginsTyped
<1>4. ApplyShape' /\ StillOn'
  BY <1>3 DEF ApplyShape, StillOn, SettingsFree
<1>5. rebuilding' + rechecking' + (IF apply'.rebuild THEN 1 ELSE 0) <= MaxRebuilds
  BY <1>1, <1>3, CountsTyped
<1> QED
  BY <1>1, <1>3, <1>4, <1>5, CountsTyped, RebuildingShape DEF appVars

LEMMA RecheckShape ==
  ASSUME ShapeInv, Recheck
  PROVE  ShapeInv'
<1>1. /\ UNCHANGED <<processVars, current, selfStop, settingsVars, cleared,
                     reporting, rebuilding, watcherVars, action, slotVars,
                     shuttingDown, stopped, history>>
      /\ rechecking > 0 /\ rechecking' = rechecking - 1
      /\ failures' \in Nat
      /\ timer' = timer \/ Schedules
  BY CountsTyped DEF Recheck
<1>2. timer' \in BOOLEAN /\ (timer => timer') /\ (stopped => ~timer')
  BY <1>1, SchedulesIs, CountsTyped
<1>3. ApplyShape' /\ apply' = apply
  BY <1>1 DEF ShapeInv, ApplyShape, processVars, settingsVars, watcherVars
<1>4. StillOn'
  BY <1>1, <1>2 DEF ShapeInv, StillOn, SettingsFree, settingsVars
<1>5. rebuilding' + rechecking' + (IF apply'.rebuild THEN 1 ELSE 0) <= MaxRebuilds
  BY <1>1, <1>3, CountsTyped
<1> QED
  BY <1>1, <1>2, <1>3, <1>4, <1>5, CountsTyped, RebuildingShape DEF settingsVars

LEMMA BeginShutdownShape ==
  ASSUME ShapeInv, BeginShutdown
  PROVE  ShapeInv'
<1>1. TypeOK'
  BY DEF BeginShutdown, ShapeInv, TypeOK, processVars, appVars, settingsVars, rebuildVars,
         callbackVars, watcherVars, slotVars, history
<1>2. WatcherShape'
  BY WatchersStay DEF BeginShutdown, processVars, appVars, watcherVars
<1>3. ApplyShape' /\ SelfStopShape' /\ Counts' /\ StillOn' /\ Ended'
  BY DEF BeginShutdown, ShapeInv, ApplyShape, SelfStopShape, Counts, StillOn, Ended,
         SettingsFree, processVars, appVars, settingsVars, rebuildVars, callbackVars,
         watcherVars
<1> QED
  BY <1>1, <1>2, <1>3 DEF ShapeInv

LEMMA StopAutoSleepIs ==
  ASSUME ShapeInv, StopAutoSleep
  PROVE  /\ UNCHANGED <<processVars, settingsVars, rebuildVars, action, slotVars,
                        shuttingDown, slept, lost, stops>>
         /\ shuttingDown /\ stopped' = TRUE /\ timer' = FALSE /\ failures' = 0
         /\ selfStop' = NoSelfStop /\ current' = None /\ due' = {} /\ AppFree
         /\ watcher' \in [Watchers -> WatcherType]
         /\ current = None => watcher' = watcher
         /\ current # None => /\ current \in Watchers
                              /\ watcher' = [watcher EXCEPT ![current].cancelled = TRUE]
<1>1. CASE current = None
  BY <1>1 DEF StopAutoSleep, ShapeInv, TypeOK
<1>2. CASE current # None
  <2>1. /\ current \in Watchers
        /\ watcher' = [watcher EXCEPT ![current].cancelled = TRUE]
    BY <1>2 DEF StopAutoSleep, ShapeInv, TypeOK
  <2> QED
    BY <1>2, <2>1, CancelIs DEF StopAutoSleep
<1> QED
  BY <1>1, <1>2

LEMMA StopAutoSleepShape ==
  ASSUME ShapeInv, StopAutoSleep
  PROVE  ShapeInv'
<1>1. TypeOK'
  <2>1. /\ UNCHANGED <<running, session, launches, config, saves, apply, cleared,
                        reporting, rebuilding, rechecking, action, slot, settledSession,
                        shuttingDown, slept, lost, stops>>
        /\ watcher' \in [Watchers -> WatcherType]
    BY StopAutoSleepIs
       DEF processVars, settingsVars, rebuildVars, callbackVars, slotVars
  <2>2. /\ stopped' \in BOOLEAN /\ timer' \in BOOLEAN /\ failures' \in Nat
        /\ selfStop' \in [owed : Keys, countdown : Keys]
        /\ current' \in Watchers \cup {None} /\ due' \subseteq Sessions
    BY StopAutoSleepIs, UnusedTyped
  <2> QED
    BY <2>1, <2>2 DEF ShapeInv, TypeOK
<1>2. WatcherShape'
  <2>1. CASE current = None
    BY <2>1, StopAutoSleepIs, WatchersStay DEF processVars
  <2>2. CASE current # None
    BY <2>2, StopAutoSleepIs, CancelShape DEF processVars
  <2> QED
    BY <2>1, <2>2
<1>3. ApplyShape' /\ SelfStopShape' /\ Counts' /\ StillOn' /\ Ended'
  <2>1. /\ UNCHANGED <<running, session, launches, config, apply, cleared, reporting,
                        rebuilding, rechecking, shuttingDown>>
        /\ shuttingDown /\ timer' = FALSE /\ selfStop' = NoSelfStop /\ current' = None
        /\ AppFree
    BY StopAutoSleepIs DEF processVars, settingsVars, rebuildVars, callbackVars
  <2>2. ApplyShape'
    BY <2>1 DEF ShapeInv, ApplyShape, AppFree, ApplySteps
  <2>3. SelfStopShape' /\ StillOn' /\ Ended'
    BY <2>1 DEF SelfStopShape, StillOn, Ended, NoSelfStop
  <2>4. Counts'
    BY <2>1 DEF ShapeInv, Counts
  <2> QED
    BY <2>2, <2>3, <2>4
<1> QED
  BY <1>1, <1>2, <1>3 DEF ShapeInv

LEMMA ShapeInit == Init => ShapeInv
<1> SUFFICES ASSUME Init
             PROVE  ShapeInv
  OBVIOUS
<1>1. /\ {MaxLaunches, MaxSaves, MaxStops, MaxRebuilds} \subseteq Nat
      /\ Unused \in WatcherType /\ NoAction \in ActionType /\ NoApply \in ApplyType
      /\ NoSelfStop \in [owed : Keys, countdown : Keys] /\ None \in Keys
  BY AutoSleepAssumption, UnusedTyped DEF Keys
<1>2. /\ apply \in ApplyType /\ apply.step = "apply" /\ ~apply.rebuild
      /\ apply.monitor = None /\ apply.seed = None
  <2>1. /\ NoApply.step = "idle" /\ ~NoApply.rebuild /\ NoApply.monitor = None
        /\ NoApply.seed = None
    BY DEF NoApply
  <2> QED
    BY <1>1, <2>1 DEF Init, ApplyType
<1>3. TypeOK
  <2>1. /\ running \in [Targets -> BOOLEAN] /\ session \in [Targets -> 0..MaxLaunches]
        /\ watcher \in [Watchers -> WatcherType] /\ action \in [Watchers -> ActionType]
        /\ launches \in 0..MaxLaunches /\ saves \in 0..MaxSaves /\ stops \in 0..MaxStops
        /\ {cleared, reporting, rebuilding, rechecking} \subseteq 0..MaxRebuilds
        /\ config \in Targets \cup {None} /\ settledSession \in Keys
        /\ selfStop \in [owed : Keys, countdown : Keys]
    BY <1>1 DEF Init
  <2>2. /\ timer \in BOOLEAN /\ shuttingDown \in BOOLEAN /\ stopped \in BOOLEAN
        /\ failures \in Nat /\ current \in Watchers \cup {None}
        /\ slot \in Watchers \cup {None} /\ due \subseteq Sessions /\ slept \subseteq Sessions
        /\ lost \subseteq Sessions
    BY DEF Init
  <2> QED
    BY <1>2, <2>1, <2>2 DEF TypeOK
<1>4. WatcherShape
  <2>1. /\ Unused.life = "unused" /\ Unused.pending = None /\ Unused.debt = NoDebt
        /\ ~NoDebt.carried /\ NoDebt.key = None /\ Unused.monitor.state = "idle"
        /\ NoAction.step = "none" /\ ~NoAction.newest
    BY DEF Unused, NoDebt, NewMonitor, NoAction
  <2>2. \A w \in Watchers : watcher[w] = Unused /\ action[w] = NoAction /\ current # w
    BY NoneApart DEF Init
  <2> QED
    BY <2>1, <2>2 DEF WatcherShape, LifeFits, ActionFits, OwnsLast, SeenUp, Working
<1>5. ApplyShape /\ SelfStopShape /\ Counts /\ StillOn /\ Ended
  BY <1>1, <1>2 DEF Init, ApplyShape, SelfStopShape, Counts, StillOn, Ended, SettingsFree,
                    NoSelfStop
<1> QED
  BY <1>3, <1>4, <1>5 DEF ShapeInv

LEMMA ShapeStep == ShapeInv /\ [Next]_vars => ShapeInv'
<1> SUFFICES ASSUME ShapeInv, [Next]_vars
             PROVE  ShapeInv'
  OBVIOUS
<1>1. CASE \E t \in Targets : Launch(t) \/ Quit(t)
  BY <1>1, LaunchShape, QuitShape
<1>2. CASE \E w \in Watchers : WatcherNext(w) \/ ActionNext(w)
  BY <1>2, WorkShape
<1>3. CASE SettingsNext
  <2>1. CASE \E settings \in Targets \cup {None} :
               \/ \E newDelay \in BOOLEAN : Save(settings, newDelay)
               \/ SaveFails(settings)
    BY <2>1, SettingsShape
  <2>2. CASE SettingsMatch \/ ApplyCancel \/ ApplySnapshot \/ ApplySeed \/ ApplyDetach
    BY <2>2, MatchShape, ApplyCancelShape, SnapshotShape, SeedShape, ApplyDetachShape
  <2>3. CASE \E w \in Watchers : ApplyBuild(w)
    BY <2>3, BuildShape
  <2> QED
    BY <1>3, <2>1, <2>2, <2>3 DEF SettingsNext
<1>4. CASE RebuildNext
  <2>1. CASE \E w \in Watchers : ReapCancelled(w) \/ ReapFailed(w)
    BY <2>1, ReapShape
  <2>2. CASE ReadEnabled \/ ScheduleRebuild \/ TimerFires \/ SkipRebuild \/ Recheck
    BY <2>2, ReadEnabledShape, ScheduleShape, TimerFiresShape, SkipRebuildShape,
       RecheckShape
  <2>3. CASE \E saved \in BOOLEAN : Rebuild(saved)
    BY <2>3, RebuildShape
  <2> QED
    BY <1>4, <2>1, <2>2, <2>3 DEF RebuildNext
<1>5. CASE BeginShutdown \/ StopAutoSleep
  BY <1>5, BeginShutdownShape, StopAutoSleepShape
<1>6. CASE Exited \/ UNCHANGED vars
  <2>1. UNCHANGED vars
    BY <1>6 DEF Exited
  <2>2. TypeOK'
    BY <2>1 DEF ShapeInv, TypeOK, vars, processVars, appVars, settingsVars, rebuildVars,
                callbackVars, watcherVars, slotVars, history
  <2>3. WatcherShape'
    BY <2>1, WatchersStay DEF vars, processVars, appVars, watcherVars
  <2>4. ApplyShape' /\ SelfStopShape' /\ Counts' /\ StillOn' /\ Ended'
    BY <2>1 DEF ShapeInv, ApplyShape, SelfStopShape, Counts, StillOn, Ended, SettingsFree,
                vars, processVars, appVars, settingsVars, rebuildVars, callbackVars,
                watcherVars
  <2> QED
    BY <2>2, <2>3, <2>4 DEF ShapeInv
<1> QED
  BY <1>1, <1>2, <1>3, <1>4, <1>5, <1>6 DEF Next

\* The watchers, their actions, the settings calls and the rebuilds stay in step.
THEOREM WatchersInStep == Spec => []ShapeInv
<1>1. Init => ShapeInv
  BY ShapeInit
<1>2. ShapeInv /\ [Next]_vars => ShapeInv'
  BY ShapeStep
<1> QED
  BY <1>1, <1>2, PTL DEF Spec

\* While the settings enable the feature and no settings call is under way, there
\* is a watcher, or somebody who will build one (auto_sleep.go 259-264, 350-360).
THEOREM SomebodyWatches == Spec => []NeverSilentlyOff
<1>1. ShapeInv => NeverSilentlyOff
  BY CountsTyped DEF ShapeInv, StillOn, NeverSilentlyOff
<1> QED
  BY <1>1, WatchersInStep, PTL

\* Once stopAutoSleep has run nothing starts again: no watcher, no rebuild timer,
\* and every watcher still there is on its way out (auto_sleep.go 461-499).
THEOREM NothingStartsAgain == Spec => []StopIsFinal
<1>1. ShapeInv => StopIsFinal
  BY NoneApart DEF ShapeInv, Ended, WatcherShape, LifeFits, StopIsFinal
<1> QED
  BY <1>1, WatchersInStep, PTL

\* An action that nobody has cancelled serves the newest debt of the current
\* watcher, under that debt's key (watcher.go 51-63, 242-259).
THEOREM ActionsServeDebts == Spec => []ActionServesDebt
<1>1. ShapeInv => ActionServesDebt
  <2> SUFFICES ASSUME ShapeInv, NEW w \in Watchers,
                      action[w].step \in {"slot", "scanning", "powering"}, ~Stopped(w)
               PROVE  /\ current = w /\ action[w].newest
                      /\ watcher[w].debt.key = action[w].key
    BY DEF ActionServesDebt
  <2>1. /\ watcher[w] \in WatcherType /\ LifeFits(watcher[w], action[w], current = w)
        /\ ActionFits(watcher[w], action[w])
    BY WatcherHere
  <2>2. watcher[w].life \in {"unused", "polling", "stopping", "exited"}
    BY <2>1, WatcherFields
  <2> QED
    BY <2>1, <2>2 DEF Stopped, Working, LifeFits, ActionFits
<1> QED
  BY <1>1, WatchersInStep, PTL

-----------------------------------------------------------------------------
(* The second invariant: where the sleep of a closed session is kept.      *)

\* The countdown of a session of the watched process itself.
CountsDown(m, t, k) == m = NewMonitorContinuing(k) /\ k[1] = t

\* A watcher keeps the sleep of session k: it counts down or owes.  Unless its
\* debt is inherited, the session is the last it has seen; and an action that
\* may clear the debt covers the session, or its countdown runs on its own.
WatcherKeeps(x, a, k) ==
  /\ x.monitor = NewMonitorContinuing(k) \/ x.debt.key # None
  /\ ~x.debt.carried =>
       x.monitor.state # "running" /\ x.monitor.key = k /\ k[1] = x.watched
  /\ a.newest => k \in a.covers \/ CountsDown(x.monitor, x.watched, k)
  /\ a.newest /\ a.settled => CountsDown(x.monitor, x.watched, k)

DueShape ==
  /\ current # None => \A k \in due : WatcherKeeps(watcher[current], action[current], k)
  /\ apply.step = "seed" =>
       apply.monitor = Replacement(watcher[current].monitor, TRUE)
  /\ apply.step = "build" /\ apply.monitor # None /\ apply.seed = None =>
       \A k \in due : CountsDown(apply.monitor, config, k)
  /\ current = None /\ apply.monitor = None =>
       selfStop.owed # None \/ \A k \in due : k = selfStop.countdown

LEMMA DueKept ==
  ASSUME ShapeInv, DueShape
  PROVE  SleepKept
<1>1. SUFFICES ASSUME NEW k \in due
               PROVE  Kept(k)
  BY DEF SleepKept
<1>2. CASE current # None
  BY <1>2 DEF DueShape, WatcherKeeps, Kept
<1>3. CASE current = None /\ apply.monitor = None
  BY <1>3 DEF DueShape, Kept
<1>4. CASE current = None /\ apply.monitor # None
  <2>1. apply.step = "build"
    BY <1>4 DEF ShapeInv, ApplyShape
  <2> QED
    BY <1>4, <2>1 DEF DueShape, CountsDown, Kept, ApplySteps
<1> QED
  BY <1>2, <1>3, <1>4

\* A step of a watcher or of its action: what is due is kept by the current
\* watcher, whose own steps are those that matter.
LEMMA WorkKeeps ==
  ASSUME ShapeInv, DueShape, NEW w \in Watchers, WorkStep(w),
         \/ current # w /\ due' \subseteq due
         \/ /\ current = w
            /\ \A k \in due' : WatcherKeeps(watcher'[w], action'[w], k)
            /\ apply.step = "seed" => watcher'[w].monitor = watcher[w].monitor
  PROVE  DueShape'
<1>1. UNCHANGED <<current, apply, config, selfStop>>
  BY DEF WorkStep, appVars, settingsVars
<1>2. CASE current # w /\ due' \subseteq due
  <2>1. current # None => watcher'[current] = watcher[current]
                          /\ action'[current] = action[current]
    BY <1>2 DEF WorkStep, ShapeInv, TypeOK
  <2>2. apply.step = "seed" => current # None
    BY DEF ShapeInv, ApplyShape
  <2> QED
    BY <1>1, <1>2, <2>1, <2>2 DEF DueShape
<1>3. CASE current = w /\ \A k \in due' : WatcherKeeps(watcher'[w], action'[w], k)
      /\ (apply.step = "seed" => watcher'[w].monitor = watcher[w].monitor)
  <2>1. current # None /\ apply.step # "build"
    BY <1>3, NoneApart DEF ShapeInv, ApplyShape
  <2> QED
    BY <1>1, <1>3, <2>1 DEF DueShape
<1> QED
  BY <1>2, <1>3

LEMMA KeptHere ==
  ASSUME ShapeInv, DueShape, NEW w \in Watchers, current = w, NEW k \in due
  PROVE  WatcherKeeps(watcher[w], action[w], k) /\ k \in Sessions /\ k # None
BY NoneApart DEF DueShape, ShapeInv, TypeOK

LEMMA PollRunningKeeps ==
  ASSUME ShapeInv, DueShape, NEW w \in Watchers, PollRunning(w)
  PROVE  DueShape'
<1>1. /\ WorkStep(w) /\ current = w /\ ~watcher[w].cancelled
      /\ watcher'[w].watched = watcher[w].watched
      /\ due' = {k \in due : k[1] # watcher[w].watched}
  BY PollRunningIs DEF WorkStep
<1>2. apply.step # "seed"
  BY <1>1 DEF ShapeInv, ApplyShape
<1>3. ASSUME NEW k \in due'
      PROVE  WatcherKeeps(watcher'[w], action'[w], k)
  <2>1. k \in due /\ k[1] # watcher[w].watched
    BY <1>1, <1>3
  <2>2. WatcherKeeps(watcher[w], action[w], k)
    BY <1>1, <2>1, KeptHere
  <2>3. /\ watcher[w].debt.carried /\ watcher[w].debt.key # None
        /\ ~CountsDown(watcher[w].monitor, watcher[w].watched, k)
    BY <2>1, <2>2, WatcherHere DEF WatcherKeeps, CountsDown, ActionFits
  <2>4. watcher'[w].debt = watcher[w].debt
    BY <2>3, PollRunningIs DEF ClearSessionDebtUnlessCarried
  <2>5. /\ action'[w].newest = (action[w].newest /\ watcher[w].debt.carried)
        /\ action'[w].covers = action[w].covers /\ action'[w].settled = action[w].settled
    BY PollRunningIs
  <2> QED
    BY <2>2, <2>3, <2>4, <2>5 DEF WatcherKeeps
<1> QED
  BY <1>1, <1>2, <1>3, WorkKeeps

LEMMA PollQuietKeeps ==
  ASSUME ShapeInv, DueShape, NEW w \in Watchers, NEW elapsed \in BOOLEAN,
         PollQuiet(w, elapsed)
  PROVE  DueShape'
<1> DEFINE x == watcher[w]
           a == action[w]
           y == watcher'[w]
           b == action'[w]
           s == LastSession(w)
           asks == Triggers(x.monitor, elapsed)
           again == Rearms(w, elapsed)
           fires == Fires(w, elapsed)
<1>1. /\ WorkStep(w) /\ current = w /\ ~x.cancelled /\ y.watched = x.watched
      /\ due' = IF x.monitor.state = "running" THEN due \cup {s} ELSE due
  BY PollQuietIs DEF WorkStep, DueAfter
<1>2. apply.step # "seed"
  BY <1>1 DEF ShapeInv, ApplyShape
<1>3. /\ x \in WatcherType /\ x.monitor \in MonitorOf(Sessions)
      /\ LifeFits(x, a, current = w) /\ ActionFits(x, a)
      /\ x.monitor.state \in {"idle", "running", "closed"}
  BY WatcherHere, WatcherFields, MonitorFields
<1>4. /\ y.monitor = MonitorAfter(w, elapsed) /\ y.debt = DebtAfter(w, elapsed)
      /\ y.monitor.state # "running"
      /\ y.monitor.key = IF x.monitor.state = "running" THEN s ELSE x.monitor.key
  <2>1. y.monitor = MonitorAfter(w, elapsed) /\ y.debt = DebtAfter(w, elapsed)
    BY PollQuietIs
  <2>2. MonitorAfter(w, elapsed).state # "running"
    BY QuietValues
  <2>3. MonitorAfter(w, elapsed).key =
          IF x.monitor.state = "running" THEN s ELSE x.monitor.key
    BY QuietValues
  <2> HIDE DEF x, y, s
  <2> QED
    BY <2>1, <2>2, <2>3
<1>5. /\ asks \/ again => y.debt.key # None
      /\ ~asks => y.debt = x.debt
      /\ asks => x.monitor.state = "closed"
      /\ ~asks /\ ~again =>
           y.monitor = IF x.monitor.state = "running" THEN NewMonitorContinuing(s)
                       ELSE x.monitor
  <2>1. asks \/ again => DebtAfter(w, elapsed).key # None
    BY QuietValues
  <2>2. ~asks => DebtAfter(w, elapsed) = x.debt
    BY QuietValues
  <2>3. asks => x.monitor.state = "closed"
    BY QuietValues
  <2>4. ~asks /\ ~again =>
          MonitorAfter(w, elapsed) =
            IF x.monitor.state = "running" THEN NewMonitorContinuing(s) ELSE x.monitor
    BY QuietValues
  <2> HIDE DEF x, y, s, asks, again
  <2> QED
    BY <1>4, <2>1, <2>2, <2>3, <2>4
<1>6. y.debt.carried = x.debt.carried
  <2>1. CASE asks
    <3>1. /\ x.debt \in DebtOf(Sessions) /\ x.monitor.key \in Keys
          /\ DebtAfter(w, elapsed) = QueueMonitorTrigger(x.debt, x.monitor.key)
      BY <1>3, <2>1, WatcherFields, MonitorFields, QuietValues
    <3> QED
      BY <1>4, <3>1, DebtTyped
  <2>2. CASE ~asks
    BY <1>5, <2>2
  <2> QED
    BY <2>1, <2>2
<1>7. s[1] = x.watched
  BY DEF LastSession
\* What the action has been told, or what a fresh one is told.
<1>8. /\ fires => b.covers = due' /\ ~b.settled
      /\ ~fires /\ b.newest =>
           /\ a.newest /\ ~asks /\ ~again
           /\ b.covers = a.covers /\ b.settled = a.settled
  <2>1. CASE fires
    BY <2>1, PollQuietIs
  <2>2. CASE ~fires
    <3>1. /\ b.newest = (a.newest /\ ~asks)
          /\ b.covers = a.covers /\ b.settled = a.settled
      BY <2>2, PollQuietIs
    <3>2. a.newest => ~again
      <4>1. a.newest => a.step # "none"
        BY <1>3 DEF LifeFits, NoAction
      <4> QED
        BY <4>1 DEF Rearms
    <3> QED
      BY <2>2, <3>1, <3>2
  <2> QED
    BY <2>1, <2>2
<1>9. ASSUME NEW k \in due'
      PROVE  WatcherKeeps(y, b, k)
  <2>1. CASE k \in due
    <3>1. WatcherKeeps(x, a, k)
      BY <1>1, <2>1, KeptHere
    <3>2. x.monitor.state = "running" => x.debt.key # None /\ x.debt.carried
      BY <3>1 DEF WatcherKeeps, NewMonitorContinuing
    <3>3. y.monitor = NewMonitorContinuing(k) \/ y.debt.key # None
      <4>1. CASE asks \/ again
        BY <1>5, <4>1
      <4>2. CASE ~asks /\ ~again
        BY <1>5, <3>1, <3>2, <4>2 DEF WatcherKeeps
      <4> QED
        BY <4>1, <4>2
    <3>4. ~y.debt.carried =>
            y.monitor.state # "running" /\ y.monitor.key = k /\ k[1] = y.watched
      BY <1>1, <1>4, <1>6, <3>1, <3>2 DEF WatcherKeeps
    <3>5. b.newest => k \in b.covers \/ CountsDown(y.monitor, y.watched, k)
      <4>1. CASE fires
        BY <1>8, <4>1
      <4>2. CASE ~fires
        <5> HAVE b.newest
        <5>1. k \in a.covers \/ CountsDown(x.monitor, x.watched, k)
          BY <1>8, <3>1, <4>2 DEF WatcherKeeps
        <5>2. CountsDown(x.monitor, x.watched, k) => y.monitor = x.monitor
          BY <1>5, <1>8, <4>2 DEF CountsDown, NewMonitorContinuing
        <5> QED
          BY <1>1, <1>8, <4>2, <5>1, <5>2
      <4> QED
        BY <4>1, <4>2
    <3>6. b.newest /\ b.settled => CountsDown(y.monitor, y.watched, k)
      <4>1. CASE fires
        BY <1>8, <4>1
      <4>2. CASE ~fires
        <5> HAVE b.newest /\ b.settled
        <5>1. CountsDown(x.monitor, x.watched, k)
          BY <1>8, <3>1, <4>2 DEF WatcherKeeps
        <5>2. y.monitor = x.monitor
          BY <1>5, <1>8, <4>2, <5>1 DEF CountsDown, NewMonitorContinuing
        <5> QED
          BY <1>1, <5>1, <5>2
      <4> QED
        BY <4>1, <4>2
    <3> QED
      BY <3>3, <3>4, <3>5, <3>6 DEF WatcherKeeps
  <2>2. CASE k \notin due
    <3>1. k = s /\ x.monitor.state = "running" /\ ~asks
      BY <1>1, <1>5, <1>9, <2>2
    <3>2. CASE again
      <4>1. y.debt.key # None
        BY <1>5, <3>2
      <4>2. y.monitor.state # "running" /\ y.monitor.key = k /\ k[1] = y.watched
        BY <1>1, <1>4, <1>7, <3>1
      <4>3. b.newest => k \in b.covers /\ ~b.settled
        BY <1>8, <1>9, <3>2
      <4> QED
        BY <4>1, <4>2, <4>3 DEF WatcherKeeps
    <3>3. CASE ~again
      <4>1. y.monitor = NewMonitorContinuing(k) /\ k[1] = y.watched
        BY <1>1, <1>5, <1>7, <3>1, <3>3
      <4> QED
        BY <4>1 DEF WatcherKeeps, CountsDown, NewMonitorContinuing
    <3> QED
      BY <3>2, <3>3
  <2> QED
    BY <2>1, <2>2
<1> QED
  BY <1>1, <1>2, <1>9, WorkKeeps

LEMMA StopKeeps ==
  ASSUME ShapeInv, DueShape, NEW w \in Watchers, SelfStop(w) \/ StopCancelled(w)
  PROVE  DueShape'
<1>1. /\ WorkStep(w) /\ due' = due /\ watcher'[w].watched = watcher[w].watched
      /\ watcher'[w].monitor = watcher[w].monitor
      /\ watcher'[w].debt = watcher[w].debt
      /\ action'[w].newest = action[w].newest /\ action'[w].covers = action[w].covers
      /\ action'[w].settled = action[w].settled
  BY StopIs, StopActionTyped, WatcherHere DEF WorkStep, history
<1>2. ASSUME current = w, NEW k \in due'
      PROVE  WatcherKeeps(watcher'[w], action'[w], k)
  BY <1>1, <1>2, KeptHere DEF WatcherKeeps
<1> QED
  BY <1>1, <1>2, WorkKeeps

LEMMA JoinKeeps ==
  ASSUME ShapeInv, DueShape, NEW w \in Watchers, MarkExited(w) \/ JoinAction(w)
  PROVE  DueShape'
<1>1. /\ WorkStep(w) /\ due' = due /\ watcher'[w].watched = watcher[w].watched
      /\ watcher'[w].monitor = watcher[w].monitor
      /\ watcher'[w].debt = watcher[w].debt
      /\ ~action'[w].newest
  BY JoinIs DEF WorkStep, history, NoAction
<1>2. ASSUME current = w, NEW k \in due'
      PROVE  WatcherKeeps(watcher'[w], action'[w], k)
  BY <1>1, <1>2, KeptHere DEF WatcherKeeps
<1> QED
  BY <1>1, <1>2, WorkKeeps

\* An action takes what it covers with it when it settles.
LEMMA AdvanceKeeps ==
  ASSUME ShapeInv, DueShape, NEW w \in Watchers, NEW step, Advances(w, step),
         \/ due' = due /\ action'[w].settled \in {FALSE, action[w].settled}
         \/ due' = due \ action[w].covers
  PROVE  DueShape'
<1>1. /\ WorkStep(w) /\ due' \subseteq due /\ watcher'[w] = watcher[w]
      /\ action'[w].newest = action[w].newest /\ action'[w].covers = action[w].covers
  BY DEF Advances
<1>2. ASSUME current = w, NEW k \in due'
      PROVE  WatcherKeeps(watcher'[w], action'[w], k)
  <2>1. WatcherKeeps(watcher[w], action[w], k)
    BY <1>1, <1>2, KeptHere
  <2>2. CASE due' = due /\ action'[w].settled \in {FALSE, action[w].settled}
    BY <1>1, <2>1, <2>2 DEF WatcherKeeps
  <2>3. CASE due' = due \ action[w].covers
    <3>1. k \notin action[w].covers
      BY <1>2, <2>3
    <3> QED
      BY <1>1, <2>1, <3>1 DEF WatcherKeeps
  <2> QED
    BY <2>2, <2>3
<1> QED
  BY <1>1, <1>2, WorkKeeps

LEMMA ActionKeeps ==
  ASSUME ShapeInv, DueShape, NEW w \in Watchers,
         \/ GiveUp(w) \/ Deduplicate(w) \/ StartScan(w) \/ ScanEnds(w)
         \/ ScanReturns(w)
         \/ \E settled \in BOOLEAN : PowerReturns(w, settled)
  PROVE  DueShape'
<1>1. CASE GiveUp(w)
  BY <1>1, GiveUpIs, AdvanceKeeps DEF history
<1>2. CASE Deduplicate(w)
  BY <1>2, DeduplicateIs, AdvanceKeeps
<1>3. CASE StartScan(w)
  BY <1>3, StartScanIs, AdvanceKeeps DEF history
<1>4. CASE ScanReturns(w)
  BY <1>4, ScanReturnsIs, AdvanceKeeps DEF history
<1>5. CASE ScanEnds(w) \/ \E settled \in BOOLEAN : PowerReturns(w, settled)
  BY <1>5, ConcludeIs, AdvanceKeeps DEF history
<1> QED
  BY <1>1, <1>2, <1>3, <1>4, <1>5

LEMMA FinishKeeps ==
  ASSUME ShapeInv, DueShape, NEW w \in Watchers, FinishTrigger(w)
  PROVE  DueShape'
<1>1. /\ WorkStep(w) /\ due' = due /\ watcher'[w].watched = watcher[w].watched
      /\ watcher'[w].monitor = watcher[w].monitor
      /\ watcher'[w].debt = IF action[w].newest /\ action[w].settled THEN NoDebt
                            ELSE watcher[w].debt
      /\ ~action'[w].newest
  BY FinishIs DEF WorkStep, history
<1>2. ASSUME current = w, NEW k \in due'
      PROVE  WatcherKeeps(watcher'[w], action'[w], k)
  <2>1. WatcherKeeps(watcher[w], action[w], k)
    BY <1>1, <1>2, KeptHere
  <2>2. CASE action[w].newest /\ action[w].settled
    <3>1. CountsDown(watcher[w].monitor, watcher[w].watched, k)
      BY <2>1, <2>2 DEF WatcherKeeps
    <3> QED
      BY <1>1, <3>1 DEF WatcherKeeps, CountsDown, NewMonitorContinuing
  <2>3. CASE ~(action[w].newest /\ action[w].settled)
    BY <1>1, <2>1, <2>3 DEF WatcherKeeps
  <2> QED
    BY <2>2, <2>3
<1> QED
  BY <1>1, <1>2, WorkKeeps

LEMMA WorkDue ==
  ASSUME ShapeInv, DueShape, NEW w \in Watchers, WatcherNext(w) \/ ActionNext(w)
  PROVE  DueShape'
<1>1. CASE PollRunning(w) \/ \E elapsed \in BOOLEAN : PollQuiet(w, elapsed)
  BY <1>1, PollRunningKeeps, PollQuietKeeps
<1>2. CASE SelfStop(w) \/ StopCancelled(w) \/ MarkExited(w) \/ JoinAction(w)
  BY <1>2, StopKeeps, JoinKeeps
<1>3. CASE ActionNext(w)
  BY <1>3, ActionKeeps, FinishKeeps DEF ActionNext
<1> QED
  BY <1>1, <1>2, <1>3 DEF WatcherNext

\* Nobody touches what keeps the sleeps, or no settings call holds any of it.
LEMMA DueStays ==
  ASSUME ShapeInv, ShapeInv', DueShape,
         UNCHANGED <<watcher, action, current, selfStop, due>>,
         \/ UNCHANGED <<apply, config>>
         \/ apply.monitor = None /\ apply'.monitor = None
  PROVE  DueShape'
<1>1. apply'.step = "seed" => apply'.monitor # None
  BY DEF ShapeInv, ApplyShape
<1> QED
  BY <1>1 DEF DueShape

LEMMA ApplyCancelKeeps ==
  ASSUME ShapeInv, DueShape, ApplyCancel
  PROVE  DueShape'
<1>1. /\ UNCHANGED <<current, selfStop, action, due>> /\ apply.monitor = None
      /\ apply'.monitor = None /\ apply'.step # "seed"
  BY ApplyCancelIs DEF history
<1>2. current # None =>
        /\ watcher'[current].monitor = watcher[current].monitor
        /\ watcher'[current].debt = watcher[current].debt
        /\ watcher'[current].watched = watcher[current].watched
  BY ApplyCancelIs, CancelIs
<1> QED
  BY <1>1, <1>2 DEF DueShape, WatcherKeeps

\* The monitor of a replaced watcher whose debt was not inherited.
LEMMA ReplacementKeeps ==
  ASSUME NEW x \in WatcherType, NEW a, NEW k \in Sessions, WatcherKeeps(x, a, k),
         ~x.debt.carried, NEW owed \in BOOLEAN, owed \/ x.debt.key = None
  PROVE  CountsDown(Replacement(x.monitor, owed), x.watched, k)
<1>1. /\ x.monitor.key = k /\ k[1] = x.watched /\ k # None
      /\ x.debt.key = None => x.monitor = NewMonitorContinuing(k)
  BY NoneApart DEF WatcherKeeps
<1>2. CASE owed
  BY <1>1, <1>2 DEF CountsDown, Replacement
<1>3. CASE ~owed
  BY <1>1, <1>3 DEF CountsDown, Replacement
<1> QED
  BY <1>2, <1>3

LEMMA SnapshotKeeps ==
  ASSUME ShapeInv, DueShape, ApplySnapshot
  PROVE  DueShape'
<1> DEFINE old == watcher[current]
<1>1. /\ current \in Watchers /\ current # None /\ UNCHANGED <<watcher, action, config>>
      /\ selfStop' = NoSelfStop /\ old \in WatcherType
      /\ old.debt.carried => old.debt.key # None
      /\ old.debt.carried \in BOOLEAN
  <2>1. /\ current \in Watchers /\ UNCHANGED <<watcher, action, config, selfStop>>
    BY SnapshotIs DEF watcherVars
  <2>2. selfStop = NoSelfStop
    BY <2>1, NoneApart DEF ShapeInv, SelfStopShape
  <2> QED
    BY <2>1, <2>2, NoneApart, WatcherHere, WatcherFields, DebtTyped DEF ActionFits
<1>2. \A k \in due : WatcherKeeps(old, action[current], k) /\ k \in Sessions
  BY <1>1, KeptHere
<1>3. CASE /\ old.watched = config /\ due' = due /\ apply'.seed = None
           /\ apply'.monitor = Replacement(old.monitor, old.debt.key # None)
           /\ apply'.monitor \in MonitorOf(Sessions)
           /\ IF old.debt.carried /\ old.debt.key # None
                THEN apply'.step = "seed" /\ current' = current
                ELSE apply'.step = "build" /\ current' = None
  <2>1. apply'.monitor # None
    BY <1>3, MonitorFields
  <2>2. CASE old.debt.carried
    <3>1. apply'.step = "seed" /\ current' = current /\ old.debt.key # None
      BY <1>1, <1>3, <2>2
    <3>2. (old.debt.key # None) = TRUE
      BY <3>1
    <3>3. apply'.monitor = Replacement(old.monitor, TRUE)
      BY <1>3, <3>2
    <3> QED
      BY <1>1, <1>3, <2>1, <3>1, <3>3 DEF DueShape
  <2>3. CASE ~old.debt.carried
    <3>1. apply'.step = "build" /\ current' = None
      BY <1>3, <2>3
    <3>2. \A k \in due : CountsDown(apply'.monitor, config, k)
      BY <1>1, <1>2, <1>3, <2>3, ReplacementKeeps
    <3> QED
      BY <1>1, <1>3, <2>1, <3>1, <3>2 DEF DueShape
  <2> QED
    BY <2>2, <2>3
<1>4. CASE /\ old.watched # config /\ SnapshotNewTarget
           /\ apply'.step = "build" /\ current' = None
           /\ apply'.seed = old.debt.key
           /\ apply'.monitor = IF old.debt.key = None THEN None
                               ELSE NewMonitorContinuing(old.debt.key)
  <2>1. CASE old.debt.key # None
    <3>1. old.debt.key \in Sessions
      BY <1>1, <2>1, WatcherFields, DebtTyped DEF Keys
    <3>2. apply'.monitor # None
      BY <1>4, <2>1, <3>1, NewMonitorTyped, MonitorFields
    <3> QED
      BY <1>4, <2>1, <3>2 DEF DueShape
  <2>2. CASE old.debt.key = None
    <3>1. \A k \in due : old.monitor = NewMonitorContinuing(k)
      BY <1>2, <2>2 DEF WatcherKeeps
    <3>2. due' = IF old.monitor.state = "closed"
                   THEN due \ ({old.monitor.key} \ {old.debt.key}) ELSE due
      BY <1>4 DEF SnapshotNewTarget
    <3>3. ASSUME NEW k \in due
          PROVE  old.monitor.state = "closed" /\ old.monitor.key = k
      <4>1. old.monitor = [state |-> "closed", key |-> k]
        BY <3>1, <3>3 DEF NewMonitorContinuing
      <4> QED
        BY <4>1
    <3>4. None \notin due
      BY NoneApart DEF ShapeInv, TypeOK
    <3>5. due' = {}
      BY <2>2, <3>2, <3>3, <3>4
    <3> QED
      BY <1>4, <2>2, <3>5 DEF DueShape
  <2> QED
    BY <2>1, <2>2
<1> QED
  BY <1>3, <1>4, SnapshotIs

LEMMA SeedKeeps ==
  ASSUME ShapeInv, DueShape, ApplySeed
  PROVE  DueShape'
<1> DEFINE old == watcher[current]
<1>1. /\ UNCHANGED <<watcher, action, config, due>> /\ apply.step = "seed"
      /\ current \in Watchers /\ current # None /\ old.watched = config
      /\ apply.monitor # None
      /\ apply'.step = "build" /\ current' = None
      /\ apply'.monitor = apply.monitor /\ apply'.seed = old.debt.key
  BY SeedIs, NoneApart DEF watcherVars, history
<1>2. CASE old.debt.key # None
  BY <1>1, <1>2 DEF DueShape
<1>3. CASE old.debt.key = None
  <2>1. apply.monitor = Replacement(old.monitor, TRUE)
    BY <1>1 DEF DueShape
  <2>2. old \in WatcherType /\ ~old.debt.carried
    BY <1>1, <1>3, WatcherHere DEF ActionFits
  <2>3. ASSUME NEW k \in due
        PROVE  CountsDown(apply.monitor, config, k)
    <3>1. k \in Sessions /\ WatcherKeeps(old, action[current], k)
      BY <1>1, KeptHere
    <3> QED
      BY <1>1, <2>1, <2>2, <3>1, ReplacementKeeps
  <2> QED
    BY <1>1, <2>3 DEF DueShape
<1> QED
  BY <1>2, <1>3

LEMMA NothingDue ==
  ASSUME due' = {}, apply'.step # "seed"
  PROVE  DueShape'
BY DEF DueShape

\* What the new watcher starts from keeps what is due.
LEMMA BuildKeeps ==
  ASSUME ShapeInv, DueShape, NEW w \in Watchers, ApplyBuild(w)
  PROVE  DueShape'
<1>1. /\ apply.step = "build" /\ current = None /\ current' = w /\ w # None
      /\ watcher'[w].watched = config /\ ~action'[w].newest
      /\ watcher'[w].monitor = FirstMonitor /\ watcher'[w].debt = FirstDebt
      /\ due' = {k \in due : selfStop.countdown = k => k[1] = config}
      /\ apply'.step = "idle" /\ apply'.monitor = None
  BY BuildIs, EndIs, NoneApart DEF NoAction
<1>2. ASSUME NEW k \in due'
      PROVE  WatcherKeeps(watcher'[w], action'[w], k)
  <2>1. k \in due /\ k \in Sessions /\ (selfStop.countdown = k => k[1] = config)
    BY <1>1, <1>2 DEF ShapeInv, TypeOK
  <2>2. \/ FirstDebt.carried /\ FirstDebt.key # None
        \/ CountsDown(FirstMonitor, config, k)
    <3>1. CASE apply.monitor # None /\ apply.seed # None
      BY <3>1 DEF FirstDebt, SeedOwedSession
    <3>2. CASE apply.monitor # None /\ apply.seed = None
      BY <1>1, <2>1, <3>2 DEF DueShape, FirstMonitor
    <3>3. CASE apply.monitor = None /\ selfStop.owed # None
      BY <3>3 DEF FirstDebt, SeedOwedSession
    <3>4. CASE apply.monitor = None /\ selfStop.owed = None
      <4>1. k = selfStop.countdown /\ k # None
        BY <1>1, <2>1, <3>4, NoneApart DEF DueShape
      <4> QED
        BY <2>1, <3>4, <4>1 DEF FirstMonitor, CountsDown
    <3> QED
      BY <3>1, <3>2, <3>3, <3>4
  <2> QED
    BY <1>1, <2>2 DEF WatcherKeeps, CountsDown, NewMonitorContinuing
<1> QED
  BY <1>1, <1>2 DEF DueShape

LEMMA ReapKeeps ==
  ASSUME ShapeInv, DueShape, NEW w \in Watchers, ReapCancelled(w) \/ ReapFailed(w)
  PROVE  DueShape'
<1>1. /\ UNCHANGED <<apply, config, action, due>>
      /\ \A v \in Watchers \ {w} : watcher'[v] = watcher[v]
  BY ReapIs DEF settingsVars, history
<1>2. CASE current # w /\ UNCHANGED <<current, failures, selfStop, cleared>>
  <2>1. current # None => watcher'[current] = watcher[current]
    BY <1>1, <1>2 DEF ShapeInv, TypeOK
  <2>2. apply.step = "seed" => current # None
    BY DEF ShapeInv, ApplyShape
  <2> QED
    BY <1>1, <1>2, <2>1, <2>2 DEF DueShape
<1>3. CASE current = w /\ current' = None /\ AppFree /\ selfStop' = LeftBy(watcher[w])
  <2>1. apply.monitor = None /\ apply.step # "seed"
    BY <1>3, OutsideSteps DEF AppFree, ApplySteps
  <2>2. selfStop = NoSelfStop /\ watcher[w] \in WatcherType
    BY <1>3, NoneApart, WatcherHere DEF ShapeInv, SelfStopShape
  <2>3. selfStop'.owed # None \/ \A k \in due : k = selfStop'.countdown
    <3>1. CASE watcher[w].debt.key # None
      BY <1>3, <2>2, <3>1, LeftByTyped
    <3>2. CASE watcher[w].debt.key = None
      <4>1. ASSUME NEW k \in due
            PROVE  k = selfStop'.countdown
        <5>1. watcher[w].monitor = NewMonitorContinuing(k)
          BY <1>3, <3>2, KeptHere DEF WatcherKeeps
        <5>2. watcher[w].monitor.state = "closed" /\ watcher[w].monitor.key = k
          BY <5>1 DEF NewMonitorContinuing
        <5> QED
          BY <1>3, <2>2, <3>2, <5>2, LeftByTyped
      <4> QED
        BY <4>1
    <3> QED
      BY <3>1, <3>2
  <2> QED
    BY <1>1, <1>3, <2>1, <2>3 DEF DueShape
<1> QED
  BY <1>2, <1>3, ReapIs

LEMMA DueStep == ShapeInv /\ ShapeInv' /\ DueShape /\ [Next]_vars => DueShape'
<1> SUFFICES ASSUME ShapeInv, ShapeInv', DueShape, [Next]_vars
             PROVE  DueShape'
  OBVIOUS
<1>1. CASE \E t \in Targets : Launch(t) \/ Quit(t)
  BY <1>1, DueStays DEF Launch, Quit, appVars, settingsVars, watcherVars, history
<1>2. CASE \E w \in Watchers : WatcherNext(w) \/ ActionNext(w)
  BY <1>2, WorkDue
<1>3. CASE SettingsNext
  <2>1. CASE \E settings \in Targets \cup {None} :
               \/ \E newDelay \in BOOLEAN : Save(settings, newDelay)
               \/ SaveFails(settings)
    <3>1. UNCHANGED <<watcher, action, current, selfStop, due>> /\ apply'.monitor = None
      BY <2>1, Zenon DEF Save, SaveFails, appVars, watcherVars, history, NoApply
    <3>2. apply.monitor = None
      BY <2>1, OutsideSteps DEF Save, SaveFails, SettingsFree, AppFree, ApplySteps
    <3> QED
      BY <3>1, <3>2, DueStays
  <2>2. CASE SettingsMatch
    <3>1. UNCHANGED <<watcher, action, current, selfStop, due>> /\ apply.step = "match"
      BY <2>2 DEF SettingsMatch, appVars, watcherVars, history
    <3>2. apply.monitor = None
      BY <3>1, OutsideSteps DEF AppFree, ApplySteps
    <3>3. apply'.monitor = None
      <4>1. CASE EndApply
        BY <4>1, EndIs
      <4>2. CASE apply' = [apply EXCEPT !.step = "apply"]
        <5>1. apply \in ApplyType
          BY CountsTyped
        <5> QED
          BY <3>2, <4>2, <5>1 DEF ApplyType
      <4> QED
        BY <2>2, <4>1, <4>2 DEF SettingsMatch
    <3> QED
      BY <3>1, <3>2, <3>3, DueStays
  <2>3. CASE ApplyCancel \/ ApplySnapshot \/ ApplySeed
    BY <2>3, ApplyCancelKeeps, SnapshotKeeps, SeedKeeps
  <2>4. CASE ApplyDetach
    BY <2>4, EndIs, NothingDue DEF ApplyDetach
  <2>5. CASE \E w \in Watchers : ApplyBuild(w)
    BY <2>5, BuildKeeps
  <2> QED
    BY <1>3, <2>1, <2>2, <2>3, <2>4, <2>5 DEF SettingsNext
<1>4. CASE RebuildNext
  <2>1. CASE \E w \in Watchers : ReapCancelled(w) \/ ReapFailed(w)
    BY <2>1, ReapKeeps
  <2>2. CASE ReadEnabled \/ ScheduleRebuild \/ TimerFires \/ SkipRebuild \/ Recheck
    BY <2>2, DueStays DEF ReadEnabled, ScheduleRebuild, TimerFires, SkipRebuild, Recheck,
         appVars, settingsVars, watcherVars, history
  <2>3. CASE \E saved \in BOOLEAN : Rebuild(saved)
    <3>1. /\ UNCHANGED <<watcher, action, current, selfStop, due>>
          /\ apply'.monitor = None /\ apply.step = "idle"
      BY <2>3 DEF Rebuild, SettingsFree, appVars, watcherVars, history, NoApply
    <3>2. apply.monitor = None
      BY <3>1, OutsideSteps DEF AppFree, ApplySteps
    <3> QED
      BY <3>1, <3>2, DueStays
  <2> QED
    BY <1>4, <2>1, <2>2, <2>3 DEF RebuildNext
<1>5. CASE BeginShutdown
  BY <1>5, DueStays DEF BeginShutdown, appVars, settingsVars, watcherVars, history
<1>6. CASE StopAutoSleep
  BY <1>6, StopAutoSleepIs, NothingDue DEF AppFree, ApplySteps, settingsVars
<1>7. CASE Exited \/ UNCHANGED vars
  BY <1>7, DueStays DEF Exited, vars, appVars, settingsVars, watcherVars, history
<1> QED
  BY <1>1, <1>2, <1>3, <1>4, <1>5, <1>6, <1>7 DEF Next

\* What keeps the outstanding sleeps, at every moment.
THEOREM DueIsKept == Spec => []DueShape
<1>1. Init => DueShape
  BY DEF Init, DueShape, NoApply
<1>2. ShapeInv /\ ShapeInv' /\ DueShape /\ [Next]_vars => DueShape'
  BY DueStep
<1> QED
  BY <1>1, <1>2, WatchersInStep, PTL DEF Spec

\* What is due is behind the current watcher's own debt only under its name.
LEMMA OwnDebtKept ==
  ASSUME ShapeInv, DueShape
  PROVE  OwnDebtOwnSession
<1>1. SUFFICES ASSUME current # None, watcher[current].debt.key # None,
                      ~watcher[current].debt.carried, NEW k \in due
               PROVE  k = watcher[current].debt.key
  BY DEF OwnDebtOwnSession
<1>2. current \in Watchers /\ ActionFits(watcher[current], action[current])
  BY <1>1, WatcherHere DEF ShapeInv, TypeOK
<1>3. WatcherKeeps(watcher[current], action[current], k)
  BY <1>1 DEF DueShape
<1> QED
  BY <1>1, <1>2, <1>3 DEF WatcherKeeps, ActionFits, OwnsLast

\* A closed session whose sleep is outstanding is not dropped on the way to its
\* action: not by a cancelled action, a new delay, a new target, a watcher that
\* stops itself or its rebuild (watcher.go:180-189, auto_sleep.go:137-172 and
\* 276-312); and what is outstanding behind a watcher's own debt is the session
\* which that debt names.
THEOREM NoSleepDropped == Spec => []SleepInv
<1>1. ShapeInv /\ DueShape => SleepInv
  BY DueKept, OwnDebtKept DEF ShapeInv, SleepInv
<1> QED
  BY <1>1, WatchersInStep, DueIsKept, PTL

\* Under a debt of its own an action that finds its session settled loses none.
LEMMA DeduplicateLoses ==
  ASSUME ShapeInv, DueShape, NEW w \in Watchers, Deduplicate(w),
         ~watcher[w].debt.carried
  PROVE  lost' = lost
<1>1. action[w].step = "slot" /\ ~watcher[w].cancelled /\ ~action[w].stopped
  BY DEF Deduplicate, MayAct, Stopped
<1>2. /\ LifeFits(watcher[w], action[w], current = w)
      /\ ActionFits(watcher[w], action[w]) /\ watcher[w] \in WatcherType
  BY WatcherHere
<1>3. current = w
  BY <1>1, <1>2 DEF LifeFits, WatcherType
<1>4. action[w].key = watcher[w].debt.key /\ watcher[w].debt.key # None
  BY <1>1, <1>2 DEF ActionFits, Working
<1>5. OwnDebtOwnSession
  BY OwnDebtKept
<1>6. due \subseteq {action[w].key}
  BY <1>3, <1>4, <1>5, NoneApart DEF OwnDebtOwnSession
<1> QED
  BY <1>6 DEF Deduplicate

LEMMA LoseStep ==
  ASSUME ShapeInv, DueShape, Next
  PROVE  \/ lost' = lost
         \/ \E w \in Watchers : Deduplicate(w) /\ watcher[w].debt.carried
<1>1. CASE \E t \in Targets : Launch(t) \/ Quit(t)
  BY <1>1 DEF Launch, Quit, history
<1>2. CASE \E w \in Watchers : WatcherNext(w)
  BY <1>2 DEF WatcherNext, PollRunning, PollQuiet, SelfStop, StopCancelled, MarkExited,
     JoinAction, history
<1>3. ASSUME NEW w \in Watchers, ActionNext(w), ~Deduplicate(w)
      PROVE  lost' = lost
  BY <1>3 DEF ActionNext, GiveUp, StartScan, ScanEnds, ScanReturns, PowerReturns, Conclude,
     FinishTrigger, history
<1>4. CASE SettingsNext
  BY <1>4 DEF SettingsNext, Save, SaveFails, SettingsMatch, ApplyCancel, ApplySnapshot,
     ApplySeed, ApplyDetach, ApplyBuild, history
<1>5. CASE RebuildNext
  BY <1>5 DEF RebuildNext, ReapCancelled, ReapFailed, ReadEnabled, ScheduleRebuild,
     TimerFires, SkipRebuild, Recheck, Rebuild, history
<1>6. CASE BeginShutdown \/ StopAutoSleep \/ Exited
  BY <1>6 DEF BeginShutdown, StopAutoSleep, Exited, vars, history
<1> QED
  BY <1>1, <1>2, <1>3, <1>4, <1>5, <1>6, DeduplicateLoses DEF Next

\* Only an action that serves an inherited debt ever gives a closed session up
\* unslept: the debt of a watcher that was replaced or has stopped itself, which
\* later countdowns have joined (watcher.go:213-227, auto_sleep.go:689-693).
THEOREM OnlyInheritedDebtsLose ==
  Spec => [][lost' = lost
             \/ \E w \in Watchers : Deduplicate(w) /\ watcher[w].debt.carried]_vars
<1>1. ShapeInv /\ DueShape /\ [Next]_vars
        => [lost' = lost
            \/ \E w \in Watchers : Deduplicate(w) /\ watcher[w].debt.carried]_vars
  BY LoseStep
<1> QED
  BY <1>1, WatchersInStep, DueIsKept, PTL DEF Spec

-----------------------------------------------------------------------------
(* The third invariant: what is the last session of a process is news, as  *)
(* long as its close has not been seen.                                    *)

NamedBy(x, a, k) == a.key = k \/ x.debt.key = k \/ x.monitor.key = k

\* The keys that are in use anywhere, and those of sessions settled before.
Named(k) ==
  \/ k \in slept \/ settledSession = k \/ selfStop.owed = k \/ selfStop.countdown = k
  \/ apply.seed = k \/ (apply.monitor # None /\ apply.monitor.key = k)
  \/ \E w \in Watchers : NamedBy(watcher[w], action[w], k)

\* The last session of t goes on, or its close has not been seen.
Fresh(t) ==
  \/ running[t]
  \/ /\ current # None /\ watcher[current].watched = t
     /\ watcher[current].monitor.state = "running"
  \/ apply.monitor # None /\ apply.monitor.state = "running" /\ config = t

FreshShape ==
  \A k \in Sessions :
    Named(k) => k[2] <= session[k[1]] /\ (Fresh(k[1]) => k[2] < session[k[1]])

\* No key is named that was not, and no process has become fresh.
LEMMA FreshStays ==
  ASSUME FreshShape, session' = session,
         \A k \in Sessions : Named(k)' => Named(k),
         \A t \in Targets : Fresh(t)' => Fresh(t)
  PROVE  FreshShape'
<1>1. \A k \in Sessions : k[1] \in Targets
  BY DEF Sessions
<1> QED
  BY <1>1 DEF FreshShape

\* A step of a watcher or of its action that names no new key.
LEMMA WorkFresh ==
  ASSUME ShapeInv, FreshShape, NEW w \in Watchers, WorkStep(w),
         \A k \in Sessions :
           k \in slept' \/ settledSession' = k \/ NamedBy(watcher'[w], action'[w], k)
             => Named(k),
         watcher'[w].monitor.state = "running" =>
           watcher[w].monitor.state = "running" \/ running[watcher[w].watched]
  PROVE  FreshShape'
<1>1. /\ UNCHANGED <<running, session, current, selfStop, apply, config>>
      /\ \A v \in Watchers \ {w} : watcher'[v] = watcher[v] /\ action'[v] = action[v]
      /\ watcher'[w].watched = watcher[w].watched
  BY DEF WorkStep, processVars, appVars, settingsVars
<1>2. ASSUME NEW k \in Sessions, Named(k)'
      PROVE  Named(k)
  BY <1>1, <1>2 DEF Named
<1>3. ASSUME NEW t \in Targets, Fresh(t)'
      PROVE  Fresh(t)
  <2>1. current # None => current \in Watchers
    BY DEF ShapeInv, TypeOK
  <2> QED
    BY <1>1, <1>3, <2>1 DEF Fresh
<1> QED
  BY <1>1, <1>2, <1>3, FreshStays

\* The keys of the watcher whose turn it is are named.
LEMMA NamesHere ==
  ASSUME NEW w \in Watchers
  PROVE  Named(action[w].key) /\ Named(watcher[w].debt.key) /\ Named(watcher[w].monitor.key)
BY DEF Named, NamedBy

LEMMA PollRunningFresh ==
  ASSUME ShapeInv, FreshShape, NEW w \in Watchers, PollRunning(w)
  PROVE  FreshShape'
<1>1. /\ WorkStep(w) /\ UNCHANGED <<slept, settledSession>>
      /\ running[watcher[w].watched]
      /\ action'[w].key = action[w].key
      /\ watcher'[w].monitor = PollUp(watcher[w].monitor)
      /\ watcher'[w].debt = ClearSessionDebtUnlessCarried(watcher[w].debt)
  BY PollRunningIs DEF slotVars
<1>2. watcher'[w].monitor.key = watcher[w].monitor.key
  BY <1>1, WatcherHere, WatcherFields, PollUpTyped
<1>3. watcher'[w].debt.key \in {watcher[w].debt.key, None}
  BY <1>1 DEF ClearSessionDebtUnlessCarried, NoDebt
<1>4. ASSUME NEW k \in Sessions,
             k \in slept' \/ settledSession' = k \/ NamedBy(watcher'[w], action'[w], k)
      PROVE  Named(k)
  BY <1>1, <1>2, <1>3, <1>4, NoneApart DEF Named, NamedBy
<1> QED
  BY <1>1, <1>4, WorkFresh

\* Debt and action take their keys from the debt and the monitor before; the
\* monitor names a session anew only when it sees its close.
LEMMA QuietNames ==
  ASSUME ShapeInv, NEW w \in Watchers, NEW elapsed \in BOOLEAN, PollQuiet(w, elapsed)
  PROVE  /\ watcher'[w].debt.key \in {watcher[w].debt.key, watcher[w].monitor.key}
         /\ action'[w].key \in {action[w].key, watcher[w].debt.key, watcher[w].monitor.key}
         /\ watcher'[w].monitor.key = IF watcher[w].monitor.state = "running"
                                        THEN LastSession(w) ELSE watcher[w].monitor.key
         /\ watcher'[w].monitor.state # "running"
         /\ watcher[w].monitor.state = "running" => LastSession(w) \in Sessions
<1> DEFINE m == watcher[w].monitor
           d == watcher[w].debt
<1>1. /\ m \in MonitorOf(Sessions) /\ d \in DebtOf(Sessions) /\ m.key \in Keys
      /\ watcher[w].pending # None => watcher[w].pending = d.key
  BY WatcherHere, WatcherFields, MonitorFields DEF ActionFits
<1>2. DebtAfter(w, elapsed).key \in {d.key, m.key}
  <2>1. CASE Triggers(m, elapsed)
    <3>1. DebtAfter(w, elapsed) = QueueMonitorTrigger(d, m.key)
      BY <2>1, QuietValues
    <3> QED
      BY <1>1, <3>1, DebtTyped
  <2>2. CASE ~Triggers(m, elapsed)
    BY <2>2, QuietValues
  <2> QED
    BY <2>1, <2>2
<1>3. PendingAfter(w, elapsed) # None => PendingAfter(w, elapsed) \in {d.key, m.key}
  BY <1>1, <1>2, QuietValues
<1>4. /\ MonitorAfter(w, elapsed).state # "running"
      /\ MonitorAfter(w, elapsed).key =
           IF m.state = "running" THEN LastSession(w) ELSE m.key
      /\ m.state = "running" => LastSession(w) \in Sessions
  BY QuietValues
<1>5. action'[w].key \in {action[w].key, d.key, m.key}
  BY <1>3, PollQuietIs
<1>6. watcher'[w].monitor = MonitorAfter(w, elapsed) /\ watcher'[w].debt = DebtAfter(w, elapsed)
  BY PollQuietIs
<1> QED
  BY <1>2, <1>4, <1>5, <1>6

LEMMA PollQuietFresh ==
  ASSUME ShapeInv, FreshShape, NEW w \in Watchers, NEW elapsed \in BOOLEAN,
         PollQuiet(w, elapsed)
  PROVE  FreshShape'
<1>1. /\ WorkStep(w) /\ UNCHANGED <<slept, settledSession>>
      /\ current = w /\ ~watcher[w].cancelled
      /\ ~running[watcher[w].watched] /\ watcher[w].watched \in Targets
  BY PollQuietIs DEF slotVars
<1>2. /\ UNCHANGED <<running, session, current, selfStop, apply, config>>
      /\ \A v \in Watchers \ {w} : watcher'[v] = watcher[v] /\ action'[v] = action[v]
      /\ watcher'[w].watched = watcher[w].watched
  BY <1>1 DEF WorkStep, processVars, appVars, settingsVars
<1>3. CASE watcher[w].monitor.state # "running"
  <2>1. ASSUME NEW k \in Sessions,
               k \in slept' \/ settledSession' = k \/ NamedBy(watcher'[w], action'[w], k)
        PROVE  Named(k)
    BY <1>1, <1>3, <2>1, QuietNames, NamesHere DEF Named, NamedBy
  <2> QED
    BY <1>1, <2>1, QuietNames, WorkFresh
<1>4. CASE watcher[w].monitor.state = "running"
  <2> DEFINE s == LastSession(w)
             t == watcher[w].watched
  <2>1. apply.monitor = None
    BY <1>1, NoneApart DEF ShapeInv, ApplyShape
  <2>2. ~Fresh(t)'
    BY <1>1, <1>2, <2>1, QuietNames DEF Fresh
  <2>3. \A u \in Targets : Fresh(u)' => Fresh(u)
    BY <1>1, <1>2, <2>1, QuietNames DEF Fresh
  <2>4. ASSUME NEW k \in Sessions, Named(k)', k # s
        PROVE  Named(k)
    BY <1>1, <1>2, <1>4, <2>4, QuietNames, NamesHere DEF Named, NamedBy
  <2>5. s \in Sessions /\ s[1] = t /\ s[2] = session[t]
    BY <1>4, QuietNames DEF LastSession
  <2>6. session[t] \in Nat
    BY <1>1, WatcherHere
  <2>7. ASSUME NEW k \in Sessions, Named(k)'
        PROVE  k[2] <= session'[k[1]] /\ (Fresh(k[1])' => k[2] < session'[k[1]])
    <3>1. CASE k = s
      BY <1>2, <2>2, <2>5, <2>6, <3>1
    <3>2. CASE k # s
      <4>1. k[1] \in Targets
        BY DEF Sessions
      <4> QED
        BY <1>2, <2>3, <2>4, <2>7, <3>2, <4>1 DEF FreshShape
    <3> QED
      BY <3>1, <3>2
  <2> QED
    BY <2>7 DEF FreshShape
<1> QED
  BY <1>3, <1>4

LEMMA StopFresh ==
  ASSUME ShapeInv, FreshShape, NEW w \in Watchers, SelfStop(w) \/ StopCancelled(w)
  PROVE  FreshShape'
<1>1. /\ WorkStep(w) /\ UNCHANGED <<slept, settledSession>>
      /\ watcher'[w].monitor = watcher[w].monitor /\ watcher'[w].debt = watcher[w].debt
      /\ action'[w].key = action[w].key
  BY StopIs, WatcherHere, StopActionTyped DEF slotVars, history
<1>2. \A k \in Sessions :
        k \in slept' \/ settledSession' = k \/ NamedBy(watcher'[w], action'[w], k) => Named(k)
  BY <1>1 DEF Named, NamedBy
<1> QED
  BY <1>1, <1>2, WorkFresh

LEMMA JoinFresh ==
  ASSUME ShapeInv, FreshShape, NEW w \in Watchers, MarkExited(w) \/ JoinAction(w)
  PROVE  FreshShape'
<1>1. /\ WorkStep(w) /\ UNCHANGED <<slept, settledSession>>
      /\ watcher'[w].monitor = watcher[w].monitor /\ watcher'[w].debt = watcher[w].debt
      /\ action'[w].key = None
  BY JoinIs DEF slotVars, history, NoAction
<1>2. \A k \in Sessions :
        k \in slept' \/ settledSession' = k \/ NamedBy(watcher'[w], action'[w], k) => Named(k)
  BY <1>1, NoneApart DEF Named, NamedBy
<1> QED
  BY <1>1, <1>2, WorkFresh

LEMMA FinishFresh ==
  ASSUME ShapeInv, FreshShape, NEW w \in Watchers, FinishTrigger(w)
  PROVE  FreshShape'
<1>1. /\ WorkStep(w) /\ UNCHANGED <<slept, settledSession>>
      /\ watcher'[w].monitor = watcher[w].monitor
      /\ watcher'[w].debt.key \in {watcher[w].debt.key, None}
      /\ action'[w].key = action[w].key
  <2>1. watcher'[w].debt \in {watcher[w].debt, NoDebt}
    BY FinishIs
  <2>2. watcher'[w].debt.key \in {watcher[w].debt.key, None}
    BY <2>1 DEF NoDebt
  <2> QED
    BY <2>2, FinishIs DEF slotVars, history
<1>2. \A k \in Sessions :
        k \in slept' \/ settledSession' = k \/ NamedBy(watcher'[w], action'[w], k) => Named(k)
  BY <1>1, NoneApart DEF Named, NamedBy
<1> QED
  BY <1>1, <1>2, WorkFresh

LEMMA ActionFresh ==
  ASSUME ShapeInv, FreshShape, NEW w \in Watchers,
         \/ GiveUp(w) \/ Deduplicate(w) \/ StartScan(w) \/ ScanEnds(w)
         \/ ScanReturns(w)
         \/ \E settled \in BOOLEAN : PowerReturns(w, settled)
  PROVE  FreshShape'
<1>1. /\ \E step : Advances(w, step)
      /\ slept' \subseteq slept \cup {action[w].key}
      /\ settledSession' \in {settledSession, action[w].key}
  <2>1. CASE GiveUp(w)
    BY <2>1, GiveUpIs DEF slotVars, history
  <2>2. CASE Deduplicate(w)
    BY <2>2, DeduplicateIs DEF slotVars
  <2>3. CASE StartScan(w)
    BY <2>3, StartScanIs DEF history
  <2>4. CASE ScanReturns(w)
    BY <2>4, ScanReturnsIs DEF slotVars, history
  <2>5. CASE ScanEnds(w) \/ \E settled \in BOOLEAN : PowerReturns(w, settled)
    BY <2>5, ConcludeIs DEF history
  <2> QED
    BY <2>1, <2>2, <2>3, <2>4, <2>5
<1>2. /\ WorkStep(w) /\ watcher' = watcher /\ action'[w].key = action[w].key
  BY <1>1 DEF Advances
<1>3. \A k \in Sessions :
        k \in slept' \/ settledSession' = k \/ NamedBy(watcher'[w], action'[w], k) => Named(k)
  BY <1>1, <1>2 DEF Named, NamedBy
<1> QED
  BY <1>2, <1>3, WorkFresh

\* Nobody touches the keys, or no settings call holds any.
LEMMA KeysStay ==
  ASSUME UNCHANGED <<watcher, action, current, selfStop, slept, settledSession>>,
         UNCHANGED apply
           \/ (apply'.monitor = None /\ apply'.seed = None)
  PROVE  \A k \in Sessions : Named(k)' => Named(k)
BY NoneApart DEF Named

LEMMA OthersFresh ==
  ASSUME FreshShape, UNCHANGED <<watcher, action, current, selfStop, slept, settledSession>>,
         UNCHANGED <<running, session>>,
         UNCHANGED <<apply, config>>
           \/ (apply'.monitor = None /\ apply'.seed = None)
  PROVE  FreshShape'
<1>1. \A t \in Targets : Fresh(t)' => Fresh(t)
  BY DEF Fresh
<1> QED
  BY <1>1, KeysStay, FreshStays

LEMMA LaunchFresh ==
  ASSUME ShapeInv, FreshShape, NEW t \in Targets, Launch(t)
  PROVE  FreshShape'
<1>1. /\ UNCHANGED <<watcher, action, current, selfStop, slept, settledSession, apply, config>>
      /\ session' = [session EXCEPT ![t] = launches + 1]
      /\ running' = [running EXCEPT ![t] = TRUE]
  BY DEF Launch, appVars, settingsVars, watcherVars, slotVars, history
<1>2. /\ session \in [Targets -> 0..MaxLaunches] /\ launches \in Nat
      /\ running \in [Targets -> BOOLEAN] /\ session[t] <= launches
  BY AutoSleepAssumption DEF ShapeInv, TypeOK, Counts
<1>3. ASSUME NEW k \in Sessions, Named(k)'
      PROVE  k[2] <= session'[k[1]] /\ (Fresh(k[1])' => k[2] < session'[k[1]])
  <2>1. Named(k) /\ k[1] \in Targets /\ k[2] \in Nat
    BY <1>1, <1>3 DEF Named, Sessions
  <2>2. k[2] <= session[k[1]] /\ (Fresh(k[1]) => k[2] < session[k[1]])
    BY <2>1 DEF FreshShape
  <2>3. CASE k[1] = t
    <3>1. session'[k[1]] = launches + 1 /\ session[t] \in Nat
      BY <1>1, <1>2, <2>3
    <3> QED
      BY <1>2, <2>1, <2>2, <2>3, <3>1
  <2>4. CASE k[1] # t
    <3>1. session'[k[1]] = session[k[1]] /\ running'[k[1]] = running[k[1]]
      BY <1>1, <1>2, <2>1, <2>4
    <3>2. Fresh(k[1])' => Fresh(k[1])
      BY <1>1, <3>1 DEF Fresh
    <3> QED
      BY <2>2, <3>1, <3>2
  <2> QED
    BY <2>3, <2>4
<1> QED
  BY <1>3 DEF FreshShape

LEMMA QuitFresh ==
  ASSUME ShapeInv, FreshShape, NEW t \in Targets, Quit(t)
  PROVE  FreshShape'
<1>1. /\ UNCHANGED <<watcher, action, current, selfStop, slept, settledSession, apply, config>>
      /\ session' = session /\ running' = [running EXCEPT ![t] = FALSE]
  BY DEF Quit, appVars, settingsVars, watcherVars, slotVars, history
<1>2. \A u \in Targets : running'[u] => running[u]
  BY <1>1 DEF ShapeInv, TypeOK
<1>3. \A u \in Targets : Fresh(u)' => Fresh(u)
  BY <1>1, <1>2 DEF Fresh
<1> QED
  BY <1>1, <1>3, KeysStay, FreshStays

\* The watcher that is cancelled keeps its monitor and its debt.
LEMMA CancelFresh ==
  ASSUME ShapeInv, FreshShape, NEW w \in Watchers, current = w, current' \in {w, None},
         watcher' = [watcher EXCEPT ![w].cancelled = TRUE],
         UNCHANGED <<running, session, action, slept, settledSession>>,
         selfStop' \in {selfStop, NoSelfStop},
         UNCHANGED <<apply, config>>
           \/ (apply'.monitor = None /\ apply'.seed = None)
  PROVE  FreshShape'
<1>1. \A v \in Watchers : /\ watcher'[v].monitor = watcher[v].monitor
                          /\ watcher'[v].debt = watcher[v].debt
                          /\ watcher'[v].watched = watcher[v].watched
  BY CancelIs
<1>2. ASSUME NEW k \in Sessions, Named(k)'
      PROVE  Named(k)
  BY <1>1, <1>2, NoneApart DEF Named, NamedBy, NoSelfStop
<1>3. ASSUME NEW t \in Targets, Fresh(t)'
      PROVE  Fresh(t)
  BY <1>1, <1>3 DEF Fresh
<1> QED
  BY <1>2, <1>3, FreshStays

LEMMA ApplyCancelFresh ==
  ASSUME ShapeInv, FreshShape, ApplyCancel
  PROVE  FreshShape'
<1>1. /\ UNCHANGED <<running, session, current, selfStop, config, action, slept, settledSession>>
      /\ apply'.monitor = None /\ apply'.seed = None
  BY ApplyCancelIs DEF processVars, slotVars, history
<1>2. CASE current = None
  BY <1>1, <1>2, ApplyCancelIs, OthersFresh
<1>3. CASE current # None
  <2>1. current \in Watchers /\ watcher' = [watcher EXCEPT ![current].cancelled = TRUE]
    BY <1>3, ApplyCancelIs
  <2> QED
    BY <1>1, <2>1, CancelFresh
<1> QED
  BY <1>2, <1>3

LEMMA StopAutoSleepFresh ==
  ASSUME ShapeInv, FreshShape, StopAutoSleep
  PROVE  FreshShape'
<1>1. /\ UNCHANGED <<running, session, config, apply, action, slept, settledSession>>
      /\ current' = None /\ selfStop' = NoSelfStop
  BY StopAutoSleepIs DEF processVars, settingsVars, slotVars
<1>2. CASE current = None
  <2>1. watcher' = watcher
    BY <1>2, StopAutoSleepIs
  <2>2. \A k \in Sessions : Named(k)' => Named(k)
    BY <1>1, <2>1, NoneApart DEF Named, NoSelfStop
  <2>3. \A t \in Targets : Fresh(t)' => Fresh(t)
    BY <1>1, <2>1 DEF Fresh
  <2> QED
    BY <1>1, <2>2, <2>3, FreshStays
<1>3. CASE current # None
  <2>1. current \in Watchers /\ watcher' = [watcher EXCEPT ![current].cancelled = TRUE]
    BY <1>3, StopAutoSleepIs
  <2> QED
    BY <1>1, <2>1, CancelFresh
<1> QED
  BY <1>2, <1>3

LEMMA SnapshotFresh ==
  ASSUME ShapeInv, FreshShape, ApplySnapshot
  PROVE  FreshShape'
<1> DEFINE old == watcher[current]
<1>1. /\ UNCHANGED <<running, session, selfStop, watcher, config, action, slept, settledSession>>
      /\ current \in Watchers /\ current # None /\ current' \in {current, None}
  BY SnapshotIs, NoneApart DEF processVars, watcherVars, slotVars
<1>2. /\ apply'.seed \in {None, old.debt.key}
      /\ apply'.monitor # None =>
           /\ apply'.monitor.key \in {old.monitor.key, old.debt.key}
           /\ apply'.monitor.state = "running" =>
                old.monitor.state = "running" /\ old.watched = config
  <2>1. CASE /\ old.watched = config /\ apply'.seed = None
             /\ apply'.monitor = Replacement(old.monitor, old.debt.key # None)
    <3>1. old.monitor \in MonitorOf(Sessions)
      BY <1>1, WatcherHere, WatcherFields
    <3>2. /\ apply'.monitor.key = old.monitor.key
          /\ apply'.monitor.state = "running" => old.monitor.state = "running"
      BY <2>1, <3>1, ReplacementTyped, ZenonT(40)
    <3> QED
      BY <2>1, <3>2
  <2>2. CASE /\ apply'.seed = old.debt.key
             /\ apply'.monitor = IF old.debt.key = None THEN None
                                 ELSE NewMonitorContinuing(old.debt.key)
    BY <2>2 DEF NewMonitorContinuing
  <2> QED
    BY <2>1, <2>2, SnapshotIs
<1>3. ASSUME NEW k \in Sessions, Named(k)'
      PROVE  Named(k)
  BY <1>1, <1>2, <1>3, NoneApart DEF Named, NamedBy
<1>4. ASSUME NEW t \in Targets, Fresh(t)'
      PROVE  Fresh(t)
  BY <1>1, <1>2, <1>4 DEF Fresh
<1> QED
  BY <1>1, <1>3, <1>4, FreshStays

LEMMA SeedFresh ==
  ASSUME ShapeInv, FreshShape, ApplySeed
  PROVE  FreshShape'
<1>1. /\ UNCHANGED <<running, session, selfStop, watcher, config, action, slept, settledSession>>
      /\ current \in Watchers /\ current' = None
      /\ apply.monitor # None /\ apply'.monitor = apply.monitor
      /\ apply'.seed = watcher[current].debt.key
  BY SeedIs DEF processVars, watcherVars, slotVars, history
<1>2. ASSUME NEW k \in Sessions, Named(k)'
      PROVE  Named(k)
  BY <1>1, <1>2, NoneApart DEF Named, NamedBy
<1>3. ASSUME NEW t \in Targets, Fresh(t)'
      PROVE  Fresh(t)
  BY <1>1, <1>3 DEF Fresh
<1> QED
  BY <1>1, <1>2, <1>3, FreshStays

\* What the keys of a new watcher have been handed over from.
LEMMA FirstKeys ==
  ASSUME ShapeInv, apply.step = "build"
  PROVE  /\ FirstDebt.key \in {selfStop.owed, apply.seed, None}
         /\ \/ apply.monitor # None /\ FirstMonitor = apply.monitor
            \/ /\ apply.monitor = None /\ FirstMonitor.state # "running"
               /\ FirstMonitor.key \in {selfStop.owed, selfStop.countdown, None}
<1>1. FirstDebt.key \in {selfStop.owed, apply.seed, None}
  BY DEF FirstDebt, SeedOwedSession, NoDebt
<1>2. CASE apply.monitor # None
  BY <1>1, <1>2 DEF FirstMonitor
<1>3. CASE apply.monitor = None
  BY <1>1, <1>3 DEF FirstMonitor, NewMonitor, NewMonitorContinuing
<1> QED
  BY <1>2, <1>3

LEMMA BuildFresh ==
  ASSUME ShapeInv, FreshShape, NEW w \in Watchers, ApplyBuild(w)
  PROVE  FreshShape'
<1>1. /\ UNCHANGED <<running, session, config, action, slept, settledSession>>
      /\ apply.step = "build" /\ current' = w /\ EndApply
      /\ \A v \in Watchers \ {w} : watcher'[v] = watcher[v]
      /\ watcher'[w].watched = config /\ selfStop' = NoSelfStop
      /\ watcher'[w].monitor = FirstMonitor /\ watcher'[w].debt = FirstDebt
  BY BuildIs DEF processVars, slotVars
<1>2. apply'.monitor = None /\ apply'.seed = None
  BY <1>1, EndIs
<1>3. ASSUME NEW k \in Sessions, Named(k)'
      PROVE  Named(k)
  BY <1>1, <1>2, <1>3, FirstKeys, NoneApart DEF Named, NamedBy, NoSelfStop
<1>4. ASSUME NEW t \in Targets, Fresh(t)'
      PROVE  Fresh(t)
  BY <1>1, <1>2, <1>4, FirstKeys DEF Fresh
<1> QED
  BY <1>1, <1>3, <1>4, FreshStays

LEMMA ReapFresh ==
  ASSUME ShapeInv, FreshShape, NEW w \in Watchers, ReapCancelled(w) \/ ReapFailed(w)
  PROVE  FreshShape'
<1>1. /\ UNCHANGED <<running, session, config, apply, action, slept, settledSession>>
      /\ \A v \in Watchers \ {w} : watcher'[v] = watcher[v]
      /\ watcher'[w] = Unused
  BY ReapIs DEF processVars, settingsVars, slotVars, history
<1>2. watcher'[w].monitor.key = None /\ watcher'[w].debt.key = None
  BY <1>1 DEF Unused, NewMonitor, NoDebt
<1>3. \A k \in Sessions :
        selfStop'.owed = k \/ selfStop'.countdown = k => Named(k)
  <2>1. CASE current # w /\ selfStop' = selfStop
    BY <2>1 DEF Named
  <2>2. CASE current = w /\ selfStop' = LeftBy(watcher[w])
    BY <2>2 DEF LeftBy, Named, NamedBy, ShapeInv, TypeOK
  <2> QED
    BY <2>1, <2>2, ReapIs
<1>4. current' # None => current' = current /\ current # w
  BY ReapIs
<1>5. ASSUME NEW k \in Sessions, Named(k)'
      PROVE  Named(k)
  BY <1>1, <1>2, <1>3, <1>5, NoneApart DEF Named, NamedBy
<1>6. ASSUME NEW t \in Targets, Fresh(t)'
      PROVE  Fresh(t)
  <2>1. current # None => current \in Watchers
    BY DEF ShapeInv, TypeOK
  <2> QED
    BY <1>1, <1>4, <1>6, <2>1 DEF Fresh
<1> QED
  BY <1>1, <1>5, <1>6, FreshStays

LEMMA FreshStep == ShapeInv /\ FreshShape /\ [Next]_vars => FreshShape'
<1> SUFFICES ASSUME ShapeInv, FreshShape, [Next]_vars
             PROVE  FreshShape'
  OBVIOUS
<1>1. CASE \E t \in Targets : Launch(t) \/ Quit(t)
  BY <1>1, LaunchFresh, QuitFresh
<1>2. CASE \E w \in Watchers : WatcherNext(w) \/ ActionNext(w)
  <2>1. PICK w \in Watchers : WatcherNext(w) \/ ActionNext(w)
    BY <1>2
  <2>2. CASE ActionNext(w)
    BY <2>2, ActionFresh, FinishFresh DEF ActionNext
  <2>3. CASE WatcherNext(w)
    BY <2>3, PollRunningFresh, PollQuietFresh, StopFresh, JoinFresh DEF WatcherNext
  <2> QED
    BY <2>1, <2>2, <2>3
<1>3. CASE SettingsNext
  <2>1. CASE \E settings \in Targets \cup {None} :
               \/ \E newDelay \in BOOLEAN : Save(settings, newDelay)
               \/ SaveFails(settings)
    <3>1. /\ UNCHANGED <<watcher, action, current, selfStop, slept, settledSession>>
          /\ UNCHANGED <<running, session>>
          /\ apply'.monitor = None /\ apply'.seed = None
      BY <2>1, Zenon DEF Save, SaveFails, appVars, watcherVars, slotVars, history,
         processVars, NoApply
    <3> QED
      BY <3>1, OthersFresh
  <2>2. CASE SettingsMatch
    <3>1. /\ UNCHANGED <<watcher, action, current, selfStop, slept, settledSession>>
          /\ UNCHANGED <<running, session>> /\ apply.step = "match"
      BY <2>2 DEF SettingsMatch, appVars, watcherVars, slotVars, history, processVars
    <3>2. apply'.monitor = None /\ apply'.seed = None
      <4>1. CASE EndApply
        BY <4>1, EndIs
      <4>2. CASE apply' = [apply EXCEPT !.step = "apply"]
        <5>1. apply \in ApplyType /\ apply.monitor = None /\ apply.seed = None
          BY <3>1, CountsTyped, OutsideSteps DEF AppFree, ApplySteps
        <5> QED
          BY <4>2, <5>1 DEF ApplyType
      <4> QED
        BY <2>2, <4>1, <4>2 DEF SettingsMatch
    <3> QED
      BY <3>1, <3>2, OthersFresh
  <2>3. CASE ApplyCancel \/ ApplySnapshot \/ ApplySeed
    BY <2>3, ApplyCancelFresh, SnapshotFresh, SeedFresh
  <2>4. CASE ApplyDetach
    <3>1. /\ UNCHANGED <<running, session, current, watcher, action, slept, settledSession>>
          /\ selfStop' = NoSelfStop /\ EndApply
      BY <2>4 DEF ApplyDetach, processVars, watcherVars, slotVars
    <3>2. apply'.monitor = None /\ apply'.seed = None
      BY <3>1, EndIs
    <3>3. \A k \in Sessions : Named(k)' => Named(k)
      BY <3>1, <3>2, NoneApart DEF Named, NoSelfStop
    <3>4. \A t \in Targets : Fresh(t)' => Fresh(t)
      BY <3>1, <3>2 DEF Fresh
    <3> QED
      BY <3>1, <3>3, <3>4, FreshStays
  <2>5. CASE \E w \in Watchers : ApplyBuild(w)
    BY <2>5, BuildFresh
  <2> QED
    BY <1>3, <2>1, <2>2, <2>3, <2>4, <2>5 DEF SettingsNext
<1>4. CASE RebuildNext
  <2>1. CASE \E w \in Watchers : ReapCancelled(w) \/ ReapFailed(w)
    BY <2>1, ReapFresh
  <2>2. CASE ReadEnabled \/ ScheduleRebuild \/ TimerFires \/ SkipRebuild \/ Recheck
    BY <2>2, OthersFresh DEF ReadEnabled, ScheduleRebuild, TimerFires, SkipRebuild, Recheck,
         appVars, settingsVars, watcherVars, slotVars, history, processVars
  <2>3. CASE \E saved \in BOOLEAN : Rebuild(saved)
    <3>1. /\ UNCHANGED <<watcher, action, current, selfStop, slept, settledSession>>
          /\ UNCHANGED <<running, session>>
          /\ apply'.monitor = None /\ apply'.seed = None
      BY <2>3 DEF Rebuild, appVars, watcherVars, slotVars, history, processVars, NoApply
    <3> QED
      BY <3>1, OthersFresh
  <2> QED
    BY <1>4, <2>1, <2>2, <2>3 DEF RebuildNext
<1>5. CASE BeginShutdown \/ Exited \/ UNCHANGED vars
  BY <1>5, OthersFresh DEF BeginShutdown, Exited, vars, appVars, settingsVars, watcherVars,
     slotVars, history, processVars
<1>6. CASE StopAutoSleep
  BY <1>6, StopAutoSleepFresh
<1> QED
  BY <1>1, <1>2, <1>3, <1>4, <1>5, <1>6 DEF Next

\* While a process is up, or its close has not been seen, its last session has a
\* name that nothing has used: a countdown, a debt or a settled session of an
\* earlier launch is never taken for it (autosleep.go:187-215).
THEOREM LastSessionIsNew == Spec => []FreshShape
<1>1. Init => FreshShape
  <2> SUFFICES ASSUME Init PROVE FreshShape
    OBVIOUS
  <2>1. \A w \in Watchers : /\ action[w].key = None /\ watcher[w].debt.key = None
                            /\ watcher[w].monitor.key = None
    BY DEF Init, Unused, NoAction, NewMonitor, NoDebt
  <2>2. \A k \in Sessions : ~Named(k)
    BY <2>1, NoneApart DEF Init, Named, NamedBy, NoSelfStop, NoApply
  <2> QED
    BY <2>2 DEF FreshShape
<1>2. ShapeInv /\ FreshShape /\ [Next]_vars => FreshShape'
  BY FreshStep
<1> QED
  BY <1>1, <1>2, WatchersInStep, PTL DEF Spec

-----------------------------------------------------------------------------
(* The fourth: which sessions may still be slept, and which have been.     *)

Busy(a) == a.step \in {"scanning", "powering"}

AliveBy(x, k) ==
  \/ x.debt.key = k
  \/ x.monitor.key = k /\ (x.monitor.state = "closed" \/ x.debt.key # None)

\* The keys that can become the key of an action.
Alive(k) ==
  \/ current # None /\ AliveBy(watcher[current], k)
  \/ selfStop.owed = k \/ selfStop.countdown = k
  \/ apply.seed = k
  \/ /\ apply.monitor # None /\ apply.monitor.key = k
     /\ apply.monitor.state = "closed" \/ apply.seed # None

\* No action has been started for k.
NeverActed(k) == k \notin slept /\ \A w \in Watchers : action[w].key # k

\* Beside a debt, the monitor follows a session no action has been started for.
BesideDebt(seen, owed) ==
  owed # None /\ seen # None /\ seen # owed => NeverActed(seen)

BesideDebts ==
  /\ current # None =>
       BesideDebt(watcher[current].monitor.key, watcher[current].debt.key)
  /\ apply.monitor # None => BesideDebt(apply.monitor.key, apply.seed)

\* Whatever can be slept has not been, but for the session settled last, and
\* that one only while nobody holds the slot.
SettledShape ==
  /\ \A w \in Watchers : Busy(action[w]) <=> slot = w
  /\ \A w \in Watchers : Busy(action[w]) => action[w].key \notin slept
  /\ \A k \in Sessions : Alive(k) /\ k \in slept => slot = None /\ k = settledSession
  /\ BesideDebts

\* No action has moved, and no key has become alive.
LEMMA SettledStays ==
  ASSUME SettledShape, UNCHANGED <<action, slot, settledSession, slept>>,
         \A k \in Sessions : Alive(k)' => Alive(k),
         BesideDebts'
  PROVE  SettledShape'
BY DEF SettledShape

\* A step of a watcher or of its action that takes or leaves no slot.
LEMMA WorkSettled ==
  ASSUME ShapeInv, SettledShape, NEW w \in Watchers, WorkStep(w),
         UNCHANGED <<slot, settledSession, slept>>,
         Busy(action'[w]) <=> Busy(action[w]),
         Busy(action[w]) => action'[w].key = action[w].key,
         action'[w].key \in {action[w].key, None} \/ (current = w /\ apply.monitor = None),
         current = w =>
           /\ \A k \in Sessions : AliveBy(watcher'[w], k) /\ k \in slept => Alive(k)
           /\ BesideDebt(watcher[w].monitor.key, watcher[w].debt.key)'
  PROVE  SettledShape'
<1>1. /\ UNCHANGED <<current, selfStop, apply>>
      /\ \A v \in Watchers \ {w} : watcher'[v] = watcher[v] /\ action'[v] = action[v]
      /\ current # None => current \in Watchers
  BY DEF WorkStep, appVars, settingsVars, ShapeInv, TypeOK
<1>2. ASSUME NEW v \in Watchers
      PROVE  /\ Busy(action'[v]) <=> slot' = v
             /\ Busy(action'[v]) => action'[v].key \notin slept'
  <2>1. CASE v = w
    BY <2>1 DEF SettledShape
  <2>2. CASE v # w
    BY <1>1, <2>2 DEF SettledShape
  <2> QED
    BY <2>1, <2>2
<1>3. ASSUME NEW k \in Sessions, Alive(k)', k \in slept'
      PROVE  slot' = None /\ k = settledSession'
  <2>1. Alive(k)
    <3>1. CASE current = w /\ AliveBy(watcher'[w], k)
      BY <1>3, <3>1
    <3>2. CASE ~(current = w /\ AliveBy(watcher'[w], k))
      BY <1>1, <1>3, <3>2 DEF Alive
    <3> QED
      BY <3>1, <3>2
  <2> QED
    BY <1>3, <2>1 DEF SettledShape
<1>4. ASSUME NEW k, k # None, NeverActed(k), action'[w].key \in {action[w].key, None}
      PROVE  NeverActed(k)'
  BY <1>1, <1>4 DEF NeverActed
<1>5. current # None =>
        BesideDebt(watcher[current].monitor.key, watcher[current].debt.key)'
  <2>1. CASE current = w
    BY <1>1, <2>1
  <2>2. CASE current # w /\ current # None
    <3>1. BesideDebt(watcher[current].monitor.key, watcher[current].debt.key)
      BY <2>2 DEF SettledShape, BesideDebts
    <3>2. watcher'[current] = watcher[current]
      BY <1>1, <2>2
    <3> QED
      BY <1>1, <1>4, <2>2, <3>1, <3>2 DEF BesideDebt
  <2> QED
    BY <2>1, <2>2
<1>6. apply.monitor # None => BesideDebt(apply.monitor.key, apply.seed)'
  <2>1. SUFFICES ASSUME apply.monitor # None
                 PROVE  BesideDebt(apply.monitor.key, apply.seed)'
    OBVIOUS
  <2>2. BesideDebt(apply.monitor.key, apply.seed)
    BY <2>1 DEF SettledShape, BesideDebts
  <2> QED
    BY <1>1, <1>4, <2>1, <2>2 DEF BesideDebt
<1> QED
  BY <1>1, <1>2, <1>3, <1>5, <1>6 DEF SettledShape, BesideDebts

\* The current watcher while no settings call has cancelled it.
LEMMA NothingHeld ==
  ASSUME ShapeInv, NEW w \in Watchers, current = w, ~watcher[w].cancelled
  PROVE  apply.monitor = None /\ apply.seed = None /\ selfStop = NoSelfStop
<1>1. current # None /\ apply.step \notin {"seed", "build"}
  BY NoneApart DEF ShapeInv, ApplyShape
<1> QED
  BY <1>1 DEF ShapeInv, ApplyShape, SelfStopShape

LEMMA PollRunningSettled ==
  ASSUME ShapeInv, SettledShape, NEW w \in Watchers, PollRunning(w)
  PROVE  SettledShape'
<1>1. /\ WorkStep(w) /\ UNCHANGED <<slot, settledSession, slept>>
      /\ current = w /\ current # None
      /\ action'[w].key = action[w].key /\ action'[w].step = action[w].step
      /\ watcher'[w].debt = ClearSessionDebtUnlessCarried(watcher[w].debt)
  BY PollRunningIs, NoneApart DEF slotVars
<1>2. /\ watcher'[w].monitor.key = watcher[w].monitor.key
      /\ watcher'[w].monitor.state = "running"
  BY PollRunningIs, WatcherHere, WatcherFields, PollUpTyped
<1>3. watcher'[w].debt.key \in {watcher[w].debt.key, None}
  BY <1>1 DEF ClearSessionDebtUnlessCarried, NoDebt
<1>4. \A k \in Sessions : AliveBy(watcher'[w], k) => Alive(k)
  BY <1>1, <1>2, <1>3, NoneApart DEF AliveBy, Alive
<1>5. BesideDebt(watcher[w].monitor.key, watcher[w].debt.key)'
  <2>1. BesideDebt(watcher[w].monitor.key, watcher[w].debt.key)
    BY <1>1 DEF SettledShape, BesideDebts
  <2>2. \A k : NeverActed(k) => NeverActed(k)'
    BY <1>1 DEF NeverActed, WorkStep
  <2> QED
    BY <1>2, <1>3, <2>1, <2>2 DEF BesideDebt
<1>6. Busy(action'[w]) <=> Busy(action[w])
  BY <1>1 DEF Busy
<1> QED
  BY <1>1, <1>4, <1>5, <1>6, WorkSettled

\* The close that is seen now has a new name, and an action that is fired has
\* that of the debt.
LEMMA QuietKeys ==
  ASSUME ShapeInv, FreshShape, NEW w \in Watchers, NEW elapsed \in BOOLEAN,
         PollQuiet(w, elapsed)
  PROVE  /\ action'[w].key \in {action[w].key, watcher'[w].debt.key}
         /\ watcher[w].monitor.state = "running" =>
              NeverActed(LastSession(w)) /\ LastSession(w) # watcher[w].debt.key
              /\ watcher'[w].debt = watcher[w].debt
         /\ watcher'[w].debt = watcher[w].debt
            \/ (watcher[w].monitor.state = "closed"
                /\ watcher'[w].debt.key \in {watcher[w].debt.key, watcher[w].monitor.key})
         /\ watcher[w].monitor.state # "running" /\ watcher'[w].monitor.state = "closed" =>
              watcher[w].monitor.state = "closed"
<1> DEFINE m == watcher[w].monitor
           d == watcher[w].debt
<1>1. /\ m \in MonitorOf(Sessions) /\ d \in DebtOf(Sessions) /\ m.key \in Keys
      /\ m.state \in {"idle", "running", "closed"}
      /\ watcher[w].pending # None => watcher[w].pending = d.key /\ m.state = "idle"
  BY WatcherHere, WatcherFields, MonitorFields DEF ActionFits
<1>2. /\ watcher'[w].monitor = MonitorAfter(w, elapsed)
      /\ watcher'[w].debt = DebtAfter(w, elapsed)
      /\ current = w /\ watcher[w].watched \in Targets
  BY PollQuietIs
<1>3. CASE Triggers(m, elapsed)
  <2>1. /\ m.state = "closed" /\ DebtAfter(w, elapsed) = QueueMonitorTrigger(d, m.key)
        /\ PendingAfter(w, elapsed) = DebtAfter(w, elapsed).key
    BY <1>3, QuietValues
  <2>2. DebtAfter(w, elapsed).key \in {d.key, m.key}
    BY <1>1, <2>1, DebtTyped
  <2>3. action'[w].key \in {action[w].key, PendingAfter(w, elapsed)}
    BY PollQuietIs
  <2> QED
    BY <1>2, <2>1, <2>2, <2>3
<1>4. CASE ~Triggers(m, elapsed)
  <2>1. DebtAfter(w, elapsed) = d
    BY <1>4, QuietValues
  <2>2. PendingAfter(w, elapsed) # None => PendingAfter(w, elapsed) = d.key
    BY <1>1, <1>4, <2>1, QuietValues
  <2>3. action'[w].key \in {action[w].key, d.key}
    <3>1. CASE Fires(w, elapsed)
      BY <2>2, <3>1, PollQuietIs
    <3>2. CASE ~Fires(w, elapsed)
      BY <3>2, PollQuietIs
    <3> QED
      BY <3>1, <3>2
  <2>4. m.state = "idle" => MonitorAfter(w, elapsed).state # "closed"
    <3>1. CASE Rearms(w, elapsed)
      BY <3>1, QuietValues
    <3>2. CASE ~Rearms(w, elapsed)
      BY <1>4, <3>2, QuietValues
    <3> QED
      BY <3>1, <3>2
  <2>5. m.state = "running" => NeverActed(LastSession(w)) /\ LastSession(w) # d.key
    <3>1. SUFFICES ASSUME m.state = "running"
                   PROVE  ~Named(LastSession(w))
      BY NamesHere DEF Named, NamedBy, NeverActed
    <3>2. LastSession(w) \in Sessions
      BY <3>1, QuietValues
    <3>3. Fresh(watcher[w].watched)
      BY <1>2, <3>1, NoneApart DEF Fresh
    <3>4. session[watcher[w].watched] \in Nat
      BY <1>2, WatcherHere
    <3>5. LastSession(w)[1] = watcher[w].watched /\ LastSession(w)[2] = session[watcher[w].watched]
      BY DEF LastSession
    <3>6. ~(LastSession(w)[2] < session[LastSession(w)[1]])
      BY <3>4, <3>5
    <3> QED
      BY <3>2, <3>3, <3>5, <3>6 DEF FreshShape
  <2> QED
    BY <1>1, <1>2, <2>1, <2>3, <2>4, <2>5
<1> QED
  BY <1>3, <1>4

LEMMA PollQuietSettled ==
  ASSUME ShapeInv, FreshShape, SettledShape, NEW w \in Watchers, NEW elapsed \in BOOLEAN,
         PollQuiet(w, elapsed)
  PROVE  SettledShape'
<1> DEFINE m == watcher[w].monitor
           d == watcher[w].debt
           s == LastSession(w)
<1>1. /\ WorkStep(w) /\ UNCHANGED <<slot, settledSession, slept>>
      /\ current = w /\ current # None /\ ~watcher[w].cancelled
      /\ \/ (~Busy(action'[w]) /\ ~Busy(action[w]))
         \/ (Busy(action[w]) /\ Busy(action'[w]) /\ action'[w].key = action[w].key)
  <2>1. CASE Fires(w, elapsed)
    BY <2>1, PollQuietIs, NoneApart DEF slotVars, Busy
  <2>2. CASE ~Fires(w, elapsed)
    BY <2>2, PollQuietIs, NoneApart DEF slotVars, Busy
  <2> QED
    BY <2>1, <2>2
<1>2. apply.monitor = None
  BY <1>1, NothingHeld
<1>3. /\ watcher'[w].monitor.key = IF m.state = "running" THEN s ELSE m.key
      /\ action'[w].key \in {action[w].key, watcher'[w].debt.key}
      /\ m.state = "running" => NeverActed(s) /\ s # d.key /\ watcher'[w].debt = d
      /\ watcher'[w].debt = d
         \/ (m.state = "closed" /\ watcher'[w].debt.key \in {d.key, m.key})
      /\ m.state # "running" /\ watcher'[w].monitor.state = "closed" => m.state = "closed"
  BY QuietNames, QuietKeys
<1>4. ASSUME NEW k \in Sessions, AliveBy(watcher'[w], k), k \in slept
      PROVE  Alive(k)
  <2>1. CASE m.state = "running"
    BY <1>1, <1>3, <1>4, <2>1 DEF AliveBy, Alive, NeverActed
  <2>2. CASE m.state # "running"
    BY <1>1, <1>3, <1>4, <2>2, NoneApart DEF AliveBy, Alive
  <2> QED
    BY <2>1, <2>2
<1>5. BesideDebt(watcher[w].monitor.key, watcher[w].debt.key)'
  <2> DEFINE owed == watcher'[w].debt.key
             seen == watcher'[w].monitor.key
  <2>1. SUFFICES ASSUME owed # None, seen # None, seen # owed
                 PROVE  seen \notin slept /\ \A v \in Watchers : action'[v].key # seen
    BY <1>1 DEF BesideDebt, NeverActed
  <2>2. ASSUME NeverActed(seen)
        PROVE  seen \notin slept /\ \A v \in Watchers : action'[v].key # seen
    BY <1>1, <1>3, <2>1, <2>2 DEF NeverActed, WorkStep
  <2>3. CASE m.state = "running"
    BY <1>3, <2>2, <2>3
  <2>4. CASE m.state # "running"
    <3>1. seen = m.key /\ owed = d.key
      BY <1>3, <2>1, <2>4
    <3>2. BesideDebt(m.key, d.key)
      BY <1>1 DEF SettledShape, BesideDebts
    <3> QED
      BY <2>1, <2>2, <3>1, <3>2 DEF BesideDebt
  <2> QED
    BY <2>3, <2>4
<1> QED
  BY <1>1, <1>2, <1>4, <1>5, WorkSettled

\* A step that leaves monitor and debt alone, or clears the debt.
LEMMA CalmSettled ==
  ASSUME ShapeInv, SettledShape, NEW w \in Watchers, WorkStep(w),
         UNCHANGED <<slot, settledSession, slept>>,
         Busy(action'[w]) <=> Busy(action[w]),
         action'[w].key = action[w].key \/ (action'[w].key = None /\ ~Busy(action[w])),
         watcher'[w].monitor = watcher[w].monitor,
         watcher'[w].debt.key \in {watcher[w].debt.key, None}
  PROVE  SettledShape'
<1>1. ASSUME current = w
      PROVE  /\ \A k \in Sessions : AliveBy(watcher'[w], k) => Alive(k)
             /\ BesideDebt(watcher[w].monitor.key, watcher[w].debt.key)'
  <2>1. current # None
    BY <1>1, NoneApart
  <2>2. \A k \in Sessions : AliveBy(watcher'[w], k) => Alive(k)
    BY <1>1, <2>1, NoneApart DEF AliveBy, Alive
  <2>3. BesideDebt(watcher[w].monitor.key, watcher[w].debt.key)
    BY <1>1, <2>1 DEF SettledShape, BesideDebts
  <2>4. \A k : k # None /\ NeverActed(k) => NeverActed(k)'
    BY DEF NeverActed, WorkStep
  <2> QED
    BY <2>2, <2>3, <2>4 DEF BesideDebt
<1> QED
  BY <1>1, WorkSettled

LEMMA WatcherSettled ==
  ASSUME ShapeInv, SettledShape, NEW w \in Watchers,
         SelfStop(w) \/ StopCancelled(w) \/ MarkExited(w) \/ JoinAction(w) \/ FinishTrigger(w)
  PROVE  SettledShape'
<1>1. CASE SelfStop(w) \/ StopCancelled(w)
  <2>1. /\ WorkStep(w) /\ UNCHANGED <<slot, settledSession, slept>>
        /\ watcher'[w].monitor = watcher[w].monitor /\ watcher'[w].debt = watcher[w].debt
        /\ action'[w].key = action[w].key /\ action'[w].step = action[w].step
    BY <1>1, StopIs, WatcherHere, StopActionTyped DEF slotVars, history
  <2> QED
    BY <2>1, CalmSettled DEF Busy
<1>2. CASE MarkExited(w) \/ JoinAction(w)
  <2>1. /\ WorkStep(w) /\ UNCHANGED <<slot, settledSession, slept>>
        /\ watcher'[w].monitor = watcher[w].monitor /\ watcher'[w].debt = watcher[w].debt
        /\ action'[w].key = None /\ ~Busy(action[w]) /\ ~Busy(action'[w])
    BY <1>2, JoinIs DEF slotVars, history, NoAction, Busy
  <2> QED
    BY <2>1, CalmSettled
<1>3. CASE FinishTrigger(w)
  <2>1. /\ WorkStep(w) /\ UNCHANGED <<slot, settledSession, slept>>
        /\ watcher'[w].monitor = watcher[w].monitor
        /\ watcher'[w].debt \in {watcher[w].debt, NoDebt}
        /\ action'[w].key = action[w].key /\ ~Busy(action[w]) /\ ~Busy(action'[w])
    BY <1>3, FinishIs DEF slotVars, history, Busy
  <2>2. watcher'[w].debt.key \in {watcher[w].debt.key, None}
    BY <2>1 DEF NoDebt
  <2> QED
    BY <2>1, <2>2, CalmSettled
<1> QED
  BY <1>1, <1>2, <1>3

\* An action that nobody has cancelled and that is at work.
LEMMA ServesHere ==
  ASSUME ShapeInv, NEW w \in Watchers, Working(action[w]), ~Stopped(w)
  PROVE  /\ current = w /\ ~watcher[w].cancelled
         /\ action[w].newest /\ watcher[w].debt.key = action[w].key
         /\ action[w].key \in Sessions
<1>1. /\ watcher[w] \in WatcherType /\ action[w].key \in Keys
      /\ LifeFits(watcher[w], action[w], current = w)
      /\ ActionFits(watcher[w], action[w])
  BY WatcherHere, ActionFields
<1>2. watcher[w].life \in {"unused", "polling", "stopping", "exited"}
  BY <1>1, WatcherFields
<1> QED
  BY <1>1, <1>2 DEF Stopped, Working, LifeFits, ActionFits, Keys

\* An action that goes on without taking or leaving the slot.
LEMMA GoesOnSettled ==
  ASSUME ShapeInv, SettledShape, NEW w \in Watchers,
         GiveUp(w) \/ Deduplicate(w) \/ ScanReturns(w)
  PROVE  SettledShape'
<1>1. /\ WorkStep(w) /\ watcher' = watcher /\ action'[w].key = action[w].key
      /\ UNCHANGED <<slot, settledSession, slept>>
      /\ Busy(action'[w]) <=> Busy(action[w])
  <2>1. CASE GiveUp(w)
    BY <2>1, GiveUpIs DEF Advances, slotVars, history, Busy
  <2>2. CASE Deduplicate(w)
    BY <2>2, DeduplicateIs DEF Advances, slotVars, Busy
  <2>3. CASE ScanReturns(w)
    BY <2>3, ScanReturnsIs DEF Advances, slotVars, history, Busy
  <2> QED
    BY <2>1, <2>2, <2>3
<1> QED
  BY <1>1, CalmSettled

\* The keys of an application in which an action that goes on holds its debt.
LEMMA AliveBesideAction ==
  ASSUME ShapeInv, SettledShape, NEW w \in Watchers, Working(action[w]), ~Stopped(w),
         NEW k \in Sessions, Alive(k), k \in slept
  PROVE  k = action[w].key
<1>1. /\ current = w /\ current # None /\ ~watcher[w].cancelled
      /\ watcher[w].debt.key = action[w].key /\ action[w].key \in Sessions
  BY ServesHere, NoneApart
<1>2. apply.monitor = None /\ apply.seed = None /\ selfStop = NoSelfStop
  BY <1>1, NothingHeld
<1>3. AliveBy(watcher[w], k)
  BY <1>1, <1>2, NoneApart DEF Alive, NoSelfStop
<1>4. BesideDebt(watcher[w].monitor.key, action[w].key)
  BY <1>1 DEF SettledShape, BesideDebts
<1> QED
  BY <1>1, <1>3, <1>4, NoneApart DEF AliveBy, BesideDebt, NeverActed

LEMMA StartScanSettled ==
  ASSUME ShapeInv, SettledShape, NEW w \in Watchers, StartScan(w)
  PROVE  SettledShape'
<1>1. /\ WorkStep(w) /\ watcher' = watcher /\ action'[w].key = action[w].key
      /\ slot = None /\ slot' = w /\ UNCHANGED <<settledSession, slept>>
      /\ settledSession # action[w].key /\ Working(action[w]) /\ ~Stopped(w)
      /\ ~Busy(action[w]) /\ Busy(action'[w]) /\ w # None
  BY StartScanIs, NoneApart DEF Advances, Working, Busy, history
<1>2. /\ UNCHANGED <<current, selfStop, apply>>
      /\ \A v \in Watchers \ {w} : action'[v] = action[v]
  BY <1>1 DEF WorkStep, appVars, settingsVars
<1>3. Alive(action[w].key) /\ action[w].key \in Sessions
  BY <1>1, ServesHere, NoneApart DEF Alive, AliveBy
<1>4. action[w].key \notin slept
  BY <1>1, <1>3 DEF SettledShape
<1>5. \A k \in Sessions : Alive(k) => k \notin slept
  BY <1>1, <1>4, AliveBesideAction
<1>6. ASSUME NEW v \in Watchers
      PROVE  /\ Busy(action'[v]) <=> slot' = v
             /\ Busy(action'[v]) => action'[v].key \notin slept'
  <2>1. CASE v = w
    BY <1>1, <1>4, <2>1
  <2>2. CASE v # w
    BY <1>1, <1>2, <2>2, NoneApart DEF SettledShape
  <2> QED
    BY <2>1, <2>2
<1>7. \A k \in Sessions : Alive(k)' => Alive(k)
  BY <1>1, <1>2 DEF Alive
<1>8. \A k : NeverActed(k) => NeverActed(k)'
  BY <1>1, <1>2 DEF NeverActed
<1>9. BesideDebts'
  BY <1>1, <1>2, <1>8 DEF SettledShape, BesideDebts, BesideDebt
<1> QED
  BY <1>1, <1>5, <1>6, <1>7, <1>9 DEF SettledShape

LEMMA ConcludeSettled ==
  ASSUME ShapeInv, SettledShape, NEW w \in Watchers,
         ScanEnds(w) \/ \E settled \in BOOLEAN : PowerReturns(w, settled)
  PROVE  SettledShape'
<1>1. /\ WorkStep(w) /\ watcher' = watcher /\ action'[w].key = action[w].key
      /\ Busy(action[w]) /\ ~Busy(action'[w]) /\ slot' = None
      /\ \/ UNCHANGED <<settledSession, slept>>
         \/ settledSession' = action[w].key /\ slept' = slept \cup {action[w].key}
  BY ConcludeIs DEF Advances, Busy, history
<1>2. /\ UNCHANGED <<current, selfStop, apply>>
      /\ \A v \in Watchers \ {w} : action'[v] = action[v]
  BY <1>1 DEF WorkStep, appVars, settingsVars
<1>3. slot = w /\ slot # None
  BY <1>1, NoneApart DEF SettledShape
<1>4. ASSUME NEW v \in Watchers
      PROVE  ~Busy(action'[v]) /\ slot' # v
  BY <1>1, <1>2, <1>3, <1>4, NoneApart DEF SettledShape
<1>5. ASSUME NEW k \in Sessions, Alive(k)', k \in slept'
      PROVE  k = settledSession'
  <2>1. Alive(k)
    BY <1>1, <1>2, <1>5 DEF Alive
  <2>2. k \notin slept
    BY <1>3, <2>1 DEF SettledShape
  <2> QED
    BY <1>1, <1>5, <2>2
<1>6. \A k : NeverActed(k) => NeverActed(k)'
  BY <1>1, <1>2 DEF NeverActed
<1>7. BesideDebts'
  BY <1>1, <1>2, <1>6 DEF SettledShape, BesideDebts, BesideDebt
<1> QED
  BY <1>1, <1>4, <1>5, <1>7 DEF SettledShape

\* Nobody touches the keys, or no settings call holds any.
LEMMA OthersSettled ==
  ASSUME SettledShape,
         UNCHANGED <<watcher, action, current, selfStop, slot, settledSession, slept>>,
         UNCHANGED apply \/ (apply'.monitor = None /\ apply'.seed = None)
  PROVE  SettledShape'
<1>1. \A k \in Sessions : Alive(k)' => Alive(k)
  BY NoneApart DEF Alive
<1>2. BesideDebts'
  BY DEF SettledShape, BesideDebts, BesideDebt, NeverActed
<1> QED
  BY <1>1, <1>2, SettledStays

\* The watcher that is cancelled keeps its monitor and its debt.
LEMMA CancelSettled ==
  ASSUME ShapeInv, SettledShape, NEW w \in Watchers, current = w, current' \in {w, None},
         watcher' = [watcher EXCEPT ![w].cancelled = TRUE],
         UNCHANGED <<action, slot, settledSession, slept>>,
         selfStop' \in {selfStop, NoSelfStop},
         UNCHANGED apply \/ (apply'.monitor = None /\ apply'.seed = None)
  PROVE  SettledShape'
<1>1. /\ watcher'[w].monitor = watcher[w].monitor /\ watcher'[w].debt = watcher[w].debt
      /\ w # None
  BY CancelIs, NoneApart
<1>2. \A k \in Sessions : Alive(k)' => Alive(k)
  BY <1>1, NoneApart DEF Alive, AliveBy, NoSelfStop
<1>3. BesideDebts'
  BY <1>1 DEF SettledShape, BesideDebts, BesideDebt, NeverActed
<1> QED
  BY <1>2, <1>3, SettledStays

LEMMA ApplyCancelSettled ==
  ASSUME ShapeInv, SettledShape, ApplyCancel
  PROVE  SettledShape'
<1>1. /\ UNCHANGED <<current, selfStop, action, slot, settledSession, slept>>
      /\ apply'.monitor = None /\ apply'.seed = None
  BY ApplyCancelIs DEF slotVars, history
<1>2. CASE current = None
  BY <1>1, <1>2, ApplyCancelIs, OthersSettled
<1>3. CASE current # None
  <2>1. current \in Watchers /\ watcher' = [watcher EXCEPT ![current].cancelled = TRUE]
    BY <1>3, ApplyCancelIs
  <2> QED
    BY <1>1, <2>1, CancelSettled
<1> QED
  BY <1>2, <1>3

\* What is left alone, or dropped, in a step that ends with no watcher.
LEMMA DropSettled ==
  ASSUME SettledShape, UNCHANGED <<watcher, action, slot, settledSession, slept>>,
         current' \in {current, None}, selfStop' = NoSelfStop,
         UNCHANGED apply \/ (apply'.monitor = None /\ apply'.seed = None)
  PROVE  SettledShape'
<1>1. \A k \in Sessions : Alive(k)' => Alive(k)
  BY NoneApart DEF Alive, NoSelfStop
<1>2. BesideDebts'
  BY DEF SettledShape, BesideDebts, BesideDebt, NeverActed
<1> QED
  BY <1>1, <1>2, SettledStays

LEMMA StopAutoSleepSettled ==
  ASSUME ShapeInv, SettledShape, StopAutoSleep
  PROVE  SettledShape'
<1>1. /\ UNCHANGED <<apply, action, slot, settledSession, slept>>
      /\ current' = None /\ selfStop' = NoSelfStop
  BY StopAutoSleepIs DEF settingsVars, slotVars
<1>2. CASE current = None
  BY <1>1, <1>2, StopAutoSleepIs, DropSettled
<1>3. CASE current # None
  <2>1. current \in Watchers /\ watcher' = [watcher EXCEPT ![current].cancelled = TRUE]
    BY <1>3, StopAutoSleepIs
  <2> QED
    BY <1>1, <2>1, CancelSettled
<1> QED
  BY <1>2, <1>3

LEMMA SnapshotSettled ==
  ASSUME ShapeInv, SettledShape, ApplySnapshot
  PROVE  SettledShape'
<1> DEFINE old == watcher[current]
<1>1. /\ UNCHANGED <<selfStop, watcher, action, slot, settledSession, slept>>
      /\ current \in Watchers /\ current # None /\ current' \in {current, None}
  BY SnapshotIs, NoneApart DEF watcherVars, slotVars
<1>2. /\ apply'.monitor # None => BesideDebt(apply'.monitor.key, apply'.seed)
      /\ \A k \in Sessions :
           apply'.seed = k \/ (/\ apply'.monitor # None /\ apply'.monitor.key = k
                               /\ apply'.monitor.state = "closed" \/ apply'.seed # None)
             => AliveBy(old, k)
  <2>1. CASE /\ old.watched = config /\ apply'.seed = None
             /\ apply'.monitor = Replacement(old.monitor, old.debt.key # None)
    <3>1. old.monitor \in MonitorOf(Sessions)
      BY <1>1, WatcherHere, WatcherFields
    <3>2. /\ apply'.monitor.key = old.monitor.key
          /\ apply'.monitor.state = "closed" =>
               old.monitor.state = "closed" \/ old.debt.key # None
      BY <2>1, <3>1, ReplacementTyped, ZenonT(40)
    <3> QED
      BY <2>1, <3>2, NoneApart DEF BesideDebt, AliveBy
  <2>2. CASE /\ apply'.seed = old.debt.key
             /\ apply'.monitor = IF old.debt.key = None THEN None
                                 ELSE NewMonitorContinuing(old.debt.key)
    BY <2>2, NoneApart DEF NewMonitorContinuing, BesideDebt, AliveBy
  <2> QED
    BY <2>1, <2>2, SnapshotIs
<1>3. \A k \in Sessions : Alive(k)' => Alive(k)
  BY <1>1, <1>2 DEF Alive
<1>4. BesideDebts'
  BY <1>1, <1>2 DEF SettledShape, BesideDebts, BesideDebt, NeverActed
<1> QED
  BY <1>1, <1>3, <1>4, SettledStays

LEMMA SeedSettled ==
  ASSUME ShapeInv, DueShape, SettledShape, ApplySeed
  PROVE  SettledShape'
<1> DEFINE old == watcher[current]
<1>1. /\ UNCHANGED <<selfStop, watcher, action, slot, settledSession, slept>>
      /\ current \in Watchers /\ current # None /\ current' = None
      /\ apply.step = "seed"
      /\ apply.monitor # None /\ apply'.monitor = apply.monitor
      /\ apply'.seed = old.debt.key
  BY SeedIs, NoneApart DEF watcherVars, slotVars, history
<1>2. apply.monitor.key = old.monitor.key
  <2>1. old.monitor \in MonitorOf(Sessions)
    BY <1>1, WatcherHere, WatcherFields
  <2>2. apply.monitor = Replacement(old.monitor, TRUE)
    BY <1>1 DEF DueShape
  <2> QED
    BY <2>1, <2>2, ReplacementTyped
<1>3. \A k \in Sessions : Alive(k)' => Alive(k)
  BY <1>1, <1>2, NoneApart DEF Alive, AliveBy
<1>4. BesideDebt(old.monitor.key, old.debt.key)
  BY <1>1 DEF SettledShape, BesideDebts
<1>5. BesideDebts'
  BY <1>1, <1>2, <1>4 DEF BesideDebts, BesideDebt, NeverActed
<1> QED
  BY <1>1, <1>3, <1>5, SettledStays

LEMMA BuildSettled ==
  ASSUME ShapeInv, SettledShape, NEW w \in Watchers, ApplyBuild(w)
  PROVE  SettledShape'
<1>1. /\ UNCHANGED <<action, slot, settledSession, slept>>
      /\ apply.step = "build" /\ current' = w /\ EndApply
      /\ selfStop' = NoSelfStop
      /\ watcher'[w].monitor = FirstMonitor /\ watcher'[w].debt = FirstDebt
  BY BuildIs DEF slotVars
<1>2. apply'.monitor = None /\ apply'.seed = None
  BY <1>1, EndIs
<1>3. /\ \A k \in Sessions : AliveBy(watcher'[w], k) => Alive(k)
      /\ BesideDebt(watcher'[w].monitor.key, watcher'[w].debt.key)
  <2>1. CASE apply.monitor # None
    <3>1. selfStop.owed = None
      BY <2>1 DEF ShapeInv, SelfStopShape, NoSelfStop
    <3>2. FirstMonitor = apply.monitor /\ FirstDebt.key = apply.seed
      BY <2>1, <3>1 DEF FirstMonitor, FirstDebt, SeedOwedSession, NoDebt
    <3>3. BesideDebt(apply.monitor.key, apply.seed)
      BY <2>1 DEF SettledShape, BesideDebts
    <3> QED
      BY <1>1, <2>1, <3>2, <3>3 DEF Alive, AliveBy
  <2>2. CASE apply.monitor = None
    <3>1. apply.seed = None
      BY <2>2 DEF ShapeInv, ApplyShape
    <3>2. CASE selfStop.owed # None
      <4>1. FirstMonitor.key = selfStop.owed /\ FirstDebt.key = selfStop.owed
        <5>1. FirstMonitor = NewMonitorContinuing(selfStop.owed)
          BY <2>2, <3>2 DEF FirstMonitor
        <5>2. FirstDebt = SeedOwedSession(selfStop.owed)
          BY <2>2, <3>1, <3>2 DEF FirstDebt
        <5> QED
          BY <5>1, <5>2 DEF NewMonitorContinuing, SeedOwedSession
      <4> QED
        BY <1>1, <4>1 DEF Alive, AliveBy, BesideDebt
    <3>3. CASE selfStop.owed = None
      <4>1. FirstDebt.key = None /\ FirstMonitor.key \in {selfStop.countdown, None}
        BY <2>2, <3>1, <3>3 DEF FirstMonitor, FirstDebt, NewMonitorContinuing, NewMonitor,
                               NoDebt
      <4> QED
        BY <1>1, <4>1, NoneApart DEF Alive, AliveBy, BesideDebt
    <3> QED
      BY <3>2, <3>3
  <2> QED
    BY <2>1, <2>2
<1>4. \A k \in Sessions : Alive(k)' => Alive(k)
  BY <1>1, <1>2, <1>3, NoneApart DEF Alive, AliveBy, NoSelfStop
<1>5. BesideDebts'
  BY <1>1, <1>2, <1>3 DEF BesideDebts, BesideDebt, NeverActed
<1> QED
  BY <1>1, <1>4, <1>5, SettledStays

LEMMA ReapSettled ==
  ASSUME ShapeInv, SettledShape, NEW w \in Watchers, ReapCancelled(w) \/ ReapFailed(w)
  PROVE  SettledShape'
<1>1. /\ UNCHANGED <<apply, action, slot, settledSession, slept>>
      /\ \A v \in Watchers \ {w} : watcher'[v] = watcher[v]
      /\ current' # None => current' = current /\ current # w
  BY ReapIs DEF settingsVars, slotVars, history
<1>2. current # None => current \in Watchers
  BY DEF ShapeInv, TypeOK
<1>3. \A k \in Sessions : selfStop'.owed = k \/ selfStop'.countdown = k => Alive(k)
  <2>1. CASE current # w /\ selfStop' = selfStop
    BY <2>1 DEF Alive
  <2>2. CASE current = w /\ selfStop' = LeftBy(watcher[w])
    <3>1. watcher[w] \in WatcherType /\ current # None /\ selfStop = NoSelfStop
      BY <2>2, NoneApart, WatcherHere DEF ShapeInv, SelfStopShape
    <3> QED
      BY <2>2, <3>1, LeftByTyped, NoneApart DEF Alive, AliveBy
  <2> QED
    BY <2>1, <2>2, ReapIs
<1>4. \A k \in Sessions : Alive(k)' => Alive(k)
  BY <1>1, <1>2, <1>3 DEF Alive
<1>5. BesideDebts'
  BY <1>1, <1>2 DEF SettledShape, BesideDebts, BesideDebt, NeverActed
<1> QED
  BY <1>1, <1>4, <1>5, SettledStays

LEMMA SettledStep ==
  ShapeInv /\ DueShape /\ FreshShape /\ SettledShape /\ [Next]_vars => SettledShape'
<1> SUFFICES ASSUME ShapeInv, DueShape, FreshShape, SettledShape, [Next]_vars
             PROVE  SettledShape'
  OBVIOUS
<1>1. CASE \E t \in Targets : Launch(t) \/ Quit(t)
  BY <1>1, OthersSettled DEF Launch, Quit, appVars, settingsVars, watcherVars, slotVars,
     history
<1>2. CASE \E w \in Watchers : WatcherNext(w) \/ ActionNext(w)
  <2>1. PICK w \in Watchers : WatcherNext(w) \/ ActionNext(w)
    BY <1>2
  <2>2. CASE ActionNext(w)
    BY <2>2, GoesOnSettled, StartScanSettled, ConcludeSettled, WatcherSettled DEF ActionNext
  <2>3. CASE WatcherNext(w)
    BY <2>3, PollRunningSettled, PollQuietSettled, WatcherSettled DEF WatcherNext
  <2> QED
    BY <2>1, <2>2, <2>3
<1>3. CASE SettingsNext
  <2>1. CASE \E settings \in Targets \cup {None} :
               \/ \E newDelay \in BOOLEAN : Save(settings, newDelay)
               \/ SaveFails(settings)
    <3>1. /\ UNCHANGED <<watcher, action, current, selfStop, slot, settledSession, slept>>
          /\ apply'.monitor = None /\ apply'.seed = None
      BY <2>1, Zenon DEF Save, SaveFails, appVars, watcherVars, slotVars, history, NoApply
    <3> QED
      BY <3>1, OthersSettled
  <2>2. CASE SettingsMatch
    <3>1. /\ UNCHANGED <<watcher, action, current, selfStop, slot, settledSession, slept>>
          /\ apply.step = "match"
      BY <2>2 DEF SettingsMatch, appVars, watcherVars, slotVars, history
    <3>2. apply'.monitor = None /\ apply'.seed = None
      <4>1. CASE EndApply
        BY <4>1, EndIs
      <4>2. CASE apply' = [apply EXCEPT !.step = "apply"]
        <5>1. apply \in ApplyType /\ apply.monitor = None /\ apply.seed = None
          BY <3>1, CountsTyped, OutsideSteps DEF AppFree, ApplySteps
        <5> QED
          BY <4>2, <5>1 DEF ApplyType
      <4> QED
        BY <2>2, <4>1, <4>2 DEF SettingsMatch
    <3> QED
      BY <3>1, <3>2, OthersSettled
  <2>3. CASE ApplyCancel \/ ApplySnapshot \/ ApplySeed
    BY <2>3, ApplyCancelSettled, SnapshotSettled, SeedSettled
  <2>4. CASE ApplyDetach
    <3>1. /\ UNCHANGED <<current, watcher, action, slot, settledSession, slept>>
          /\ selfStop' = NoSelfStop /\ EndApply
      BY <2>4 DEF ApplyDetach, watcherVars, slotVars
    <3> QED
      BY <3>1, EndIs, DropSettled
  <2>5. CASE \E w \in Watchers : ApplyBuild(w)
    BY <2>5, BuildSettled
  <2> QED
    BY <1>3, <2>1, <2>2, <2>3, <2>4, <2>5 DEF SettingsNext
<1>4. CASE RebuildNext
  <2>1. CASE \E w \in Watchers : ReapCancelled(w) \/ ReapFailed(w)
    BY <2>1, ReapSettled
  <2>2. CASE ReadEnabled \/ ScheduleRebuild \/ TimerFires \/ SkipRebuild \/ Recheck
    BY <2>2, OthersSettled DEF ReadEnabled, ScheduleRebuild, TimerFires, SkipRebuild,
       Recheck, appVars, settingsVars, watcherVars, slotVars, history
  <2>3. CASE \E saved \in BOOLEAN : Rebuild(saved)
    <3>1. /\ UNCHANGED <<watcher, action, current, selfStop, slot, settledSession, slept>>
          /\ apply'.monitor = None /\ apply'.seed = None
      BY <2>3 DEF Rebuild, appVars, watcherVars, slotVars, history, NoApply
    <3> QED
      BY <3>1, OthersSettled
  <2> QED
    BY <1>4, <2>1, <2>2, <2>3 DEF RebuildNext
<1>5. CASE BeginShutdown \/ Exited \/ UNCHANGED vars
  BY <1>5, OthersSettled DEF BeginShutdown, Exited, vars, appVars, settingsVars,
     watcherVars, slotVars, history
<1>6. CASE StopAutoSleep
  BY <1>6, StopAutoSleepSettled
<1> QED
  BY <1>1, <1>2, <1>3, <1>4, <1>5, <1>6 DEF Next

\* A key that some countdown, debt or settings call may still bring to an action
\* has not been slept, unless it was settled last and the slot is free; then
\* StartScan is refused (auto_sleep.go 683-693).
THEOREM SettledStaySettled == Spec => []SettledShape
<1>1. Init => SettledShape
  <2> SUFFICES ASSUME Init PROVE SettledShape
    OBVIOUS
  <2>1. \A w \in Watchers : ~Busy(action[w]) /\ slot # w
    BY NoneApart DEF Init, NoAction, Busy
  <2>2. BesideDebts
    BY DEF Init, BesideDebts, NoApply
  <2> QED
    BY <2>1, <2>2 DEF Init, SettledShape
<1>2. ShapeInv /\ DueShape /\ FreshShape /\ SettledShape /\ [Next]_vars => SettledShape'
  BY SettledStep
<1> QED
  BY <1>1, <1>2, WatchersInStep, DueIsKept, LastSessionIsNew, PTL DEF Spec

\* An action that goes on serves the newest debt, and a session that an action has
\* settled is not slept again, although its debt may have been handed to another
\* watcher before (watcher.go 51-63 and 242-259, auto_sleep.go 683-693).
THEOREM ActionsAreRight == Spec => []ActionsRight
<1>1. SettledShape => SettledOnce
  BY DEF SettledShape, SettledOnce, Busy
<1> QED
  BY <1>1, SettledStaySettled, ActionsServeDebts, PTL DEF ActionsRight
=============================================================================
