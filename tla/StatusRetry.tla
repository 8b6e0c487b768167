----------------------------- MODULE StatusRetry -----------------------------
(***************************************************************************)
(* Background recovery of one station: the single recovery goroutine that  *)
(* sleeps until its table says a read is due, the periodic status refresh, *)
(* the commands, the scans and the settings that all write to that table,  *)
(* and the presence verdict that decides whether the work is given up      *)
(* (internal/station/recovery_scheduler.go, status_refresh.go, manager.go, *)
(* presence.go and the merge half of scan.go).                             *)
(*                                                                         *)
(* Who may touch the device is decided by the operation coordinator, whose *)
(* promises this module takes from Coordinator: one operation per device,  *)
(* a scan beside none, and background reads cancelled for a waiting        *)
(* command or scan.  Every critical section of the table's mutex is one    *)
(* step; the sections a finished read or command runs through in a row,    *)
(* holding its device, are taken together.                                 *)
(***************************************************************************)
EXTENDS RetryTable

CONSTANTS BusyRetry,       \* ticks the loop rests when the station is busy
          Bases,           \* the base delays a user may set
          Limits,          \* the retry limits for an absent station
          Thresholds,      \* the misses that make a station absent
          Offers,          \* what stations offer beside their power: some of
                           \* "channel" and "metadata"
          MaxMisses,       \* misses are counted no further
          MaxEvents        \* what happens around the recovery, in any mix: a
                           \* scan, a refresh, a command, a change of settings,
                           \* a call that hangs, an adapter that is not ready,
                           \* the station switched off or on

ASSUME BusyAssumption == BusyRetry \in 1..MaxDelay
ASSUME BasesAssumption == Bases \in (SUBSET (Nat \ {0})) \ {{}}
ASSUME LimitsAssumption == Limits \in (SUBSET (1..FailureCap)) \ {{}}
ASSUME ThresholdsAssumption == Thresholds \in (SUBSET (1..MaxMisses)) \ {{}}
ASSUME BoundsAssumption == MaxMisses \in Nat /\ MaxEvents \in Nat
ASSUME OffersAssumption == Offers \subseteq SUBSET {"channel", "metadata"}

VARIABLES retry,      \* statusRetries[address]
          wake,       \* statusRecoveryWake holds its one signal
          loop,       \* the recovery goroutine
          refresh,    \* the refresh worker of this station
          command,    \* the foreground operation on this station
          scan,       \* the scan, and its last verdict on the station
          late,       \* a discovery waiting for the station's lock
          station,    \* what the program holds of the station, and its power
          settings,
          events      \* how many of the events above are left

vars == <<retry, wake, loop, refresh, command, scan, late, station, settings,
          events>>

LoopSteps == {"top", "parked", "asleep", "resting", "chosen", "metadata",
              "read", "checking", "pruning"}

\* The loop holds the device from its attempt to the end of the bookkeeping.
LoopHolds == loop.at \in {"metadata", "read", "checking", "pruning"}
DeviceHeld == LoopHolds \/ refresh # "idle" \/ command = "running"
Interrupting == command = "waiting" \/ scan.at = "draining"

-----------------------------------------------------------------------------

Signal == wake' = TRUE

Go(step) == loop' = [at |-> step, alarm |-> 0, kind |-> "none", metadata |-> "none"]
Rest(ticks) ==
    loop' = [at |-> "resting", alarm |-> ticks, kind |-> "none", metadata |-> "none"]

\* A read or a command that broke the link gives the session up.  The
\* cleanup is bounded: one that hangs goes on, holding the station's lock.
\* disconnectStationBounded, runBoundedAdapterCleanup.
GiveUpSession ==
    \/ /\ station' = [station EXCEPT !.connected = FALSE]
       /\ UNCHANGED events
    \/ /\ events > 0
       /\ station' = [station EXCEPT !.locked = TRUE]
       /\ events' = events - 1

\* A read that did not break the link: it connected the station, or ended
\* before it could.
KeepSession ==
    /\ station' \in {station, [station EXCEPT !.connected = station.reachable]}
    /\ UNCHANGED events

\* A read that fails value by value had a session to fail on; one without
\* fails as a whole.
Session == station.connected \/ station.reachable

\* The answers a read can give: a station that is off gives none, and a value
\* it does not offer needs no retry.
PowerAnswers == IF station.reachable THEN PowerResults \ {"unread"}
                ELSE {"slow", "dead"}
ChannelAnswers == IF "channel" \notin station.offers THEN {"ok"}
                  ELSE IF station.reachable THEN ChannelResults \ {"unread"}
                  ELSE {"slow", "dead"}
MetadataAnswers == IF "metadata" \notin station.offers THEN {TRUE}
                   ELSE IF station.reachable THEN BOOLEAN ELSE {FALSE}
ErrorAnswers == IF station.reachable THEN Errors ELSE {"refused", "dead"}

\* The presence rule of markMissedLocked and applyPresenceMissThresholdLocked.
PresentAfter(misses, threshold) == misses < threshold

-----------------------------------------------------------------------------
(* The recovery goroutine. *)

\* nextStatusRecoveryDelay, and where the loop waits on its answer.
LoopLooks ==
    /\ loop.at = "top"
    /\ \/ /\ retry = NoEntry
          /\ Go("parked")
       \/ /\ retry # NoEntry
          /\ NextDue(retry) > 0
          /\ loop' = [loop EXCEPT !.at = "asleep", !.alarm = NextDue(retry)]
       \/ /\ retry # NoEntry
          /\ NextDue(retry) = 0
          /\ loop' = [loop EXCEPT !.at = "chosen"]
    /\ UNCHANGED <<retry, wake, refresh, command, scan, late, station, settings,
                   events>>

\* A wake ends every wait of the loop, which then looks again.
LoopWakes ==
    /\ loop.at \in {"parked", "asleep", "resting"}
    /\ wake
    /\ wake' = FALSE
    /\ Go("top")
    /\ UNCHANGED <<retry, refresh, command, scan, late, station, settings, events>>

LoopAlarm ==
    /\ loop.at \in {"asleep", "resting"}
    /\ loop.alarm = 0
    /\ Go(IF loop.at = "asleep" THEN "chosen" ELSE "top")
    /\ UNCHANGED <<retry, wake, refresh, command, scan, late, station, settings,
                   events>>

\* runStatusRecoveryRound up to the choice of a kind, which is made on a
\* copy of the table.
LoopChooses ==
    /\ loop.at = "chosen"
    /\ loop.kind = "none"
    /\ \/ /\ scan.at # "none"
          /\ Rest(BusyRetry)
       \/ /\ scan.at = "none"
          /\ \A k \in DOMAIN retry : retry[k].next > 0
          /\ Go("top")
       \/ /\ scan.at = "none"
          /\ retry # NoEntry
          /\ NextDue(retry) = 0
          /\ \E k \in ServedKinds(retry) : loop' = [loop EXCEPT !.kind = k]
    /\ UNCHANGED <<retry, wake, refresh, command, scan, late, station, settings,
                   events>>

\* What an attempt for this kind is to do about metadata: metadataTracked and
\* stationConnected, as recoverOneStation reads them at its start.
MetadataOf(kind) ==
    IF kind = "metadata" \/ (~station.connected /\ "metadata" \in DOMAIN retry)
    THEN "tried"
    ELSE IF station.connected THEN "none" ELSE "untracked"

\* The rest of the round: a locked or busy station is left for the next
\* one; otherwise recoverOneStation has the device.
LoopBegins ==
    /\ loop.at = "chosen"
    /\ loop.kind # "none"
    /\ \/ /\ station.locked \/ DeviceHeld \/ scan.at # "none"
          /\ Rest(BusyRetry)
       \/ /\ ~station.locked /\ ~DeviceHeld /\ scan.at = "none"
          /\ loop' = [at |-> IF loop.kind = "metadata" THEN "metadata" ELSE "read",
                      alarm |-> 0, kind |-> "none",
                      metadata |-> MetadataOf(loop.kind)]
    /\ UNCHANGED <<retry, wake, refresh, command, scan, late, station, settings,
                   events>>

\* metadataAttempted.
MetadataAttempted == loop.metadata \in {"tried", "fresh"}

\* ensureReady fails: rest until the adapter may be tried again.
LoopNotReady ==
    /\ loop.at \in {"metadata", "read"}
    /\ loop.metadata # "fresh"
    /\ events > 0
    /\ events' = events - 1
    /\ \E ticks \in {BusyRetry, MaxDelay} : Rest(ticks)
    /\ UNCHANGED <<retry, wake, refresh, command, scan, late, station, settings>>

\* A foreground operation cancelled the attempt.
LoopCancelled ==
    /\ loop.at \in {"metadata", "read"}
    /\ Interrupting
    /\ retry' = Defer(retry, BusyRetry)
    /\ Signal
    /\ Rest(BusyRetry)
    /\ UNCHANGED <<refresh, command, scan, late, station, settings, events>>

\* The capability refresh of a metadata retry, before the status read.
LoopReadsMetadata ==
    /\ loop.at = "metadata"
    /\ ~station.locked
    /\ \/ /\ station.reachable
          /\ loop' = [loop EXCEPT !.at = "read", !.metadata = "fresh"]
          /\ station' = [station EXCEPT !.connected = TRUE]
          /\ UNCHANGED <<retry, wake, events>>
       \/ \E error \in ErrorAnswers :
            /\ retry' = RecordMetadata(
                            RecordUnstructured(retry, error, settings.base),
                            FALSE, settings.base)
            /\ IF error = "dead" THEN GiveUpSession ELSE KeepSession
            /\ Signal
            /\ Go("checking")
    /\ UNCHANGED <<refresh, command, scan, late, settings>>

\* fetchInitialPowerState succeeds: everything it read is settled.
LoopReadsAll ==
    /\ loop.at = "read"
    /\ ~station.locked
    /\ station.reachable
    /\ retry' = Clear(retry, {"connection", "channel", "refresh"}
                       \cup (IF MetadataAttempted THEN {"metadata"} ELSE {}))
    /\ station' = [station EXCEPT !.connected = TRUE]
    /\ Signal
    /\ Go("top")
    /\ UNCHANGED <<refresh, command, scan, late, settings, events>>

\* Some of the values could not be read.  The refresh marker is consumed
\* first.  Metadata counts when this attempt was to read it; a read that had
\* to connect first brings metadata that nothing was owed for back when it
\* fails, where a connected one may only repeat a stale error.
LoopReadsPart ==
    /\ loop.at = "read"
    /\ ~station.locked
    /\ Session
    /\ \E power \in PowerAnswers, channel \in ChannelAnswers, ok \in MetadataAnswers :
         LET consumed == Clear(retry, {"refresh"})
             recorded == RecordObserved(consumed, power, channel, settings.base)
         IN  /\ retry' = IF MetadataAttempted
                               \/ (loop.metadata = "untracked" /\ ~ok)
                         THEN RecordMetadata(recorded, ok, settings.base)
                         ELSE recorded
             /\ IF BreaksLink(power, channel) THEN GiveUpSession ELSE KeepSession
    /\ Signal
    /\ Go("checking")
    /\ UNCHANGED <<refresh, command, scan, late, settings>>

\* Mutant: a refused read is not held against the limit of an absent station.
LoopReadFailsUnlimited ==
    /\ loop.at = "read"
    /\ ~station.locked
    /\ \E error \in ErrorAnswers :
         LET consumed == Clear(retry, {"refresh"})
             recorded == RecordUnstructured(consumed, error, settings.base)
         IN  /\ retry' = IF ~MetadataAttempted THEN recorded
                         ELSE RecordMetadata(recorded, loop.metadata = "fresh",
                                             settings.base)
             /\ IF error = "dead" THEN GiveUpSession ELSE KeepSession
             /\ Go(IF error = "refused" THEN "top" ELSE "checking")
    /\ Signal
    /\ UNCHANGED <<refresh, command, scan, late, settings>>

\* The read failed as a whole.
LoopReadFails ==
    /\ loop.at = "read"
    /\ ~station.locked
    /\ \E error \in ErrorAnswers :
         LET consumed == Clear(retry, {"refresh"})
             recorded == RecordUnstructured(consumed, error, settings.base)
         IN  /\ retry' = IF ~MetadataAttempted THEN recorded
                         ELSE RecordMetadata(recorded, loop.metadata = "fresh",
                                             settings.base)
             /\ IF error = "dead" THEN GiveUpSession ELSE KeepSession
    /\ Signal
    /\ Go("checking")
    /\ UNCHANGED <<refresh, command, scan, late, settings>>

\* stopExhaustedAbsentRecovery reads the presence ...
LoopChecksPresence ==
    /\ loop.at = "checking"
    /\ Go(IF station.present THEN "top" ELSE "pruning")
    /\ UNCHANGED <<retry, wake, refresh, command, scan, late, station, settings,
                   events>>

\* ... and then takes the table's mutex.
LoopPrunes ==
    /\ loop.at = "pruning"
    /\ retry' = PruneExhausted(retry, settings.limit)
    /\ wake' = (wake \/ retry' # retry)
    /\ Go("top")
    /\ UNCHANGED <<refresh, command, scan, late, station, settings, events>>

-----------------------------------------------------------------------------
(* The periodic status refresh. *)

\* CheckAllStationStatuses with nothing to read here: a present station that
\* is not connected is handed to the recovery.
RefreshFindsDisconnected ==
    /\ events > 0 /\ scan.at = "none"
    /\ station.present /\ ~station.connected
    /\ retry' = EnsureTracked(retry)
    /\ Signal
    /\ events' = events - 1
    /\ UNCHANGED <<loop, refresh, command, scan, late, station, settings>>

\* The station is connected, and its device is taken: the read stays owed.
RefreshFindsBusy ==
    /\ events > 0 /\ scan.at = "none"
    /\ station.present /\ station.connected /\ DeviceHeld
    /\ retry' = TrackPending(retry)
    /\ Signal
    /\ events' = events - 1
    /\ UNCHANGED <<loop, refresh, command, scan, late, station, settings>>

RefreshReads ==
    /\ events > 0 /\ scan.at = "none"
    /\ station.present /\ station.connected /\ ~DeviceHeld
    /\ refresh' = "reading"
    /\ events' = events - 1
    /\ UNCHANGED <<retry, wake, loop, command, scan, late, station, settings>>

\* Mutant: the read of the worker left behind is not marked as owed.
RefreshAbandonsUnmarked ==
    /\ refresh = "reading"
    /\ refresh' = "abandoned"
    /\ Signal
    /\ UNCHANGED <<retry, loop, command, scan, late, station, settings, events>>

\* The bounded join ends first: the read is marked as owed, and its worker
\* goes on with the device.
RefreshAbandons ==
    /\ refresh = "reading"
    /\ refresh' = "abandoned"
    /\ retry' = TrackPending(retry)
    /\ Signal
    /\ UNCHANGED <<loop, command, scan, late, station, settings, events>>

\* Only a refresh that still waits for its worker ends by waking the loop.
JoinWakes == wake' = (wake \/ refresh = "reading")

\* readStationStatus: cancelled for a foreground operation, or stopped by
\* the deadline of the whole refresh.
RefreshInterrupted ==
    /\ refresh # "idle"
    /\ ~station.locked
    /\ retry' = TrackPending(retry)
    /\ JoinWakes
    /\ refresh' = "idle"
    /\ UNCHANGED <<loop, command, scan, late, station, settings, events>>

RefreshSucceeds ==
    /\ refresh # "idle"
    /\ ~station.locked
    /\ station.connected /\ station.reachable
    /\ retry' = Clear(retry, {"connection", "channel", "refresh"})
    /\ Signal
    /\ refresh' = "idle"
    /\ UNCHANGED <<loop, command, scan, late, station, settings, events>>

\* The link dropped after the station was selected.
RefreshFindsDropped ==
    /\ refresh # "idle"
    /\ ~station.locked
    /\ ~station.connected
    /\ retry' = EnsureTracked(retry)
    /\ Signal
    /\ refresh' = "idle"
    /\ UNCHANGED <<loop, command, scan, late, station, settings, events>>

\* The read ran out of its own events: a failure, and a marker no earlier.
TimedOut(e, base) ==
    LET noted == NoteFailure(e, "connection", base)
    IN  Defer(TrackPending(noted),
              Delay(base, Failures(noted, "connection")))

RefreshTimesOut ==
    /\ refresh # "idle"
    /\ ~station.locked
    /\ retry' = TimedOut(retry, settings.base)
    /\ Signal
    /\ refresh' = "idle"
    /\ UNCHANGED <<loop, command, scan, late, station, settings, events>>

RefreshFails ==
    /\ refresh # "idle"
    /\ ~station.locked
    /\ \/ \E power \in PowerAnswers, channel \in ChannelAnswers :
            /\ Session
            /\ retry' = RecordObserved(retry, power, channel, settings.base)
            /\ IF BreaksLink(power, channel) THEN GiveUpSession
               ELSE UNCHANGED <<station, events>>
       \/ \E error \in ErrorAnswers :
            /\ retry' = RecordUnstructured(retry, error, settings.base)
            /\ IF error = "dead" THEN GiveUpSession
               ELSE UNCHANGED <<station, events>>
    /\ Signal
    /\ refresh' = "idle"
    /\ UNCHANGED <<loop, command, scan, late, settings>>

-----------------------------------------------------------------------------
(* Commands. *)

\* beginForegroundStationOperationContext: the device at once, or a
\* background read cancelled and waited for.
CommandArrives ==
    /\ events > 0 /\ command = "none" /\ scan.at = "none"
    /\ ~station.locked
    /\ command' = IF DeviceHeld THEN "waiting" ELSE "running"
    /\ events' = events - 1
    /\ UNCHANGED <<retry, wake, loop, refresh, scan, late, station, settings>>

CommandGoesOn ==
    /\ command = "waiting"
    /\ \/ command' = "none"
       \/ /\ ~DeviceHeld /\ scan.at = "none"
          /\ command' = "running"
    /\ UNCHANGED <<retry, wake, loop, refresh, scan, late, station, settings, events>>

\* The metadata read a command caused, seen when the command is over:
\* reconcileMetadataReadResult.
Reconciled(e) ==
    {e} \cup {RecordMetadata(e, ok, settings.base) : ok \in MetadataAnswers}

CommandDone ==
    /\ command' = "none"
    /\ Signal
    /\ UNCHANGED <<loop, refresh, scan, late, settings>>

\* observeStationBluetoothError: a protocol rejection or a deadline of a
\* command leaves no trace, unlike one of a background read.
ObserveError(e, error) ==
    IF error = "refused" THEN e ELSE RecordUnstructured(e, error, settings.base)

\* SetStationPower: the verification of a stale value, then the command.
\* A link the verification proved dead is not counted again; a command that
\* was sent clears the connection, also when the station drops the link
\* going to sleep before it has confirmed.
PowerEnds ==
    /\ command = "running" /\ ~station.locked
    /\ \E check \in
            {[retry |-> retry, broken |-> FALSE, counted |-> FALSE]} \cup
            (IF ~Session THEN {} ELSE
             {[retry |-> RecordObserved(retry, power, channel, settings.base),
               broken |-> BreaksLink(power, channel),
               counted |-> power = "dead"] :
                   power \in PowerAnswers \cup {"unread"},
                   channel \in ChannelAnswers \cup {"unread"}}) :
         \/ /\ station.reachable
            /\ retry' \in Reconciled(Clear(check.retry, {"connection"}))
            /\ KeepSession \/ GiveUpSession
         \/ \E error \in ErrorAnswers :
              /\ retry' \in Reconciled(
                     IF check.counted /\ error = "dead" THEN check.retry
                     ELSE ObserveError(check.retry, error))
              /\ IF error = "dead" \/ check.broken
                 THEN GiveUpSession ELSE KeepSession
    /\ CommandDone

\* IdentifyStation, SetStationChannel.
CommandEnds ==
    /\ command = "running" /\ ~station.locked
    /\ \/ /\ station.reachable
          /\ \E settled \in {{"connection"}, {"connection", "channel"}} :
               retry' \in Reconciled(Clear(retry, settled))
          /\ KeepSession
       \/ \E error \in ErrorAnswers :
            /\ retry' \in Reconciled(ObserveError(retry, error))
            /\ IF error = "dead" THEN GiveUpSession ELSE KeepSession
    /\ CommandDone

\* RefreshStationCapabilities: a full read settles everything.
CapabilitiesEnd ==
    /\ command = "running" /\ ~station.locked
    /\ \/ /\ station.reachable
          /\ retry' \in Reconciled(NoEntry)
          /\ KeepSession
       \/ \E power \in PowerAnswers, channel \in ChannelAnswers :
            /\ Session
            /\ retry' \in Reconciled(
                   RecordObserved(retry, power, channel, settings.base))
            /\ IF BreaksLink(power, channel) THEN GiveUpSession ELSE KeepSession
    /\ CommandDone

-----------------------------------------------------------------------------
(* Scans. *)

\* reserveScan: a newer scan supersedes the older discovery that still waits.
ScanReserved ==
    /\ events > 0 /\ scan.at = "none"
    /\ scan' = [scan EXCEPT !.at = "draining"]
    /\ late' = IF late = "current" THEN "superseded" ELSE late
    /\ events' = events - 1
    /\ UNCHANGED <<retry, wake, loop, refresh, command, station, settings>>

\* The device drains, or the scan gives up waiting for it.
ScanDrained ==
    /\ scan.at = "draining"
    /\ \/ /\ ~DeviceHeld
          /\ scan' = [scan EXCEPT !.at = "releasing"]
       \/ scan' = [scan EXCEPT !.at = "none"]
    /\ UNCHANGED <<retry, wake, loop, refresh, command, late, station, settings, events>>

\* releaseStationsForScan: a connection that is not released in time makes
\* the station's silence no evidence.
ScanReleases ==
    /\ scan.at = "releasing"
    /\ \/ /\ ~station.locked
          /\ station' = [station EXCEPT !.connected = FALSE]
          /\ scan' = [scan EXCEPT !.at = "listening", !.sure = TRUE]
       \/ /\ scan' = [scan EXCEPT !.at = "listening", !.sure = FALSE]
          /\ UNCHANGED station
    /\ UNCHANGED <<retry, wake, loop, refresh, command, late, settings, events>>

ScanEndsEarly ==
    /\ scan.at \in {"releasing", "listening"}
    /\ scan' = [scan EXCEPT !.at = "none"]
    /\ UNCHANGED <<retry, wake, loop, refresh, command, late, station, settings, events>>

\* markSeenLocked, and the recovery of a station that was absent.
Observed ==
    /\ station' = [station EXCEPT !.present = TRUE, !.misses = 0]
    /\ IF station.present THEN UNCHANGED <<retry, wake>>
       ELSE retry' = Rebase(retry) /\ Signal

\* mergeDiscoveredStations for a discovered station: the sighting is applied
\* now, or left to a goroutine when the station's lock is taken.
ScanSees ==
    /\ scan.at = "listening"
    /\ station.reachable
    /\ IF station.locked
       THEN /\ late' = "current"
            /\ UNCHANGED <<retry, wake, station>>
       ELSE Observed /\ UNCHANGED late
    /\ scan' = [scan EXCEPT !.at = IF station.connected THEN "none" ELSE "reading",
                            !.verdict = "seen"]
    /\ UNCHANGED <<loop, refresh, command, settings, events>>

\* markScanMisses: one more miss, when the silence counts and the lock is free.
ScanMisses ==
    /\ scan.at = "listening"
    /\ LET misses == Lesser(station.misses + 1, MaxMisses)
       IN  IF scan.sure /\ ~station.locked
           THEN /\ station' = [station EXCEPT !.misses = misses,
                        !.present = PresentAfter(misses, settings.threshold)]
                /\ scan' = [scan EXCEPT !.at = "none", !.verdict = "missed"]
           ELSE /\ scan' = [scan EXCEPT !.at = "none", !.verdict = "unsure"]
                /\ UNCHANGED station
    /\ UNCHANGED <<retry, wake, loop, refresh, command, late, settings, events>>

\* recordInitialScanReadResults.
ScanReads ==
    /\ scan.at = "reading"
    /\ ~station.locked
    /\ \/ /\ station.reachable
          /\ retry' = NoEntry
          /\ station' = [station EXCEPT !.connected = TRUE]
          /\ UNCHANGED events
       \/ \E power \in PowerAnswers, channel \in ChannelAnswers, ok \in MetadataAnswers :
            /\ Session
            /\ retry' = RecordMetadata(
                            RecordObserved(retry, power, channel, settings.base),
                            ok, settings.base)
            /\ IF BreaksLink(power, channel) THEN GiveUpSession ELSE KeepSession
       \/ \E error \in ErrorAnswers :
            /\ retry' = RecordUnstructured(retry, error, settings.base)
            /\ IF error = "dead" THEN GiveUpSession ELSE KeepSession
    /\ Signal
    /\ scan' = [scan EXCEPT !.at = "none"]
    /\ UNCHANGED <<loop, refresh, command, late, settings>>

\* The read phase is over before the read: it stays owed; or the scan was
\* cancelled, and nothing is booked.  A reader that hangs keeps the lock.
ScanReadAbandoned ==
    /\ scan.at = "reading"
    /\ \/ /\ retry' = TrackPending(retry)
          /\ Signal
       \/ UNCHANGED <<retry, wake>>
    /\ \/ UNCHANGED <<station, events>>
       \/ /\ events > 0
          /\ station' = [station EXCEPT !.locked = TRUE]
          /\ events' = events - 1
    /\ scan' = [scan EXCEPT !.at = "none"]
    /\ UNCHANGED <<loop, refresh, command, late, settings>>

\* Mutant: the goroutine does not look at the scan's number again.
LateAppliesUnchecked ==
    /\ late # "none"
    /\ ~station.locked
    /\ late' = "none"
    /\ Observed
    /\ UNCHANGED <<loop, refresh, command, scan, settings, events>>

\* reconcileBusyScanObservations: the sighting is applied once the lock is
\* free, unless a newer scan was reserved.
LateApplies ==
    /\ late = "current"
    /\ ~station.locked
    /\ late' = "none"
    /\ Observed
    /\ UNCHANGED <<loop, refresh, command, scan, settings, events>>

\* Superseded, or its window of retries is over.
LateDropped ==
    /\ late # "none"
    /\ late' = "none"
    /\ UNCHANGED <<retry, wake, loop, refresh, command, scan, station, settings,
                   events>>

-----------------------------------------------------------------------------
(* Settings, the station itself, and the clock. *)

\* ApplyRecoverySettings after a new base delay or limit, and
\* ReviveAbsentStationRecovery after a limit that went up.  The time since
\* the last failure is taken at its two ends.
ChangeRecovery ==
    /\ events > 0
    /\ \E base \in Bases, limit \in Limits, since \in [Failed(retry) -> {0, MaxDelay}] :
         LET kept == IF station.present THEN retry
                     ELSE PruneExhausted(retry, limit)
             rebased == Reschedule(kept, base, since)
         IN  /\ retry' = IF limit > settings.limit /\ ~station.present
                         THEN Revive(rebased) ELSE rebased
             /\ settings' = [settings EXCEPT !.base = base, !.limit = limit]
    /\ Signal
    /\ events' = events - 1
    /\ UNCHANGED <<loop, refresh, command, scan, late, station>>

\* ApplyPresenceMissThreshold: the misses are judged again.
ChangeThreshold ==
    /\ events > 0
    /\ \E threshold \in Thresholds :
         LET judged == ~station.locked /\ station.misses > 0
             present == PresentAfter(station.misses, threshold)
             changed == judged /\ present # station.present
         IN  /\ settings' = [settings EXCEPT !.threshold = threshold]
             /\ station' = [station EXCEPT !.present = IF judged THEN present ELSE @]
             /\ retry' = IF changed /\ present /\ ~station.connected
                         THEN Rebase(retry)
                         ELSE IF changed /\ ~present
                              THEN PruneExhausted(retry, settings.limit)
                              ELSE retry
             /\ wake' = (wake \/ retry' # retry)
    /\ events' = events - 1
    /\ UNCHANGED <<loop, refresh, command, scan, late>>

\* The station is switched off or on.
StationMoves ==
    /\ events > 0
    /\ station' = [station EXCEPT !.reachable = ~@]
    /\ events' = events - 1
    /\ UNCHANGED <<retry, wake, loop, refresh, command, scan, late, settings>>

LinkDrops ==
    /\ station.connected /\ ~station.reachable
    /\ station' = [station EXCEPT !.connected = FALSE]
    /\ UNCHANGED <<retry, wake, loop, refresh, command, scan, late, settings, events>>

\* The call that held the station's lock returns.
CallReturns ==
    /\ station.locked
    /\ \E connected \in {station.connected, FALSE} :
         station' = [station EXCEPT !.locked = FALSE, !.connected = connected]
    /\ UNCHANGED <<retry, wake, loop, refresh, command, scan, late, settings, events>>

Tick ==
    /\ loop.alarm > 0 \/ \E k \in DOMAIN retry : retry[k].next > 0
    /\ retry' = Elapse(retry)
    /\ loop' = [loop EXCEPT !.alarm = Later(@ - 1, 0)]
    /\ UNCHANGED <<wake, refresh, command, scan, late, station, settings, events>>

-----------------------------------------------------------------------------

\* A running program after a first scan that saw the station: its initial
\* read settled or left something owed, its reader may still hang with the
\* station's lock, and the station may have been switched off since.
Init ==
    /\ \E connected, reachable, locked \in BOOLEAN, offers \in Offers :
         station = [present |-> TRUE, misses |-> 0, connected |-> connected,
                    reachable |-> reachable, locked |-> locked, offers |-> offers]
    /\ settings = [base |-> Least(Bases), limit |-> Least(Limits),
                   threshold |-> Least(Thresholds)]
    /\ retry \in {NoEntry, TrackPending(NoEntry)} \cup
                (IF station.locked THEN {} ELSE
                 {RecordObserved(NoEntry, power, channel, settings.base) :
                     power \in PowerAnswers, channel \in ChannelAnswers})
    /\ wake = (retry # NoEntry)
    /\ loop = [at |-> "parked", alarm |-> 0, kind |-> "none", metadata |-> "none"]
    /\ refresh = "idle"
    /\ command = "none"
    /\ scan = [at |-> "none", sure |-> TRUE, verdict |-> "seen"]
    /\ late = "none"
    /\ events = MaxEvents

LoopNext ==
    \/ LoopLooks \/ LoopWakes \/ LoopAlarm \/ LoopChooses \/ LoopBegins
    \/ LoopNotReady \/ LoopCancelled \/ LoopReadsMetadata \/ LoopReadsAll
    \/ LoopReadsPart \/ LoopReadFails \/ LoopChecksPresence \/ LoopPrunes

RefreshNext ==
    \/ RefreshFindsDisconnected \/ RefreshFindsBusy \/ RefreshReads
    \/ RefreshAbandons \/ RefreshInterrupted \/ RefreshSucceeds
    \/ RefreshFindsDropped \/ RefreshTimesOut \/ RefreshFails

CommandNext ==
    CommandArrives \/ CommandGoesOn \/ PowerEnds \/ CommandEnds \/ CapabilitiesEnd

ScanNext ==
    \/ ScanReserved \/ ScanDrained \/ ScanReleases \/ ScanEndsEarly \/ ScanSees
    \/ ScanMisses \/ ScanReads \/ ScanReadAbandoned \/ LateApplies \/ LateDropped

EnvironmentNext ==
    ChangeRecovery \/ ChangeThreshold \/ StationMoves \/ LinkDrops \/ CallReturns

Next == LoopNext \/ RefreshNext \/ CommandNext \/ ScanNext \/ EnvironmentNext \/ Tick

Spec == Init /\ [][Next]_vars

\* The goroutines run, the clock ticks, and every call ends: the ones that
\* take a context by its deadline, the others when the platform returns.
\* A link to a station that is off times out.
Fairness ==
    /\ WF_vars(LoopNext)
    /\ WF_vars(RefreshInterrupted)
    /\ WF_vars(CommandGoesOn \/ CommandEnds)
    /\ WF_vars(ScanDrained \/ ScanReleases \/ ScanMisses \/ ScanReadAbandoned)
    /\ WF_vars(LateDropped) /\ WF_vars(CallReturns) /\ WF_vars(LinkDrops)
    /\ WF_vars(Tick)

FairSpec == Spec /\ Fairness

-----------------------------------------------------------------------------

LoopState == [at : LoopSteps, alarm : 0..MaxDelay, kind : Kinds \cup {"none"},
              metadata : {"none", "untracked", "tried", "fresh"}]
ScanState == [at : {"none", "draining", "releasing", "listening", "reading"},
              sure : BOOLEAN, verdict : {"seen", "missed", "unsure"}]
StationState == [present : BOOLEAN, misses : 0..MaxMisses, connected : BOOLEAN,
                 reachable : BOOLEAN, locked : BOOLEAN, offers : Offers]
SettingsState == [base : Bases, limit : Limits, threshold : Thresholds]

\* The types of the variables.
TypeOK ==
    /\ retry \in Entries
    /\ wake \in BOOLEAN
    /\ loop \in LoopState
    /\ refresh \in {"idle", "reading", "abandoned"}
    /\ command \in {"none", "waiting", "running"}
    /\ scan \in ScanState
    /\ late \in {"none", "current", "superseded"}
    /\ station \in StationState
    /\ settings \in SettingsState
    /\ events \in 0..MaxEvents

\* A pending-refresh marker that falls due ahead of the connection backoff.
Outruns(e) ==
    /\ {"connection", "refresh"} \subseteq DOMAIN e
    /\ e["refresh"].next < e["connection"].next

\* No read, command, scan or retry makes the marker of a pending read fall
\* due ahead of the connection's backoff, in whatever order the two are
\* recorded: recovery would repeat the read that just failed and spend the
\* retries of an absent station ahead of time.  A change of the settings is
\* the one step that may (manager.go, ApplyRecoverySettings, moves the
\* backoff and leaves the marker).
MarkerBehindBackoff ==
    [][Outruns(retry') => Outruns(retry) \/ ChangeRecovery]_vars

\* One background read, of recovery, a refresh or a scan, counts at most one
\* connection failure, whichever of its values met the dead link: two would
\* double the backoff and give an absent station up early.  A command may
\* count two, one for the read that checks a stale value and one of its own.
FailureCountedOnce ==
    [][command' = command =>
         Failures(retry', "connection") <= Failures(retry, "connection") + 1]_vars

\* A sighting that waited for the station's lock does not make a station
\* present again that a newer scan has missed.
NoStaleRevival ==
    [][late # "none" /\ late' = "none" /\ ~station.present /\ station'.present
       => scan.verdict = "seen"]_vars

\* The loop never waits for a signal alone while something is owed, whoever
\* recorded it and whatever the loop was doing: every other wait has a timer,
\* this one would last until an unrelated event.  A read that its refresh no
\* longer waits for records without a signal, and relies on the marker the
\* refresh left behind.
NeverSleepsThrough == loop.at = "parked" /\ retry # NoEntry => wake

\* The variables have their types and the loop sleeps through nothing.
RetryInv == TypeOK /\ NeverSleepsThrough

Gone == ~station.present /\ ~station.reachable

\* A station that is switched off and that the scans have declared absent is
\* left alone in the end, once no channel read is owed: the connection is
\* given up at its limit, the metadata at theirs, a marker by its read.
GivesUpWithoutChannel ==
    <>[](Gone /\ "channel" \notin DOMAIN retry) => <>[](retry = NoEntry)

\* The same of every absent station, as ReviveAbsentStationRecovery ("a fresh
\* limited recovery budget") and TestAbsentStationRecoveryStopsAfterBounded-
\* Failures say.
AbsentGivenUp == <>[]Gone => <>[](retry = NoEntry)
=============================================================================
