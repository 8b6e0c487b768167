----------------------------- MODULE BulkPower ------------------------------
(***************************************************************************)
(* The bulk power batch: one target for every known station, two workers   *)
(* at a time, results gathered by a join that leaves a stuck worker behind, *)
(* beside a cancellation, the batch's own deadline, a shutdown and the     *)
(* adapter (internal/station/power_bulk.go over AdapterInit).              *)
(*                                                                         *)
(* Batches follow one another: the lifecycle slot and the coordinator's    *)
(* exclusive lock admit one.  A worker that was left behind does not end   *)
(* with its batch.  Sleep is a pair of writes: the first is that of "on",  *)
(* the second follows whatever has become of the batch by then.  A write   *)
(* and what the station makes of it are one step: what the radio has been  *)
(* given arrives in that order, or not at all.                             *)
(***************************************************************************)
EXTENDS AdapterInit

CONSTANTS Stations,
          MaxBatches,
          Known,        \* the stations each batch finds: scans go on between them
          Target,       \* what each batch asks for
          Found,        \* the state each station is in at first
          Slots         \* the size of the workers' semaphore: 2 in the code

ASSUME StationsAssumption == IsFiniteSet(Stations) /\ Stations # {}
ASSUME BatchesAssumption == MaxBatches \in Nat \ {0}
ASSUME KnownAssumption == Known \in [1..MaxBatches -> (SUBSET Stations) \ {{}}]
ASSUME TargetAssumption == Target \in [1..MaxBatches -> {"on", "standby", "sleep"}]
ASSUME FoundAssumption == Found \in [Stations -> {"on", "standby", "sleep"}]
ASSUME SlotsAssumption == Slots \in Nat \ {0}
ASSUME BatchAskersAssumption == Askers = 0..MaxBatches /\ StartupAsker = 0

VARIABLES batch,   \* the last batch begun: its call, its context, its result
          result,  \* its entry for each station
          worker,  \* the workers of every batch
          lock,    \* each station's mutex: Free, Wedged or the batch whose
                   \* worker holds it
          power    \* the state each station is in, and for sleep the batch
                   \* that put it there, Others when none did

callVars == <<batch, result>>
bulkVars == <<callVars, worker, lock, power>>
vars == <<adapterVars, bulkVars>>

Batches == 1..MaxBatches
Powers == {"on", "standby", "sleep"}
Others == 0
Free == 0
Wedged == MaxBatches + 1

\* What an entry says of its station: the target is there (found or confirmed),
\* the command was sent, there was nothing to do (booting, not supported), an
\* interruption kept the batch from it, or none of these.  "late" is cancelled or
\* shutdown, said of a station whose own budget had ended before either.
Entries == {"reached", "unconfirmed", "benign", "cancelled", "shutdown", "late",
            "batchTimeout", "stationTimeout", "busy", "failed", "untouched"}

Idle == [at |-> "none", entry |-> "untouched", affected |-> FALSE,
         faulted |-> FALSE]

-----------------------------------------------------------------------------
(* Contexts. *)

\* The context of an earlier batch was cancelled when its call returned.
Context(b) == IF b = batch.n THEN batch.context ELSE "cancelled"

Stopped(b) == Context(b) # "live"

\* isContextInterruption.
Interrupted(b) == Stopped(b) \/ shutting

\* bulkInterruptionReason: a worker that is stopped while nothing else is
\* has used up the budget of its own station.
Reason(b) ==
    CASE shutting -> "shutdown"
      [] ~shutting /\ Context(b) = "expired" -> "batchTimeout"
      [] ~shutting /\ Context(b) = "cancelled" -> "cancelled"
      [] ~shutting /\ Context(b) = "live" -> "stationTimeout"

-----------------------------------------------------------------------------
(* One worker. *)

Put(b, s, w) == worker' = [worker EXCEPT ![b][s] = w]

\* The entry is settled and the worker ends: "done", or "closing" while the
\* snapshot its bookkeeping takes waits for the lock.  Nobody reads the entry
\* of a worker that was left behind.
SettleAt(at, b, s, entry, affected) ==
    Put(b, s, IF b = batch.n /\ batch.at = "joining"
              THEN [Idle EXCEPT !.at = at, !.entry = entry, !.affected = affected]
              ELSE Idle)

Settle(b, s, entry, affected) == SettleAt("done", b, s, entry, affected)

\* Stopped by a context and nothing else.  Whether it was the batch's is asked
\* first (isContextInterruption), the reason afterwards.
StoppedBy(b, s) ==
    IF Interrupted(b) THEN Settle(b, s, Reason(b), TRUE)
    ELSE Put(b, s, [Idle EXCEPT !.at = "ending"])

SlotsTaken(b) ==
    Cardinality({s \in Stations : worker[b][s].at \notin {"none", "queued", "done"}})

\* A slot of the semaphore, the check of the context after it, and TrySnapshot:
\* a station whose lock is taken is not waited for.
WorkerStarts(b, s) ==
    /\ worker[b][s].at = "queued"
    /\ \/ /\ SlotsTaken(b) < Slots /\ ~Interrupted(b)
          /\ IF lock[s] # Free THEN Settle(b, s, "busy", FALSE)
             ELSE Put(b, s, [Idle EXCEPT !.at = "applying"])
       \/ /\ Interrupted(b)
          /\ Settle(b, s, Reason(b), TRUE)
    /\ UNCHANGED <<adapterVars, callVars, lock, power>>

\* applyBulkPowerCommand up to its first call: booting, a read that verifies
\* the value or discovers the capabilities, or neither.
WorkerApplies(b, s) ==
    /\ worker[b][s].at = "applying" /\ lock[s] = Free
    /\ \/ /\ Settle(b, s, "benign", FALSE)
          /\ UNCHANGED lock
       \/ /\ Put(b, s, [Idle EXCEPT !.at = "reading"])
          /\ lock' = [lock EXCEPT ![s] = b]
       \/ /\ Put(b, s, [Idle EXCEPT !.at = "prepared"])
          /\ UNCHANGED lock
    /\ UNCHANGED <<adapterVars, callVars, power>>

Release(s) == lock' = [lock EXCEPT ![s] = Free]

Lock(b, s) == lock' = [lock EXCEPT ![s] = b]

\* The failure that a call met may be that of the adapter.
ObserveAdapter ==
    /\ adapter' \in {adapter, Lost(adapter)}
    /\ UNCHANGED <<enabling, asker, shutting>>

\* A failure of the link gives the session up; the cleanup may hang with the
\* lock.  It may be joined with the interruption that met it.
Fails(b, s, entry) ==
    /\ \E affected \in {FALSE, Interrupted(b)} :
         \/ Settle(b, s, entry, affected) /\ Release(s)
         \/ /\ SettleAt("closing", b, s, entry, affected)
            /\ lock' = [lock EXCEPT ![s] = Wedged]
    /\ ObserveAdapter

\* The calls that let go of the station's lock on their way: while a disconnect
\* is cleaned up, a discovery is tried again or a confirmation waits to poll.
Yielding == {"reading", "connecting", "finishing", "confirming"}

WorkerYields(b, s) ==
    /\ worker[b][s].at \in Yielding /\ lock[s] = b
    /\ Release(s)
    /\ UNCHANGED <<adapterVars, callVars, worker, power>>

WorkerResumes(b, s) ==
    /\ worker[b][s].at \in Yielding /\ lock[s] = Free
    /\ Lock(b, s)
    /\ UNCHANGED <<adapterVars, callVars, worker, power>>

\* The worker is inside this call and holds its station.
Inside(b, s, call) == worker[b][s].at = call /\ lock[s] = b

AtTarget(b, s) == power[s].value = Target[b]

\* A read that failed does not keep the worker from its write.
WorkerReadEnds(b, s) ==
    /\ Inside(b, s, "reading")
    /\ \/ /\ Release(s) /\ UNCHANGED adapterVars
          /\ \/ AtTarget(b, s) /\ Settle(b, s, "reached", FALSE)
             \/ Settle(b, s, "benign", FALSE)
             \/ StoppedBy(b, s)
             \/ Put(b, s, [Idle EXCEPT !.at = "prepared"])
       \/ /\ Put(b, s, [Idle EXCEPT !.at = "prepared"])
          /\ lock' \in {[lock EXCEPT ![s] = l] : l \in {Free, Wedged}}
          /\ ObserveAdapter
       \/ Fails(b, s, "failed")
    /\ UNCHANGED <<callVars, power>>

\* SetPowerStateContext takes the lock and looks at its context again.  An
\* attempt that is stopped after one that failed reports both.
WorkerConnects(b, s) ==
    /\ worker[b][s].at = "prepared" /\ lock[s] = Free
    /\ \/ /\ ~Stopped(b)
          /\ Put(b, s, [worker[b][s] EXCEPT !.at = "connecting"])
          /\ Lock(b, s)
       \/ /\ IF worker[b][s].faulted THEN Settle(b, s, "failed", Interrupted(b))
             ELSE StoppedBy(b, s)
          /\ UNCHANGED lock
       \/ /\ ~worker[b][s].faulted
          /\ Settle(b, s, "benign", FALSE)
          /\ UNCHANGED lock
    /\ UNCHANGED <<adapterVars, callVars, power>>

\* Mutant: the context is not looked at once the session is there.
WorkerWritesUnchecked(b, s) ==
    /\ Inside(b, s, "connecting")
    /\ Put(b, s, [worker[b][s] EXCEPT !.at = "writing"])
    /\ UNCHANGED <<adapterVars, callVars, lock, power>>

\* The session is there: writeCharacteristicValueInternal looks at the context
\* for the last time before it hands the command over.
WorkerWrites(b, s) ==
    /\ Inside(b, s, "connecting") /\ ~Stopped(b)
    /\ Put(b, s, [worker[b][s] EXCEPT !.at = "writing"])
    /\ UNCHANGED <<adapterVars, callVars, lock, power>>

\* It is not sent: no session, not supported, stopped, or refused, which leaves
\* no more trace than a session that was not there; retryBackoff gives the lock
\* up between two attempts.
WorkerUnsent(b, s) ==
    /\ Inside(b, s, "connecting")
    /\ \/ /\ Release(s) /\ UNCHANGED adapterVars
          /\ \/ Settle(b, s, "benign", FALSE)
             \/ StoppedBy(b, s)
             \/ Put(b, s, [worker[b][s] EXCEPT !.at = "prepared", !.faulted = TRUE])
       \/ Fails(b, s, "failed")
    /\ UNCHANGED <<callVars, power>>

\* What the station does on the first command of a write.
FirstCommand(b) ==
    [value |-> IF Target[b] = "standby" THEN "standby" ELSE "on", by |-> Others]

\* The write ends and the command has arrived, or may have.  A sleep prepare
\* that is certain is followed by the gap, without the lock; one that is not
\* can no longer be confirmed.
WorkerWriteEnds(b, s) ==
    /\ Inside(b, s, "writing")
    /\ power' \in {power, [power EXCEPT ![s] = FirstCommand(b)]}
    /\ \/ /\ Target[b] # "sleep"
          /\ Put(b, s, [Idle EXCEPT !.at = "confirming"])
          /\ UNCHANGED <<adapterVars, lock>>
       \/ /\ Target[b] = "sleep"
          /\ Put(b, s, [Idle EXCEPT !.at = "finishing"])
          /\ Release(s) /\ UNCHANGED adapterVars
       \/ /\ Target[b] = "sleep"
          /\ Fails(b, s, "unconfirmed")
    /\ UNCHANGED callVars

\* The final sleep command, under a budget of its own, arrives or does not.
FinalWriteEnds(b, s) ==
    /\ Inside(b, s, "finishing")
    /\ power' \in {power, [power EXCEPT ![s] = [value |-> "sleep", by |-> b]]}
    /\ Put(b, s, [Idle EXCEPT !.at = "confirming"])
    /\ UNCHANGED <<adapterVars, callVars, lock>>

\* The confirmation has read the target, or ends without it: a command that
\* was sent keeps that outcome whatever met its confirmation.
WorkerConfirms(b, s) ==
    /\ Inside(b, s, "confirming")
    /\ \/ /\ AtTarget(b, s)
          /\ Settle(b, s, "reached", FALSE)
          /\ Release(s) /\ UNCHANGED adapterVars
       \/ Fails(b, s, "unconfirmed")
    /\ UNCHANGED <<callVars, power>>

\* bulkInterruptionReason for a station whose own budget has ended.
WorkerReasons(b, s) ==
    /\ worker[b][s].at = "ending"
    /\ Settle(b, s, IF Reason(b) \in {"cancelled", "shutdown"} THEN "late" ELSE Reason(b),
              FALSE)
    /\ UNCHANGED <<adapterVars, callVars, lock, power>>

WorkerEnds(b, s) ==
    /\ worker[b][s].at = "closing" /\ lock[s] = Free
    /\ Put(b, s, [worker[b][s] EXCEPT !.at = "done"])
    /\ UNCHANGED <<adapterVars, callVars, lock, power>>

\* The call that held the lock returns.
CallReturns(s) ==
    /\ lock[s] = Wedged
    /\ Release(s)
    /\ UNCHANGED <<adapterVars, callVars, worker, power>>

-----------------------------------------------------------------------------
(* The call. *)

Empty == [s \in Stations |-> "none"]

\* seedBulkPowerResults.
Seed(booting) ==
    [s \in Stations |-> IF s \notin Known[batch.n] THEN "none"
                       ELSE IF s \in booting THEN "benign" ELSE "untouched"]

Untouched == {s \in Stations : result[s] = "untouched"}

\* Mark what the batch never started, and nothing else.
MarkUntouched(entries, entry) ==
    [s \in Stations |-> IF entries[s] = "untouched" THEN entry ELSE entries[s]]

\* setAllStationsPowerDetailed returns to SetAllStationsPowerDetailedContext.
Returns(err, affected) ==
    batch' = [batch EXCEPT !.at = "collected", !.err = err, !.affected = affected]

\* (A bound: only the first batch is begun beside Initialize.)
StartBatch ==
    /\ batch.at \in {"none", "ended"} /\ batch.n < MaxBatches
    /\ batch.n > 0 => asker[StartupAsker].at = "none"
    /\ batch' = [n |-> batch.n + 1, at |-> "begin", context |-> "live", err |-> "none",
                 affected |-> FALSE, cancelled |-> FALSE, timedOut |-> FALSE]
    /\ result' = Empty
    /\ UNCHANGED <<adapterVars, worker, lock, power>>

\* Stopped while it waits for the exclusive lock, or before.
AdmissionStops ==
    /\ batch.at = "begin"
    /\ \/ shutting /\ Returns("shutdown", TRUE)
       \/ Stopped(batch.n) /\ Returns("context", TRUE)
    /\ UNCHANGED <<adapterVars, result, worker, lock, power>>

AdmissionRefused ==
    /\ batch.at = "begin"
    /\ Returns("busy", FALSE)
    /\ UNCHANGED <<adapterVars, result, worker, lock, power>>

AdmissionGranted ==
    /\ batch.at = "begin" /\ ~shutting
    /\ \E booting \in SUBSET Known[batch.n] :
         /\ result' = Seed(booting)
         /\ IF booting = Known[batch.n]
            THEN Returns("none", FALSE) /\ UNCHANGED asker
            ELSE /\ batch' = [batch EXCEPT !.at = "asking"]
                 /\ Tell(batch.n, "asking")
    /\ UNCHANGED <<adapter, enabling, shutting, worker, lock, power>>

Spawn ==
    /\ batch.at = "asking"
    /\ \/ /\ asker[batch.n].at = "ready" /\ ~Stopped(batch.n)
          /\ batch' = [batch EXCEPT !.at = "joining"]
          /\ worker' = [worker EXCEPT ![batch.n] =
                [s \in Stations |-> IF s \in Untouched
                                    THEN [Idle EXCEPT !.at = "queued"] ELSE Idle]]
          /\ UNCHANGED result
       \/ /\ asker[batch.n].at = "ready" /\ Stopped(batch.n)
          /\ Returns("context", TRUE)
          /\ UNCHANGED <<result, worker>>
       \/ /\ asker[batch.n].at = "closing"
          /\ Returns("shutdown", TRUE)
          /\ UNCHANGED <<result, worker>>
       \/ /\ asker[batch.n].at = "unavailable"
          /\ result' = MarkUntouched(result, "failed")
          /\ Returns("unavailable", FALSE)
          /\ UNCHANGED worker
    /\ UNCHANGED <<adapterVars, lock, power>>

Working == {s \in Untouched : worker[batch.n][s].at # "done"}

\* Copy the finished slots; report the others busy.
Collect ==
    LET done == Untouched \ Working
        affected == \E s \in done : worker[batch.n][s].affected
    IN  /\ result' = [s \in Stations |->
               IF s \in done THEN worker[batch.n][s].entry
               ELSE IF s \in Working THEN "busy" ELSE result[s]]
        /\ worker' = [worker EXCEPT ![batch.n] =
               [s \in Stations |-> IF worker[batch.n][s].at \in {"done", "closing"}
                                   THEN Idle ELSE @[s]]]
        /\ Returns(CASE affected /\ Stopped(batch.n) -> "context"
                     [] affected /\ ~Stopped(batch.n) -> "shutdown"
                     [] OTHER -> "none", affected)

\* Mutant: the join waits for every worker.
JoinUnbounded ==
    /\ batch.at = "joining"
    /\ Working = {}
    /\ Collect
    /\ UNCHANGED <<adapterVars, lock, power>>

\* The workers are done, or the context has stopped and the grace for a
\* drain is over.  (The backstop timer is longer than the context.)
Join ==
    /\ batch.at = "joining"
    /\ Working = {} \/ Stopped(batch.n)
    /\ Collect
    /\ UNCHANGED <<adapterVars, lock, power>>

\* The interruption the call reports: that of its context, or a shutdown
\* whose cancellation has not reached the context yet.
Interruption ==
    CASE ~batch.affected -> "none"
      [] batch.affected /\ Stopped(batch.n) -> batch.context
      [] batch.affected /\ ~Stopped(batch.n) /\ batch.err = "shutdown" -> "cancelled"
      [] OTHER -> "none"

Ended(interruption, entries) ==
    /\ result' = entries
    /\ batch' = [batch EXCEPT
           !.at = "ended", !.context = "cancelled",
           !.cancelled = interruption # "none", !.timedOut = interruption = "expired",
           !.err = IF @ = "none" /\ interruption # "none" THEN "context" ELSE @]
    /\ Tell(batch.n, "none")
    /\ UNCHANGED <<adapter, enabling, shutting, worker, lock, power>>

\* Mutant: the interruption is read off the context alone.
ReturnUnpreserved ==
    /\ batch.at = "collected"
    /\ LET interruption == IF batch.affected /\ Stopped(batch.n)
                           THEN batch.context ELSE "none"
       IN  \E booting \in SUBSET Known[batch.n] :
             Ended(interruption,
                   IF interruption = "none" THEN result
                   ELSE MarkUntouched(IF result = Empty THEN Seed(booting) ELSE result,
                                      Reason(batch.n)))

\* What follows setAllStationsPowerDetailed, and the deferred cleanup of the
\* lifecycle slot.
Return ==
    /\ batch.at = "collected"
    /\ IF Interruption = "none" THEN Ended("none", result)
       ELSE \E booting \in SUBSET Known[batch.n] :
              /\ result # Empty => booting = {}
              /\ Ended(Interruption,
                       MarkUntouched(IF result = Empty THEN Seed(booting) ELSE result,
                                     CASE shutting -> "shutdown"
                                       [] ~shutting /\ Interruption = "expired" -> "batchTimeout"
                                       [] OTHER -> "cancelled"))

Running == batch.at \notin {"none", "ended"}

Stop(how) ==
    /\ Running /\ ~Stopped(batch.n)
    /\ batch' = [batch EXCEPT !.context = how]
    /\ UNCHANGED <<adapterVars, result, worker, lock, power>>

\* CancelBulkPower, or the caller's own context.
Cancel == Stop("cancelled")

\* BulkPowerTimeout.
Expire == Stop("expired")

\* The cancellation of the lifecycle's context reaches the batch later than
\* the flag: context.AfterFunc runs in a goroutine of its own.
LifecycleCancels == shutting /\ Stop("cancelled")

BeginShutdown ==
    /\ ~shutting
    /\ shutting' = TRUE
    /\ UNCHANGED <<adapter, enabling, asker, bulkVars>>

-----------------------------------------------------------------------------

Init ==
    /\ AdapterStart
    /\ batch = [n |-> 0, at |-> "none", context |-> "cancelled", err |-> "none",
                affected |-> FALSE, cancelled |-> FALSE, timedOut |-> FALSE]
    /\ result = Empty
    /\ worker = [b \in Batches |-> [s \in Stations |-> Idle]]
    /\ lock = [s \in Stations |-> Free]
    /\ power = [s \in Stations |-> [value |-> Found[s], by |-> Others]]

Call == StartBatch \/ AdmissionStops \/ AdmissionRefused \/ AdmissionGranted
        \/ Spawn \/ Join \/ Return

Work(b, s) ==
    \/ WorkerStarts(b, s) \/ WorkerApplies(b, s) \/ WorkerReadEnds(b, s)
    \/ WorkerYields(b, s) \/ WorkerResumes(b, s)
    \/ WorkerConnects(b, s) \/ WorkerWrites(b, s) \/ WorkerUnsent(b, s)
    \/ WorkerWriteEnds(b, s) \/ FinalWriteEnds(b, s)
    \/ WorkerConfirms(b, s) \/ WorkerReasons(b, s) \/ WorkerEnds(b, s)

Ask(c) == Initialize(c) \/ EnsureReady(c) \/ AttemptSeen(c)
          \/ WaitEnds(c) \/ WaitShutDown(c)

AdapterStep == (\E a \in Attempts : AttemptEnds(a)) \/ CooldownEnds

Next ==
    \/ Call
    \/ \E b \in Batches, s \in Stations : Work(b, s)
    \/ \E s \in Stations : CallReturns(s)
    \/ (\E c \in Askers : Ask(c)) /\ UNCHANGED bulkVars
    \/ AdapterStep /\ UNCHANGED bulkVars
    \/ Cancel \/ Expire \/ LifecycleCancels \/ BeginShutdown

\* The call goes on, its deadline passes, a wait for the adapter ends.  No
\* worker need end, no call of the Bluetooth library return, and no
\* admission be granted.
Fairness ==
    /\ WF_vars(AdmissionStops \/ Spawn \/ Join \/ Return)
    /\ WF_vars(Expire)
    /\ WF_vars((\E c \in Askers \ {StartupAsker} : Ask(c)) /\ UNCHANGED bulkVars)

Spec == Init /\ [][Next]_vars /\ Fairness

-----------------------------------------------------------------------------

BatchState ==
    [n : 0..MaxBatches,
     at : {"none", "begin", "asking", "joining", "collected", "ended"},
     context : {"live", "expired", "cancelled"},
     err : {"none", "busy", "unavailable", "shutdown", "context"},
     affected : BOOLEAN, cancelled : BOOLEAN, timedOut : BOOLEAN]

WorkerState ==
    [at : {"none", "queued", "applying", "reading", "prepared", "connecting", "writing",
           "finishing", "confirming", "ending", "closing", "done"},
     entry : Entries, affected : BOOLEAN, faulted : BOOLEAN]

PowerState == [value : Powers, by : 0..MaxBatches]

TypeOK ==
    /\ AdapterTypeOK
    /\ batch \in BatchState
    /\ result \in [Stations -> Entries \cup {"none"}]
    /\ worker \in [Batches -> [Stations -> WorkerState]]
    /\ lock \in [Stations -> 0..MaxBatches + 1]
    /\ power \in [Stations -> PowerState]

\* The error-only contract of SetAllStationsPower: which results it reports as
\* a success.
LegacySuccess ==
    /\ batch.err = "none"
    /\ \A s \in Stations : result[s] \notin {"untouched", "failed", "stationTimeout",
                                            "batchTimeout", "busy"}

\* What a batch reports is what happened: every station of a batch that was
\* begun gets an outcome, however the batch was cut short; the error-only
\* form calls a success only a batch that reached every station it could, but
\* for one whose own budget ended an instant before the interruption; and a
\* batch that is called cancelled has left something undone
\* (power_bulk.go 31-55, 155-168, 258-261).
BulkHonest ==
    batch.at = "ended" =>
        /\ Untouched = {}
        /\ LegacySuccess =>
              \A s \in Known[batch.n] :
                 result[s] \in {"reached", "unconfirmed", "benign", "late"}
        /\ batch.cancelled => \E s \in Known[batch.n] : result[s] # "reached"

\* The last byte of a sleep that an earlier batch left half done: the pair goes
\* on under a context of its own.
UndoneBySleep(s) == power[s].value = "sleep" /\ power[s].by \in 1..batch.n - 1

\* A station that the newest batch reports at its target stays there, whatever
\* workers earlier batches left behind; nothing but the second half of a sleep
\* pair that had begun before can undo it
\* (power_bulk.go 361-372, bluetooth/power.go 526-530 and 711-745).
NewestTargetWins ==
    batch.at \in {"collected", "ended"} =>
        \A s \in Stations :
            result[s] = "reached" => AtTarget(batch.n, s) \/ UndoneBySleep(s)

\* The variables have their types and an ended batch tells what happened.
BulkInv == TypeOK /\ BulkHonest

\* Every batch returns, though a call of the Bluetooth library on one station
\* never does and the adapter hangs (power_bulk.go 324-331, 409-413).
BatchEnds == Running ~> batch.at = "ended"
=============================================================================
