--------------------------- MODULE BulkPowerProofs ---------------------------
(***************************************************************************)
(* Proofs that the safety of the bulk power batches does not depend on the *)
(* number of stations, batches, worker slots, callers or attempts, nor on  *)
(* which stations each batch finds.                                        *)
(***************************************************************************)
EXTENDS BulkPower, FiniteSetTheorems, TLAPS

USE EnablesAssumption

-----------------------------------------------------------------------------
(* The inductive invariant.                                                *)

\* The attempt that is inside adapter.Enable is the pending one, and the one
\* cleanup goes with the flag that says it was issued.
AdapterTracked ==
    /\ enabling \subseteq {adapter.pending}
    /\ adapter.cleanups <= 1
    /\ ~adapter.issued => adapter.cleanups = 0

\* A worker whose first command is on its way holds its station's lock.
WritingHoldsLock ==
    \A b \in Batches, s \in Stations : worker[b][s].at = "writing" => lock[s] = b

\* Only a sleep is a pair.
PairIsSleep ==
    \A b \in Batches, s \in Stations :
        worker[b][s].at = "finishing" => Target[b] = "sleep"

\* What the entry of a worker that has ended may say.
EntriesTell ==
    \A b \in Batches, s \in Stations :
        worker[b][s].at \in {"closing", "done"} =>
            /\ worker[b][s].entry # "untouched"
            /\ worker[b][s].entry \in {"cancelled", "shutdown"} => worker[b][s].affected
            /\ worker[b][s].affected \/ worker[b][s].at = "closing" =>
                  worker[b][s].entry # "reached"

\* There are no workers ahead of their batch.
AheadIdle ==
    /\ \A b \in Batches, s \in Stations :
          (b > batch.n \/ (b = batch.n /\ batch.at \in {"none", "begin", "asking"}))
              => worker[b][s] = Idle
    /\ batch.at # "none" => batch.n \in Batches

\* The results in each phase of the call.
ResultsTell ==
    /\ batch.at \in {"none", "begin"} => result = Empty
    /\ batch.at \in {"begin", "asking", "joining"} => batch.err = "none"
    /\ batch.at \in {"asking", "joining"} =>
          /\ Untouched # {}
          /\ \A s \in Stations :
                result[s] \in IF s \in Known[batch.n] THEN {"benign", "untouched"}
                              ELSE {"none"}
    /\ batch.at = "collected" =>
          /\ batch.affected =>
                /\ batch.err = "shutdown" \/ (batch.err = "context" /\ Stopped(batch.n))
                /\ \E s \in Known[batch.n] : result[s] # "reached"
          /\ ~batch.affected => Untouched = {}
          /\ batch.err = "none" =>
                /\ ~batch.affected
                /\ \A s \in Known[batch.n] :
                      result[s] \notin {"none", "cancelled", "shutdown"}

\* The entries of the last batch that say that the target was reached.
Reached(s) ==
    \/ result[s] = "reached"
    \/ /\ worker[batch.n][s].at = "done"
       /\ worker[batch.n][s].entry = "reached"

\* Where the last batch has reached its target its own worker has ended and no
\* first command is on its way.  The last byte of an earlier pair may be.
ReachedStays ==
    batch.n \in Batches =>
        \A s \in Stations : Reached(s) =>
            /\ AtTarget(batch.n, s) \/ UndoneBySleep(s)
            /\ worker[batch.n][s].at \in {"none", "done"}
            /\ \A b \in Batches : worker[b][s].at # "writing"

BulkIInv ==
    /\ TypeOK /\ AdapterTracked /\ WritingHoldsLock /\ PairIsSleep /\ EntriesTell
    /\ AheadIdle /\ ResultsTell /\ ReachedStays /\ BulkHonest

-----------------------------------------------------------------------------
(* The adapter.                                                            *)

AdapterInv == AdapterTypeOK /\ AdapterTracked

AdapterSame == UNCHANGED adapterVars

LEMMA AdapterStays ==
  ASSUME AdapterInv, AdapterSame
  PROVE  AdapterInv'
BY DEF AdapterInv, AdapterSame, adapterVars, AdapterTypeOK, AdapterTracked

\* The observers of one loss issue one cleanup between them.
LEMMA LossIsOnce ==
  ASSUME AdapterInv, adapter' \in {adapter, Lost(adapter)},
         UNCHANGED <<enabling, asker, shutting>>
  PROVE  AdapterInv'
<1>1. CASE adapter' = adapter
  BY <1>1 DEF AdapterInv, AdapterTypeOK, AdapterTracked
<1>2. CASE adapter' = Lost(adapter)
  <2>1. PICK c \in Nat :
          /\ c <= 1
          /\ adapter' = [adapter EXCEPT !.failed = TRUE, !.cooling = TRUE,
                                        !.issued = TRUE, !.cleanups = c]
    <3>1. adapter.cleanups \in Nat /\ adapter.issued \in BOOLEAN
      BY DEF AdapterInv, AdapterTypeOK, AdapterState
    <3>2. adapter.cleanups <= 1 /\ (~adapter.issued => adapter.cleanups = 0)
      BY DEF AdapterInv, AdapterTracked
    <3>3. (IF adapter.issued THEN adapter.cleanups ELSE adapter.cleanups + 1) \in {c \in Nat : c <= 1}
      BY <3>1, <3>2
    <3> QED
      BY <1>2, <3>3 DEF Lost
  <2>2. adapter' \in AdapterState
    <3>1. adapter \in AdapterState
      BY DEF AdapterInv, AdapterTypeOK
    <3> QED
      BY <2>1, <3>1 DEF AdapterState
  <2>3. AdapterTracked'
    BY <2>1 DEF AdapterInv, AdapterTypeOK, AdapterState, AdapterTracked
  <2> QED
    BY <2>2, <2>3 DEF AdapterInv, AdapterTypeOK
<1> QED
  BY <1>1, <1>2

\* What a call is told does not touch the attempt.
LEMMA TellTyped ==
  ASSUME AdapterInv, NEW c \in Askers,
         NEW answer \in {"none", "asking", "ready", "unavailable", "closing"},
         Tell(c, answer)
  PROVE  asker' \in [Askers -> AskerState]
BY DEF AdapterInv, AdapterTypeOK, AskerState, Tell

\* The calls that need the adapter keep to the one attempt.
LEMMA AskKeepsAdapter ==
  ASSUME AdapterInv, NEW c \in Askers, Ask(c)
  PROVE  AdapterInv'
<1> DEFINE Answers == {"none", "asking", "ready", "unavailable", "closing"}
<1>1. ASSUME NEW answer \in Answers, Tell(c, answer), UNCHANGED <<adapter, enabling>>,
             shutting' = shutting
      PROVE  AdapterInv'
  <2>1. asker' \in [Askers -> AskerState]
    BY <1>1, TellTyped
  <2> QED
    BY <1>1, <2>1 DEF AdapterInv, AdapterTypeOK, AdapterTracked
<1>2. ASSUME NEW a \in 0..MaxEnables, Await(c, a)
      PROVE  asker' \in [Askers -> AskerState]
  BY <1>2 DEF AdapterInv, AdapterTypeOK, AskerState, Await
<1>3. ASSUME AdoptOrBegin(c), shutting' = shutting
      PROVE  AdapterInv'
  <2>1. CASE /\ Await(c, adapter.pending)
             /\ UNCHANGED <<adapter, enabling>>
    <3>1. adapter.pending \in 0..MaxEnables
      BY DEF AdapterInv, AdapterTypeOK, AdapterState
    <3> QED
      BY <1>2, <1>3, <2>1, <3>1 DEF AdapterInv, AdapterTypeOK, AdapterTracked
  <2>2. CASE Tell(c, "unavailable") /\ UNCHANGED <<adapter, enabling>>
    BY <1>1, <1>3, <2>2
  <2>3. CASE adapter.pending = 0 /\ BeginAttempt(c)
    <3>1. adapter.begun + 1 \in Attempts
      BY <2>3 DEF BeginAttempt, AdapterInv, AdapterTypeOK, AdapterState, Attempts
    <3>2. enabling = {}
      BY <2>3 DEF AdapterInv, AdapterTypeOK, AdapterTracked, Attempts
    <3>3. /\ adapter' = [adapter EXCEPT !.pending = adapter.begun + 1,
                                       !.begun = adapter.begun + 1]
          /\ enabling' = {adapter.begun + 1}
          /\ Await(c, adapter.begun + 1)
      BY <2>3, <3>2 DEF BeginAttempt
    <3>4. adapter' \in AdapterState
      <4>1. adapter \in AdapterState /\ adapter.begun + 1 \in 0..MaxEnables
        BY <3>1 DEF AdapterInv, AdapterTypeOK, Attempts
      <4> QED
        BY <3>3, <4>1 DEF AdapterState
    <3>5. AdapterTracked'
      BY <3>3 DEF AdapterInv, AdapterTypeOK, AdapterState, AdapterTracked
    <3>6. asker' \in [Askers -> AskerState]
      BY <1>2, <3>1, <3>3 DEF Attempts
    <3> QED
      BY <1>3, <3>1, <3>3, <3>4, <3>5, <3>6 DEF AdapterInv, AdapterTypeOK
  <2> QED
    BY <1>3, <2>1, <2>2, <2>3 DEF AdoptOrBegin
<1>4. CASE Initialize(c)
  BY <1>1, <1>3, <1>4 DEF Initialize
<1>5. CASE EnsureReady(c)
  BY <1>1, <1>3, <1>5 DEF EnsureReady
<1>6. CASE AttemptSeen(c)
  BY <1>1, <1>6 DEF AttemptSeen
<1>7. CASE WaitEnds(c)
  <2>1. asker' \in [Askers -> AskerState]
    BY <1>7, TellTyped DEF WaitEnds
  <2>2. adapter' \in AdapterState /\ AdapterTracked'
    BY <1>7 DEF WaitEnds, AdapterInv, AdapterTypeOK, AdapterState, AdapterTracked
  <2> QED
    BY <1>7, <2>1, <2>2 DEF WaitEnds, AdapterInv, AdapterTypeOK
<1>8. CASE WaitShutDown(c)
  BY <1>1, <1>8 DEF WaitShutDown
<1> QED
  BY <1>4, <1>5, <1>6, <1>7, <1>8 DEF Ask

\* The end of an attempt, and of a cooldown.
LEMMA AdapterStepKeepsAdapter ==
  ASSUME AdapterInv, AdapterStep
  PROVE  AdapterInv'
<1>1. ASSUME NEW a \in Attempts, AttemptEnds(a)
      PROVE  AdapterInv'
  <2>1. adapter.pending = a /\ enabling' = {}
    BY <1>1 DEF AttemptEnds, AdapterInv, AdapterTracked
  <2>2. PICK ok \in BOOLEAN :
          adapter' = [adapter EXCEPT
             !.pending = IF adapter.pending = a THEN 0 ELSE adapter.pending,
             !.attempted = TRUE, !.failed = ~ok, !.cooling = ~ok,
             !.issued = adapter.issued /\ ~ok,
             !.cleanups = IF ok THEN 0 ELSE adapter.cleanups]
    BY <1>1 DEF AttemptEnds
  <2>3. PICK c \in Nat :
          /\ c <= 1
          /\ ok => c = 0
          /\ ~ok /\ ~adapter.issued => c = 0
          /\ adapter' = [adapter EXCEPT
                !.pending = 0, !.attempted = TRUE, !.failed = ~ok, !.cooling = ~ok,
                !.issued = adapter.issued /\ ~ok, !.cleanups = c]
    <3>1. adapter.cleanups \in Nat /\ adapter.cleanups <= 1 /\ (~adapter.issued => adapter.cleanups = 0)
      BY DEF AdapterInv, AdapterTypeOK, AdapterState, AdapterTracked
    <3>2. CASE ok
      <4> WITNESS 0 \in Nat
      <4> QED
        BY <2>1, <2>2, <3>2
    <3>3. CASE ~ok
      BY <2>1, <2>2, <3>1, <3>3
    <3> QED
      BY <3>2, <3>3
  <2>4. adapter' \in AdapterState
    <3>1. adapter \in AdapterState
      BY DEF AdapterInv, AdapterTypeOK
    <3>2. PICK i \in BOOLEAN, f \in BOOLEAN, p \in 0..MaxEnables :
             i = (adapter.issued /\ ~ok) /\ f = ~ok /\ p = 0
      <4>1. 0 \in 0..MaxEnables
        OBVIOUS
      <4>2. (adapter.issued /\ ~ok) \in BOOLEAN /\ (~ok) \in BOOLEAN
        OBVIOUS
      <4> QED
        BY <4>1, <4>2, Zenon
    <3>3. adapter' = [adapter EXCEPT
                !.pending = p, !.attempted = TRUE, !.failed = f, !.cooling = f,
                !.issued = i, !.cleanups = c]
      BY <2>3, <3>2
    <3> QED
      BY <3>1, <3>3 DEF AdapterState
  <2>5. AdapterTracked'
    BY <2>1, <2>3 DEF AdapterInv, AdapterTypeOK, AdapterState, AdapterTracked
  <2> QED
    BY <1>1, <2>1, <2>4, <2>5 DEF AttemptEnds, AdapterInv, AdapterTypeOK
<1>2. CASE CooldownEnds
  BY <1>2 DEF CooldownEnds, AdapterInv, AdapterTypeOK, AdapterState, AdapterTracked
<1> QED
  BY <1>1, <1>2 DEF AdapterStep

-----------------------------------------------------------------------------
(* One worker moves.                                                       *)

LEMMA PutEffect ==
  ASSUME worker \in [Batches -> [Stations -> WorkerState]],
         NEW b \in Batches, NEW s \in Stations, NEW w \in WorkerState, Put(b, s, w)
  PROVE  /\ worker' \in [Batches -> [Stations -> WorkerState]]
         /\ worker'[b][s] = w
         /\ \A c \in Batches, t \in Stations :
               (c # b \/ t # s) => worker'[c][t] = worker[c][t]
<1>1. worker' = [worker EXCEPT ![b] = [worker[b] EXCEPT ![s] = w]]
  BY DEF Put
<1>2. [worker[b] EXCEPT ![s] = w] \in [Stations -> WorkerState]
  OBVIOUS
<1> QED
  BY <1>1, <1>2

LEMMA BulkTypes ==
  ASSUME BulkIInv
  PROVE  /\ AdapterInv
         /\ batch \in BatchState /\ batch.n \in 0..MaxBatches
         /\ result \in [Stations -> Entries \cup {"none"}]
         /\ worker \in [Batches -> [Stations -> WorkerState]]
         /\ lock \in [Stations -> 0..MaxBatches + 1]
         /\ power \in [Stations -> PowerState]
BY DEF BulkIInv, TypeOK, AdapterInv, BatchState

EntryTells(w) ==
    w.at \in {"closing", "done"} =>
        /\ w.entry # "untouched"
        /\ w.entry \in {"cancelled", "shutdown"} => w.affected
        /\ w.affected \/ w.at = "closing" => w.entry # "reached"

SaysReached(w) == w.at = "done" /\ w.entry = "reached"

\* What a worker that has not ended may do to its station.
StepOf(b, s) ==
    /\ UNCHANGED <<batch, result>> /\ AdapterInv'
    /\ worker[b][s].at \notin {"none", "done"}
    /\ lock' \in [Stations -> 0..MaxBatches + 1]
    /\ \A t \in Stations \ {s} : lock'[t] = lock[t]
    /\ lock'[s] = lock[s] \/ lock[s] \in {Free, b}
    /\ power' \in [Stations -> PowerState]
    /\ \A t \in Stations \ {s} : power'[t] = power[t]
    /\ \/ power'[s] = power[s]
       \/ worker[b][s].at = "writing"
       \/ /\ worker[b][s].at = "finishing"
          /\ power'[s] = [value |-> "sleep", by |-> b]

\* The lock of the station is taken, given up, or kept by a cleanup that hangs.
LockOf(b, s) ==
    \/ UNCHANGED lock
    \/ /\ lock[s] \in {Free, b}
       /\ \E x \in {Free, Wedged, b} : lock' = [lock EXCEPT ![s] = x]

LEMMA LockOfStep ==
  ASSUME BulkIInv, NEW b \in Batches, NEW s \in Stations, LockOf(b, s)
  PROVE  /\ lock' \in [Stations -> 0..MaxBatches + 1]
         /\ \A t \in Stations \ {s} : lock'[t] = lock[t]
         /\ lock'[s] = lock[s] \/ lock[s] \in {Free, b}
<1>1. lock \in [Stations -> 0..MaxBatches + 1]
  BY BulkTypes
<1>2. {Free, Wedged, b} \subseteq 0..MaxBatches + 1
  BY BatchesAssumption DEF Batches, Free, Wedged
<1> QED
  BY <1>1, <1>2 DEF LockOf

LEMMA QuietStep ==
  ASSUME BulkIInv, NEW b \in Batches, NEW s \in Stations, LockOf(b, s),
         UNCHANGED <<batch, result, power>>, AdapterInv',
         worker[b][s].at \notin {"none", "done"}
  PROVE  StepOf(b, s)
BY LockOfStep, BulkTypes DEF StepOf

LEMMA CommandStep ==
  ASSUME BulkIInv, NEW b \in Batches, NEW s \in Stations, LockOf(b, s),
         UNCHANGED <<batch, result>>, AdapterInv',
         \/ /\ worker[b][s].at = "writing"
            /\ power' \in {power, [power EXCEPT ![s] = FirstCommand(b)]}
         \/ /\ worker[b][s].at = "finishing"
            /\ power' \in {power, [power EXCEPT ![s] = [value |-> "sleep", by |-> b]]}
  PROVE  StepOf(b, s)
<1>1. power \in [Stations -> PowerState]
  BY BulkTypes
<1>2. FirstCommand(b) \in PowerState /\ [value |-> "sleep", by |-> b] \in PowerState
  BY BatchesAssumption DEF FirstCommand, PowerState, Powers, Others, Batches
<1>3. /\ power' \in [Stations -> PowerState]
      /\ \A t \in Stations \ {s} : power'[t] = power[t]
      /\ \/ power'[s] = power[s]
         \/ worker[b][s].at = "writing"
         \/ /\ worker[b][s].at = "finishing"
            /\ power'[s] = [value |-> "sleep", by |-> b]
  BY <1>1, <1>2
<1> QED
  BY <1>3, LockOfStep DEF StepOf

\* What a move of one worker has to respect.
LEMMA WorkerMoves ==
  ASSUME BulkIInv, NEW b \in Batches, NEW s \in Stations, NEW w \in WorkerState,
         StepOf(b, s), Put(b, s, w), EntryTells(w),
         w.at = "writing" => lock'[s] = b /\ b = batch.n,
         w.at = "finishing" => Target[b] = "sleep",
         SaysReached(w) /\ b = batch.n => AtTarget(b, s)' /\ lock[s] = b
  PROVE  BulkIInv'
<1>1. /\ batch \in BatchState /\ batch.n \in 0..MaxBatches
      /\ result \in [Stations -> Entries \cup {"none"}]
      /\ worker \in [Batches -> [Stations -> WorkerState]]
      /\ lock \in [Stations -> 0..MaxBatches + 1]
      /\ power \in [Stations -> PowerState]
  BY BulkTypes
<1>2. /\ worker' \in [Batches -> [Stations -> WorkerState]]
      /\ worker'[b][s] = w
      /\ \A c \in Batches, t \in Stations :
            (c # b \/ t # s) => worker'[c][t] = worker[c][t]
  BY <1>1, PutEffect
<1>3. /\ UNCHANGED <<batch, result>> /\ AdapterInv'
      /\ worker[b][s].at \notin {"none", "done"}
  BY DEF StepOf
<1>4. TypeOK' /\ AdapterTracked'
  BY <1>1, <1>2, <1>3 DEF TypeOK, AdapterInv, StepOf
<1>5. WritingHoldsLock'
  <2> SUFFICES ASSUME NEW c \in Batches, NEW t \in Stations,
                      worker'[c][t].at = "writing"
               PROVE  lock'[t] = c
    BY DEF WritingHoldsLock
  <2>1. CASE c = b /\ t = s
    BY <1>2, <2>1
  <2>2. CASE t # s
    BY <1>2, <2>2 DEF BulkIInv, WritingHoldsLock, StepOf
  <2>3. CASE t = s /\ c # b
    <3>1. lock[s] = c
      BY <1>2, <2>3 DEF BulkIInv, WritingHoldsLock
    <3>2. c # Free
      BY DEF Batches, Free
    <3> QED
      BY <2>3, <3>1, <3>2 DEF StepOf
  <2> QED
    BY <2>1, <2>2, <2>3
<1>6. PairIsSleep'
  BY <1>2 DEF BulkIInv, PairIsSleep
<1>7. EntriesTell'
  BY <1>2 DEF BulkIInv, EntriesTell, EntryTells
<1>8. worker[b][s] # Idle
  BY <1>3 DEF Idle
<1>9. AheadIdle'
  BY <1>2, <1>3, <1>8 DEF BulkIInv, AheadIdle
<1>10. ResultsTell'
  BY <1>3 DEF BulkIInv, ResultsTell, Untouched, Stopped, Context
<1>11. BulkHonest'
  BY <1>3 DEF BulkIInv, BulkHonest, Untouched, LegacySuccess
<1>12. ReachedStays'
  <2> SUFFICES ASSUME batch.n \in Batches, NEW t \in Stations, Reached(t)'
               PROVE  /\ AtTarget(batch.n, t)' \/ UndoneBySleep(t)'
                      /\ worker'[batch.n][t].at \in {"none", "done"}
                      /\ \A c \in Batches : worker'[c][t].at # "writing"
    BY <1>3 DEF ReachedStays, AtTarget
  <2>1. ASSUME Reached(t)
        PROVE  /\ AtTarget(batch.n, t) \/ UndoneBySleep(t)
               /\ worker[batch.n][t].at \in {"none", "done"}
               /\ \A c \in Batches : worker[c][t].at # "writing"
    BY <2>1 DEF BulkIInv, ReachedStays
  <2>2. CASE t # s
    <3>1. Reached(t)
      BY <1>2, <1>3, <2>2 DEF Reached
    <3>2. power'[t] = power[t]
      BY <2>2 DEF StepOf
    <3> QED
      BY <1>2, <1>3, <2>1, <2>2, <3>1, <3>2 DEF AtTarget, UndoneBySleep
  <2>3. CASE t = s /\ b # batch.n
    <3>1. Reached(s)
      BY <1>2, <1>3, <2>3 DEF Reached
    <3>2. b \in 1..batch.n - 1
      BY <1>1, <1>8, <2>3 DEF BulkIInv, AheadIdle, Batches
    <3>3. power'[s] = power[s] \/ power'[s] = [value |-> "sleep", by |-> b]
      BY <2>1, <2>3, <3>1 DEF StepOf
    <3>4. AtTarget(batch.n, s)' \/ UndoneBySleep(s)'
      <4>1. CASE power'[s] = power[s]
        BY <1>3, <2>1, <2>3, <3>1, <4>1 DEF AtTarget, UndoneBySleep
      <4>2. CASE power'[s] = [value |-> "sleep", by |-> b]
        BY <1>3, <3>2, <4>2 DEF UndoneBySleep
      <4> QED
        BY <3>3, <4>1, <4>2
    <3> QED
      BY <1>2, <2>1, <2>3, <3>1, <3>4
  <2>4. CASE t = s /\ b = batch.n
    <3>1. ~Reached(s)
      BY <1>3, <2>1, <2>4
    <3>2. SaysReached(w)
      BY <1>2, <1>3, <2>4, <3>1 DEF Reached, SaysReached
    <3>3. \A c \in Batches \ {b} : worker[c][s].at # "writing"
      BY <2>4, <3>2 DEF BulkIInv, WritingHoldsLock
    <3> QED
      BY <1>2, <1>3, <2>4, <3>2, <3>3 DEF SaysReached, AtTarget
  <2> QED
    BY <2>2, <2>3, <2>4
<1> QED
  BY <1>4, <1>5, <1>6, <1>7, <1>9, <1>10, <1>11, <1>12 DEF BulkIInv

LEMMA ReasonTyped ==
  ASSUME BulkIInv, NEW b \in Batches
  PROVE  Reason(b) \in {"shutdown", "batchTimeout", "cancelled", "stationTimeout"}
<1>1. Context(b) \in {"live", "expired", "cancelled"} /\ shutting \in BOOLEAN
  BY BulkTypes DEF Context, BatchState, AdapterInv, AdapterTypeOK
<1> QED
  BY <1>1 DEF Reason

\* A worker ends, leaving its entry or none.
LEMMA WorkerSettles ==
  ASSUME BulkIInv, NEW b \in Batches, NEW s \in Stations,
         NEW at \in {"closing", "done"}, NEW entry \in Entries, NEW affected \in BOOLEAN,
         StepOf(b, s), SettleAt(at, b, s, entry, affected),
         entry # "untouched", entry \in {"cancelled", "shutdown"} => affected,
         entry = "reached" => /\ ~affected /\ at = "done"
                              /\ AtTarget(b, s)' /\ lock[s] = b
  PROVE  BulkIInv'
<1> DEFINE w == IF b = batch.n /\ batch.at = "joining"
                THEN [Idle EXCEPT !.at = at, !.entry = entry, !.affected = affected]
                ELSE Idle
<1>1. /\ Put(b, s, w) /\ w \in WorkerState
      /\ \/ w = Idle /\ w.at = "none"
         \/ w.at = at /\ w.entry = entry /\ w.affected = affected
  BY DEF SettleAt, Idle, WorkerState, Entries
<1>2. w.at \notin {"writing", "finishing"}
  BY <1>1
<1>3. EntryTells(w) /\ (SaysReached(w) => entry = "reached")
  BY <1>1 DEF EntryTells, SaysReached
<1> HIDE DEF w
<1> QED
  BY <1>1, <1>2, <1>3, WorkerMoves

\* A worker goes on to a stage that reports nothing.
LEMMA WorkerGoesOn ==
  ASSUME BulkIInv, NEW b \in Batches, NEW s \in Stations, NEW w \in WorkerState,
         StepOf(b, s), Put(b, s, w),
         w.at \notin {"closing", "done"},
         w.at = "writing" => lock'[s] = b /\ b = batch.n,
         w.at = "finishing" => Target[b] = "sleep"
  PROVE  BulkIInv'
BY WorkerMoves DEF EntryTells, SaysReached

\* Stopped by a context and nothing else.
LEMMA WorkerStops ==
  ASSUME BulkIInv, NEW b \in Batches, NEW s \in Stations, StepOf(b, s), StoppedBy(b, s)
  PROVE  BulkIInv'
<1>1. CASE Interrupted(b)
  <2>1. Reason(b) \in {"shutdown", "batchTimeout", "cancelled", "stationTimeout"}
    BY ReasonTyped
  <2>2. SettleAt("done", b, s, Reason(b), TRUE)
    BY <1>1 DEF StoppedBy, Settle
  <2> QED
    BY <2>1, <2>2, WorkerSettles DEF Entries
<1>2. CASE ~Interrupted(b)
  <2> DEFINE w == [Idle EXCEPT !.at = "ending"]
  <2>1. Put(b, s, w) /\ w \in WorkerState /\ w.at = "ending"
    BY <1>2 DEF StoppedBy, Idle, WorkerState, Entries
  <2> HIDE DEF w
  <2> QED
    BY <2>1, WorkerGoesOn
<1> QED
  BY <1>1, <1>2

\* A failure of the link, seen by a worker that holds the lock.
LEMMA FailsEffect ==
  ASSUME BulkIInv, NEW b \in Batches, NEW s \in Stations, NEW entry, Fails(b, s, entry)
  PROVE  /\ AdapterInv'
         /\ \E x \in {Free, Wedged, b} : lock' = [lock EXCEPT ![s] = x]
         /\ \E at \in {"closing", "done"}, affected \in BOOLEAN :
               SettleAt(at, b, s, entry, affected)
<1>1. AdapterInv'
  BY BulkTypes, LossIsOnce DEF Fails, ObserveAdapter
<1>2. PICK affected \in BOOLEAN :
        \/ Settle(b, s, entry, affected) /\ Release(s)
        \/ /\ SettleAt("closing", b, s, entry, affected)
           /\ lock' = [lock EXCEPT ![s] = Wedged]
  <2>1. Interrupted(b) \in BOOLEAN
    BY BulkTypes DEF Interrupted, Stopped, AdapterInv, AdapterTypeOK
  <2> QED
    BY <2>1 DEF Fails
<1> QED
  BY <1>1, <1>2 DEF Settle, Release

LEMMA WorkerFails ==
  ASSUME BulkIInv, NEW b \in Batches, NEW s \in Stations,
         NEW entry \in {"failed", "unconfirmed"}, StepOf(b, s), Fails(b, s, entry)
  PROVE  BulkIInv'
<1>1. PICK at \in {"closing", "done"}, affected \in BOOLEAN :
        SettleAt(at, b, s, entry, affected)
  BY FailsEffect
<1> QED
  BY <1>1, WorkerSettles DEF Entries

\* The lock of a station changes hands; no first command is on its way under
\* it.
LEMMA LockMoves ==
  ASSUME BulkIInv, UNCHANGED <<adapterVars, callVars, worker, power>>,
         NEW s \in Stations, NEW x \in 0..MaxBatches + 1,
         lock' = [lock EXCEPT ![s] = x],
         \A c \in Batches : worker[c][s].at # "writing"
  PROVE  BulkIInv'
<1>1. AdapterInv' /\ lock' \in [Stations -> 0..MaxBatches + 1]
  BY BulkTypes, AdapterStays DEF AdapterSame
<1>2. TypeOK' /\ AdapterTracked'
  BY <1>1, BulkTypes DEF TypeOK, AdapterInv, callVars
<1>3. WritingHoldsLock'
  BY BulkTypes DEF BulkIInv, WritingHoldsLock
<1>4. /\ PairIsSleep' /\ EntriesTell' /\ AheadIdle' /\ ResultsTell' /\ ReachedStays'
      /\ BulkHonest'
  BY DEF callVars, BulkIInv, PairIsSleep, EntriesTell, AheadIdle, ResultsTell, Untouched,
         Stopped, Context, ReachedStays, Reached, AtTarget, UndoneBySleep, BulkHonest,
         LegacySuccess
<1> QED
  BY <1>2, <1>3, <1>4 DEF BulkIInv

-----------------------------------------------------------------------------
(* Every step of a worker keeps the invariant.                             *)

\* Up to its first call.
LEMMA BeginsKeeps ==
  ASSUME BulkIInv, NEW b \in Batches, NEW s \in Stations,
         WorkerStarts(b, s) \/ WorkerApplies(b, s)
  PROVE  BulkIInv'
<1> DEFINE Stage(at) == [Idle EXCEPT !.at = at]
<1>1. \A at \in {"applying", "reading", "prepared"} :
         Stage(at) \in WorkerState /\ Stage(at).at = at
  BY DEF Idle, WorkerState, Entries
<1>2. UNCHANGED adapterVars => AdapterInv'
  BY BulkTypes, AdapterStays DEF AdapterSame
<1>3. CASE WorkerStarts(b, s)
  <2>1. StepOf(b, s)
    <3>1. /\ LockOf(b, s) /\ UNCHANGED <<batch, result, power>>
          /\ worker[b][s].at \notin {"none", "done"} /\ UNCHANGED adapterVars
      BY <1>3 DEF WorkerStarts, LockOf, callVars
    <3> QED
      BY <1>2, <3>1, QuietStep
  <2>2. CASE Put(b, s, Stage("applying"))
    BY <1>1, <2>1, <2>2, WorkerGoesOn
  <2>3. CASE Settle(b, s, Reason(b), TRUE)
    BY <2>1, <2>3, ReasonTyped, WorkerSettles DEF Settle, Entries
  <2>4. CASE Settle(b, s, "busy", FALSE)
    BY <2>1, <2>4, WorkerSettles DEF Settle, Entries
  <2> QED
    BY <1>3, <2>2, <2>3, <2>4 DEF WorkerStarts
<1>4. CASE WorkerApplies(b, s)
  <2>1. StepOf(b, s)
    <3>1. /\ LockOf(b, s) /\ UNCHANGED <<batch, result, power>>
          /\ worker[b][s].at \notin {"none", "done"} /\ UNCHANGED adapterVars
      BY <1>4 DEF WorkerApplies, LockOf, callVars
    <3> QED
      BY <1>2, <3>1, QuietStep
  <2>2. CASE Settle(b, s, "benign", FALSE)
    BY <2>1, <2>2, WorkerSettles DEF Settle, Entries
  <2>3. CASE Put(b, s, Stage("reading"))
    BY <1>1, <2>1, <2>3, WorkerGoesOn
  <2>4. CASE Put(b, s, Stage("prepared"))
    BY <1>1, <2>1, <2>4, WorkerGoesOn
  <2> QED
    BY <1>4, <2>2, <2>3, <2>4 DEF WorkerApplies
<1> QED
  BY <1>3, <1>4

LEMMA ReadEndsKeeps ==
  ASSUME BulkIInv, NEW b \in Batches, NEW s \in Stations, WorkerReadEnds(b, s)
  PROVE  BulkIInv'
<1> DEFINE w == [Idle EXCEPT !.at = "prepared"]
<1>1. w \in WorkerState /\ w.at = "prepared"
  BY DEF Idle, WorkerState, Entries
<1>2. /\ worker[b][s].at = "reading" /\ lock[s] = b
      /\ UNCHANGED <<batch, result, power>>
  BY DEF WorkerReadEnds, Inside, callVars
<1> HIDE DEF w
<1>3. CASE Fails(b, s, "failed")
  <2>1. StepOf(b, s)
    BY <1>2, <1>3, FailsEffect, QuietStep DEF LockOf
  <2> QED
    BY <1>3, <2>1, WorkerFails
<1>4. CASE /\ Put(b, s, w)
           /\ lock' \in {[lock EXCEPT ![s] = l] : l \in {Free, Wedged}}
           /\ ObserveAdapter
  <2>1. AdapterInv' /\ LockOf(b, s)
    BY <1>2, <1>4, BulkTypes, LossIsOnce DEF ObserveAdapter, LockOf
  <2> QED
    BY <1>1, <1>2, <1>4, <2>1, QuietStep, WorkerGoesOn
<1>5. ASSUME Release(s), UNCHANGED adapterVars,
             \/ AtTarget(b, s) /\ Settle(b, s, "reached", FALSE)
             \/ Settle(b, s, "benign", FALSE)
             \/ StoppedBy(b, s)
             \/ Put(b, s, w)
      PROVE  BulkIInv'
  <2>1. AdapterInv' /\ LockOf(b, s)
    BY <1>2, <1>5, BulkTypes, AdapterStays DEF AdapterSame, Release, LockOf
  <2>2. StepOf(b, s)
    BY <1>2, <2>1, QuietStep
  <2>3. CASE AtTarget(b, s) /\ Settle(b, s, "reached", FALSE)
    BY <1>2, <2>2, <2>3, WorkerSettles DEF Settle, Entries, AtTarget
  <2>4. CASE Settle(b, s, "benign", FALSE)
    BY <2>2, <2>4, WorkerSettles DEF Settle, Entries
  <2>5. CASE StoppedBy(b, s)
    BY <2>2, <2>5, WorkerStops
  <2>6. CASE Put(b, s, w)
    BY <1>1, <2>2, <2>6, WorkerGoesOn
  <2> QED
    BY <1>5, <2>3, <2>4, <2>5, <2>6
<1> QED
  BY <1>3, <1>4, <1>5 DEF WorkerReadEnds, w

\* The session is built and the command handed over, or it is not sent.
LEMMA ConnectsKeeps ==
  ASSUME BulkIInv, NEW b \in Batches, NEW s \in Stations,
         WorkerConnects(b, s) \/ WorkerWrites(b, s)
  PROVE  BulkIInv'
<1>1. worker[b][s] \in WorkerState
  BY BulkTypes
<1>2. UNCHANGED adapterVars => AdapterInv'
  BY BulkTypes, AdapterStays DEF AdapterSame
<1>3. CASE WorkerConnects(b, s)
  <2>1. /\ LockOf(b, s) /\ UNCHANGED <<batch, result, power>>
        /\ worker[b][s].at = "prepared" /\ UNCHANGED adapterVars
    BY <1>3 DEF WorkerConnects, LockOf, Lock, callVars
  <2>2. StepOf(b, s)
    BY <1>2, <2>1, QuietStep
  <2>3. CASE Put(b, s, [worker[b][s] EXCEPT !.at = "connecting"])
    <3> DEFINE w == [worker[b][s] EXCEPT !.at = "connecting"]
    <3>1. w \in WorkerState /\ w.at = "connecting" /\ Put(b, s, w)
      BY <1>1, <2>3 DEF WorkerState
    <3> HIDE DEF w
    <3> QED
      BY <2>2, <3>1, WorkerGoesOn
  <2>4. CASE Settle(b, s, "failed", Interrupted(b))
    <3>1. Interrupted(b) \in BOOLEAN
      BY BulkTypes DEF Interrupted, Stopped, AdapterInv, AdapterTypeOK
    <3> QED
      BY <2>2, <2>4, <3>1, WorkerSettles DEF Settle, Entries
  <2>5. CASE StoppedBy(b, s)
    BY <2>2, <2>5, WorkerStops
  <2>6. CASE Settle(b, s, "benign", FALSE)
    BY <2>2, <2>6, WorkerSettles DEF Settle, Entries
  <2> QED
    BY <1>3, <2>3, <2>4, <2>5, <2>6 DEF WorkerConnects
<1>4. CASE WorkerWrites(b, s)
  <2> DEFINE w == [worker[b][s] EXCEPT !.at = "writing"]
  <2>1. w \in WorkerState /\ w.at = "writing"
    BY <1>1 DEF WorkerState
  <2>2. /\ Put(b, s, w) /\ UNCHANGED <<batch, result, power, lock>> /\ lock[s] = b
        /\ worker[b][s].at = "connecting" /\ UNCHANGED adapterVars /\ ~Stopped(b)
    BY <1>4 DEF WorkerWrites, Inside, callVars
  <2>3. StepOf(b, s)
    BY <1>2, <2>2, QuietStep DEF LockOf
  <2>4. b = batch.n
    BY <2>2 DEF Stopped, Context
  <2> HIDE DEF w
  <2> QED
    BY <2>1, <2>2, <2>3, <2>4, WorkerGoesOn
<1> QED
  BY <1>3, <1>4

LEMMA UnsentKeeps ==
  ASSUME BulkIInv, NEW b \in Batches, NEW s \in Stations, WorkerUnsent(b, s)
  PROVE  BulkIInv'
<1>1. /\ worker[b][s].at = "connecting" /\ lock[s] = b
      /\ UNCHANGED <<batch, result, power>>
  BY DEF WorkerUnsent, Inside, callVars
<1>2. CASE Fails(b, s, "failed")
  <2>1. StepOf(b, s)
    BY <1>1, <1>2, FailsEffect, QuietStep DEF LockOf
  <2> QED
    BY <1>2, <2>1, WorkerFails
<1>3. CASE Release(s) /\ UNCHANGED adapterVars
  <2>1. AdapterInv' /\ LockOf(b, s)
    BY <1>1, <1>3, BulkTypes, AdapterStays DEF AdapterSame, Release, LockOf
  <2>2. StepOf(b, s)
    BY <1>1, <2>1, QuietStep
  <2>3. CASE Settle(b, s, "benign", FALSE)
    BY <2>2, <2>3, WorkerSettles DEF Settle, Entries
  <2>4. CASE StoppedBy(b, s)
    BY <2>2, <2>4, WorkerStops
  <2>5. CASE Put(b, s, [worker[b][s] EXCEPT !.at = "prepared", !.faulted = TRUE])
    <3> DEFINE w == [worker[b][s] EXCEPT !.at = "prepared", !.faulted = TRUE]
    <3>1. worker[b][s] \in WorkerState
      BY BulkTypes
    <3>2. w \in WorkerState /\ w.at = "prepared" /\ Put(b, s, w)
      BY <2>5, <3>1 DEF WorkerState
    <3> HIDE DEF w
    <3> QED
      BY <2>2, <3>2, WorkerGoesOn
  <2>6. CASE Fails(b, s, "failed")
    BY <1>2, <2>6
  <2> QED
    BY <2>3, <2>4, <2>5, <2>6 DEF WorkerUnsent
<1> QED
  BY <1>2, <1>3 DEF WorkerUnsent

\* The command has been handed over.
LEMMA WriteEndsKeeps ==
  ASSUME BulkIInv, NEW b \in Batches, NEW s \in Stations,
         WorkerWriteEnds(b, s) \/ FinalWriteEnds(b, s)
  PROVE  BulkIInv'
<1> DEFINE Stage(at) == [Idle EXCEPT !.at = at]
<1>1. \A at \in {"finishing", "confirming"} : Stage(at) \in WorkerState /\ Stage(at).at = at
  BY DEF Idle, WorkerState, Entries
<1>2. UNCHANGED adapterVars => AdapterInv'
  BY BulkTypes, AdapterStays DEF AdapterSame
<1>3. CASE WorkerWriteEnds(b, s)
  <2>1. /\ worker[b][s].at = "writing" /\ lock[s] = b /\ UNCHANGED <<batch, result>>
        /\ power' \in {power, [power EXCEPT ![s] = FirstCommand(b)]}
    BY <1>3 DEF WorkerWriteEnds, Inside, callVars
  <2>2. AdapterInv' /\ LockOf(b, s) => StepOf(b, s)
    BY <2>1, CommandStep
  <2>3. CASE Put(b, s, Stage("confirming")) /\ UNCHANGED <<adapterVars, lock>>
    BY <1>1, <1>2, <2>2, <2>3, WorkerGoesOn DEF LockOf
  <2>4. CASE /\ Target[b] = "sleep" /\ Put(b, s, Stage("finishing"))
             /\ Release(s) /\ UNCHANGED adapterVars
    <3>1. StepOf(b, s)
      BY <1>2, <2>1, <2>2, <2>4 DEF LockOf, Release
    <3> QED
      BY <1>1, <2>4, <3>1, WorkerGoesOn
  <2>5. CASE Fails(b, s, "unconfirmed")
    <3>1. StepOf(b, s)
      BY <2>1, <2>2, <2>5, FailsEffect DEF LockOf
    <3> QED
      BY <2>5, <3>1, WorkerFails
  <2> QED
    BY <1>3, <2>3, <2>4, <2>5 DEF WorkerWriteEnds
<1>4. CASE FinalWriteEnds(b, s)
  <2>1. /\ worker[b][s].at = "finishing" /\ UNCHANGED <<batch, result, lock>>
        /\ power' \in {power, [power EXCEPT ![s] = [value |-> "sleep", by |-> b]]}
        /\ Put(b, s, Stage("confirming")) /\ UNCHANGED adapterVars
    BY <1>4 DEF FinalWriteEnds, Inside, callVars
  <2>2. StepOf(b, s)
    BY <1>2, <2>1, CommandStep DEF LockOf
  <2> QED
    BY <1>1, <2>1, <2>2, WorkerGoesOn
<1> QED
  BY <1>3, <1>4

LEMMA ConfirmsKeeps ==
  ASSUME BulkIInv, NEW b \in Batches, NEW s \in Stations, WorkerConfirms(b, s)
  PROVE  BulkIInv'
<1>1. /\ worker[b][s].at = "confirming" /\ lock[s] = b
      /\ UNCHANGED <<batch, result, power>>
  BY DEF WorkerConfirms, Inside, callVars
<1>2. CASE Fails(b, s, "unconfirmed")
  <2>1. StepOf(b, s)
    BY <1>1, <1>2, FailsEffect, QuietStep DEF LockOf
  <2> QED
    BY <1>2, <2>1, WorkerFails
<1>3. CASE AtTarget(b, s) /\ Settle(b, s, "reached", FALSE)
           /\ Release(s) /\ UNCHANGED adapterVars
  <2>1. AdapterInv' /\ LockOf(b, s)
    BY <1>1, <1>3, BulkTypes, AdapterStays DEF AdapterSame, Release, LockOf
  <2>2. StepOf(b, s)
    BY <1>1, <2>1, QuietStep
  <2> QED
    BY <1>1, <1>3, <2>2, WorkerSettles DEF Settle, Entries, AtTarget
<1> QED
  BY <1>2, <1>3 DEF WorkerConfirms

\* What is left once its calls are over.
LEMMA EndsKeeps ==
  ASSUME BulkIInv, NEW b \in Batches, NEW s \in Stations,
         WorkerReasons(b, s) \/ WorkerEnds(b, s)
  PROVE  BulkIInv'
<1>1. UNCHANGED adapterVars => AdapterInv'
  BY BulkTypes, AdapterStays DEF AdapterSame
<1>2. StepOf(b, s)
  <2>1. /\ UNCHANGED <<batch, result, power, lock>> /\ UNCHANGED adapterVars
        /\ worker[b][s].at \notin {"none", "done"}
    BY DEF WorkerReasons, WorkerEnds, callVars
  <2> QED
    BY <1>1, <2>1, QuietStep DEF LockOf
<1>3. CASE WorkerReasons(b, s)
  <2> DEFINE entry == IF Reason(b) \in {"cancelled", "shutdown"} THEN "late" ELSE Reason(b)
  <2>1. entry \in {"late", "batchTimeout", "stationTimeout"}
    BY ReasonTyped
  <2>2. SettleAt("done", b, s, entry, FALSE)
    BY <1>3 DEF WorkerReasons, Settle
  <2> HIDE DEF entry
  <2> QED
    BY <1>2, <2>1, <2>2, WorkerSettles DEF Entries
<1>4. CASE WorkerEnds(b, s)
  <2> DEFINE w == [worker[b][s] EXCEPT !.at = "done"]
  <2>1. /\ w \in WorkerState /\ w.at = "done" /\ w.entry = worker[b][s].entry
        /\ w.affected = worker[b][s].affected
    <3>1. worker[b][s] \in WorkerState
      BY BulkTypes
    <3> QED
      BY <3>1 DEF WorkerState
  <2>2. Put(b, s, w) /\ worker[b][s].at = "closing"
    BY <1>4 DEF WorkerEnds
  <2>3. EntryTells(w) /\ ~SaysReached(w)
    BY <2>1, <2>2 DEF EntryTells, SaysReached, BulkIInv, EntriesTell
  <2> HIDE DEF w
  <2> QED
    BY <1>2, <2>1, <2>2, <2>3, WorkerMoves
<1> QED
  BY <1>3, <1>4

\* A call lets go of the lock on its way and takes it again.
LEMMA YieldsKeeps ==
  ASSUME BulkIInv, NEW b \in Batches, NEW s \in Stations,
         WorkerYields(b, s) \/ WorkerResumes(b, s)
  PROVE  BulkIInv'
<1>1. worker[b][s].at # "writing"
  BY DEF WorkerYields, WorkerResumes, Yielding
<1>2. \A c \in Batches : worker[c][s].at # "writing"
  BY <1>1 DEF WorkerYields, WorkerResumes, BulkIInv, WritingHoldsLock, Batches, Free
<1>3. PICK x \in 0..MaxBatches + 1 : lock' = [lock EXCEPT ![s] = x]
  BY BatchesAssumption DEF WorkerYields, WorkerResumes, Release, Lock, Batches, Free
<1>4. UNCHANGED <<adapterVars, callVars, worker, power>>
  BY DEF WorkerYields, WorkerResumes
<1> QED
  BY <1>2, <1>3, <1>4, LockMoves

LEMMA WorkKeeps ==
  ASSUME BulkIInv, NEW b \in Batches, NEW s \in Stations, Work(b, s)
  PROVE  BulkIInv'
BY BeginsKeeps, ReadEndsKeeps, YieldsKeeps, ConnectsKeeps, UnsentKeeps, WriteEndsKeeps,
   ConfirmsKeeps, EndsKeeps DEF Work

-----------------------------------------------------------------------------
(* Every step of the call keeps the invariant.                             *)

\* The workers, the locks and the commands stay as they are.
WorkSame == UNCHANGED <<worker, lock, power>>

\* The call moves on within its batch, before its workers or after them.
LEMMA CallMoves ==
  ASSUME BulkIInv, AdapterInv', WorkSame,
         batch' \in BatchState, result' \in [Stations -> Entries \cup {"none"}],
         batch'.n = batch.n, batch.at # "none",
         batch'.at \in {"none", "begin", "asking"} => batch.at \in {"begin", "asking"},
         \A s \in Stations : result'[s] = "reached" => result[s] = "reached",
         ResultsTell', BulkHonest'
  PROVE  BulkIInv'
<1>1. TypeOK' /\ AdapterTracked'
  BY BulkTypes DEF WorkSame, TypeOK, AdapterInv
<1>2. WritingHoldsLock' /\ PairIsSleep' /\ EntriesTell'
  BY DEF WorkSame, BulkIInv, WritingHoldsLock, PairIsSleep, EntriesTell
<1>3. AheadIdle'
  BY DEF WorkSame, BulkIInv, AheadIdle
<1>4. ReachedStays'
  BY DEF WorkSame, BulkIInv, ReachedStays, Reached, AtTarget, UndoneBySleep
<1> QED
  BY <1>1, <1>2, <1>3, <1>4 DEF BulkIInv

LEMMA StartBatchKeeps ==
  ASSUME BulkIInv, StartBatch
  PROVE  BulkIInv'
<1>1. /\ batch' = [n |-> batch.n + 1, at |-> "begin", context |-> "live", err |-> "none",
                   affected |-> FALSE, cancelled |-> FALSE, timedOut |-> FALSE]
      /\ result' = [s \in Stations |-> "none"]
      /\ UNCHANGED <<adapterVars, worker, lock, power>>
  BY DEF StartBatch, Empty
<1>2. batch.n \in Nat /\ batch.n + 1 \in Batches /\ batch.n + 1 \in 0..MaxBatches
  BY BulkTypes, BatchesAssumption DEF StartBatch, Batches
<1>3. AdapterInv'
  BY <1>1, BulkTypes, AdapterStays DEF AdapterSame
<1>4. TypeOK' /\ AdapterTracked'
  BY <1>1, <1>2, <1>3, BulkTypes DEF TypeOK, AdapterInv, BatchState
<1>5. WritingHoldsLock' /\ PairIsSleep' /\ EntriesTell'
  BY <1>1 DEF BulkIInv, WritingHoldsLock, PairIsSleep, EntriesTell
<1>6. \A b \in Batches, s \in Stations : b > batch.n => worker[b][s] = Idle
  BY DEF BulkIInv, AheadIdle
<1>7. AheadIdle'
  BY <1>1, <1>2, <1>6 DEF AheadIdle, Batches
<1>8. ResultsTell'
  BY <1>1 DEF ResultsTell, Empty
<1>9. ReachedStays'
  BY <1>1, <1>2, <1>6 DEF ReachedStays, Reached, Idle
<1>10. BulkHonest'
  BY <1>1 DEF BulkHonest
<1> QED
  BY <1>4, <1>5, <1>7, <1>8, <1>9, <1>10 DEF BulkIInv

\* setAllStationsPowerDetailed returns before a worker was begun.
LEMMA ReturnsKeeps ==
  ASSUME BulkIInv, AdapterInv', WorkSame, batch.at \in {"begin", "asking"},
         NEW err \in {"none", "busy", "unavailable", "shutdown", "context"},
         NEW affected \in BOOLEAN,
         Returns(err, affected),
         result' \in [Stations -> Entries \cup {"none"}],
         \A s \in Stations : result'[s] # "reached",
         affected => err = "shutdown" \/ (err = "context" /\ Stopped(batch.n)),
         ~affected => \A s \in Stations : result'[s] # "untouched",
         err = "none" => /\ ~affected
                         /\ \A s \in Known[batch.n] :
                               result'[s] \notin {"none", "cancelled", "shutdown"}
  PROVE  BulkIInv'
<1>1. batch \in BatchState /\ batch.n \in Batches
  BY BulkTypes DEF BulkIInv, AheadIdle
<1>2. /\ batch' \in BatchState /\ batch'.n = batch.n /\ batch'.at = "collected"
      /\ batch'.err = err /\ batch'.affected = affected
      /\ batch'.context = batch.context
  BY <1>1 DEF Returns, BatchState
<1>3. \E s \in Known[batch.n] : s \in Stations
  BY <1>1, KnownAssumption DEF Batches
<1>4. Stopped(batch.n)' <=> Stopped(batch.n)
  BY <1>2 DEF Stopped, Context
<1>5. ResultsTell'
  BY <1>2, <1>3, <1>4 DEF ResultsTell, Untouched
<1>6. BulkHonest'
  BY <1>2 DEF BulkHonest
<1> QED
  BY <1>2, <1>5, <1>6, CallMoves

LEMMA AdmissionKeeps ==
  ASSUME BulkIInv, AdmissionStops \/ AdmissionRefused \/ AdmissionGranted
  PROVE  BulkIInv'
<1>1. batch \in BatchState /\ batch.n \in Batches /\ batch.at = "begin"
  BY BulkTypes DEF BulkIInv, AheadIdle, AdmissionStops, AdmissionRefused, AdmissionGranted
<1>2. result = [s \in Stations |-> "none"] /\ batch.err = "none"
  BY <1>1 DEF BulkIInv, ResultsTell, Empty
<1>3. UNCHANGED adapterVars => AdapterInv'
  BY BulkTypes, AdapterStays DEF AdapterSame
<1>4. CASE AdmissionStops
  <2>1. AdapterInv' /\ WorkSame /\ result' = result
    BY <1>3, <1>4 DEF AdmissionStops, WorkSame
  <2> QED
    BY <1>1, <1>2, <1>4, <2>1, ReturnsKeeps DEF AdmissionStops, Entries
<1>5. CASE AdmissionRefused
  <2>1. AdapterInv' /\ WorkSame /\ result' = result
    BY <1>3, <1>5 DEF AdmissionRefused, WorkSame
  <2> QED
    BY <1>1, <1>2, <1>5, <2>1, ReturnsKeeps DEF AdmissionRefused, Entries
<1>6. CASE AdmissionGranted
  <2>1. PICK booting \in SUBSET Known[batch.n] :
          /\ result' = Seed(booting)
          /\ IF booting = Known[batch.n]
             THEN Returns("none", FALSE) /\ UNCHANGED asker
             ELSE /\ batch' = [batch EXCEPT !.at = "asking"]
                  /\ Tell(batch.n, "asking")
    BY <1>6 DEF AdmissionGranted
  <2>2. Known[batch.n] \subseteq Stations
    BY <1>1, KnownAssumption DEF Batches
  <2>3. /\ result' \in [Stations -> Entries \cup {"none"}]
        /\ \A s \in Stations :
              /\ s \notin Known[batch.n] => result'[s] = "none"
              /\ s \in Known[batch.n] => result'[s] = IF s \in booting THEN "benign"
                                                      ELSE "untouched"
    BY <2>1 DEF Seed, Entries
  <2>4. WorkSame
    BY <1>6 DEF AdmissionGranted, WorkSame
  <2>5. CASE booting = Known[batch.n]
    <3>1. AdapterInv' /\ Returns("none", FALSE)
      BY <1>3, <1>6, <2>1, <2>5 DEF AdmissionGranted, adapterVars
    <3> QED
      BY <1>1, <2>2, <2>3, <2>4, <2>5, <3>1, ReturnsKeeps
  <2>6. CASE booting # Known[batch.n]
    <3>1. /\ batch' = [batch EXCEPT !.at = "asking"] /\ Tell(batch.n, "asking")
          /\ UNCHANGED <<adapter, enabling, shutting>>
      BY <1>6, <2>1, <2>6 DEF AdmissionGranted
    <3>2. batch.n \in Askers
      BY <1>1, BatchAskersAssumption, BatchesAssumption DEF Batches
    <3>3. AdapterInv'
      BY <3>1, <3>2, TellTyped, BulkTypes DEF AdapterInv, AdapterTypeOK, AdapterTracked
    <3>4. /\ batch' \in BatchState /\ batch'.n = batch.n /\ batch'.at = "asking"
          /\ batch'.err = "none"
      BY <1>1, <1>2, <3>1 DEF BatchState
    <3>5. PICK s \in Known[batch.n] : s \notin booting
      BY <2>1, <2>6
    <3>6. ResultsTell'
      BY <2>2, <2>3, <3>4, <3>5 DEF ResultsTell, Untouched
    <3>7. BulkHonest'
      BY <3>4 DEF BulkHonest
    <3> QED
      BY <1>1, <2>3, <2>4, <3>3, <3>4, <3>6, <3>7, CallMoves
  <2> QED
    BY <2>5, <2>6
<1> QED
  BY <1>4, <1>5, <1>6

LEMMA SpawnKeeps ==
  ASSUME BulkIInv, Spawn
  PROVE  BulkIInv'
<1>1. batch \in BatchState /\ batch.n \in Batches /\ batch.at = "asking"
  BY BulkTypes DEF BulkIInv, AheadIdle, Spawn
<1>2. /\ Untouched # {} /\ batch.err = "none"
      /\ \A s \in Stations :
            result[s] \in IF s \in Known[batch.n] THEN {"benign", "untouched"} ELSE {"none"}
  BY <1>1 DEF BulkIInv, ResultsTell
<1>3. AdapterInv' /\ UNCHANGED <<lock, power>>
  BY BulkTypes, AdapterStays DEF AdapterSame, Spawn
<1>4. CASE /\ batch' = [batch EXCEPT !.at = "joining"]
           /\ worker' = [worker EXCEPT ![batch.n] =
                [s \in Stations |-> IF s \in Untouched
                                    THEN [Idle EXCEPT !.at = "queued"] ELSE Idle]]
           /\ UNCHANGED result
  <2>1. batch' \in BatchState /\ batch'.n = batch.n /\ batch'.at = "joining"
        /\ batch'.err = "none"
    BY <1>1, <1>2, <1>4 DEF BatchState
  <2>2. /\ Idle \in WorkerState /\ [Idle EXCEPT !.at = "queued"] \in WorkerState
        /\ [Idle EXCEPT !.at = "queued"].at = "queued" /\ Idle.at = "none"
    BY DEF Idle, WorkerState, Entries
  <2>3. /\ worker' \in [Batches -> [Stations -> WorkerState]]
        /\ \A b \in Batches \ {batch.n} : worker'[b] = worker[b]
        /\ \A s \in Stations : worker'[batch.n][s].at \in {"none", "queued"}
    <3> DEFINE crew == [s \in Stations |-> IF s \in Untouched
                                    THEN [Idle EXCEPT !.at = "queued"] ELSE Idle]
    <3>1. crew \in [Stations -> WorkerState]
      BY <2>2
    <3>2. \A s \in Stations : crew[s].at \in {"none", "queued"}
      BY <2>2
    <3>3. worker' = [worker EXCEPT ![batch.n] = crew]
      BY <1>4
    <3> HIDE DEF crew
    <3> QED
      BY <1>1, <3>1, <3>2, <3>3, BulkTypes
  <2>4. TypeOK' /\ AdapterTracked'
    BY <1>3, <1>4, <2>1, <2>3, BulkTypes DEF TypeOK, AdapterInv
  <2>5. WritingHoldsLock' /\ PairIsSleep' /\ EntriesTell'
    BY <1>3, <2>3 DEF BulkIInv, WritingHoldsLock, PairIsSleep, EntriesTell
  <2>6. AheadIdle'
    <3>1. \A b \in Batches, s \in Stations : b > batch.n => b # batch.n /\ worker[b][s] = Idle
      BY <1>1 DEF BulkIInv, AheadIdle, Batches
    <3> QED
      BY <1>1, <2>1, <2>3, <3>1 DEF AheadIdle
  <2>7. ResultsTell'
    BY <1>2, <1>4, <2>1 DEF ResultsTell, Untouched
  <2>8. \A s \in Stations : ~Reached(s)'
    BY <1>2, <1>4, <2>1, <2>3 DEF Reached
  <2>9. ReachedStays' /\ BulkHonest'
    BY <2>1, <2>8 DEF ReachedStays, BulkHonest
  <2> QED
    BY <2>4, <2>5, <2>6, <2>7, <2>9 DEF BulkIInv
<1>5. CASE /\ \/ Returns("context", TRUE) /\ Stopped(batch.n)
              \/ Returns("shutdown", TRUE)
           /\ UNCHANGED <<result, worker>>
  <2>1. WorkSame /\ result' = result
    BY <1>3, <1>5 DEF WorkSame
  <2>2. \A s \in Stations : result'[s] # "reached"
    BY <1>2, <2>1
  <2>3. result' \in [Stations -> Entries \cup {"none"}]
    BY <2>1, BulkTypes
  <2> QED
    BY <1>1, <1>3, <1>5, <2>1, <2>2, <2>3, ReturnsKeeps
<1>6. CASE /\ result' = MarkUntouched(result, "failed")
           /\ Returns("unavailable", FALSE)
           /\ UNCHANGED worker
  <2>1. \A s \in Stations : result'[s] \in {"failed", "benign", "none"}
    BY <1>2, <1>6 DEF MarkUntouched
  <2>2. result' \in [Stations -> Entries \cup {"none"}]
    BY <1>6, BulkTypes DEF MarkUntouched, Entries
  <2> QED
    BY <1>1, <1>3, <1>6, <2>1, <2>2, ReturnsKeeps DEF WorkSame
<1> QED
  BY <1>4, <1>5, <1>6 DEF Spawn

LEMMA JoinKeeps ==
  ASSUME BulkIInv, Join
  PROVE  BulkIInv'
<1> DEFINE done == Untouched \ Working
           affected == \E s \in done : worker[batch.n][s].affected
           err == CASE affected /\ Stopped(batch.n) -> "context"
                    [] affected /\ ~Stopped(batch.n) -> "shutdown"
                    [] OTHER -> "none"
<1>1. batch \in BatchState /\ batch.n \in Batches /\ batch.at = "joining"
  BY BulkTypes DEF BulkIInv, AheadIdle, Join
<1>2. /\ batch.err = "none"
      /\ \A s \in Stations :
            result[s] \in IF s \in Known[batch.n] THEN {"benign", "untouched"} ELSE {"none"}
  BY <1>1 DEF BulkIInv, ResultsTell
<1>3. AdapterInv' /\ UNCHANGED <<lock, power>>
  BY BulkTypes, AdapterStays DEF AdapterSame, Join
<1>4. /\ result' = [s \in Stations |->
               IF s \in done THEN worker[batch.n][s].entry
               ELSE IF s \in Working THEN "busy" ELSE result[s]]
      /\ worker' = [worker EXCEPT ![batch.n] =
               [s \in Stations |-> IF worker[batch.n][s].at \in {"done", "closing"}
                                   THEN Idle ELSE worker[batch.n][s]]]
      /\ Returns(err, affected)
  BY <1>1, BulkTypes DEF Join, Collect
<1>5. \A s \in Stations : s \in done <=> /\ result[s] = "untouched"
                                         /\ worker[batch.n][s].at = "done"
  BY DEF Untouched, Working
<1>6. \A s \in Stations : s \in Working => result[s] = "untouched"
  BY DEF Untouched, Working
<1>7. \A s \in Stations : result[s] = "untouched" => s \in done \/ s \in Working
  BY DEF Untouched, Working
<1>8. \A s \in Stations : worker[batch.n][s] \in WorkerState
  BY <1>1, BulkTypes
<1>9. /\ affected \in BOOLEAN /\ err \in {"none", "context", "shutdown"}
      /\ affected => err = "shutdown" \/ (err = "context" /\ Stopped(batch.n))
      /\ ~affected => err = "none"
  OBVIOUS
<1>10. \A s \in done :
          /\ worker[batch.n][s].entry \in Entries \ {"untouched"}
          /\ worker[batch.n][s].entry \in {"cancelled", "shutdown"} =>
                worker[batch.n][s].affected
          /\ worker[batch.n][s].affected => worker[batch.n][s].entry # "reached"
          /\ s \in Stations
  BY <1>1, <1>5, <1>8 DEF BulkIInv, EntriesTell, WorkerState, Untouched
<1> HIDE DEF done, err
<1>11. /\ batch' \in BatchState /\ batch'.n = batch.n /\ batch'.at = "collected"
       /\ batch'.err = err /\ batch'.affected = affected
       /\ batch'.context = batch.context
  BY <1>1, <1>4, <1>9 DEF Returns, BatchState
<1>12. Stopped(batch.n)' <=> Stopped(batch.n)
  BY <1>11 DEF Stopped, Context
<1>13. \A s \in Stations :
          /\ s \in done => result'[s] = worker[batch.n][s].entry
          /\ s \notin done /\ s \in Working => result'[s] = "busy"
          /\ s \notin done /\ s \notin Working => result'[s] = result[s]
  BY <1>4
<1>14. result' \in [Stations -> Entries \cup {"none"}]
  BY <1>4, <1>10, BulkTypes DEF Entries
<1>15. /\ worker' \in [Batches -> [Stations -> WorkerState]]
       /\ \A b \in Batches \ {batch.n} : worker'[b] = worker[b]
       /\ \A s \in Stations : worker'[batch.n][s] \in {Idle, worker[batch.n][s]}
       /\ \A s \in Stations : worker'[batch.n][s].at \notin {"done", "closing"}
  <2> DEFINE crew == [s \in Stations |-> IF worker[batch.n][s].at \in {"done", "closing"}
                                         THEN Idle ELSE worker[batch.n][s]]
  <2>1. Idle \in WorkerState /\ Idle.at = "none"
    BY DEF Idle, WorkerState, Entries
  <2>2. crew \in [Stations -> WorkerState]
    BY <1>8, <2>1
  <2>3. \A s \in Stations : /\ crew[s] \in {Idle, worker[batch.n][s]}
                            /\ crew[s].at \notin {"done", "closing"}
    BY <2>1
  <2>4. worker' = [worker EXCEPT ![batch.n] = crew]
    BY <1>4
  <2> HIDE DEF crew
  <2> QED
    BY <1>1, <2>2, <2>3, <2>4, BulkTypes
<1>16. TypeOK' /\ AdapterTracked'
  BY <1>3, <1>11, <1>14, <1>15, BulkTypes DEF TypeOK, AdapterInv
<1>17. Idle.at = "none"
  BY DEF Idle
<1>18. \A b \in Batches, s \in Stations : worker'[b][s] \in {Idle, worker[b][s]}
  BY <1>1, <1>15
<1>19. WritingHoldsLock' /\ PairIsSleep' /\ EntriesTell'
  BY <1>3, <1>17, <1>18 DEF BulkIInv, WritingHoldsLock, PairIsSleep, EntriesTell
<1>20. AheadIdle'
  BY <1>1, <1>11, <1>18 DEF BulkIInv, AheadIdle
<1>21. ResultsTell'
  <2>1. ASSUME affected
        PROVE  \E s \in Known[batch.n] : result'[s] # "reached"
    <3>1. PICK s \in done : worker[batch.n][s].affected
      BY <2>1
    <3>2. s \in Stations /\ result'[s] # "reached"
      BY <1>10, <1>13, <3>1
    <3>3. s \in Known[batch.n]
      BY <1>2, <1>5, <3>1, <3>2
    <3> QED
      BY <3>2, <3>3
  <2>2. \A s \in Stations : result'[s] # "untouched"
    BY <1>7, <1>10, <1>13
  <2>3. Known[batch.n] \subseteq Stations
    BY <1>1, KnownAssumption DEF Batches
  <2>4. ASSUME ~affected, NEW s \in Known[batch.n]
        PROVE  result'[s] \notin {"none", "cancelled", "shutdown"}
    <3>1. s \in Stations /\ result[s] \in {"benign", "untouched"}
      BY <1>2, <2>3
    <3>2. s \in done => /\ worker[batch.n][s].entry # "none"
                        /\ worker[batch.n][s].entry \notin {"cancelled", "shutdown"}
      BY <1>10, <2>4 DEF Entries
    <3> QED
      BY <1>13, <3>1, <3>2
  <2> HIDE DEF affected
  <2> QED
    BY <1>9, <1>11, <1>12, <2>1, <2>2, <2>4 DEF ResultsTell, Untouched
<1>22. ReachedStays'
  <2> SUFFICES ASSUME NEW s \in Stations, Reached(s)'
               PROVE  /\ AtTarget(batch.n, s)' \/ UndoneBySleep(s)'
                      /\ worker'[batch.n][s].at \in {"none", "done"}
                      /\ \A b \in Batches : worker'[b][s].at # "writing"
    BY <1>11 DEF ReachedStays, AtTarget
  <2>1. Reached(s)
    <3>1. CASE result'[s] = "reached"
      BY <1>2, <1>5, <1>13, <3>1 DEF Reached
    <3>2. CASE result'[s] # "reached"
      BY <1>11, <1>15, <1>17, <3>2 DEF Reached
    <3> QED
      BY <3>1, <3>2
  <2>2. /\ AtTarget(batch.n, s) \/ UndoneBySleep(s)
        /\ worker[batch.n][s].at \in {"none", "done"}
        /\ \A b \in Batches : worker[b][s].at # "writing"
    BY <1>1, <2>1 DEF BulkIInv, ReachedStays
  <2>3. AtTarget(batch.n, s)' \/ UndoneBySleep(s)'
    BY <1>3, <1>11, <2>2 DEF AtTarget, UndoneBySleep
  <2> QED
    BY <1>1, <1>17, <1>18, <2>2, <2>3
<1>23. BulkHonest'
  BY <1>11 DEF BulkHonest
<1> QED
  BY <1>16, <1>19, <1>20, <1>21, <1>22, <1>23 DEF BulkIInv

LEMMA ReturnKeeps ==
  ASSUME BulkIInv, Return
  PROVE  BulkIInv'
<1>1. batch \in BatchState /\ batch.n \in Batches /\ batch.at = "collected"
  BY BulkTypes DEF BulkIInv, AheadIdle, Return
<1>2. Interruption \in {"none", "expired", "cancelled"}
  BY <1>1 DEF Interruption, Stopped, Context, BatchState
<1>3. Interruption # "none" <=> batch.affected
  BY <1>1 DEF Interruption, Stopped, Context, BulkIInv, ResultsTell, BatchState
<1>4. PICK entries :
        /\ Ended(Interruption, entries)
        /\ entries \in [Stations -> Entries \cup {"none"}]
        /\ \A s \in Stations : entries[s] # "untouched"
        /\ \A s \in Stations : entries[s] = "reached" => result[s] = "reached"
        /\ ~batch.affected => entries = result
        /\ batch.affected => \E s \in Known[batch.n] : entries[s] # "reached"
  <2>1. CASE Interruption = "none"
    <3>1. Untouched = {}
      BY <1>1, <1>3, <2>1 DEF BulkIInv, ResultsTell
    <3> QED
      BY <1>1, <1>3, <2>1, <3>1, BulkTypes DEF Return, Untouched
  <2>2. CASE Interruption # "none"
    <3> DEFINE entry == CASE shutting -> "shutdown"
                          [] ~shutting /\ Interruption = "expired" -> "batchTimeout"
                          [] OTHER -> "cancelled"
    <3>1. PICK booting \in SUBSET Known[batch.n] :
            Ended(Interruption,
                  MarkUntouched(IF result = Empty THEN Seed(booting) ELSE result, entry))
      BY <1>1, <2>2 DEF Return
    <3> DEFINE before == IF result = Empty THEN Seed(booting) ELSE result
               entries == MarkUntouched(before, entry)
    <3>2. entry \in {"shutdown", "batchTimeout", "cancelled"}
      OBVIOUS
    <3>3. before \in [Stations -> Entries \cup {"none"}]
      BY BulkTypes DEF Seed, Entries
    <3>4. \A s \in Stations : before[s] = "reached" => result[s] = "reached"
      BY DEF Seed
    <3>5. \E s \in Known[batch.n] : before[s] # "reached" /\ s \in Stations
      <4>1. PICK s \in Known[batch.n] : result[s] # "reached"
        BY <1>1, <1>3, <2>2 DEF BulkIInv, ResultsTell
      <4>2. s \in Stations
        BY <1>1, <4>1, KnownAssumption DEF Batches
      <4> QED
        BY <3>4, <4>1, <4>2
    <3> HIDE DEF before, entry
    <3>6. /\ entries \in [Stations -> Entries \cup {"none"}]
          /\ \A s \in Stations : entries[s] = IF before[s] = "untouched" THEN entry
                                              ELSE before[s]
      BY <3>2, <3>3 DEF MarkUntouched, Entries
    <3>7. Ended(Interruption, entries)
      BY <3>1 DEF before, entry
    <3> HIDE DEF entries
    <3> QED
      BY <1>3, <2>2, <3>2, <3>4, <3>5, <3>6, <3>7
  <2> QED
    BY <2>1, <2>2
<1>5. /\ result' = entries /\ WorkSame /\ UNCHANGED <<adapter, enabling, shutting>>
      /\ Tell(batch.n, "none")
      /\ batch' = [batch EXCEPT
           !.at = "ended", !.context = "cancelled",
           !.cancelled = Interruption # "none", !.timedOut = Interruption = "expired",
           !.err = IF batch.err = "none" /\ Interruption # "none"
                   THEN "context" ELSE batch.err]
  BY <1>4 DEF Ended, WorkSame
<1>6. /\ batch' \in BatchState /\ batch'.n = batch.n /\ batch'.at = "ended"
      /\ batch'.cancelled <=> batch.affected
      /\ batch'.err = "none" => batch.err = "none" /\ ~batch.affected
  BY <1>1, <1>3, <1>5 DEF BatchState
<1>7. AdapterInv'
  <2>1. batch.n \in Askers
    BY <1>1, BatchAskersAssumption, BatchesAssumption DEF Batches
  <2> QED
    BY <1>5, <2>1, TellTyped, BulkTypes DEF AdapterInv, AdapterTypeOK, AdapterTracked
<1>8. ResultsTell'
  BY <1>6 DEF ResultsTell
<1>9. BulkHonest'
  <2>1. (Untouched = {})'
    BY <1>4, <1>5 DEF Untouched
  <2>2. ASSUME LegacySuccess', NEW s \in Known[batch.n]
        PROVE  result'[s] \in {"reached", "unconfirmed", "benign", "late"}
    <3>1. s \in Stations
      BY <1>1, KnownAssumption DEF Batches
    <3>2. batch.err = "none" /\ ~batch.affected /\ result' = result
      BY <1>4, <1>5, <1>6, <2>2 DEF LegacySuccess
    <3>3. result[s] \notin {"none", "cancelled", "shutdown"}
      BY <1>1, <3>2 DEF BulkIInv, ResultsTell
    <3>4. result[s] \in Entries \cup {"none"}
      BY <3>1, BulkTypes
    <3>5. result[s] \notin {"untouched", "failed", "stationTimeout", "batchTimeout", "busy"}
      BY <2>2, <3>1, <3>2 DEF LegacySuccess
    <3> QED
      BY <3>2, <3>3, <3>4, <3>5 DEF Entries
  <2>3. batch'.cancelled => \E s \in Known[batch.n] : result'[s] # "reached"
    BY <1>4, <1>5, <1>6
  <2> QED
    BY <1>6, <2>1, <2>2, <2>3 DEF BulkHonest
<1> QED
  BY <1>1, <1>4, <1>5, <1>6, <1>7, <1>8, <1>9, CallMoves

-----------------------------------------------------------------------------
(* The steps around the call: a stop, the shutdown, the adapter, a lock.   *)

LEMMA StopKeeps ==
  ASSUME BulkIInv, NEW how \in {"cancelled", "expired"}, Stop(how)
  PROVE  BulkIInv'
<1>1. batch \in BatchState /\ batch.at \notin {"none", "ended"}
  BY BulkTypes DEF Stop, Running
<1>2. /\ batch' = [batch EXCEPT !.context = how]
      /\ UNCHANGED <<adapterVars, result, worker, lock, power>>
  BY DEF Stop
<1>3. /\ batch' \in BatchState /\ batch'.n = batch.n /\ batch'.at = batch.at
      /\ batch'.err = batch.err /\ batch'.affected = batch.affected
      /\ batch'.context # "live"
  BY <1>1, <1>2 DEF BatchState
<1>4. AdapterInv' /\ WorkSame
  BY <1>2, BulkTypes, AdapterStays DEF AdapterSame, WorkSame
<1>5. ResultsTell'
  BY <1>2, <1>3 DEF BulkIInv, ResultsTell, Untouched, Stopped, Context
<1>6. BulkHonest'
  BY <1>1, <1>3 DEF BulkHonest
<1> QED
  BY <1>1, <1>2, <1>3, <1>4, <1>5, <1>6, BulkTypes, CallMoves

\* Nothing but the adapter moves.
LEMMA AdapterMoves ==
  ASSUME BulkIInv, AdapterInv', UNCHANGED bulkVars
  PROVE  BulkIInv'
BY DEF bulkVars, callVars, BulkIInv, AdapterInv, TypeOK, WritingHoldsLock, PairIsSleep,
       EntriesTell, AheadIdle, ResultsTell, Untouched, Stopped, Context, ReachedStays,
       Reached, AtTarget, UndoneBySleep, BulkHonest, LegacySuccess

LEMMA CallReturnsKeeps ==
  ASSUME BulkIInv, NEW s \in Stations, CallReturns(s)
  PROVE  BulkIInv'
<1>1. /\ lock[s] = Wedged /\ lock' = [lock EXCEPT ![s] = Free]
      /\ UNCHANGED <<adapterVars, callVars, worker, power>>
  BY DEF CallReturns, Release
<1>2. \A c \in Batches : worker[c][s].at # "writing"
  BY <1>1, BatchesAssumption DEF BulkIInv, WritingHoldsLock, Batches, Wedged
<1>3. Free \in 0..MaxBatches + 1
  BY BatchesAssumption DEF Free
<1> QED
  BY <1>1, <1>2, <1>3, LockMoves

-----------------------------------------------------------------------------
(* The theorems.                                                           *)

LEMMA BulkInit ==
  ASSUME Init
  PROVE  BulkIInv
<1>1. Idle \in WorkerState /\ Idle.at = "none"
  BY DEF Idle, WorkerState, Entries
<1>2. adapter \in AdapterState /\ AdapterTracked
  BY DEF Init, AdapterStart, AdapterState, AdapterTracked
<1>3. asker \in [Askers -> AskerState]
  BY DEF Init, AdapterStart, AskerState
<1>4. AdapterTypeOK
  BY <1>2, <1>3 DEF Init, AdapterStart, AdapterTypeOK
<1>5. batch \in BatchState /\ batch.n = 0 /\ batch.at = "none"
  BY BatchesAssumption DEF Init, BatchState
<1>6. /\ worker \in [Batches -> [Stations -> WorkerState]]
      /\ \A b \in Batches, s \in Stations : worker[b][s] = Idle
  BY <1>1 DEF Init
<1>7. /\ result \in [Stations -> Entries \cup {"none"}]
      /\ lock \in [Stations -> 0..MaxBatches + 1]
      /\ power \in [Stations -> PowerState]
  BY BatchesAssumption, FoundAssumption DEF Init, Empty, Free, PowerState, Powers, Others
<1>8. TypeOK
  BY <1>4, <1>5, <1>6, <1>7 DEF TypeOK
<1>9. WritingHoldsLock /\ PairIsSleep /\ EntriesTell
  BY <1>1, <1>6 DEF WritingHoldsLock, PairIsSleep, EntriesTell
<1>10. AheadIdle /\ ResultsTell
  BY <1>5, <1>6 DEF AheadIdle, ResultsTell, Init
<1>11. ReachedStays /\ BulkHonest
  BY <1>5 DEF ReachedStays, BulkHonest, Batches
<1> QED
  BY <1>2, <1>8, <1>9, <1>10, <1>11 DEF BulkIInv

LEMMA BulkStep ==
  ASSUME BulkIInv, [Next]_vars
  PROVE  BulkIInv'
<1>1. CASE Call
  BY <1>1, StartBatchKeeps, AdmissionKeeps, SpawnKeeps, JoinKeeps, ReturnKeeps DEF Call
<1>2. CASE \E b \in Batches, s \in Stations : Work(b, s)
  BY <1>2, WorkKeeps
<1>3. CASE \E s \in Stations : CallReturns(s)
  BY <1>3, CallReturnsKeeps
<1>4. CASE (\E c \in Askers : Ask(c)) /\ UNCHANGED bulkVars
  BY <1>4, BulkTypes, AskKeepsAdapter, AdapterMoves
<1>5. CASE AdapterStep /\ UNCHANGED bulkVars
  BY <1>5, BulkTypes, AdapterStepKeepsAdapter, AdapterMoves
<1>6. CASE Cancel \/ Expire \/ LifecycleCancels
  BY <1>6, StopKeeps DEF Cancel, Expire, LifecycleCancels
<1>7. CASE BeginShutdown
  <2>1. AdapterInv'
    BY <1>7, BulkTypes DEF BeginShutdown, AdapterInv, AdapterTypeOK, AdapterTracked
  <2> QED
    BY <1>7, <2>1, AdapterMoves DEF BeginShutdown
<1>8. CASE UNCHANGED vars
  <2>1. AdapterInv' /\ UNCHANGED bulkVars
    BY <1>8, BulkTypes, AdapterStays DEF vars, AdapterSame
  <2> QED
    BY <2>1, AdapterMoves
<1> QED
  BY <1>1, <1>2, <1>3, <1>4, <1>5, <1>6, <1>7, <1>8 DEF Next

\* The strengthened invariant holds, whatever hangs and whatever is left behind.
THEOREM BulkInvariant == Spec => []BulkIInv
<1>1. Init => BulkIInv
  BY BulkInit
<1>2. BulkIInv /\ [Next]_vars => BulkIInv'
  BY BulkStep
<1> QED
  BY <1>1, <1>2, PTL DEF Spec

\* An ended batch has an outcome for every station, calls a success only what
\* is one, and is called cancelled only if something was left undone
\* (power_bulk.go 31-55, 155-168, 258-261).
THEOREM BatchesAreHonest == Spec => []BulkInv
<1>1. BulkIInv => BulkInv
  BY DEF BulkIInv, BulkInv
<1> QED
  BY <1>1, BulkInvariant, PTL

\* One call of adapter.Enable at a time, one cleanup of the fleet per loss of
\* the adapter (manager.go 760-774, 886-895).
THEOREM AdapterIsOne == Spec => []AdapterOnce
<1>1. BulkIInv => AdapterOnce
  <2> SUFFICES ASSUME BulkIInv
               PROVE  AdapterOnce
    OBVIOUS
  <2>1. enabling \subseteq {adapter.pending} /\ adapter.cleanups <= 1
    BY DEF BulkIInv, AdapterTracked
  <2>2. IsFiniteSet({adapter.pending}) /\ Cardinality({adapter.pending}) = 1
    BY FS_Singleton
  <2>3. Cardinality(enabling) <= Cardinality({adapter.pending})
    BY <2>1, <2>2, FS_Subset
  <2> QED
    BY <2>1, <2>2, <2>3 DEF AdapterOnce
<1> QED
  BY <1>1, BulkInvariant, PTL

\* What the newest batch reports at its target stays there, whatever the workers
\* that earlier batches left behind go on to do, but for the second half of a
\* sleep pair one of them had begun (power_bulk.go 361-372, bluetooth/power.go
\* 526-530 and 711-745).
THEOREM NewestTargetStays == Spec => []NewestTargetWins
<1>1. BulkIInv => NewestTargetWins
  BY DEF BulkIInv, ReachedStays, Reached, NewestTargetWins, AheadIdle
<1> QED
  BY <1>1, BulkInvariant, PTL
=============================================================================
