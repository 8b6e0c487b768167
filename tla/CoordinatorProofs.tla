-------------------------- MODULE CoordinatorProofs --------------------------
(***************************************************************************)
(* Proofs that the safety of the coordinator does not depend on the number *)
(* of callers, refreshes, stations and slots.                              *)
(***************************************************************************)
EXTENDS Coordinator, FiniteSetTheorems, TLAPS

-----------------------------------------------------------------------------
(* Counting.                                                               *)

In(x, S) == IF x \in S THEN 1 ELSE 0

\* A set that changes by one member at most changes its cardinality with it.
LEMMA CardinalityStep ==
  ASSUME NEW S, IsFiniteSet(S), NEW T, NEW x, T \ {x} = S \ {x}
  PROVE  /\ IsFiniteSet(T)
         /\ Cardinality(S) \in Nat /\ Cardinality(T) \in Nat
         /\ Cardinality(T) + In(x, S) = Cardinality(S) + In(x, T)
<1>1. /\ IsFiniteSet(S \ {x}) /\ Cardinality(S \ {x}) \in Nat
      /\ Cardinality(S) \in Nat
      /\ Cardinality(S \ {x}) =
           IF x \in S THEN Cardinality(S) - 1 ELSE Cardinality(S)
  BY FS_RemoveElement, FS_CardinalityType
<1>2. CASE x \in T
  <2>1. T = (S \ {x}) \cup {x}
    BY <1>2
  <2>2. IsFiniteSet(T) /\ Cardinality(T) = Cardinality(S \ {x}) + 1
    BY <1>1, <2>1, FS_AddElement
  <2> QED
    BY <1>1, <1>2, <2>2 DEF In
<1>3. CASE x \notin T
  <2>1. T = S \ {x}
    BY <1>3
  <2> QED
    BY <1>1, <1>3, <2>1 DEF In
<1> QED
  BY <1>2, <1>3

\* All the sets that are counted are finite.
LEMMA FiniteAgents ==
  /\ IsFiniteSet(Agents) /\ IsFiniteSet(Refreshes)
  /\ IsFiniteSet(Callers) /\ IsFiniteSet(Stations)
  /\ \A S \in SUBSET Agents : IsFiniteSet(S) /\ Cardinality(S) \in Nat
  /\ \A S \in SUBSET Refreshes : IsFiniteSet(S) /\ Cardinality(S) \in Nat
<1>1. IsFiniteSet(Callers \cup Refreshes)
  BY CoordinatorAssumption, FS_Union
<1>2. IsFiniteSet(Agents)
  BY <1>1, FS_AddElement DEF Agents
<1> QED
  BY <1>2, CoordinatorAssumption, FS_Subset, FS_CardinalityType

-----------------------------------------------------------------------------
(* The counts follow the one agent, or the one refresh, that moves.        *)

\* A step of one agent that accounts for what it takes and gives back.
LEMMA AgentCounts ==
  ASSUME TypeOK, CountsExact, NEW a \in Agents,
         \A b \in Agents \ {a} : pc'[b] = pc[b] /\ op'[b] = op[b],
         phase' = phase,
         readers' + In(a, SharedAgents) = readers + In(a, SharedAgents'),
         registered' + In(a, RegisteredAgents)
           = registered + In(a, RegisteredAgents'),
         readers' \in Int, registered' \in Int
  PROVE  CountsExact' /\ readers' \in Nat /\ registered' \in Nat
<1>1. /\ SharedAgents \in SUBSET Agents /\ RegisteredAgents \in SUBSET Agents
      /\ SharedAgents' \ {a} = SharedAgents \ {a}
      /\ RegisteredAgents' \ {a} = RegisteredAgents \ {a}
  BY DEF SharedAgents, RegisteredAgents, IsGlobal
<1>2. /\ SharedRefreshes' = SharedRefreshes
      /\ RegisteredRefreshes' = RegisteredRefreshes
  BY DEF SharedRefreshes, RegisteredRefreshes
<1>3. /\ SharedRefreshes \in SUBSET Refreshes
      /\ RegisteredRefreshes \in SUBSET Refreshes
  BY DEF SharedRefreshes, RegisteredRefreshes
<1>4. /\ Cardinality(SharedAgents) \in Nat /\ Cardinality(SharedAgents') \in Nat
      /\ Cardinality(SharedAgents') + In(a, SharedAgents)
           = Cardinality(SharedAgents) + In(a, SharedAgents')
  BY <1>1, FiniteAgents, CardinalityStep
<1>5. /\ Cardinality(RegisteredAgents) \in Nat
      /\ Cardinality(RegisteredAgents') \in Nat
      /\ Cardinality(RegisteredAgents') + In(a, RegisteredAgents)
           = Cardinality(RegisteredAgents) + In(a, RegisteredAgents')
  BY <1>1, FiniteAgents, CardinalityStep
<1>6. /\ Cardinality(SharedRefreshes) \in Nat
      /\ Cardinality(RegisteredRefreshes) \in Nat
  BY <1>3, FiniteAgents
<1>7. /\ In(a, SharedAgents) \in Nat /\ In(a, SharedAgents') \in Nat
      /\ In(a, RegisteredAgents) \in Nat /\ In(a, RegisteredAgents') \in Nat
  BY DEF In
<1> QED
  BY <1>2, <1>4, <1>5, <1>6, <1>7 DEF CountsExact

\* The same for a dispatcher, whose phase moves.
LEMMA RefreshCounts ==
  ASSUME TypeOK, CountsExact, NEW r \in Refreshes,
         \A q \in Refreshes \ {r} : phase'[q] = phase[q],
         pc' = pc, op' = op,
         readers' + In(r, SharedRefreshes) = readers + In(r, SharedRefreshes'),
         registered' + In(r, RegisteredRefreshes)
           = registered + In(r, RegisteredRefreshes'),
         readers' \in Int, registered' \in Int
  PROVE  CountsExact' /\ readers' \in Nat /\ registered' \in Nat
<1>1. /\ SharedRefreshes \in SUBSET Refreshes
      /\ RegisteredRefreshes \in SUBSET Refreshes
      /\ SharedRefreshes' \ {r} = SharedRefreshes \ {r}
      /\ RegisteredRefreshes' \ {r} = RegisteredRefreshes \ {r}
  BY DEF SharedRefreshes, RegisteredRefreshes
<1>2. SharedAgents' = SharedAgents /\ RegisteredAgents' = RegisteredAgents
  BY DEF SharedAgents, RegisteredAgents, IsGlobal
<1>3. SharedAgents \in SUBSET Agents /\ RegisteredAgents \in SUBSET Agents
  BY DEF SharedAgents, RegisteredAgents
<1>4. /\ Cardinality(SharedRefreshes) \in Nat
      /\ Cardinality(SharedRefreshes') \in Nat
      /\ Cardinality(SharedRefreshes') + In(r, SharedRefreshes)
           = Cardinality(SharedRefreshes) + In(r, SharedRefreshes')
  BY <1>1, FiniteAgents, CardinalityStep
<1>5. /\ Cardinality(RegisteredRefreshes) \in Nat
      /\ Cardinality(RegisteredRefreshes') \in Nat
      /\ Cardinality(RegisteredRefreshes') + In(r, RegisteredRefreshes)
           = Cardinality(RegisteredRefreshes) + In(r, RegisteredRefreshes')
  BY <1>1, FiniteAgents, CardinalityStep
<1>6. Cardinality(SharedAgents) \in Nat /\ Cardinality(RegisteredAgents) \in Nat
  BY <1>3, FiniteAgents
<1>7. /\ In(r, SharedRefreshes) \in Nat /\ In(r, SharedRefreshes') \in Nat
      /\ In(r, RegisteredRefreshes) \in Nat
      /\ In(r, RegisteredRefreshes') \in Nat
  BY DEF In
<1> QED
  BY <1>2, <1>4, <1>5, <1>6, <1>7 DEF CountsExact

-----------------------------------------------------------------------------
(* operationMutex: the counts are exact and the writer is alone.           *)

Locks == CountsExact /\ WriterAlone

USE DEF LockedSteps

\* A step of one agent that neither takes nor gives back a lock.
LEMMA AgentKeepsLocks ==
  ASSUME TypeOK, Locks, NEW a \in Agents,
         \A b \in Agents \ {a} : pc'[b] = pc[b] /\ op'[b] = op[b],
         phase' = phase, UNCHANGED lockVars,
         a \in SharedAgents' <=> a \in SharedAgents,
         a \in Exclusive' <=> a \in Exclusive,
         a \in RegisteredAgents' <=> a \in RegisteredAgents
  PROVE  Locks' /\ Exclusive' = Exclusive /\ SharedAgents' = SharedAgents
<1>1. Exclusive' = Exclusive
  BY DEF Exclusive, IsGlobal
<1>2. SharedAgents' = SharedAgents
  BY DEF SharedAgents, IsGlobal
<1>3. WriterAlone'
  BY <1>1 DEF Locks, WriterAlone, lockVars
<1>4. CountsExact'
  BY AgentCounts DEF Locks, In, TypeOK, lockVars
<1> QED
  BY <1>1, <1>2, <1>3, <1>4 DEF Locks

\* The callers' steps of this kind.
LEMMA CallerKeepsLocks ==
  ASSUME Inductive, NEW c \in Callers,
         \/ Arrive(c) \/ Enter(c) \/ ContextStopped(c) \/ LockTransition(c)
         \/ MarkShared(c) \/ EndShared(c) \/ EndBulk(c)
         \/ MissedStation(c) \/ MissedGlobal(c) \/ MissedStatus(c)
         \/ Woken(c) \/ StopWaiting(c)
         \/ ReserveScan(c) \/ PublishScan(c) \/ PrepareScan(c)
         \/ FinishScan(c) \/ AbortScan(c) \/ UnpublishScan(c)
  PROVE  Locks' /\ Exclusive' = Exclusive /\ SharedAgents' = SharedAgents
<1> USE DEF Go, Quit, Refuse, WaitFor, callVars, IsGlobal, SharedAgents, Exclusive,
            RegisteredAgents, sharedVars, worldVars, lockVars, statusVars
<1> c \in Agents /\ TypeOK /\ Locks
  BY DEF Inductive, Locks, Agents
<1> SUFFICES /\ \A b \in Agents \ {c} : pc'[b] = pc[b] /\ op'[b] = op[b]
             /\ phase' = phase /\ UNCHANGED lockVars
             /\ c \in SharedAgents' <=> c \in SharedAgents
             /\ c \in Exclusive' <=> c \in Exclusive
             /\ c \in RegisteredAgents' <=> c \in RegisteredAgents
  BY AgentKeepsLocks
<1>1. CASE Arrive(c)
  BY <1>1 DEF Arrive, Begin, FirstStep, TypeOK
<1>2. CASE Enter(c)
  BY <1>2 DEF Enter, TypeOK
<1>3. CASE ContextStopped(c)
  BY <1>3 DEF ContextStopped, TypeOK
<1>4. CASE LockTransition(c)
  BY <1>4 DEF LockTransition, TypeOK
<1>5. CASE MarkShared(c)
  BY <1>5 DEF MarkShared, TypeOK
<1>6. CASE EndShared(c)
  BY <1>6 DEF EndShared, TypeOK
<1>7. CASE MissedStation(c)
  BY <1>7 DEF MissedStation, TypeOK
<1>8. CASE MissedGlobal(c)
  BY <1>8 DEF MissedGlobal, TypeOK
<1>9. CASE MissedStatus(c)
  BY <1>9 DEF MissedStatus, TypeOK
<1>10. CASE EndBulk(c)
  BY <1>10 DEF EndBulk, TypeOK
<1>11. CASE Woken(c)
  BY <1>11 DEF Woken, TypeOK
<1>12. CASE StopWaiting(c)
  BY <1>12 DEF StopWaiting, TypeOK
<1>13. CASE ReserveScan(c)
  BY <1>13 DEF ReserveScan, TypeOK
<1>14. CASE PublishScan(c)
  BY <1>14 DEF PublishScan, TypeOK
<1>15. CASE PrepareScan(c)
  BY <1>15 DEF PrepareScan, TypeOK
<1>16. CASE FinishScan(c)
  BY <1>16 DEF FinishScan, TypeOK
<1>17. CASE AbortScan(c)
  BY <1>17 DEF AbortScan, TypeOK
<1>18. CASE UnpublishScan(c)
  BY <1>18 DEF UnpublishScan, TypeOK
<1> QED
  BY <1>1, <1>2, <1>3, <1>4, <1>5, <1>6, <1>7, <1>8, <1>9, <1>10, <1>11, <1>12, <1>13, <1>14,
      <1>15, <1>16, <1>17, <1>18

\* The same for steps a worker or the recovery loop takes too.
LEMMA AgentStepKeepsLocks ==
  ASSUME Inductive, NEW a \in Agents,
         \/ EndDevice(a)
         \/ a = Recovery /\ (RecoveryRound \/ RecoveryStep)
         \/ a = Recovery /\ \E s \in Stations : BeginRecovery(s)
         \/ a \in Refreshes /\ \E s \in Stations : Dispatch(a, s)
  PROVE  Locks' /\ Exclusive' = Exclusive /\ SharedAgents' = SharedAgents
<1> USE DEF Go, callVars, IsGlobal, SharedAgents, Exclusive,
            RegisteredAgents, sharedVars, worldVars, lockVars, statusVars
<1> TypeOK /\ Locks /\ Recovery \in Agents
  BY DEF Inductive, Locks, Agents
<1> SUFFICES /\ \A b \in Agents \ {a} : pc'[b] = pc[b] /\ op'[b] = op[b]
             /\ phase' = phase /\ UNCHANGED lockVars
             /\ a \in SharedAgents' <=> a \in SharedAgents
             /\ a \in Exclusive' <=> a \in Exclusive
             /\ a \in RegisteredAgents' <=> a \in RegisteredAgents
  BY AgentKeepsLocks
<1>1. CASE EndDevice(a)
  BY <1>1 DEF EndDevice, TypeOK
<1>2. CASE a = Recovery /\ (RecoveryRound \/ RecoveryStep)
  BY <1>2 DEF RecoveryRound, RecoveryStep, RecoveryRoundEnd, ClearRecovery,
              RecoveryExit, TypeOK
<1>3. CASE a = Recovery /\ \E s \in Stations : BeginRecovery(s)
  BY <1>3 DEF BeginRecovery, TypeOK
<1>4. CASE a \in Refreshes /\ \E s \in Stations : Dispatch(a, s)
  BY <1>4 DEF Dispatch, TypeOK
<1> QED
  BY <1>1, <1>2, <1>3, <1>4

\* The steps that register, take the shared lock, or give either back.
LEMMA SharedLockSteps ==
  ASSUME Inductive, NEW a \in Agents,
         Register(a) \/ LockShared(a) \/ BeginDevice(a) \/ ReleaseShared(a)
  PROVE  /\ Locks' /\ readers' \in Nat /\ registered' \in Nat
         /\ Exclusive' = Exclusive
         /\ \A b \in Agents \ {a} : pc'[b] = pc[b] /\ op'[b] = op[b]
         /\ phase' = phase
<1> USE DEF Go, Quit, Refuse, WaitFor, callVars, IsGlobal, Unregister
<1>1. TypeOK /\ Locks /\ OperationShape
  BY DEF Inductive, Locks
<1>2. /\ \A b \in Agents \ {a} : pc'[b] = pc[b] /\ op'[b] = op[b]
      /\ phase' = phase /\ writer' = writer
      /\ readers' \in Int /\ registered' \in Int
  <2>1. CASE Register(a)
    BY <1>1, <2>1 DEF Register, TypeOK, worldVars, statusVars
  <2>2. CASE LockShared(a)
    BY <1>1, <2>2 DEF LockShared, TypeOK, worldVars, statusVars
  <2>3. CASE BeginDevice(a)
    BY <1>1, <2>3 DEF BeginDevice, DeviceBusy, SlotsBusy, TakeDevice, TypeOK,
                      statusVars
  <2>4. CASE ReleaseShared(a)
    BY <1>1, <2>4 DEF ReleaseShared, TypeOK, worldVars, statusVars
  <2> QED
    BY <2>1, <2>2, <2>3, <2>4
<1>3. /\ readers' + In(a, SharedAgents) = readers + In(a, SharedAgents')
      /\ registered' + In(a, RegisteredAgents)
           = registered + In(a, RegisteredAgents')
  <2> USE DEF SharedAgents, RegisteredAgents, In
  <2>1. CASE Register(a)
    BY <1>1, <2>1 DEF Register, TypeOK, worldVars, statusVars
  <2>2. CASE LockShared(a)
    BY <1>1, <2>2 DEF LockShared, TypeOK, worldVars, statusVars
  <2>3. CASE BeginDevice(a)
    BY <1>1, <2>3 DEF BeginDevice, DeviceBusy, SlotsBusy, TakeDevice, TypeOK,
                      statusVars, OperationShape
  <2>4. CASE ReleaseShared(a)
    BY <1>1, <2>4 DEF ReleaseShared, TypeOK, worldVars, statusVars
  <2> QED
    BY <2>1, <2>2, <2>3, <2>4
<1>4. CountsExact' /\ readers' \in Nat /\ registered' \in Nat
  BY <1>1, <1>2, <1>3, AgentCounts DEF Locks
<1>5. Exclusive' = Exclusive
  <2>1. a \in Exclusive' <=> a \in Exclusive
    <3> USE DEF Exclusive
    <3>1. CASE Register(a)
      BY <1>1, <3>1 DEF Register, TypeOK
    <3>2. CASE LockShared(a)
      BY <1>1, <3>2 DEF LockShared, TypeOK
    <3>3. CASE BeginDevice(a)
      BY <1>1, <3>3 DEF BeginDevice, DeviceBusy, SlotsBusy, TakeDevice, TypeOK,
                        OperationShape
    <3>4. CASE ReleaseShared(a)
      BY <1>1, <3>4 DEF ReleaseShared, TypeOK
    <3> QED
      BY <3>1, <3>2, <3>3, <3>4
  <2> QED
    BY <1>2, <2>1 DEF Exclusive
<1>6. writer => readers' <= readers
  <2>1. CASE Register(a)
    BY <1>1, <2>1 DEF Register, TypeOK
  <2>2. CASE LockShared(a)
    BY <1>1, <2>2 DEF LockShared, TypeOK
  <2>3. CASE BeginDevice(a)
    BY <1>1, <2>3 DEF BeginDevice, DeviceBusy, SlotsBusy, TakeDevice, TypeOK
  <2>4. CASE ReleaseShared(a)
    BY <1>1, <2>4 DEF ReleaseShared, TypeOK
  <2> QED
    BY <2>1, <2>2, <2>3, <2>4
<1>7. WriterAlone'
  BY <1>1, <1>2, <1>4, <1>5, <1>6 DEF WriterAlone, Locks, TypeOK
<1> QED
  BY <1>2, <1>4, <1>5, <1>7 DEF Locks

\* The write lock.
LEMMA ExclusiveLockSteps ==
  ASSUME Inductive, NEW c \in Callers,
         LockExclusive(c) \/ MarkGlobal(c) \/ ReleaseExclusive(c)
  PROVE  Locks' /\ readers' \in Nat /\ registered' \in Nat
<1> USE DEF Go, Quit, Refuse, callVars, lockVars, IsGlobal, Unregister,
            EndOperation
<1>1. TypeOK /\ Locks /\ OperationShape /\ c \in Agents
  BY DEF Inductive, Locks, Agents
<1>2. /\ \A b \in Agents \ {c} : pc'[b] = pc[b] /\ op'[b] = op[b]
      /\ phase' = phase /\ readers' = readers
      /\ readers' \in Int /\ registered' \in Int
  <2>1. CASE LockExclusive(c)
    BY <1>1, <2>1 DEF LockExclusive, TypeOK, worldVars, statusVars
  <2>2. CASE MarkGlobal(c)
    BY <1>1, <2>2 DEF MarkGlobal, TypeOK, worldVars, statusVars
  <2>3. CASE ReleaseExclusive(c)
    BY <1>1, <2>3 DEF ReleaseExclusive, TypeOK, worldVars, statusVars
  <2> QED
    BY <2>1, <2>2, <2>3
<1>3. /\ In(c, SharedAgents) = In(c, SharedAgents')
      /\ registered' + In(c, RegisteredAgents)
           = registered + In(c, RegisteredAgents')
  <2> USE DEF SharedAgents, RegisteredAgents, In
  <2>1. CASE LockExclusive(c)
    BY <1>1, <2>1 DEF LockExclusive, TypeOK
  <2>2. CASE MarkGlobal(c)
    BY <1>1, <2>2 DEF MarkGlobal, TypeOK
  <2>3. CASE ReleaseExclusive(c)
    BY <1>1, <2>3 DEF ReleaseExclusive, TypeOK
  <2> QED
    BY <2>1, <2>2, <2>3
<1>4. CountsExact' /\ readers' \in Nat /\ registered' \in Nat
  BY <1>1, <1>2, <1>3, AgentCounts DEF Locks
<1>5. Exclusive' \ {c} = Exclusive \ {c}
  BY <1>2 DEF Exclusive
<1>6. WriterAlone'
  <2>1. CASE LockExclusive(c)
    <3>1. CASE writer \/ readers > 0
      <4>1. /\ c \notin Exclusive /\ c \notin Exclusive'
            /\ writer' = writer
        BY <1>1, <2>1, <3>1 DEF LockExclusive, TypeOK, Exclusive
      <4> QED
        BY <1>1, <1>2, <1>5, <4>1 DEF WriterAlone, Locks
    <3>2. CASE ~writer /\ readers = 0
      <4>1. c \in Exclusive' /\ writer' = TRUE
        BY <1>1, <2>1, <3>2 DEF LockExclusive, TypeOK, Exclusive
      <4>2. Exclusive' = {c}
        BY <1>1, <1>5, <3>2, <4>1 DEF WriterAlone, Locks
      <4> QED
        BY <1>2, <3>2, <4>1, <4>2 DEF WriterAlone
    <3> QED
      BY <1>1, <2>1, <3>1, <3>2 DEF LockExclusive
  <2>2. ASSUME c \in Exclusive, writer' = FALSE, c \notin Exclusive'
        PROVE  WriterAlone'
    BY <1>1, <1>5, <2>2 DEF WriterAlone, Locks, TypeOK
  <2>3. CASE MarkGlobal(c)
    <3>1. \/ c \in Exclusive /\ writer' = FALSE /\ c \notin Exclusive'
          \/ c \in Exclusive /\ writer' = writer /\ c \in Exclusive'
      BY <1>1, <2>3 DEF MarkGlobal, TypeOK, Exclusive
    <3> QED
      BY <1>1, <1>2, <1>5, <2>2, <3>1 DEF WriterAlone, Locks
  <2>4. CASE ReleaseExclusive(c)
    <3>1. c \in Exclusive /\ writer' = FALSE /\ c \notin Exclusive'
      BY <1>1, <2>4 DEF ReleaseExclusive, TypeOK, Exclusive
    <3> QED
      BY <2>2, <3>1
  <2> QED
    BY <2>1, <2>3, <2>4
<1> QED
  BY <1>4, <1>6 DEF Locks

\* The lock and the registration of a refresh's dispatcher.
LEMMA RefreshLockSteps ==
  ASSUME Inductive, NEW r \in Refreshes,
         \/ BeginRefresh(r) \/ RegisterRefresh(r) \/ SkipRest(r)
         \/ \E candidates \in SUBSET Stations : LockRefresh(r, candidates)
         \/ JoinRefresh(r) \/ EndRefresh(r) \/ AbandonRefresh(r)
         \/ EndAbandoned(r)
  PROVE  Locks' /\ readers' \in Nat /\ registered' \in Nat
<1> USE DEF Phase, callVars, agentVars, sharedVars, lockVars, Unregister
<1>1. TypeOK /\ Locks
  BY DEF Inductive, Locks
<1>2. /\ \A q \in Refreshes \ {r} : phase'[q] = phase[q]
      /\ pc' = pc /\ op' = op /\ writer' = writer
      /\ readers' \in Int /\ registered' \in Int
      /\ readers' + In(r, SharedRefreshes) = readers + In(r, SharedRefreshes')
      /\ registered' + In(r, RegisteredRefreshes)
           = registered + In(r, RegisteredRefreshes')
      /\ writer => readers' <= readers
  <2> USE DEF SharedRefreshes, RegisteredRefreshes, In
  <2>1. CASE BeginRefresh(r)
    BY <1>1, <2>1 DEF BeginRefresh, TypeOK
  <2>2. CASE RegisterRefresh(r)
    BY <1>1, <2>2 DEF RegisterRefresh, TypeOK
  <2>3. CASE SkipRest(r)
    BY <1>1, <2>3 DEF SkipRest, TypeOK
  <2>4. CASE \E candidates \in SUBSET Stations : LockRefresh(r, candidates)
    BY <1>1, <2>4 DEF LockRefresh, TypeOK
  <2>5. CASE JoinRefresh(r)
    BY <1>1, <2>5 DEF JoinRefresh, TypeOK
  <2>6. CASE EndRefresh(r)
    BY <1>1, <2>6 DEF EndRefresh, TypeOK
  <2>7. CASE AbandonRefresh(r)
    BY <1>1, <2>7 DEF AbandonRefresh, TypeOK
  <2>8. CASE EndAbandoned(r)
    BY <1>1, <2>8 DEF EndAbandoned, TypeOK
  <2> QED
    BY <2>1, <2>2, <2>3, <2>4, <2>5, <2>6, <2>7, <2>8
<1>3. CountsExact' /\ readers' \in Nat /\ registered' \in Nat
  BY <1>1, <1>2, RefreshCounts DEF Locks
<1>4. Exclusive' = Exclusive
  BY <1>2 DEF Exclusive, IsGlobal
<1>5. WriterAlone'
  BY <1>1, <1>2, <1>3, <1>4 DEF WriterAlone, Locks, TypeOK
<1> QED
  BY <1>3, <1>5 DEF Locks

\* The locks survive every step.
LEMMA LocksStep ==
  ASSUME Inductive, [Next]_vars
  PROVE  Locks' /\ readers' \in Nat /\ registered' \in Nat
<1>1. TypeOK /\ Locks
  BY DEF Inductive, Locks
<1>2. ASSUME UNCHANGED lockVars, Locks' 
      PROVE  Locks' /\ readers' \in Nat /\ registered' \in Nat
  BY <1>1, <1>2 DEF lockVars, TypeOK
<1>3. ASSUME NEW c \in Callers,
             \/ Arrive(c) \/ CallerStep(c) \/ TransitionStep(c) \/ EndWork(c)
             \/ ContextStopped(c) \/ StopWaiting(c)
      PROVE  Locks' /\ readers' \in Nat /\ registered' \in Nat
  <2>1. CASE LockExclusive(c) \/ MarkGlobal(c) \/ ReleaseExclusive(c)
    BY <2>1, ExclusiveLockSteps
  <2>2. ASSUME ~(LockExclusive(c) \/ MarkGlobal(c) \/ ReleaseExclusive(c))
        PROVE  Locks' /\ UNCHANGED lockVars
    <3>1. Locks'
      BY <1>3, <2>2, CallerKeepsLocks DEF CallerStep, TransitionStep, EndWork
    <3>2. UNCHANGED lockVars
      BY <1>3, <2>2 DEF CallerStep, TransitionStep, EndWork, lockVars,
           sharedVars, Arrive, Begin, Enter, ContextStopped, LockTransition,
           MarkShared, EndShared, EndBulk, MissedStation, MissedGlobal,
           MissedStatus, Woken, StopWaiting, ReserveScan, PublishScan,
           PrepareScan, FinishScan, AbortScan, UnpublishScan
    <3> QED
      BY <3>1, <3>2
  <2> QED
    BY <1>2, <2>1, <2>2
<1>4. ASSUME NEW a \in Agents, AgentStep(a) \/ EndDevice(a)
      PROVE  Locks' /\ readers' \in Nat /\ registered' \in Nat
  <2>1. CASE AgentStep(a)
    BY <2>1, SharedLockSteps DEF AgentStep
  <2>2. CASE EndDevice(a)
    BY <1>2, <2>2, AgentStepKeepsLocks DEF EndDevice
  <2> QED
    BY <1>4, <2>1, <2>2
<1>5. CASE RecoveryRound \/ RecoveryStep \/ \E s \in Stations : BeginRecovery(s)
  <2>1. Locks'
    BY <1>5, AgentStepKeepsLocks DEF Agents
  <2>2. UNCHANGED lockVars
    BY <1>5 DEF RecoveryRound, RecoveryStep, RecoveryRoundEnd, ClearRecovery,
                RecoveryExit, BeginRecovery, sharedVars, lockVars
  <2> QED
    BY <1>2, <2>1, <2>2
<1>6. ASSUME NEW r \in Refreshes,
             \/ BeginRefresh(r) \/ RefreshStep(r) \/ SkipRest(r)
             \/ AbandonRefresh(r)
      PROVE  Locks' /\ readers' \in Nat /\ registered' \in Nat
  <2>1. CASE \E s \in Stations : Dispatch(r, s)
    BY <1>2, <2>1, AgentStepKeepsLocks DEF Dispatch, sharedVars, Agents
  <2> QED
    BY <1>6, <2>1, RefreshLockSteps DEF RefreshStep
<1>7. CASE BeginShutdown \/ Drain \/ UNCHANGED vars
  <2>1. /\ UNCHANGED lockVars /\ UNCHANGED <<pc, op, phase>>
    BY <1>7 DEF BeginShutdown, Drain, DrainStep, vars, sharedVars, agentVars,
                worldVars, statusVars, callVars
  <2>2. Locks'
    BY <1>1, <2>1 DEF Locks, CountsExact, WriterAlone, lockVars, Exclusive,
         SharedAgents, RegisteredAgents, SharedRefreshes, RegisteredRefreshes,
         IsGlobal
  <2> QED
    BY <1>2, <2>1, <2>2
<1> QED
  BY <1>3, <1>4, <1>5, <1>6, <1>7 DEF Next

-----------------------------------------------------------------------------
(* The device map and the slots.                                           *)

\* A step of one agent that is on no station before and after.
LEMMA AgentKeepsDevices ==
  ASSUME DeviceOwnership, NEW a \in Agents,
         \A b \in Agents \ {a} :
           pc'[b] = pc[b] /\ op'[b] = op[b] /\ target'[b] = target[b],
         UNCHANGED deviceVars, a \notin OnStation, a \notin OnStation'
  PROVE  DeviceOwnership'
BY DEF DeviceOwnership, OnStation, deviceVars

\* The steps of a caller other than those on its station.
LEMMA CallerKeepsDevices ==
  ASSUME Inductive, NEW c \in Callers,
         \/ Arrive(c) \/ CallerStep(c) \/ TransitionStep(c) \/ EndWork(c)
         \/ ContextStopped(c) \/ StopWaiting(c)
  PROVE  DeviceOwnership'
<1> USE DEF Go, Quit, Refuse, WaitFor, callVars, IsGlobal, sharedVars, worldVars,
            deviceVars, statusVars, OnStation
<1> c \in Agents /\ TypeOK /\ DeviceOwnership /\ OperationShape
  BY DEF Inductive, Agents
<1> SUFFICES /\ \A b \in Agents \ {c} :
                  pc'[b] = pc[b] /\ op'[b] = op[b] /\ target'[b] = target[b]
             /\ UNCHANGED deviceVars /\ c \notin OnStation /\ c \notin OnStation'
  BY AgentKeepsDevices
<1>1. CASE Arrive(c)
  BY <1>1 DEF Arrive, Begin, FirstStep, TypeOK
<1>2. CASE Enter(c)
  BY <1>2 DEF Enter, TypeOK, OperationShape
<1>3. CASE ContextStopped(c)
  BY <1>3 DEF ContextStopped, TypeOK, OperationShape
<1>4. CASE LockTransition(c)
  BY <1>4 DEF LockTransition, TypeOK, OperationShape
<1>5. CASE MarkShared(c)
  BY <1>5 DEF MarkShared, TypeOK, OperationShape
<1>6. CASE EndShared(c)
  BY <1>6 DEF EndShared, TypeOK, OperationShape
<1>7. CASE EndBulk(c)
  BY <1>7 DEF EndBulk, TypeOK, OperationShape
<1>8. CASE MissedStation(c)
  BY <1>8 DEF MissedStation, TypeOK, OperationShape
<1>9. CASE MissedGlobal(c)
  BY <1>9 DEF MissedGlobal, TypeOK, OperationShape
<1>10. CASE MissedStatus(c)
  BY <1>10 DEF MissedStatus, TypeOK, OperationShape
<1>11. CASE Woken(c)
  BY <1>11 DEF Woken, TypeOK, OperationShape
<1>12. CASE StopWaiting(c)
  BY <1>12 DEF StopWaiting, TypeOK, OperationShape
<1>13. CASE ReserveScan(c)
  BY <1>13 DEF ReserveScan, TypeOK, OperationShape
<1>14. CASE PublishScan(c)
  BY <1>14 DEF PublishScan, TypeOK, OperationShape
<1>15. CASE PrepareScan(c)
  BY <1>15 DEF PrepareScan, TypeOK, OperationShape
<1>16. CASE FinishScan(c)
  BY <1>16 DEF FinishScan, TypeOK, OperationShape
<1>17. CASE AbortScan(c)
  BY <1>17 DEF AbortScan, TypeOK, OperationShape
<1>18. CASE UnpublishScan(c)
  BY <1>18 DEF UnpublishScan, TypeOK, OperationShape
<1>19. CASE LockExclusive(c)
  BY <1>19 DEF LockExclusive, TypeOK, OperationShape
<1>20. CASE MarkGlobal(c)
  BY <1>20 DEF MarkGlobal, EndOperation, Unregister, flagVars, lockVars, TypeOK, OperationShape
<1>21. CASE ReleaseExclusive(c)
  BY <1>21 DEF ReleaseExclusive, EndOperation, TypeOK, OperationShape
<1> QED
  BY <1>1, <1>2, <1>3, <1>4, <1>5, <1>6, <1>7, <1>8, <1>9, <1>10,
     <1>11, <1>12, <1>13, <1>14, <1>15, <1>16, <1>17, <1>18, <1>19, <1>20,
     <1>21 DEF CallerStep,
     TransitionStep, EndWork

\* The registration and the lock on the way to a station, and behind it.
LEMMA AgentStepKeepsDevices ==
  ASSUME Inductive, NEW a \in Agents,
         \/ Register(a) \/ LockShared(a) \/ ReleaseShared(a)
         \/ pc[a] = "device" /\ (DeviceBusy(a) \/ SlotsBusy(a))
         \/ a = Recovery /\ (RecoveryRound \/ RecoveryStep)
         \/ a = Recovery /\ \E s \in Stations : BeginRecovery(s)
         \/ a \in Refreshes /\ \E s \in Stations : Dispatch(a, s)
  PROVE  DeviceOwnership'
<1> USE DEF Go, Quit, Refuse, WaitFor, callVars, IsGlobal, sharedVars, worldVars,
            deviceVars, statusVars, OnStation
<1> TypeOK /\ DeviceOwnership /\ OperationShape /\ Recovery \in Agents
  BY DEF Inductive, Agents
<1> SUFFICES /\ \A b \in Agents \ {a} :
                  pc'[b] = pc[b] /\ op'[b] = op[b] /\ target'[b] = target[b]
             /\ UNCHANGED deviceVars /\ a \notin OnStation /\ a \notin OnStation'
  BY AgentKeepsDevices
<1>1. CASE Register(a)
  BY <1>1 DEF Register, TypeOK
<1>2. CASE LockShared(a)
  BY <1>2 DEF LockShared, TypeOK
<1>3. CASE ReleaseShared(a)
  BY <1>3 DEF ReleaseShared, TypeOK
<1>4. CASE pc[a] = "device" /\ DeviceBusy(a)
  BY <1>4 DEF DeviceBusy, TypeOK
<1>5. CASE pc[a] = "device" /\ SlotsBusy(a)
  BY <1>5 DEF SlotsBusy, TypeOK
<1>6. CASE a = Recovery /\ (RecoveryRound \/ RecoveryStep)
  BY <1>6 DEF RecoveryRound, RecoveryStep, RecoveryRoundEnd, ClearRecovery,
              RecoveryExit, TypeOK
<1>7. CASE a = Recovery /\ \E s \in Stations : BeginRecovery(s)
  BY <1>7 DEF BeginRecovery, TypeOK
<1>8. CASE a \in Refreshes /\ \E s \in Stations : Dispatch(a, s)
  BY <1>8 DEF Dispatch, TypeOK
<1> QED
  BY <1>1, <1>2, <1>3, <1>4, <1>5, <1>6, <1>7, <1>8

Held == {s \in Stations : active[s] # None}

\* A station is taken.
LEMMA TakeDeviceStep ==
  ASSUME Inductive, NEW a \in Agents, pc[a] = "device", TakeDevice(a)
  PROVE  DeviceOwnership' /\ slots' \in Nat
<1> DEFINE s == target[a]
<1>1. TypeOK /\ DeviceOwnership /\ OperationShape
  BY DEF Inductive
<1>2. s \in Stations /\ active[s] = None /\ a # None
      /\ op[a] \in {"station", "status", "recovery"}
  BY <1>1, CoordinatorAssumption DEF TakeDevice, OperationShape
<1>3. Held' \ {s} = Held \ {s} /\ s \notin Held /\ s \in Held'
  BY <1>1, <1>2 DEF TakeDevice, Held, TypeOK
<1>4. IsFiniteSet(Held)
  BY FiniteAgents, FS_Subset DEF Held
<1>5. Cardinality(Held') = Cardinality(Held) + 1
  BY <1>3, <1>4, CardinalityStep DEF In
<1>6. /\ slots' \in Nat /\ slots' = Cardinality(Held') /\ slots' <= GattSlots
  BY <1>1, <1>5, CoordinatorAssumption
     DEF TakeDevice, DeviceOwnership, TypeOK, Held
<1>7. /\ OnStation' = OnStation \cup {a} /\ target' = target
      /\ a \notin OnStation
  BY <1>1, <1>2 DEF TakeDevice, Go, callVars, OnStation, TypeOK
<1>8. ASSUME NEW t \in Stations, NEW b \in Agents
      PROVE  active'[t] = b <=> b \in OnStation' /\ target'[b] = t
  BY <1>1, <1>2, <1>7, CoordinatorAssumption
     DEF TakeDevice, DeviceOwnership, TypeOK
<1> QED
  BY <1>6, <1>8 DEF DeviceOwnership, Held

\* A station is given back.
LEMMA EndDeviceStep ==
  ASSUME Inductive, NEW a \in Agents, EndDevice(a)
  PROVE  DeviceOwnership' /\ slots' \in Nat
<1> DEFINE s == target[a]
<1>1. TypeOK /\ DeviceOwnership /\ OperationShape
  BY DEF Inductive
<1>2. s \in Stations /\ active[s] = a /\ a # None
  BY <1>1, CoordinatorAssumption
     DEF EndDevice, OperationShape, DeviceOwnership, OnStation
<1>3. Held' \ {s} = Held \ {s} /\ s \in Held /\ s \notin Held'
  BY <1>1, <1>2 DEF EndDevice, Held, TypeOK
<1>4. IsFiniteSet(Held)
  BY FiniteAgents, FS_Subset DEF Held
<1>5. Cardinality(Held') + 1 = Cardinality(Held) /\ Cardinality(Held') \in Nat
  BY <1>3, <1>4, CardinalityStep DEF In
<1>6. /\ slots' \in Nat /\ slots' = Cardinality(Held') /\ slots' <= GattSlots
  BY <1>1, <1>5, CoordinatorAssumption
     DEF EndDevice, DeviceOwnership, TypeOK, Held
<1>7. OnStation' = OnStation \ {a} /\ target' = target
  BY <1>1, <1>2 DEF EndDevice, Go, callVars, OnStation, TypeOK
<1>8. ASSUME NEW t \in Stations, NEW b \in Agents
      PROVE  active'[t] = b <=> b \in OnStation' /\ target'[b] = t
  BY <1>1, <1>2, <1>7, CoordinatorAssumption
     DEF EndDevice, DeviceOwnership, TypeOK
<1> QED
  BY <1>6, <1>8 DEF DeviceOwnership, Held

\* The device map survives every step.
LEMMA DevicesStep ==
  ASSUME Inductive, [Next]_vars
  PROVE  DeviceOwnership' /\ slots' \in Nat
<1>1. TypeOK /\ DeviceOwnership
  BY DEF Inductive
<1>2. ASSUME DeviceOwnership'
      PROVE  slots' \in Nat
  <2>1. IsFiniteSet(Held')
    BY FiniteAgents, FS_Subset DEF Held
  <2> QED
    BY <1>2, <2>1, FS_CardinalityType DEF DeviceOwnership, Held
<1> SUFFICES DeviceOwnership'
  BY <1>2
<1>3. ASSUME NEW c \in Callers,
             \/ Arrive(c) \/ CallerStep(c) \/ TransitionStep(c) \/ EndWork(c)
             \/ ContextStopped(c) \/ StopWaiting(c)
      PROVE  DeviceOwnership'
  BY <1>3, CallerKeepsDevices
<1>4. ASSUME NEW a \in Agents, AgentStep(a) \/ EndDevice(a)
      PROVE  DeviceOwnership'
  BY <1>4, AgentStepKeepsDevices, TakeDeviceStep, EndDeviceStep
     DEF AgentStep, BeginDevice
<1>5. CASE RecoveryRound \/ RecoveryStep \/ \E s \in Stations : BeginRecovery(s)
  <2>1. Recovery \in Agents
    BY DEF Agents
  <2>2. CASE RecoveryRound \/ RecoveryStep
    BY <2>1, <2>2, AgentStepKeepsDevices
  <2>3. CASE \E s \in Stations : BeginRecovery(s)
    BY <2>1, <2>3, AgentStepKeepsDevices
  <2> QED
    BY <1>5, <2>2, <2>3
<1>6. ASSUME NEW r \in Refreshes,
             \/ BeginRefresh(r) \/ RefreshStep(r) \/ SkipRest(r)
             \/ AbandonRefresh(r)
      PROVE  DeviceOwnership'
  <2>1. CASE \E s \in Stations : Dispatch(r, s)
    BY <2>1, AgentStepKeepsDevices DEF Agents
  <2>2. ASSUME ~\E s \in Stations : Dispatch(r, s)
        PROVE  UNCHANGED <<pc, op, target, active, slots>>
    BY <1>6, <2>2 DEF BeginRefresh, RefreshStep, SkipRest, AbandonRefresh,
         RegisterRefresh, LockRefresh, JoinRefresh, EndRefresh, EndAbandoned,
         agentVars, callVars, sharedVars, deviceVars
  <2> QED
    BY <1>1, <2>1, <2>2 DEF DeviceOwnership, OnStation
<1>7. CASE BeginShutdown \/ Drain \/ UNCHANGED vars
  <2>1. UNCHANGED <<pc, op, target, active, slots>>
    BY <1>7 DEF BeginShutdown, Drain, DrainStep, vars, sharedVars, agentVars,
                callVars, deviceVars
  <2> QED
    BY <1>1, <2>1 DEF DeviceOwnership, OnStation
<1> QED
  BY <1>3, <1>4, <1>5, <1>6, <1>7 DEF Next

-----------------------------------------------------------------------------
(* The configuration writes counted in foregroundSharedActive.             *)

\* A step of one agent that does not start or end one.
LEMMA AgentKeepsFlag ==
  ASSUME SharedFlagExact, NEW a \in Agents,
         \A b \in Agents \ {a} : pc'[b] = pc[b] /\ op'[b] = op[b],
         foregroundSharedActive' = foregroundSharedActive,
         a \in Writing' <=> a \in Writing
  PROVE  SharedFlagExact'
<1>1. Writing' = Writing
  BY DEF Writing, Admitted, Agents
<1> QED
  BY <1>1 DEF SharedFlagExact

\* The flag survives every step of a caller, the station work included.
LEMMA CallerFlagStep ==
  ASSUME Inductive, NEW c \in Callers,
         \/ Arrive(c) \/ CallerStep(c) \/ TransitionStep(c) \/ EndWork(c)
         \/ ContextStopped(c) \/ StopWaiting(c) \/ AgentStep(c) \/ EndDevice(c)
  PROVE  SharedFlagExact' /\ foregroundSharedActive' \in Nat
<1> USE DEF Go, Quit, Refuse, WaitFor, callVars, IsGlobal, sharedVars,
            flagVars, Writing, Admitted
<1>1. c \in Agents /\ TypeOK /\ SharedFlagExact /\ OperationShape
  BY DEF Inductive, Agents
<1>2. CASE MarkShared(c) \/ EndShared(c)
  <2>1. /\ Writing' \ {c} = Writing \ {c}
        /\ foregroundSharedActive' \in Int
        /\ foregroundSharedActive' + In(c, Writing)
             = foregroundSharedActive + In(c, Writing')
    <3>1. CASE MarkShared(c)
      BY <1>1, <3>1 DEF MarkShared, TypeOK, In
    <3>2. CASE EndShared(c)
      BY <1>1, <3>2 DEF EndShared, TypeOK, In
    <3> QED
      BY <1>2, <3>1, <3>2
  <2>2. IsFiniteSet(Writing)
    BY FiniteAgents, FS_Subset
  <2>3. /\ Cardinality(Writing) \in Nat /\ Cardinality(Writing') \in Nat
        /\ Cardinality(Writing') + In(c, Writing)
             = Cardinality(Writing) + In(c, Writing')
    BY <2>1, <2>2, CardinalityStep
  <2>4. In(c, Writing) \in Int /\ In(c, Writing') \in Int
    BY DEF In
  <2>5. foregroundSharedActive' = Cardinality(Writing')
    <3> HIDE DEF Writing
    <3> QED
      BY <1>1, <2>1, <2>3, <2>4 DEF SharedFlagExact
  <2> QED
    BY <2>3, <2>5 DEF SharedFlagExact
<1>3. ASSUME ~(MarkShared(c) \/ EndShared(c))
      PROVE  /\ \A b \in Agents \ {c} : pc'[b] = pc[b] /\ op'[b] = op[b]
             /\ foregroundSharedActive' = foregroundSharedActive
             /\ c \in Writing' <=> c \in Writing
  <2> USE <1>1
  <2>1. CASE Arrive(c)
    BY <2>1 DEF Arrive, Begin, FirstStep, TypeOK
  <2>2. CASE Enter(c)
    BY <2>2 DEF Enter, TypeOK, OperationShape
  <2>3. CASE ContextStopped(c)
    BY <2>3 DEF ContextStopped, TypeOK, OperationShape
  <2>4. CASE LockTransition(c)
    BY <2>4 DEF LockTransition, TypeOK, OperationShape
  <2>5. CASE EndBulk(c)
    BY <2>5 DEF EndBulk, TypeOK, OperationShape
  <2>6. CASE MissedStation(c)
    BY <2>6 DEF MissedStation, TypeOK, OperationShape
  <2>7. CASE MissedGlobal(c)
    BY <2>7 DEF MissedGlobal, TypeOK, OperationShape
  <2>8. CASE MissedStatus(c)
    BY <2>8 DEF MissedStatus, TypeOK, OperationShape
  <2>9. CASE Woken(c)
    BY <2>9 DEF Woken, TypeOK, OperationShape
  <2>10. CASE StopWaiting(c)
    BY <2>10 DEF StopWaiting, TypeOK, OperationShape
  <2>11. CASE ReserveScan(c)
    BY <2>11 DEF ReserveScan, TypeOK, OperationShape
  <2>12. CASE PublishScan(c)
    BY <2>12 DEF PublishScan, TypeOK, OperationShape
  <2>13. CASE PrepareScan(c)
    BY <2>13 DEF PrepareScan, TypeOK, OperationShape
  <2>14. CASE FinishScan(c)
    BY <2>14 DEF FinishScan, TypeOK, OperationShape
  <2>15. CASE AbortScan(c)
    BY <2>15 DEF AbortScan, TypeOK, OperationShape
  <2>16. CASE UnpublishScan(c)
    BY <2>16 DEF UnpublishScan, TypeOK, OperationShape
  <2>17. CASE LockExclusive(c)
    BY <2>17 DEF LockExclusive, TypeOK, OperationShape
  <2>18. CASE MarkGlobal(c)
    BY <2>18 DEF MarkGlobal, EndOperation, TypeOK, OperationShape
  <2>19. CASE ReleaseExclusive(c)
    BY <2>19 DEF ReleaseExclusive, EndOperation, TypeOK, OperationShape
  <2>20. CASE Register(c)
    BY <2>20 DEF Register, TypeOK, OperationShape
  <2>21. CASE LockShared(c)
    BY <2>21 DEF LockShared, TypeOK, OperationShape
  <2>22. CASE ReleaseShared(c)
    BY <2>22 DEF ReleaseShared, TypeOK, OperationShape
  <2>23. CASE EndDevice(c)
    BY <2>23 DEF EndDevice, TypeOK, OperationShape
  <2>24. CASE BeginDevice(c)
    BY <2>24 DEF BeginDevice, DeviceBusy, SlotsBusy, TakeDevice, TypeOK,
         OperationShape
  <2> QED
    BY <1>3, <2>1, <2>2, <2>3, <2>4, <2>5, <2>6, <2>7, <2>8, <2>9, <2>10,
       <2>11, <2>12, <2>13, <2>14, <2>15, <2>16, <2>17, <2>18, <2>19, <2>20,
       <2>21, <2>22, <2>23, <2>24
       DEF CallerStep, TransitionStep, EndWork, AgentStep
<1> QED
  BY <1>1, <1>2, <1>3, AgentKeepsFlag DEF TypeOK

\* The flag survives every step.
LEMMA FlagStep ==
  ASSUME Inductive, [Next]_vars
  PROVE  SharedFlagExact' /\ foregroundSharedActive' \in Nat
<1>1. TypeOK /\ SharedFlagExact
  BY DEF Inductive
<1>2. ASSUME foregroundSharedActive' = foregroundSharedActive,
             \A c \in Callers : pc'[c] = pc[c] /\ op'[c] = op[c]
      PROVE  SharedFlagExact' /\ foregroundSharedActive' \in Nat
  BY <1>1, <1>2 DEF SharedFlagExact, Writing, Admitted, TypeOK
<1>3. ASSUME NEW c \in Callers,
             \/ Arrive(c) \/ CallerStep(c) \/ TransitionStep(c) \/ EndWork(c)
             \/ ContextStopped(c) \/ StopWaiting(c) \/ AgentStep(c) \/ EndDevice(c)
      PROVE  SharedFlagExact' /\ foregroundSharedActive' \in Nat
  BY <1>3, CallerFlagStep
<1>4. ASSUME NEW a \in Agents \ Callers, AgentStep(a) \/ EndDevice(a)
      PROVE  SharedFlagExact' /\ foregroundSharedActive' \in Nat
  <2> USE DEF Go, Quit, Refuse, WaitFor, callVars, flagVars, Agents
  <2>1. /\ foregroundSharedActive' = foregroundSharedActive
        /\ \A c \in Callers : pc'[c] = pc[c] /\ op'[c] = op[c]
    <3>1. CASE Register(a)
      BY <1>1, <3>1 DEF Register, TypeOK
    <3>2. CASE LockShared(a)
      BY <1>1, <3>2 DEF LockShared, TypeOK
    <3>3. CASE BeginDevice(a)
      BY <1>1, <3>3 DEF BeginDevice, DeviceBusy, SlotsBusy, TakeDevice, TypeOK
    <3>4. CASE ReleaseShared(a)
      BY <1>1, <3>4 DEF ReleaseShared, TypeOK
    <3>5. CASE EndDevice(a)
      BY <1>1, <3>5 DEF EndDevice, TypeOK
    <3> QED
      BY <1>4, <3>1, <3>2, <3>3, <3>4, <3>5 DEF AgentStep
  <2> QED
    BY <1>2, <2>1
<1>5. CASE RecoveryRound \/ RecoveryStep \/ \E s \in Stations : BeginRecovery(s)
  <2>1. /\ foregroundSharedActive' = foregroundSharedActive
        /\ \A c \in Callers : pc'[c] = pc[c] /\ op'[c] = op[c]
    BY <1>1, <1>5, CoordinatorAssumption
       DEF RecoveryRound, RecoveryStep, RecoveryRoundEnd, ClearRecovery,
           RecoveryExit, BeginRecovery, TypeOK, Go, callVars, sharedVars,
           flagVars, Agents
  <2> QED
    BY <1>2, <2>1
<1>6. ASSUME NEW r \in Refreshes,
             \/ BeginRefresh(r) \/ RefreshStep(r) \/ SkipRest(r)
             \/ AbandonRefresh(r)
      PROVE  SharedFlagExact' /\ foregroundSharedActive' \in Nat
  <2>1. /\ foregroundSharedActive' = foregroundSharedActive
        /\ \A c \in Callers : pc'[c] = pc[c] /\ op'[c] = op[c]
    BY <1>1, <1>6, CoordinatorAssumption
       DEF BeginRefresh, RefreshStep, SkipRest, AbandonRefresh,
           RegisterRefresh, LockRefresh, Dispatch, JoinRefresh, EndRefresh,
           EndAbandoned, agentVars, callVars, sharedVars, flagVars, TypeOK,
           Agents
  <2> QED
    BY <1>2, <2>1
<1>7. CASE BeginShutdown \/ Drain \/ UNCHANGED vars
  <2>1. UNCHANGED <<foregroundSharedActive, pc, op>>
    BY <1>7 DEF BeginShutdown, Drain, DrainStep, vars, sharedVars, agentVars,
                callVars, flagVars
  <2> QED
    BY <1>2, <2>1
<1> QED
  BY <1>3, <1>4, <1>5, <1>6, <1>7 DEF Next

-----------------------------------------------------------------------------
(* An agent's operation and its step fit.                                  *)

\* The conjuncts of OperationShape that are about one agent.
ShapeOf(a) ==
  /\ a \in Refreshes => op[a] = "status"
  /\ a = Recovery => op[a] = "recovery"
  /\ a \in Callers => op[a] \in {"none"} \cup Requests
  /\ op[a] = "none" => pc[a] = "idle"
  /\ pc[a] = "mark" => op[a] \in {"shared", "bulk", "scan"}
  /\ pc[a] = "device" => op[a] \in {"station", "status", "recovery"}
  /\ pc[a] \in {"ready", "finish"} => op[a] = "scan"
  /\ op[a] = "station" => target[a] \in Stations
  /\ /\ op[a] \in {"status", "recovery"}
     /\ pc[a] \in {"register", "lock", "device", "holding"}
    => target[a] \in Stations

\* Of the others' a step says nothing.
LEMMA AgentShapeStep ==
  ASSUME OperationShape, NEW a \in Agents, ShapeOf(a)',
         \A b \in Agents \ {a} :
           pc'[b] = pc[b] /\ op'[b] = op[b] /\ target'[b] = target[b]
  PROVE  OperationShape'
BY DEF OperationShape, ShapeOf, Agents

\* The steps of a caller.
LEMMA CallerShapeStep ==
  ASSUME Inductive, NEW c \in Callers,
         \/ Arrive(c) \/ CallerStep(c) \/ TransitionStep(c) \/ EndWork(c)
         \/ ContextStopped(c) \/ StopWaiting(c)
  PROVE  OperationShape'
<1> USE DEF Go, Quit, Refuse, WaitFor, callVars, IsGlobal, ShapeOf
<1> c \in Agents /\ TypeOK /\ OperationShape /\ ShapeOf(c)
    /\ c \notin Refreshes /\ c # Recovery
    /\ op[c] \notin {"status", "recovery"}
  BY CoordinatorAssumption DEF Inductive, Agents, OperationShape
<1> SUFFICES /\ ShapeOf(c)'
             /\ \A b \in Agents \ {c} :
                  pc'[b] = pc[b] /\ op'[b] = op[b] /\ target'[b] = target[b]
  BY AgentShapeStep
<1>1. CASE Arrive(c)
  BY <1>1, CoordinatorAssumption DEF Arrive, Begin, FirstStep, Kinds, TypeOK
<1>2. CASE Enter(c)
  BY <1>2 DEF Enter, TypeOK
<1>3. CASE ContextStopped(c)
  BY <1>3 DEF ContextStopped, TypeOK
<1>4. CASE LockTransition(c)
  BY <1>4 DEF LockTransition, TypeOK
<1>5. CASE MarkShared(c)
  BY <1>5 DEF MarkShared, TypeOK
<1>6. CASE EndShared(c)
  BY <1>6 DEF EndShared, TypeOK
<1>7. CASE EndBulk(c)
  BY <1>7 DEF EndBulk, TypeOK
<1>8. CASE MissedStation(c)
  BY <1>8 DEF MissedStation, TypeOK
<1>9. CASE MissedGlobal(c)
  BY <1>9 DEF MissedGlobal, TypeOK
<1>10. CASE MissedStatus(c)
  BY <1>10 DEF MissedStatus, TypeOK
<1>11. CASE Woken(c)
  BY <1>11 DEF Woken, TypeOK
<1>12. CASE StopWaiting(c)
  BY <1>12 DEF StopWaiting, TypeOK
<1>13. CASE ReserveScan(c)
  BY <1>13 DEF ReserveScan, TypeOK
<1>14. CASE PublishScan(c)
  BY <1>14 DEF PublishScan, TypeOK
<1>15. CASE PrepareScan(c)
  BY <1>15 DEF PrepareScan, TypeOK
<1>16. CASE FinishScan(c)
  BY <1>16 DEF FinishScan, TypeOK
<1>17. CASE AbortScan(c)
  BY <1>17 DEF AbortScan, TypeOK
<1>18. CASE UnpublishScan(c)
  BY <1>18 DEF UnpublishScan, TypeOK
<1>19. CASE LockExclusive(c)
  BY <1>19 DEF LockExclusive, TypeOK
<1>20. CASE MarkGlobal(c)
  BY <1>20 DEF MarkGlobal, EndOperation, TypeOK
<1>21. CASE ReleaseExclusive(c)
  BY <1>21 DEF ReleaseExclusive, EndOperation, TypeOK
<1> QED
  BY <1>1, <1>2, <1>3, <1>4, <1>5, <1>6, <1>7, <1>8, <1>9, <1>10,
     <1>11, <1>12, <1>13, <1>14, <1>15, <1>16, <1>17, <1>18, <1>19, <1>20,
     <1>21 DEF CallerStep, TransitionStep, EndWork

\* The steps a worker or the recovery loop takes, too.
LEMMA AgentStepShapeStep ==
  ASSUME Inductive, NEW a \in Agents,
         \/ AgentStep(a) \/ EndDevice(a)
         \/ a = Recovery /\ (RecoveryRound \/ RecoveryStep)
         \/ a = Recovery /\ \E s \in Stations : BeginRecovery(s)
         \/ a \in Refreshes /\ \E s \in Stations : Dispatch(a, s)
  PROVE  OperationShape'
<1> USE DEF Go, Quit, Refuse, WaitFor, callVars, IsGlobal, ShapeOf
<1> /\ TypeOK /\ OperationShape /\ ShapeOf(a)
    /\ \/ a \in Callers /\ a \notin Refreshes /\ a # Recovery
          /\ op[a] \notin {"status", "recovery"}
       \/ a \in Refreshes /\ a \notin Callers /\ a # Recovery
       \/ a = Recovery /\ a \notin Callers /\ a \notin Refreshes
  BY CoordinatorAssumption DEF Inductive, Agents, OperationShape
<1> SUFFICES /\ ShapeOf(a)'
             /\ \A b \in Agents \ {a} :
                  pc'[b] = pc[b] /\ op'[b] = op[b] /\ target'[b] = target[b]
  BY AgentShapeStep
<1>1. CASE Register(a)
  BY <1>1 DEF Register, TypeOK
<1>2. CASE LockShared(a)
  <2>1. op[a] \in {"station", "shared", "status", "recovery"}
    BY <1>2, CoordinatorAssumption DEF LockShared, Agents
  <2>2. CASE op[a] = "station"
    BY <1>2, <2>2 DEF LockShared, TypeOK
  <2>3. CASE op[a] = "shared"
    BY <1>2, <2>3 DEF LockShared, TypeOK
  <2>4. CASE op[a] \in {"status", "recovery"}
    BY <1>2, <2>4 DEF LockShared, TypeOK
  <2> QED
    BY <2>1, <2>2, <2>3, <2>4
<1>3. CASE BeginDevice(a)
  <2>1. CASE DeviceBusy(a)
    BY <1>3, <2>1 DEF BeginDevice, DeviceBusy, TypeOK
  <2>2. CASE SlotsBusy(a)
    BY <1>3, <2>2 DEF BeginDevice, SlotsBusy, TypeOK
  <2>3. CASE TakeDevice(a)
    BY <1>3, <2>3 DEF BeginDevice, TakeDevice, TypeOK
  <2> QED
    BY <1>3, <2>1, <2>2, <2>3 DEF BeginDevice
<1>4. CASE ReleaseShared(a)
  BY <1>4 DEF ReleaseShared, TypeOK
<1>5. CASE EndDevice(a)
  BY <1>5 DEF EndDevice, TypeOK
<1>6. CASE a = Recovery /\ (RecoveryRound \/ RecoveryStep)
  BY <1>6 DEF RecoveryRound, RecoveryStep, RecoveryRoundEnd, ClearRecovery,
              RecoveryExit, TypeOK
<1>7. CASE a = Recovery /\ \E s \in Stations : BeginRecovery(s)
  BY <1>7 DEF BeginRecovery, TypeOK
<1>8. CASE a \in Refreshes /\ \E s \in Stations : Dispatch(a, s)
  BY <1>8 DEF Dispatch, TypeOK
<1> QED
  BY <1>1, <1>2, <1>3, <1>4, <1>5, <1>6, <1>7, <1>8 DEF AgentStep

\* The shapes survive every step.
LEMMA ShapeStep ==
  ASSUME Inductive, [Next]_vars
  PROVE  OperationShape'
<1>1. OperationShape /\ Recovery \in Agents
  BY DEF Inductive, Agents
<1>2. ASSUME NEW c \in Callers,
             \/ Arrive(c) \/ CallerStep(c) \/ TransitionStep(c) \/ EndWork(c)
             \/ ContextStopped(c) \/ StopWaiting(c)
      PROVE  OperationShape'
  BY <1>2, CallerShapeStep
<1>3. ASSUME NEW a \in Agents, AgentStep(a) \/ EndDevice(a)
      PROVE  OperationShape'
  BY <1>3, AgentStepShapeStep
<1>4. CASE RecoveryRound \/ RecoveryStep \/ \E s \in Stations : BeginRecovery(s)
  <2>1. CASE RecoveryRound \/ RecoveryStep
    BY <1>1, <2>1, AgentStepShapeStep
  <2>2. CASE \E s \in Stations : BeginRecovery(s)
    BY <1>1, <2>2, AgentStepShapeStep
  <2> QED
    BY <1>4, <2>1, <2>2
<1>5. ASSUME NEW r \in Refreshes,
             \/ BeginRefresh(r) \/ RefreshStep(r) \/ SkipRest(r)
             \/ AbandonRefresh(r)
      PROVE  OperationShape'
  <2>1. CASE \E s \in Stations : Dispatch(r, s)
    BY <2>1, AgentStepShapeStep DEF Agents
  <2>2. ASSUME ~\E s \in Stations : Dispatch(r, s)
        PROVE  UNCHANGED <<pc, op, target>>
    BY <1>5, <2>2 DEF BeginRefresh, RefreshStep, SkipRest, AbandonRefresh,
         RegisterRefresh, LockRefresh, JoinRefresh, EndRefresh, EndAbandoned,
         agentVars, callVars
  <2> QED
    BY <1>1, <2>1, <2>2 DEF OperationShape
<1>6. CASE BeginShutdown \/ Drain \/ UNCHANGED vars
  <2>1. UNCHANGED <<pc, op, target>>
    BY <1>6 DEF BeginShutdown, Drain, DrainStep, vars, agentVars, callVars
  <2> QED
    BY <1>1, <2>1 DEF OperationShape
<1> QED
  BY <1>2, <1>3, <1>4, <1>5, <1>6 DEF Next

-----------------------------------------------------------------------------
(* Types.  The counters that are decremented come from the lemmas above.   *)

CountersOK ==
  /\ readers \in Nat /\ registered \in Nat /\ slots \in Nat
  /\ foregroundSharedActive \in Nat

\* A caller's step.
LEMMA CallerTypeStep ==
  ASSUME Inductive, CountersOK', NEW c \in Callers,
         \/ Arrive(c) \/ CallerStep(c) \/ TransitionStep(c) \/ EndWork(c)
         \/ ContextStopped(c) \/ StopWaiting(c)
  PROVE  TypeOK'
<1> USE DEF TypeOK, Steps, Kinds, Go, Quit, Refuse, WaitFor, UnlockTransition,
            EndOperation, Unregister, CountersOK, callVars, lockVars, flagVars,
            scanVars, deviceVars, statusVars, lifeVars, agentVars, sharedVars,
            worldVars
<1> TypeOK /\ c \in Agents
  BY DEF Inductive, Agents
<1>1. CASE Arrive(c)
  BY <1>1, CoordinatorAssumption DEF Arrive, Begin, FirstStep
<1>2. CASE Enter(c)
  BY <1>2 DEF Enter
<1>3. CASE ContextStopped(c)
  BY <1>3 DEF ContextStopped
<1>4. CASE LockTransition(c)
  BY <1>4 DEF LockTransition
<1>5. CASE MarkShared(c)
  BY <1>5 DEF MarkShared
<1>6. CASE EndShared(c)
  BY <1>6 DEF EndShared
<1>7. CASE EndBulk(c)
  BY <1>7 DEF EndBulk
<1>8. CASE MissedStation(c)
  BY <1>8 DEF MissedStation
<1>9. CASE MissedGlobal(c)
  BY <1>9 DEF MissedGlobal
<1>10. CASE MissedStatus(c)
  BY <1>10 DEF MissedStatus
<1>11. CASE Woken(c)
  BY <1>11 DEF Woken
<1>12. CASE StopWaiting(c)
  BY <1>12 DEF StopWaiting
<1>13. CASE ReserveScan(c)
  BY <1>13 DEF ReserveScan
<1>14. CASE PublishScan(c)
  BY <1>14 DEF PublishScan
<1>15. CASE PrepareScan(c)
  BY <1>15 DEF PrepareScan
<1>16. CASE FinishScan(c)
  BY <1>16 DEF FinishScan
<1>17. CASE AbortScan(c)
  BY <1>17 DEF AbortScan
<1>18. CASE UnpublishScan(c)
  BY <1>18 DEF UnpublishScan
<1>19. CASE LockExclusive(c)
  BY <1>19, ZenonT(40) DEF LockExclusive
<1>20. CASE MarkGlobal(c)
  BY <1>20, ZenonT(40) DEF MarkGlobal
<1>21. CASE ReleaseExclusive(c)
  BY <1>21 DEF ReleaseExclusive
<1> QED
  BY <1>1, <1>2, <1>3, <1>4, <1>5, <1>6, <1>7, <1>8, <1>9, <1>10,
     <1>11, <1>12, <1>13, <1>14, <1>15, <1>16, <1>17, <1>18, <1>19, <1>20,
     <1>21 DEF CallerStep, TransitionStep, EndWork

\* A step of any agent on the way to its station, and back.
LEMMA AgentTypeStep ==
  ASSUME Inductive, CountersOK', NEW a \in Agents, AgentStep(a) \/ EndDevice(a)
  PROVE  TypeOK'
<1> USE DEF TypeOK, Steps, Kinds, Go, Quit, Refuse, WaitFor, UnlockTransition,
            Close, Unregister, CountersOK, callVars, lockVars, flagVars,
            scanVars, deviceVars, statusVars, lifeVars, agentVars, sharedVars,
            worldVars
<1> TypeOK /\ OperationShape
  BY DEF Inductive
<1>1. CASE Register(a)
  BY <1>1 DEF Register
<1>2. CASE LockShared(a)
  BY <1>2 DEF LockShared
<1>3. CASE ReleaseShared(a)
  BY <1>3 DEF ReleaseShared
<1>4. CASE EndDevice(a)
  BY <1>4 DEF EndDevice
<1>5. CASE pc[a] = "device" /\ BeginDevice(a)
  <2>1. target[a] \in Stations
    BY <1>5 DEF OperationShape
  <2>2. CASE DeviceBusy(a)
    BY <1>5, <2>1, <2>2 DEF BeginDevice, DeviceBusy
  <2>3. CASE SlotsBusy(a)
    BY <1>5, <2>3 DEF BeginDevice, SlotsBusy
  <2>4. CASE TakeDevice(a)
    BY <1>5, <2>1, <2>4 DEF BeginDevice, TakeDevice
  <2> QED
    BY <1>5, <2>2, <2>3, <2>4 DEF BeginDevice
<1> QED
  BY <1>1, <1>2, <1>3, <1>4, <1>5 DEF AgentStep, BeginDevice

\* A step of the recovery loop, a refresh or the shutdown.
LEMMA BackgroundTypeStep ==
  ASSUME Inductive, CountersOK',
         \/ RecoveryRound \/ RecoveryStep \/ \E s \in Stations : BeginRecovery(s)
         \/ \E r \in Refreshes : \/ BeginRefresh(r) \/ RefreshStep(r)
                                 \/ SkipRest(r) \/ AbandonRefresh(r)
         \/ BeginShutdown \/ Drain
  PROVE  TypeOK'
<1> USE DEF TypeOK, Steps, Phases, DrainSteps, Go, Close, BumpGeneration, Phase,
            Unregister, CountersOK, callVars, lockVars, flagVars, scanVars,
            deviceVars, statusVars, lifeVars, agentVars, sharedVars, worldVars
<1> TypeOK /\ Recovery \in Agents
  BY DEF Inductive, Agents
<1>1. CASE RecoveryRound \/ RecoveryStep
  <2>1. CASE RecoveryRound
    BY <2>1 DEF RecoveryRound
  <2>2. CASE RecoveryRoundEnd
    BY <2>2 DEF RecoveryRoundEnd
  <2>3. CASE ClearRecovery
    <3>1. pc' \in [Agents -> Steps]
      BY <2>3 DEF ClearRecovery
    <3>2. /\ target' \in [Agents -> Stations \cup {None}]
          /\ waitOn' \in [Callers -> Stations \cup Refreshes \cup {Recovery, None}]
          /\ stale' \subseteq Callers
          /\ cancelled' \subseteq Refreshes \cup {Recovery}
          /\ recoveryDone' \in BOOLEAN
      BY <2>3 DEF ClearRecovery
    <3> QED
      BY <2>3, <3>1, <3>2 DEF ClearRecovery
  <2>4. CASE RecoveryExit
    BY <2>4 DEF RecoveryExit
  <2> QED
    BY <1>1, <2>1, <2>2, <2>3, <2>4 DEF RecoveryStep
<1>2. CASE \E s \in Stations : BeginRecovery(s)
  BY <1>2 DEF BeginRecovery
<1>3. ASSUME NEW r \in Refreshes,
             \/ BeginRefresh(r) \/ RefreshStep(r) \/ SkipRest(r)
             \/ AbandonRefresh(r)
      PROVE  TypeOK'
  <2>0. r \in Agents
    BY DEF Agents
  <2>1. CASE BeginRefresh(r)
    BY <2>1 DEF BeginRefresh
  <2>2. CASE RegisterRefresh(r)
    BY <2>2 DEF RegisterRefresh
  <2>3. CASE SkipRest(r)
    BY <2>3 DEF SkipRest
  <2>4. CASE JoinRefresh(r)
    BY <2>4 DEF JoinRefresh
  <2>5. CASE EndRefresh(r)
    BY <2>5 DEF EndRefresh
  <2>6. CASE AbandonRefresh(r)
    BY <2>6 DEF AbandonRefresh
  <2>7. CASE EndAbandoned(r)
    BY <2>7 DEF EndAbandoned
  <2>8. CASE \E candidates \in SUBSET Stations : LockRefresh(r, candidates)
    BY <2>8 DEF LockRefresh
  <2>9. CASE \E s \in Stations : Dispatch(r, s)
    BY <2>0, <2>9 DEF Dispatch
  <2> QED
    BY <1>3, <2>1, <2>2, <2>3, <2>4, <2>5, <2>6, <2>7, <2>8, <2>9 DEF RefreshStep
<1>4. CASE BeginShutdown
  BY <1>4 DEF BeginShutdown
<1>5. CASE Drain
  BY <1>5 DEF Drain, DrainStep
<1> QED
  BY <1>1, <1>2, <1>3, <1>4, <1>5

\* Types survive every step.
LEMMA TypeStep ==
  ASSUME Inductive, [Next]_vars
  PROVE  TypeOK'
<1>1. CountersOK'
  BY LocksStep, DevicesStep, FlagStep DEF CountersOK
<1>2. CASE UNCHANGED vars
  BY <1>2 DEF Inductive, TypeOK, vars, callVars, lockVars, flagVars, scanVars,
       deviceVars, statusVars, lifeVars, agentVars, sharedVars, worldVars
<1> QED
  BY <1>1, <1>2, CallerTypeStep, AgentTypeStep, BackgroundTypeStep DEF Next

-----------------------------------------------------------------------------
(* The theorems.                                                           *)

-----------------------------------------------------------------------------
(* The drain.                                                              *)

\* Only the shutdown moves the drain, and nothing registers behind it.
LEMMA OnlyDrainMoves ==
  ASSUME Inductive, Next, ~(BeginShutdown \/ Drain)
  PROVE  UNCHANGED lifeVars /\ (shuttingDown => registered' <= registered)
<1> USE DEF worldVars, sharedVars, lockVars, Unregister
<1>1. registered \in Nat
  BY DEF Inductive, TypeOK
<1>2. ASSUME NEW c \in Callers,
             \/ Arrive(c) \/ CallerStep(c) \/ TransitionStep(c) \/ EndWork(c)
             \/ ContextStopped(c) \/ StopWaiting(c)
      PROVE  UNCHANGED lifeVars /\ (shuttingDown => registered' <= registered)
  <2>1. CASE LockExclusive(c) \/ MarkGlobal(c) \/ ReleaseExclusive(c)
    BY <1>1, <2>1 DEF LockExclusive, MarkGlobal, ReleaseExclusive, EndOperation
  <2>2. CASE TransitionStep(c)
    BY <1>1, <2>2 DEF TransitionStep, LockTransition, ReserveScan, FinishScan,
                      AbortScan
  <2>3. CASE Arrive(c) \/ EndWork(c) \/ ContextStopped(c) \/ StopWaiting(c)
    BY <1>1, <2>3 DEF Arrive, Begin, EndWork, EndShared, EndBulk,
                      ContextStopped, StopWaiting
  <2>4. CASE MissedGlobal(c) \/ MissedStatus(c) \/ MissedStation(c)
    BY <1>1, <2>4 DEF MissedGlobal, MissedStatus, MissedStation
  <2>5. CASE \/ Enter(c) \/ MarkShared(c) \/ Woken(c) \/ PublishScan(c)
             \/ PrepareScan(c) \/ UnpublishScan(c)
    BY <1>1, <2>5 DEF Enter, MarkShared, Woken, PublishScan, PrepareScan,
                      UnpublishScan
  <2> QED
    BY <1>2, <2>1, <2>2, <2>3, <2>4, <2>5 DEF CallerStep
<1>3. ASSUME NEW a \in Agents, AgentStep(a) \/ EndDevice(a)
      PROVE  UNCHANGED lifeVars /\ (shuttingDown => registered' <= registered)
  BY <1>1, <1>3 DEF AgentStep, Register, LockShared, BeginDevice, DeviceBusy,
       SlotsBusy, TakeDevice, ReleaseShared, EndDevice
<1>4. ASSUME RecoveryRound \/ RecoveryStep \/ \E s \in Stations : BeginRecovery(s)
      PROVE  UNCHANGED lifeVars /\ (shuttingDown => registered' <= registered)
  BY <1>1, <1>4 DEF RecoveryRound, RecoveryStep, RecoveryRoundEnd,
       ClearRecovery, RecoveryExit, BeginRecovery
<1>5. ASSUME NEW r \in Refreshes,
             \/ BeginRefresh(r) \/ RefreshStep(r) \/ SkipRest(r)
             \/ AbandonRefresh(r)
      PROVE  UNCHANGED lifeVars /\ (shuttingDown => registered' <= registered)
  BY <1>1, <1>5 DEF BeginRefresh, RefreshStep, SkipRest, AbandonRefresh,
       RegisterRefresh, LockRefresh, Dispatch, JoinRefresh, EndRefresh,
       EndAbandoned
<1> QED
  BY <1>2, <1>3, <1>4, <1>5 DEF Next

\* The count stays at zero once the drain has seen it there.
LEMMA DrainHoldsStep ==
  ASSUME Inductive, [Next]_vars
  PROVE  DrainHolds'
<1>1. TypeOK /\ DrainHolds /\ registered' \in Nat
  BY LocksStep DEF Inductive
<1>2. CASE Next /\ ~(BeginShutdown \/ Drain)
  BY <1>1, <1>2, OnlyDrainMoves DEF DrainHolds, lifeVars, TypeOK
<1>3. CASE BeginShutdown
  BY <1>1, <1>3 DEF BeginShutdown, DrainHolds
<1>4. CASE Drain
  BY <1>1, <1>4 DEF Drain, DrainStep, DrainHolds, sharedVars, lockVars
<1>5. CASE UNCHANGED vars
  BY <1>1, <1>5 DEF DrainHolds, vars, worldVars, lifeVars, sharedVars, lockVars
<1> QED
  BY <1>2, <1>3, <1>4, <1>5

-----------------------------------------------------------------------------
(* The theorems.                                                           *)

\* Nothing is held and nobody is under way at the start.
LEMMA InitInductive == Init => Inductive
<1> SUFFICES ASSUME Init PROVE Inductive
  OBVIOUS
<1>1. /\ SharedAgents = {} /\ SharedRefreshes = {} /\ Exclusive = {}
      /\ RegisteredAgents = {} /\ RegisteredRefreshes = {}
      /\ Writing = {} /\ OnStation = {} /\ Held = {}
  BY DEF Init, SharedAgents, SharedRefreshes, Exclusive, RegisteredAgents,
         RegisteredRefreshes, Writing, Admitted, OnStation, Held, Agents
<1>2. TypeOK
  BY DEF Init, TypeOK, Steps, Kinds, Phases, DrainSteps
<1>3. OperationShape
  <2>1. /\ \A a \in Agents : pc[a] = "idle" /\ op[a] # "station"
        /\ \A r \in Refreshes : op[r] = "status"
        /\ op[Recovery] = "recovery"
        /\ \A c \in Callers : op[c] = "none"
    BY CoordinatorAssumption DEF Init, Agents
  <2> QED
    BY <2>1 DEF OperationShape
<1>4. CountsExact /\ WriterAlone /\ SharedFlagExact /\ DrainHolds
  BY <1>1, FS_EmptySet DEF Init, CountsExact, WriterAlone, SharedFlagExact,
                           DrainHolds
<1>5. DeviceOwnership
  <2>1. \A s \in Stations, a \in Agents : active[s] # a /\ a \notin OnStation
    BY <1>1, CoordinatorAssumption DEF Init
  <2>2. slots = Cardinality(Held) /\ slots <= GattSlots
    BY <1>1, FS_EmptySet, CoordinatorAssumption DEF Init
  <2> QED
    BY <2>1, <2>2 DEF DeviceOwnership, Held
<1> QED
  BY <1>2, <1>3, <1>4, <1>5 DEF Inductive

\* Every step keeps all of it.
LEMMA InductiveStep == Inductive /\ [Next]_vars => Inductive'
BY TypeStep, ShapeStep, LocksStep, DevicesStep, FlagStep, DrainHoldsStep
   DEF Inductive, Locks

\* The inductive invariant holds in every state of every instance.
THEOREM InductiveInvariant == Spec => []Inductive
BY InitInductive, InductiveStep, PTL DEF Spec

\* Type correctness: no counter is ever decremented below zero.
THEOREM TypeCorrect == Spec => []TypeOK
<1>1. Inductive => TypeOK
  BY DEF Inductive
<1> QED
  BY <1>1, InductiveInvariant, PTL

\* Every path of every operation gives back the locks and the registration it
\* took, for any number of callers, refreshes and stations.
THEOREM CountsAreExact == Spec => []CountsExact
<1>1. Inductive => CountsExact
  BY DEF Inductive
<1> QED
  BY <1>1, InductiveInvariant, PTL

\* The variables have their types, an entry of the device map is owned by the one
\* agent at work on the station, and every entry has its GATT slot.
THEOREM DevicesAreOwned == Spec => []CoordinatorInv
<1>1. Inductive => CoordinatorInv
  BY DEF Inductive, CoordinatorInv
<1> QED
  BY <1>1, InductiveInvariant, PTL

\* A scan or a bulk batch has the adapter for itself: with the write lock held
\* the read count is zero, and the count is exact.
THEOREM ExclusiveIsAlone == Spec => []ExclusiveAlone
<1>1. Inductive => ExclusiveAlone
  <2> SUFFICES ASSUME Inductive, NEW c \in Exclusive
               PROVE  Exclusive = {c} /\ SharedAgents = {} /\ SharedRefreshes = {}
    BY DEF ExclusiveAlone
  <2>1. /\ writer /\ readers = 0 /\ Exclusive = {c}
    BY DEF Inductive, WriterAlone, TypeOK
  <2>2. /\ SharedAgents \in SUBSET Agents /\ SharedRefreshes \in SUBSET Refreshes
    BY DEF SharedAgents, SharedRefreshes
  <2>3. /\ IsFiniteSet(SharedAgents) /\ Cardinality(SharedAgents) \in Nat
        /\ IsFiniteSet(SharedRefreshes) /\ Cardinality(SharedRefreshes) \in Nat
    BY <2>2, FiniteAgents
  <2>4. Cardinality(SharedAgents) = 0 /\ Cardinality(SharedRefreshes) = 0
    BY <2>1, <2>3 DEF Inductive, CountsExact
  <2> QED
    BY <2>1, <2>3, <2>4, FS_EmptySet
<1> QED
  BY <1>1, InductiveInvariant, PTL

-----------------------------------------------------------------------------
(* The coordinator implements FleetAccess.                                 *)

Unmoved ==
  UNCHANGED <<Exclusive, SharedAgents, SharedRefreshes, active, slots>>

\* What leaves the holders and the drain alone is a stutter.
LEMMA FleetStutter ==
  ASSUME Unmoved, (drain = "disconnecting")' = (drain = "disconnecting")
  PROVE  UNCHANGED Fleet!vars
BY DEF Unmoved, Fleet!vars, ExclusiveHolders, SharedHolders, StationOwner

\* A registered operation keeps the drain from the fleet disconnect.
LEMMA RegisteredIsOpen ==
  ASSUME Inductive, RegisteredAgents # {} \/ RegisteredRefreshes # {}
  PROVE  drain # "disconnecting"
<1>1. /\ RegisteredAgents \in SUBSET Agents
      /\ RegisteredRefreshes \in SUBSET Refreshes
  BY DEF RegisteredAgents, RegisteredRefreshes
<1>2. /\ IsFiniteSet(RegisteredAgents) /\ IsFiniteSet(RegisteredRefreshes)
      /\ Cardinality(RegisteredAgents) \in Nat
      /\ Cardinality(RegisteredRefreshes) \in Nat
  BY <1>1, FiniteAgents
<1>3. registered # 0
  BY <1>2, FS_EmptySet DEF Inductive, CountsExact
<1> QED
  BY <1>3 DEF Inductive, DrainHolds

\* Read locks are held by somebody exactly when they are counted.
LEMMA NoReaders ==
  ASSUME Inductive
  PROVE  readers = 0 <=> SharedAgents = {} /\ SharedRefreshes = {}
<1>1. SharedAgents \in SUBSET Agents /\ SharedRefreshes \in SUBSET Refreshes
  BY DEF SharedAgents, SharedRefreshes
<1>2. /\ IsFiniteSet(SharedAgents) /\ Cardinality(SharedAgents) \in Nat
      /\ IsFiniteSet(SharedRefreshes) /\ Cardinality(SharedRefreshes) \in Nat
  BY <1>1, FiniteAgents
<1>3. readers = 0 <=> Cardinality(SharedAgents) = 0 /\ Cardinality(SharedRefreshes) = 0
  BY <1>2 DEF Inductive, CountsExact
<1> QED
  BY <1>2, <1>3, FS_EmptySet

\* A refinement step for each way the write lock changes hands.
LEMMA FleetExclusiveSteps ==
  ASSUME Inductive, NEW c \in Callers,
         LockExclusive(c) \/ MarkGlobal(c) \/ ReleaseExclusive(c)
  PROVE  Fleet!Next \/ UNCHANGED Fleet!vars
<1> USE DEF Go, Quit, Refuse, callVars, lockVars, IsGlobal, EndOperation
<1>1. TypeOK /\ WriterAlone /\ OperationShape /\ c \in Agents
  BY DEF Inductive, Agents
<1>2. /\ \A b \in Agents \ {c} : pc'[b] = pc[b] /\ op'[b] = op[b]
      /\ UNCHANGED <<phase, active, slots, drain>>
  <2>1. CASE LockExclusive(c)
    BY <1>1, <2>1 DEF LockExclusive, TypeOK, worldVars, statusVars, deviceVars,
                      lifeVars
  <2>2. CASE MarkGlobal(c)
    BY <1>1, <2>2 DEF MarkGlobal, TypeOK, worldVars, statusVars, deviceVars,
                      lifeVars
  <2>3. CASE ReleaseExclusive(c)
    BY <1>1, <2>3 DEF ReleaseExclusive, TypeOK, worldVars, statusVars,
                      deviceVars, lifeVars
  <2> QED
    BY <2>1, <2>2, <2>3
<1>3. SharedRefreshes' = SharedRefreshes
  BY <1>2 DEF SharedRefreshes
<1>4. SharedAgents' = SharedAgents
  <2>1. c \notin SharedAgents /\ c \notin SharedAgents'
    <3> USE DEF SharedAgents
    <3>1. CASE LockExclusive(c)
      BY <1>1, <3>1 DEF LockExclusive, TypeOK
    <3>2. CASE MarkGlobal(c)
      BY <1>1, <3>2 DEF MarkGlobal, TypeOK
    <3>3. CASE ReleaseExclusive(c)
      BY <1>1, <3>3 DEF ReleaseExclusive, TypeOK
    <3> QED
      BY <3>1, <3>2, <3>3
  <2> QED
    BY <1>2, <2>1 DEF SharedAgents
<1>5. Exclusive' \ {c} = Exclusive \ {c}
  BY <1>2 DEF Exclusive
<1>6. CASE c \in Exclusive <=> c \in Exclusive'
  <2>1. Exclusive' = Exclusive
    BY <1>5, <1>6
  <2> QED
    BY <1>2, <1>3, <1>4, <2>1, FleetStutter DEF Unmoved
<1>7. CASE c \notin Exclusive /\ c \in Exclusive'
  <2>1. LockExclusive(c) /\ ~writer /\ readers = 0 /\ pc[c] = "lock"
    <3>1. ~MarkGlobal(c) /\ ~ReleaseExclusive(c)
      BY <1>1, <1>7 DEF MarkGlobal, ReleaseExclusive, Exclusive
    <3>2. LockExclusive(c)
      BY <3>1
    <3> QED
      BY <1>1, <1>7, <3>2 DEF LockExclusive, Exclusive, TypeOK
  <2>2. drain # "disconnecting"
    BY <1>1, <2>1, RegisteredIsOpen DEF RegisteredAgents
  <2>3. Exclusive = {} /\ SharedAgents = {} /\ SharedRefreshes = {}
    BY <1>1, <2>1, NoReaders DEF WriterAlone
  <2>4. Exclusive' = {c}
    BY <1>5, <1>7, <2>3
  <2>5. Fleet!AcquireExclusive(<<c, "operation">>)
    BY <1>2, <1>3, <1>4, <2>2, <2>3, <2>4
       DEF Fleet!AcquireExclusive, ExclusiveHolders, SharedHolders, StationOwner
  <2> QED
    BY <1>1, <2>5 DEF Fleet!Next
<1>8. CASE c \in Exclusive /\ c \notin Exclusive'
  <2>1. Exclusive = {c} /\ Exclusive' = {}
    BY <1>1, <1>5, <1>8 DEF WriterAlone, TypeOK
  <2>2. Fleet!ReleaseExclusive
    BY <1>2, <1>3, <1>4, <2>1
       DEF Fleet!ReleaseExclusive, ExclusiveHolders, SharedHolders, StationOwner
  <2> QED
    BY <2>2 DEF Fleet!Next
<1> QED
  BY <1>6, <1>7, <1>8

\* A refinement step for each way the shared lock changes hands.
LEMMA FleetSharedSteps ==
  ASSUME Inductive, NEW a \in Agents,
         \/ Register(a) \/ LockShared(a) \/ ReleaseShared(a)
         \/ pc[a] = "device" /\ BeginDevice(a) /\ ~TakeDevice(a)
  PROVE  Fleet!Next \/ UNCHANGED Fleet!vars
<1> USE DEF Go, Quit, Refuse, WaitFor, callVars, IsGlobal
<1>1. TypeOK /\ WriterAlone /\ OperationShape /\ DeviceOwnership
  BY DEF Inductive
<1>2. /\ Exclusive' = Exclusive /\ phase' = phase
      /\ \A b \in Agents \ {a} : pc'[b] = pc[b] /\ op'[b] = op[b]
  BY SharedLockSteps DEF BeginDevice
<1>3. UNCHANGED <<active, slots, drain>>
  BY DEF Register, LockShared, ReleaseShared, BeginDevice, DeviceBusy, SlotsBusy,
         worldVars, lifeVars, deviceVars
<1>4. SharedRefreshes' = SharedRefreshes
  BY <1>2 DEF SharedRefreshes
<1>5. SharedAgents' \ {a} = SharedAgents \ {a}
  BY <1>2 DEF SharedAgents
<1>6. CASE a \in SharedAgents <=> a \in SharedAgents'
  <2>1. SharedAgents' = SharedAgents
    BY <1>5, <1>6
  <2> QED
    BY <1>2, <1>3, <1>4, <2>1, FleetStutter DEF Unmoved
<1>7. CASE a \notin SharedAgents /\ a \in SharedAgents'
  <2>1. pc[a] = "lock" /\ ~writer
    <3>1. CASE Register(a)
      BY <1>1, <1>7, <3>1 DEF Register, SharedAgents, TypeOK
    <3>2. CASE LockShared(a)
      BY <1>1, <1>7, <3>2 DEF LockShared, SharedAgents, TypeOK
    <3>3. CASE ReleaseShared(a)
      BY <1>1, <1>7, <3>3 DEF ReleaseShared, SharedAgents, TypeOK
    <3>4. CASE pc[a] = "device" /\ BeginDevice(a) /\ ~TakeDevice(a)
      BY <1>1, <1>7, <3>4 DEF SharedAgents, OperationShape
    <3> QED
      BY <3>1, <3>2, <3>3, <3>4
  <2>2. drain # "disconnecting"
    BY <2>1, RegisteredIsOpen DEF RegisteredAgents
  <2>3. Exclusive = {}
    BY <1>1, <2>1 DEF WriterAlone
  <2>4. SharedHolders' = SharedHolders \cup {<<a, "operation">>}
    BY <1>4, <1>5, <1>7 DEF SharedHolders
  <2>5. Fleet!AcquireShared(<<a, "operation">>)
    BY <1>2, <1>3, <2>2, <2>3, <2>4
       DEF Fleet!AcquireShared, ExclusiveHolders, StationOwner
  <2> QED
    BY <2>5 DEF Fleet!Next
<1>8. CASE a \in SharedAgents /\ a \notin SharedAgents'
  <2>1. a \notin OnStation
    <3>1. ~Register(a) /\ ~LockShared(a)
      BY <1>1, <1>8 DEF Register, LockShared, SharedAgents, TypeOK
    <3> QED
      BY <3>1 DEF ReleaseShared, OnStation
  <2>2. \A s \in Stations : active[s] # a
    BY <1>1, <2>1 DEF DeviceOwnership
  <2>3. \A s \in Stations : <<a, "operation">> \notin StationOwner[s]
    BY <2>2 DEF StationOwner
  <2>4. /\ <<a, "operation">> \in SharedHolders
        /\ SharedHolders' = SharedHolders \ {<<a, "operation">>}
    BY <1>4, <1>5, <1>8 DEF SharedHolders
  <2>5. Fleet!ReleaseShared(<<a, "operation">>)
    BY <1>2, <1>3, <2>3, <2>4
       DEF Fleet!ReleaseShared, ExclusiveHolders, StationOwner
  <2> QED
    BY <2>5 DEF Fleet!Next
<1> QED
  BY <1>6, <1>7, <1>8

\* A station is taken by a holder of the shared lock that has none.
LEMMA FleetTakeStation ==
  ASSUME Inductive, NEW a \in Agents, pc[a] = "device",
         BeginDevice(a), TakeDevice(a)
  PROVE  Fleet!Next
<1> DEFINE s == target[a]
<1>1. TypeOK /\ OperationShape /\ DeviceOwnership
  BY DEF Inductive
<1>2. s \in Stations /\ active[s] = None /\ a # None
  BY <1>1, CoordinatorAssumption DEF TakeDevice, OperationShape
<1>3. a \in SharedAgents /\ SharedAgents' = SharedAgents
      /\ Exclusive' = Exclusive /\ a \notin OnStation
  BY <1>1 DEF TakeDevice, Go, callVars, SharedAgents, Exclusive, OnStation,
              IsGlobal, OperationShape, TypeOK
<1>4. /\ UNCHANGED <<phase, drain>>
      /\ active' = [active EXCEPT ![s] = a]
      /\ slots < GattSlots /\ slots' = slots + 1
  BY DEF BeginDevice, TakeDevice, statusVars, lifeVars
<1>5. UNCHANGED <<ExclusiveHolders, SharedHolders>>
  BY <1>3, <1>4 DEF ExclusiveHolders, SharedHolders, SharedRefreshes
<1>6. \A t \in Stations : <<a, "operation">> \notin StationOwner[t]
  BY <1>1, <1>3 DEF DeviceOwnership, StationOwner
<1>7. GattSlots - slots > 0 /\ (GattSlots - slots)' = GattSlots - slots - 1
  BY <1>1, <1>4, CoordinatorAssumption DEF TypeOK
<1>8. StationOwner' = [StationOwner EXCEPT ![s] = {<<a, "operation">>}]
  BY <1>1, <1>2, <1>4 DEF StationOwner, TypeOK
<1>9. <<a, "operation">> \in SharedHolders /\ StationOwner[s] = {}
  BY <1>2, <1>3 DEF SharedHolders, StationOwner
<1>10. Fleet!TakeStation(<<a, "operation">>, s)
  BY <1>2, <1>4, <1>5, <1>6, <1>7, <1>8, <1>9 DEF Fleet!TakeStation
<1> QED
  BY <1>2, <1>10 DEF Fleet!Next

\* And given back by the agent that took it.
LEMMA FleetGiveBack ==
  ASSUME Inductive, NEW a \in Agents, EndDevice(a)
  PROVE  Fleet!Next
<1> DEFINE s == target[a]
<1>1. TypeOK /\ OperationShape /\ DeviceOwnership
  BY DEF Inductive
<1>2. s \in Stations /\ active[s] = a /\ a # None
  BY <1>1, CoordinatorAssumption
     DEF EndDevice, OperationShape, DeviceOwnership, OnStation
<1>3. SharedAgents' = SharedAgents /\ Exclusive' = Exclusive
  BY <1>1 DEF EndDevice, Go, callVars, SharedAgents, Exclusive, IsGlobal, TypeOK
<1>4. UNCHANGED <<phase, drain>> /\ active' = [active EXCEPT ![s] = None]
      /\ slots' = slots - 1
  BY DEF EndDevice, worldVars, statusVars, lifeVars
<1>5. UNCHANGED <<ExclusiveHolders, SharedHolders>>
  BY <1>3, <1>4 DEF ExclusiveHolders, SharedHolders, SharedRefreshes
<1>6. StationOwner' = [StationOwner EXCEPT ![s] = {}] /\ StationOwner[s] # {}
  BY <1>1, <1>2, <1>4 DEF StationOwner, TypeOK
<1>7. (GattSlots - slots)' = GattSlots - slots + 1
  BY <1>1, <1>4, CoordinatorAssumption DEF TypeOK
<1>8. Fleet!GiveBack(s)
  BY <1>4, <1>5, <1>6, <1>7 DEF Fleet!GiveBack
<1> QED
  BY <1>2, <1>8 DEF Fleet!Next

\* A dispatcher's lock is a shared one, too.
LEMMA FleetRefreshSteps ==
  ASSUME Inductive, NEW r \in Refreshes,
         \/ BeginRefresh(r) \/ RegisterRefresh(r) \/ SkipRest(r)
         \/ \E candidates \in SUBSET Stations : LockRefresh(r, candidates)
         \/ JoinRefresh(r) \/ EndRefresh(r) \/ AbandonRefresh(r)
         \/ EndAbandoned(r)
  PROVE  Fleet!Next \/ UNCHANGED Fleet!vars
<1>1. TypeOK /\ WriterAlone /\ r \in Agents
  BY DEF Inductive, Agents
<1>2. /\ UNCHANGED <<pc, op, active, slots, drain>>
      /\ \A q \in Refreshes \ {r} : phase'[q] = phase[q]
      /\ phase[r] # "refreshing" /\ phase'[r] = "refreshing"
           => phase[r] = "lock" /\ ~writer
  <2> USE DEF Phase, callVars, agentVars, sharedVars, deviceVars, lifeVars, TypeOK
  <2>1. CASE BeginRefresh(r)
    BY <1>1, <2>1 DEF BeginRefresh
  <2>2. CASE RegisterRefresh(r)
    BY <1>1, <2>2 DEF RegisterRefresh
  <2>3. CASE SkipRest(r)
    BY <1>1, <2>3 DEF SkipRest
  <2>4. CASE \E candidates \in SUBSET Stations : LockRefresh(r, candidates)
    BY <1>1, <2>4 DEF LockRefresh
  <2>5. CASE JoinRefresh(r)
    BY <1>1, <2>5 DEF JoinRefresh
  <2>6. CASE EndRefresh(r)
    BY <1>1, <2>6 DEF EndRefresh
  <2>7. CASE AbandonRefresh(r)
    BY <1>1, <2>7 DEF AbandonRefresh
  <2>8. CASE EndAbandoned(r)
    BY <1>1, <2>8 DEF EndAbandoned
  <2> QED
    BY <2>1, <2>2, <2>3, <2>4, <2>5, <2>6, <2>7, <2>8
<1>3. Exclusive' = Exclusive /\ SharedAgents' = SharedAgents
  BY <1>2 DEF Exclusive, SharedAgents, IsGlobal
<1>4. SharedRefreshes' \ {r} = SharedRefreshes \ {r}
  BY <1>2 DEF SharedRefreshes
<1>5. CASE r \in SharedRefreshes <=> r \in SharedRefreshes'
  <2>1. SharedRefreshes' = SharedRefreshes
    BY <1>4, <1>5
  <2> QED
    BY <1>2, <1>3, <2>1, FleetStutter DEF Unmoved
<1>6. CASE r \notin SharedRefreshes /\ r \in SharedRefreshes'
  <2>1. phase[r] = "lock" /\ ~writer
    BY <1>2, <1>6 DEF SharedRefreshes
  <2>2. drain # "disconnecting"
    BY <2>1, RegisteredIsOpen DEF RegisteredRefreshes
  <2>3. Exclusive = {}
    BY <1>1, <2>1 DEF WriterAlone
  <2>4. SharedHolders' = SharedHolders \cup {<<r, "dispatch">>}
    BY <1>3, <1>4, <1>6 DEF SharedHolders
  <2>5. Fleet!AcquireShared(<<r, "dispatch">>)
    BY <1>2, <1>3, <2>2, <2>3, <2>4
       DEF Fleet!AcquireShared, ExclusiveHolders, StationOwner
  <2> QED
    BY <1>1, <2>5 DEF Fleet!Next
<1>7. CASE r \in SharedRefreshes /\ r \notin SharedRefreshes'
  <2>1. /\ <<r, "dispatch">> \in SharedHolders
        /\ SharedHolders' = SharedHolders \ {<<r, "dispatch">>}
    BY <1>3, <1>4, <1>7 DEF SharedHolders
  <2>2. \A s \in Stations : <<r, "dispatch">> \notin StationOwner[s]
    BY DEF StationOwner
  <2>3. Fleet!ReleaseShared(<<r, "dispatch">>)
    BY <1>2, <1>3, <2>1, <2>2
       DEF Fleet!ReleaseShared, ExclusiveHolders, StationOwner
  <2> QED
    BY <1>1, <2>3 DEF Fleet!Next
<1> QED
  BY <1>5, <1>6, <1>7

\* The last step of the drain closes the fleet: nothing is registered.
LEMMA FleetDrainSteps ==
  ASSUME Inductive, BeginShutdown \/ Drain
  PROVE  Fleet!Next \/ UNCHANGED Fleet!vars
<1>1. UNCHANGED <<pc, op, phase, active, slots>>
  BY DEF BeginShutdown, Drain, DrainStep, agentVars, callVars, sharedVars,
         deviceVars, statusVars
<1>2. Unmoved
  BY <1>1 DEF Unmoved, Exclusive, SharedAgents, SharedRefreshes, IsGlobal
<1>3. CASE DrainStep("asyncScan", "disconnecting", AsyncScans = {})
  <2>1. drain = "asyncScan" /\ drain' = "disconnecting"
    BY <1>3 DEF DrainStep
  <2>2. /\ RegisteredAgents \in SUBSET Agents
        /\ RegisteredRefreshes \in SUBSET Refreshes
    BY DEF RegisteredAgents, RegisteredRefreshes
  <2>3. /\ IsFiniteSet(RegisteredAgents) /\ IsFiniteSet(RegisteredRefreshes)
        /\ Cardinality(RegisteredAgents) \in Nat
        /\ Cardinality(RegisteredRefreshes) \in Nat
    BY <2>2, FiniteAgents
  <2>4. Cardinality(RegisteredAgents) = 0 /\ Cardinality(RegisteredRefreshes) = 0
    BY <2>1, <2>3 DEF Inductive, CountsExact, DrainHolds
  <2>5. RegisteredAgents = {} /\ RegisteredRefreshes = {}
    BY <2>3, <2>4, FS_EmptySet
  <2>6. Exclusive = {} /\ SharedAgents = {} /\ SharedRefreshes = {}
    BY <2>5 DEF RegisteredAgents, RegisteredRefreshes, Exclusive, SharedAgents,
                SharedRefreshes
  <2>7. Fleet!Close
    BY <1>2, <2>1, <2>6 DEF Fleet!Close, Unmoved, ExclusiveHolders,
         SharedHolders, StationOwner
  <2> QED
    BY <2>7 DEF Fleet!Next
<1>4. ASSUME ~DrainStep("asyncScan", "disconnecting", AsyncScans = {})
      PROVE  (drain = "disconnecting")' = (drain = "disconnecting")
  BY <1>4 DEF BeginShutdown, Drain, DrainStep
<1> QED
  BY <1>2, <1>3, <1>4, FleetStutter

\* All that callers and the background do apart from their locks.
LEMMA FleetOtherSteps ==
  ASSUME Inductive,
         \/ \E c \in Callers :
              /\ \/ Arrive(c) \/ CallerStep(c) \/ TransitionStep(c)
                 \/ EndWork(c) \/ ContextStopped(c) \/ StopWaiting(c)
              /\ ~(LockExclusive(c) \/ MarkGlobal(c) \/ ReleaseExclusive(c))
         \/ RecoveryRound \/ RecoveryStep \/ \E s \in Stations : BeginRecovery(s)
         \/ \E r \in Refreshes, s \in Stations : Dispatch(r, s)
  PROVE  UNCHANGED Fleet!vars
<1>1. ASSUME NEW c \in Callers,
             \/ Arrive(c) \/ CallerStep(c) \/ TransitionStep(c)
             \/ EndWork(c) \/ ContextStopped(c) \/ StopWaiting(c),
             ~(LockExclusive(c) \/ MarkGlobal(c) \/ ReleaseExclusive(c))
      PROVE  Unmoved /\ UNCHANGED drain
  <2>1. Exclusive' = Exclusive /\ SharedAgents' = SharedAgents
    BY <1>1, CallerKeepsLocks DEF CallerStep, TransitionStep, EndWork
  <2>2. UNCHANGED <<phase, active, slots, drain>>
    BY <1>1 DEF CallerStep, TransitionStep, EndWork, sharedVars, worldVars,
         deviceVars, statusVars, lifeVars, Arrive, Begin, Enter, ContextStopped,
         LockTransition, MarkShared, EndShared, EndBulk, MissedStation,
         MissedGlobal, MissedStatus, Woken, StopWaiting, ReserveScan,
         PublishScan, PrepareScan, FinishScan, AbortScan, UnpublishScan
  <2> QED
    BY <2>1, <2>2 DEF Unmoved, SharedRefreshes
<1>2. ASSUME RecoveryRound \/ RecoveryStep \/ \E s \in Stations : BeginRecovery(s)
      PROVE  Unmoved /\ UNCHANGED drain
  <2>1. Exclusive' = Exclusive /\ SharedAgents' = SharedAgents
    <3>1. Recovery \in Agents
      BY DEF Agents
    <3>2. CASE RecoveryRound \/ RecoveryStep
      BY <3>1, <3>2, AgentStepKeepsLocks
    <3>3. CASE \E s \in Stations : BeginRecovery(s)
      BY <3>1, <3>3, AgentStepKeepsLocks
    <3> QED
      BY <1>2, <3>2, <3>3
  <2>2. UNCHANGED <<phase, active, slots, drain>>
    BY <1>2 DEF RecoveryRound, RecoveryStep, RecoveryRoundEnd, ClearRecovery,
         RecoveryExit, BeginRecovery, sharedVars, worldVars, deviceVars,
         statusVars, lifeVars
  <2> QED
    BY <2>1, <2>2 DEF Unmoved, SharedRefreshes
<1>3. ASSUME NEW r \in Refreshes, NEW s \in Stations, Dispatch(r, s)
      PROVE  Unmoved /\ UNCHANGED drain
  <2>1. Exclusive' = Exclusive /\ SharedAgents' = SharedAgents
    BY <1>3, AgentStepKeepsLocks DEF Agents
  <2>2. UNCHANGED <<phase, active, slots, drain>>
    BY <1>3 DEF Dispatch, sharedVars, deviceVars, lifeVars
  <2> QED
    BY <2>1, <2>2 DEF Unmoved, SharedRefreshes
<1> QED
  BY <1>1, <1>2, <1>3, FleetStutter

\* Every step of the coordinator is a step of FleetAccess, or none.
LEMMA FleetStep ==
  ASSUME Inductive, [Next]_vars
  PROVE  Fleet!Next \/ UNCHANGED Fleet!vars
<1>1. ASSUME NEW c \in Callers,
             \/ Arrive(c) \/ CallerStep(c) \/ TransitionStep(c) \/ EndWork(c)
             \/ ContextStopped(c) \/ StopWaiting(c)
      PROVE  Fleet!Next \/ UNCHANGED Fleet!vars
  BY <1>1, FleetExclusiveSteps, FleetOtherSteps
<1>2. ASSUME NEW a \in Agents, AgentStep(a) \/ EndDevice(a)
      PROVE  Fleet!Next \/ UNCHANGED Fleet!vars
  BY <1>2, FleetSharedSteps, FleetTakeStation, FleetGiveBack
     DEF AgentStep, BeginDevice
<1>3. CASE RecoveryRound \/ RecoveryStep \/ \E s \in Stations : BeginRecovery(s)
  BY <1>3, FleetOtherSteps
<1>4. ASSUME NEW r \in Refreshes,
             \/ BeginRefresh(r) \/ RefreshStep(r) \/ SkipRest(r)
             \/ AbandonRefresh(r)
      PROVE  Fleet!Next \/ UNCHANGED Fleet!vars
  BY <1>4, FleetRefreshSteps, FleetOtherSteps DEF RefreshStep
<1>5. CASE BeginShutdown \/ Drain
  BY <1>5, FleetDrainSteps
<1>6. CASE UNCHANGED vars
  <2>1. Unmoved /\ UNCHANGED drain
    BY <1>6 DEF vars, agentVars, callVars, sharedVars, deviceVars, worldVars,
         statusVars, lifeVars, Unmoved, Exclusive, SharedAgents,
         SharedRefreshes, IsGlobal
  <2> QED
    BY <2>1, FleetStutter
<1> QED
  BY <1>1, <1>2, <1>3, <1>4, <1>5, <1>6 DEF Next

\* The coordinator implements FleetAccess: whatever the callers, the
\* refreshes, the recovery loop and the shutdown do, the adapter is one
\* operation's or shared, a station is one operation's, and the fleet stays
\* unused from the disconnect on.
THEOREM FleetRefinement == Spec => ImplementsFleetAccess
<1>1. Init => Fleet!Init
  <2> SUFFICES ASSUME Init PROVE Fleet!Init
    OBVIOUS
  <2>1. Exclusive = {} /\ SharedAgents = {} /\ SharedRefreshes = {}
    BY DEF Init, Exclusive, SharedAgents, SharedRefreshes, Agents
  <2>2. ExclusiveHolders = {} /\ SharedHolders = {}
    BY <2>1 DEF ExclusiveHolders, SharedHolders
  <2>3. /\ StationOwner = [s \in Stations |-> {}]
        /\ GattSlots - slots = GattSlots /\ drain = "none"
    BY CoordinatorAssumption DEF Init, StationOwner
  <2> QED
    BY <2>2, <2>3 DEF Fleet!Init
<1>2. Inductive /\ [Next]_vars => [Fleet!Next]_(Fleet!vars)
  BY FleetStep
<1> QED
  BY <1>1, <1>2, InductiveInvariant, PTL DEF Spec, ImplementsFleetAccess,
     Fleet!Spec

=============================================================================
