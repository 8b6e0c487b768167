------------------------ MODULE CoordinatorScanProofs ------------------------
(***************************************************************************)
(* Proofs about a scan's reservation: it excludes other foreground work    *)
(* from its publication on, and the drain leaves nothing behind; and about *)
(* the wait for background work: whoever waits has somebody to wake it,    *)
(* cancels what it waits for, and is not refused on account of recovery.   *)
(***************************************************************************)
EXTENDS CoordinatorProofs

\* All steps of a caller.
CallerMoves(c) ==
  \/ Arrive(c) \/ CallerStep(c) \/ TransitionStep(c) \/ EndWork(c)
  \/ ContextStopped(c) \/ StopWaiting(c) \/ AgentStep(c) \/ EndDevice(c)

-----------------------------------------------------------------------------
(* The slot.                                                               *)

\* A caller's step keeps the slot and its reservation in line.
LEMMA CallerSlotStep ==
  ASSUME Inductive, ScanInductive, NEW c \in Callers, CallerMoves(c)
  PROVE  ScanSlot'
<1> USE DEF Go, Quit, Refuse, WaitFor, callVars, IsGlobal, sharedVars, scanVars,
            ScanSlot, ScanShape, TypeOK
<1> /\ c \in Agents /\ TypeOK /\ OperationShape /\ TransitionHeld /\ ScanSlot /\ ScanShape
    /\ Callers \subseteq Agents /\ None \notin Callers
  BY CoordinatorAssumption DEF Inductive, ScanInductive, Agents
<1> SUFFICES /\ \A b \in Agents \ {c} : pc'[b] = pc[b] /\ op'[b] = op[b]
             /\ \/ scanLifecycle' = scanLifecycle
                \/ {scanLifecycle, scanLifecycle'} \subseteq {None, c}
             /\ isScanning' => scanLifecycle' # None
             /\ op'[c] = "scan" /\ pc'[c] \notin {"reserve", "publish"}
                  <=> scanLifecycle' = c
  OBVIOUS
<1>1. CASE Arrive(c)
  BY <1>1, CoordinatorAssumption DEF Arrive, Begin, FirstStep
<1>2. CASE Enter(c)
  BY <1>2 DEF Enter
<1>3. CASE ContextStopped(c)
  BY <1>3 DEF ContextStopped
<1>4. CASE LockTransition(c)
  BY <1>4 DEF LockTransition
<1>5. CASE MarkShared(c)
  BY <1>5 DEF MarkShared
<1>6. CASE EndShared(c)
  BY <1>6 DEF EndShared
<1>7. CASE EndBulk(c)
  BY <1>7 DEF EndBulk
<1>8. CASE MissedStation(c)
  BY <1>8 DEF MissedStation
<1>9. CASE MissedGlobal(c)
  BY <1>9 DEF MissedGlobal
<1>10. CASE MissedStatus(c)
  BY <1>10 DEF MissedStatus
<1>11. CASE Woken(c)
  BY <1>11 DEF Woken
<1>12. CASE StopWaiting(c)
  BY <1>12 DEF StopWaiting
<1>13. CASE ReserveScan(c)
  BY <1>13 DEF ReserveScan
<1>14. CASE PublishScan(c)
  BY <1>14 DEF PublishScan, TransitionHeld
<1>15. CASE PrepareScan(c)
  BY <1>15 DEF PrepareScan
<1>16. CASE FinishScan(c)
  BY <1>16 DEF FinishScan
<1>17. CASE AbortScan(c)
  BY <1>17 DEF AbortScan
<1>18. CASE UnpublishScan(c)
  BY <1>18 DEF UnpublishScan, TransitionHeld, EndingScan
<1>19. CASE LockExclusive(c)
  BY <1>19 DEF LockExclusive
<1>20. CASE MarkGlobal(c)
  BY <1>20 DEF MarkGlobal, EndOperation
<1>21. CASE ReleaseExclusive(c)
  BY <1>21 DEF ReleaseExclusive, EndOperation
<1>22. CASE Register(c)
  BY <1>22 DEF Register
<1>23. CASE LockShared(c)
  BY <1>23 DEF LockShared
<1>24. CASE ReleaseShared(c)
  BY <1>24 DEF ReleaseShared
<1>25. CASE EndDevice(c)
  BY <1>25 DEF EndDevice
<1>26. CASE BeginDevice(c) /\ DeviceBusy(c)
  BY <1>26 DEF BeginDevice, DeviceBusy
<1>27. CASE BeginDevice(c) /\ SlotsBusy(c)
  BY <1>27 DEF BeginDevice, SlotsBusy
<1>28. CASE BeginDevice(c) /\ TakeDevice(c)
  BY <1>28 DEF BeginDevice, TakeDevice
<1> QED
  BY <1>1, <1>2, <1>3, <1>4, <1>5, <1>6, <1>7, <1>8, <1>9, <1>10,
     <1>11, <1>12, <1>13, <1>14, <1>15, <1>16, <1>17, <1>18, <1>19, <1>20,
     <1>21, <1>22, <1>23, <1>24, <1>25, <1>26, <1>27, <1>28
     DEF CallerMoves, CallerStep, TransitionStep, EndWork, AgentStep, BeginDevice

\* Its step and its call fit.
LEMMA CallerScanShapeStep ==
  ASSUME Inductive, ScanInductive, NEW c \in Callers, CallerMoves(c)
  PROVE  ScanShape'
<1> USE DEF Go, Quit, Refuse, WaitFor, callVars, IsGlobal, ScanShape, TypeOK
<1> /\ c \in Agents /\ TypeOK /\ OperationShape /\ ScanShape
    /\ Callers \subseteq Agents
    /\ op[c] \in {"none", "station", "shared", "bulk", "scan"} /\ c # Recovery
  BY CoordinatorAssumption DEF Inductive, ScanInductive, Agents, OperationShape
<1> SUFFICES /\ \A b \in Agents \ {c} : pc'[b] = pc[b] /\ op'[b] = op[b]
             /\ pc'[c] = "idle" => op'[c] = "none"
             /\ pc'[c] \in {"reserve", "publish", "abort", "unpublish"}
                  => op'[c] = "scan"
             /\ op'[c] = "scan" => pc'[c] # "transition"
  OBVIOUS
<1>1. CASE Arrive(c)
  BY <1>1 DEF Arrive, Begin, FirstStep
<1>2. CASE Enter(c)
  BY <1>2 DEF Enter
<1>3. CASE ContextStopped(c)
  BY <1>3 DEF ContextStopped
<1>4. CASE LockTransition(c)
  BY <1>4 DEF LockTransition
<1>5. CASE MarkShared(c)
  BY <1>5 DEF MarkShared
<1>6. CASE EndShared(c)
  BY <1>6 DEF EndShared
<1>7. CASE EndBulk(c)
  BY <1>7 DEF EndBulk
<1>8. CASE MissedStation(c)
  BY <1>8 DEF MissedStation
<1>9. CASE MissedGlobal(c)
  BY <1>9 DEF MissedGlobal
<1>10. CASE MissedStatus(c)
  BY <1>10 DEF MissedStatus
<1>11. CASE Woken(c)
  BY <1>11 DEF Woken
<1>12. CASE StopWaiting(c)
  BY <1>12 DEF StopWaiting
<1>13. CASE ReserveScan(c)
  BY <1>13 DEF ReserveScan
<1>14. CASE PublishScan(c)
  BY <1>14 DEF PublishScan
<1>15. CASE PrepareScan(c)
  BY <1>15 DEF PrepareScan
<1>16. CASE FinishScan(c)
  BY <1>16 DEF FinishScan
<1>17. CASE AbortScan(c)
  BY <1>17 DEF AbortScan
<1>18. CASE UnpublishScan(c)
  BY <1>18 DEF UnpublishScan
<1>19. CASE LockExclusive(c)
  BY <1>19 DEF LockExclusive
<1>20. CASE MarkGlobal(c)
  BY <1>20 DEF MarkGlobal, EndOperation
<1>21. CASE ReleaseExclusive(c)
  BY <1>21 DEF ReleaseExclusive, EndOperation
<1>22. CASE Register(c)
  BY <1>22 DEF Register
<1>23. CASE LockShared(c)
  BY <1>23 DEF LockShared
<1>24. CASE ReleaseShared(c)
  BY <1>24 DEF ReleaseShared
<1>25. CASE EndDevice(c)
  BY <1>25 DEF EndDevice
<1>26. CASE BeginDevice(c) /\ DeviceBusy(c)
  BY <1>26 DEF BeginDevice, DeviceBusy
<1>27. CASE BeginDevice(c) /\ SlotsBusy(c)
  BY <1>27 DEF BeginDevice, SlotsBusy
<1>28. CASE BeginDevice(c) /\ TakeDevice(c)
  BY <1>28 DEF BeginDevice, TakeDevice
<1> QED
  BY <1>1, <1>2, <1>3, <1>4, <1>5, <1>6, <1>7, <1>8, <1>9, <1>10,
     <1>11, <1>12, <1>13, <1>14, <1>15, <1>16, <1>17, <1>18, <1>19, <1>20,
     <1>21, <1>22, <1>23, <1>24, <1>25, <1>26, <1>27, <1>28
     DEF CallerMoves, CallerStep, TransitionStep, EndWork, AgentStep, BeginDevice

\* Foreground work is admitted under scanTransitionMutex, or is the scan.
LEMMA CallerForegroundStep ==
  ASSUME Inductive, ScanInductive, NEW c \in Callers, CallerMoves(c), HasForeground'
  PROVE  HasForeground \/ transition = c \/ scanLifecycle = c
<1> USE DEF sharedVars, flagVars, deviceVars, HasForeground, IsGlobal
<1> /\ c \in Agents /\ TypeOK /\ OperationShape /\ TransitionHeld /\ ScanSlot
    /\ None \notin Callers
    /\ op[c] \in {"none", "station", "shared", "bulk", "scan"} /\ c # Recovery
  BY CoordinatorAssumption DEF Inductive, ScanInductive, Agents, OperationShape
<1>1. CASE MarkShared(c)
  BY <1>1 DEF MarkShared, TransitionHeld, Attempting
<1>2. CASE EndShared(c)
  BY <1>2 DEF EndShared, TypeOK
<1>3. CASE MarkGlobal(c)
  BY <1>3 DEF MarkGlobal, TransitionHeld, Attempting, ScanSlot
<1>4. CASE BeginDevice(c)
  BY <1>4 DEF BeginDevice, DeviceBusy, SlotsBusy, TakeDevice, TransitionHeld,
              Attempting, OperationShape
<1>5. CASE EndDevice(c)
  BY <1>5 DEF EndDevice, TypeOK
<1>6. CASE FinishScan(c) \/ EndBulk(c)
  BY <1>6 DEF FinishScan, EndBulk
<1>7. CASE \/ Arrive(c) \/ Enter(c) \/ ContextStopped(c) \/ LockTransition(c)
           \/ MissedStation(c) \/ MissedGlobal(c) \/ MissedStatus(c)
           \/ Woken(c) \/ StopWaiting(c) \/ ReserveScan(c) \/ PublishScan(c)
           \/ PrepareScan(c) \/ AbortScan(c) \/ UnpublishScan(c)
           \/ LockExclusive(c) \/ ReleaseExclusive(c)
           \/ Register(c) \/ LockShared(c) \/ ReleaseShared(c)
  BY <1>7 DEF Arrive, Begin, Enter, ContextStopped, LockTransition,
       MissedStation, MissedGlobal, MissedStatus, Woken, StopWaiting,
       ReserveScan, PublishScan, PrepareScan, AbortScan, UnpublishScan,
       LockExclusive, ReleaseExclusive, EndOperation, Register, LockShared,
       ReleaseShared
<1> QED
  BY <1>1, <1>2, <1>3, <1>4, <1>5, <1>6, <1>7
     DEF CallerMoves, CallerStep, TransitionStep, EndWork, AgentStep

\* Whoever is inside a section of scanTransitionMutex holds it, and a scan about
\* to be published finds things as it reserved them.
LEMMA CallerTransitionStep ==
  ASSUME Inductive, ScanInductive, NEW c \in Callers, CallerMoves(c)
  PROVE  TransitionHeld'
<1> USE DEF Go, Quit, Refuse, WaitFor, callVars, IsGlobal, UnlockTransition,
            sharedVars, scanVars, Attempting, EndingScan, TypeOK, ScanShape
<1> /\ c \in Agents /\ TypeOK /\ OperationShape /\ TransitionHeld /\ ScanSlot
    /\ ScanShape /\ Callers \subseteq Agents /\ None \notin Callers
    /\ op[c] \in {"none", "station", "shared", "bulk", "scan"} /\ c # Recovery
  BY CoordinatorAssumption DEF Inductive, ScanInductive, Agents, OperationShape
<1>0. HasForeground' => HasForeground \/ transition = c \/ scanLifecycle = c
  BY CallerForegroundStep
<1> SUFFICES /\ \A b \in Agents \ {c} : pc'[b] = pc[b] /\ op'[b] = op[b]
             /\ c \in (Attempting \cup EndingScan)' => transition' = c /\ ~isScanning'
             /\ pc'[c] = "publish" => ReserveScan(c)
             /\ transition' = transition \/ transition \in {None, c}
             /\ isScanning' => isScanning \/ transition = c
             /\ scanLifecycle' # None => scanLifecycle # None \/ transition = c
  <2>1. ASSUME NEW d \in Callers \ {c}, d \in (Attempting \cup EndingScan)'
        PROVE  transition' = d /\ ~isScanning'
    BY <2>1 DEF TransitionHeld
  <2>2. ASSUME NEW d \in Callers \ {c}, pc'[d] = "publish"
        PROVE  /\ transition' = d /\ op'[d] = "scan" /\ scanLifecycle' = None
               /\ ~HasForeground'
    BY <1>0, <2>2 DEF TransitionHeld
  <2>3. ASSUME pc'[c] = "publish"
        PROVE  /\ transition' = c /\ op'[c] = "scan" /\ scanLifecycle' = None
               /\ ~HasForeground'
    BY <2>3 DEF ReserveScan, HasForeground, flagVars, deviceVars
  <2> QED
    BY <2>1, <2>2, <2>3 DEF TransitionHeld
<1>1. CASE Arrive(c)
  BY <1>1 DEF Arrive, Begin, FirstStep
<1>2. CASE Enter(c)
  BY <1>2 DEF Enter
<1>3. CASE ContextStopped(c)
  BY <1>3 DEF ContextStopped
<1>4. CASE LockTransition(c)
  BY <1>4 DEF LockTransition
<1>5. CASE MarkShared(c)
  BY <1>5 DEF MarkShared, TransitionHeld
<1>6. CASE EndShared(c)
  BY <1>6 DEF EndShared
<1>7. CASE EndBulk(c)
  BY <1>7 DEF EndBulk
<1>8. CASE MissedStation(c)
  BY <1>8 DEF MissedStation
<1>9. CASE MissedGlobal(c)
  <2>1. CASE pc'[c] = "missedStatus"
    BY <1>9, <2>1 DEF MissedGlobal, TransitionHeld
  <2>2. CASE pc'[c] # "missedStatus"
    <3>1. pc'[c] \in {"idle", "waiting", "abort"}
      BY <1>9, <2>2 DEF MissedGlobal
    <3>2. /\ \A b \in Agents \ {c} : pc'[b] = pc[b] /\ op'[b] = op[b]
          /\ transition' = transition \/ transition \in {None, c}
          /\ UNCHANGED <<isScanning, scanLifecycle>>
      BY <1>9 DEF MissedGlobal
    <3> QED
      BY <3>1, <3>2
  <2> QED
    BY <2>1, <2>2
<1>10. CASE MissedStatus(c)
  BY <1>10 DEF MissedStatus, TransitionHeld
<1>11. CASE Woken(c)
  BY <1>11 DEF Woken
<1>12. CASE StopWaiting(c)
  BY <1>12 DEF StopWaiting
<1>13. CASE ReserveScan(c)
  BY <1>13 DEF ReserveScan
<1>14. CASE PublishScan(c)
  BY <1>14 DEF PublishScan, TransitionHeld
<1>15. CASE PrepareScan(c)
  BY <1>15 DEF PrepareScan
<1>16. CASE FinishScan(c)
  BY <1>16 DEF FinishScan
<1>17. CASE AbortScan(c)
  BY <1>17 DEF AbortScan
<1>18. CASE UnpublishScan(c)
  BY <1>18 DEF UnpublishScan, TransitionHeld
<1>19. CASE LockExclusive(c)
  BY <1>19 DEF LockExclusive, TransitionHeld
<1>20. CASE MarkGlobal(c)
  BY <1>20 DEF MarkGlobal, EndOperation, TransitionHeld
<1>21. CASE ReleaseExclusive(c)
  BY <1>21 DEF ReleaseExclusive, EndOperation, TransitionHeld
<1>22. CASE Register(c)
  BY <1>22 DEF Register, TransitionHeld, OperationShape
<1>23. CASE LockShared(c)
  BY <1>23 DEF LockShared, TransitionHeld, OperationShape
<1>24. CASE ReleaseShared(c)
  BY <1>24 DEF ReleaseShared
<1>25. CASE EndDevice(c)
  BY <1>25 DEF EndDevice
<1>26. CASE BeginDevice(c) /\ DeviceBusy(c)
  BY <1>26 DEF BeginDevice, DeviceBusy
<1>27. CASE BeginDevice(c) /\ SlotsBusy(c)
  BY <1>27 DEF BeginDevice, SlotsBusy, OperationShape
<1>28. CASE BeginDevice(c) /\ TakeDevice(c)
  BY <1>28 DEF BeginDevice, TakeDevice
<1> QED
  BY <1>1, <1>2, <1>3, <1>4, <1>5, <1>6, <1>7, <1>8, <1>9, <1>10,
     <1>11, <1>12, <1>13, <1>14, <1>15, <1>16, <1>17, <1>18, <1>19, <1>20,
     <1>21, <1>22, <1>23, <1>24, <1>25, <1>26, <1>27, <1>28
     DEF CallerMoves, CallerStep, TransitionStep, EndWork, AgentStep, BeginDevice

\* foregroundGlobalActive is on exactly while a scan or a bulk batch is admitted.
LEMMA CallerGlobalFlagStep ==
  ASSUME Inductive, ScanInductive, NEW c \in Callers, CallerMoves(c)
  PROVE  GlobalFlagExact'
<1> USE DEF Go, Quit, Refuse, WaitFor, callVars, IsGlobal, sharedVars, flagVars,
            GlobalHolders, TypeOK
<1> /\ c \in Agents /\ TypeOK /\ OperationShape /\ GlobalFlagExact
    /\ Callers \subseteq Agents /\ ScanShape
    /\ op[c] \in {"none", "station", "shared", "bulk", "scan"} /\ c # Recovery
  BY CoordinatorAssumption DEF Inductive, ScanInductive, Agents, OperationShape
<1> SUFFICES /\ \A b \in Agents \ {c} : pc'[b] = pc[b] /\ op'[b] = op[b]
             /\ \/ /\ foregroundGlobalActive' = foregroundGlobalActive
                   /\ c \in GlobalHolders' <=> c \in GlobalHolders
                \/ /\ foregroundGlobalActive' = FALSE
                   /\ c \notin GlobalHolders' /\ c \in GlobalHolders
                \/ foregroundGlobalActive' = TRUE /\ c \in GlobalHolders'
  <2>1. CASE /\ foregroundGlobalActive' = foregroundGlobalActive
             /\ c \in GlobalHolders' <=> c \in GlobalHolders
    <3>1. GlobalHolders' = GlobalHolders
      BY <2>1
    <3> QED
      BY <2>1, <3>1 DEF GlobalFlagExact
  <2>2. CASE /\ foregroundGlobalActive' = FALSE
             /\ c \notin GlobalHolders' /\ c \in GlobalHolders
    <3>1. GlobalHolders \subseteq Exclusive /\ Exclusive \subseteq {c}
      <4>1. GlobalHolders \subseteq Exclusive
        BY DEF Exclusive, LockedSteps
      <4>2. c \in Exclusive
        BY <2>2, <4>1
      <4> QED
        BY <4>1, <4>2 DEF Inductive, WriterAlone
    <3>2. GlobalHolders' = {}
      BY <2>2, <3>1
    <3> QED
      BY <2>2, <3>2 DEF GlobalFlagExact
  <2>3. CASE foregroundGlobalActive' = TRUE /\ c \in GlobalHolders'
    BY <2>3 DEF GlobalFlagExact
  <2> QED
    BY <2>1, <2>2, <2>3
<1>1. CASE Arrive(c)
  BY <1>1 DEF Arrive, Begin, FirstStep, ScanShape
<1>2. CASE Enter(c)
  BY <1>2 DEF Enter
<1>3. CASE ContextStopped(c)
  BY <1>3 DEF ContextStopped
<1>4. CASE LockTransition(c)
  BY <1>4 DEF LockTransition
<1>5. CASE MarkShared(c)
  BY <1>5 DEF MarkShared
<1>6. CASE EndShared(c)
  BY <1>6 DEF EndShared
<1>7. CASE EndBulk(c)
  BY <1>7 DEF EndBulk
<1>8. CASE MissedStation(c)
  BY <1>8 DEF MissedStation
<1>9. CASE MissedGlobal(c)
  BY <1>9 DEF MissedGlobal
<1>10. CASE MissedStatus(c)
  BY <1>10 DEF MissedStatus
<1>11. CASE Woken(c)
  BY <1>11 DEF Woken
<1>12. CASE StopWaiting(c)
  BY <1>12 DEF StopWaiting
<1>13. CASE ReserveScan(c)
  BY <1>13 DEF ReserveScan
<1>14. CASE PublishScan(c)
  BY <1>14 DEF PublishScan
<1>15. CASE PrepareScan(c)
  BY <1>15 DEF PrepareScan, OperationShape
<1>16. CASE FinishScan(c)
  BY <1>16 DEF FinishScan, OperationShape
<1>17. CASE AbortScan(c)
  BY <1>17 DEF AbortScan
<1>18. CASE UnpublishScan(c)
  BY <1>18 DEF UnpublishScan
<1>19. CASE LockExclusive(c)
  BY <1>19 DEF LockExclusive
<1>20. CASE MarkGlobal(c)
  BY <1>20 DEF MarkGlobal, EndOperation, lockVars
<1>21. CASE ReleaseExclusive(c)
  BY <1>21 DEF ReleaseExclusive, EndOperation
<1>22. CASE Register(c)
  BY <1>22 DEF Register
<1>23. CASE LockShared(c)
  BY <1>23 DEF LockShared, ScanShape
<1>24. CASE ReleaseShared(c)
  BY <1>24 DEF ReleaseShared
<1>25. CASE EndDevice(c)
  BY <1>25 DEF EndDevice
<1>26. CASE BeginDevice(c) /\ DeviceBusy(c)
  BY <1>26 DEF BeginDevice, DeviceBusy
<1>27. CASE BeginDevice(c) /\ SlotsBusy(c)
  BY <1>27 DEF BeginDevice, SlotsBusy
<1>28. CASE BeginDevice(c) /\ TakeDevice(c)
  BY <1>28 DEF BeginDevice, TakeDevice, OperationShape
<1> QED
  BY <1>1, <1>2, <1>3, <1>4, <1>5, <1>6, <1>7, <1>8, <1>9, <1>10,
     <1>11, <1>12, <1>13, <1>14, <1>15, <1>16, <1>17, <1>18, <1>19, <1>20,
     <1>21, <1>22, <1>23, <1>24, <1>25, <1>26, <1>27, <1>28
     DEF CallerMoves, CallerStep, TransitionStep, EndWork, AgentStep, BeginDevice

\* While a scan is published nobody but its owner is admitted.
LEMMA CallerScanAloneStep ==
  ASSUME Inductive, ScanInductive, NEW c \in Callers, CallerMoves(c), ScanSlot',
         Inductive'
  PROVE  ScanAlone'
<1> USE DEF Go, Quit, Refuse, WaitFor, callVars, IsGlobal, sharedVars, scanVars,
            Admitted, TypeOK
<1> /\ c \in Agents /\ TypeOK /\ OperationShape /\ TransitionHeld /\ ScanSlot
    /\ ScanShape /\ ScanAlone /\ Callers \subseteq Agents /\ None \notin Callers
    /\ op[c] \in {"none", "station", "shared", "bulk", "scan"} /\ c # Recovery
  BY CoordinatorAssumption DEF Inductive, ScanInductive, Agents, OperationShape
<1>1. CASE PublishScan(c)
  <2>1. transition = c /\ scanLifecycle = None /\ ~HasForeground
    BY <1>1 DEF PublishScan, TransitionHeld
  <2>2. ASSUME NEW d \in Callers \ {c},
               Admitted(d, {"station", "shared", "bulk", "scan"})
        PROVE  FALSE
    <3>1. CASE op[d] = "scan"
      BY <2>1, <2>2, <3>1 DEF ScanSlot
    <3>2. CASE op[d] = "bulk"
      BY <2>1, <2>2, <3>2 DEF ScanInductive, GlobalFlagExact, GlobalHolders,
                              HasForeground
    <3>3. CASE op[d] = "station"
      <4>1. target[d] \in Stations /\ active[target[d]] = d
        BY <2>2, <3>3 DEF Inductive, DeviceOwnership, OnStation, OperationShape
      <4> QED
        BY <2>1, <4>1 DEF HasForeground
    <3>4. CASE op[d] = "shared"
      <4>1. d \in Writing /\ IsFiniteSet(Writing)
        BY <2>2, <3>4, FiniteAgents, FS_Subset DEF Writing
      <4>2. foregroundSharedActive # 0
        BY <4>1, FS_EmptySet DEF Inductive, SharedFlagExact
      <4> QED
        BY <2>1, <4>2 DEF HasForeground
    <3> QED
      BY <2>2, <3>1, <3>2, <3>3, <3>4
  <2>3. /\ \A b \in Agents \ {c} : pc'[b] = pc[b] /\ op'[b] = op[b]
        /\ scanLifecycle' = c
    BY <1>1 DEF PublishScan
  <2> QED
    BY <2>2, <2>3 DEF ScanAlone
<1>2. ASSUME ~PublishScan(c)
      PROVE  /\ \A b \in Agents \ {c} : pc'[b] = pc[b] /\ op'[b] = op[b]
             /\ isScanning' => isScanning /\ scanLifecycle' = scanLifecycle
             /\ isScanning /\ Admitted(c, {"station", "shared", "bulk", "scan"})'
                  => Admitted(c, {"station", "shared", "bulk", "scan"})
                     \/ scanLifecycle = c
  <2> USE <1>2
  <2>1. CASE Arrive(c)
    BY <2>1 DEF Arrive, Begin, FirstStep
  <2>2. CASE Enter(c)
    BY <2>2 DEF Enter
  <2>3. CASE ContextStopped(c)
    BY <2>3 DEF ContextStopped
  <2>4. CASE LockTransition(c)
    BY <2>4 DEF LockTransition
  <2>5. CASE MarkShared(c)
    BY <2>5 DEF MarkShared, TransitionHeld, Attempting
  <2>6. CASE EndShared(c)
    BY <2>6 DEF EndShared
  <2>7. CASE EndBulk(c)
    BY <2>7 DEF EndBulk
  <2>8. CASE MissedStation(c)
    BY <2>8 DEF MissedStation
  <2>9. CASE MissedGlobal(c)
    BY <2>9 DEF MissedGlobal
  <2>10. CASE MissedStatus(c)
    BY <2>10 DEF MissedStatus
  <2>11. CASE Woken(c)
    BY <2>11 DEF Woken
  <2>12. CASE StopWaiting(c)
    BY <2>12 DEF StopWaiting
  <2>13. CASE ReserveScan(c)
    BY <2>13 DEF ReserveScan
  <2>14. CASE PublishScan(c)
    BY <2>14 DEF PublishScan
  <2>15. CASE PrepareScan(c)
    BY <2>15 DEF PrepareScan, ScanSlot, OperationShape
  <2>16. CASE FinishScan(c)
    BY <2>16 DEF FinishScan
  <2>17. CASE AbortScan(c)
    BY <2>17 DEF AbortScan
  <2>18. CASE UnpublishScan(c)
    BY <2>18 DEF UnpublishScan, TransitionHeld, EndingScan, ScanShape
  <2>19. CASE LockExclusive(c)
    BY <2>19 DEF LockExclusive
  <2>20. CASE MarkGlobal(c)
    BY <2>20 DEF MarkGlobal, EndOperation, TransitionHeld, Attempting
  <2>21. CASE ReleaseExclusive(c)
    BY <2>21 DEF ReleaseExclusive, EndOperation
  <2>22. CASE Register(c)
    BY <2>22 DEF Register
  <2>23. CASE LockShared(c)
    BY <2>23 DEF LockShared
  <2>24. CASE ReleaseShared(c)
    BY <2>24 DEF ReleaseShared
  <2>25. CASE EndDevice(c)
    BY <2>25 DEF EndDevice
  <2>26. CASE BeginDevice(c) /\ DeviceBusy(c)
    BY <2>26 DEF BeginDevice, DeviceBusy
  <2>27. CASE BeginDevice(c) /\ SlotsBusy(c)
    BY <2>27 DEF BeginDevice, SlotsBusy
  <2>28. CASE BeginDevice(c) /\ TakeDevice(c)
    BY <2>28 DEF BeginDevice, TakeDevice, TransitionHeld, Attempting,
         OperationShape
  <2> QED
    BY <2>1, <2>2, <2>3, <2>4, <2>5, <2>6, <2>7, <2>8, <2>9, <2>10,
       <2>11, <2>12, <2>13, <2>14, <2>15, <2>16, <2>17, <2>18, <2>19, <2>20,
       <2>21, <2>22, <2>23, <2>24, <2>25, <2>26, <2>27, <2>28
       DEF CallerMoves, CallerStep, TransitionStep, EndWork, AgentStep, BeginDevice
<1> QED
  BY <1>1, <1>2 DEF ScanAlone

-----------------------------------------------------------------------------
(* The background, the shutdown, and the invariant.                        *)

\* What the background leaves alone.
LEMMA BackgroundKeepsScan ==
  ASSUME Inductive,
         \/ \E a \in Agents \ Callers : AgentStep(a) \/ EndDevice(a)
         \/ RecoveryRound \/ RecoveryStep \/ \E s \in Stations : BeginRecovery(s)
         \/ \E r \in Refreshes : \/ BeginRefresh(r) \/ RefreshStep(r)
                                 \/ SkipRest(r) \/ AbandonRefresh(r)
         \/ BeginShutdown \/ Drain \/ UNCHANGED vars
  PROVE  /\ \A c \in Callers : pc'[c] = pc[c] /\ op'[c] = op[c]
         /\ UNCHANGED <<scanVars, foregroundGlobalActive>>
         /\ HasForeground' => HasForeground
         /\ \A c \in Callers, s \in Stations : active'[s] = c => active[s] = c
<1> USE DEF Go, callVars, sharedVars, scanVars, flagVars, deviceVars, agentVars,
            TypeOK, HasForeground
<1> TypeOK /\ Callers \subseteq Agents /\ Refreshes \subseteq Agents
    /\ Recovery \in Agents \ Callers /\ Callers \cap Refreshes = {}
    /\ None \notin Callers
  BY CoordinatorAssumption DEF Inductive, Agents
<1>1. ASSUME NEW a \in Agents \ Callers, AgentStep(a) \/ EndDevice(a)
      PROVE  /\ \A c \in Callers : pc'[c] = pc[c] /\ op'[c] = op[c]
             /\ UNCHANGED <<scanVars, foregroundGlobalActive, foregroundSharedActive>>
             /\ \A c \in Callers, s \in Stations : active'[s] = c => active[s] = c
  <2> USE DEF Quit, Refuse, WaitFor, UnlockTransition
  <2>1. CASE Register(a)
    BY <2>1 DEF Register
  <2>2. CASE LockShared(a)
    BY <2>2 DEF LockShared
  <2>3. CASE ReleaseShared(a)
    BY <2>3 DEF ReleaseShared
  <2>4. CASE EndDevice(a)
    BY <2>4 DEF EndDevice
  <2>5. CASE BeginDevice(a) /\ DeviceBusy(a)
    BY <2>5 DEF BeginDevice, DeviceBusy
  <2>6. CASE BeginDevice(a) /\ SlotsBusy(a)
    BY <2>6 DEF BeginDevice, SlotsBusy
  <2>7. CASE BeginDevice(a) /\ TakeDevice(a)
    BY <2>7 DEF BeginDevice, TakeDevice
  <2> QED
    BY <1>1, <2>1, <2>2, <2>3, <2>4, <2>5, <2>6, <2>7 DEF AgentStep, BeginDevice
<1>2. CASE RecoveryRound \/ RecoveryStep \/ \E s \in Stations : BeginRecovery(s)
  BY <1>2 DEF RecoveryRound, RecoveryStep, RecoveryRoundEnd, ClearRecovery,
              RecoveryExit, BeginRecovery
<1>3. ASSUME NEW r \in Refreshes,
             \/ BeginRefresh(r) \/ RefreshStep(r) \/ SkipRest(r)
             \/ AbandonRefresh(r)
      PROVE  /\ \A c \in Callers : pc'[c] = pc[c] /\ op'[c] = op[c]
             /\ UNCHANGED <<scanVars, flagVars, deviceVars>>
  BY <1>3 DEF BeginRefresh, RefreshStep, SkipRest, AbandonRefresh,
       RegisterRefresh, LockRefresh, Dispatch, JoinRefresh, EndRefresh,
       EndAbandoned
<1>4. CASE BeginShutdown \/ Drain \/ UNCHANGED vars
  BY <1>4 DEF BeginShutdown, Drain, DrainStep, vars
<1> QED
  BY <1>1, <1>2, <1>3, <1>4

\* So it keeps what the invariant says about the scan.
LEMMA ScanInvariantUnmoved ==
  ASSUME Inductive, ScanInductive,
         \A c \in Callers : pc'[c] = pc[c] /\ op'[c] = op[c],
         UNCHANGED <<scanVars, foregroundGlobalActive>>,
         HasForeground' => HasForeground
  PROVE  (ScanShape /\ TransitionHeld /\ ScanSlot /\ GlobalFlagExact /\ ScanAlone)'
<1> USE DEF ScanInductive, scanVars
<1>1. ScanShape' /\ ScanSlot' /\ ScanAlone'
  BY DEF ScanShape, ScanSlot, ScanAlone, Admitted
<1>2. TransitionHeld'
  BY DEF TransitionHeld, Attempting, EndingScan
<1>3. GlobalFlagExact'
  BY DEF GlobalFlagExact, GlobalHolders
<1> QED
  BY <1>1, <1>2, <1>3

\* A scan begins with its reservation, which the shutdown refuses; the loop that
\* exited does not come back.
LEMMA DrainPassedStep ==
  ASSUME Inductive, ScanInductive, [Next]_vars
  PROVE  DrainPassed'
<1> /\ TypeOK /\ DrainHolds /\ DrainPassed /\ ScanShape /\ OperationShape
    /\ Callers \subseteq Agents /\ Recovery \in Agents \ Callers
    /\ Recovery \notin Refreshes /\ Refreshes \cap Callers = {}
    /\ Refreshes \subseteq Agents
  BY CoordinatorAssumption DEF Inductive, ScanInductive, Agents
<1>1. CASE Drain
  <2>1. UNCHANGED <<pc, op>>
    BY <1>1 DEF Drain, DrainStep, agentVars, callVars
  <2> QED
    BY <1>1, <2>1 DEF Drain, DrainStep, DrainPassed, AsyncScans
<1>2. CASE BeginShutdown
  BY <1>2 DEF BeginShutdown, DrainPassed
<1>3. CASE UNCHANGED vars
  BY <1>3 DEF vars, agentVars, callVars, worldVars, lifeVars, DrainPassed,
              AsyncScans
<1>4. ASSUME Next, ~(BeginShutdown \/ Drain)
      PROVE  DrainPassed'
  <2>1. UNCHANGED drain
    BY <1>4, OnlyDrainMoves DEF lifeVars
  <2>2. pc[Recovery] = "exited" => pc'[Recovery] = "exited"
    <3> USE DEF Go, Quit, Refuse, WaitFor, callVars, agentVars, TypeOK
    <3>1. ASSUME NEW c \in Callers, CallerMoves(c)
          PROVE  pc'[Recovery] = pc[Recovery]
      <4> c \in Agents /\ c # Recovery
        OBVIOUS
      <4>1. CASE Arrive(c)
        BY <4>1 DEF Arrive, Begin, FirstStep
      <4>2. CASE Enter(c)
        BY <4>2 DEF Enter
      <4>3. CASE ContextStopped(c)
        BY <4>3 DEF ContextStopped
      <4>4. CASE LockTransition(c)
        BY <4>4 DEF LockTransition
      <4>5. CASE MarkShared(c)
        BY <4>5 DEF MarkShared
      <4>6. CASE EndShared(c)
        BY <4>6 DEF EndShared
      <4>7. CASE EndBulk(c)
        BY <4>7 DEF EndBulk
      <4>8. CASE MissedStation(c)
        BY <4>8 DEF MissedStation
      <4>9. CASE MissedGlobal(c)
        BY <4>9 DEF MissedGlobal
      <4>10. CASE MissedStatus(c)
        BY <4>10 DEF MissedStatus
      <4>11. CASE Woken(c)
        BY <4>11 DEF Woken
      <4>12. CASE StopWaiting(c)
        BY <4>12 DEF StopWaiting
      <4>13. CASE ReserveScan(c)
        BY <4>13 DEF ReserveScan
      <4>14. CASE PublishScan(c)
        BY <4>14 DEF PublishScan
      <4>15. CASE PrepareScan(c)
        BY <4>15 DEF PrepareScan
      <4>16. CASE FinishScan(c)
        BY <4>16 DEF FinishScan
      <4>17. CASE AbortScan(c)
        BY <4>17 DEF AbortScan
      <4>18. CASE UnpublishScan(c)
        BY <4>18 DEF UnpublishScan
      <4>19. CASE LockExclusive(c)
        BY <4>19 DEF LockExclusive
      <4>20. CASE MarkGlobal(c)
        BY <4>20 DEF MarkGlobal, EndOperation
      <4>21. CASE ReleaseExclusive(c)
        BY <4>21 DEF ReleaseExclusive, EndOperation
      <4>22. CASE Register(c)
        BY <4>22 DEF Register
      <4>23. CASE LockShared(c)
        BY <4>23 DEF LockShared
      <4>24. CASE ReleaseShared(c)
        BY <4>24 DEF ReleaseShared
      <4>25. CASE EndDevice(c)
        BY <4>25 DEF EndDevice
      <4>26. CASE BeginDevice(c) /\ DeviceBusy(c)
        BY <4>26 DEF BeginDevice, DeviceBusy
      <4>27. CASE BeginDevice(c) /\ SlotsBusy(c)
        BY <4>27 DEF BeginDevice, SlotsBusy
      <4>28. CASE BeginDevice(c) /\ TakeDevice(c)
        BY <4>28 DEF BeginDevice, TakeDevice
      <4> QED
        BY <3>1, <4>1, <4>2, <4>3, <4>4, <4>5, <4>6, <4>7, <4>8, <4>9, <4>10,
           <4>11, <4>12, <4>13, <4>14, <4>15, <4>16, <4>17, <4>18, <4>19, <4>20,
           <4>21, <4>22, <4>23, <4>24, <4>25, <4>26, <4>27, <4>28
           DEF CallerMoves, CallerStep, TransitionStep, EndWork, AgentStep, BeginDevice
    <3>2. ASSUME NEW a \in Agents \ Callers, AgentStep(a) \/ EndDevice(a)
          PROVE  pc[Recovery] = "exited" => pc'[Recovery] = "exited"
      BY <3>2 DEF AgentStep, Register, LockShared, BeginDevice, DeviceBusy,
           SlotsBusy, TakeDevice, ReleaseShared, EndDevice
    <3>3. ASSUME NEW r \in Refreshes,
                 \/ BeginRefresh(r) \/ RefreshStep(r) \/ SkipRest(r)
                 \/ AbandonRefresh(r)
          PROVE  pc'[Recovery] = pc[Recovery]
      BY <3>3 DEF BeginRefresh, RefreshStep, SkipRest, AbandonRefresh,
           RegisterRefresh, LockRefresh, Dispatch, JoinRefresh, EndRefresh,
           EndAbandoned
    <3>4. CASE RecoveryRound \/ RecoveryStep \/ \E s \in Stations : BeginRecovery(s)
      BY <3>4 DEF RecoveryRound, RecoveryStep, RecoveryRoundEnd, ClearRecovery,
           RecoveryExit, BeginRecovery
    <3> QED
      BY <1>4, <3>1, <3>2, <3>3, <3>4 DEF Next, CallerMoves
  <2>3. shuttingDown => AsyncScans' \subseteq AsyncScans
    <3> USE DEF Go, Quit, Refuse, WaitFor, callVars, agentVars, IsGlobal,
                TypeOK, AsyncScans
    <3>1. ASSUME NEW c \in Callers, CallerMoves(c), shuttingDown
          PROVE  /\ \A b \in Agents \ {c} : pc'[b] = pc[b] /\ op'[b] = op[b]
                 /\ c \in AsyncScans' => c \in AsyncScans
      <4> c \in Agents
        OBVIOUS
      <4>1. CASE Arrive(c)
        BY <3>1, <4>1, CoordinatorAssumption DEF Arrive, Begin, FirstStep
      <4>2. CASE Enter(c)
        BY <3>1, <4>2 DEF Enter
      <4>3. CASE ContextStopped(c)
        BY <3>1, <4>3 DEF ContextStopped
      <4>4. CASE LockTransition(c)
        BY <3>1, <4>4 DEF LockTransition
      <4>5. CASE MarkShared(c)
        BY <3>1, <4>5 DEF MarkShared
      <4>6. CASE EndShared(c)
        BY <3>1, <4>6 DEF EndShared
      <4>7. CASE EndBulk(c)
        BY <3>1, <4>7 DEF EndBulk
      <4>8. CASE MissedStation(c)
        BY <3>1, <4>8 DEF MissedStation
      <4>9. CASE MissedGlobal(c)
        BY <3>1, <4>9 DEF MissedGlobal
      <4>10. CASE MissedStatus(c)
        BY <3>1, <4>10 DEF MissedStatus
      <4>11. CASE Woken(c)
        BY <3>1, <4>11 DEF Woken
      <4>12. CASE StopWaiting(c)
        BY <3>1, <4>12 DEF StopWaiting
      <4>13. CASE ReserveScan(c)
        BY <3>1, <4>13 DEF ReserveScan
      <4>14. CASE PublishScan(c)
        BY <3>1, <4>14 DEF PublishScan
      <4>15. CASE PrepareScan(c)
        BY <3>1, <4>15 DEF PrepareScan
      <4>16. CASE FinishScan(c)
        BY <3>1, <4>16 DEF FinishScan
      <4>17. CASE AbortScan(c)
        BY <3>1, <4>17 DEF AbortScan
      <4>18. CASE UnpublishScan(c)
        BY <3>1, <4>18 DEF UnpublishScan
      <4>19. CASE LockExclusive(c)
        BY <3>1, <4>19 DEF LockExclusive
      <4>20. CASE MarkGlobal(c)
        BY <3>1, <4>20 DEF MarkGlobal, EndOperation
      <4>21. CASE ReleaseExclusive(c)
        BY <3>1, <4>21 DEF ReleaseExclusive, EndOperation
      <4>22. CASE Register(c)
        BY <3>1, <4>22 DEF Register
      <4>23. CASE LockShared(c)
        BY <3>1, <4>23 DEF LockShared
      <4>24. CASE ReleaseShared(c)
        BY <3>1, <4>24 DEF ReleaseShared
      <4>25. CASE EndDevice(c)
        BY <3>1, <4>25 DEF EndDevice
      <4>26. CASE BeginDevice(c) /\ DeviceBusy(c)
        BY <3>1, <4>26 DEF BeginDevice, DeviceBusy
      <4>27. CASE BeginDevice(c) /\ SlotsBusy(c)
        BY <3>1, <4>27 DEF BeginDevice, SlotsBusy
      <4>28. CASE BeginDevice(c) /\ TakeDevice(c)
        BY <3>1, <4>28 DEF BeginDevice, TakeDevice
      <4> QED
        BY <3>1, <4>1, <4>2, <4>3, <4>4, <4>5, <4>6, <4>7, <4>8, <4>9, <4>10,
           <4>11, <4>12, <4>13, <4>14, <4>15, <4>16, <4>17, <4>18, <4>19, <4>20,
           <4>21, <4>22, <4>23, <4>24, <4>25, <4>26, <4>27, <4>28
           DEF CallerMoves, CallerStep, TransitionStep, EndWork, AgentStep, BeginDevice
    <3>2. ASSUME NEW c \in Callers, CallerMoves(c), shuttingDown
          PROVE  AsyncScans' \subseteq AsyncScans
      BY <3>1, <3>2
    <3>3. ASSUME \A c \in Callers : pc'[c] = pc[c] /\ op'[c] = op[c]
          PROVE  AsyncScans' \subseteq AsyncScans
      BY <3>3
    <3> QED
      BY <1>4, <3>2, <3>3, BackgroundKeepsScan DEF Next, CallerMoves
  <2> QED
    BY <2>1, <2>2, <2>3 DEF DrainPassed, DrainHolds
<1> QED
  BY <1>1, <1>2, <1>3, <1>4

\* Every step keeps it.
LEMMA ScanInductiveStep ==
  ASSUME Inductive, Inductive', ScanInductive, [Next]_vars
  PROVE  ScanInductive'
<1>1. DrainPassed'
  BY DrainPassedStep
<1>2. ASSUME NEW c \in Callers, CallerMoves(c)
      PROVE  (ScanShape /\ TransitionHeld /\ ScanSlot /\ GlobalFlagExact
                /\ ScanAlone)'
  BY <1>2, CallerSlotStep, CallerScanShapeStep, CallerTransitionStep,
     CallerGlobalFlagStep, CallerScanAloneStep
<1>3. ASSUME ~\E c \in Callers : CallerMoves(c)
      PROVE  (ScanShape /\ TransitionHeld /\ ScanSlot /\ GlobalFlagExact
                /\ ScanAlone)'
  <2>1. \/ \E a \in Agents \ Callers : AgentStep(a) \/ EndDevice(a)
        \/ RecoveryRound \/ RecoveryStep \/ \E s \in Stations : BeginRecovery(s)
        \/ \E r \in Refreshes : \/ BeginRefresh(r) \/ RefreshStep(r)
                                \/ SkipRest(r) \/ AbandonRefresh(r)
        \/ BeginShutdown \/ Drain \/ UNCHANGED vars
    BY <1>3 DEF Next, CallerMoves
  <2> QED
    BY <2>1, BackgroundKeepsScan, ScanInvariantUnmoved
<1> QED
  BY <1>1, <1>2, <1>3 DEF ScanInductive

\* Nothing is reserved or published at the start.
LEMMA InitScanInductive == Init => ScanInductive
<1> SUFFICES ASSUME Init PROVE ScanInductive
  OBVIOUS
<1>1. /\ \A c \in Callers : pc[c] = "idle" /\ op[c] = "none"
      /\ scanLifecycle = None /\ isScanning = FALSE /\ None \notin Callers
      /\ foregroundGlobalActive = FALSE /\ drain = "none"
  BY CoordinatorAssumption DEF Init, Agents
<1> QED
  BY <1>1 DEF ScanInductive, ScanShape, TransitionHeld, Attempting, EndingScan,
     ScanSlot, GlobalFlagExact, GlobalHolders, ScanAlone, DrainPassed

-----------------------------------------------------------------------------
(* The theorems.                                                           *)

\* The second inductive invariant, on top of the first.
THEOREM ScanInvariant == Spec => [](Inductive /\ ScanInductive)
<1>1. Init => Inductive /\ ScanInductive
  BY InitInductive, InitScanInductive
<1>2. Inductive /\ ScanInductive /\ [Next]_vars => Inductive' /\ ScanInductive'
  BY InductiveStep, ScanInductiveStep
<1> QED
  BY <1>1, <1>2, PTL DEF Spec

\* No foreground work is admitted beside a published scan: neither what began
\* before the reservation nor what arrived or drained while it was made.
THEOREM ScanIsAlone == Spec => []ScanAlone
<1>1. ScanInductive => ScanAlone
  BY DEF ScanInductive
<1> QED
  BY <1>1, ScanInvariant, PTL

\* There is one scan, and the published lifecycle is its own.
THEOREM ScanHasItsSlot == Spec => []ScanSlot
<1>1. ScanInductive => ScanSlot
  BY DEF ScanInductive
<1> QED
  BY <1>1, ScanInvariant, PTL

\* The fleet is disconnected behind the last operation, the last scan and the
\* recovery loop.
THEOREM DrainLeavesQuiet == Spec => []DrainedIsQuiet
<1>1. Inductive /\ ScanInductive => DrainedIsQuiet
  <2> SUFFICES ASSUME Inductive, ScanInductive, drain = "disconnecting"
               PROVE  /\ RegisteredAgents = {} /\ RegisteredRefreshes = {}
                      /\ OnStation = {} /\ Exclusive = {}
                      /\ scanLifecycle \in SyncScanners \cup {None}
                      /\ pc[Recovery] = "exited"
    BY DEF DrainedIsQuiet
  <2>1. RegisteredAgents = {} /\ RegisteredRefreshes = {}
    BY RegisteredIsOpen
  <2>2. OnStation = {} /\ Exclusive = {}
    BY <2>1 DEF RegisteredAgents, OnStation, Exclusive, LockedSteps
  <2>3. pc[Recovery] = "exited" /\ AsyncScans = {}
    BY DEF ScanInductive, DrainPassed
  <2>4. scanLifecycle \in SyncScanners \cup {None}
    BY <2>3 DEF ScanInductive, ScanSlot, AsyncScans, Inductive, TypeOK
  <2> QED
    BY <2>1, <2>2, <2>3, <2>4
<1> QED
  BY <1>1, ScanInvariant, PTL

-----------------------------------------------------------------------------
(* Background work and those who wait for it.                              *)

\* Somebody will close the channel.
HasCloser(x) ==
  /\ x \in Stations => active[x] \in Agents \ Callers
  /\ x \in Refreshes => phase[x] # "idle"
  /\ x = Recovery => recoveryDone

\* The sets that channels, agents and owners are told apart by.
LEMMA Apart ==
  /\ Callers \subseteq Agents /\ Refreshes \subseteq Agents /\ Recovery \in Agents
  /\ Callers \cap Refreshes = {} /\ Recovery \notin Callers \cup Refreshes \cup Stations
  /\ Stations \cap Refreshes = {} /\ None \notin Agents \cup Stations
BY CoordinatorAssumption DEF Agents

\* Nobody waits for a caller's work, and nobody begins to wait for work that
\* has ended.
LEMMA CallerWaitStep ==
  ASSUME Inductive, StatusShape, NEW c \in Callers, CallerMoves(c)
  PROVE  /\ UNCHANGED <<phase, statusMutex, statusDone, recoveryDone>>
         /\ pc'[Recovery] = pc[Recovery]
         /\ \A d \in Callers :
              waitOn'[d] = waitOn[d] \/ waitOn'[d] = None \/ HasCloser(waitOn'[d])
         /\ \A s \in Stations :
              active'[s] = active[s] \/ active[s] \notin Agents \ Callers
<1> USE Apart DEF Go, Quit, Refuse, WaitFor, callVars, sharedVars, worldVars, deviceVars,
                  statusVars, TypeOK
<1> TypeOK /\ c \in Agents /\ DeviceOwnership /\ OperationShape
  BY DEF Inductive
<1>1. CASE Arrive(c)
  BY <1>1 DEF Arrive, Begin, FirstStep
<1>2. CASE Enter(c)
  BY <1>2 DEF Enter
<1>3. CASE ContextStopped(c)
  BY <1>3 DEF ContextStopped
<1>4. CASE LockTransition(c)
  BY <1>4 DEF LockTransition
<1>5. CASE MarkShared(c)
  BY <1>5 DEF MarkShared
<1>6. CASE EndShared(c)
  BY <1>6 DEF EndShared
<1>7. CASE EndBulk(c)
  BY <1>7 DEF EndBulk
<1>8. CASE MissedStation(c)
  BY <1>8 DEF MissedStation, HasCloser
<1>9. CASE MissedGlobal(c)
  BY <1>9 DEF MissedGlobal, HasCloser
<1>10. CASE MissedStatus(c)
  BY <1>10 DEF MissedStatus, HasCloser, StatusShape
<1>11. CASE Woken(c)
  BY <1>11 DEF Woken
<1>12. CASE StopWaiting(c)
  BY <1>12 DEF StopWaiting
<1>13. CASE ReserveScan(c)
  BY <1>13 DEF ReserveScan
<1>14. CASE PublishScan(c)
  BY <1>14 DEF PublishScan
<1>15. CASE PrepareScan(c)
  BY <1>15 DEF PrepareScan
<1>16. CASE FinishScan(c)
  BY <1>16 DEF FinishScan
<1>17. CASE AbortScan(c)
  BY <1>17 DEF AbortScan
<1>18. CASE UnpublishScan(c)
  BY <1>18 DEF UnpublishScan
<1>19. CASE LockExclusive(c)
  BY <1>19 DEF LockExclusive
<1>20. CASE MarkGlobal(c)
  BY <1>20 DEF MarkGlobal
<1>21. CASE ReleaseExclusive(c)
  BY <1>21 DEF ReleaseExclusive
<1>22. CASE Register(c)
  BY <1>22 DEF Register
<1>23. CASE LockShared(c)
  BY <1>23 DEF LockShared
<1>24. CASE ReleaseShared(c)
  BY <1>24 DEF ReleaseShared
<1>25. CASE EndDevice(c)
  BY <1>25 DEF EndDevice, Close, OnStation, OperationShape, DeviceOwnership
<1>26. CASE BeginDevice(c) /\ DeviceBusy(c)
  BY <1>26 DEF BeginDevice, DeviceBusy, HasCloser, OperationShape
<1>27. CASE BeginDevice(c) /\ SlotsBusy(c)
  BY <1>27 DEF BeginDevice, SlotsBusy
<1>28. CASE BeginDevice(c) /\ TakeDevice(c)
  BY <1>28 DEF BeginDevice, TakeDevice, OperationShape
<1> QED
  BY <1>1, <1>2, <1>3, <1>4, <1>5, <1>6, <1>7, <1>8, <1>9, <1>10, <1>11, <1>12, <1>13, <1>14,
      <1>15, <1>16, <1>17, <1>18, <1>19, <1>20, <1>21, <1>22, <1>23, <1>24, <1>25, <1>26, <1>27,
      <1>28
     DEF CallerMoves, CallerStep, TransitionStep, EndWork, AgentStep, BeginDevice

\* Nor does it disturb those who wait already.
LEMMA CallerKeepsWait ==
  ASSUME Inductive, WaitInductive, NEW c \in Callers, CallerMoves(c)
  PROVE  WaitInductive'
<1>1. /\ UNCHANGED <<phase, statusMutex, statusDone, recoveryDone>>
      /\ pc'[Recovery] = pc[Recovery]
  BY CallerWaitStep DEF WaitInductive
<1>2. StatusShape' /\ RecoveryShape'
  BY <1>1 DEF WaitInductive, StatusShape, RecoveryShape
<1>3. ASSUME NEW x, HasCloser(x)
      PROVE  HasCloser(x)'
  <2>1. x \in Stations => active'[x] = active[x]
    BY <1>3, CallerWaitStep DEF WaitInductive, HasCloser
  <2> QED
    BY <1>1, <1>3, <2>1 DEF HasCloser
<1>4. HasCloser(None)'
  BY Apart DEF HasCloser
<1>5. ASSUME NEW d \in Callers
      PROVE  HasCloser(waitOn[d])'
  <2>1. HasCloser(waitOn[d])
    BY DEF WaitInductive, WaitersHaveCloser, HasCloser
  <2>2. waitOn'[d] = waitOn[d] \/ waitOn'[d] = None \/ HasCloser(waitOn'[d])
    BY CallerWaitStep DEF WaitInductive
  <2> QED
    BY <1>3, <1>4, <2>1, <2>2 DEF HasCloser
<1> QED
  BY <1>2, <1>5 DEF WaitInductive, WaitersHaveCloser, HasCloser

\* A background operation lets its waiters go with the station it gives back.
LEMMA BackgroundAgentKeepsWait ==
  ASSUME Inductive, WaitInductive, NEW a \in Agents \ Callers, AgentStep(a) \/ EndDevice(a)
  PROVE  WaitInductive'
<1> USE Apart DEF Go, Quit, Refuse, callVars, sharedVars, worldVars, deviceVars, statusVars,
                  TypeOK
<1> TypeOK /\ DeviceOwnership /\ OperationShape
  BY DEF Inductive
<1> SUFFICES /\ UNCHANGED <<phase, statusMutex, statusDone, recoveryDone>>
             /\ RecoveryShape'
             /\ \A d \in Callers : waitOn'[d] = waitOn[d] \/ waitOn'[d] = None
             /\ \A s \in Stations :
                  \/ active'[s] = active[s] \/ active[s] = None
                  \/ \A d \in Callers : waitOn'[d] # s
  BY DEF WaitInductive, StatusShape, WaitersHaveCloser
<1>0. /\ RecoveryShape /\ op[Recovery] = "recovery"
      /\ \A r \in Refreshes : op[r] = "status"
  BY DEF WaitInductive, OperationShape
<1>1. CASE Register(a)
  BY <1>0, <1>1 DEF Register, RecoveryShape
<1>2. CASE LockShared(a)
  BY <1>0, <1>2 DEF LockShared, RecoveryShape
<1>3. CASE ReleaseShared(a)
  BY <1>0, <1>3 DEF ReleaseShared, RecoveryShape
<1>4. CASE BeginDevice(a) /\ DeviceBusy(a)
  BY <1>0, <1>4 DEF BeginDevice, DeviceBusy, RecoveryShape
<1>5. CASE BeginDevice(a) /\ SlotsBusy(a)
  BY <1>0, <1>5 DEF BeginDevice, SlotsBusy, RecoveryShape
<1>6. CASE BeginDevice(a) /\ TakeDevice(a)
  BY <1>0, <1>6 DEF BeginDevice, TakeDevice, RecoveryShape
<1>7. CASE EndDevice(a)
  BY <1>0, <1>7 DEF EndDevice, Close, RecoveryShape
<1> QED
  BY <1>1, <1>2, <1>3, <1>4, <1>5, <1>6, <1>7 DEF AgentStep, BeginDevice

\* The recovery closes its channel as it takes it back.
LEMMA RecoveryKeepsWait ==
  ASSUME Inductive, WaitInductive,
         RecoveryRound \/ RecoveryStep \/ \E s \in Stations : BeginRecovery(s)
  PROVE  WaitInductive'
<1> USE Apart DEF Go, callVars, sharedVars, worldVars, deviceVars, statusVars, WaitInductive,
                  StatusShape, RecoveryShape, WaitersHaveCloser, TypeOK
<1> TypeOK
  BY DEF Inductive
<1>1. CASE RecoveryRound
  BY <1>1 DEF RecoveryRound
<1>2. CASE RecoveryRoundEnd
  BY <1>2 DEF RecoveryRoundEnd
<1>3. CASE RecoveryExit
  BY <1>3 DEF RecoveryExit
<1>4. CASE ClearRecovery
  BY <1>4 DEF ClearRecovery, Close
<1>5. CASE \E s \in Stations : BeginRecovery(s)
  BY <1>5 DEF BeginRecovery
<1> QED
  BY <1>1, <1>2, <1>3, <1>4, <1>5 DEF RecoveryStep

\* A refresh that ends closes its own channel, the published one or, abandoned,
\* the one that callers have kept.
LEMMA RefreshKeepsWait ==
  ASSUME Inductive, WaitInductive, NEW r \in Refreshes,
         \/ BeginRefresh(r) \/ RefreshStep(r) \/ SkipRest(r) \/ AbandonRefresh(r)
  PROVE  WaitInductive'
<1> USE Apart DEF callVars, sharedVars, deviceVars, agentVars, WaitInductive,
                  StatusShape, RecoveryShape, WaitersHaveCloser, TypeOK, Phase
<1> TypeOK
  BY DEF Inductive
<1>1. CASE BeginRefresh(r)
  BY <1>1 DEF BeginRefresh
<1>2. CASE RegisterRefresh(r)
  BY <1>2 DEF RegisterRefresh
<1>3. CASE \E candidates \in SUBSET Stations : LockRefresh(r, candidates)
  BY <1>3 DEF LockRefresh
<1>4. CASE \E s \in Stations : Dispatch(r, s)
  BY <1>4 DEF Dispatch
<1>5. CASE JoinRefresh(r)
  BY <1>5 DEF JoinRefresh
<1>6. CASE EndRefresh(r)
  BY <1>6 DEF EndRefresh, Close
<1>7. CASE EndAbandoned(r)
  BY <1>7 DEF EndAbandoned, Close
<1>8. CASE SkipRest(r)
  BY <1>8 DEF SkipRest
<1>9. CASE AbandonRefresh(r)
  BY <1>9 DEF AbandonRefresh
<1> QED
  BY <1>1, <1>2, <1>3, <1>4, <1>5, <1>6, <1>7, <1>8, <1>9 DEF RefreshStep

\* Every step keeps it.
LEMMA WaitInductiveStep ==
  ASSUME Inductive, WaitInductive, [Next]_vars
  PROVE  WaitInductive'
<1>1. ASSUME NEW c \in Callers, CallerMoves(c)
      PROVE  WaitInductive'
  BY <1>1, CallerKeepsWait
<1>2. CASE BeginShutdown \/ Drain \/ UNCHANGED vars
  <2>1. UNCHANGED <<waitOn, active, phase, statusMutex, statusDone, recoveryDone, pc>>
    BY <1>2 DEF BeginShutdown, Drain, DrainStep, vars, statusVars, sharedVars, deviceVars,
                agentVars, worldVars
  <2> QED
    BY <2>1 DEF WaitInductive, StatusShape, RecoveryShape, WaitersHaveCloser
<1> QED
  BY <1>1, <1>2, BackgroundAgentKeepsWait, RecoveryKeepsWait, RefreshKeepsWait
     DEF Next, CallerMoves

LEMMA InitWaitInductive == Init => WaitInductive
BY Apart DEF Init, WaitInductive, StatusShape, RecoveryShape, WaitersHaveCloser

\* The third inductive invariant: what is published for callers to wait on is
\* the work that closes it.
THEOREM WaitInvariant == Spec => [](Inductive /\ WaitInductive)
<1>1. Init => Inductive /\ WaitInductive
  BY InitInductive, InitWaitInductive
<1>2. Inductive /\ WaitInductive /\ [Next]_vars => Inductive' /\ WaitInductive'
  BY InductiveStep, WaitInductiveStep
<1> QED
  BY <1>1, <1>2, PTL DEF Spec

\* A captured done channel has a closer, even when the manager has published a
\* newer refresh beside an abandoned one (endStatusLifecycle and
\* abandonStatusLifecycle, coordinator.go:193-219; the recovery's, 351-372).
THEOREM WaitersAreClosed == Spec => []WaitersHaveCloser
<1>1. WaitInductive => WaitersHaveCloser
  BY DEF WaitInductive
<1> QED
  BY <1>1, WaitInvariant, PTL

-----------------------------------------------------------------------------
(* Action properties.                                                      *)

\* What CancelOnlyTheAwaited says of the step that cancels b.
Awaits(c, b) ==
  /\ pc'[c] = "waiting" /\ pc[c] # "waiting"
  /\ \/ waitOn'[c] = b
     \/ waitOn'[c] \in Stations /\ active[waitOn'[c]] = b

\* A caller cancels in the four steps that find background work in their way.
LEMMA CallerCancelStep ==
  ASSUME Inductive, NEW c \in Callers, CallerMoves(c), NEW b \in cancelled' \ cancelled
  PROVE  Awaits(c, b)
<1> USE Apart DEF TypeOK, WaitFor, Go, Awaits
<1> TypeOK /\ OperationShape /\ c \in Agents
  BY DEF Inductive
<1>1. CASE MissedStation(c)
  BY <1>1 DEF MissedStation
<1>2. CASE MissedGlobal(c)
  BY <1>2 DEF MissedGlobal
<1>3. CASE MissedStatus(c)
  BY <1>3 DEF MissedStatus
<1>4. CASE BeginDevice(c) /\ DeviceBusy(c)
  BY <1>4 DEF BeginDevice, DeviceBusy, OperationShape
<1>5. ASSUME ~MissedStation(c), ~MissedGlobal(c), ~MissedStatus(c),
             ~(BeginDevice(c) /\ DeviceBusy(c))
      PROVE  cancelled' = cancelled
  <2> USE DEF worldVars
  <2>1. CASE Arrive(c)
    BY <2>1 DEF Arrive, Begin
  <2>2. CASE CallerStep(c)
    <3>1. CASE Enter(c) \/ MarkShared(c) \/ LockExclusive(c) \/ MarkGlobal(c) \/ Woken(c)
      BY <3>1 DEF Enter, MarkShared, LockExclusive, MarkGlobal, Woken
    <3>2. CASE PublishScan(c) \/ PrepareScan(c) \/ UnpublishScan(c) \/ ReleaseExclusive(c)
      BY <3>2 DEF PublishScan, PrepareScan, UnpublishScan, ReleaseExclusive
    <3> QED
      BY <1>5, <2>2, <3>1, <3>2 DEF CallerStep
  <2>3. CASE TransitionStep(c)
    BY <2>3 DEF TransitionStep, LockTransition, ReserveScan, FinishScan, AbortScan
  <2>4. CASE EndWork(c) \/ ContextStopped(c) \/ StopWaiting(c) \/ EndDevice(c)
    BY <2>4 DEF EndWork, EndShared, EndBulk, ContextStopped, StopWaiting, EndDevice
  <2>5. CASE AgentStep(c)
    BY <1>5, <2>5 DEF AgentStep, Register, LockShared, ReleaseShared, BeginDevice, SlotsBusy, TakeDevice
  <2> QED
    BY <2>1, <2>2, <2>3, <2>4, <2>5 DEF CallerMoves
<1> QED
  BY <1>1, <1>2, <1>3, <1>4, <1>5

\* The background cancels nothing; it clears its own mark when it begins or ends.
LEMMA BackgroundCancelsNothing ==
  ASSUME \/ \E a \in Agents \ Callers : AgentStep(a) \/ EndDevice(a)
         \/ RecoveryRound \/ RecoveryStep \/ \E s \in Stations : BeginRecovery(s)
         \/ \E r \in Refreshes : \/ BeginRefresh(r) \/ RefreshStep(r)
                                 \/ SkipRest(r) \/ AbandonRefresh(r)
         \/ BeginShutdown \/ Drain \/ UNCHANGED vars
  PROVE  cancelled' \subseteq cancelled
<1> USE DEF worldVars
<1>1. CASE \E a \in Agents \ Callers : AgentStep(a) \/ EndDevice(a)
  BY <1>1 DEF AgentStep, Register, LockShared, ReleaseShared, BeginDevice, SlotsBusy, TakeDevice,
              DeviceBusy, EndDevice
<1>2. CASE RecoveryRound \/ RecoveryStep \/ \E s \in Stations : BeginRecovery(s)
  BY <1>2 DEF RecoveryRound, RecoveryStep, RecoveryRoundEnd, ClearRecovery, RecoveryExit, BeginRecovery
<1>3. CASE \E r \in Refreshes : BeginRefresh(r) \/ RefreshStep(r) \/ SkipRest(r) \/ AbandonRefresh(r)
  BY <1>3 DEF BeginRefresh, RefreshStep, SkipRest, AbandonRefresh, RegisterRefresh, LockRefresh,
              Dispatch, JoinRefresh, EndRefresh, EndAbandoned
<1>4. CASE BeginShutdown \/ Drain \/ UNCHANGED vars
  BY <1>4 DEF BeginShutdown, Drain, DrainStep, vars
<1> QED
  BY <1>1, <1>2, <1>3, <1>4

\* A caller that cancels background work waits for that very work, never for a
\* lifecycle that has been replaced: the channel is captured with the cancel
\* function (coordinator.go:90-133 for scans and batches, 410-478 for stations).
THEOREM CancelsWhatItAwaits == Spec => CancelOnlyTheAwaited
<1>1. ASSUME Inductive, [Next]_vars, NEW b \in cancelled' \ cancelled
      PROVE  \E c \in Callers : Awaits(c, b)
  <2>1. \E c \in Callers : CallerMoves(c)
    BY <1>1, BackgroundCancelsNothing DEF Next, CallerMoves
  <2> QED
    BY <1>1, <2>1, CallerCancelStep
<1>2. Inductive /\ [Next]_vars =>
        [\A b \in cancelled' \ cancelled :
           \E c \in Callers :
             /\ pc'[c] = "waiting" /\ pc[c] # "waiting"
             /\ \/ waitOn'[c] = b
                \/ waitOn'[c] \in Stations /\ active[waitOn'[c]] = b]_vars
  BY <1>1 DEF Awaits
<1> QED
  BY <1>2, InductiveInvariant, PTL DEF Spec, CancelOnlyTheAwaited

\* A slot belongs to one agent at work: without foreground work and recovery,
\* full slots are the refreshes'.
LEMMA FullSlotsOfRefreshes ==
  ASSUME Inductive, slots >= GattSlots, OnStation \subseteq Refreshes
  PROVE  RefreshesFill
<1> TypeOK /\ DeviceOwnership
  BY DEF Inductive
<1> DEFINE owner == [s \in Held |-> active[s]]
           T == OnStation \cap Refreshes
<1>1. IsFiniteSet(T) /\ IsFiniteSet(Held)
  BY FiniteAgents, FS_Subset DEF Held
<1>2. owner \in Injection(Held, T)
  <2>1. \A s \in Held : owner[s] \in T
    BY Apart DEF Held, DeviceOwnership, TypeOK
  <2>2. \A s, t \in Held : owner[s] = owner[t] => s = t
    BY Apart DEF Held, DeviceOwnership, TypeOK
  <2> QED
    BY <2>1, <2>2 DEF Injection, IsInjective
<1>3. Cardinality(Held) <= Cardinality(T)
  BY <1>1, <1>2, FS_Injection
<1>4. slots = Cardinality(Held) /\ Cardinality(T) \in Nat
  BY <1>1, FS_CardinalityType DEF DeviceOwnership, Held
<1> QED
  BY <1>1, <1>3, <1>4, CoordinatorAssumption, FS_CardinalityType DEF RefreshesFill, TypeOK

\* An attempt on a station fails at the lock, at the device map or at the slots.
LEMMA StationMisses ==
  ASSUME Inductive, WaitInductive, NEW c \in Callers, CallerMoves(c), op[c] = "station",
         pc[c] \in {"lock", "device"}, pc'[c] \in {"idle", "missed"}
  PROVE  \/ BesideForeground(c) \/ RefreshesFill
         \/ pc'[c] = "missed" /\ FindsRecovery(c)
<1> USE Apart DEF TypeOK, WaitFor, Go, IsGlobal, Quit, Refuse
<1> TypeOK /\ OperationShape /\ DeviceOwnership /\ WriterAlone /\ c \in Agents
  BY DEF Inductive
<1>1. CASE LockShared(c)
  <2>1. writer
    BY <1>1 DEF LockShared
  <2>2. PICK d \in Callers : Exclusive = {d}
    BY <2>1 DEF WriterAlone
  <2>3. d # c /\ pc[d] # "idle"
    BY <2>2 DEF Exclusive, LockedSteps
  <2> QED
    BY <2>3 DEF BesideForeground
<1>2. CASE BeginDevice(c) /\ DeviceBusy(c)
  <2>1. active[target[c]] \in Callers /\ target[c] \in Stations
    BY <1>2 DEF BeginDevice, DeviceBusy, OperationShape
  <2>2. pc[active[target[c]]] = "holding" /\ pc[c] = "device"
    BY <1>2, <2>1 DEF BeginDevice, DeviceOwnership, OnStation
  <2> QED
    BY <2>1, <2>2 DEF BesideForeground
<1>3. CASE BeginDevice(c) /\ SlotsBusy(c)
  <2>1. pc[c] = "device" /\ pc'[c] = "missed" /\ slots >= GattSlots
    BY <1>3 DEF BeginDevice, SlotsBusy
  <2>2. CASE BesideForeground(c) \/ recoveryDone
    BY <2>1, <2>2 DEF FindsRecovery
  <2>3. CASE ~BesideForeground(c) /\ ~recoveryDone
    <3>1. pc[Recovery] # "holding"
      BY <2>3 DEF WaitInductive, RecoveryShape
    <3>2. \A d \in Callers : pc[d] # "holding"
      BY <2>1, <2>3 DEF BesideForeground
    <3>3. OnStation \subseteq Refreshes
      BY <3>1, <3>2 DEF OnStation, Agents
    <3> QED
      BY <2>1, <3>3, FullSlotsOfRefreshes
  <2> QED
    BY <2>2, <2>3
<1>4. CASE BeginDevice(c) /\ TakeDevice(c)
  BY <1>4 DEF BeginDevice, TakeDevice
<1>5. CASE Arrive(c)
  BY <1>5 DEF Arrive, Begin
<1>6. CASE CallerStep(c)
  BY <1>6 DEF CallerStep, Enter, MarkShared, LockExclusive, MarkGlobal, MissedGlobal, MissedStatus,
              MissedStation, Woken, PublishScan, PrepareScan, UnpublishScan, ReleaseExclusive
<1>7. CASE TransitionStep(c)
  BY <1>7 DEF TransitionStep, LockTransition, ReserveScan, FinishScan, AbortScan
<1>8. CASE EndWork(c) \/ ContextStopped(c) \/ StopWaiting(c) \/ EndDevice(c)
  BY <1>8 DEF EndWork, EndShared, EndBulk, ContextStopped, StopWaiting, EndDevice
<1>9. CASE Register(c) \/ ReleaseShared(c)
  BY <1>9 DEF Register, ReleaseShared
<1> QED
  BY <1>1, <1>2, <1>3, <1>4, <1>5, <1>6, <1>7, <1>8, <1>9 DEF CallerMoves, AgentStep, BeginDevice

\* A call that has missed beside a recovery looks again or waits for it.
LEMMA MissedFindsRecovery ==
  ASSUME Inductive, NEW c \in Callers, CallerMoves(c), op[c] = "station", pc[c] = "missed",
         FindsRecovery(c)
  PROVE  pc'[c] \in {"waiting", "enter"}
<1> USE Apart DEF TypeOK, IsGlobal
<1> TypeOK /\ c \in Agents
  BY DEF Inductive
<1>1. CASE MissedStation(c)
  BY <1>1 DEF MissedStation, FindsRecovery, WaitFor, Go
<1>2. CASE Arrive(c)
  BY <1>2 DEF Arrive, Begin
<1>3. CASE CallerStep(c) /\ ~MissedStation(c)
  BY <1>3 DEF CallerStep, Enter, MarkShared, LockExclusive, MarkGlobal, MissedGlobal, MissedStatus,
              Woken, PublishScan, PrepareScan, UnpublishScan, ReleaseExclusive
<1>4. CASE TransitionStep(c)
  BY <1>4 DEF TransitionStep, LockTransition, ReserveScan, FinishScan, AbortScan
<1>5. CASE EndWork(c) \/ ContextStopped(c) \/ StopWaiting(c) \/ EndDevice(c) \/ AgentStep(c)
  BY <1>5 DEF EndWork, EndShared, EndBulk, ContextStopped, StopWaiting, EndDevice,
              AgentStep, Register, LockShared, BeginDevice, ReleaseShared
<1> QED
  BY <1>1, <1>2, <1>3, <1>4, <1>5 DEF CallerMoves

\* Another caller leaves it where it is, with its generation and the recovery.
LEMMA OthersLeaveMissed ==
  ASSUME Inductive, StatusShape, NEW c \in Callers, NEW d \in Callers \ {c}, CallerMoves(d)
  PROVE  pc'[c] = pc[c] /\ recoveryDone' = recoveryDone /\ (c \in stale => c \in stale')
<1> USE Apart DEF TypeOK, Go, Quit, Refuse, WaitFor, callVars
<1> TypeOK /\ c \in Agents /\ d \in Agents
  BY DEF Inductive
<1>1. recoveryDone' = recoveryDone
  BY CallerWaitStep
<1>2. CASE Arrive(d)
  BY <1>1, <1>2 DEF Arrive, Begin
<1>3. CASE Enter(d) \/ MarkShared(d) \/ LockExclusive(d) \/ MarkGlobal(d) \/ Woken(d)
  BY <1>1, <1>3 DEF Enter, MarkShared, LockExclusive, MarkGlobal, Woken
<1>4. CASE PublishScan(d) \/ PrepareScan(d) \/ UnpublishScan(d) \/ ReleaseExclusive(d)
  BY <1>1, <1>4 DEF PublishScan, PrepareScan, UnpublishScan, ReleaseExclusive
<1>5. CASE MissedGlobal(d) \/ MissedStatus(d) \/ MissedStation(d)
  BY <1>1, <1>5 DEF MissedGlobal, MissedStatus, MissedStation
<1>6. CASE TransitionStep(d)
  BY <1>1, <1>6 DEF TransitionStep, LockTransition, ReserveScan, FinishScan, AbortScan
<1>7. CASE EndWork(d) \/ ContextStopped(d) \/ StopWaiting(d) \/ EndDevice(d)
  BY <1>1, <1>7 DEF EndWork, EndShared, EndBulk, ContextStopped, StopWaiting, EndDevice
<1>8. CASE Register(d) \/ LockShared(d) \/ ReleaseShared(d)
  BY <1>1, <1>8 DEF Register, LockShared, ReleaseShared
<1>9. CASE BeginDevice(d)
  BY <1>1, <1>9 DEF BeginDevice, DeviceBusy, SlotsBusy, TakeDevice
<1> QED
  BY <1>2, <1>3, <1>4, <1>5, <1>6, <1>7, <1>8, <1>9 DEF CallerMoves, CallerStep, AgentStep

\* The recovery takes its channel back with the generations of all calls.
LEMMA BackgroundLeavesMissed ==
  ASSUME Inductive, NEW c \in Callers, op[c] = "station",
         \/ \E a \in Agents \ Callers : AgentStep(a) \/ EndDevice(a)
         \/ RecoveryRound \/ RecoveryStep \/ \E s \in Stations : BeginRecovery(s)
         \/ \E r \in Refreshes : \/ BeginRefresh(r) \/ RefreshStep(r)
                                 \/ SkipRest(r) \/ AbandonRefresh(r)
         \/ BeginShutdown \/ Drain \/ UNCHANGED vars
  PROVE  FindsRecovery(c) => FindsRecovery(c)'
<1> USE Apart DEF Go, Quit, Refuse, callVars, agentVars, FindsRecovery
<1>1. CASE \E a \in Agents \ Callers : AgentStep(a) \/ EndDevice(a)
  BY <1>1 DEF AgentStep, Register, LockShared, ReleaseShared, BeginDevice, SlotsBusy, TakeDevice,
              DeviceBusy, EndDevice, worldVars
<1>2. CASE RecoveryRound \/ RecoveryStep \/ \E s \in Stations : BeginRecovery(s)
  BY <1>2 DEF RecoveryRound, RecoveryStep, RecoveryRoundEnd, ClearRecovery, RecoveryExit,
              BeginRecovery, BumpGeneration, worldVars
<1>3. CASE \E r \in Refreshes : BeginRefresh(r) \/ RefreshStep(r) \/ SkipRest(r) \/ AbandonRefresh(r)
  BY <1>3 DEF BeginRefresh, RefreshStep, SkipRest, AbandonRefresh, RegisterRefresh, LockRefresh,
              Dispatch, JoinRefresh, EndRefresh, EndAbandoned
<1>4. CASE BeginShutdown \/ Drain \/ UNCHANGED vars
  BY <1>4 DEF BeginShutdown, Drain, DrainStep, vars, worldVars
<1> QED
  BY <1>1, <1>2, <1>3, <1>4

\* What StationBusyOnlyBesideForeground says of a step and a station call.
MissExplained(c) ==
  pc[c] \in {"lock", "device"} /\ pc'[c] \in {"idle", "missed"} =>
    \/ BesideForeground(c) \/ RefreshesFill
    \/ pc'[c] = "missed" /\ FindsRecovery(c)

RecoveryAnswered(c) ==
  pc[c] = "missed" /\ FindsRecovery(c) =>
    \/ pc'[c] \in {"waiting", "enter"}
    \/ pc'[c] = "missed" /\ FindsRecovery(c)'

LEMMA StationBusyStep ==
  ASSUME Inductive, WaitInductive, [Next]_vars, NEW c \in Callers, op[c] = "station"
  PROVE  MissExplained(c) /\ RecoveryAnswered(c)
<1>1. CASE CallerMoves(c)
  BY <1>1, StationMisses, MissedFindsRecovery DEF MissExplained, RecoveryAnswered
<1>2. CASE \E d \in Callers \ {c} : CallerMoves(d)
  BY <1>2, OthersLeaveMissed DEF MissExplained, RecoveryAnswered, FindsRecovery, WaitInductive
<1>3. CASE ~\E d \in Callers : CallerMoves(d)
  <2>1. \/ \E a \in Agents \ Callers : AgentStep(a) \/ EndDevice(a)
        \/ RecoveryRound \/ RecoveryStep \/ \E s \in Stations : BeginRecovery(s)
        \/ \E r \in Refreshes : \/ BeginRefresh(r) \/ RefreshStep(r)
                                \/ SkipRest(r) \/ AbandonRefresh(r)
        \/ BeginShutdown \/ Drain \/ UNCHANGED vars
    BY <1>3 DEF Next, CallerMoves
  <2>2. pc'[c] = pc[c]
    BY <2>1, BackgroundKeepsScan
  <2>3. FindsRecovery(c) => FindsRecovery(c)'
    BY <2>1, BackgroundLeavesMissed
  <2> QED
    BY <2>2, <2>3 DEF MissExplained, RecoveryAnswered
<1> QED
  BY <1>1, <1>2, <1>3

\* A station call is refused as Busy only beside other foreground work, or when
\* status reads fill the slots: what recovery takes from it is given back by the
\* wait or by the generation (beginForegroundStationOperationContext,
\* coordinator.go:383-480).
THEOREM StationBusyIsForeground == Spec => StationBusyOnlyBesideForeground
<1>1. Inductive /\ WaitInductive /\ [Next]_vars =>
        [\A c \in Callers : op[c] = "station" => MissExplained(c) /\ RecoveryAnswered(c)]_vars
  BY StationBusyStep
<1>2. Inductive /\ WaitInductive /\ [Next]_vars =>
        [\A c \in Callers : op[c] = "station" =>
           /\ pc[c] \in {"lock", "device"} /\ pc'[c] \in {"idle", "missed"} =>
                \/ BesideForeground(c) \/ RefreshesFill
                \/ pc'[c] = "missed" /\ FindsRecovery(c)
           /\ pc[c] = "missed" /\ FindsRecovery(c) =>
                \/ pc'[c] \in {"waiting", "enter"}
                \/ pc'[c] = "missed" /\ FindsRecovery(c)']_vars
  BY <1>1 DEF MissExplained, RecoveryAnswered
<1> QED
  BY <1>2, WaitInvariant, PTL DEF Spec, StationBusyOnlyBesideForeground
=============================================================================
