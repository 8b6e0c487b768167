--------------------------- MODULE GattSessionProofs ---------------------------
(***************************************************************************)
(* Proofs that a station never has two GATT sessions, that the one it has  *)
(* is always in somebody's hand and in reach of the disconnect events, and *)
(* that a call which gives up closes no session but its own: for every     *)
(* number of calls, sessions and attempts.                                 *)
(*                                                                         *)
(* The first part is about procedures alone: it says where a process that  *)
(* has called one stands and to whom it returns.                           *)
(***************************************************************************)
EXTENDS GattSession, SequenceTheorems, FiniteSetTheorems, TLAPS

-----------------------------------------------------------------------------
(* Processes and their stacks.                                             *)

\* The labels and kinds of the calls here and of the commands of StationCommand.
CommandLabels ==
  {"enterCommand", "attempt", "commandConnected", "gaveUp", "backoff", "backoffWait", "write",
   "gap", "pairRebuilt", "finalWrite", "confirm", "poll", "pollWait", "pollRead",
   "sleepDropped", "pollClosed", "pollReopen", "pollReopened", "channelConnected",
   "channelRead", "channelWrite", "lastRead"}
AnyLabels == Labels \cup CommandLabels
AnyKinds ==
  SessionKinds \cup {"none", "dropped"} \cup {"on", "standby", "sleep", "channel", "identify"}

\* What a process is, whether a call, a cleanup goroutine or a command.
AnyProc ==
  [pc : AnyLabels, stack : Seq(AnyLabels), kind : AnyKinds, h : 0..MaxHandles,
   res : Results, tries : Nat, uses : 0..MaxHandles, faulted : BOOLEAN]

\* Only process p moves.
Moves(p) ==
  /\ proc' \in [Procs -> AnyProc]
  /\ \A q \in Procs \ {p} : proc'[q] = proc[q]

\* The labels to return to, the latest first.
NoFrames == << >>
Push(l, s) == <<l>> \o s
Only(l) == Push(l, NoFrames)

LEMMA Pushed ==
  ASSUME NEW s \in Seq(AnyLabels), NEW l \in AnyLabels
  PROVE  Push(l, s) \in Seq(AnyLabels) /\ Head(Push(l, s)) = l /\ Tail(Push(l, s)) = s
BY DEF Push

LEMMA OneFrame ==
  /\ NoFrames \in Seq(AnyLabels)
  /\ \A l \in AnyLabels : /\ Only(l) \in Seq(AnyLabels) /\ <<l>> = Only(l)
                          /\ Head(Only(l)) = l /\ Tail(Only(l)) = NoFrames
<1>1. NoFrames \in Seq(AnyLabels)
  BY DEF NoFrames
<1>2. ASSUME NEW l \in AnyLabels
      PROVE  <<l>> = Only(l)
  <2>1. <<l>> \in Seq(AnyLabels)
    BY <1>2
  <2> QED
    BY <2>1, ConcatEmptySeq DEF Only, Push, NoFrames
<1> QED
  BY <1>1, <1>2, Pushed DEF Only

LEMMA ProcFields ==
  ASSUME proc \in [Procs -> AnyProc], NEW p \in Procs
  PROVE  /\ proc[p] \in AnyProc
         /\ proc[p].pc \in AnyLabels /\ proc[p].stack \in Seq(AnyLabels)
         /\ proc[p].kind \in AnyKinds /\ proc[p].h \in 0..MaxHandles
         /\ proc[p].res \in Results /\ proc[p].tries \in Nat
         /\ proc[p].uses \in 0..MaxHandles /\ proc[p].faulted \in BOOLEAN
BY DEF AnyProc

LEMMA GotoIs ==
  ASSUME proc \in [Procs -> AnyProc], NEW p \in Procs, NEW label \in AnyLabels, Goto(p, label)
  PROVE  /\ Moves(p) /\ proc'[p].pc = label /\ proc'[p].stack = proc[p].stack
         /\ proc'[p].kind = proc[p].kind /\ proc'[p].res = proc[p].res
         /\ proc'[p].h = proc[p].h /\ proc'[p].tries = proc[p].tries
         /\ proc'[p].uses = proc[p].uses
BY ProcFields DEF Goto, Moves, AnyProc

LEMMA CallIs ==
  ASSUME proc \in [Procs -> AnyProc], NEW p \in Procs, NEW sub \in AnyLabels,
         NEW ret \in AnyLabels, Call(p, sub, ret)
  PROVE  /\ Moves(p) /\ proc'[p].pc = sub /\ proc'[p].stack = Push(ret, proc[p].stack)
         /\ proc'[p].kind = proc[p].kind /\ proc'[p].res = proc[p].res
         /\ proc'[p].h = proc[p].h /\ proc'[p].tries = proc[p].tries
         /\ proc'[p].uses = proc[p].uses
<1>1. Push(ret, proc[p].stack) \in Seq(AnyLabels)
  BY ProcFields, Pushed
<1> QED
  BY <1>1, ProcFields DEF Call, Moves, AnyProc

LEMMA ReturnIs ==
  ASSUME proc \in [Procs -> AnyProc], NEW p \in Procs, NEW res \in Results, Return(p, res),
         NEW x \in AnyLabels, NEW s \in Seq(AnyLabels), proc[p].stack = Push(x, s)
  PROVE  /\ Moves(p) /\ proc'[p].pc = x /\ proc'[p].stack = s
         /\ proc'[p].kind = proc[p].kind /\ proc'[p].res = res
         /\ proc'[p].h = None /\ proc'[p].tries = proc[p].tries
         /\ proc'[p].uses = proc[p].uses
<1>1. Head(proc[p].stack) = x /\ Tail(proc[p].stack) = s
  BY Pushed
<1>2. None \in 0..MaxHandles
  BY BoundsAssumption DEF None
<1>3. PICK f \in BOOLEAN : f = (proc[p].faulted \/ res = "fail")
  OBVIOUS
<1>4. proc' = [proc EXCEPT ![p].pc = x, ![p].stack = s, ![p].res = res, ![p].h = None,
                           ![p].faulted = f]
  BY <1>1, <1>3 DEF Return
<1>5. PICK a \in [Procs -> AnyProc] : a = [proc EXCEPT ![p].pc = x, ![p].stack = s]
  BY DEF AnyProc
<1>8. proc' = [a EXCEPT ![p].res = res, ![p].h = None, ![p].faulted = f]
  BY <1>4, <1>5, Zenon
<1>9. proc' \in [Procs -> AnyProc]
  <2>1. f \in BOOLEAN
    BY <1>3
  <2> QED
    BY <1>2, <1>8, <2>1, ZenonT(40) DEF AnyProc
<1>6. \A q \in Procs \ {p} : proc'[q] = proc[q]
  BY <1>4
<1>7. /\ proc'[p].pc = x /\ proc'[p].stack = s
      /\ proc'[p].kind = proc[p].kind /\ proc'[p].res = res
      /\ proc'[p].h = None /\ proc'[p].tries = proc[p].tries
      /\ proc'[p].uses = proc[p].uses
  BY <1>4, ProcFields DEF AnyProc
<1> QED
  BY <1>9, <1>6, <1>7 DEF Moves

LEMMA ReturnUsingIs ==
  ASSUME proc \in [Procs -> AnyProc], NEW p \in Procs, NEW res \in Results,
         ReturnUsing(p, res), device \in 0..MaxHandles,
         NEW x \in AnyLabels, NEW s \in Seq(AnyLabels), proc[p].stack = Push(x, s)
  PROVE  /\ Moves(p) /\ proc'[p].pc = x /\ proc'[p].stack = s
         /\ proc'[p].kind = proc[p].kind /\ proc'[p].res = res
         /\ proc'[p].h = proc[p].h /\ proc'[p].tries = proc[p].tries
         /\ proc'[p].uses = device
<1>1. Head(proc[p].stack) = x /\ Tail(proc[p].stack) = s
  BY Pushed
<1>2. proc' = [proc EXCEPT ![p].pc = x, ![p].stack = s, ![p].res = res, ![p].uses = device]
  BY <1>1 DEF ReturnUsing
<1> QED
  BY <1>2, ProcFields, ZenonT(40) DEF Moves, AnyProc

LEMMA IdleTyped ==
  /\ Idle \in AnyProc /\ Idle.pc = "idle" /\ Idle.stack = NoFrames /\ Idle.tries = 0
  /\ Idle.res = "ok" /\ Idle.h = None /\ Idle.kind = "none"
<1>1. None \in 0..MaxHandles
  BY BoundsAssumption DEF None
<1>2. << >> \in Seq(AnyLabels)
  BY OneFrame DEF NoFrames
<1>3. ASSUME NEW e \in Seq(AnyLabels), NEW z \in 0..MaxHandles, NEW pc \in AnyLabels,
             NEW k \in AnyKinds, NEW res \in Results, NEW f \in BOOLEAN
      PROVE  [pc |-> pc, stack |-> e, kind |-> k, h |-> z, res |-> res, tries |-> 0,
              uses |-> z, faulted |-> f] \in AnyProc
  BY <1>3 DEF AnyProc
<1>4. "idle" \in AnyLabels /\ "none" \in AnyKinds /\ "ok" \in Results
  BY DEF AnyLabels, Labels, AnyKinds, Results
<1>5. FALSE \in BOOLEAN
  OBVIOUS
<1>6. Idle \in AnyProc
  BY <1>1, <1>2, <1>3, <1>4, <1>5, Zenon DEF Idle
<1> QED
  BY <1>6 DEF Idle, NoFrames

LEMMA FaultTyped ==
  ASSUME NEW e \in AnyProc, NEW f \in BOOLEAN
  PROVE  LET r == [e EXCEPT !.faulted = f]
         IN  /\ r \in AnyProc /\ r.pc = e.pc /\ r.stack = e.stack /\ r.kind = e.kind
             /\ r.tries = e.tries
BY DEF AnyProc

LEMMA FinishIs ==
  ASSUME proc \in [Procs -> AnyProc], NEW p \in Procs, NEW res \in Results, Finish(p, res)
  PROVE  /\ Moves(p) /\ proc'[p].pc = "done" /\ proc'[p].stack = NoFrames
         /\ proc'[p].kind = proc[p].kind /\ proc'[p].tries = 0
         /\ lock' = NoOne
<1> DEFINE f == proc[p].faulted \/ res = "fail"
<1>1. f \in BOOLEAN /\ proc[p].kind \in AnyKinds
  BY ProcFields
<1>2. PICK i \in AnyProc : i = Idle
  BY IdleTyped
<1>3. PICK k \in AnyKinds : k = proc[p].kind
  BY <1>1
<1>4. PICK e : e = [i EXCEPT !.pc = "done", !.kind = k, !.res = res]
  OBVIOUS
<1>5. /\ e \in AnyProc /\ e.pc = "done" /\ e.stack = i.stack /\ e.kind = k
      /\ e.tries = i.tries
  <2>1. "done" \in AnyLabels
    BY DEF AnyLabels, Labels
  <2> QED
    BY <1>4, <2>1 DEF AnyProc
<1>6. proc' = [[proc EXCEPT ![p] = e] EXCEPT ![p].faulted = f]
  BY <1>2, <1>3, <1>4, Zenon DEF Finish
<1> HIDE DEF f
<1>7. PICK r : r = [e EXCEPT !.faulted = f]
  OBVIOUS
<1>8. /\ r \in AnyProc /\ r.pc = e.pc /\ r.stack = e.stack /\ r.kind = e.kind
      /\ r.tries = e.tries
  BY <1>1, <1>5, <1>7, FaultTyped
<1>9. proc' = [proc EXCEPT ![p] = r]
  BY <1>5, <1>6, <1>7
<1>10. i.stack = NoFrames /\ i.tries = 0
  BY <1>2, IdleTyped
<1>11. proc' \in [Procs -> AnyProc] /\ proc'[p] = r /\ \A q \in Procs \ {p} : proc'[q] = proc[q]
  BY <1>8, <1>9
<1> QED
  BY <1>3, <1>5, <1>8, <1>10, <1>11 DEF Finish, Moves

-----------------------------------------------------------------------------
(* Where a process stands that has called connectAndDiscoverInternalContext *)
(* or disconnectInternal, and goes on at label b when that returns.         *)

ConnectBody ==
  {"gated", "staleClosed", "rebuild", "open", "opened", "discover", "attemptFailed",
   "retryClosed", "retryWait", "reopen"}
GateReturns == {"gated", "open", "reopen"}
CloseReturns == {"staleClosed", "giveUp", "retryClosed"}
ClosePcs == {"disconnect", "detach", "disconnecting"}
GatePcs == {"gate", "gateWait", "cleaning"}

\* An attempt that fails is one of the DiscoveryAttempts.
InConnect(r, b) ==
  \/ r.pc \in {"connect", "giveUp"} /\ r.stack = Only(b) /\ r.tries <= DiscoveryAttempts
  \/ r.pc \in ConnectBody /\ r.stack = Only(b) /\ r.tries < DiscoveryAttempts
  \/ \E x \in GateReturns :
        r.pc \in GatePcs /\ r.stack = Push(x, Only(b)) /\ r.tries < DiscoveryAttempts
  \/ \E x \in CloseReturns :
        /\ r.tries <= DiscoveryAttempts /\ (x = "giveUp" \/ r.tries < DiscoveryAttempts)
        /\ \/ r.pc \in ClosePcs /\ r.stack = Push(x, Only(b))
           \/ r.pc = "cleaning" /\ r.stack = Push("detach", Push(x, Only(b)))

InClose(r, b) ==
  /\ r.tries <= DiscoveryAttempts
  /\ \/ r.pc \in ClosePcs /\ r.stack = Only(b)
     \/ r.pc = "cleaning" /\ r.stack = Push("detach", Only(b))

\* The procedure has just returned to b.
Back(r, b) == r.pc = b /\ r.stack = NoFrames /\ r.tries <= DiscoveryAttempts

\* What the lemmas below assume of the state, and that process p has reached
\* label with the frames s.
ProcsTyped ==
  /\ proc \in [Procs -> AnyProc]
  /\ device \in 0..MaxHandles /\ pending \in 0..MaxHandles /\ opened \in 0..MaxHandles
Reaches(p, label, s) == proc'[p].pc = label /\ proc'[p].stack = s
SameCall(p) == proc'[p].kind = proc[p].kind
SameTries(p) == proc'[p].tries = proc[p].tries
SameUses(p) == proc'[p].uses = proc[p].uses

LEMMA LabelsTyped ==
  /\ {"gate", "gated", "gateWait", "rebuild", "staleClosed", "open", "opened", "discover",
      "attemptFailed", "giveUp", "retryClosed", "retryWait", "reopen", "connect", "cleaning",
      "disconnect", "detach", "disconnecting"} \subseteq AnyLabels
  /\ {"enter", "done", "sweeping", "ensured", "interrupted", "refreshClosed", "fetched",
      "releaseDone", "probe", "probed", "cleaned", "idle"} \subseteq AnyLabels
  /\ {"ok", "fail", "cancelled", "notStarted"} = Results
  /\ None \in 0..MaxHandles
BY BoundsAssumption DEF AnyLabels, Labels, Results, None

\* The same for a procedure that was called from a label of its own.
LEMMA ReturnHome ==
  ASSUME ProcsTyped, NEW p \in Procs, NEW res \in Results, Return(p, res),
         NEW b \in AnyLabels, proc[p].stack = Only(b)
  PROVE  /\ Moves(p) /\ SameCall(p) /\ SameTries(p) /\ Reaches(p, b, NoFrames)
         /\ proc'[p].res = res /\ proc'[p].h = None /\ proc'[p].uses = proc[p].uses
<1>1. NoFrames \in Seq(AnyLabels) /\ proc[p].stack = Push(b, NoFrames)
  BY OneFrame DEF Only
<1>2. proc \in [Procs -> AnyProc]
  BY DEF ProcsTyped
<1> QED
  BY <1>1, <1>2, ReturnIs DEF Reaches, SameCall, SameTries

LEMMA ReturnUsingHome ==
  ASSUME ProcsTyped, NEW p \in Procs, NEW res \in Results, ReturnUsing(p, res),
         NEW b \in AnyLabels, proc[p].stack = Only(b)
  PROVE  /\ Moves(p) /\ SameCall(p) /\ SameTries(p) /\ Reaches(p, b, NoFrames)
         /\ proc'[p].res = res /\ proc'[p].h = proc[p].h /\ proc'[p].uses = device
<1>1. NoFrames \in Seq(AnyLabels) /\ proc[p].stack = Push(b, NoFrames)
  BY OneFrame DEF Only
<1>2. proc \in [Procs -> AnyProc] /\ device \in 0..MaxHandles
  BY DEF ProcsTyped
<1> QED
  BY <1>1, <1>2, ReturnUsingIs DEF Reaches, SameCall, SameTries

LEMMA ConnectIs ==
  ASSUME ProcsTyped, NEW p \in Procs, NEW b \in AnyLabels, Connect(p), proc[p].stack = Only(b)
  PROVE  /\ Moves(p) /\ SameCall(p)
         /\ \/ Reaches(p, b, NoFrames) /\ proc'[p].res = "notStarted" /\ SameTries(p)
            \/ Reaches(p, "gate", Push("gated", Only(b))) /\ proc'[p].tries = 0
<1>1. CASE CtxDone(p)
  <2>1. Return(p, "notStarted")
    BY <1>1 DEF Connect
  <2> QED
    BY <2>1, ReturnHome, LabelsTyped
<1>2. CASE ~CtxDone(p)
  <2>1. proc' = [proc EXCEPT ![p].pc = "gate", ![p].tries = 0,
                             ![p].stack = Push("gated", Only(b))]
    BY <1>2 DEF Connect, Push
  <2>2. Push("gated", Only(b)) \in Seq(AnyLabels) /\ "gate" \in AnyLabels
    BY Pushed, OneFrame, LabelsTyped
  <2> QED
    BY <2>1, <2>2, ProcFields, ZenonT(40) DEF ProcsTyped, Reaches, SameCall, Moves, AnyProc
<1> QED
  BY <1>1, <1>2

LEMMA CleanupIs ==
  ASSUME ProcsTyped, NEW p \in Procs, NEW ret \in AnyLabels, NEW rest \in Seq(AnyLabels),
         StartCleanup(p, ret, rest)
  PROVE  /\ Moves(p) /\ SameCall(p) /\ SameTries(p) /\ SameUses(p)
         /\ \/ /\ pending = None /\ Reaches(p, ret, rest) /\ proc'[p].res = "ok"
               /\ proc'[p].h = proc[p].h
               /\ UNCHANGED <<lock, pending, inFlight>>
            \/ /\ pending # None /\ Reaches(p, "cleaning", Push(ret, rest))
               /\ proc'[p].h = pending /\ pending' = None /\ inFlight' = p /\ lock' = NoOne
<1>0. proc \in [Procs -> AnyProc] /\ pending \in 0..MaxHandles
  BY DEF ProcsTyped
<1>1. CASE pending = None
  <2>1. proc' = [proc EXCEPT ![p].pc = ret, ![p].stack = rest, ![p].res = "ok"]
    BY <1>1 DEF StartCleanup
  <2>2. "ok" \in Results
    BY LabelsTyped
  <2> QED
    BY <1>0, <1>1, <2>1, <2>2, ProcFields
    DEF StartCleanup, Reaches, SameCall, SameTries, SameUses, Moves, AnyProc
<1>2. CASE pending # None
  <2>1. proc' = [proc EXCEPT ![p].pc = "cleaning", ![p].h = pending,
                             ![p].stack = Push(ret, rest)]
    BY <1>2 DEF StartCleanup, Push
  <2>2. "cleaning" \in AnyLabels /\ Push(ret, rest) \in Seq(AnyLabels)
    BY Pushed, LabelsTyped
  <2>3. /\ Moves(p) /\ SameCall(p) /\ SameTries(p) /\ SameUses(p)
        /\ Reaches(p, "cleaning", Push(ret, rest)) /\ proc'[p].h = pending
    BY <1>0, <2>1, <2>2, ProcFields
    DEF Reaches, SameCall, SameTries, SameUses, Moves, AnyProc
  <2> QED
    BY <1>2, <2>3 DEF StartCleanup
<1> QED
  BY <1>1, <1>2

LEMMA GateIs ==
  ASSUME ProcsTyped, NEW p \in Procs, NEW x \in AnyLabels, NEW s \in Seq(AnyLabels),
         Gate(p), proc[p].stack = Push(x, s)
  PROVE  /\ Moves(p) /\ SameCall(p) /\ SameTries(p) /\ SameUses(p)
         /\ \/ /\ inFlight = NoOne /\ pending = None /\ Reaches(p, x, s) /\ proc'[p].res = "ok"
               /\ UNCHANGED <<lock, pending, inFlight>>
            \/ /\ inFlight = NoOne /\ pending # None /\ Reaches(p, "cleaning", Push(x, s))
               /\ proc'[p].h = pending /\ pending' = None /\ inFlight' = p /\ lock' = NoOne
            \/ /\ inFlight # NoOne /\ Reaches(p, "gateWait", Push(x, s))
               /\ lock' = NoOne /\ UNCHANGED <<pending, inFlight>>
<1>0. Head(proc[p].stack) = x /\ Tail(proc[p].stack) = s
  BY Pushed
<1>1. CASE inFlight = NoOne
  <2>1. StartCleanup(p, x, s)
    BY <1>0, <1>1 DEF Gate
  <2> QED
    BY <1>1, <2>1, CleanupIs
<1>2. CASE inFlight # NoOne
  <2>1. Goto(p, "gateWait") /\ lock' = NoOne /\ UNCHANGED <<pending, inFlight>>
    BY <1>2 DEF Gate
  <2> QED
    BY <1>2, <2>1, GotoIs, LabelsTyped DEF ProcsTyped, Reaches, SameCall, SameTries, SameUses
<1> QED
  BY <1>1, <1>2

LEMMA GateWakeIs ==
  ASSUME ProcsTyped, NEW p \in Procs, GateWake(p)
  PROVE  /\ Moves(p) /\ SameCall(p) /\ SameTries(p) /\ SameUses(p)
         /\ Reaches(p, "gate", proc[p].stack)
BY GotoIs, LabelsTyped DEF GateWake, ProcsTyped, Reaches, SameCall, SameTries, SameUses

LEMMA GateCancelledIs ==
  ASSUME ProcsTyped, NEW p \in Procs, NEW x \in AnyLabels, NEW s \in Seq(AnyLabels),
         GateCancelled(p), proc[p].stack = Push(x, s)
  PROVE  /\ Moves(p) /\ SameCall(p) /\ SameTries(p) /\ SameUses(p)
         /\ Reaches(p, x, s) /\ proc'[p].res = "notStarted"
BY ReturnIs, LabelsTyped DEF GateCancelled, ProcsTyped, Reaches, SameCall, SameTries, SameUses

LEMMA GatePassedIs ==
  ASSUME ProcsTyped, NEW p \in Procs, NEW b \in AnyLabels, GatePassed(p), proc[p].stack = Only(b)
  PROVE  /\ Moves(p) /\ SameCall(p) /\ SameTries(p)
         /\ \/ Reaches(p, b, NoFrames) /\ proc'[p].res = proc[p].res /\ SameUses(p)
            \/ Reaches(p, b, NoFrames) /\ proc'[p].res = "ok"
            \/ Reaches(p, "rebuild", Only(b))
            \/ Reaches(p, "disconnect", Push("staleClosed", Only(b))) /\ proc'[p].uses = device
<1>1. CASE proc[p].res # "ok" /\ Return(p, proc[p].res)
  <2>1. proc[p].res \in Results
    BY ProcFields DEF ProcsTyped
  <2> QED
    BY <1>1, <2>1, ReturnHome DEF SameUses
<1>2. CASE Goto(p, "rebuild")
  BY <1>2, GotoIs, LabelsTyped DEF ProcsTyped, Reaches, SameCall, SameTries, SameUses
<1>3. CASE ReturnUsing(p, "ok")
  BY <1>3, ReturnUsingHome, LabelsTyped
<1>4. CASE proc' = [proc EXCEPT ![p].pc = "disconnect", ![p].uses = device,
                                ![p].stack = <<"staleClosed">> \o @]
  <2>1. proc' = [proc EXCEPT ![p].pc = "disconnect", ![p].uses = device,
                             ![p].stack = Push("staleClosed", Only(b))]
    BY <1>4 DEF Push
  <2>2. "disconnect" \in AnyLabels /\ Push("staleClosed", Only(b)) \in Seq(AnyLabels)
    BY Pushed, OneFrame, LabelsTyped
  <2> QED
    BY <2>1, <2>2, ProcFields, ZenonT(40) DEF ProcsTyped, Reaches, SameCall, SameTries, Moves, AnyProc
<1> QED
  BY <1>1, <1>2, <1>3, <1>4 DEF GatePassed

LEMMA StaleClosedIs ==
  ASSUME ProcsTyped, NEW p \in Procs, NEW b \in AnyLabels, StaleClosed(p), proc[p].stack = Only(b)
  PROVE  /\ Moves(p) /\ SameCall(p) /\ SameTries(p) /\ SameUses(p)
         /\ \/ proc[p].res = "fail" /\ Reaches(p, b, NoFrames) /\ proc'[p].res = "fail"
            \/ Reaches(p, "rebuild", Only(b))
<1>1. CASE proc[p].res = "fail" /\ Return(p, "fail")
  BY <1>1, ReturnHome, LabelsTyped DEF SameUses
<1>2. CASE Goto(p, "rebuild")
  BY <1>2, GotoIs, LabelsTyped DEF ProcsTyped, Reaches, SameCall, SameTries, SameUses
<1> QED
  BY <1>1, <1>2 DEF StaleClosed

LEMMA RebuildIs ==
  ASSUME ProcsTyped, NEW p \in Procs, NEW b \in AnyLabels, Rebuild(p), proc[p].stack = Only(b)
  PROVE  /\ Moves(p) /\ SameCall(p) /\ SameTries(p) /\ SameUses(p)
         /\ \/ Reaches(p, "gate", Push("open", Only(b)))
            \/ device # None /\ Reaches(p, "discover", Only(b))
<1>1. CASE Call(p, "gate", "open")
  BY <1>1, CallIs, LabelsTyped DEF ProcsTyped, Reaches, SameCall, SameTries, SameUses
<1>2. CASE device # None /\ Goto(p, "discover")
  BY <1>2, GotoIs, LabelsTyped DEF ProcsTyped, Reaches, SameCall, SameTries, SameUses
<1> QED
  BY <1>1, <1>2 DEF Rebuild

LEMMA OpenSessionIs ==
  ASSUME ProcsTyped, NEW p \in Procs, OpenSession(p, "opened")
  PROVE  /\ Moves(p) /\ SameCall(p) /\ SameTries(p) /\ SameUses(p)
         /\ Reaches(p, "opened", proc[p].stack) /\ proc'[p].h = opened + 1
         /\ opened + 1 \in Handles /\ opened' = opened + 1
<1>1. proc' = [proc EXCEPT ![p].pc = "opened", ![p].h = opened + 1]
  BY DEF OpenSession
<1>2. opened + 1 \in 0..MaxHandles /\ opened + 1 \in Handles
  BY BoundsAssumption DEF OpenSession, ProcsTyped, Handles
<1>3. "opened" \in AnyLabels /\ proc \in [Procs -> AnyProc]
  BY LabelsTyped DEF ProcsTyped
<1>4. PICK n \in 0..MaxHandles : n = opened + 1
  BY <1>2
<1>5. /\ Moves(p) /\ SameCall(p) /\ SameTries(p) /\ SameUses(p)
      /\ Reaches(p, "opened", proc[p].stack) /\ proc'[p].h = n
  BY <1>1, <1>3, <1>4, ProcFields DEF Reaches, SameCall, SameTries, SameUses, Moves, AnyProc
<1> QED
  BY <1>2, <1>4, <1>5 DEF OpenSession

LEMMA OpenOrReuseIs ==
  ASSUME ProcsTyped, NEW p \in Procs, NEW b \in AnyLabels, OpenOrReuse(p), proc[p].stack = Only(b)
  PROVE  /\ Moves(p) /\ SameCall(p) /\ SameTries(p) /\ SameUses(p)
         /\ \/ /\ proc[p].res # "ok" /\ Reaches(p, b, NoFrames) /\ proc'[p].res = proc[p].res
               /\ ProcOnly
            \/ device # None /\ Reaches(p, "discover", Only(b)) /\ ProcOnly
            \/ /\ proc[p].res = "ok" /\ device = None
               /\ Reaches(p, "opened", Only(b)) /\ OpenSession(p, "opened")
            \/ device = None /\ Reaches(p, b, NoFrames) /\ ProcOnly
<1>1. CASE proc[p].res # "ok" /\ Return(p, proc[p].res) /\ ProcOnly
  <2>1. proc[p].res \in Results
    BY ProcFields DEF ProcsTyped
  <2> QED
    BY <1>1, <2>1, ReturnHome DEF SameUses
<1>2. CASE device # None /\ Goto(p, "discover") /\ ProcOnly
  BY <1>2, GotoIs, LabelsTyped DEF ProcsTyped, Reaches, SameCall, SameTries, SameUses
<1>3. CASE proc[p].res = "ok" /\ device = None /\ OpenSession(p, "opened")
  BY <1>3, OpenSessionIs
<1>4. CASE device = None /\ Return(p, "fail") /\ ProcOnly
  BY <1>4, ReturnHome, LabelsTyped DEF SameUses
<1>5. CASE device = None /\ Return(p, "cancelled") /\ ProcOnly
  BY <1>5, ReturnHome, LabelsTyped DEF SameUses
<1> QED
  BY <1>1, <1>2, <1>3, <1>4, <1>5 DEF OpenOrReuse

LEMMA OpenedIs ==
  ASSUME ProcsTyped, NEW p \in Procs, Opened(p)
  PROVE  /\ Moves(p) /\ SameCall(p) /\ SameTries(p)
         /\ Reaches(p, "discover", proc[p].stack)
<1>1. proc' = [proc EXCEPT ![p].pc = "discover", ![p].uses = proc[p].h, ![p].h = None]
  BY DEF Opened
<1>2. "discover" \in AnyLabels /\ proc \in [Procs -> AnyProc] /\ None \in 0..MaxHandles
  BY LabelsTyped DEF ProcsTyped
<1>3. PICK n \in 0..MaxHandles : n = proc[p].h
  BY <1>2, ProcFields
<1>4. proc' = [proc EXCEPT ![p].pc = "discover", ![p].uses = n, ![p].h = None]
  BY <1>1, <1>3
<1> QED
  BY <1>2, <1>4, ProcFields, ZenonT(40) DEF Reaches, SameCall, SameTries, Moves, AnyProc

LEMMA DiscoverIs ==
  ASSUME ProcsTyped, NEW p \in Procs, NEW b \in AnyLabels, Discover(p), proc[p].stack = Only(b)
  PROVE  /\ Moves(p) /\ SameCall(p) /\ SameTries(p)
         /\ UNCHANGED <<lock, device, pending, inFlight, connected, tracked,
                        transportVars, eventVars, ctxDone>>
         /\ \/ Reaches(p, b, NoFrames) /\ proc'[p].res = "ok" /\ chars' \in {chars, TRUE}
            \/ /\ Reaches(p, b, NoFrames) /\ proc'[p].res = "cancelled"
               /\ proc'[p].uses = device /\ UNCHANGED chars
            \/ /\ Reaches(p, "attemptFailed", Only(b))
               /\ proc'[p].uses = device /\ UNCHANGED chars
<1>1. CASE Return(p, "ok") /\ ProcOnly
  BY <1>1, ReturnHome, LabelsTyped DEF ProcOnly, sessionVars
<1>2. CASE ReturnUsing(p, "cancelled") /\ ProcOnly
  BY <1>2, ReturnUsingHome, LabelsTyped DEF ProcOnly, sessionVars
<1>3. CASE /\ chars' = TRUE /\ ReturnUsing(p, "ok")
           /\ UNCHANGED <<lock, device, pending, inFlight, connected, tracked,
                          transportVars, eventVars, ctxDone>>
  BY <1>3, ReturnUsingHome, LabelsTyped
<1>4. CASE proc' = [proc EXCEPT ![p].pc = "attemptFailed", ![p].uses = device] /\ ProcOnly
  <2>1. "attemptFailed" \in AnyLabels
    BY LabelsTyped
  <2>2. /\ Moves(p) /\ SameCall(p) /\ SameTries(p) /\ proc'[p].uses = device
        /\ Reaches(p, "attemptFailed", Only(b))
    BY <1>4, <2>1, ProcFields DEF ProcsTyped, Reaches, SameCall, SameTries, Moves, AnyProc
  <2> QED
    BY <1>4, <2>2 DEF ProcOnly, sessionVars
<1> QED
  BY <1>1, <1>2, <1>3, <1>4 DEF Discover

LEMMA AttemptFailedIs ==
  ASSUME ProcsTyped, NEW p \in Procs, NEW b \in AnyLabels, AttemptFailed(p),
         proc[p].stack = Only(b)
  PROVE  /\ Moves(p) /\ SameCall(p) /\ SameUses(p)
         /\ \/ Reaches(p, b, NoFrames) /\ SameTries(p)
            \/ \E x \in CloseReturns :
                  /\ Reaches(p, "disconnect", Push(x, Only(b)))
                  /\ proc'[p].tries = proc[p].tries + 1
                  /\ x = "giveUp" \/ proc[p].tries + 1 < DiscoveryAttempts
<1>0. /\ proc \in [Procs -> AnyProc] /\ Head(proc[p].stack) = b
      /\ Tail(proc[p].stack) = NoFrames /\ NoFrames \in Seq(AnyLabels)
      /\ proc[p].tries \in Nat /\ DiscoveryAttempts \in Nat
  BY OneFrame, ProcFields, BoundsAssumption DEF ProcsTyped
<1>1. CASE proc' = [proc EXCEPT ![p].pc = Head(proc[p].stack), ![p].stack = Tail(@),
                                ![p].res = "cancelled", ![p].faulted = TRUE]
  <2>1. proc' = [proc EXCEPT ![p].pc = b, ![p].stack = NoFrames,
                             ![p].res = "cancelled", ![p].faulted = TRUE]
    BY <1>0, <1>1
  <2>2. "cancelled" \in Results /\ proc \in [Procs -> AnyProc] /\ NoFrames \in Seq(AnyLabels)
    BY <1>0, LabelsTyped
  <2>3. /\ Moves(p) /\ SameCall(p) /\ SameUses(p) /\ SameTries(p)
        /\ Reaches(p, b, NoFrames)
    <3>1. PICK a \in [Procs -> AnyProc] : a = [proc EXCEPT ![p].pc = b, ![p].stack = NoFrames]
      BY <2>2 DEF AnyProc
    <3>2. proc' = [a EXCEPT ![p].res = "cancelled", ![p].faulted = TRUE]
      BY <2>1, <3>1, Zenon
    <3>3. proc' \in [Procs -> AnyProc]
      BY <2>2, <3>2 DEF AnyProc
    <3> QED
      BY <2>1, <2>2, <3>3, ProcFields DEF Reaches, SameCall, SameTries, SameUses, Moves, AnyProc
  <2> QED
    BY <2>3
<1>2. ASSUME NEW x \in {"giveUp", "retryClosed"},
             x = IF proc[p].tries + 1 >= DiscoveryAttempts THEN "giveUp" ELSE "retryClosed",
             proc' = [proc EXCEPT ![p].pc = "disconnect", ![p].faulted = TRUE,
                                  ![p].tries = @ + 1, ![p].stack = <<x>> \o @]
      PROVE  /\ Moves(p) /\ SameCall(p) /\ SameUses(p)
             /\ \/ Reaches(p, b, NoFrames) /\ SameTries(p)
                \/ \E y \in CloseReturns :
                      /\ Reaches(p, "disconnect", Push(y, Only(b)))
                      /\ proc'[p].tries = proc[p].tries + 1
                      /\ y = "giveUp" \/ proc[p].tries + 1 < DiscoveryAttempts
  <2>1. /\ x \in AnyLabels /\ Push(x, Only(b)) \in Seq(AnyLabels) /\ "disconnect" \in AnyLabels
        /\ x \in CloseReturns
    BY <1>2, OneFrame, Pushed, LabelsTyped DEF CloseReturns
  <2>2. PICK n \in Nat : n = proc[p].tries + 1
    BY <1>0
  <2>3. proc' = [proc EXCEPT ![p].pc = "disconnect", ![p].faulted = TRUE,
                             ![p].tries = n, ![p].stack = Push(x, Only(b))]
    BY <1>2, <2>2 DEF Push
  <2>4. /\ Moves(p) /\ SameCall(p) /\ SameUses(p) /\ proc'[p].tries = n
        /\ Reaches(p, "disconnect", Push(x, Only(b)))
    <3>1. proc \in [Procs -> AnyProc]
      BY <1>0
    <3> QED
      BY <2>1, <2>3, <3>1, ProcFields, ZenonT(40) DEF Reaches, SameCall, SameUses, Moves, AnyProc
  <2>5. x = "giveUp" \/ proc[p].tries + 1 < DiscoveryAttempts
    BY <1>0, <1>2
  <2> QED
    BY <2>1, <2>2, <2>4, <2>5
<1>3. \/ proc' = [proc EXCEPT ![p].pc = Head(proc[p].stack), ![p].stack = Tail(@),
                              ![p].res = "cancelled", ![p].faulted = TRUE]
      \/ proc' = [proc EXCEPT ![p].pc = "disconnect", ![p].faulted = TRUE,
                    ![p].tries = @ + 1,
                    ![p].stack = <<IF proc[p].tries + 1 >= DiscoveryAttempts
                                   THEN "giveUp" ELSE "retryClosed">> \o @]
  BY DEF AttemptFailed
<1> QED
  BY <1>1, <1>2, <1>3

LEMMA GiveUpIs ==
  ASSUME ProcsTyped, NEW p \in Procs, NEW b \in AnyLabels, GiveUp(p), proc[p].stack = Only(b)
  PROVE  /\ Moves(p) /\ SameCall(p) /\ SameTries(p) /\ SameUses(p)
         /\ Reaches(p, b, NoFrames) /\ proc'[p].res = "fail"
BY ReturnHome, LabelsTyped DEF GiveUp, SameUses

LEMMA RetryClosedIs ==
  ASSUME ProcsTyped, NEW p \in Procs, NEW b \in AnyLabels, RetryClosed(p), proc[p].stack = Only(b)
  PROVE  /\ Moves(p) /\ SameCall(p) /\ SameTries(p) /\ SameUses(p)
         /\ \/ /\ proc[p].res = "fail" /\ Reaches(p, b, NoFrames) /\ proc'[p].res = "fail"
               /\ UNCHANGED lock
            \/ Reaches(p, "retryWait", Only(b)) /\ lock' = NoOne
<1>1. CASE proc[p].res = "fail" /\ Return(p, "fail") /\ UNCHANGED lock
  BY <1>1, ReturnHome, LabelsTyped DEF SameUses
<1>2. CASE Goto(p, "retryWait") /\ lock' = NoOne
  BY <1>2, GotoIs, LabelsTyped DEF ProcsTyped, Reaches, SameCall, SameTries, SameUses
<1> QED
  BY <1>1, <1>2 DEF RetryClosed

LEMMA RetryWakeIs ==
  ASSUME ProcsTyped, NEW p \in Procs, NEW b \in AnyLabels, RetryWake(p), proc[p].stack = Only(b)
  PROVE  /\ Moves(p) /\ SameCall(p) /\ SameTries(p) /\ SameUses(p)
         /\ \/ Reaches(p, "gate", Push("reopen", Only(b)))
            \/ Reaches(p, b, NoFrames) /\ proc'[p].res = "notStarted"
<1>1. CASE Call(p, "gate", "reopen")
  BY <1>1, CallIs, LabelsTyped DEF ProcsTyped, Reaches, SameCall, SameTries, SameUses
<1>2. CASE Return(p, "notStarted")
  BY <1>2, ReturnHome, LabelsTyped DEF SameUses
<1> QED
  BY <1>1, <1>2 DEF RetryWake

LEMMA ReopenIs ==
  ASSUME ProcsTyped, NEW p \in Procs, NEW b \in AnyLabels, Reopen(p), proc[p].stack = Only(b)
  PROVE  /\ Moves(p) /\ SameCall(p) /\ SameTries(p) /\ SameUses(p)
         /\ \/ /\ proc[p].res # "ok" /\ Reaches(p, b, NoFrames) /\ proc'[p].res = proc[p].res
               /\ ProcOnly
            \/ device # None /\ Reaches(p, "discover", Only(b)) /\ ProcOnly
            \/ /\ proc[p].res = "ok" /\ device = None
               /\ Reaches(p, "opened", Only(b)) /\ OpenSession(p, "opened")
            \/ device = None /\ Reaches(p, "attemptFailed", Only(b)) /\ ProcOnly
            \/ device = None /\ Reaches(p, b, NoFrames) /\ ProcOnly
<1>1. CASE proc[p].res # "ok" /\ Return(p, proc[p].res) /\ ProcOnly
  <2>1. proc[p].res \in Results
    BY ProcFields DEF ProcsTyped
  <2> QED
    BY <1>1, <2>1, ReturnHome DEF SameUses
<1>2. CASE device # None /\ Goto(p, "discover") /\ ProcOnly
  BY <1>2, GotoIs, LabelsTyped DEF ProcsTyped, Reaches, SameCall, SameTries, SameUses
<1>3. CASE proc[p].res = "ok" /\ device = None /\ OpenSession(p, "opened")
  BY <1>3, OpenSessionIs
<1>4. CASE device = None /\ Goto(p, "attemptFailed") /\ ProcOnly
  BY <1>4, GotoIs, LabelsTyped DEF ProcsTyped, Reaches, SameCall, SameTries, SameUses
<1>5. CASE device = None /\ Return(p, "notStarted") /\ ProcOnly
  BY <1>5, ReturnHome, LabelsTyped DEF SameUses
<1> QED
  BY <1>1, <1>2, <1>3, <1>4, <1>5 DEF Reopen

\* disconnectInternal and cleanupPendingInternal, wherever they return to.
LEMMA ReturnsIs ==
  ASSUME ProcsTyped, NEW p \in Procs, NEW x \in AnyLabels, NEW s \in Seq(AnyLabels),
         NEW res \in Results, Return(p, res), proc[p].stack = Push(x, s)
  PROVE  /\ Moves(p) /\ SameCall(p) /\ SameTries(p) /\ SameUses(p)
         /\ Reaches(p, x, s) /\ proc'[p].res = res
BY ReturnIs DEF ProcsTyped, Reaches, SameCall, SameTries, SameUses

LEMMA DisconnectIs ==
  ASSUME ProcsTyped, NEW p \in Procs, Disconnect(p)
  PROVE  /\ Moves(p) /\ SameCall(p) /\ SameTries(p) /\ SameUses(p)
         /\ \/ /\ pending = None /\ Reaches(p, "detach", proc[p].stack) /\ proc'[p].res = "ok"
               /\ UNCHANGED <<lock, pending, inFlight>>
            \/ /\ pending # None /\ Reaches(p, "cleaning", Push("detach", proc[p].stack))
               /\ proc'[p].h = pending /\ pending' = None /\ inFlight' = p /\ lock' = NoOne
<1>1. StartCleanup(p, "detach", proc[p].stack)
  BY DEF Disconnect
<1>2. "detach" \in AnyLabels /\ proc[p].stack \in Seq(AnyLabels)
  BY LabelsTyped, ProcFields DEF ProcsTyped
<1> QED
  BY <1>1, <1>2, CleanupIs

LEMMA DetachIs ==
  ASSUME ProcsTyped, NEW p \in Procs, NEW x \in AnyLabels, NEW s \in Seq(AnyLabels),
         Detach(p), proc[p].stack = Push(x, s)
  PROVE  /\ Moves(p) /\ SameCall(p) /\ SameTries(p) /\ SameUses(p)
         /\ \/ /\ proc[p].res = "fail" /\ Reaches(p, x, s) /\ proc'[p].res = "fail"
               /\ UNCHANGED <<lock, sessionVars>>
            \/ /\ proc[p].res # "fail" /\ device # None
               /\ Reaches(p, "disconnecting", Push(x, s)) /\ proc'[p].h = device
               /\ chars' = FALSE /\ device' = None /\ inFlight' = p /\ lock' = NoOne
               /\ UNCHANGED <<pending, tracked, connected>>
            \/ /\ proc[p].res # "fail" /\ device = None
               /\ Reaches(p, x, s) /\ proc'[p].res = "ok"
               /\ chars' = FALSE /\ device' = None /\ Untrack(None, pending)
               /\ UNCHANGED <<pending, tracked, lock, inFlight>>
<1>1. CASE proc[p].res = "fail"
  <2>1. Return(p, "fail") /\ UNCHANGED <<lock, sessionVars>>
    BY <1>1 DEF Detach
  <2> QED
    BY <1>1, <2>1, ReturnsIs, LabelsTyped
<1>2. CASE proc[p].res # "fail" /\ device # None
  <2>1. proc' = [proc EXCEPT ![p].pc = "disconnecting", ![p].h = device]
    BY <1>2 DEF Detach
  <2>2. "disconnecting" \in AnyLabels
    BY LabelsTyped
  <2>3. /\ Moves(p) /\ SameCall(p) /\ SameTries(p) /\ SameUses(p)
        /\ Reaches(p, "disconnecting", proc[p].stack) /\ proc'[p].h = device
    BY <2>1, <2>2, ProcFields
    DEF ProcsTyped, Reaches, SameCall, SameTries, SameUses, Moves, AnyProc
  <2>4. /\ chars' = FALSE /\ device' = None /\ inFlight' = p /\ lock' = NoOne
        /\ UNCHANGED <<pending, tracked, connected>>
    BY <1>2 DEF Detach
  <2> QED
    BY <1>2, <2>3, <2>4
<1>3. CASE proc[p].res # "fail" /\ device = None
  <2>1. /\ chars' = FALSE /\ device' = None /\ Untrack(None, pending)
        /\ UNCHANGED <<pending, tracked, lock, inFlight>> /\ Return(p, "ok")
    BY <1>3 DEF Detach
  <2> QED
    BY <1>3, <2>1, ReturnsIs, LabelsTyped
<1> QED
  BY <1>1, <1>2, <1>3

\* The four ends of a Disconnect.
LEMMA ClosedIs ==
  ASSUME ProcsTyped, NEW p \in Procs, NEW x \in AnyLabels, NEW s \in Seq(AnyLabels),
         CleanupSucceeds(p) \/ DisconnectSucceeds(p), proc[p].stack = Push(x, s)
  PROVE  /\ Moves(p) /\ SameCall(p) /\ SameTries(p) /\ SameUses(p)
         /\ Reaches(p, x, s) /\ proc'[p].res = "ok"
BY ReturnsIs, LabelsTyped DEF CleanupSucceeds, DisconnectSucceeds

LEMMA NotClosedIs ==
  ASSUME ProcsTyped, NEW p \in Procs, NEW x \in AnyLabels, NEW s \in Seq(AnyLabels),
         CleanupFails(p) \/ DisconnectFails(p), proc[p].stack = Push(x, s)
  PROVE  /\ Moves(p) /\ SameCall(p) /\ SameTries(p) /\ SameUses(p)
         /\ Reaches(p, x, s) /\ proc'[p].res = "fail"
BY ReturnsIs, LabelsTyped DEF CleanupFails, DisconnectFails

-----------------------------------------------------------------------------
(* A procedure stays where it may be, and returns to who called it.        *)

LEMMA WhereBody ==
  ASSUME NEW r, NEW b, InConnect(r, b), r.pc \in ConnectBody
  PROVE  r.stack = Only(b) /\ r.tries < DiscoveryAttempts
BY DEF InConnect, ConnectBody, GatePcs, ClosePcs

LEMMA WhereEnds ==
  ASSUME NEW r, NEW b, InConnect(r, b), r.pc \in {"connect", "giveUp"}
  PROVE  r.stack = Only(b) /\ r.tries <= DiscoveryAttempts
BY DEF InConnect, ConnectBody, GatePcs, ClosePcs

LEMMA WhereGate ==
  ASSUME NEW r, NEW b, InConnect(r, b), r.pc \in {"gate", "gateWait"}
  PROVE  \E x \in GateReturns : r.stack = Push(x, Only(b)) /\ r.tries < DiscoveryAttempts
BY DEF InConnect, ConnectBody, GatePcs, ClosePcs

LEMMA WhereClosing ==
  ASSUME NEW r, NEW b, InConnect(r, b), r.pc \in ClosePcs
  PROVE  \E x \in CloseReturns :
            /\ r.stack = Push(x, Only(b)) /\ r.tries <= DiscoveryAttempts
            /\ x = "giveUp" \/ r.tries < DiscoveryAttempts
BY DEF InConnect, ConnectBody, GatePcs, ClosePcs

LEMMA WhereCleaning ==
  ASSUME NEW r, NEW b, InConnect(r, b), r.pc = "cleaning"
  PROVE  \/ \E x \in GateReturns : r.stack = Push(x, Only(b)) /\ r.tries < DiscoveryAttempts
         \/ \E x \in CloseReturns :
               /\ r.stack = Push("detach", Push(x, Only(b))) /\ r.tries <= DiscoveryAttempts
               /\ x = "giveUp" \/ r.tries < DiscoveryAttempts
BY DEF InConnect, ConnectBody, GatePcs, ClosePcs

LEMMA WhereClose ==
  ASSUME NEW r, NEW b, InClose(r, b)
  PROVE  /\ r.tries <= DiscoveryAttempts /\ r.pc \in ClosePcs \cup {"cleaning"}
         /\ r.pc \in ClosePcs => r.stack = Only(b)
         /\ r.pc = "cleaning" => r.stack = Push("detach", Only(b))
BY DEF InClose, ClosePcs

\* What process p, which stands in connectAndDiscoverInternalContext, does next.
Onward(p, b) ==
  Moves(p) /\ SameCall(p) /\ (InConnect(proc'[p], b) \/ Back(proc'[p], b))
Outward(p, b) ==
  Moves(p) /\ SameCall(p) /\ (InClose(proc'[p], b) \/ Back(proc'[p], b))

LEMMA ReachesBody ==
  ASSUME NEW p, NEW b, NEW x \in ConnectBody, Reaches(p, x, Only(b)),
         SameTries(p), proc[p].tries < DiscoveryAttempts
  PROVE  InConnect(proc'[p], b)
BY DEF InConnect, Reaches, SameTries

LEMMA ReachesBack ==
  ASSUME NEW p, NEW b, Reaches(p, b, NoFrames), SameTries(p), proc[p].tries <= DiscoveryAttempts
  PROVE  Back(proc'[p], b)
BY DEF Back, Reaches, SameTries

LEMMA ReachesGate ==
  ASSUME NEW p, NEW b, NEW x \in GateReturns, NEW l \in GatePcs,
         Reaches(p, l, Push(x, Only(b))), SameTries(p), proc[p].tries < DiscoveryAttempts
  PROVE  InConnect(proc'[p], b)
BY DEF InConnect, Reaches, SameTries

LEMMA FewTries ==
  ASSUME ProcsTyped, NEW p \in Procs, proc[p].tries < DiscoveryAttempts
  PROVE  proc[p].tries <= DiscoveryAttempts /\ proc[p].tries + 1 <= DiscoveryAttempts
<1>1. proc[p].tries \in Nat /\ DiscoveryAttempts \in Nat
  BY ProcFields, BoundsAssumption DEF ProcsTyped
<1> QED
  BY <1>1

LEMMA GateOnward ==
  ASSUME ProcsTyped, NEW p \in Procs, NEW b \in AnyLabels, InConnect(proc[p], b),
         Gate(p) \/ GateWake(p) \/ GateCancelled(p)
  PROVE  Onward(p, b)
<1>1. proc[p].pc \in {"gate", "gateWait"}
  BY DEF Gate, GateWake, GateCancelled, Locked, Unlocked, At
<1>2. PICK x \in GateReturns : proc[p].stack = Push(x, Only(b)) /\ proc[p].tries < DiscoveryAttempts
  BY <1>1, WhereGate
<1>3. x \in AnyLabels /\ Only(b) \in Seq(AnyLabels) /\ x \in ConnectBody
  BY LabelsTyped, OneFrame DEF GateReturns, ConnectBody
<1>4. {"gate", "gateWait", "cleaning"} = GatePcs
  BY DEF GatePcs
<1>5. CASE Gate(p)
  <2>1. Moves(p) /\ SameCall(p) /\ SameTries(p)
    BY <1>2, <1>3, <1>5, GateIs
  <2>2. \/ Reaches(p, x, Only(b))
        \/ Reaches(p, "cleaning", Push(x, Only(b)))
        \/ Reaches(p, "gateWait", Push(x, Only(b)))
    BY <1>2, <1>3, <1>5, GateIs
  <2> QED
    BY <1>2, <1>3, <1>4, <2>1, <2>2, ReachesBody, ReachesGate DEF Onward
<1>6. CASE GateWake(p)
  BY <1>2, <1>4, <1>6, GateWakeIs, ReachesGate DEF Onward
<1>7. CASE GateCancelled(p)
  BY <1>2, <1>3, <1>7, GateCancelledIs, ReachesBody DEF Onward
<1> QED
  BY <1>5, <1>6, <1>7

LEMMA BodyOnward ==
  ASSUME ProcsTyped, NEW p \in Procs, NEW b \in AnyLabels, InConnect(proc[p], b),
         \/ GatePassed(p) \/ StaleClosed(p) \/ Rebuild(p) \/ OpenOrReuse(p) \/ Opened(p)
         \/ Discover(p) \/ AttemptFailed(p) \/ RetryClosed(p) \/ RetryWake(p) \/ Reopen(p)
  PROVE  Onward(p, b)
<1>1. proc[p].pc \in ConnectBody
  BY DEF GatePassed, StaleClosed, Rebuild, OpenOrReuse, Opened, Discover, AttemptFailed,
         RetryClosed, RetryWake, Reopen, Locked, Unlocked, At, ConnectBody
<1>2. /\ proc[p].stack = Only(b) /\ proc[p].tries < DiscoveryAttempts
      /\ proc[p].tries <= DiscoveryAttempts /\ proc[p].tries + 1 <= DiscoveryAttempts
  BY <1>1, WhereBody, FewTries
<1>3. /\ {"rebuild", "discover", "opened", "attemptFailed", "retryWait"} \subseteq ConnectBody
      /\ {"gated", "open", "reopen"} \subseteq GateReturns /\ "gate" \in GatePcs
      /\ "staleClosed" \in CloseReturns
  BY DEF ConnectBody, GateReturns, GatePcs, CloseReturns
<1>4. ASSUME NEW x \in CloseReturns, Reaches(p, "disconnect", Push(x, Only(b))),
             proc'[p].tries \in {proc[p].tries, proc[p].tries + 1},
             x = "giveUp" \/ proc'[p].tries < DiscoveryAttempts
      PROVE  InConnect(proc'[p], b)
  BY <1>2, <1>4 DEF InConnect, Reaches, ClosePcs
<1>5. CASE GatePassed(p)
  BY <1>2, <1>3, <1>4, <1>5, GatePassedIs, ReachesBody, ReachesBack DEF Onward, SameTries
<1>6. CASE StaleClosed(p)
  BY <1>2, <1>3, <1>6, StaleClosedIs, ReachesBody, ReachesBack DEF Onward
<1>7. CASE Rebuild(p)
  BY <1>2, <1>3, <1>7, RebuildIs, ReachesBody, ReachesGate DEF Onward
<1>8. CASE OpenOrReuse(p)
  BY <1>2, <1>3, <1>8, OpenOrReuseIs, ReachesBody, ReachesBack DEF Onward
<1>9. CASE Opened(p)
  BY <1>2, <1>3, <1>9, OpenedIs, ReachesBody DEF Onward
<1>10. CASE Discover(p)
  BY <1>2, <1>3, <1>10, DiscoverIs, ReachesBody, ReachesBack DEF Onward
<1>11. CASE AttemptFailed(p)
  BY <1>2, <1>3, <1>4, <1>11, AttemptFailedIs, ReachesBack DEF Onward
<1>12. CASE RetryClosed(p)
  BY <1>2, <1>3, <1>12, RetryClosedIs, ReachesBody, ReachesBack DEF Onward
<1>13. CASE RetryWake(p)
  BY <1>2, <1>3, <1>13, RetryWakeIs, ReachesGate, ReachesBack DEF Onward
<1>14. CASE Reopen(p)
  BY <1>2, <1>3, <1>14, ReopenIs, ReachesBody, ReachesBack DEF Onward
<1> QED
  BY <1>5, <1>6, <1>7, <1>8, <1>9, <1>10, <1>11, <1>12, <1>13, <1>14

LEMMA EndsOnward ==
  ASSUME ProcsTyped, NEW p \in Procs, NEW b \in AnyLabels, InConnect(proc[p], b),
         Connect(p) \/ GiveUp(p)
  PROVE  Onward(p, b)
<1>1. proc[p].stack = Only(b) /\ proc[p].tries <= DiscoveryAttempts
  BY WhereEnds DEF Connect, GiveUp, Locked, At
<1>2. CASE Connect(p)
  <2>1. 0 < DiscoveryAttempts
    BY BoundsAssumption
  <2>2. CASE Reaches(p, b, NoFrames) /\ SameTries(p)
    BY <1>1, <1>2, <2>2, ConnectIs, ReachesBack DEF Onward
  <2>3. CASE Reaches(p, "gate", Push("gated", Only(b))) /\ proc'[p].tries = 0
    BY <1>1, <1>2, <2>1, <2>3, ConnectIs DEF Onward, InConnect, Reaches, GateReturns, GatePcs
  <2> QED
    BY <1>1, <1>2, <2>2, <2>3, ConnectIs
<1>3. CASE GiveUp(p)
  BY <1>1, <1>3, GiveUpIs, ReachesBack DEF Onward
<1> QED
  BY <1>2, <1>3

LEMMA ReachesClosing ==
  ASSUME NEW p, NEW b, NEW x \in CloseReturns, SameTries(p),
         proc[p].tries <= DiscoveryAttempts, x = "giveUp" \/ proc[p].tries < DiscoveryAttempts,
         \/ \E l \in ClosePcs : Reaches(p, l, Push(x, Only(b)))
         \/ Reaches(p, "cleaning", Push("detach", Push(x, Only(b))))
         \/ Reaches(p, x, Only(b))
  PROVE  InConnect(proc'[p], b)
<1>1. x = "giveUp" \/ (x \in ConnectBody /\ proc[p].tries < DiscoveryAttempts)
  BY DEF CloseReturns, ConnectBody
<1>2. CASE Reaches(p, x, Only(b))
  BY <1>1, <1>2 DEF InConnect, Reaches, SameTries
<1>3. CASE \E l \in ClosePcs : Reaches(p, l, Push(x, Only(b)))
  BY <1>3 DEF InConnect, Reaches, SameTries
<1>4. CASE Reaches(p, "cleaning", Push("detach", Push(x, Only(b))))
  BY <1>4 DEF InConnect, Reaches, SameTries
<1> QED
  BY <1>2, <1>3, <1>4

LEMMA ClosingOnward ==
  ASSUME ProcsTyped, NEW p \in Procs, NEW b \in AnyLabels, InConnect(proc[p], b),
         Disconnect(p) \/ Detach(p) \/ DisconnectSucceeds(p) \/ DisconnectFails(p)
  PROVE  Onward(p, b)
<1>1. proc[p].pc \in ClosePcs
  BY DEF Disconnect, Detach, DisconnectSucceeds, DisconnectFails, Locked, Unlocked, At, ClosePcs
<1>2. PICK x \in CloseReturns :
         /\ proc[p].stack = Push(x, Only(b)) /\ proc[p].tries <= DiscoveryAttempts
         /\ x = "giveUp" \/ proc[p].tries < DiscoveryAttempts
  BY <1>1, WhereClosing
<1>3. x \in AnyLabels /\ Only(b) \in Seq(AnyLabels) /\ {"detach", "disconnecting"} \subseteq ClosePcs
  BY LabelsTyped, OneFrame DEF CloseReturns, ClosePcs
<1>4. CASE Disconnect(p)
  BY <1>2, <1>3, <1>4, DisconnectIs, ReachesClosing DEF Onward
<1>5. CASE Detach(p)
  BY <1>2, <1>3, <1>5, DetachIs, ReachesClosing DEF Onward
<1>6. CASE DisconnectSucceeds(p)
  BY <1>2, <1>3, <1>6, ClosedIs, ReachesClosing DEF Onward
<1>7. CASE DisconnectFails(p)
  BY <1>2, <1>3, <1>7, NotClosedIs, ReachesClosing DEF Onward
<1> QED
  BY <1>4, <1>5, <1>6, <1>7

LEMMA CleaningOnward ==
  ASSUME ProcsTyped, NEW p \in Procs, NEW b \in AnyLabels, InConnect(proc[p], b),
         CleanupSucceeds(p) \/ CleanupFails(p)
  PROVE  Onward(p, b)
<1>1. proc[p].pc = "cleaning"
  BY DEF CleanupSucceeds, CleanupFails, Unlocked, At
<1>2. ASSUME NEW x \in AnyLabels, NEW s \in Seq(AnyLabels), proc[p].stack = Push(x, s)
      PROVE  Moves(p) /\ SameCall(p) /\ SameTries(p) /\ Reaches(p, x, s)
  BY <1>2, ClosedIs, NotClosedIs
<1>3. CASE \E x \in GateReturns :
              proc[p].stack = Push(x, Only(b)) /\ proc[p].tries < DiscoveryAttempts
  <2>1. PICK x \in GateReturns :
           proc[p].stack = Push(x, Only(b)) /\ proc[p].tries < DiscoveryAttempts
    BY <1>3
  <2>2. x \in AnyLabels /\ Only(b) \in Seq(AnyLabels) /\ x \in ConnectBody
    BY LabelsTyped, OneFrame DEF GateReturns, ConnectBody
  <2> QED
    BY <1>2, <2>1, <2>2, ReachesBody DEF Onward
<1>4. CASE \E x \in CloseReturns :
              /\ proc[p].stack = Push("detach", Push(x, Only(b)))
              /\ proc[p].tries <= DiscoveryAttempts
              /\ x = "giveUp" \/ proc[p].tries < DiscoveryAttempts
  <2>1. PICK x \in CloseReturns :
              /\ proc[p].stack = Push("detach", Push(x, Only(b)))
              /\ proc[p].tries <= DiscoveryAttempts
              /\ x = "giveUp" \/ proc[p].tries < DiscoveryAttempts
    BY <1>4
  <2>2. x \in AnyLabels /\ "detach" \in AnyLabels /\ "detach" \in ClosePcs
    BY LabelsTyped DEF CloseReturns, ClosePcs
  <2>3. Push(x, Only(b)) \in Seq(AnyLabels)
    BY <2>2, OneFrame, Pushed
  <2> QED
    BY <1>2, <2>1, <2>2, <2>3, ReachesClosing DEF Onward
<1> QED
  BY <1>1, <1>3, <1>4, WhereCleaning

\* connectAndDiscoverInternalContext and all it calls.
LEMMA ConnectStays ==
  ASSUME ProcsTyped, NEW p \in Procs, NEW b \in AnyLabels, InConnect(proc[p], b),
         ConnectStep(p) \/ DisconnectStep(p)
  PROVE  Onward(p, b)
BY GateOnward, BodyOnward, EndsOnward, ClosingOnward, CleaningOnward
DEF ConnectStep, DisconnectStep

\* disconnectInternal and the cleanup it begins with.
LEMMA CloseStays ==
  ASSUME ProcsTyped, NEW p \in Procs, NEW b \in AnyLabels, InClose(proc[p], b),
         ConnectStep(p) \/ DisconnectStep(p)
  PROVE  DisconnectStep(p) /\ Outward(p, b)
<1>1. /\ proc[p].tries <= DiscoveryAttempts /\ proc[p].pc \in ClosePcs \cup {"cleaning"}
      /\ proc[p].pc \in ClosePcs => proc[p].stack = Only(b)
      /\ proc[p].pc = "cleaning" => proc[p].stack = Push("detach", Only(b))
  BY WhereClose
<1>2. DisconnectStep(p)
  BY <1>1 DEF ConnectStep, Gate, GateWake, GateCancelled, Connect, GatePassed, StaleClosed,
     Rebuild, OpenOrReuse, Opened, Discover, AttemptFailed, GiveUp, RetryClosed, RetryWake, Reopen,
     Locked, Unlocked, At, ClosePcs
<1>3. /\ {"detach", "disconnecting"} \subseteq ClosePcs /\ "detach" \in AnyLabels
      /\ Only(b) \in Seq(AnyLabels) /\ NoFrames \in Seq(AnyLabels) /\ Only(b) = Push(b, NoFrames)
  BY LabelsTyped, OneFrame DEF ClosePcs, Only
<1>4. ASSUME NEW l \in ClosePcs, Reaches(p, l, Only(b)), SameTries(p)
      PROVE  InClose(proc'[p], b)
  BY <1>1, <1>4 DEF InClose, Reaches, SameTries
<1>5. ASSUME Reaches(p, "cleaning", Push("detach", Only(b))), SameTries(p)
      PROVE  InClose(proc'[p], b)
  BY <1>1, <1>5 DEF InClose, Reaches, SameTries
<1>6. CASE Disconnect(p)
  <2>1. proc[p].stack = Only(b)
    BY <1>1, <1>6 DEF Disconnect, Locked, At, ClosePcs
  <2> QED
    BY <1>2, <1>3, <1>4, <1>5, <1>6, <2>1, DisconnectIs DEF Outward
<1>7. CASE Detach(p)
  <2>1. proc[p].stack = Push(b, NoFrames)
    BY <1>1, <1>3, <1>7 DEF Detach, Locked, At, ClosePcs
  <2> QED
    BY <1>1, <1>2, <1>3, <1>4, <1>7, <2>1, DetachIs, ReachesBack DEF Outward
<1>8. CASE DisconnectSucceeds(p)
  <2>1. proc[p].stack = Push(b, NoFrames)
    BY <1>1, <1>3, <1>8 DEF DisconnectSucceeds, Unlocked, At, ClosePcs
  <2> QED
    BY <1>1, <1>2, <1>3, <1>8, <2>1, ClosedIs, ReachesBack DEF Outward
<1>9. CASE DisconnectFails(p)
  <2>1. proc[p].stack = Push(b, NoFrames)
    BY <1>1, <1>3, <1>9 DEF DisconnectFails, Unlocked, At, ClosePcs
  <2> QED
    BY <1>1, <1>2, <1>3, <1>9, <2>1, NotClosedIs, ReachesBack DEF Outward
<1>10. CASE CleanupSucceeds(p)
  <2>1. proc[p].stack = Push("detach", Only(b))
    BY <1>1, <1>10 DEF CleanupSucceeds, Unlocked, At
  <2> QED
    BY <1>2, <1>3, <1>4, <1>10, <2>1, ClosedIs DEF Outward
<1>11. CASE CleanupFails(p)
  <2>1. proc[p].stack = Push("detach", Only(b))
    BY <1>1, <1>11 DEF CleanupFails, Unlocked, At
  <2> QED
    BY <1>2, <1>3, <1>4, <1>11, <2>1, NotClosedIs DEF Outward
<1> QED
  BY <1>2, <1>6, <1>7, <1>8, <1>9, <1>10, <1>11 DEF DisconnectStep

-----------------------------------------------------------------------------
(* The inductive invariant.                                                *)

\* The labels of this module's calls, and with those of the commands: where a call
\* stands outside the procedures, and where it goes on after a connect or a close.
OwnPcs ==
  {"idle", "enter", "done", "sweeping", "ensured", "interrupted", "refreshClosed",
   "fetched", "releaseDone", "probe", "probed", "cleaned"}
OwnConnects == {"ensured", "fetched"}
OwnCloses == {"interrupted", "refreshClosed", "releaseDone", "probed"}
OwnKinds == SessionKinds \cup {"none", "dropped"}
TopPcs == OwnPcs \cup CommandLabels
ConnectBases ==
  OwnConnects \cup {"commandConnected", "pairRebuilt", "pollReopened", "channelConnected"}
CloseBases == OwnCloses \cup {"gaveUp", "backoff", "sleepDropped", "pollClosed"}
UnlockedPcs ==
  {"idle", "enter", "done", "sweeping", "gateWait", "retryWait", "cleaning", "disconnecting"}
  \cup {"enterCommand", "backoffWait", "gap", "pollWait", "pollReopen"}
LockedPcs == AnyLabels \ UnlockedPcs

\* Every procedure stands where the code has called it.
Frames(r, top, connects, closes) ==
  \/ r.pc \in top /\ r.stack = NoFrames /\ r.tries <= DiscoveryAttempts
  \/ r.pc = "cleaning" /\ r.stack = Only("cleaned") /\ r.tries <= DiscoveryAttempts
  \/ \E b \in connects : InConnect(r, b)
  \/ \E b \in closes : InClose(r, b)
ProcShape(r) ==
  /\ r.pc = "probe" => r.kind = "probe"
  /\ Frames(r, TopPcs, ConnectBases, CloseBases)
  /\ r.kind \in OwnKinds => Frames(r, OwnPcs, OwnConnects, OwnCloses)

\* What the holder of the lock knows: behind the gate no session is open that
\* is not the station's, with the older cleanup done none is left, and a call
\* that failed or was cancelled has seen the session the station holds, and it is
\* the station's own session whose services are discovered.
Knows(r) ==
  /\ r.pc \in {"open", "reopen"} /\ r.res = "ok" /\ device = None => Open = {}
  /\ r.pc \in {"detach", "releaseDone"} /\ r.res # "fail" => pending = None
  /\ r.pc = "discover" => device # None
  /\ /\ r.kind \in Cancellable
     /\ \/ r.pc \in {"attemptFailed", "disconnect", "detach", "giveUp"}
        \/ /\ r.pc \in {"gated", "open", "reopen", "staleClosed", "retryClosed",
                        "ensured", "fetched"}
           /\ r.res \in {"fail", "cancelled"}
     => device \in {None, r.uses}

Free == \A p \in Procs : ~InHandAt(p)

\* The session is in one place: the station, its cleanup or a hand.
Place ==
  /\ device # None => Open = {device} /\ pending = None /\ Free
  /\ pending # None => Open = {pending} /\ device = None /\ Free
  /\ \A p \in Procs : InHandAt(p) =>
        /\ proc[p].h # None /\ Open = {proc[p].h} /\ device = None /\ pending = None
        /\ \A q \in Procs \ {p} : ~InHandAt(q)
  /\ device = None /\ pending = None /\ Free => Open = {}

Locks ==
  /\ \A p \in Procs : proc[p].pc \in LockedPcs <=> lock = p
  /\ \A p \in Procs : proc[p].pc \in {"cleaning", "disconnecting"} => inFlight = p

Tracked ==
  /\ device # None => connected
  /\ pending # None => connected \/ tracked

\* The goroutine of a handle has been started: the station has lost it for good.
Started ==
  \A n \in Handles : proc[n].pc # "idle" =>
     /\ n <= opened /\ device # n
     /\ \A q \in Procs : proc[q].pc = "opened" => proc[q].h # n

GlobalTypes ==
  /\ lock \in Procs \cup {NoOne} /\ inFlight \in Procs \cup {NoOne}
  /\ device \in 0..MaxHandles /\ pending \in 0..MaxHandles
  /\ chars \in BOOLEAN /\ connected \in BOOLEAN /\ tracked \in BOOLEAN
  /\ opened \in 0..MaxHandles
  /\ released \subseteq Handles /\ released \subseteq 1..opened
  /\ down \subseteq Handles /\ events \subseteq Handles
  /\ queue \in Seq(Handles) /\ drainer \in {"off", "idle", "busy"}
  /\ invalid \in 0..MaxHandles /\ ctxDone \subseteq Calls
  /\ drainer = "busy" => invalid \in Handles

GattIInv ==
  /\ GlobalTypes /\ proc \in [Procs -> AnyProc]
  /\ \A p \in Procs : ProcShape(proc[p])
  /\ Locks /\ Place /\ Tracked /\ Started
  /\ lock # NoOne => Knows(proc[lock])

-----------------------------------------------------------------------------
(* Steps that move one process and leave the session where it is.          *)

Control(p) ==
  /\ Moves(p) /\ SameCall(p) /\ ProcShape(proc'[p])
  /\ UNCHANGED <<device, pending, inFlight, transportVars, eventVars>>
  /\ {chars', connected', tracked'} \subseteq BOOLEAN /\ ctxDone' \subseteq Calls
  /\ device # None => connected' = connected
  /\ pending # None => connected' = connected /\ tracked' = tracked
  /\ proc[p].pc \notin HandPcs /\ proc'[p].pc \notin HandPcs
  /\ proc[p].pc # "idle" \/ p \in Calls
  /\ lock \in {p, NoOne} /\ lock' \in {p, NoOne}
  /\ proc'[p].pc \in LockedPcs <=> lock' = p
  /\ lock' = p => Knows(proc'[p])

LEMMA NotNoOne ==
  ASSUME NEW p \in Procs
  PROVE  p # NoOne
BY CallsAssumption DEF Procs, Handles

LEMMA HandLabels ==
  /\ {"cleaning", "disconnecting"} \subseteq HandPcs /\ "opened" \in LockedPcs
  /\ HandPcs = {"cleaning", "disconnecting", "opened"}
  /\ "opened" \in HandPcs /\ "idle" \notin HandPcs
  /\ {"cleaning", "disconnecting", "idle"} \cap LockedPcs = {}
BY DEF HandPcs, LockedPcs, UnlockedPcs, Labels, AnyLabels, CommandLabels

LEMMA ControlKeeps ==
  ASSUME GattIInv, NEW p \in Procs, Control(p)
  PROVE  GattIInv'
<1>0. /\ proc' \in [Procs -> AnyProc] /\ \A q \in Procs : q # p => proc'[q] = proc[q]
      /\ p # NoOne
  BY NotNoOne DEF Control, Moves
<1>1. GlobalTypes'
  <2>1. lock' \in Procs \cup {NoOne}
    BY DEF Control
  <2>2. /\ device' = device /\ pending' = pending /\ inFlight' = inFlight /\ opened' = opened
        /\ released' = released /\ down' = down /\ events' = events /\ queue' = queue
        /\ drainer' = drainer /\ invalid' = invalid
    BY DEF Control, transportVars, eventVars
  <2>3. chars' \in BOOLEAN /\ connected' \in BOOLEAN /\ tracked' \in BOOLEAN /\ ctxDone' \subseteq Calls
    BY DEF Control
  <2> QED
    BY <2>1, <2>2, <2>3 DEF GattIInv, GlobalTypes
<1>2. (\A q \in Procs : ProcShape(proc[q]))'
  BY <1>0 DEF Control, GattIInv, ProcShape, Frames, InConnect, InClose
<1>3. \A q \in Procs : /\ InHandAt(q)' <=> InHandAt(q)
                       /\ InHandAt(q) => proc'[q].h = proc[q].h
  BY <1>0 DEF Control, InHandAt
<1>4. Locks'
  <2>1. (\A q \in Procs : proc[q].pc \in LockedPcs <=> lock = q)'
    <3>1. ASSUME NEW q \in Procs, q # p
          PROVE  proc'[q].pc \in LockedPcs <=> lock' = q
      <4>1. lock # q /\ lock' # q
        BY <3>1, NotNoOne DEF Control
      <4> QED
        BY <1>0, <3>1, <4>1 DEF GattIInv, Locks
    <3>2. proc'[p].pc \in LockedPcs <=> lock' = p
      BY DEF Control
    <3> QED
      BY <3>1, <3>2
  <2>2. (\A q \in Procs : proc[q].pc \in {"cleaning", "disconnecting"} => inFlight = q)'
    BY <1>0, HandLabels DEF Control, GattIInv, Locks
  <2> QED
    BY <2>1, <2>2 DEF Locks
<1>5. Place'
  <2>1. device' = device /\ pending' = pending /\ Open' = Open
    BY DEF Control, transportVars, Open
  <2> QED
    BY <1>3, <2>1 DEF GattIInv, Place, Free
<1>6. Tracked'
  BY DEF Control, GattIInv, Tracked
<1>7. Started'
  <2>1. device' = device /\ opened' = opened
    BY DEF Control, transportVars
  <2>2. \A n \in Handles : proc'[n].pc # "idle" => proc[n].pc # "idle"
    <3>1. p \in Handles => proc[p].pc # "idle"
      BY CallsAssumption DEF Control, Handles
    <3> QED
      BY <1>0, <3>1 DEF Procs
  <2>3. \A q \in Procs : proc'[q].pc = "opened" => proc[q].pc = "opened" /\ proc'[q].h = proc[q].h
    BY <1>0, HandLabels DEF Control
  <2> QED
    BY <2>1, <2>2, <2>3 DEF GattIInv, Started
<1>8. (lock # NoOne => Knows(proc[lock]))'
  <2>1. device' = device /\ pending' = pending /\ Open' = Open
    BY DEF Control, transportVars, Open
  <2>2. lock' = p => Knows(proc[lock])'
    BY <1>0, <2>1 DEF Control, Knows
  <2> QED
    BY <2>2 DEF Control
<1> QED
  BY <1>0, <1>1, <1>2, <1>4, <1>5, <1>6, <1>7, <1>8 DEF GattIInv

-----------------------------------------------------------------------------
(* Where the processes of this module stand.                               *)

LEMMA InvTyped ==
  ASSUME GattIInv
  PROVE  /\ ProcsTyped /\ GlobalTypes
         /\ \A p \in Procs : /\ proc[p] \in AnyProc /\ proc[p].stack \in Seq(AnyLabels)
                             /\ proc[p].tries \in Nat /\ proc[p].res \in Results
                             /\ proc[p].h \in 0..MaxHandles /\ ProcShape(proc[p])
BY ProcFields DEF GattIInv, GlobalTypes, ProcsTyped

LEMMA BasesTyped ==
  /\ ConnectBases \cup CloseBases \subseteq AnyLabels
  /\ ConnectBases \cup CloseBases \subseteq TopPcs \ {"probe"}
  /\ GateReturns \cup CloseReturns \cup {"detach", "cleaned"} \subseteq AnyLabels
BY LabelsTyped DEF ConnectBases, CloseBases, GateReturns, CloseReturns, TopPcs, OwnPcs,
   CommandLabels, OwnConnects, OwnCloses, AnyLabels

LEMMA BodyFrame ==
  ASSUME GattIInv, NEW p \in Procs, proc[p].pc \in ConnectBody \cup {"connect", "giveUp"}
  PROVE  \E b \in ConnectBases : InConnect(proc[p], b) /\ proc[p].stack = Only(b)
<1>1. PICK b \in ConnectBases : InConnect(proc[p], b)
  BY InvTyped DEF ProcShape, Frames, ConnectBody, TopPcs, InClose, ClosePcs, OwnPcs,
      CommandLabels, OwnKinds, OwnConnects, OwnCloses
<1> QED
  BY <1>1, WhereBody, WhereEnds

LEMMA GateFrame ==
  ASSUME GattIInv, NEW p \in Procs, proc[p].pc \in {"gate", "gateWait"}
  PROVE  \E x \in GateReturns, s \in Seq(AnyLabels) : proc[p].stack = Push(x, s)
<1>1. PICK b \in ConnectBases : InConnect(proc[p], b)
  BY InvTyped DEF ProcShape, Frames, TopPcs, InClose, ClosePcs, OwnPcs, CommandLabels, OwnKinds,
      OwnConnects, OwnCloses
<1> QED
  BY <1>1, WhereGate, OneFrame, BasesTyped

LEMMA CloseFrame ==
  ASSUME GattIInv, NEW p \in Procs, proc[p].pc \in ClosePcs
  PROVE  \E x \in CloseReturns \cup CloseBases, s \in Seq(AnyLabels) : proc[p].stack = Push(x, s)
<1>1. \/ \E b \in ConnectBases : InConnect(proc[p], b)
      \/ \E b \in CloseBases : InClose(proc[p], b)
  BY InvTyped DEF ProcShape, Frames, TopPcs, ClosePcs, OwnPcs, CommandLabels, OwnKinds,
      OwnConnects, OwnCloses
<1>2. CASE \E b \in ConnectBases : InConnect(proc[p], b)
  BY <1>2, WhereClosing, OneFrame, BasesTyped
<1>3. CASE \E b \in CloseBases : InClose(proc[p], b)
  BY <1>3, WhereClose, OneFrame, BasesTyped DEF Only
<1> QED
  BY <1>1, <1>2, <1>3

LEMMA CleaningFrame ==
  ASSUME GattIInv, NEW p \in Procs, proc[p].pc = "cleaning"
  PROVE  \E x \in GateReturns \cup {"detach", "cleaned"}, s \in Seq(AnyLabels) :
            proc[p].stack = Push(x, s)
<1>1. \/ proc[p].stack = Only("cleaned")
      \/ \E b \in ConnectBases : InConnect(proc[p], b)
      \/ \E b \in CloseBases : InClose(proc[p], b)
  BY InvTyped DEF ProcShape, Frames, TopPcs, OwnPcs, CommandLabels, OwnKinds, OwnConnects, OwnCloses
<1>2. CASE proc[p].stack = Only("cleaned")
  BY <1>2, OneFrame DEF Only
<1>3. CASE \E b \in ConnectBases : InConnect(proc[p], b)
  <2>1. PICK b \in ConnectBases : InConnect(proc[p], b)
    BY <1>3
  <2>2. b \in AnyLabels /\ Only(b) \in Seq(AnyLabels)
    BY BasesTyped, OneFrame
  <2>3. CASE \E x \in GateReturns : proc[p].stack = Push(x, Only(b))
    BY <2>2, <2>3
  <2>4. CASE \E x \in CloseReturns : proc[p].stack = Push("detach", Push(x, Only(b)))
    BY <2>2, <2>4, BasesTyped, Pushed
  <2> QED
    BY <2>1, <2>3, <2>4, WhereCleaning
<1>4. CASE \E b \in CloseBases : InClose(proc[p], b)
  BY <1>4, WhereClose, OneFrame, BasesTyped
<1> QED
  BY <1>1, <1>2, <1>3, <1>4

\* The same for the labels of this module and for those of the commands too.
LEMMA FramesStay ==
  ASSUME ProcsTyped, NEW p \in Procs, ConnectStep(p) \/ DisconnectStep(p),
         NEW T \in SUBSET TopPcs, NEW C \in SUBSET AnyLabels, NEW D \in SUBSET AnyLabels,
         C \subseteq T, D \subseteq T, "cleaned" \in T, Frames(proc[p], T, C, D)
  PROVE  Moves(p) /\ SameCall(p) /\ Frames(proc'[p], T, C, D)
<1>1. proc[p].pc \notin TopPcs
  BY DEF ConnectStep, Gate, GateWake, GateCancelled, Connect, GatePassed, StaleClosed,
     Rebuild, OpenOrReuse, Opened, Discover, AttemptFailed, GiveUp, RetryClosed, RetryWake, Reopen,
     DisconnectStep, CleanupSucceeds, CleanupFails, Disconnect, Detach, DisconnectSucceeds,
     DisconnectFails, Locked, Unlocked, At, TopPcs, OwnPcs, CommandLabels
<1>2. CASE \E b \in C : InConnect(proc[p], b)
  <2>1. PICK b \in C : InConnect(proc[p], b)
    BY <1>2
  <2>2. Onward(p, b)
    BY <2>1, ConnectStays
  <2> QED
    BY <2>1, <2>2 DEF Onward, Frames, Back
<1>3. CASE \E b \in D : InClose(proc[p], b)
  <2>1. PICK b \in D : InClose(proc[p], b)
    BY <1>3
  <2>2. Outward(p, b)
    BY <2>1, CloseStays
  <2> QED
    BY <2>1, <2>2 DEF Outward, Frames, Back
<1>4. CASE proc[p].pc = "cleaning" /\ proc[p].stack = Only("cleaned")
                                   /\ proc[p].tries <= DiscoveryAttempts
  <2>1. CleanupSucceeds(p) \/ CleanupFails(p)
    BY <1>4 DEF ConnectStep, Gate, GateWake, GateCancelled, Connect, GatePassed, StaleClosed,
     Rebuild, OpenOrReuse, Opened, Discover, AttemptFailed, GiveUp, RetryClosed, RetryWake, Reopen,
     DisconnectStep, Disconnect, Detach, DisconnectSucceeds, DisconnectFails,
     Locked, Unlocked, At
  <2>2. "cleaned" \in AnyLabels /\ NoFrames \in Seq(AnyLabels)
        /\ proc[p].stack = Push("cleaned", NoFrames)
    BY <1>4, LabelsTyped, OneFrame DEF Only
  <2>3. Moves(p) /\ SameCall(p) /\ SameTries(p) /\ Reaches(p, "cleaned", NoFrames)
    BY <2>1, <2>2, ClosedIs, NotClosedIs
  <2> QED
    BY <1>4, <2>3 DEF SameTries, Reaches, Frames
<1> QED
  BY <1>1, <1>2, <1>3, <1>4 DEF Frames

LEMMA StepShape ==
  ASSUME GattIInv, NEW p \in Procs, ConnectStep(p) \/ DisconnectStep(p)
  PROVE  Moves(p) /\ SameCall(p) /\ ProcShape(proc'[p])
<1>1. ProcsTyped /\ ProcShape(proc[p])
  BY InvTyped
<1>2. /\ TopPcs \in SUBSET TopPcs /\ ConnectBases \in SUBSET AnyLabels
      /\ CloseBases \in SUBSET AnyLabels
      /\ OwnPcs \in SUBSET TopPcs /\ OwnConnects \in SUBSET AnyLabels /\ OwnCloses \in SUBSET AnyLabels
      /\ OwnConnects \subseteq OwnPcs /\ OwnCloses \subseteq OwnPcs /\ "cleaned" \in OwnPcs
      /\ ConnectBases \subseteq TopPcs /\ CloseBases \subseteq TopPcs
  BY BasesTyped DEF TopPcs, ConnectBases, CloseBases, OwnPcs, OwnConnects, OwnCloses, CommandLabels
<1>3. Moves(p) /\ SameCall(p) /\ Frames(proc'[p], TopPcs, ConnectBases, CloseBases)
  BY <1>1, <1>2, FramesStay DEF ProcShape
<1>4. proc[p].kind \in OwnKinds => Frames(proc'[p], OwnPcs, OwnConnects, OwnCloses)
  BY <1>1, <1>2, FramesStay DEF ProcShape
<1>5. proc'[p].pc # "probe"
  <2>1. \/ \E b \in ConnectBases : Onward(p, b)
        \/ \E b \in CloseBases : Outward(p, b)
        \/ proc[p].pc = "cleaning" /\ proc[p].stack = Only("cleaned")
    <3>1. proc[p].pc \notin TopPcs
      BY DEF ConnectStep, Gate, GateWake, GateCancelled, Connect, GatePassed, StaleClosed,
         Rebuild, OpenOrReuse, Opened, Discover, AttemptFailed, GiveUp, RetryClosed, RetryWake,
         Reopen, DisconnectStep, CleanupSucceeds, CleanupFails, Disconnect, Detach,
         DisconnectSucceeds, DisconnectFails, Locked, Unlocked, At, TopPcs, OwnPcs, CommandLabels
    <3> QED
      BY <1>1, <1>2, <3>1, ConnectStays, CloseStays DEF ProcShape, Frames
  <2>2. "probe" \notin ConnectBases \cup CloseBases
    BY DEF ConnectBases, CloseBases, OwnConnects, OwnCloses
  <2>3. ASSUME NEW b \in ConnectBases, Onward(p, b)
        PROVE  proc'[p].pc # "probe"
    BY <2>2, <2>3 DEF Onward, Back, InConnect, ConnectBody, GatePcs, ClosePcs
  <2>4. ASSUME NEW b \in CloseBases, Outward(p, b)
        PROVE  proc'[p].pc # "probe"
    BY <2>2, <2>4 DEF Outward, Back, InClose, ClosePcs
  <2>5. ASSUME proc[p].pc = "cleaning", proc[p].stack = Only("cleaned")
        PROVE  proc'[p].pc # "probe"
    <3>1. CleanupSucceeds(p) \/ CleanupFails(p)
      BY <2>5 DEF ConnectStep, Gate, GateWake, GateCancelled, Connect, GatePassed, StaleClosed,
       Rebuild, OpenOrReuse, Opened, Discover, AttemptFailed, GiveUp, RetryClosed, RetryWake, Reopen,
       DisconnectStep, Disconnect, Detach, DisconnectSucceeds, DisconnectFails,
       Locked, Unlocked, At
    <3>2. "cleaned" \in AnyLabels /\ NoFrames \in Seq(AnyLabels)
          /\ proc[p].stack = Push("cleaned", NoFrames)
      BY <2>5, LabelsTyped, OneFrame DEF Only
    <3> QED
      BY <1>1, <3>1, <3>2, ClosedIs, NotClosedIs DEF Reaches
  <2> QED
    BY <2>1, <2>3, <2>4, <2>5
<1> QED
  BY <1>3, <1>4, <1>5 DEF ProcShape, SameCall

LEMMA KnowsLittle ==
  ASSUME NEW r, r.pc \notin {"open", "reopen", "detach", "releaseDone", "attemptFailed",
                             "disconnect", "giveUp", "gated", "staleClosed", "retryClosed",
                             "ensured", "fetched", "discover"}
  PROVE  Knows(r)
BY DEF Knows

\* No procedure returns to the discovery.
LEMMA DiscoverCalled ==
  "discover" \notin ConnectBases \cup CloseBases \cup GateReturns \cup CloseReturns
                    \cup {"detach", "cleaned"}
BY DEF ConnectBases, CloseBases, GateReturns, CloseReturns, OwnConnects, OwnCloses

\* With the lock taken and no disconnect in flight the session is in no hand.
LEMMA NobodyBusy ==
  ASSUME GattIInv, NEW p \in Procs, lock = p, proc[p].pc \notin HandPcs, inFlight = NoOne
  PROVE  Free
<1>1. SUFFICES ASSUME NEW q \in Procs, InHandAt(q)
               PROVE  FALSE
  BY DEF Free
<1>2. q # p /\ q # NoOne
  BY <1>1, NotNoOne DEF InHandAt
<1>3. CASE proc[q].pc = "opened"
  BY <1>2, <1>3, HandLabels DEF GattIInv, Locks
<1>4. CASE proc[q].pc \in {"cleaning", "disconnecting"}
  BY <1>2, <1>4 DEF GattIInv, Locks
<1> QED
  BY <1>1, <1>3, <1>4, HandLabels DEF InHandAt

LEMMA HeldLabels ==
  /\ {"gate", "gated", "rebuild", "staleClosed", "open", "discover", "attemptFailed",
      "giveUp", "retryClosed", "reopen", "connect", "disconnect", "detach", "probe",
      "ensured", "fetched", "interrupted", "refreshClosed", "releaseDone", "probed",
      "cleaned"} \subseteq LockedPcs \ HandPcs
  /\ {"idle", "enter", "done", "sweeping", "gateWait", "retryWait", "enterCommand"}
       \cap (LockedPcs \cup HandPcs) = {}
  /\ ConnectBases \cup CloseBases \cup GateReturns \cup CloseReturns \subseteq LockedPcs \ HandPcs
BY DEF LockedPcs, UnlockedPcs, Labels, HandPcs, ConnectBases, CloseBases, GateReturns,
    CloseReturns, OwnConnects, OwnCloses, AnyLabels, CommandLabels

LEMMA HeldControl ==
  ASSUME GattIInv, NEW p \in Procs, lock = p, proc[p].pc \in LockedPcs \ HandPcs,
         ProcOnly, Moves(p), SameCall(p), ProcShape(proc'[p]),
         proc'[p].pc \in LockedPcs \ HandPcs, Knows(proc'[p])
  PROVE  Control(p)
<1>1. /\ chars \in BOOLEAN /\ connected \in BOOLEAN /\ tracked \in BOOLEAN
      /\ ctxDone \subseteq Calls
  BY DEF GattIInv, GlobalTypes
<1>2. proc[p].pc # "idle"
  BY HandLabels
<1> QED
  BY <1>1, <1>2 DEF Control, ProcOnly, sessionVars

LEMMA KnowsHere ==
  ASSUME GattIInv, NEW p \in Procs, lock = p
  PROVE  Knows(proc[p])
BY NotNoOne DEF GattIInv

\* A step that only hands on what is known of the session.
LEMMA ConnectControl ==
  ASSUME GattIInv, NEW p \in Procs, Connect(p)
  PROVE  Control(p)
<1>1. lock = p /\ proc[p].pc = "connect" /\ ProcOnly
  BY DEF Connect, Locked, At
<1>2. PICK b \in ConnectBases : proc[p].stack = Only(b)
  BY <1>1, BodyFrame
<1>3. Moves(p) /\ SameCall(p) /\ ProcShape(proc'[p])
  BY StepShape DEF ConnectStep
<1>4. \/ Reaches(p, b, NoFrames) /\ proc'[p].res = "notStarted"
      \/ Reaches(p, "gate", Push("gated", Only(b)))
  BY <1>2, InvTyped, BasesTyped, ConnectIs
<1>5. Knows(proc'[p])
  BY <1>4, KnowsLittle DEF Knows, Reaches, ConnectBases, OwnConnects
<1> QED
  BY <1>1, <1>3, <1>4, <1>5, HeldLabels, HeldControl DEF Reaches

LEMMA GatePassedControl ==
  ASSUME GattIInv, NEW p \in Procs, GatePassed(p)
  PROVE  Control(p)
<1>1. lock = p /\ proc[p].pc = "gated" /\ ProcOnly
  BY DEF GatePassed, Locked, At
<1>2. PICK b \in ConnectBases : proc[p].stack = Only(b)
  BY <1>1, BodyFrame DEF ConnectBody
<1>3. Moves(p) /\ SameCall(p) /\ ProcShape(proc'[p])
  BY StepShape DEF ConnectStep
<1>4. \/ Reaches(p, b, NoFrames) /\ proc'[p].res = proc[p].res /\ SameUses(p)
      \/ Reaches(p, b, NoFrames) /\ proc'[p].res = "ok"
      \/ Reaches(p, "rebuild", Only(b))
      \/ Reaches(p, "disconnect", Push("staleClosed", Only(b))) /\ proc'[p].uses = device
  BY <1>2, InvTyped, BasesTyped, GatePassedIs
<1>5. Knows(proc'[p])
  BY <1>1, <1>3, <1>4, KnowsHere, KnowsLittle DEF Knows, Reaches, ConnectBases, SameCall,
      SameUses, OwnConnects
<1> QED
  BY <1>1, <1>3, <1>4, <1>5, HeldLabels, HeldControl DEF Reaches

LEMMA StaleClosedControl ==
  ASSUME GattIInv, NEW p \in Procs, StaleClosed(p)
  PROVE  Control(p)
<1>1. lock = p /\ proc[p].pc = "staleClosed" /\ ProcOnly
  BY DEF StaleClosed, Locked, At
<1>2. PICK b \in ConnectBases : proc[p].stack = Only(b)
  BY <1>1, BodyFrame DEF ConnectBody
<1>3. Moves(p) /\ SameCall(p) /\ SameUses(p) /\ ProcShape(proc'[p])
  BY <1>2, InvTyped, BasesTyped, StaleClosedIs, StepShape DEF ConnectStep
<1>4. \/ proc[p].res = "fail" /\ Reaches(p, b, NoFrames) /\ proc'[p].res = "fail"
      \/ Reaches(p, "rebuild", Only(b))
  BY <1>2, InvTyped, BasesTyped, StaleClosedIs
<1>5. Knows(proc'[p])
  BY <1>1, <1>3, <1>4, KnowsHere, KnowsLittle DEF Knows, Reaches, ConnectBases, SameCall,
      SameUses, OwnConnects
<1> QED
  BY <1>1, <1>3, <1>4, <1>5, HeldLabels, HeldControl DEF Reaches

LEMMA RebuildControl ==
  ASSUME GattIInv, NEW p \in Procs, Rebuild(p)
  PROVE  Control(p)
<1>1. lock = p /\ proc[p].pc = "rebuild" /\ ProcOnly
  BY DEF Rebuild, Locked, At
<1>2. PICK b \in ConnectBases : proc[p].stack = Only(b)
  BY <1>1, BodyFrame DEF ConnectBody
<1>3. Moves(p) /\ SameCall(p) /\ ProcShape(proc'[p])
  BY StepShape DEF ConnectStep
<1>4. proc'[p].pc = "gate" \/ (device # None /\ proc'[p].pc = "discover")
  BY <1>2, InvTyped, BasesTyped, RebuildIs DEF Reaches
<1>5. Knows(proc'[p])
  BY <1>4 DEF Knows
<1> QED
  BY <1>1, <1>3, <1>4, <1>5, HeldLabels, HeldControl

LEMMA OpenOrReuseControl ==
  ASSUME GattIInv, NEW p \in Procs, OpenOrReuse(p), ~OpenSession(p, "opened")
  PROVE  Control(p)
<1>1. lock = p /\ proc[p].pc = "open"
  BY DEF OpenOrReuse, Locked, At
<1>2. PICK b \in ConnectBases : proc[p].stack = Only(b)
  BY <1>1, BodyFrame DEF ConnectBody
<1>3. Moves(p) /\ SameCall(p) /\ SameUses(p) /\ ProcShape(proc'[p])
  BY <1>2, InvTyped, BasesTyped, OpenOrReuseIs, StepShape DEF ConnectStep
<1>4. /\ ProcOnly
      /\ \/ Reaches(p, b, NoFrames) /\ proc'[p].res = proc[p].res
         \/ device # None /\ Reaches(p, "discover", Only(b))
         \/ device = None /\ Reaches(p, b, NoFrames)
  BY <1>2, InvTyped, BasesTyped, OpenOrReuseIs
<1>5. Knows(proc'[p])
  BY <1>1, <1>3, <1>4, KnowsHere, KnowsLittle DEF Knows, Reaches, ConnectBases, SameCall,
      SameUses, OwnConnects
<1> QED
  BY <1>1, <1>3, <1>4, <1>5, HeldLabels, HeldControl DEF Reaches

LEMMA ReopenControl ==
  ASSUME GattIInv, NEW p \in Procs, Reopen(p), ~OpenSession(p, "opened")
  PROVE  Control(p)
<1>1. lock = p /\ proc[p].pc = "reopen"
  BY DEF Reopen, Locked, At
<1>2. PICK b \in ConnectBases : proc[p].stack = Only(b)
  BY <1>1, BodyFrame DEF ConnectBody
<1>3. Moves(p) /\ SameCall(p) /\ SameUses(p) /\ ProcShape(proc'[p])
  BY <1>2, InvTyped, BasesTyped, ReopenIs, StepShape DEF ConnectStep
<1>4. /\ ProcOnly
      /\ \/ Reaches(p, b, NoFrames) /\ proc'[p].res = proc[p].res
         \/ device # None /\ Reaches(p, "discover", Only(b))
         \/ device = None /\ Reaches(p, "attemptFailed", Only(b))
         \/ device = None /\ Reaches(p, b, NoFrames)
  BY <1>2, InvTyped, BasesTyped, ReopenIs
<1>5. Knows(proc'[p])
  BY <1>1, <1>3, <1>4, KnowsHere, KnowsLittle DEF Knows, Reaches, ConnectBases, SameCall,
      SameUses, OwnConnects
<1> QED
  BY <1>1, <1>3, <1>4, <1>5, HeldLabels, HeldControl DEF Reaches

LEMMA DiscoverControl ==
  ASSUME GattIInv, NEW p \in Procs, Discover(p)
  PROVE  Control(p)
<1>1. lock = p /\ proc[p].pc = "discover"
  BY DEF Discover, Locked, At
<1>2. PICK b \in ConnectBases : proc[p].stack = Only(b)
  BY <1>1, BodyFrame DEF ConnectBody
<1>3. Moves(p) /\ SameCall(p) /\ ProcShape(proc'[p])
  BY StepShape DEF ConnectStep
<1>4. /\ UNCHANGED <<lock, device, pending, inFlight, connected, tracked,
                     transportVars, eventVars, ctxDone>>
      /\ \/ Reaches(p, b, NoFrames) /\ proc'[p].res = "ok" /\ chars' \in {chars, TRUE}
         \/ /\ Reaches(p, b, NoFrames) /\ proc'[p].res = "cancelled"
            /\ proc'[p].uses = device /\ UNCHANGED chars
         \/ /\ Reaches(p, "attemptFailed", Only(b))
            /\ proc'[p].uses = device /\ UNCHANGED chars
  <2>1. ProcsTyped /\ b \in AnyLabels
    BY InvTyped, BasesTyped
  <2> QED
    BY <1>2, <2>1, DiscoverIs
<1>5. Knows(proc'[p])
  BY <1>4 DEF Knows, Reaches, ConnectBases, OwnConnects
<1>6. {chars', connected', tracked'} \subseteq BOOLEAN /\ ctxDone' \subseteq Calls
  BY <1>4 DEF GattIInv, GlobalTypes
<1>7. proc[p].pc \notin HandPcs /\ proc[p].pc # "idle"
  BY <1>1, HeldLabels
<1>8. proc'[p].pc \in LockedPcs \ HandPcs
  BY <1>4, HeldLabels DEF Reaches
<1> QED
  BY <1>1, <1>3, <1>4, <1>5, <1>6, <1>7, <1>8 DEF Control

LEMMA AttemptFailedControl ==
  ASSUME GattIInv, NEW p \in Procs, AttemptFailed(p)
  PROVE  Control(p)
<1>1. lock = p /\ proc[p].pc = "attemptFailed" /\ ProcOnly
  BY DEF AttemptFailed, Locked, At
<1>2. PICK b \in ConnectBases : proc[p].stack = Only(b)
  BY <1>1, BodyFrame DEF ConnectBody
<1>3. Moves(p) /\ SameCall(p) /\ SameUses(p) /\ ProcShape(proc'[p])
  BY <1>2, InvTyped, BasesTyped, AttemptFailedIs, StepShape DEF ConnectStep
<1>4. \/ Reaches(p, b, NoFrames)
      \/ \E x \in CloseReturns : Reaches(p, "disconnect", Push(x, Only(b)))
  BY <1>2, InvTyped, BasesTyped, AttemptFailedIs
<1>5. Knows(proc'[p])
  BY <1>1, <1>3, <1>4, KnowsHere DEF Knows, Reaches, ConnectBases, SameCall, SameUses, OwnConnects
<1> QED
  BY <1>1, <1>3, <1>4, <1>5, HeldLabels, HeldControl DEF Reaches

LEMMA GiveUpControl ==
  ASSUME GattIInv, NEW p \in Procs, GiveUp(p)
  PROVE  Control(p)
<1>1. lock = p /\ proc[p].pc = "giveUp" /\ ProcOnly
  BY DEF GiveUp, Locked, At
<1>2. PICK b \in ConnectBases : proc[p].stack = Only(b)
  BY <1>1, BodyFrame
<1>3. /\ Moves(p) /\ SameCall(p) /\ SameUses(p) /\ ProcShape(proc'[p])
      /\ Reaches(p, b, NoFrames)
  BY <1>2, InvTyped, BasesTyped, GiveUpIs, StepShape DEF ConnectStep
<1>5. Knows(proc'[p])
  BY <1>1, <1>3, KnowsHere DEF Knows, Reaches, ConnectBases, SameCall, SameUses, OwnConnects
<1> QED
  BY <1>1, <1>3, <1>5, HeldLabels, HeldControl DEF Reaches

\* The waits give the lock back, and take it again.
LEMMA FreeControl ==
  ASSUME GattIInv, NEW p \in Procs, lock \in {p, NoOne}, proc[p].pc \notin HandPcs,
         proc[p].pc # "idle" \/ p \in Calls,
         UNCHANGED <<sessionVars, transportVars, eventVars, ctxDone>>,
         Moves(p), SameCall(p), ProcShape(proc'[p]),
         \/ lock' = NoOne /\ proc'[p].pc \notin LockedPcs \cup HandPcs
         \/ lock' = p /\ proc'[p].pc \in LockedPcs \ HandPcs /\ Knows(proc'[p])
  PROVE  Control(p)
<1>1. /\ chars \in BOOLEAN /\ connected \in BOOLEAN /\ tracked \in BOOLEAN
      /\ ctxDone \subseteq Calls
  BY DEF GattIInv, GlobalTypes
<1>2. p # NoOne
  BY NotNoOne
<1> QED
  BY <1>1, <1>2 DEF Control, sessionVars

LEMMA RetryClosedControl ==
  ASSUME GattIInv, NEW p \in Procs, RetryClosed(p)
  PROVE  Control(p)
<1>1. /\ lock = p /\ proc[p].pc = "retryClosed"
      /\ UNCHANGED <<sessionVars, transportVars, eventVars, ctxDone>>
  BY DEF RetryClosed, Locked, At
<1>2. PICK b \in ConnectBases : proc[p].stack = Only(b)
  BY <1>1, BodyFrame DEF ConnectBody
<1>3. Moves(p) /\ SameCall(p) /\ SameUses(p) /\ ProcShape(proc'[p])
  BY <1>2, InvTyped, BasesTyped, RetryClosedIs, StepShape DEF ConnectStep
<1>4. \/ /\ proc[p].res = "fail" /\ Reaches(p, b, NoFrames) /\ proc'[p].res = "fail"
         /\ UNCHANGED lock
      \/ Reaches(p, "retryWait", Only(b)) /\ lock' = NoOne
  BY <1>2, InvTyped, BasesTyped, RetryClosedIs
<1>5. proc[p].pc \notin HandPcs /\ proc[p].pc # "idle"
  BY <1>1, HeldLabels
<1>6. CASE proc[p].res = "fail" /\ Reaches(p, b, NoFrames) /\ proc'[p].res = "fail" /\ UNCHANGED lock
  <2>1. Knows(proc'[p])
    BY <1>1, <1>3, <1>6, KnowsHere DEF Knows, Reaches, ConnectBases, SameCall, SameUses, OwnConnects
  <2> QED
    BY <1>1, <1>3, <1>5, <1>6, <2>1, HeldLabels, FreeControl DEF Reaches
<1>7. CASE Reaches(p, "retryWait", Only(b)) /\ lock' = NoOne
  BY <1>1, <1>3, <1>5, <1>7, HeldLabels, FreeControl DEF Reaches
<1> QED
  BY <1>4, <1>6, <1>7

LEMMA RetryWakeControl ==
  ASSUME GattIInv, NEW p \in Procs, RetryWake(p)
  PROVE  Control(p)
<1>1. /\ lock = NoOne /\ lock' = p /\ proc[p].pc = "retryWait"
      /\ UNCHANGED <<sessionVars, transportVars, eventVars, ctxDone>>
  BY DEF RetryWake, Unlocked, At
<1>2. PICK b \in ConnectBases : proc[p].stack = Only(b)
  BY <1>1, BodyFrame DEF ConnectBody
<1>3. Moves(p) /\ SameCall(p) /\ ProcShape(proc'[p])
  BY StepShape DEF ConnectStep
<1>4. \/ Reaches(p, "gate", Push("reopen", Only(b)))
      \/ Reaches(p, b, NoFrames) /\ proc'[p].res = "notStarted"
  BY <1>2, InvTyped, BasesTyped, RetryWakeIs
<1>5. proc[p].pc \notin HandPcs /\ proc[p].pc # "idle"
  BY <1>1, HeldLabels
<1>6. Knows(proc'[p])
  BY <1>4, KnowsLittle DEF Knows, Reaches, ConnectBases, OwnConnects
<1> QED
  BY <1>1, <1>3, <1>4, <1>5, <1>6, HeldLabels, FreeControl DEF Reaches

LEMMA GateWakeControl ==
  ASSUME GattIInv, NEW p \in Procs, GateWake(p)
  PROVE  Control(p)
<1>1. /\ lock = NoOne /\ lock' = p /\ proc[p].pc = "gateWait"
      /\ UNCHANGED <<sessionVars, transportVars, eventVars, ctxDone>>
  BY DEF GateWake, Unlocked, At
<1>2. Moves(p) /\ SameCall(p) /\ ProcShape(proc'[p]) /\ proc'[p].pc = "gate"
  BY InvTyped, GateWakeIs, StepShape DEF ConnectStep, Reaches
<1>3. proc[p].pc \notin HandPcs /\ proc[p].pc # "idle"
  BY <1>1, HeldLabels
<1> QED
  BY <1>1, <1>2, <1>3, KnowsLittle, HeldLabels, FreeControl

LEMMA GateCancelledControl ==
  ASSUME GattIInv, NEW p \in Procs, GateCancelled(p)
  PROVE  Control(p)
<1>1. /\ lock = NoOne /\ lock' = p /\ proc[p].pc = "gateWait"
      /\ UNCHANGED <<sessionVars, transportVars, eventVars, ctxDone>>
  BY DEF GateCancelled, Unlocked, At
<1>2. PICK x \in GateReturns, s \in Seq(AnyLabels) : proc[p].stack = Push(x, s)
  BY <1>1, GateFrame
<1>3. /\ Moves(p) /\ SameCall(p) /\ ProcShape(proc'[p])
      /\ Reaches(p, x, s) /\ proc'[p].res = "notStarted"
  BY <1>2, InvTyped, BasesTyped, GateCancelledIs, StepShape DEF ConnectStep
<1>4. proc[p].pc \notin HandPcs /\ proc[p].pc # "idle"
  BY <1>1, HeldLabels
<1>5. Knows(proc'[p])
  BY <1>3 DEF Knows, Reaches, GateReturns
<1> QED
  BY <1>1, <1>3, <1>4, <1>5, HeldLabels, FreeControl DEF Reaches

\* A gate with nothing to clean up: behind it no session is open but the station's.
LEMMA GateControl ==
  ASSUME GattIInv, NEW p \in Procs, Gate(p), inFlight # NoOne \/ pending = None
  PROVE  Control(p)
<1>1. /\ lock = p /\ proc[p].pc = "gate"
      /\ UNCHANGED <<device, chars, connected, tracked, transportVars, eventVars, ctxDone>>
  BY DEF Gate, Locked, At
<1>2. PICK x \in GateReturns, s \in Seq(AnyLabels) : proc[p].stack = Push(x, s)
  BY <1>1, GateFrame
<1>3. Moves(p) /\ SameCall(p) /\ ProcShape(proc'[p])
  BY StepShape DEF ConnectStep
<1>4. proc[p].pc \notin HandPcs /\ proc[p].pc # "idle"
  BY <1>1, HeldLabels
<1>5. \/ /\ inFlight = NoOne /\ pending = None /\ Reaches(p, x, s) /\ proc'[p].res = "ok"
         /\ UNCHANGED <<lock, pending, inFlight>>
      \/ /\ Reaches(p, "gateWait", Push(x, s)) /\ lock' = NoOne /\ UNCHANGED <<pending, inFlight>>
  BY <1>2, InvTyped, BasesTyped, GateIs
<1>6. UNCHANGED sessionVars
  BY <1>1, <1>5 DEF sessionVars
<1>7. CASE /\ inFlight = NoOne /\ pending = None /\ Reaches(p, x, s) /\ proc'[p].res = "ok"
           /\ UNCHANGED lock
  <2>1. Free
    BY <1>1, <1>4, <1>7, NobodyBusy
  <2>2. device = None => Open = {}
    BY <1>7, <2>1 DEF GattIInv, Place
  <2>3. Knows(proc'[p])
    BY <1>7, <2>2 DEF Knows, Reaches, GateReturns
  <2> QED
    BY <1>1, <1>3, <1>4, <1>6, <1>7, <2>3, HeldLabels, FreeControl DEF Reaches
<1>8. CASE Reaches(p, "gateWait", Push(x, s)) /\ lock' = NoOne
  BY <1>1, <1>3, <1>4, <1>6, <1>8, HeldLabels, FreeControl DEF Reaches
<1> QED
  BY <1>5, <1>7, <1>8

LEMMA DisconnectControl ==
  ASSUME GattIInv, NEW p \in Procs, Disconnect(p), pending = None
  PROVE  Control(p)
<1>1. /\ lock = p /\ proc[p].pc = "disconnect"
      /\ UNCHANGED <<device, chars, connected, tracked, transportVars, eventVars, ctxDone>>
  BY DEF Disconnect, Locked, At
<1>2. /\ Moves(p) /\ SameCall(p) /\ SameUses(p) /\ ProcShape(proc'[p])
      /\ proc'[p].pc = "detach" /\ UNCHANGED <<lock, pending, inFlight>>
  BY InvTyped, DisconnectIs, StepShape DEF DisconnectStep, Reaches
<1>3. Knows(proc'[p])
  BY <1>1, <1>2, KnowsHere DEF Knows, SameCall, SameUses
<1>4. ProcOnly
  BY <1>1, <1>2 DEF ProcOnly, sessionVars
<1> QED
  BY <1>1, <1>2, <1>3, <1>4, HeldLabels, HeldControl

\* Nothing to detach, or the older cleanup has failed.
LEMMA DetachControl ==
  ASSUME GattIInv, NEW p \in Procs, Detach(p), proc[p].res = "fail" \/ device = None
  PROVE  Control(p)
<1>1. lock = p /\ proc[p].pc = "detach" /\ UNCHANGED <<transportVars, eventVars, ctxDone>>
  BY DEF Detach, Locked, At
<1>2. PICK x \in CloseReturns \cup CloseBases, s \in Seq(AnyLabels) : proc[p].stack = Push(x, s)
  BY <1>1, CloseFrame DEF ClosePcs
<1>3. Moves(p) /\ SameCall(p) /\ SameUses(p) /\ ProcShape(proc'[p])
  BY <1>2, InvTyped, BasesTyped, DetachIs, StepShape DEF DisconnectStep
<1>4. \/ /\ proc[p].res = "fail" /\ Reaches(p, x, s) /\ proc'[p].res = "fail"
         /\ UNCHANGED <<lock, sessionVars>>
      \/ /\ proc[p].res # "fail" /\ device = None
         /\ Reaches(p, x, s) /\ proc'[p].res = "ok"
         /\ chars' = FALSE /\ device' = None /\ Untrack(None, pending)
         /\ UNCHANGED <<pending, tracked, lock, inFlight>>
  BY <1>2, InvTyped, BasesTyped, DetachIs
<1>5. proc[p].pc \notin HandPcs /\ proc[p].pc # "idle"
  BY <1>1, HeldLabels
<1>6. /\ chars \in BOOLEAN /\ connected \in BOOLEAN /\ tracked \in BOOLEAN
      /\ ctxDone' \subseteq Calls
  BY <1>1 DEF GattIInv, GlobalTypes
<1>7. CASE /\ proc[p].res = "fail" /\ Reaches(p, x, s) /\ proc'[p].res = "fail"
           /\ UNCHANGED <<lock, sessionVars>>
  <2>1. Knows(proc'[p])
    BY <1>1, <1>3, <1>7, KnowsHere DEF Knows, Reaches, CloseReturns, CloseBases, SameCall,
        SameUses, OwnCloses
  <2>2. ProcOnly
    BY <1>1, <1>7 DEF ProcOnly
  <2> QED
    BY <1>1, <1>3, <1>5, <1>7, <2>1, <2>2, HeldLabels, HeldControl DEF Reaches
<1>8. CASE /\ proc[p].res # "fail" /\ device = None
           /\ Reaches(p, x, s) /\ proc'[p].res = "ok"
           /\ chars' = FALSE /\ device' = None /\ Untrack(None, pending)
           /\ UNCHANGED <<pending, tracked, lock, inFlight>>
  <2>1. pending = None
    BY <1>1, <1>8, KnowsHere DEF Knows
  <2>2. Knows(proc'[p])
    BY <1>1, <1>3, <1>8, <2>1 DEF Knows, Reaches, CloseReturns, CloseBases, OwnCloses
  <2>3. connected' = FALSE
    BY <1>8, <2>1 DEF Untrack
  <2>4. proc'[p].pc \in LockedPcs \ HandPcs
    BY <1>8, HeldLabels DEF Reaches
  <2> QED
    BY <1>1, <1>3, <1>5, <1>6, <1>8, <2>1, <2>2, <2>3, <2>4 DEF Control
<1> QED
  BY <1>4, <1>7, <1>8

-----------------------------------------------------------------------------
(* The calls of the package.                                               *)

LEMMA TopFrame ==
  ASSUME GattIInv, NEW p \in Procs, proc[p].pc \in TopPcs
  PROVE  /\ proc[p].stack = NoFrames /\ proc[p].tries <= DiscoveryAttempts
         /\ proc[p].kind \in AnyKinds
         /\ proc[p].pc = "probe" => proc[p].kind = "probe"
<1>1. proc[p] \in AnyProc /\ ProcShape(proc[p]) /\ proc[p].kind \in AnyKinds
  BY InvTyped, ProcFields DEF ProcsTyped
<1> QED
  BY <1>1
  DEF ProcShape, Frames, InConnect, InClose, TopPcs, ConnectBody, GatePcs, ClosePcs, OwnPcs,
      CommandLabels

LEMMA FinishControl ==
  ASSUME GattIInv, NEW p \in Procs, NEW res \in Results, Finish(p, res),
         lock \in {p, NoOne}, proc[p].pc \notin HandPcs, proc[p].pc # "idle",
         UNCHANGED <<device, chars, pending, inFlight, connected>>,
         UNCHANGED <<transportVars, eventVars, ctxDone>>,
         tracked' \in BOOLEAN, pending # None => tracked' = tracked
  PROVE  Control(p)
<1>1. /\ Moves(p) /\ proc'[p].pc = "done" /\ proc'[p].stack = NoFrames
      /\ proc'[p].kind = proc[p].kind /\ proc'[p].tries = 0 /\ lock' = NoOne
  BY InvTyped, FinishIs DEF ProcsTyped
<1>2. ProcShape(proc'[p])
  <2>1. 0 <= DiscoveryAttempts
    BY BoundsAssumption
  <2>2. proc[p].kind \in AnyKinds
    BY InvTyped, ProcFields DEF ProcsTyped
  <2> QED
    BY <1>1, <2>1, <2>2 DEF ProcShape, Frames, TopPcs, OwnPcs, CommandLabels, OwnKinds,
        OwnConnects, OwnCloses
<1>3. chars \in BOOLEAN /\ connected \in BOOLEAN /\ ctxDone \subseteq Calls
  BY DEF GattIInv, GlobalTypes
<1>4. "done" \notin LockedPcs /\ "done" \notin HandPcs /\ p # NoOne
  BY HeldLabels, NotNoOne
<1> QED
  BY <1>1, <1>2, <1>3, <1>4 DEF Control, SameCall

\* A call that closes the session as its next step.
LEMMA CloseControl ==
  ASSUME GattIInv, NEW p \in Procs, NEW b \in CloseBases,
         lock = p, proc[p].pc \in TopPcs, proc[p].pc \in LockedPcs \ HandPcs, ProcOnly,
         Moves(p), SameCall(p), SameTries(p), Reaches(p, "disconnect", Push(b, NoFrames)),
         proc[p].kind \in Cancellable => device \in {None, proc'[p].uses},
         proc[p].kind \in OwnKinds => b \in OwnCloses
  PROVE  Control(p)
<1>1. ProcShape(proc'[p])
  BY TopFrame DEF ProcShape, Frames, SameCall, SameTries, Reaches, InClose, ClosePcs, Only
<1>2. Knows(proc'[p])
  BY DEF Knows, Reaches, SameCall
<1> QED
  BY <1>1, <1>2, HeldLabels, HeldControl DEF Reaches

LEMMA CallsClose ==
  ASSUME GattIInv, NEW p \in Procs, NEW b \in CloseBases, Call(p, "disconnect", b),
         proc[p].pc \in TopPcs
  PROVE  /\ Moves(p) /\ SameCall(p) /\ SameTries(p) /\ SameUses(p)
         /\ Reaches(p, "disconnect", Push(b, NoFrames))
<1>1. proc \in [Procs -> AnyProc] /\ "disconnect" \in AnyLabels /\ b \in AnyLabels
  BY BasesTyped, LabelsTyped DEF GattIInv
<1>2. proc[p].stack = NoFrames
  BY TopFrame
<1> QED
  BY <1>1, <1>2, CallIs DEF Reaches, SameCall, SameTries, SameUses

LEMMA CloseIfInterruptedControl ==
  ASSUME GattIInv, NEW p \in Procs, CloseIfInterrupted(p), lock = p,
         proc[p].pc \in {"ensured", "fetched"},
         UNCHANGED <<sessionVars, transportVars, eventVars, ctxDone>>
  PROVE  Control(p)
<1>1. proc[p].pc \in TopPcs /\ proc[p].pc \in LockedPcs \ HandPcs /\ proc[p].pc # "idle"
  BY HeldLabels DEF TopPcs, OwnPcs, CommandLabels
<1>2. CASE /\ proc[p].res \in {"fail", "cancelled"}
           /\ Call(p, "disconnect", "interrupted") /\ UNCHANGED lock
  <2>1. "interrupted" \in CloseBases /\ "interrupted" \in OwnCloses
    BY DEF CloseBases, OwnCloses
  <2>2. proc[p].kind \in Cancellable => device \in {None, proc[p].uses}
    BY <1>2, KnowsHere DEF Knows
  <2>3. ProcOnly
    BY <1>2 DEF ProcOnly
  <2> QED
    BY <1>1, <1>2, <2>1, <2>2, <2>3, CallsClose, CloseControl DEF SameUses
<1>3. CASE Finish(p, proc[p].res)
  <2>1. proc[p].res \in Results /\ tracked \in BOOLEAN
    BY InvTyped DEF GlobalTypes
  <2> QED
    BY <1>1, <1>3, <2>1, FinishControl DEF sessionVars
<1> QED
  BY <1>2, <1>3 DEF CloseIfInterrupted

\* A call or a goroutine that has nothing left to do.
LEMMA LastControl ==
  ASSUME GattIInv, NEW p \in Procs, NEW res \in Results, Finish(p, res),
         lock \in {p, NoOne}, proc[p].pc \in TopPcs, proc[p].pc # "idle",
         UNCHANGED <<sessionVars, transportVars, eventVars, ctxDone>>
  PROVE  Control(p)
<1>1. proc[p].pc \notin HandPcs
  BY DEF TopPcs, HandPcs, OwnPcs, CommandLabels
<1>2. tracked \in BOOLEAN
  BY DEF GattIInv, GlobalTypes
<1> QED
  BY <1>1, <1>2, FinishControl DEF sessionVars

LEMMA EnterControl ==
  ASSUME GattIInv, NEW p \in Procs, Enter(p)
  PROVE  Control(p)
<1>1. /\ lock = NoOne /\ proc[p].pc = "enter" /\ proc[p].kind \in SessionKinds
      /\ UNCHANGED <<sessionVars, transportVars, eventVars, ctxDone>>
  BY DEF Enter, Unlocked, At
<1>2. proc[p].pc \in TopPcs /\ proc[p].pc # "idle" /\ proc[p].pc \notin HandPcs
  BY <1>1 DEF TopPcs, HandPcs, OwnPcs, CommandLabels
<1>3. CASE Finish(p, "notStarted")
  BY <1>1, <1>2, <1>3, LastControl, LabelsTyped
<1>4. CASE /\ proc' = [proc EXCEPT ![p].pc = FirstLabel(proc[p].kind),
                                   ![p].stack = AfterFirst(proc[p].kind)]
           /\ lock' = p
  <2>1. PICK l \in AnyLabels, s \in Seq(AnyLabels) :
           /\ l = FirstLabel(proc[p].kind) /\ s = AfterFirst(proc[p].kind)
           /\ \/ l = "connect" /\ s = Only("ensured")
              \/ l = "connect" /\ s = Only("fetched")
              \/ l = "disconnect" /\ proc[p].kind = "refresh" /\ s = Only("refreshClosed")
              \/ l = "disconnect" /\ proc[p].kind \in {"release", "sweep"} /\ s = Only("releaseDone")
              \/ l = "probe" /\ proc[p].kind = "probe" /\ s = NoFrames
    <3>1. CASE proc[p].kind = "ensure"
      BY <3>1, LabelsTyped, OneFrame DEF FirstLabel, AfterFirst
    <3>2. CASE proc[p].kind = "fetch"
      BY <3>2, LabelsTyped, OneFrame DEF FirstLabel, AfterFirst
    <3>3. CASE proc[p].kind = "refresh"
      BY <3>3, LabelsTyped, OneFrame DEF FirstLabel, AfterFirst
    <3>4. CASE proc[p].kind \in {"release", "sweep"}
      BY <3>4, LabelsTyped, OneFrame DEF FirstLabel, AfterFirst
    <3>5. CASE proc[p].kind = "probe"
      BY <3>5, LabelsTyped, OneFrame DEF FirstLabel, AfterFirst, NoFrames
    <3> QED
      BY <1>1, <3>1, <3>2, <3>3, <3>4, <3>5 DEF SessionKinds
  <2>2. proc' = [proc EXCEPT ![p].pc = l, ![p].stack = s]
    BY <1>4, <2>1
  <2>3. proc \in [Procs -> AnyProc]
    BY DEF GattIInv
  <2>4. /\ Moves(p) /\ SameCall(p) /\ SameTries(p) /\ Reaches(p, l, s)
    BY <2>2, <2>3, ProcFields DEF Moves, SameCall, SameTries, Reaches, AnyProc
  <2>5. proc[p].tries <= DiscoveryAttempts
    BY <1>2, TopFrame
  <2>6. ProcShape(proc'[p])
    <3>1. CASE l = "connect"
      BY <1>1, <2>1, <2>4, <2>5, <3>1
      DEF ProcShape, Frames, SameCall, SameTries, Reaches, InConnect, ConnectBases, OwnConnects,
          OwnPcs, OwnKinds, OwnCloses
    <3>2. CASE l = "disconnect"
      BY <1>1, <2>1, <2>4, <2>5, <3>2
      DEF ProcShape, Frames, SameCall, SameTries, Reaches, InClose, ClosePcs, CloseBases,
          OwnCloses, OwnPcs, OwnKinds, OwnConnects
    <3>3. CASE l = "probe"
      BY <1>1, <2>1, <2>4, <2>5, <3>3 DEF ProcShape, Frames, SameCall, SameTries, Reaches,
          TopPcs, OwnPcs, CommandLabels, OwnKinds, OwnConnects, OwnCloses
    <3> QED
      BY <2>1, <3>1, <3>2, <3>3
  <2>7. Knows(proc'[p])
    BY <2>1, <2>4 DEF Knows, Reaches, SameCall, Cancellable
  <2>8. proc'[p].pc \in LockedPcs \ HandPcs
    BY <2>1, <2>4, HeldLabels DEF Reaches
  <2> QED
    BY <1>1, <1>2, <1>4, <2>4, <2>6, <2>7, <2>8, FreeControl
<1> QED
  BY <1>3, <1>4 DEF Enter

LEMMA EnsuredControl ==
  ASSUME GattIInv, NEW p \in Procs, Ensured(p)
  PROVE  Control(p)
BY CloseIfInterruptedControl DEF Ensured, Locked, At

LEMMA InterruptedControl ==
  ASSUME GattIInv, NEW p \in Procs, Interrupted(p)
  PROVE  Control(p)
<1>1. proc[p].pc \in TopPcs /\ proc[p].pc # "idle" /\ lock = p
  BY DEF Interrupted, Locked, At, TopPcs, OwnPcs, CommandLabels
<1>2. PICK res \in Results : Finish(p, res)
  BY LabelsTyped DEF Interrupted
<1> QED
  BY <1>1, <1>2, LastControl DEF Interrupted

LEMMA RefreshClosedControl ==
  ASSUME GattIInv, NEW p \in Procs, RefreshClosed(p)
  PROVE  Control(p)
<1>1. /\ proc[p].pc \in TopPcs /\ proc[p].pc # "idle" /\ lock = p
      /\ proc[p].pc \in LockedPcs \ HandPcs
      /\ UNCHANGED <<sessionVars, transportVars, eventVars, ctxDone>>
  BY HeldLabels DEF RefreshClosed, Locked, At, TopPcs, OwnPcs, CommandLabels
<1>2. CASE Finish(p, "fail")
  BY <1>1, <1>2, LastControl, LabelsTyped
<1>3. CASE Call(p, "connect", "ensured") /\ UNCHANGED lock
  <2>1. proc \in [Procs -> AnyProc]
    BY DEF GattIInv
  <2>2. Moves(p) /\ SameCall(p) /\ SameTries(p) /\ Reaches(p, "connect", Only("ensured"))
    BY <1>1, <1>3, <2>1, TopFrame, CallIs, LabelsTyped DEF SameCall, SameTries, Reaches, Only
  <2>3. ProcShape(proc'[p])
    BY <1>1, <2>2, TopFrame DEF ProcShape, Frames, SameCall, SameTries, Reaches, InConnect,
        ConnectBases, OwnConnects, OwnPcs, OwnKinds, OwnCloses
  <2>4. ProcOnly
    BY <1>1, <1>3 DEF ProcOnly
  <2> QED
    BY <1>1, <2>2, <2>3, <2>4, KnowsLittle, HeldLabels, HeldControl DEF Reaches
<1> QED
  BY <1>2, <1>3 DEF RefreshClosed

LEMMA FetchedControl ==
  ASSUME GattIInv, NEW p \in Procs, Fetched(p)
  PROVE  Control(p)
<1>1. /\ proc[p].pc \in TopPcs /\ proc[p].pc # "idle" /\ lock = p
      /\ proc[p].pc \in LockedPcs \ HandPcs /\ proc[p].pc = "fetched"
      /\ UNCHANGED <<sessionVars, transportVars, eventVars, ctxDone>>
  BY HeldLabels DEF Fetched, Locked, At, TopPcs, OwnPcs, CommandLabels
<1>2. CASE CloseIfInterrupted(p)
  BY <1>1, <1>2, CloseIfInterruptedControl
<1>3. CASE Finish(p, "ok") \/ Finish(p, "fail")
  BY <1>1, <1>3, LastControl, LabelsTyped
<1>4. ASSUME NEW genuine \in BOOLEAN, UNCHANGED lock,
             proc' = [proc EXCEPT ![p].pc = "disconnect", ![p].uses = device,
                                  ![p].faulted = @ \/ genuine,
                                  ![p].stack = <<"interrupted">> \o @]
      PROVE  Control(p)
  <2>1. PICK f \in BOOLEAN : f = (proc[p].faulted \/ genuine)
    OBVIOUS
  <2>2. proc' = [proc EXCEPT ![p].pc = "disconnect", ![p].uses = device,
                             ![p].faulted = f, ![p].stack = Push("interrupted", NoFrames)]
    <3>1. proc[p].stack = NoFrames
      BY <1>1, TopFrame
    <3> QED
      BY <1>4, <2>1, <3>1 DEF Push
  <2>3. /\ proc \in [Procs -> AnyProc] /\ device \in 0..MaxHandles
        /\ "disconnect" \in AnyLabels /\ Push("interrupted", NoFrames) \in Seq(AnyLabels)
    BY Pushed, OneFrame, LabelsTyped DEF GattIInv, GlobalTypes
  <2>4. /\ Moves(p) /\ SameCall(p) /\ SameTries(p) /\ proc'[p].uses = device
        /\ Reaches(p, "disconnect", Push("interrupted", NoFrames))
    <3>1. f \in BOOLEAN
      BY <2>1
    <3>2. PICK a \in [Procs -> AnyProc] :
             a = [proc EXCEPT ![p].pc = "disconnect", ![p].uses = device]
      BY <2>3 DEF AnyProc
    <3>3. proc' = [a EXCEPT ![p].faulted = f, ![p].stack = Push("interrupted", NoFrames)]
      BY <2>2, <3>2, Zenon
    <3>4. proc' \in [Procs -> AnyProc]
      BY <2>3, <3>1, <3>3, ZenonT(40) DEF AnyProc
    <3>5. \A q \in Procs \ {p} : proc'[q] = proc[q]
      BY <2>2, <2>3
    <3>6. /\ SameCall(p) /\ SameTries(p) /\ proc'[p].uses = device
          /\ Reaches(p, "disconnect", Push("interrupted", NoFrames))
      BY <2>2, <2>3, ProcFields DEF SameCall, SameTries, Reaches, AnyProc
    <3> QED
      BY <3>4, <3>5, <3>6 DEF Moves
  <2>5. ProcOnly /\ "interrupted" \in CloseBases /\ "interrupted" \in OwnCloses
    BY <1>1, <1>4 DEF ProcOnly, CloseBases, OwnCloses
  <2> QED
    BY <1>1, <2>4, <2>5, CloseControl
<1> QED
  BY <1>2, <1>3, <1>4 DEF Fetched

LEMMA ReleaseDoneControl ==
  ASSUME GattIInv, NEW p \in Procs, ReleaseDone(p)
  PROVE  Control(p)
<1>1. /\ proc[p].pc = "releaseDone" /\ lock = p /\ proc[p].res \in Results
      /\ tracked' = (tracked /\ proc[p].res = "fail") /\ Finish(p, proc[p].res)
      /\ UNCHANGED <<device, chars, pending, inFlight, connected>>
      /\ UNCHANGED <<transportVars, eventVars, ctxDone>>
  BY InvTyped DEF ReleaseDone, Locked, At
<1>2. proc[p].pc \notin HandPcs /\ proc[p].pc # "idle"
  BY <1>1, HeldLabels
<1>3. tracked \in BOOLEAN
  BY DEF GattIInv, GlobalTypes
<1>4. pending # None => proc[p].res = "fail"
  BY <1>1, KnowsHere DEF Knows
<1> QED
  BY <1>1, <1>2, <1>3, <1>4, FinishControl

LEMMA ProbeControl ==
  ASSUME GattIInv, NEW p \in Procs, Probe(p)
  PROVE  Control(p)
<1>1. /\ proc[p].pc \in TopPcs /\ proc[p].pc # "idle" /\ lock = p
      /\ proc[p].pc \in LockedPcs \ HandPcs /\ proc[p].pc = "probe"
      /\ UNCHANGED <<sessionVars, transportVars, eventVars, ctxDone>>
  BY HeldLabels DEF Probe, Locked, At, TopPcs, OwnPcs, CommandLabels
<1>2. CASE Finish(p, "ok")
  BY <1>1, <1>2, LastControl, LabelsTyped
<1>3. CASE Call(p, "disconnect", "probed") /\ UNCHANGED lock
  <2>1. proc[p].kind \notin Cancellable
    BY <1>1, TopFrame DEF Cancellable
  <2>2. ProcOnly /\ "probed" \in CloseBases /\ "probed" \in OwnCloses
    BY <1>1, <1>3 DEF ProcOnly, CloseBases, OwnCloses
  <2> QED
    BY <1>1, <1>3, <2>1, <2>2, CallsClose, CloseControl
<1> QED
  BY <1>2, <1>3 DEF Probe

LEMMA ProbedControl ==
  ASSUME GattIInv, NEW p \in Procs, Probed(p) \/ EagerCleaned(p)
  PROVE  Control(p)
<1>1. /\ proc[p].pc \in TopPcs /\ proc[p].pc # "idle" /\ lock = p
      /\ UNCHANGED <<sessionVars, transportVars, eventVars, ctxDone>> /\ Finish(p, "ok")
  BY DEF Probed, EagerCleaned, Locked, At, TopPcs, OwnPcs, CommandLabels
<1> QED
  BY <1>1, LastControl, LabelsTyped

LEMMA CallControl ==
  ASSUME GattIInv, NEW p \in Procs, CallStep(p)
  PROVE  Control(p)
BY EnterControl, EnsuredControl, InterruptedControl, RefreshClosedControl, FetchedControl,
   ReleaseDoneControl, ProbeControl, ProbedControl DEF CallStep

-----------------------------------------------------------------------------
(* Steps that move the session.                                            *)

LEMMA ShapesKeep ==
  ASSUME GattIInv, NEW p \in Procs, Moves(p), ProcShape(proc'[p])
  PROVE  /\ proc' \in [Procs -> AnyProc] /\ (\A q \in Procs : ProcShape(proc[q]))'
         /\ \A q \in Procs : q # p => proc'[q] = proc[q]
<1>1. proc' \in [Procs -> AnyProc] /\ \A q \in Procs : q # p => proc'[q] = proc[q]
  BY DEF Moves
<1>2. \A q \in Procs : ProcShape(proc'[q])
  BY <1>1 DEF GattIInv
<1>3. (\A q \in Procs : ProcShape(proc[q]))'
  BY <1>2 DEF ProcShape, Frames, InConnect, InClose
<1> QED
  BY <1>1, <1>3

LEMMA HoldersKeep ==
  ASSUME GattIInv, NEW p \in Procs, Moves(p), lock \in {p, NoOne}, lock' \in {p, NoOne},
         proc'[p].pc \in LockedPcs <=> lock' = p
  PROVE  (\A q \in Procs : proc[q].pc \in LockedPcs <=> lock = q)'
<1>1. ASSUME NEW q \in Procs, q # p
      PROVE  proc'[q].pc \in LockedPcs <=> lock' = q
  <2>1. lock # q /\ lock' # q
    BY <1>1, NotNoOne
  <2> QED
    BY <1>1, <2>1 DEF Moves, GattIInv, Locks
<1> QED
  BY <1>1

LEMMA StartedKeep ==
  ASSUME GattIInv, NEW p \in Procs, Moves(p), proc[p].pc # "idle" \/ p \in Calls,
         device' \in {device, None}, opened' = opened, proc'[p].pc # "opened"
  PROVE  Started'
<1>1. \A n \in Handles : proc'[n].pc # "idle" => proc[n].pc # "idle"
  <2>1. p \in Handles => proc[p].pc # "idle"
    BY CallsAssumption DEF Handles
  <2> QED
    BY <2>1 DEF Moves, Procs
<1>2. \A q \in Procs : proc'[q].pc = "opened" => proc[q].pc = "opened" /\ proc'[q].h = proc[q].h
  BY DEF Moves
<1>3. \A n \in Handles : None # n
  BY BoundsAssumption DEF Handles, None
<1> QED
  BY <1>1, <1>2, <1>3 DEF GattIInv, Started

\* A Disconnect of the handle to clean up begins.
LEMMA CleanupBegins ==
  ASSUME GattIInv, NEW p \in Procs, pending # None, Moves(p), ProcShape(proc'[p]),
         proc[p].pc \notin HandPcs, proc[p].pc # "idle", lock \in {p, NoOne},
         proc'[p].pc = "cleaning", proc'[p].h = pending,
         pending' = None, inFlight' = p, lock' = NoOne,
         UNCHANGED <<device, chars, connected, tracked, transportVars, eventVars, ctxDone>>
  PROVE  GattIInv'
<1>1. /\ proc' \in [Procs -> AnyProc] /\ (\A q \in Procs : ProcShape(proc[q]))'
      /\ \A q \in Procs : q # p => proc'[q] = proc[q]
  BY ShapesKeep
<1>2. GlobalTypes'
  BY LabelsTyped DEF GattIInv, GlobalTypes, transportVars, eventVars
<1>3. /\ Open = {pending} /\ device = None /\ Free
  BY DEF GattIInv, Place
<1>4. Locks'
  <2>1. proc'[p].pc \in LockedPcs <=> lock' = p
    BY HandLabels, NotNoOne
  <2>2. (\A q \in Procs : proc[q].pc \in LockedPcs <=> lock = q)'
    BY <2>1, HoldersKeep
  <2>3. (\A q \in Procs : proc[q].pc \in {"cleaning", "disconnecting"} => inFlight = q)'
    BY <1>1, <1>3, HandLabels DEF Free, InHandAt
  <2> QED
    BY <2>2, <2>3 DEF Locks
<1>5. Place'
  <2>1. Open' = Open /\ device' = None /\ pending' = None
    BY <1>3 DEF Open, transportVars
  <2>2. InHandAt(p)' /\ (proc[p].h)' = pending
    BY HandLabels DEF InHandAt
  <2>3. \A q \in Procs \ {p} : ~(InHandAt(q)')
    BY <1>1, <1>3 DEF Free, InHandAt
  <2> QED
    BY <1>3, <2>1, <2>2, <2>3 DEF Place, Free
<1>6. Tracked'
  BY <1>3 DEF Tracked
<1>7. Started'
  BY StartedKeep DEF transportVars
<1>8. (lock # NoOne => Knows(proc[lock]))'
  OBVIOUS
<1> QED
  BY <1>1, <1>2, <1>4, <1>5, <1>6, <1>7, <1>8 DEF GattIInv

\* The session leaves the station and its Disconnect begins.
LEMMA DetachBegins ==
  ASSUME GattIInv, NEW p \in Procs, Detach(p), proc[p].res # "fail", device # None
  PROVE  GattIInv'
<1>0. lock = p /\ proc[p].pc = "detach" /\ UNCHANGED <<transportVars, eventVars, ctxDone>>
  BY DEF Detach, Locked, At
<1>a. PICK x \in CloseReturns \cup CloseBases, s \in Seq(AnyLabels) : proc[p].stack = Push(x, s)
  BY <1>0, CloseFrame DEF ClosePcs
<1>b. /\ Reaches(p, "disconnecting", Push(x, s)) /\ proc'[p].h = device
      /\ chars' = FALSE /\ device' = None /\ inFlight' = p /\ lock' = NoOne
      /\ UNCHANGED <<pending, tracked, connected>>
  BY <1>a, InvTyped, BasesTyped, DetachIs
<1>c. Moves(p) /\ SameCall(p) /\ ProcShape(proc'[p])
  BY StepShape DEF DisconnectStep
<1>1. /\ proc' \in [Procs -> AnyProc] /\ (\A q \in Procs : ProcShape(proc[q]))'
      /\ \A q \in Procs : q # p => proc'[q] = proc[q]
  BY <1>c, ShapesKeep
<1>2. GlobalTypes'
  BY <1>0, <1>b, LabelsTyped DEF GattIInv, GlobalTypes, transportVars, eventVars
<1>3. /\ Open = {device} /\ pending = None /\ Free
  BY DEF GattIInv, Place
<1>4. Locks'
  <2>1. proc'[p].pc \in LockedPcs <=> lock' = p
    BY <1>b, HandLabels, NotNoOne DEF Reaches
  <2>2. (\A q \in Procs : proc[q].pc \in LockedPcs <=> lock = q)'
    BY <1>0, <1>b, <1>c, <2>1, HoldersKeep
  <2>3. (\A q \in Procs : proc[q].pc \in {"cleaning", "disconnecting"} => inFlight = q)'
    BY <1>1, <1>3, <1>b, HandLabels DEF Free, InHandAt
  <2> QED
    BY <2>2, <2>3 DEF Locks
<1>5. Place'
  <2>1. Open' = Open /\ device' = None /\ pending' = None
    BY <1>0, <1>3, <1>b DEF Open, transportVars
  <2>2. InHandAt(p)' /\ (proc[p].h)' = device
    BY <1>b, HandLabels DEF InHandAt, Reaches
  <2>3. \A q \in Procs \ {p} : ~(InHandAt(q)')
    BY <1>1, <1>3 DEF Free, InHandAt
  <2> QED
    BY <1>3, <2>1, <2>2, <2>3 DEF Place, Free
<1>6. Tracked'
  BY <1>3, <1>b DEF Tracked
<1>7. Started'
  BY <1>0, <1>b, <1>c, StartedKeep DEF transportVars, Reaches
<1>8. (lock # NoOne => Knows(proc[lock]))'
  BY <1>b
<1> QED
  BY <1>1, <1>2, <1>4, <1>5, <1>6, <1>7, <1>8 DEF GattIInv

\* What a process that closes a session is about to learn.
LEMMA ReleasesIt ==
  ASSUME GattIInv, NEW p \in Procs, InHandAt(p)
  PROVE  /\ proc[p].h # None /\ Open = {proc[p].h} /\ device = None /\ pending = None
         /\ \A q \in Procs \ {p} : ~InHandAt(q)
BY DEF GattIInv, Place

\* A Disconnect has released the session: nothing is open any more.
LEMMA Releases ==
  ASSUME GattIInv, NEW p \in Procs, CleanupSucceeds(p) \/ DisconnectSucceeds(p)
  PROVE  GattIInv'
<1>0. /\ lock = NoOne /\ lock' = p /\ proc[p].pc \in {"cleaning", "disconnecting"}
      /\ EndInFlight(p) /\ Release(proc[p].h)
      /\ UNCHANGED <<device, chars, pending, opened, eventVars, ctxDone>>
      /\ connected' \in BOOLEAN /\ tracked' \in BOOLEAN
  <2>1. tracked \in BOOLEAN /\ connected \in BOOLEAN
    BY DEF GattIInv, GlobalTypes
  <2> QED
    BY <2>1 DEF CleanupSucceeds, DisconnectSucceeds, Unlocked, At, Untrack
<1>a. PICK x \in GateReturns \cup {"detach", "cleaned"} \cup CloseReturns \cup CloseBases,
           s \in Seq(AnyLabels) : proc[p].stack = Push(x, s)
  BY <1>0, CleaningFrame, CloseFrame DEF ClosePcs
<1>b. /\ Reaches(p, x, s) /\ proc'[p].res = "ok"
  BY <1>a, InvTyped, BasesTyped, ClosedIs
<1>c. Moves(p) /\ SameCall(p) /\ ProcShape(proc'[p])
  BY StepShape DEF DisconnectStep
<1>d. x \in LockedPcs \ HandPcs
  BY HeldLabels
<1>1. /\ proc' \in [Procs -> AnyProc] /\ (\A q \in Procs : ProcShape(proc[q]))'
      /\ \A q \in Procs : q # p => proc'[q] = proc[q]
  BY <1>c, ShapesKeep
<1>3. /\ Open = {proc[p].h} /\ device = None /\ pending = None
      /\ \A q \in Procs \ {p} : ~InHandAt(q)
  BY <1>0, HandLabels, ReleasesIt DEF InHandAt
<1>e. inFlight' = NoOne
  BY <1>0 DEF EndInFlight, GattIInv, Locks
<1>f. proc[p].h \in Handles
  <2>1. proc[p].h \in 1..opened /\ opened \in 0..MaxHandles
    BY <1>3 DEF Open, GattIInv, GlobalTypes
  <2> QED
    BY <2>1, BoundsAssumption DEF Handles
<1>2. GlobalTypes'
  <2>1. released' \subseteq Handles /\ down' \subseteq Handles
    BY <1>0, <1>f DEF Release, GattIInv, GlobalTypes
  <2>2. released' \subseteq 1..opened'
    BY <1>0, <1>3 DEF Release, GattIInv, GlobalTypes, Open
  <2> QED
    BY <1>0, <1>e, <2>1, <2>2 DEF GattIInv, GlobalTypes, eventVars
<1>4. Locks'
  <2>1. proc'[p].pc \in LockedPcs <=> lock' = p
    BY <1>0, <1>b, <1>d DEF Reaches
  <2>2. (\A q \in Procs : proc[q].pc \in LockedPcs <=> lock = q)'
    BY <1>0, <1>c, <2>1, HoldersKeep
  <2>3. (\A q \in Procs : proc[q].pc \in {"cleaning", "disconnecting"} => inFlight = q)'
    BY <1>1, <1>3, <1>b, <1>d, HandLabels DEF InHandAt, Reaches
  <2> QED
    BY <2>2, <2>3 DEF Locks
<1>g. Open' = {}
  BY <1>0, <1>3 DEF Open, Release
<1>5. Place'
  <2>1. device' = None /\ pending' = None
    BY <1>0, <1>3
  <2>2. \A q \in Procs : ~(InHandAt(q)')
    BY <1>1, <1>3, <1>b, <1>d DEF InHandAt, Reaches
  <2> QED
    BY <1>g, <2>1, <2>2 DEF Place, Free
<1>6. Tracked'
  BY <1>0, <1>3 DEF Tracked
<1>7. Started'
  BY <1>0, <1>b, <1>c, <1>d, HandLabels, StartedKeep DEF Reaches
<1>8. (lock # NoOne => Knows(proc[lock]))'
  BY <1>0, <1>3, <1>g, <1>b, DiscoverCalled DEF Knows, Reaches
<1> QED
  BY <1>1, <1>2, <1>4, <1>5, <1>6, <1>7, <1>8 DEF GattIInv

\* A Disconnect that has failed leaves the handle for a later cleanup.
LEMMA KeepsHandle ==
  ASSUME GattIInv, NEW p \in Procs, CleanupFails(p) \/ DisconnectFails(p)
  PROVE  GattIInv'
<1>0. /\ lock = NoOne /\ lock' = p /\ proc[p].pc \in {"cleaning", "disconnecting"}
      /\ EndInFlight(p) /\ KeepForCleanup(p)
      /\ UNCHANGED <<device, chars, transportVars, eventVars, ctxDone>>
      /\ connected' \in BOOLEAN
  <2>1. connected \in BOOLEAN
    BY DEF GattIInv, GlobalTypes
  <2> QED
    BY <2>1 DEF CleanupFails, DisconnectFails, Unlocked, At, Untrack, transportVars
<1>a. PICK x \in GateReturns \cup {"detach", "cleaned"} \cup CloseReturns \cup CloseBases,
           s \in Seq(AnyLabels) : proc[p].stack = Push(x, s)
  BY <1>0, CleaningFrame, CloseFrame DEF ClosePcs
<1>b. /\ Reaches(p, x, s) /\ proc'[p].res = "fail"
  BY <1>a, InvTyped, BasesTyped, NotClosedIs
<1>c. Moves(p) /\ SameCall(p) /\ ProcShape(proc'[p])
  BY StepShape DEF DisconnectStep
<1>d. x \in LockedPcs \ HandPcs
  BY HeldLabels
<1>1. /\ proc' \in [Procs -> AnyProc] /\ (\A q \in Procs : ProcShape(proc[q]))'
      /\ \A q \in Procs : q # p => proc'[q] = proc[q]
  BY <1>c, ShapesKeep
<1>3. /\ proc[p].h # None /\ Open = {proc[p].h} /\ device = None /\ pending = None
      /\ \A q \in Procs \ {p} : ~InHandAt(q)
  BY <1>0, HandLabels, ReleasesIt DEF InHandAt
<1>e. inFlight' = NoOne
  BY <1>0 DEF EndInFlight, GattIInv, Locks
<1>f. pending' = proc[p].h /\ tracked' = TRUE /\ proc[p].h \in 0..MaxHandles
  BY <1>0, <1>3, InvTyped DEF KeepForCleanup
<1>2. GlobalTypes'
  BY <1>0, <1>e, <1>f DEF GattIInv, GlobalTypes, eventVars, transportVars
<1>4. Locks'
  <2>1. proc'[p].pc \in LockedPcs <=> lock' = p
    BY <1>0, <1>b, <1>d DEF Reaches
  <2>2. (\A q \in Procs : proc[q].pc \in LockedPcs <=> lock = q)'
    BY <1>0, <1>c, <2>1, HoldersKeep
  <2>3. (\A q \in Procs : proc[q].pc \in {"cleaning", "disconnecting"} => inFlight = q)'
    BY <1>1, <1>3, <1>b, <1>d, HandLabels DEF InHandAt, Reaches
  <2> QED
    BY <2>2, <2>3 DEF Locks
<1>5. Place'
  <2>1. device' = None /\ Open' = Open
    BY <1>0, <1>3 DEF Open, transportVars
  <2>2. \A q \in Procs : ~(InHandAt(q)')
    BY <1>1, <1>3, <1>b, <1>d DEF InHandAt, Reaches
  <2> QED
    BY <1>3, <1>f, <2>1, <2>2 DEF Place, Free
<1>6. Tracked'
  BY <1>0, <1>3, <1>f DEF Tracked
<1>7. Started'
  BY <1>0, <1>b, <1>c, <1>d, HandLabels, StartedKeep DEF Reaches, transportVars
<1>8. (lock # NoOne => Knows(proc[lock]))'
  BY <1>0, <1>3, <1>b, DiscoverCalled DEF Knows, Reaches
<1> QED
  BY <1>1, <1>2, <1>4, <1>5, <1>6, <1>7, <1>8 DEF GattIInv

\* The transport opens a session: there was none.
LEMMA Opens ==
  ASSUME GattIInv, NEW p \in Procs, OpenSession(p, "opened"),
         OpenOrReuse(p) \/ Reopen(p), device = None, proc[p].res = "ok"
  PROVE  GattIInv'
<1>0. /\ lock = p /\ proc[p].pc \in {"open", "reopen"} /\ lock' = lock
      /\ UNCHANGED <<sessionVars, released, down, eventVars, ctxDone>>
  BY DEF OpenSession, OpenOrReuse, Reopen, Locked, At
<1>b. /\ Reaches(p, "opened", proc[p].stack) /\ proc'[p].h = opened + 1
      /\ opened + 1 \in Handles /\ opened' = opened + 1
  BY InvTyped, OpenSessionIs
<1>c. Moves(p) /\ SameCall(p) /\ ProcShape(proc'[p])
  BY StepShape DEF ConnectStep
<1>1. /\ proc' \in [Procs -> AnyProc] /\ (\A q \in Procs : ProcShape(proc[q]))'
      /\ \A q \in Procs : q # p => proc'[q] = proc[q]
  BY <1>c, ShapesKeep
<1>3. Open = {} /\ pending = None /\ Free
  <2>1. Open = {}
    BY <1>0, KnowsHere DEF Knows
  <2> QED
    BY <2>1 DEF GattIInv, Place, Free
<1>d. opened \in Nat /\ released \subseteq 1..opened /\ opened + 1 \in 0..MaxHandles
      /\ opened + 1 # None
  BY <1>b, BoundsAssumption DEF GattIInv, GlobalTypes, Handles, None
<1>2. GlobalTypes'
  <2>1. released' \subseteq 1..opened' /\ opened' \in 0..MaxHandles
    BY <1>0, <1>b, <1>d
  <2> QED
    BY <1>0, <2>1 DEF GattIInv, GlobalTypes, sessionVars, eventVars
<1>4. Locks'
  <2>1. proc'[p].pc \in LockedPcs <=> lock' = p
    BY <1>0, <1>b, HandLabels DEF Reaches
  <2>2. (\A q \in Procs : proc[q].pc \in LockedPcs <=> lock = q)'
    BY <1>0, <1>c, <2>1, HoldersKeep
  <2>3. (\A q \in Procs : proc[q].pc \in {"cleaning", "disconnecting"} => inFlight = q)'
    BY <1>1, <1>3, <1>b, HandLabels DEF Free, InHandAt, Reaches
  <2> QED
    BY <2>2, <2>3 DEF Locks
<1>5. Place'
  <2>1. Open' = {opened + 1} /\ device' = None /\ pending' = None
    BY <1>0, <1>3, <1>b, <1>d DEF Open, sessionVars
  <2>2. InHandAt(p)' /\ (proc[p].h)' = opened + 1
    BY <1>b, HandLabels DEF InHandAt, Reaches
  <2>3. \A q \in Procs \ {p} : ~(InHandAt(q)')
    BY <1>1, <1>3 DEF Free, InHandAt
  <2> QED
    BY <1>d, <2>1, <2>2, <2>3 DEF Place, Free
<1>6. Tracked'
  BY <1>0, <1>3 DEF Tracked, sessionVars
<1>7. Started'
  <2>1. device' = device
    BY <1>0 DEF sessionVars
  <2>2. ASSUME NEW n \in Handles, proc'[n].pc # "idle"
        PROVE  n <= opened' /\ device' # n /\ \A q \in Procs : proc'[q].pc = "opened" => proc'[q].h # n
    <3>1. proc[n].pc # "idle"
      BY <1>0, <1>1, <2>2 DEF Procs
    <3>2. n <= opened /\ device # n /\ \A q \in Procs : proc[q].pc = "opened" => proc[q].h # n
      BY <3>1 DEF GattIInv, Started
    <3>3. n # opened + 1 /\ n <= opened'
      BY <1>b, <1>d, <3>2 DEF Handles
    <3> QED
      BY <1>1, <1>b, <2>1, <3>2, <3>3
  <2> QED
    BY <2>2 DEF Started
<1>8. (lock # NoOne => Knows(proc[lock]))'
  BY <1>0, <1>b, KnowsLittle DEF Knows, Reaches
<1> QED
  BY <1>1, <1>2, <1>4, <1>5, <1>6, <1>7, <1>8 DEF GattIInv

\* The new session reaches the station and the list.
LEMMA Arrives ==
  ASSUME GattIInv, NEW p \in Procs, Opened(p)
  PROVE  GattIInv'
<1>0. /\ lock = p /\ lock' = p /\ proc[p].pc = "opened" /\ device' = proc[p].h /\ connected' = TRUE
      /\ UNCHANGED <<chars, pending, inFlight, tracked, transportVars, eventVars, ctxDone>>
  BY DEF Opened, Locked, At
<1>c. Moves(p) /\ SameCall(p) /\ ProcShape(proc'[p]) /\ proc'[p].pc = "discover"
  BY InvTyped, OpenedIs, StepShape DEF ConnectStep, Reaches
<1>1. /\ proc' \in [Procs -> AnyProc] /\ (\A q \in Procs : ProcShape(proc[q]))'
      /\ \A q \in Procs : q # p => proc'[q] = proc[q]
  BY <1>c, ShapesKeep
<1>3. /\ proc[p].h # None /\ Open = {proc[p].h} /\ device = None /\ pending = None
      /\ \A q \in Procs \ {p} : ~InHandAt(q)
  BY <1>0, HandLabels, ReleasesIt DEF InHandAt
<1>2. GlobalTypes'
  <2>1. device' \in 0..MaxHandles
    BY <1>0, InvTyped
  <2> QED
    BY <1>0, <2>1 DEF GattIInv, GlobalTypes, transportVars, eventVars
<1>4. Locks'
  <2>1. proc'[p].pc \in LockedPcs <=> lock' = p
    BY <1>0, <1>c, HeldLabels
  <2>2. (\A q \in Procs : proc[q].pc \in LockedPcs <=> lock = q)'
    BY <1>0, <1>c, <2>1, HoldersKeep
  <2>3. (\A q \in Procs : proc[q].pc \in {"cleaning", "disconnecting"} => inFlight = q)'
    BY <1>1, <1>3, <1>c, HandLabels DEF InHandAt
  <2> QED
    BY <2>2, <2>3 DEF Locks
<1>5. Place'
  <2>1. device' = proc[p].h /\ pending' = None /\ Open' = Open
    BY <1>0, <1>3 DEF Open, transportVars
  <2>2. \A q \in Procs : ~(InHandAt(q)')
    BY <1>1, <1>3, <1>c, HeldLabels DEF InHandAt
  <2> QED
    BY <1>3, <2>1, <2>2 DEF Place, Free
<1>6. Tracked'
  BY <1>0 DEF Tracked
<1>7. Started'
  <2>1. ASSUME NEW n \in Handles, proc'[n].pc # "idle"
        PROVE  n <= opened' /\ device' # n /\ \A q \in Procs : proc'[q].pc = "opened" => proc'[q].h # n
    <3>1. proc[n].pc # "idle"
      BY <1>0, <1>1, <2>1 DEF Procs
    <3>2. n <= opened /\ \A q \in Procs : proc[q].pc = "opened" => proc[q].h # n
      BY <3>1 DEF GattIInv, Started
    <3> QED
      BY <1>0, <1>1, <1>c, <3>2 DEF transportVars
  <2> QED
    BY <2>1 DEF Started
<1>8. (lock # NoOne => Knows(proc[lock]))'
  BY <1>0, <1>3, <1>c DEF Knows
<1> QED
  BY <1>1, <1>2, <1>4, <1>5, <1>6, <1>7, <1>8 DEF GattIInv

\* A step that leaves the processes and the place of the session alone.
LEMMA Aside ==
  ASSUME GattIInv, GlobalTypes',
         UNCHANGED <<lock, sessionVars, opened, released, proc>>
  PROVE  GattIInv'
<1>1. /\ lock' = lock /\ device' = device /\ chars' = chars /\ pending' = pending
      /\ inFlight' = inFlight /\ connected' = connected /\ tracked' = tracked
      /\ opened' = opened /\ Open' = Open /\ proc' = proc
  BY DEF sessionVars, Open
<1>2. Locks' /\ Tracked' /\ Started'
  BY <1>1 DEF GattIInv, Locks, Tracked, Started
<1>3. Place'
  BY <1>1 DEF GattIInv, Place, Free, InHandAt
<1>4. (\A p \in Procs : ProcShape(proc[p]))'
  BY <1>1 DEF GattIInv, ProcShape, Frames, InConnect, InClose
<1>5. (lock # NoOne => Knows(proc[lock]))'
  BY <1>1 DEF GattIInv, Knows
<1> QED
  BY <1>1, <1>2, <1>3, <1>4, <1>5 DEF GattIInv

LEMMA CancelKeeps ==
  ASSUME GattIInv, NEW p \in Calls, Cancel(p)
  PROVE  GattIInv'
<1>1. /\ ctxDone' \subseteq Calls
      /\ UNCHANGED <<lock, sessionVars, transportVars, eventVars, proc>>
  BY DEF Cancel, GattIInv, GlobalTypes
<1>2. GlobalTypes'
  BY <1>1 DEF GattIInv, GlobalTypes, sessionVars, transportVars, eventVars
<1> QED
  BY <1>1, <1>2, Aside DEF transportVars

LEMMA LinkDropsKeeps ==
  ASSUME GattIInv, NEW h \in Handles, LinkDrops(h)
  PROVE  GattIInv'
<1>1. /\ down' \subseteq Handles /\ events' \subseteq Handles
      /\ UNCHANGED <<lock, sessionVars, opened, released, queue, drainer, invalid, ctxDone, proc>>
  BY DEF LinkDrops, GattIInv, GlobalTypes
<1>2. GlobalTypes'
  BY <1>1 DEF GattIInv, GlobalTypes, sessionVars
<1> QED
  BY <1>1, <1>2, Aside

LEMMA DeliverDropKeeps ==
  ASSUME GattIInv, NEW h \in Handles, DeliverDrop(h)
  PROVE  GattIInv'
<1>1. /\ events' \subseteq Handles
      /\ UNCHANGED <<lock, sessionVars, transportVars, invalid, ctxDone, proc>>
  BY DEF DeliverDrop, GattIInv, GlobalTypes
<1>2. queue \in Seq(Handles) /\ drainer \in {"off", "idle", "busy"}
  BY DEF GattIInv, GlobalTypes
<1>3. /\ queue' \in Seq(Handles) /\ drainer' \in {"off", "idle", "busy"}
      /\ drainer' = "busy" => drainer = "busy"
  BY <1>2 DEF DeliverDrop
<1>4. GlobalTypes'
  BY <1>1, <1>3 DEF GattIInv, GlobalTypes, sessionVars, transportVars
<1> QED
  BY <1>1, <1>4, Aside DEF transportVars

LEMMA DrainNextKeeps ==
  ASSUME GattIInv, DrainNext
  PROVE  GattIInv'
<1>1. UNCHANGED <<lock, sessionVars, transportVars, events, ctxDone, proc>>
  BY DEF DrainNext
<1>2. queue \in Seq(Handles) /\ invalid \in 0..MaxHandles
  BY DEF GattIInv, GlobalTypes
<1>3. CASE queue = << >>
  <2>1. drainer' = "off" /\ queue' = queue /\ invalid' = invalid
    BY <1>3 DEF DrainNext
  <2>2. GlobalTypes'
    BY <1>1, <2>1 DEF GattIInv, GlobalTypes, sessionVars, transportVars
  <2> QED
    BY <1>1, <2>2, Aside DEF transportVars
<1>4. CASE queue # << >>
  <2>1. drainer' = "busy" /\ queue' = Tail(queue) /\ invalid' = Head(queue)
    BY <1>4 DEF DrainNext
  <2>2. Tail(queue) \in Seq(Handles) /\ Head(queue) \in Handles
    BY <1>2, <1>4
  <2>3. Head(queue) \in 0..MaxHandles
    BY <2>2, BoundsAssumption DEF Handles
  <2>4. GlobalTypes'
    BY <1>1, <2>1, <2>2, <2>3 DEF GattIInv, GlobalTypes, sessionVars, transportVars
  <2> QED
    BY <1>1, <2>4, Aside DEF transportVars
<1> QED
  BY <1>3, <1>4

\* The session of the station drops: it waits for its cleanup.
LEMMA Drops ==
  ASSUME GattIInv, Invalidate
  PROVE  GattIInv'
<1>0. /\ lock = NoOne /\ lock' = NoOne /\ drainer' = "idle" /\ invalid' = None
      /\ UNCHANGED <<transportVars, events, queue, ctxDone>>
      /\ drainer = "busy" /\ invalid \in Handles
  BY DEF Invalidate, GattIInv, GlobalTypes
<1>1. CASE device # invalid
  <2>1. UNCHANGED <<sessionVars, proc>>
    BY <1>1 DEF Invalidate
  <2>2. GlobalTypes'
    BY <1>0, <2>1, LabelsTyped DEF GattIInv, GlobalTypes, transportVars, sessionVars
  <2> QED
    BY <1>0, <2>1, <2>2, Aside DEF transportVars
<1>2. CASE device = invalid
  <2>1. PICK h \in Handles : h = invalid
    BY <1>0
  <2>2. /\ proc' = [proc EXCEPT ![h].pc = "sweeping", ![h].kind = "dropped"]
        /\ pending' = h /\ device' = None /\ chars' = FALSE /\ connected' = FALSE
        /\ tracked' = TRUE /\ inFlight' = inFlight
    BY <1>2, <2>1 DEF Invalidate
  <2>3. device = h /\ h # None /\ h \in Procs /\ h \in 0..MaxHandles
    BY <1>2, <2>1, BoundsAssumption DEF Handles, None, Procs
  <2>4. Open = {h} /\ pending = None /\ Free
    BY <2>3 DEF GattIInv, Place
  <2>5. proc[h].pc = "idle"
    BY <2>3 DEF GattIInv, Started
  <2>6. proc[h].stack = NoFrames /\ proc[h].tries <= DiscoveryAttempts /\ proc[h] \in AnyProc
    BY <2>3, <2>5, TopFrame, InvTyped DEF TopPcs, OwnPcs, CommandLabels
  <2>7. /\ Moves(h) /\ proc'[h].pc = "sweeping" /\ proc'[h].kind = "dropped"
        /\ proc'[h].stack = proc[h].stack /\ proc'[h].tries = proc[h].tries
    <3>1. "sweeping" \in AnyLabels /\ "dropped" \in AnyKinds /\ proc \in [Procs -> AnyProc]
      BY LabelsTyped DEF AnyKinds, GattIInv
    <3> QED
      BY <2>2, <2>3, <2>6, <3>1, ProcFields DEF Moves, AnyProc
  <2>8. ProcShape(proc'[h])
    BY <2>6, <2>7 DEF ProcShape, Frames, TopPcs, OwnPcs, CommandLabels, OwnKinds, OwnConnects, OwnCloses
  <2>9. /\ proc' \in [Procs -> AnyProc] /\ (\A q \in Procs : ProcShape(proc[q]))'
        /\ \A q \in Procs : q # h => proc'[q] = proc[q]
    BY <2>3, <2>7, <2>8, ShapesKeep
  <2>10. GlobalTypes'
    BY <1>0, <2>2, <2>3, LabelsTyped DEF GattIInv, GlobalTypes, transportVars
  <2>11. Locks'
    <3>1. \A q \in Procs : proc[q].pc \notin LockedPcs
      BY <1>0, NotNoOne DEF GattIInv, Locks
    <3>2. \A q \in Procs : proc'[q].pc \notin LockedPcs \cup HandPcs
      BY <2>4, <2>7, <2>9, <3>1, HeldLabels DEF Free, InHandAt
    <3> QED
      BY <1>0, <3>2, HandLabels, NotNoOne DEF Locks
  <2>12. Open' = Open
    BY <1>0 DEF Open, transportVars
  <2>13. Place'
    <3>1. \A q \in Procs : ~(InHandAt(q)')
      BY <2>4, <2>7, <2>9, HeldLabels DEF Free, InHandAt
    <3> QED
      BY <2>2, <2>3, <2>4, <2>12, <3>1 DEF Place, Free
  <2>14. Tracked'
    BY <2>2 DEF Tracked
  <2>15. Started'
    <3>1. \A q \in Procs : proc'[q].pc # "opened"
      BY <2>4, <2>7, <2>9, HandLabels DEF Free, InHandAt
    <3>2. h <= opened
      BY <2>4 DEF Open
    <3>3. ASSUME NEW n \in Handles, proc'[n].pc # "idle"
          PROVE  n <= opened'
      <4>1. CASE n = h
        BY <1>0, <3>2, <4>1 DEF transportVars
      <4>2. CASE n # h
        <5>1. n \in Procs /\ proc[n].pc # "idle"
          BY <2>9, <3>3, <4>2 DEF Procs
        <5> QED
          BY <1>0, <5>1 DEF GattIInv, Started, transportVars
      <4> QED
        BY <4>1, <4>2
    <3>4. \A n \in Handles : None # n
      BY BoundsAssumption DEF Handles, None
    <3> QED
      BY <2>2, <3>1, <3>3, <3>4 DEF Started
  <2> QED
    BY <1>0, <2>9, <2>10, <2>11, <2>13, <2>14, <2>15 DEF GattIInv
<1> QED
  BY <1>1, <1>2

\* A call is made, whoever holds the lock meanwhile.
LEMMA CallMade ==
  ASSUME GattIInv, NEW p \in Calls, NEW kind \in AnyKinds, NEW l \in {"done", "enter", "enterCommand"},
         kind \notin OwnKinds \/ l # "enterCommand",
         proc[p].pc = "idle", ProcOnly, proc' = [proc EXCEPT ![p].kind = kind, ![p].pc = l]
  PROVE  GattIInv'
<1>0. proc[p].pc = "idle" /\ ProcOnly /\ p \in Procs /\ p \notin Handles
  BY CallsAssumption DEF Procs, Handles
<1>2. proc' = [proc EXCEPT ![p].kind = kind, ![p].pc = l]
  OBVIOUS
<1>3. proc[p].stack = NoFrames /\ proc[p].tries <= DiscoveryAttempts /\ proc[p] \in AnyProc
  BY <1>0, TopFrame, InvTyped DEF TopPcs, OwnPcs, CommandLabels
<1>4. /\ Moves(p) /\ proc'[p].pc = l /\ proc'[p].kind = kind
      /\ proc'[p].stack = proc[p].stack /\ proc'[p].tries = proc[p].tries
  <2>1. l \in AnyLabels /\ proc \in [Procs -> AnyProc]
    BY LabelsTyped DEF AnyLabels, CommandLabels, GattIInv
  <2> QED
    BY <1>0, <1>2, <1>3, <2>1, ProcFields DEF Moves, AnyProc
<1>5. ProcShape(proc'[p])
  BY <1>3, <1>4 DEF ProcShape, Frames, TopPcs, OwnPcs, CommandLabels, OwnKinds, OwnConnects, OwnCloses
<1>6. /\ proc' \in [Procs -> AnyProc] /\ (\A q \in Procs : ProcShape(proc[q]))'
      /\ \A q \in Procs : q # p => proc'[q] = proc[q]
  BY <1>0, <1>4, <1>5, ShapesKeep
<1>7. /\ lock' = lock /\ device' = device /\ chars' = chars /\ pending' = pending
      /\ inFlight' = inFlight /\ connected' = connected /\ tracked' = tracked
      /\ opened' = opened /\ Open' = Open
  BY <1>0 DEF ProcOnly, sessionVars, transportVars, Open
<1>8. GlobalTypes'
  BY <1>0, <1>7 DEF GattIInv, GlobalTypes, ProcOnly, transportVars, eventVars
<1>9. /\ {l, "idle"} \cap (LockedPcs \cup HandPcs) = {}
      /\ \A q \in Procs : /\ proc'[q].pc \in LockedPcs <=> proc[q].pc \in LockedPcs
                          /\ proc'[q].pc \in HandPcs <=> proc[q].pc \in HandPcs
                          /\ proc[q].pc \in HandPcs => proc'[q] = proc[q]
  BY <1>0, <1>4, <1>6, HeldLabels
<1>10. Locks'
  BY <1>6, <1>7, <1>9, HandLabels DEF GattIInv, Locks
<1>11. Place'
  BY <1>7, <1>9 DEF GattIInv, Place, Free, InHandAt
<1>12. Tracked'
  BY <1>7 DEF GattIInv, Tracked
<1>13. Started'
  <2>1. \A n \in Handles : n \in Procs /\ proc'[n] = proc[n]
    BY <1>0, <1>6 DEF Procs
  <2>2. \A q \in Procs : proc'[q].pc = "opened" => proc'[q] = proc[q]
    BY <1>9, HandLabels
  <2> QED
    BY <1>7, <2>1, <2>2 DEF GattIInv, Started
<1>14. (lock # NoOne => Knows(proc[lock]))'
  <2>1. lock # p
    BY <1>0, HandLabels DEF GattIInv, Locks
  <2>2. lock # NoOne => proc'[lock] = proc[lock]
    BY <1>6, <2>1 DEF GattIInv, GlobalTypes
  <2> QED
    BY <1>7, <2>2 DEF GattIInv, Knows
<1> QED
  BY <1>6, <1>8, <1>10, <1>11, <1>12, <1>13, <1>14 DEF GattIInv

LEMMA BeginKeeps ==
  ASSUME GattIInv, NEW p \in Calls, NEW kind \in Kinds[p], Begin(p, kind)
  PROVE  GattIInv'
<1>1. kind \in AnyKinds
  BY CallsAssumption DEF AnyKinds
<1>2. PICK l \in {"done", "enter"} : proc' = [proc EXCEPT ![p].kind = kind, ![p].pc = l]
  BY DEF Begin
<1> QED
  BY <1>1, <1>2, CallMade DEF Begin, At

LEMMA EagerCleanedControl ==
  ASSUME GattIInv, NEW p \in Procs, EagerCleaned(p)
  PROVE  Control(p)
<1>1. /\ lock = p /\ proc[p].pc = "cleaned" /\ Finish(p, "ok")
      /\ UNCHANGED <<sessionVars, transportVars, eventVars, ctxDone>>
  BY DEF EagerCleaned, Locked, At
<1>2. proc[p].pc \in TopPcs /\ proc[p].pc # "idle" /\ "ok" \in Results
  BY <1>1, LabelsTyped DEF TopPcs, OwnPcs, CommandLabels
<1> QED
  BY <1>1, <1>2, LastControl

-----------------------------------------------------------------------------
(* Every step keeps the invariant.                                         *)

\* A Disconnect of the handle to clean up is about to begin.
Begins(p) ==
  /\ pending # None /\ Moves(p) /\ SameCall(p) /\ ProcShape(proc'[p])
  /\ proc[p].pc \notin HandPcs /\ proc[p].pc # "idle" /\ lock \in {p, NoOne}
  /\ proc'[p].pc = "cleaning" /\ proc'[p].h = pending
  /\ pending' = None /\ inFlight' = p /\ lock' = NoOne
  /\ UNCHANGED <<device, chars, connected, tracked, transportVars, eventVars, ctxDone>>

NewSession(p) ==
  OpenSession(p, "opened") /\ (OpenOrReuse(p) \/ Reopen(p)) /\ device = None /\ proc[p].res = "ok"
Detaches(p) == Detach(p) /\ proc[p].res # "fail" /\ device # None
Closes(p) ==
  \/ CleanupSucceeds(p) \/ DisconnectSucceeds(p)
  \/ CleanupFails(p) \/ DisconnectFails(p)

\* A step of a procedure moves its process only, takes the session in hand,
\* hands it on, or puts it down.
StepKind(p) ==
  Control(p) \/ Begins(p) \/ NewSession(p) \/ Opened(p) \/ Detaches(p) \/ Closes(p)

LEMMA GateKind ==
  ASSUME GattIInv, NEW p \in Procs, Gate(p)
  PROVE  StepKind(p)
<1>1. CASE inFlight # NoOne \/ pending = None
  BY <1>1, GateControl DEF StepKind
<1>2. CASE inFlight = NoOne /\ pending # None
  <2>1. /\ lock = p /\ proc[p].pc = "gate"
        /\ UNCHANGED <<device, chars, connected, tracked, transportVars, eventVars, ctxDone>>
    BY DEF Gate, Locked, At
  <2>2. PICK x \in GateReturns, s \in Seq(AnyLabels) : proc[p].stack = Push(x, s)
    BY <2>1, GateFrame
  <2>3. /\ Moves(p) /\ SameCall(p) /\ Reaches(p, "cleaning", Push(x, s))
        /\ proc'[p].h = pending /\ pending' = None /\ inFlight' = p /\ lock' = NoOne
    BY <1>2, <2>2, InvTyped, BasesTyped, GateIs
  <2>4. ProcShape(proc'[p])
    BY StepShape DEF ConnectStep
  <2> QED
    BY <1>2, <2>1, <2>3, <2>4, HeldLabels DEF StepKind, Begins, Reaches
<1> QED
  BY <1>1, <1>2

LEMMA DisconnectKind ==
  ASSUME GattIInv, NEW p \in Procs, Disconnect(p)
  PROVE  StepKind(p)
<1>1. CASE pending = None
  BY <1>1, DisconnectControl DEF StepKind
<1>2. CASE pending # None
  <2>1. /\ lock = p /\ proc[p].pc = "disconnect"
        /\ UNCHANGED <<device, chars, connected, tracked, transportVars, eventVars, ctxDone>>
    BY DEF Disconnect, Locked, At
  <2>2. /\ Moves(p) /\ SameCall(p) /\ Reaches(p, "cleaning", Push("detach", proc[p].stack))
        /\ proc'[p].h = pending /\ pending' = None /\ inFlight' = p /\ lock' = NoOne
    BY <1>2, InvTyped, DisconnectIs
  <2>3. ProcShape(proc'[p])
    BY StepShape DEF DisconnectStep
  <2> QED
    BY <1>2, <2>1, <2>2, <2>3, HeldLabels DEF StepKind, Begins, Reaches
<1> QED
  BY <1>1, <1>2

LEMMA OpenKind ==
  ASSUME GattIInv, NEW p \in Procs, OpenOrReuse(p) \/ Reopen(p)
  PROVE  StepKind(p)
<1>1. CASE ~OpenSession(p, "opened")
  BY <1>1, OpenOrReuseControl, ReopenControl DEF StepKind
<1>2. CASE OpenSession(p, "opened")
  <2>1. opened' # opened
    <3>1. opened' = opened + 1 /\ opened \in 0..MaxHandles
      BY <1>2, InvTyped DEF OpenSession, GlobalTypes
    <3> QED
      BY <3>1, BoundsAssumption
  <2>2. device = None /\ proc[p].res = "ok"
    <3>1. ~ProcOnly
      BY <2>1 DEF ProcOnly, transportVars
    <3> QED
      BY <3>1 DEF OpenOrReuse, Reopen
  <2> QED
    BY <1>2, <2>2 DEF StepKind, NewSession
<1> QED
  BY <1>1, <1>2

\* A goroutine started for a dropped session finds it, or has nothing to do.
LEMMA EagerCleanupKind ==
  ASSUME GattIInv, NEW p \in Procs, EagerCleanup(p)
  PROVE  StepKind(p)
<1>0. /\ lock = NoOne /\ proc[p].pc = "sweeping"
      /\ UNCHANGED <<device, chars, connected, tracked, transportVars, eventVars, ctxDone>>
  BY DEF EagerCleanup, Unlocked, At
<1>1. proc[p].stack = NoFrames /\ proc[p].tries <= DiscoveryAttempts
      /\ proc[p].kind \in AnyKinds
      /\ proc[p].pc # "idle" /\ proc[p].pc \notin HandPcs
  BY <1>0, TopFrame, HeldLabels DEF TopPcs, OwnPcs, CommandLabels
<1>2. CASE pending = None
  <2>1. Goto(p, "done") /\ UNCHANGED <<lock, pending, inFlight>>
    BY <1>2 DEF EagerCleanup
  <2>2. Moves(p) /\ Reaches(p, "done", proc[p].stack) /\ SameCall(p) /\ SameTries(p)
    <3>1. proc \in [Procs -> AnyProc] /\ "done" \in AnyLabels
      BY LabelsTyped DEF GattIInv
    <3> QED
      BY <2>1, <3>1, GotoIs DEF Reaches, SameCall, SameTries
  <2>3. ProcShape(proc'[p])
    BY <1>1, <2>2 DEF ProcShape, Frames, TopPcs, Reaches, SameCall, SameTries, OwnPcs,
        CommandLabels, OwnKinds, OwnConnects, OwnCloses
  <2>4. UNCHANGED sessionVars
    BY <1>0, <2>1 DEF sessionVars
  <2>5. lock' = NoOne
    BY <1>0, <2>1
  <2>6. Control(p)
    BY <1>0, <1>1, <2>2, <2>3, <2>4, <2>5, HeldLabels, FreeControl DEF Reaches
  <2> QED
    BY <2>6 DEF StepKind
<1>3. CASE pending # None
  <2>1. StartCleanup(p, "cleaned", NoFrames)
    BY <1>3 DEF EagerCleanup, NoFrames
  <2>2. "cleaned" \in AnyLabels /\ NoFrames \in Seq(AnyLabels)
    BY LabelsTyped, OneFrame
  <2>3. /\ Moves(p) /\ SameCall(p) /\ SameTries(p)
        /\ Reaches(p, "cleaning", Push("cleaned", NoFrames))
        /\ proc'[p].h = pending /\ pending' = None /\ inFlight' = p /\ lock' = NoOne
    BY <1>3, <2>1, <2>2, InvTyped, CleanupIs
  <2>4. ProcShape(proc'[p])
    BY <1>1, <2>3 DEF ProcShape, Frames, Reaches, SameCall, SameTries, Only
  <2> QED
    BY <1>0, <1>1, <1>3, <2>3, <2>4 DEF StepKind, Begins, Reaches
<1> QED
  BY <1>2, <1>3

LEMMA ProcStepKind ==
  ASSUME GattIInv, NEW p \in Procs, ProcStep(p)
  PROVE  StepKind(p)
<1>1. CASE ConnectStep(p)
  BY <1>1, GateKind, OpenKind, GateWakeControl, GateCancelledControl, ConnectControl,
     GatePassedControl, StaleClosedControl, RebuildControl, DiscoverControl,
     AttemptFailedControl, GiveUpControl, RetryClosedControl, RetryWakeControl
  DEF ConnectStep, StepKind
<1>2. CASE DisconnectStep(p)
  BY <1>2, DisconnectKind, DetachControl DEF DisconnectStep, StepKind, Closes, Detaches
<1>3. CASE CallStep(p)
  BY <1>3, CallControl DEF StepKind
<1>4. CASE EagerCleanup(p) \/ EagerCleaned(p)
  BY <1>4, EagerCleanupKind, EagerCleanedControl DEF StepKind
<1> QED
  BY <1>1, <1>2, <1>3, <1>4 DEF ProcStep

LEMMA KindKeeps ==
  ASSUME GattIInv, NEW p \in Procs, StepKind(p)
  PROVE  GattIInv'
<1>1. CASE Control(p)
  BY <1>1, ControlKeeps
<1>2. CASE Begins(p)
  BY <1>2, CleanupBegins DEF Begins
<1>3. CASE NewSession(p)
  BY <1>3, Opens DEF NewSession
<1>4. CASE Opened(p)
  BY <1>4, Arrives
<1>5. CASE Detaches(p)
  BY <1>5, DetachBegins DEF Detaches
<1>6. CASE Closes(p)
  BY <1>6, Releases, KeepsHandle DEF Closes
<1> QED
  BY <1>1, <1>2, <1>3, <1>4, <1>5, <1>6 DEF StepKind

LEMMA GattStep ==
  GattIInv /\ [Next]_vars => GattIInv'
<1> SUFFICES ASSUME GattIInv, [Next]_vars
             PROVE  GattIInv'
  OBVIOUS
<1>1. ASSUME NEW p \in Procs, ProcStep(p)
      PROVE  GattIInv'
  BY <1>1, ProcStepKind, KindKeeps
<1>2. CASE \E p \in Calls : Cancel(p) \/ \E kind \in Kinds[p] : Begin(p, kind)
  BY <1>2, CancelKeeps, BeginKeeps
<1>3. CASE EventStep
  BY <1>3, LinkDropsKeeps, DeliverDropKeeps, DrainNextKeeps, Drops DEF EventStep
<1>4. CASE UNCHANGED vars
  <2>1. UNCHANGED <<lock, sessionVars, transportVars, eventVars, ctxDone, proc>>
    BY <1>4 DEF vars
  <2>2. GlobalTypes'
    BY <2>1 DEF GattIInv, GlobalTypes, sessionVars, transportVars, eventVars
  <2> QED
    BY <2>1, <2>2, Aside DEF transportVars
<1> QED
  BY <1>1, <1>2, <1>3, <1>4 DEF Next

LEMMA GattStarts ==
  Init => GattIInv
<1> SUFFICES ASSUME Init
             PROVE  GattIInv
  OBVIOUS
<1>1. PICK i \in AnyProc : i = Idle
  BY IdleTyped
<1>2. /\ i.pc = "idle" /\ i.stack = NoFrames /\ i.tries = 0 /\ i.kind = "none"
      /\ proc = [p \in Procs |-> i]
  BY <1>1, IdleTyped DEF Init
<1>3. proc \in [Procs -> AnyProc] /\ \A p \in Procs : proc[p] = i
  BY <1>2
<1>4. GlobalTypes
  <2>1. queue \in Seq(Handles)
    BY DEF Init
  <2>2. 0 \in 0..MaxHandles
    BY BoundsAssumption
  <2> QED
    BY <2>1, <2>2 DEF Init, GlobalTypes, None
<1>5. ProcShape(i)
  BY <1>2, BoundsAssumption DEF ProcShape, Frames, TopPcs, OwnPcs, CommandLabels, OwnKinds,
      OwnConnects, OwnCloses
<1>6. Open = {}
  BY DEF Init, Open
<1>7. Free /\ Locks
  <2>1. \A p \in Procs : proc[p].pc = "idle" /\ p # NoOne
    BY <1>2, <1>3, NotNoOne
  <2> QED
    BY <2>1, HandLabels DEF Free, InHandAt, Locks, Init
<1>8. Place /\ Tracked /\ Started
  BY <1>2, <1>3, <1>6, <1>7 DEF Place, Tracked, Started, Init, Free, Procs
<1> QED
  BY <1>3, <1>4, <1>5, <1>7, <1>8 DEF GattIInv, Init

\* Every procedure returns to where it was called, the holder of the lock is the
\* one process inside, and the session is always in one place: with the
\* station, waiting for its cleanup, or in the hand of the process that opens or
\* closes it (connection.go 424-547, 593-668; runtime.go 297-342).
THEOREM GattInvariant ==
  Spec => []GattIInv
<1> QED
  BY GattStarts, GattStep, PTL DEF Spec

-----------------------------------------------------------------------------
(* What follows from it.                                                   *)

LEMMA ShapeTyped ==
  ASSUME GattIInv, NEW p \in Procs, proc[p].kind \in OwnKinds
  PROVE  proc[p] \in ProcType
<1> DEFINE r == proc[p]
<1>1. /\ r \in AnyProc /\ r.tries \in Nat /\ r.kind \in OwnKinds
      /\ Frames(r, OwnPcs, OwnConnects, OwnCloses)
  BY InvTyped DEF ProcShape
<1>2. /\ NoFrames \in Seq(Labels)
      /\ \A l \in Labels, s \in Seq(Labels) : Push(l, s) \in Seq(Labels)
  BY DEF NoFrames, Push
<1>3. /\ OwnConnects \subseteq Labels /\ OwnCloses \subseteq Labels
      /\ GateReturns \subseteq Labels /\ CloseReturns \subseteq Labels
      /\ "detach" \in Labels /\ "cleaned" \in Labels /\ "cleaning" \in Labels
      /\ OwnPcs \subseteq Labels /\ ConnectBody \subseteq Labels
      /\ GatePcs \subseteq Labels /\ ClosePcs \subseteq Labels
      /\ "connect" \in Labels /\ "giveUp" \in Labels
  BY DEF OwnConnects, OwnCloses, GateReturns, CloseReturns, OwnPcs, ConnectBody, GatePcs,
     ClosePcs, Labels
<1> HIDE DEF r
<1>4. r.pc \in Labels /\ r.stack \in Seq(Labels) /\ r.tries <= DiscoveryAttempts
  <2>1. CASE r.pc \in OwnPcs /\ r.stack = NoFrames /\ r.tries <= DiscoveryAttempts
    BY <1>2, <1>3, <2>1
  <2>2. CASE r.pc = "cleaning" /\ r.stack = Only("cleaned") /\ r.tries <= DiscoveryAttempts
    BY <1>2, <1>3, <2>2 DEF Only
  <2>3. ASSUME NEW b \in OwnConnects, InConnect(r, b)
        PROVE  r.pc \in Labels /\ r.stack \in Seq(Labels) /\ r.tries <= DiscoveryAttempts
    <3>1. Only(b) \in Seq(Labels)
      BY <1>2, <1>3 DEF Only
    <3>2. CASE \/ r.pc \in {"connect", "giveUp"} /\ r.stack = Only(b) /\ r.tries <= DiscoveryAttempts
               \/ r.pc \in ConnectBody /\ r.stack = Only(b) /\ r.tries < DiscoveryAttempts
      BY <1>1, <1>3, <3>1, <3>2, BoundsAssumption
    <3>3. CASE \E x \in GateReturns :
                  r.pc \in GatePcs /\ r.stack = Push(x, Only(b)) /\ r.tries < DiscoveryAttempts
      BY <1>1, <1>2, <1>3, <3>1, <3>3, BoundsAssumption
    <3>4. CASE \E x \in CloseReturns :
                  /\ r.tries <= DiscoveryAttempts
                  /\ \/ r.pc \in ClosePcs /\ r.stack = Push(x, Only(b))
                     \/ r.pc = "cleaning" /\ r.stack = Push("detach", Push(x, Only(b)))
      BY <1>2, <1>3, <3>1, <3>4
    <3> QED
      BY <2>3, <3>2, <3>3, <3>4 DEF InConnect
  <2>4. ASSUME NEW b \in OwnCloses, InClose(r, b)
        PROVE  r.pc \in Labels /\ r.stack \in Seq(Labels) /\ r.tries <= DiscoveryAttempts
    <3>1. Only(b) \in Seq(Labels)
      BY <1>2, <1>3 DEF Only
    <3> QED
      BY <1>2, <1>3, <2>4, <3>1 DEF InClose
  <2> QED
    BY <1>1, <2>1, <2>2, <2>3, <2>4 DEF Frames
<1>5. r.kind \in SessionKinds \cup {"none", "dropped"} /\ r.tries \in 0..DiscoveryAttempts
  BY <1>1, <1>4, BoundsAssumption DEF OwnKinds
<1> QED
  BY <1>1, <1>4, <1>5 DEF AnyProc, ProcType, r

LEMMA OneHolder ==
  ASSUME GattIInv
  PROVE  OneSession
<1>1. Place
  BY DEF GattIInv
<1>2. \A h : {p \in Procs : InHand(p, h)} = {p \in Procs : InHandAt(p) /\ proc[p].h = h}
  BY DEF InHand, InHandAt, HandPcs
<1>3. CASE device # None \/ pending # None
  <2>1. PICK d : d = IF device # None THEN device ELSE pending
    OBVIOUS
  <2>2. Open = {d} /\ Free /\ (IF device = d THEN 1 ELSE 0) + (IF pending = d THEN 1 ELSE 0) = 1
    BY <1>1, <1>3, <2>1 DEF Place
  <2>3. {p \in Procs : InHand(p, d)} = {}
    BY <1>2, <2>2 DEF Free
  <2>4. Cardinality(Open) = 1 /\ Cardinality({p \in Procs : InHand(p, d)}) = 0
    BY <2>2, <2>3, FS_Singleton, FS_EmptySet
  <2>5. HolderCount(d) = 1
    BY <2>2, <2>4 DEF HolderCount
  <2> QED
    BY <2>2, <2>4, <2>5 DEF OneSession
<1>4. CASE \E p \in Procs : InHandAt(p)
  <2>1. PICK p \in Procs : InHandAt(p)
    BY <1>4
  <2>2. PICK d : d = proc[p].h
    OBVIOUS
  <2>3. /\ d # None /\ Open = {d} /\ device = None /\ pending = None
        /\ \A q \in Procs \ {p} : ~InHandAt(q)
    BY <1>1, <2>1, <2>2 DEF Place
  <2>4. {q \in Procs : InHand(q, d)} = {p}
    BY <1>2, <2>1, <2>2, <2>3
  <2>5. Cardinality(Open) = 1 /\ Cardinality({q \in Procs : InHand(q, d)}) = 1
    BY <2>3, <2>4, FS_Singleton
  <2>6. HolderCount(d) = 1
    BY <2>3, <2>5 DEF HolderCount
  <2> QED
    BY <2>3, <2>5, <2>6 DEF OneSession
<1>5. CASE device = None /\ pending = None /\ Free
  <2>1. Open = {} /\ Cardinality(Open) = 0
    BY <1>1, <1>5, FS_EmptySet DEF Place
  <2> QED
    BY <2>1 DEF OneSession
<1> QED
  BY <1>3, <1>4, <1>5 DEF Free

\* Only Detach starts to close the session of the station.
LEMMA WhoCloses ==
  ASSUME GattIInv, NEW p \in Procs, ProcStep(p)
  PROVE  Moves(p) /\ SameCall(p) /\ (proc'[p].pc = "disconnecting" => Detaches(p))
<1>1. Control(p) => Moves(p) /\ SameCall(p) /\ proc'[p].pc # "disconnecting"
  BY HandLabels DEF Control
<1>2. CASE Begins(p) \/ EagerCleanup(p)
  <2>1. Moves(p) /\ SameCall(p) /\ proc'[p].pc \in {"cleaning", "done"}
    <3>1. ASSUME EagerCleanup(p)
          PROVE  Moves(p) /\ SameCall(p) /\ proc'[p].pc \in {"cleaning", "done"}
      <4>1. CASE pending = None
        BY <3>1, <4>1, GotoIs, LabelsTyped DEF EagerCleanup, GattIInv, SameCall
      <4>2. CASE pending # None
        <5>1. StartCleanup(p, "cleaned", NoFrames)
          BY <3>1, <4>2 DEF EagerCleanup, NoFrames
        <5> QED
          BY <4>2, <5>1, LabelsTyped, OneFrame, InvTyped, CleanupIs DEF Reaches
      <4> QED
        BY <4>1, <4>2
    <3> QED
      BY <1>2, <3>1 DEF Begins
  <2> QED
    BY <2>1
<1>3. CASE NewSession(p) \/ Opened(p)
  <2>1. ConnectStep(p) /\ Moves(p) /\ SameCall(p)
    BY <1>3, StepShape DEF NewSession, ConnectStep
  <2>2. proc'[p].pc \in {"opened", "discover"}
    BY <1>3, InvTyped, OpenSessionIs, OpenedIs DEF NewSession, Reaches
  <2> QED
    BY <2>1, <2>2
<1>4. CASE Closes(p)
  <2>1. Moves(p) /\ SameCall(p)
    BY <1>4, StepShape DEF Closes, DisconnectStep
  <2>2. proc[p].pc \in {"cleaning", "disconnecting"}
    BY <1>4 DEF Closes, CleanupSucceeds, CleanupFails, DisconnectSucceeds, DisconnectFails,
       Unlocked, At
  <2>3. PICK x \in GateReturns \cup {"detach", "cleaned"} \cup CloseReturns \cup CloseBases,
             s \in Seq(AnyLabels) : proc[p].stack = Push(x, s)
    BY <2>2, CleaningFrame, CloseFrame DEF ClosePcs
  <2>4. Reaches(p, x, s)
    BY <1>4, <2>3, InvTyped, BasesTyped, ClosedIs, NotClosedIs DEF Closes
  <2>5. x # "disconnecting"
    BY HeldLabels, HandLabels
  <2> QED
    BY <2>1, <2>4, <2>5 DEF Reaches
<1>5. CASE Detaches(p)
  BY <1>5, StepShape DEF Detaches, DisconnectStep
<1> QED
  BY <1>1, <1>2, <1>3, <1>4, <1>5, ProcStepKind, EagerCleanedControl DEF ProcStep, StepKind

\* A call that starts to close the session has itself used it.
LEMMA UserCloses ==
  ASSUME GattIInv, NEW p \in Procs, proc[p].kind \in Cancellable, NEW q \in Procs, ProcStep(q),
         proc'[p].pc = "disconnecting", proc[p].pc # "disconnecting"
  PROVE  device = proc[p].uses
<1>1. q = p
  BY WhoCloses DEF Moves
<1>2. Detaches(p)
  BY <1>1, WhoCloses
<1>3. lock = p /\ proc[p].pc = "detach" /\ device # None
  BY <1>2 DEF Detaches, Detach, Locked, At
<1>4. device \in {None, proc[p].uses}
  BY <1>3, KnowsHere DEF Knows
<1> QED
  BY <1>3, <1>4

\* No step of this module makes a command of a process.
AllOwn == \A p \in Procs : proc[p].kind \in OwnKinds

LEMMA OwnStep ==
  GattIInv /\ AllOwn /\ [Next]_vars => AllOwn'
<1> SUFFICES ASSUME GattIInv, AllOwn, [Next]_vars
             PROVE  AllOwn'
  OBVIOUS
<1>0. proc \in [Procs -> AnyProc]
  BY DEF GattIInv
<1>1. ASSUME NEW p \in Procs, ProcStep(p)
      PROVE  AllOwn'
  BY <1>1, WhoCloses DEF Moves, SameCall, AllOwn
<1>2. ASSUME NEW p \in Calls, Cancel(p)
      PROVE  AllOwn'
  BY <1>2 DEF Cancel, AllOwn
<1>3. ASSUME NEW p \in Calls, NEW kind \in Kinds[p], Begin(p, kind)
      PROVE  AllOwn'
  <2>1. PICK l : proc' = [proc EXCEPT ![p].kind = kind, ![p].pc = l]
    BY <1>3 DEF Begin
  <2>2. kind \in OwnKinds
    BY CallsAssumption DEF OwnKinds
  <2> QED
    BY <1>0, <2>1, <2>2, ProcFields DEF AllOwn, AnyProc
<1>4. CASE EventStep
  <2>1. CASE Invalidate
    <3>1. "dropped" \in OwnKinds
      BY DEF OwnKinds
    <3>2. PICK h : h = invalid
      OBVIOUS
    <3>3. \/ proc' = proc
          \/ proc' = [proc EXCEPT ![h].pc = "sweeping", ![h].kind = "dropped"]
      BY <2>1, <3>2 DEF Invalidate
    <3>4. \A p \in Procs : proc'[p].kind \in {proc[p].kind, "dropped"}
      BY <1>0, <3>3, ProcFields, ZenonT(40) DEF AnyProc
    <3> QED
      BY <3>1, <3>4 DEF AllOwn
  <2>2. CASE DrainNext \/ \E h \in Handles : LinkDrops(h) \/ DeliverDrop(h)
    BY <2>2 DEF DrainNext, LinkDrops, DeliverDrop, AllOwn
  <2> QED
    BY <1>4, <2>1, <2>2 DEF EventStep
<1>5. CASE UNCHANGED vars
  BY <1>5 DEF vars, AllOwn
<1> QED
  BY <1>1, <1>2, <1>3, <1>4, <1>5 DEF Next

\* A station never has two GATT sessions, the one it has belongs to exactly one
\* of the station, its cleanup and a disconnect in flight, and it is in reach of
\* the disconnect events and of the fleet-wide cleanup whenever the lock is free
\* (connection.go 443-447, 478-484, 519-524; runtime.go 288-296).
THEOREM SessionsAreHeld ==
  Spec => []SessionInv
<1>1. GattIInv /\ AllOwn => SessionInv
  <2> SUFFICES ASSUME GattIInv, AllOwn
               PROVE  SessionInv
    OBVIOUS
  <2>1. proc \in [Procs -> ProcType]
    BY ShapeTyped DEF GattIInv, AllOwn
  <2>2. TypeOK
    BY <2>1 DEF GattIInv, GlobalTypes, TypeOK
  <2>3. HeldIsTracked
    BY DEF GattIInv, Tracked, HeldIsTracked
  <2> QED
    BY <2>2, <2>3, OneHolder DEF SessionInv
<1>2. Init => AllOwn
  <2>1. Idle.kind \in OwnKinds
    BY IdleTyped DEF OwnKinds
  <2> QED
    BY <2>1 DEF Init, AllOwn
<1> QED
  BY <1>1, <1>2, OwnStep, GattInvariant, PTL DEF Spec

\* A call that gives up closes the session the station holds only if it has used it.
KeepsForeign ==
  \A p \in Calls :
     proc[p].kind \in Cancellable /\ proc'[p].pc = "disconnecting"
         /\ proc[p].pc # "disconnecting"
     => device = proc[p].uses

LEMMA ForeignStep ==
  GattIInv /\ [Next]_vars => [KeepsForeign]_vars
<1> SUFFICES ASSUME GattIInv, Next, NEW p \in Calls, proc[p].kind \in Cancellable,
                    proc'[p].pc = "disconnecting", proc[p].pc # "disconnecting"
             PROVE  device = proc[p].uses
  BY DEF vars, KeepsForeign
<1>0. p \in Procs /\ p \notin Handles
  BY CallsAssumption DEF Procs, Handles
<1>1. ASSUME NEW q \in Procs, ProcStep(q)
      PROVE  device = proc[p].uses
  BY <1>0, <1>1, UserCloses
<1>2. ASSUME NEW q \in Calls, Cancel(q)
      PROVE  FALSE
  BY <1>2 DEF Cancel
<1>3. ASSUME NEW q \in Calls, NEW kind \in Kinds[q], Begin(q, kind)
      PROVE  FALSE
  <2>1. PICK l \in {"done", "enter"} : proc' = [proc EXCEPT ![q].kind = kind, ![q].pc = l]
    BY <1>3 DEF Begin
  <2> QED
    BY <1>0, <2>1, ProcFields DEF GattIInv, AnyProc
<1>4. CASE EventStep
  <2>1. proc'[p].pc = proc[p].pc
    <3>1. CASE Invalidate
      <4>1. invalid \in Handles
        BY <3>1 DEF Invalidate, GattIInv, GlobalTypes
      <4> QED
        BY <1>0, <3>1, <4>1 DEF Invalidate, GattIInv
    <3>2. CASE DrainNext \/ \E h \in Handles : LinkDrops(h) \/ DeliverDrop(h)
      BY <3>2 DEF DrainNext, LinkDrops, DeliverDrop
    <3> QED
      BY <1>4, <3>1, <3>2 DEF EventStep
  <2> QED
    BY <2>1
<1> QED
  BY <1>1, <1>2, <1>3, <1>4 DEF Next

\* A cancelled or failed call closes only a session it has itself used, never
\* one that another call has rebuilt meanwhile (connection.go 13-16, 30-35).
THEOREM ForeignSessionsStay ==
  Spec => ForeignSessionKept
<1> QED
  BY ForeignStep, GattInvariant, PTL DEF Spec, ForeignSessionKept, KeepsForeign

-----------------------------------------------------------------------------
(* The session is what SessionOwner says it is.                            *)

\* The sessions reported as dropped, wherever their events have come to.
Told == events \cup {queue[i] : i \in 1..Len(queue)} \cup SetOf(invalid)

\* Nothing is discovered of a session the station does not have, and a session
\* that is reported as dropped has dropped.
OwnerShape ==
  /\ chars => device # None
  /\ Told \subseteq down \cup released

\* What the mapping makes of the processes.
HandsMapped == <<HandOf, Opening>>

LEMMA OwnerStutter ==
  ASSUME UNCHANGED <<device, chars, pending, transportVars>>, UNCHANGED HandsMapped
  PROVE  UNCHANGED Owner!vars
BY DEF Owner!vars, HandsMapped, SetOf, Open, transportVars

\* Nobody takes a session in hand or gives it away.
LEMMA HandsStay ==
  ASSUME NEW p, \A q \in Procs \ {p} : proc'[q] = proc[q],
         p \in Procs => proc[p].pc \notin HandPcs /\ proc'[p].pc \notin HandPcs
  PROVE  UNCHANGED HandsMapped
<1>1. \A q \in Procs : /\ InHandAt(q)' <=> InHandAt(q)
                       /\ InHandAt(q) => proc'[q] = proc[q]
  BY DEF InHandAt
<1>2. HandOf' = HandOf
  BY <1>1 DEF HandOf
<1>3. \A q \in Procs : At(q, "opened")' <=> At(q, "opened")
  BY HandLabels DEF At
<1>4. Opening' = Opening
  BY <1>3 DEF Opening
<1> QED
  BY <1>2, <1>4 DEF HandsMapped

LEMMA HandTakes ==
  ASSUME NEW p \in Procs, Moves(p), proc'[p].pc \in HandPcs, NEW h, proc'[p].h = h
  PROVE  HandOf' = [HandOf EXCEPT ![p] = {h}]
<1>1. /\ \A q \in Procs : q # p => proc'[q] = proc[q]
      /\ InHandAt(p)'
  BY DEF Moves, InHandAt
<1> QED
  BY <1>1 DEF HandOf, InHandAt

LEMMA HandGives ==
  ASSUME NEW p \in Procs, Moves(p), proc'[p].pc \notin HandPcs
  PROVE  HandOf' = [HandOf EXCEPT ![p] = {}]
<1>1. /\ \A q \in Procs : q # p => proc'[q] = proc[q]
      /\ ~(InHandAt(p)')
  BY DEF Moves, InHandAt
<1> QED
  BY <1>1 DEF HandOf, InHandAt

\* A process discovers the services of the station's session only.
LEMMA Discovered ==
  ASSUME GattIInv, NEW p \in Procs, ProcStep(p)
  PROVE  \/ chars' = chars
         \/ chars' = TRUE /\ device' = device /\ device # None
         \/ chars' = FALSE /\ Detach(p)
<1>1. CASE ConnectStep(p) /\ ~Discover(p)
  BY <1>1 DEF ConnectStep, Gate, GateWake, GateCancelled, Connect, GatePassed, StaleClosed,
     Rebuild, OpenOrReuse, OpenSession, Opened, AttemptFailed, GiveUp, RetryClosed, RetryWake,
     Reopen, ProcOnly, sessionVars
<1>2. CASE Discover(p)
  <2>1. device # None
    <3>1. lock = p /\ proc[p].pc = "discover"
      BY <1>2 DEF Discover, Locked, At
    <3> QED
      BY <3>1, KnowsHere DEF Knows
  <2> QED
    BY <1>2, <2>1 DEF Discover, ProcOnly, sessionVars
<1>3. CASE DisconnectStep(p)
  BY <1>3 DEF DisconnectStep, CleanupSucceeds, CleanupFails, Disconnect, Detach,
     DisconnectSucceeds, DisconnectFails, sessionVars
<1>4. CASE CallStep(p)
  BY <1>4 DEF CallStep, Enter, Ensured, Interrupted, RefreshClosed, Fetched, ReleaseDone, Probe,
     Probed, sessionVars
<1>5. CASE EagerCleanup(p) \/ EagerCleaned(p)
  BY <1>5 DEF EagerCleanup, EagerCleaned, sessionVars
<1> QED
  BY <1>1, <1>2, <1>3, <1>4, <1>5 DEF ProcStep

LEMMA OwnerControl ==
  ASSUME GattIInv, OwnerShape, NEW p \in Procs, ProcStep(p), Control(p)
  PROVE  OwnerShape' /\ (Owner!Next \/ UNCHANGED Owner!vars)
<1>1. UNCHANGED <<device, pending, transportVars, eventVars>> /\ UNCHANGED HandsMapped
  BY HandsStay DEF Control, Moves
<1>2. Told' = Told /\ (down \cup released)' = down \cup released
  BY <1>1 DEF Told, eventVars, transportVars
<1>3. chars' = chars \/ (chars' = TRUE /\ device # None)
  <2>1. CASE chars' = FALSE /\ Detach(p)
    <3>1. CASE proc[p].res = "fail"
      BY <2>1, <3>1 DEF Detach, sessionVars
    <3>2. CASE proc[p].res # "fail"
      <4>1. device' = None /\ device' = device
        BY <1>1, <2>1, <3>2 DEF Detach
      <4> QED
        BY <2>1, <4>1 DEF OwnerShape, GattIInv, GlobalTypes
    <3> QED
      BY <3>1, <3>2
  <2> QED
    BY <2>1, Discovered
<1>4. OwnerShape'
  BY <1>1, <1>2, <1>3 DEF OwnerShape
<1>5. CASE chars' = chars
  BY <1>1, <1>4, <1>5, OwnerStutter
<1>6. CASE chars' = TRUE /\ device # None
  <2>1. Owner!Discover
    BY <1>1, <1>6 DEF Owner!Discover, SetOf, HandsMapped, Open, transportVars
  <2> QED
    BY <1>4, <2>1 DEF Owner!Next
<1> QED
  BY <1>3, <1>5, <1>6

\* The steps that take the session in hand, or give it away.
LEMMA OwnerBegins ==
  ASSUME GattIInv, OwnerShape, NEW p \in Procs, Begins(p)
  PROVE  OwnerShape' /\ Owner!Next
<1>1. /\ pending # None /\ Moves(p) /\ proc[p].pc \notin HandPcs
      /\ proc'[p].pc = "cleaning" /\ proc'[p].h = pending
      /\ pending' = None /\ UNCHANGED <<device, chars, transportVars, eventVars>>
  BY DEF Begins
<1>2. OwnerShape'
  BY <1>1 DEF OwnerShape, Told, eventVars, transportVars
<1>3. HandOf' = [HandOf EXCEPT ![p] = SetOf(pending)]
  BY <1>1, HandTakes, HandLabels DEF SetOf
<1>4. Opening' = Opening
  BY <1>1, HandLabels DEF Opening, At, Moves
<1>5. Owner!TakeKept(p)
  BY <1>1, <1>3, <1>4 DEF Owner!TakeKept, SetOf, Open, transportVars
<1> QED
  BY <1>2, <1>5 DEF Owner!Next

LEMMA OwnerOpens ==
  ASSUME GattIInv, OwnerShape, NEW p \in Procs, NewSession(p)
  PROVE  OwnerShape' /\ Owner!Next
<1>1. /\ lock = p /\ proc[p].pc \in {"open", "reopen"} /\ proc[p].res = "ok" /\ device = None
      /\ UNCHANGED <<device, chars, pending, released, down, eventVars>>
      /\ OpenSession(p, "opened")
  BY DEF NewSession, OpenSession, OpenOrReuse, Reopen, Locked, At, sessionVars
<1>2. /\ proc'[p].pc = "opened" /\ proc'[p].h = opened + 1 /\ opened' = opened + 1
      /\ opened \in Nat /\ released \subseteq 1..opened
  BY <1>1, InvTyped, OpenSessionIs, BoundsAssumption DEF Reaches, GlobalTypes
<1>3. Moves(p)
  BY StepShape DEF NewSession, ConnectStep
<1>4. Open = {}
  BY <1>1, KnowsHere DEF Knows
<1>5. Open' = {opened + 1}
  BY <1>1, <1>2, <1>4 DEF Open
<1>6. OwnerShape'
  BY <1>1 DEF OwnerShape, Told, eventVars
<1>7. HandOf' = [HandOf EXCEPT ![p] = {opened + 1}]
  BY <1>2, <1>3, HandTakes, HandLabels
<1>8. Opening'
  BY <1>2 DEF Opening, At
<1>9. Owner!Open(p)
  BY <1>1, <1>2, <1>4, <1>5, <1>7, <1>8 DEF Owner!Open
<1> QED
  BY <1>6, <1>9 DEF Owner!Next

LEMMA OwnerGives ==
  ASSUME GattIInv, OwnerShape, NEW p \in Procs, Opened(p)
  PROVE  OwnerShape' /\ Owner!Next
<1>1. /\ proc[p].pc = "opened" /\ device' = proc[p].h
      /\ UNCHANGED <<chars, pending, transportVars, eventVars>>
  BY DEF Opened, Locked, At
<1>2. Moves(p) /\ proc'[p].pc = "discover"
  BY InvTyped, OpenedIs, StepShape DEF ConnectStep, Reaches
<1>3. /\ InHandAt(p) /\ proc[p].h # None /\ device = None
      /\ \A q \in Procs \ {p} : ~InHandAt(q)
  BY <1>1, HandLabels, ReleasesIt DEF InHandAt
<1>4. OwnerShape'
  BY <1>1, <1>3 DEF OwnerShape, Told, eventVars, transportVars
<1>5. HandOf' = [HandOf EXCEPT ![p] = {}]
  BY <1>2, HeldLabels, HandGives
<1>6. HandOf[p] = {proc[p].h} /\ SetOf(device') = HandOf[p]
  BY <1>1, <1>3 DEF HandOf, SetOf
<1>7. Opening
  BY <1>1 DEF Opening, At
<1>8. Opening' = FALSE
  BY <1>2, <1>3, HandLabels DEF Opening, At, Moves, InHandAt
<1>9. SetOf(device)' = SetOf(device')
  BY DEF SetOf
<1>10. Owner!Give(p)
  BY <1>1, <1>5, <1>6, <1>7, <1>8, <1>9 DEF Owner!Give, SetOf, Open, transportVars
<1> QED
  BY <1>4, <1>10 DEF Owner!Next

LEMMA OwnerTakes ==
  ASSUME GattIInv, OwnerShape, NEW p \in Procs, Detaches(p)
  PROVE  OwnerShape' /\ Owner!Next
<1>1. /\ proc[p].pc = "detach" /\ device # None /\ device' = None /\ chars' = FALSE
      /\ UNCHANGED <<pending, transportVars, eventVars>>
  BY DEF Detaches, Detach, Locked, At
<1>2. PICK x \in CloseReturns \cup CloseBases, s \in Seq(AnyLabels) : proc[p].stack = Push(x, s)
  BY <1>1, CloseFrame DEF ClosePcs
<1>3. proc'[p].pc = "disconnecting" /\ proc'[p].h = device
  BY <1>1, <1>2, InvTyped, BasesTyped, DetachIs DEF Detaches, Reaches
<1>4. Moves(p)
  BY StepShape DEF Detaches, DisconnectStep
<1>5. OwnerShape'
  BY <1>1 DEF OwnerShape, Told, eventVars, transportVars
<1>6. HandOf' = [HandOf EXCEPT ![p] = SetOf(device)]
  BY <1>1, <1>3, <1>4, HandTakes, HandLabels DEF SetOf
<1>7. Opening' = Opening
  BY <1>1, <1>3, <1>4 DEF Opening, At, Moves
<1>8. Owner!TakeHeld(p)
  BY <1>1, <1>6, <1>7 DEF Owner!TakeHeld, SetOf, Open, transportVars
<1> QED
  BY <1>5, <1>8 DEF Owner!Next

LEMMA OwnerCloses ==
  ASSUME GattIInv, OwnerShape, NEW p \in Procs, Closes(p)
  PROVE  OwnerShape' /\ Owner!Next
<1>1. proc[p].pc \in {"cleaning", "disconnecting"} /\ UNCHANGED <<device, chars, opened, eventVars>>
  BY DEF Closes, CleanupSucceeds, CleanupFails, DisconnectSucceeds, DisconnectFails, Unlocked, At
<1>2. PICK x \in GateReturns \cup {"detach", "cleaned"} \cup CloseReturns \cup CloseBases,
           s \in Seq(AnyLabels) : proc[p].stack = Push(x, s)
  BY <1>1, CleaningFrame, CloseFrame DEF ClosePcs
<1>3. proc'[p].pc = x
  BY <1>2, InvTyped, BasesTyped, ClosedIs, NotClosedIs DEF Closes, Reaches
<1>4. Moves(p) /\ proc'[p].pc \notin HandPcs
  BY <1>3, StepShape, HeldLabels DEF Closes, DisconnectStep
<1>5. /\ InHandAt(p) /\ proc[p].h # None /\ Open = {proc[p].h} /\ pending = None
      /\ \A q \in Procs \ {p} : ~InHandAt(q)
  BY <1>1, HandLabels, ReleasesIt DEF InHandAt
<1>6. HandOf' = [HandOf EXCEPT ![p] = {}] /\ HandOf[p] = {proc[p].h}
  BY <1>4, <1>5, HandGives DEF HandOf
<1>7. Opening = FALSE /\ Opening' = FALSE
  BY <1>1, <1>4, <1>5, HandLabels DEF Opening, At, Moves, InHandAt
<1>8. CASE CleanupSucceeds(p) \/ DisconnectSucceeds(p)
  <2>1. Release(proc[p].h) /\ pending' = pending
    BY <1>8 DEF CleanupSucceeds, DisconnectSucceeds
  <2>2. Open' = Open \ {proc[p].h} /\ down' = down \ {proc[p].h}
    BY <1>1, <2>1 DEF Open, Release
  <2>3. OwnerShape'
    BY <1>1, <2>1 DEF OwnerShape, Told, eventVars, Release
  <2>4. Owner!Released(p)
    BY <1>1, <1>6, <1>7, <2>1, <2>2 DEF Owner!Released
  <2> QED
    BY <2>3, <2>4 DEF Owner!Next
<1>9. CASE CleanupFails(p) \/ DisconnectFails(p)
  <2>1. KeepForCleanup(p) /\ UNCHANGED <<released, down>>
    BY <1>9 DEF CleanupFails, DisconnectFails
  <2>2. SetOf(pending)' = {proc[p].h}
    BY <1>5, <2>1 DEF KeepForCleanup, SetOf
  <2>3. OwnerShape'
    BY <1>1, <2>1 DEF OwnerShape, Told, eventVars
  <2>4. Owner!NotReleased(p)
    BY <1>1, <1>6, <1>7, <2>1, <2>2 DEF Owner!NotReleased, Open
  <2> QED
    BY <2>3, <2>4 DEF Owner!Next
<1> QED
  BY <1>8, <1>9 DEF Closes

LEMMA OwnerProc ==
  ASSUME GattIInv, OwnerShape, NEW p \in Procs, ProcStep(p)
  PROVE  OwnerShape' /\ (Owner!Next \/ UNCHANGED Owner!vars)
BY ProcStepKind, OwnerControl, OwnerBegins, OwnerOpens, OwnerGives, OwnerTakes, OwnerCloses
DEF StepKind

\* The calls made and cancelled, and the events.
LEMMA OwnerCalls ==
  ASSUME GattIInv, OwnerShape, NEW p \in Calls, NEW kind, Cancel(p) \/ Begin(p, kind)
  PROVE  OwnerShape' /\ UNCHANGED Owner!vars
<1>1. UNCHANGED <<device, chars, pending, transportVars, eventVars>>
  BY DEF Cancel, Begin, ProcOnly, sessionVars
<1>2. CASE Cancel(p)
  <2>1. UNCHANGED HandsMapped
    BY <1>2 DEF Cancel, HandsMapped, HandOf, Opening, InHandAt, At
  <2> QED
    BY <1>1, <2>1, OwnerStutter DEF OwnerShape, Told, eventVars, transportVars
<1>3. CASE Begin(p, kind)
  <2>1. p \in Procs /\ proc[p].pc = "idle" /\ proc \in [Procs -> AnyProc]
    BY <1>3 DEF Begin, At, GattIInv, Procs
  <2>2. PICK l \in {"done", "enter"} : proc' = [proc EXCEPT ![p].kind = kind, ![p].pc = l]
    BY <1>3 DEF Begin
  <2>3. proc'[p].pc = l /\ \A q \in Procs \ {p} : proc'[q] = proc[q]
    BY <2>1, <2>2, ProcFields DEF AnyProc
  <2>4. UNCHANGED HandsMapped
    BY <2>1, <2>3, HeldLabels, HandLabels, HandsStay
  <2> QED
    BY <1>1, <2>4, OwnerStutter DEF OwnerShape, Told, eventVars, transportVars
<1> QED
  BY <1>2, <1>3

\* Without another step, what is reported as dropped can only become less.
LEMMA OwnerQuiet ==
  ASSUME OwnerShape, UNCHANGED <<device, chars, pending, transportVars, proc>>,
         Told' \subseteq Told
  PROVE  OwnerShape' /\ UNCHANGED Owner!vars
<1>1. UNCHANGED HandsMapped
  BY DEF HandsMapped, HandOf, Opening, InHandAt, At
<1> QED
  BY <1>1, OwnerStutter DEF OwnerShape, transportVars

LEMMA OwnerLink ==
  ASSUME GattIInv, OwnerShape, NEW h \in Handles, LinkDrops(h)
  PROVE  OwnerShape' /\ Owner!Next
<1>1. /\ h \in Open /\ down' = down \cup {h} /\ events' = events \cup {h}
      /\ UNCHANGED <<device, chars, pending, opened, released, queue, invalid, proc>>
  BY DEF LinkDrops, sessionVars
<1>2. Told' = Told \cup {h}
  BY <1>1 DEF Told, SetOf
<1>3. OwnerShape'
  BY <1>1, <1>2 DEF OwnerShape
<1>4. UNCHANGED HandsMapped
  BY <1>1 DEF HandsMapped, HandOf, Opening, InHandAt, At
<1>5. Owner!LinkDrops(h)
  BY <1>1, <1>4 DEF Owner!LinkDrops, SetOf, Open, HandsMapped
<1> QED
  BY <1>1, <1>3, <1>5 DEF Owner!Next

LEMMA OwnerDelivery ==
  ASSUME GattIInv, OwnerShape, NEW h \in Handles, DeliverDrop(h)
  PROVE  OwnerShape' /\ UNCHANGED Owner!vars
<1>1. /\ h \in events /\ events' = events \ {h} /\ queue \in Seq(Handles)
      /\ queue' = Append(queue, h) \/ queue' = queue
      /\ UNCHANGED <<device, chars, pending, transportVars, proc, invalid>>
  BY DEF DeliverDrop, sessionVars, GattIInv, GlobalTypes
<1>2. {queue'[i] : i \in 1..Len(queue')} \subseteq {queue[i] : i \in 1..Len(queue)} \cup {h}
  BY <1>1
<1>3. Told' \subseteq Told
  BY <1>1, <1>2 DEF Told, SetOf
<1> QED
  BY <1>1, <1>3, OwnerQuiet

LEMMA OwnerDrain ==
  ASSUME GattIInv, OwnerShape, DrainNext
  PROVE  OwnerShape' /\ UNCHANGED Owner!vars
<1>1. UNCHANGED <<device, chars, pending, transportVars, proc, events>>
  BY DEF DrainNext, sessionVars
<1>2. Told' \subseteq Told
  <2>1. CASE queue = << >>
    BY <1>1, <2>1 DEF DrainNext, Told, SetOf
  <2>2. CASE queue # << >>
    <3>1. /\ queue \in Seq(Handles) /\ Len(queue) >= 1
          /\ invalid' = queue[1] /\ queue' = Tail(queue)
      BY <2>2 DEF DrainNext, GattIInv, GlobalTypes
    <3>2. {queue'[i] : i \in 1..Len(queue')} \subseteq {queue[i] : i \in 1..Len(queue)}
      BY <3>1
    <3>3. SetOf(invalid)' \subseteq {queue[i] : i \in 1..Len(queue)}
      BY <3>1 DEF SetOf
    <3> QED
      BY <1>1, <3>2, <3>3 DEF Told
  <2> QED
    BY <2>1, <2>2
<1> QED
  BY <1>1, <1>2, OwnerQuiet

LEMMA OwnerDetaches ==
  ASSUME GattIInv, OwnerShape, Invalidate
  PROVE  OwnerShape' /\ (Owner!Next \/ UNCHANGED Owner!vars)
<1>1. /\ invalid \in Handles /\ invalid # None /\ invalid' = None
      /\ UNCHANGED <<transportVars, events, queue>>
  BY DEF Invalidate, GattIInv, GlobalTypes, Handles, None
<1>2. Told' \subseteq Told
  BY <1>1 DEF Told, SetOf
<1>3. CASE device # invalid
  <2>1. UNCHANGED <<device, chars, pending, proc>>
    BY <1>3 DEF Invalidate, sessionVars
  <2> QED
    BY <1>1, <1>2, <2>1, OwnerQuiet
<1>4. CASE device = invalid
  <2>1. /\ pending' = device /\ device' = None /\ chars' = FALSE
        /\ proc' = [proc EXCEPT ![invalid].pc = "sweeping", ![invalid].kind = "dropped"]
    BY <1>4 DEF Invalidate
  <2>2. proc[invalid].pc = "idle" /\ proc \in [Procs -> AnyProc] /\ invalid \in Procs
    BY <1>1, <1>4 DEF GattIInv, Started, Procs
  <2>3. proc'[invalid].pc = "sweeping" /\ \A q \in Procs \ {invalid} : proc'[q] = proc[q]
    BY <2>1, <2>2, ProcFields DEF AnyProc
  <2>4. UNCHANGED HandsMapped
    BY <2>2, <2>3, HeldLabels, HandsStay DEF HandPcs
  <2>5. device \in Open
    BY <1>1, <1>4 DEF GattIInv, Place
  <2>6. device \in down
    BY <1>1, <1>4, <2>5 DEF OwnerShape, Told, SetOf, Open
  <2>7. OwnerShape'
    BY <1>1, <1>2, <2>1 DEF OwnerShape, transportVars
  <2>8. Owner!Detach
    BY <1>1, <1>4, <2>1, <2>4, <2>6 DEF Owner!Detach, SetOf, Open, transportVars, HandsMapped
  <2> QED
    BY <2>7, <2>8 DEF Owner!Next
<1> QED
  BY <1>3, <1>4

LEMMA OwnerStep ==
  GattIInv /\ OwnerShape /\ [Next]_vars => OwnerShape' /\ [Owner!Next]_(Owner!vars)
<1> SUFFICES ASSUME GattIInv, OwnerShape, [Next]_vars
             PROVE  OwnerShape' /\ (Owner!Next \/ UNCHANGED Owner!vars)
  OBVIOUS
<1>1. ASSUME NEW p \in Procs, ProcStep(p)
      PROVE  OwnerShape' /\ (Owner!Next \/ UNCHANGED Owner!vars)
  BY <1>1, OwnerProc
<1>2. ASSUME NEW p \in Calls, NEW kind \in Kinds[p], Cancel(p) \/ Begin(p, kind)
      PROVE  OwnerShape' /\ UNCHANGED Owner!vars
  BY <1>2, OwnerCalls
<1>3. ASSUME NEW p \in Calls, Cancel(p)
      PROVE  OwnerShape' /\ UNCHANGED Owner!vars
  BY <1>3, OwnerCalls
<1>4. CASE EventStep
  BY <1>4, OwnerLink, OwnerDelivery, OwnerDrain, OwnerDetaches DEF EventStep
<1>5. CASE UNCHANGED vars
  <2>1. UNCHANGED <<device, chars, pending, transportVars, proc>> /\ Told' = Told
    BY <1>5 DEF vars, sessionVars, eventVars, Told, SetOf
  <2> QED
    BY <2>1, OwnerQuiet
<1> QED
  BY <1>1, <1>2, <1>3, <1>4, <1>5 DEF Next

LEMMA OwnerStarts ==
  Init => OwnerShape /\ Owner!Init
<1> SUFFICES ASSUME Init PROVE OwnerShape /\ Owner!Init
  OBVIOUS
<1>1. OwnerShape
  BY DEF Init, OwnerShape, Told, SetOf
<1>2. \A p \in Procs : proc[p].pc = "idle"
  BY DEF Init, Idle
<1>3. HandOf = [p \in Procs |-> {}] /\ Opening = FALSE
  BY <1>2, HandLabels DEF HandOf, Opening, InHandAt, At, HandPcs
<1> QED
  BY <1>1, <1>3 DEF Init, Owner!Init, SetOf, Open

\* The code's session is the abstract one: opened when none is open, handed from
\* its opener to the station and on to whoever closes it, detached by an event
\* only when its own link has dropped, and used only while the station has it
\* (connection.go 443-447, 478-484; model.go 57-61; runtime.go 297-325).
THEOREM SessionRefinement ==
  Spec => ImplementsSessionOwner
<1> QED
  BY OwnerStarts, OwnerStep, GattInvariant, PTL DEF Spec, ImplementsSessionOwner, Owner!Spec

=============================================================================
