-------------------------- MODULE StationCommandProofs --------------------------
(***************************************************************************)
(* Proofs that a command which may have been sent is never sent again, that *)
(* one reported as unsent never reached the station, that its confirmation  *)
(* ends, and that commands beside the other calls keep the one session of   *)
(* the station: for every number of calls, attempts, polls and extensions.  *)
(***************************************************************************)
EXTENDS StationCommand, GattSessionProofs

CmdKinds == {"on", "standby", "sleep", "channel", "identify"}
Verdicts == {"none", "confirmed", "sent", "unsent"}
CmdType ==
  [attempt : Nat, poll : Nat, budget : Nat, errors : Nat, extended : Nat,
   outer : BOOLEAN, detached : BOOLEAN, verdict : Verdicts]

\* The labels before the first byte, those between the two bytes of a sleep, and
\* those of the confirmation.
FreshLabels ==
  {"idle", "enterCommand", "attempt", "commandConnected", "gaveUp", "backoff", "backoffWait",
   "write", "channelConnected", "channelRead", "channelWrite"}
PairLabels == {"gap", "pairRebuilt", "finalWrite"}
PollLabels == {"pollWait", "pollRead", "pollClosed", "pollReopen", "pollReopened"}
SentLabels == {"confirm", "poll", "sleepDropped", "lastRead"} \cup PollLabels
CommandPcs == FreshLabels \cup PairLabels \cup SentLabels \cup {"done"}
CommandConnects == {"commandConnected", "pairRebuilt", "pollReopened", "channelConnected"}
CommandCloses == {"gaveUp", "backoff", "sleepDropped", "pollClosed"}

\* The command is at label b, or in a procedure it has called there.
Stands(r, b) ==
  \/ Back(r, b)
  \/ b \in CommandConnects /\ InConnect(r, b)
  \/ b \in CommandCloses /\ InClose(r, b)

Untouched(p) == \A byte \in Bytes : wrote[p][byte] = 0 /\ <<p, byte>> \notin reached
FirstBudget == IF FallbackAttempts > ConfirmAttempts THEN FallbackAttempts ELSE ConfirmAttempts

\* What has been sent and read by a command that is at label b.
Sending(p, b) ==
  /\ b \in FreshLabels => Untouched(p)
  /\ b \in PairLabels => wrote[p]["final"] = 0
  /\ \A byte \in Bytes : wrote[p][byte] <= 1
  /\ IF b = "done" THEN cmd[p].verdict = "unsent" => Untouched(p) ELSE cmd[p].verdict = "none"
Trying(p, b) ==
  /\ cmd[p].attempt <= WriteAttempts
  /\ b # "attempt" => cmd[p].attempt < WriteAttempts
Polling(p, b) ==
  /\ cmd[p].poll <= cmd[p].budget
  /\ cmd[p].budget <= FirstBudget + cmd[p].extended * FallbackAttempts
  /\ cmd[p].extended <= MaxExtensions
  /\ b \in FreshLabels \cup PairLabels \cup {"confirm"} =>
        cmd[p].poll = 0 /\ cmd[p].extended = 0
  /\ b \in PollLabels => cmd[p].poll < cmd[p].budget
Progress(p, b) == Sending(p, b) /\ Trying(p, b) /\ Polling(p, b)

CmdTypes ==
  /\ cmd \in [CommandCalls -> CmdType] /\ wrote \in [CommandCalls -> [Bytes -> Nat]]
  /\ reached \subseteq CommandCalls \X Bytes

Known(p) ==
  /\ \E b \in CommandPcs : Stands(proc[p], b) /\ Progress(p, b)
  /\ proc[p].pc # "idle" => proc[p].kind \in CmdKinds

CommandIInv ==
  /\ GattIInv /\ CmdTypes
  /\ \A p \in CommandCalls : Known(p)

-----------------------------------------------------------------------------
(* A command at a label of its own.                                        *)

LEMMA Calling ==
  ASSUME NEW p \in CommandCalls
  PROVE  p \in Procs /\ p \in Calls /\ p \notin Handles /\ p # NoOne
BY CallsAssumption, CommandAssumption DEF Procs, Handles

LEMMA CommandLabelsTyped ==
  /\ CommandLabels \subseteq TopPcs /\ CommandLabels \subseteq AnyLabels
  /\ CommandLabels \cap HandPcs = {} /\ "idle" \notin CommandLabels /\ "done" \notin CommandLabels
  /\ CommandPcs = CommandLabels \cup {"idle", "done"}
  /\ CommandConnects \subseteq ConnectBases /\ CommandConnects \subseteq CommandLabels
  /\ CommandCloses \subseteq CloseBases /\ CommandCloses \subseteq CommandLabels
  /\ CmdKinds \subseteq AnyKinds /\ CmdKinds \cap OwnKinds = {} /\ CmdKinds \cap Cancellable = {}
BY DEF CommandLabels, TopPcs, AnyLabels, HandPcs, CommandPcs, FreshLabels, PairLabels, SentLabels,
   PollLabels, CommandConnects, ConnectBases, CommandCloses, CloseBases, CmdKinds, AnyKinds,
   OwnKinds, SessionKinds, Cancellable

\* The labels a command waits at without the lock of the station.
WaitLabels == {"enterCommand", "backoffWait", "gap", "pollWait", "pollReopen"}

LEMMA CommandHeld ==
  /\ CommandLabels \ WaitLabels \subseteq LockedPcs \ HandPcs
  /\ WaitLabels \cap (LockedPcs \cup HandPcs) = {}
  /\ {"connect", "disconnect"} \subseteq LockedPcs \ HandPcs /\ "done" \notin LockedPcs \cup HandPcs
BY HeldLabels DEF CommandLabels, WaitLabels, LockedPcs, UnlockedPcs, AnyLabels, HandPcs

LEMMA AtLabel ==
  ASSUME CommandIInv, NEW p \in CommandCalls, proc[p].pc \in CommandLabels
  PROVE  /\ Progress(p, proc[p].pc) /\ proc[p].kind \in CmdKinds
         /\ proc[p].stack = NoFrames /\ proc[p].tries <= DiscoveryAttempts
<1>1. p \in Procs /\ proc[p].pc \in TopPcs /\ proc[p].pc # "idle"
  BY Calling, CommandLabelsTyped
<1>2. proc[p].stack = NoFrames /\ proc[p].tries <= DiscoveryAttempts
  BY <1>1, TopFrame DEF CommandIInv
<1>3. PICK b \in CommandPcs : Stands(proc[p], b) /\ Progress(p, b)
  BY DEF CommandIInv, Known
<1>4. proc[p].pc = b
  BY <1>3 DEF Stands, Back, InConnect, InClose, ConnectBody, GatePcs, ClosePcs, CommandLabels
<1> QED
  BY <1>1, <1>2, <1>3, <1>4 DEF CommandIInv, Known

LEMMA CmdFields ==
  ASSUME CommandIInv, NEW p \in CommandCalls
  PROVE  /\ cmd[p] \in CmdType /\ wrote[p] \in [Bytes -> Nat]
         /\ cmd[p].attempt \in Nat /\ cmd[p].poll \in Nat /\ cmd[p].budget \in Nat
         /\ cmd[p].errors \in Nat /\ cmd[p].extended \in Nat /\ cmd[p].outer \in BOOLEAN
         /\ cmd[p].detached \in BOOLEAN /\ cmd[p].verdict \in Verdicts
BY DEF CommandIInv, CmdTypes, CmdType

LEMMA PolicyTyped ==
  /\ WriteAttempts \in Nat \ {0} /\ ConfirmAttempts \in Nat \ {0} /\ FallbackAttempts \in Nat
  /\ MaxExtensions \in Nat /\ FirstBudget \in Nat
  /\ ConfirmAttempts <= FirstBudget /\ FallbackAttempts <= FirstBudget
BY CommandAssumption DEF FirstBudget

-----------------------------------------------------------------------------
(* Steps of one command.                                                   *)

\* The other commands are where they were.
OthersKeep(p) ==
  \A q \in CommandCalls \ {p} :
     /\ cmd'[q] = cmd[q] /\ wrote'[q] = wrote[q]
     /\ \A byte \in Bytes : <<q, byte>> \in reached' <=> <<q, byte>> \in reached

LEMMA CommandMoves ==
  ASSUME CommandIInv, NEW p \in CommandCalls, GattIInv', Moves(p), CmdTypes', OthersKeep(p),
         Known(p)'
  PROVE  CommandIInv'
<1>1. ASSUME NEW q \in CommandCalls, q # p
      PROVE  Known(q)'
  <2>1. proc'[q] = proc[q]
    BY <1>1, Calling DEF Moves
  <2>2. /\ cmd'[q] = cmd[q] /\ wrote'[q] = wrote[q]
        /\ \A byte \in Bytes : <<q, byte>> \in reached' <=> <<q, byte>> \in reached
    BY <1>1 DEF OthersKeep
  <2>3. Known(q)
    BY DEF CommandIInv
  <2>4. ASSUME NEW b, Stands(proc[q], b), Progress(q, b)
        PROVE  Stands(proc[q], b)' /\ Progress(q, b)'
    <3>1. Stands(proc[q], b)'
      BY <2>1, <2>4 DEF Stands, Back, InConnect, InClose
    <3>2. Untouched(q)' <=> Untouched(q)
      BY <2>2 DEF Untouched
    <3>3. Progress(q, b)'
      BY <2>2, <2>4, <3>2 DEF Progress, Sending, Trying, Polling
    <3> QED
      BY <3>1, <3>3
  <2> QED
    BY <2>1, <2>3, <2>4 DEF Known
<1> QED
  BY <1>1 DEF CommandIInv

\* Where a step of the command leads: the label it goes on at, with the lock as
\* that label wants it.
Lands(p, b) ==
  /\ Moves(p) /\ SameCall(p) /\ b \in CommandPcs /\ Stands(proc'[p], b)
  /\ proc'[p].pc \in CommandLabels \cup {"connect", "disconnect", "done"}
  /\ lock' = IF proc'[p].pc \in WaitLabels \cup {"done"} THEN NoOne ELSE p

LEMMA StandsFrames ==
  ASSUME NEW r, NEW b \in CommandPcs, Stands(r, b)
  PROVE  Frames(r, TopPcs, ConnectBases, CloseBases)
<1>1. b \in TopPcs
  BY CommandLabelsTyped DEF TopPcs, OwnPcs
<1> QED
  BY <1>1, CommandLabelsTyped DEF Stands, Frames, Back

\* A step outside the procedures leaves the session where it is.
LEMMA LandsControl ==
  ASSUME CommandIInv, NEW p \in CommandCalls, proc[p].pc \in CommandLabels,
         lock \in {p, NoOne}, NEW b, Lands(p, b),
         UNCHANGED <<sessionVars, transportVars, eventVars>>, ctxDone' \subseteq Calls
  PROVE  Control(p)
<1>1. proc[p].kind \in CmdKinds /\ proc'[p].kind \in CmdKinds
  BY AtLabel DEF Lands, SameCall
<1>2. ProcShape(proc'[p])
  BY <1>1, StandsFrames, CommandLabelsTyped DEF ProcShape, Lands, CommandLabels
<1>3. Knows(proc'[p])
  BY <1>1, CommandLabelsTyped DEF Knows, Lands, CommandLabels
<1>4. proc'[p].pc \in LockedPcs <=> lock' = p
  BY CommandHeld, Calling DEF Lands
<1>5. proc[p].pc \notin HandPcs /\ proc'[p].pc \notin HandPcs /\ lock' \in {p, NoOne}
  BY CommandHeld, CommandLabelsTyped DEF Lands
<1>6. chars \in BOOLEAN /\ connected \in BOOLEAN /\ tracked \in BOOLEAN
  BY DEF CommandIInv, GattIInv, GlobalTypes
<1> QED
  BY <1>2, <1>3, <1>4, <1>5, <1>6, CommandLabelsTyped DEF Control, Lands, sessionVars

LEMMA CommandSteps ==
  ASSUME CommandIInv, NEW p \in CommandCalls, proc[p].pc \in CommandLabels,
         lock \in {p, NoOne}, NEW b, Lands(p, b),
         UNCHANGED <<sessionVars, transportVars, eventVars>>, ctxDone' \subseteq Calls,
         CmdTypes', OthersKeep(p), Progress(p, b)'
  PROVE  CommandIInv'
<1>1. Control(p)
  BY LandsControl
<1>2. GattIInv'
  BY <1>1, Calling, ControlKeeps DEF CommandIInv
<1>3. Known(p)'
  <2>1. proc'[p].kind \in CmdKinds
    BY AtLabel DEF Lands, SameCall
  <2>2. Stands(proc[p], b)'
    BY DEF Lands, Stands, Back, InConnect, InClose
  <2> QED
    BY <2>1, <2>2 DEF Known, Lands
<1> QED
  BY <1>2, <1>3, CommandMoves DEF Lands

\* A step that leaves the progress as it was.
LEMMA Proceeds ==
  ASSUME CommandIInv, NEW p \in CommandCalls, proc[p].pc \in CommandLabels,
         lock \in {p, NoOne}, NEW b, Lands(p, b), SessionSame, UNCHANGED cmdVars,
         Progress(p, b)
  PROVE  CommandIInv'
<1>1. cmd' = cmd /\ wrote' = wrote /\ reached' = reached
  BY DEF cmdVars
<1>2. CmdTypes' /\ OthersKeep(p)
  BY <1>1 DEF CommandIInv, CmdTypes, OthersKeep
<1>3. Progress(p, b)'
  BY <1>1 DEF Progress, Sending, Trying, Polling, Untouched
<1>4. UNCHANGED <<sessionVars, transportVars, eventVars>> /\ ctxDone' \subseteq Calls
  BY DEF SessionSame, CommandIInv, GattIInv, GlobalTypes
<1> QED
  BY <1>2, <1>3, <1>4, CommandSteps

-----------------------------------------------------------------------------
(* Where the steps of a procedure lead a command.                          *)

LEMMA Goes ==
  ASSUME CommandIInv, NEW p \in CommandCalls, proc[p].pc \in CommandLabels,
         NEW l \in CommandLabels, Goto(p, l), lock' = IF l \in WaitLabels THEN NoOne ELSE p
  PROVE  Lands(p, l)
<1>1. proc \in [Procs -> AnyProc] /\ p \in Procs /\ l \in AnyLabels
  BY Calling, CommandLabelsTyped DEF CommandIInv, GattIInv
<1>2. /\ Moves(p) /\ proc'[p].pc = l /\ proc'[p].stack = NoFrames
      /\ proc'[p].kind = proc[p].kind /\ proc'[p].tries = proc[p].tries
  BY <1>1, GotoIs, AtLabel
<1> QED
  BY <1>2, AtLabel, CommandLabelsTyped DEF Lands, Stands, Back, SameCall

LEMMA Connects ==
  ASSUME CommandIInv, NEW p \in CommandCalls, proc[p].pc \in CommandLabels,
         NEW l \in CommandConnects, Call(p, "connect", l), lock' = p
  PROVE  Lands(p, l)
<1>1. proc \in [Procs -> AnyProc] /\ p \in Procs /\ l \in AnyLabels /\ "connect" \in AnyLabels
  BY Calling, CommandLabelsTyped, LabelsTyped DEF CommandIInv, GattIInv
<1>2. /\ Moves(p) /\ proc'[p].pc = "connect" /\ proc'[p].stack = Only(l)
      /\ proc'[p].kind = proc[p].kind /\ proc'[p].tries = proc[p].tries
  BY <1>1, CallIs, AtLabel DEF Only
<1>3. "connect" \notin WaitLabels
  BY DEF WaitLabels
<1> QED
  BY <1>2, <1>3, AtLabel, CommandLabelsTyped DEF Lands, Stands, InConnect, SameCall

LEMMA JumpIs ==
  ASSUME proc \in [Procs -> AnyProc], NEW p \in Procs, NEW l \in AnyLabels,
         NEW s \in Seq(AnyLabels), proc' = [proc EXCEPT ![p].pc = l, ![p].stack = s]
  PROVE  /\ Moves(p) /\ proc'[p].pc = l /\ proc'[p].stack = s
         /\ proc'[p].kind = proc[p].kind /\ proc'[p].tries = proc[p].tries
BY ProcFields DEF Moves, AnyProc

LEMMA JumpUsingIs ==
  ASSUME proc \in [Procs -> AnyProc], NEW p \in Procs, NEW l \in AnyLabels,
         NEW s \in Seq(AnyLabels), NEW u \in 0..MaxHandles,
         proc' = [proc EXCEPT ![p].pc = l, ![p].uses = u, ![p].stack = s]
  PROVE  /\ Moves(p) /\ proc'[p].pc = l /\ proc'[p].stack = s
         /\ proc'[p].kind = proc[p].kind /\ proc'[p].tries = proc[p].tries
BY ProcFields, ZenonT(40) DEF Moves, AnyProc

\* A command that closes the session, in any of the ways it is written.
LEMMA ClosesThen ==
  ASSUME CommandIInv, NEW p \in CommandCalls, proc[p].pc \in CommandLabels, NEW l \in CommandCloses,
         \/ Call(p, "disconnect", l)
         \/ proc' = [proc EXCEPT ![p].pc = "disconnect", ![p].stack = <<l>>]
         \/ proc' = [proc EXCEPT ![p].pc = "disconnect", ![p].uses = device, ![p].stack = <<l>>],
         lock' = p
  PROVE  Lands(p, l)
<1>1. /\ proc \in [Procs -> AnyProc] /\ p \in Procs /\ l \in AnyLabels /\ "disconnect" \in AnyLabels
      /\ device \in 0..MaxHandles
  BY Calling, CommandLabelsTyped, LabelsTyped DEF CommandIInv, GattIInv, GlobalTypes
<1>2. Only(l) \in Seq(AnyLabels) /\ <<l>> = Only(l)
  BY <1>1, OneFrame
<1>3. /\ Moves(p) /\ proc'[p].pc = "disconnect" /\ proc'[p].stack = Only(l)
      /\ proc'[p].kind = proc[p].kind /\ proc'[p].tries = proc[p].tries
  <2>1. CASE Call(p, "disconnect", l)
    BY <1>1, <2>1, CallIs, AtLabel DEF Only
  <2>2. CASE proc' = [proc EXCEPT ![p].pc = "disconnect", ![p].stack = <<l>>]
    BY <1>1, <1>2, <2>2, JumpIs
  <2>3. CASE proc' = [proc EXCEPT ![p].pc = "disconnect", ![p].uses = device, ![p].stack = <<l>>]
    BY <1>1, <1>2, <2>3, JumpUsingIs
  <2> QED
    BY <2>1, <2>2, <2>3
<1>4. "disconnect" \notin WaitLabels
  BY DEF WaitLabels
<1> QED
  BY <1>3, <1>4, AtLabel, CommandLabelsTyped DEF Lands, Stands, InClose, ClosePcs, SameCall

\* The last step of a command, which may have been its last write.
LEMMA Settles ==
  ASSUME CommandIInv, NEW p \in CommandCalls, proc[p].pc \in CommandLabels,
         lock \in {p, NoOne}, NEW v \in Verdicts \ {"none"}, Settle(p, v), SessionSame,
         wrote' \in [CommandCalls -> [Bytes -> Nat]], reached' \subseteq CommandCalls \X Bytes,
         \A q \in CommandCalls \ {p} :
            /\ wrote'[q] = wrote[q]
            /\ \A byte \in Bytes : <<q, byte>> \in reached' <=> <<q, byte>> \in reached,
         \A byte \in Bytes : wrote'[p][byte] <= 1,
         v = "unsent" => Untouched(p)'
  PROVE  CommandIInv'
<1>1. PICK i \in AnyProc : i = Idle
  BY IdleTyped
<1>2. PICK k \in CmdKinds : k = proc[p].kind
  BY AtLabel
<1>3. PICK e : e = [i EXCEPT !.pc = "done", !.kind = k]
  OBVIOUS
<1>4. /\ e \in AnyProc /\ e.pc = "done" /\ e.stack = NoFrames /\ e.kind = k /\ e.tries = 0
  <2>1. "done" \in AnyLabels /\ k \in AnyKinds
    BY <1>2, CommandLabelsTyped, LabelsTyped
  <2>2. i.stack = NoFrames /\ i.tries = 0
    BY <1>1, IdleTyped
  <2> QED
    BY <1>3, <2>1, <2>2 DEF AnyProc
<1>5. proc' = [proc EXCEPT ![p] = e]
  BY <1>1, <1>2, <1>3, Zenon DEF Settle, Kind
<1>6. /\ Moves(p) /\ proc'[p] = e
  <2>1. proc \in [Procs -> AnyProc] /\ p \in Procs
    BY Calling DEF CommandIInv, GattIInv
  <2> QED
    BY <1>4, <1>5, <2>1 DEF Moves
<1>7. Lands(p, "done")
  <2>1. 0 <= DiscoveryAttempts /\ "done" \in CommandPcs
    BY BoundsAssumption, CommandLabelsTyped
  <2> QED
    BY <1>2, <1>4, <1>6, <2>1 DEF Lands, Stands, Back, SameCall, Settle
<1>8. PICK n : n = NoCommand
  OBVIOUS
<1>9. /\ n \in CmdType /\ n.attempt = 0 /\ n.poll = 0 /\ n.budget = 0 /\ n.extended = 0
  BY <1>8 DEF NoCommand, CmdType, Verdicts
<1>10. cmd' = [cmd EXCEPT ![p] = [n EXCEPT !.verdict = v]]
  BY <1>8 DEF Settle
<1>11. PICK d : d = [n EXCEPT !.verdict = v]
  OBVIOUS
<1>12. /\ d \in CmdType /\ d.attempt = 0 /\ d.poll = 0 /\ d.budget = 0 /\ d.extended = 0
       /\ d.verdict = v
  BY <1>9, <1>11 DEF CmdType
<1>13. /\ cmd' \in [CommandCalls -> CmdType] /\ cmd'[p] = d
       /\ \A q \in CommandCalls \ {p} : cmd'[q] = cmd[q]
  BY <1>10, <1>11, <1>12 DEF CommandIInv, CmdTypes
<1>14. CmdTypes' /\ OthersKeep(p)
  BY <1>13 DEF CmdTypes, OthersKeep
<1>15. Progress(p, "done")'
  <2>1. Sending(p, "done")'
    BY <1>12, <1>13 DEF Sending, FreshLabels, PairLabels
  <2>2. Trying(p, "done")'
    BY <1>12, <1>13, PolicyTyped DEF Trying
  <2>3. Polling(p, "done")'
    <3>1. 0 * FallbackAttempts = 0
      BY PolicyTyped
    <3> QED
      BY <1>12, <1>13, <3>1, PolicyTyped DEF Polling, FreshLabels, PairLabels, PollLabels
  <2> QED
    BY <2>1, <2>2, <2>3 DEF Progress
<1>16. UNCHANGED <<sessionVars, transportVars, eventVars>> /\ ctxDone' \subseteq Calls
  BY DEF SessionSame, CommandIInv, GattIInv, GlobalTypes
<1> QED
  BY <1>7, <1>14, <1>15, <1>16, CommandSteps

\* A command that ends without a write.
LEMMA SettlesUntouched ==
  ASSUME CommandIInv, NEW p \in CommandCalls, proc[p].pc \in FreshLabels \ {"idle"},
         lock \in {p, NoOne}, NEW v \in Verdicts \ {"none"}, Settle(p, v), SessionSame, NothingWritten
  PROVE  CommandIInv'
<1>1. proc[p].pc \in CommandLabels
  BY DEF FreshLabels, CommandLabels
<1>2. wrote' = wrote /\ reached' = reached
  BY DEF NothingWritten
<1>3. Untouched(p) /\ \A byte \in Bytes : wrote[p][byte] <= 1
  BY <1>1, AtLabel DEF Progress, Sending
<1>4. wrote' \in [CommandCalls -> [Bytes -> Nat]] /\ reached' \subseteq CommandCalls \X Bytes
  BY <1>2 DEF CommandIInv, CmdTypes
<1>5. Untouched(p)'
  BY <1>2, <1>3 DEF Untouched
<1> QED
  BY <1>1, <1>2, <1>3, <1>4, <1>5, Settles

LEMMA SettlesSent ==
  ASSUME CommandIInv, NEW p \in CommandCalls, proc[p].pc \in CommandLabels,
         lock \in {p, NoOne}, NEW v \in {"sent", "confirmed"}, Settle(p, v), SessionSame,
         NothingWritten
  PROVE  CommandIInv'
<1>1. wrote' = wrote /\ reached' = reached /\ v \in Verdicts \ {"none"} /\ v # "unsent"
  BY DEF NothingWritten, Verdicts
<1>2. \A byte \in Bytes : wrote[p][byte] <= 1
  BY AtLabel DEF Progress, Sending
<1>3. wrote' \in [CommandCalls -> [Bytes -> Nat]] /\ reached' \subseteq CommandCalls \X Bytes
  BY <1>1 DEF CommandIInv, CmdTypes
<1> QED
  BY <1>1, <1>2, <1>3, Settles

\* One byte is sent, or may have been, by a command that has not sent it yet.
LEMMA Sends ==
  ASSUME CommandIInv, NEW p \in CommandCalls, NEW byte \in Bytes,
         Count(p, byte), Reach(p, byte) \/ UNCHANGED reached, wrote[p][byte] = 0,
         \A other \in Bytes : wrote[p][other] <= 1
  PROVE  /\ wrote' \in [CommandCalls -> [Bytes -> Nat]] /\ reached' \subseteq CommandCalls \X Bytes
         /\ \A q \in CommandCalls \ {p} :
               /\ wrote'[q] = wrote[q]
               /\ \A other \in Bytes : <<q, other>> \in reached' <=> <<q, other>> \in reached
         /\ \A other \in Bytes : wrote'[p][other] <= 1
         /\ \A other \in Bytes \ {byte} : wrote'[p][other] = wrote[p][other]
<1>1. /\ wrote \in [CommandCalls -> [Bytes -> Nat]] /\ reached \subseteq CommandCalls \X Bytes
  BY DEF CommandIInv, CmdTypes
<1>2. wrote' = [wrote EXCEPT ![p][byte] = wrote[p][byte] + 1]
  BY DEF Count
<1>3. /\ wrote' \in [CommandCalls -> [Bytes -> Nat]] /\ wrote'[p][byte] = 1
      /\ \A q \in CommandCalls \ {p} : wrote'[q] = wrote[q]
      /\ \A other \in Bytes \ {byte} : wrote'[p][other] = wrote[p][other]
  BY <1>1, <1>2
<1>4. reached' \in {reached, reached \cup {<<p, byte>>}}
  BY DEF Reach
<1>5. /\ reached' \subseteq CommandCalls \X Bytes
      /\ \A q \in CommandCalls \ {p}, other \in Bytes :
           <<q, other>> \in reached' <=> <<q, other>> \in reached
  BY <1>1, <1>4
<1> QED
  BY <1>3, <1>5

-----------------------------------------------------------------------------
(* Before the first byte.                                                  *)

LEMMA Fresh ==
  ASSUME NEW p, NEW b \in FreshLabels, NEW l \in FreshLabels,
         Progress(p, b), l = "attempt" \/ cmd[p].attempt < WriteAttempts
  PROVE  Progress(p, l)
BY DEF Progress, Sending, Trying, Polling, FreshLabels, PairLabels, PollLabels

LEMMA FreshTyped ==
  /\ FreshLabels \ {"idle"} \subseteq CommandLabels
  /\ "unsent" \in Verdicts \ {"none"}
BY DEF FreshLabels, CommandLabels, Verdicts

\* Most steps before the first byte leave the progress alone.
LEMMA FreshStep ==
  ASSUME CommandIInv, NEW p \in CommandCalls, proc[p].pc \in FreshLabels \ {"idle", "attempt"},
         lock \in {p, NoOne}, SessionSame, NothingWritten,
         \/ Settle(p, "unsent")
         \/ \E l \in FreshLabels : Lands(p, l) /\ UNCHANGED cmd
  PROVE  CommandIInv'
<1>1. Progress(p, proc[p].pc) /\ proc[p].pc \in CommandLabels
  BY FreshTyped, AtLabel
<1>2. CASE Settle(p, "unsent")
  BY <1>2, FreshTyped, SettlesUntouched
<1>3. CASE \E l \in FreshLabels : Lands(p, l) /\ UNCHANGED cmd
  <2>1. PICK l \in FreshLabels : Lands(p, l) /\ UNCHANGED cmd
    BY <1>3
  <2>2. cmd[p].attempt < WriteAttempts
    BY <1>1 DEF Progress, Trying
  <2>3. Progress(p, l)
    BY <1>1, <2>2, Fresh
  <2> QED
    BY <1>1, <2>1, <2>3, Proceeds DEF NothingWritten, cmdVars
<1> QED
  BY <1>2, <1>3

LEMMA EnterCommandKeeps ==
  ASSUME CommandIInv, NEW p \in CommandCalls, EnterCommand(p)
  PROVE  CommandIInv'
<1>1. /\ proc[p].pc = "enterCommand" /\ lock = NoOne /\ SessionSame /\ NothingWritten
      /\ proc[p].pc \in FreshLabels \ {"idle", "attempt"} /\ proc[p].pc \in CommandLabels
  BY DEF EnterCommand, Unlocked, At, FreshLabels, CommandLabels
<1>2. CASE Settle(p, "unsent")
  BY <1>1, <1>2, FreshStep
<1>3. CASE lock' = p /\ UNCHANGED cmd /\ Call(p, "connect", "channelConnected")
  <2>1. "channelConnected" \in CommandConnects /\ "channelConnected" \in FreshLabels
    BY DEF CommandConnects, FreshLabels
  <2> QED
    BY <1>1, <1>3, <2>1, Connects, FreshStep
<1>4. CASE lock' = p /\ UNCHANGED cmd /\ Goto(p, "attempt")
  <2>1. "attempt" \in CommandLabels \ WaitLabels /\ "attempt" \in FreshLabels
    BY DEF CommandLabels, WaitLabels, FreshLabels
  <2> QED
    BY <1>1, <1>4, <2>1, Goes, FreshStep
<1> QED
  BY <1>2, <1>3, <1>4 DEF EnterCommand

LEMMA AttemptKeeps ==
  ASSUME CommandIInv, NEW p \in CommandCalls, Attempt(p)
  PROVE  CommandIInv'
<1>1. /\ proc[p].pc = "attempt" /\ lock = p /\ SessionSame /\ NothingWritten
      /\ proc[p].pc \in FreshLabels \ {"idle"} /\ proc[p].pc \in CommandLabels
  BY DEF Attempt, Locked, At, FreshLabels, CommandLabels
<1>2. CASE Settle(p, "unsent")
  BY <1>1, <1>2, FreshTyped, SettlesUntouched
<1>3. CASE /\ cmd[p].attempt < WriteAttempts
           /\ Call(p, "connect", "commandConnected") /\ UNCHANGED <<lock, cmd>>
  <2>1. "commandConnected" \in CommandConnects /\ "commandConnected" \in FreshLabels
    BY DEF CommandConnects, FreshLabels
  <2>2. Progress(p, "commandConnected")
    BY <1>1, <1>3, <2>1, AtLabel, Fresh
  <2>3. lock \in {p, NoOne} /\ UNCHANGED cmdVars
    BY <1>1, <1>3 DEF NothingWritten, cmdVars
  <2>4. Lands(p, "commandConnected")
    BY <1>1, <1>3, <2>1, Connects
  <2> QED
    BY <1>1, <2>2, <2>3, <2>4, Proceeds
<1> QED
  BY <1>2, <1>3 DEF Attempt

LEMMA ClosesFresh ==
  {"gaveUp", "backoff"} \subseteq CommandCloses /\ {"gaveUp", "backoff"} \subseteq FreshLabels
BY DEF CommandCloses, FreshLabels

LEMMA CommandConnectedKeeps ==
  ASSUME CommandIInv, NEW p \in CommandCalls, CommandConnected(p)
  PROVE  CommandIInv'
<1>1. /\ proc[p].pc = "commandConnected" /\ lock = p /\ SessionSame /\ NothingWritten
      /\ proc[p].pc \in FreshLabels \ {"idle", "attempt"} /\ proc[p].pc \in CommandLabels
  BY DEF CommandConnected, Locked, At, FreshLabels, CommandLabels
<1>2. CASE Settle(p, "unsent")
  BY <1>1, <1>2, FreshStep
<1>3. CASE (\E l \in {"gaveUp", "backoff"} : Call(p, "disconnect", l)) /\ UNCHANGED <<lock, cmd>>
  BY <1>1, <1>3, ClosesFresh, ClosesThen, FreshStep
<1>4. CASE Goto(p, "write") /\ UNCHANGED <<lock, cmd>>
  <2>1. "write" \in CommandLabels \ WaitLabels /\ "write" \in FreshLabels
    BY DEF CommandLabels, WaitLabels, FreshLabels
  <2> QED
    BY <1>1, <1>4, <2>1, Goes, FreshStep
<1> QED
  BY <1>2, <1>3, <1>4 DEF CommandConnected

LEMMA GaveUpKeeps ==
  ASSUME CommandIInv, NEW p \in CommandCalls, GaveUp(p)
  PROVE  CommandIInv'
<1>1. /\ proc[p].pc = "gaveUp" /\ lock = p /\ SessionSame /\ NothingWritten
      /\ proc[p].pc \in FreshLabels \ {"idle", "attempt"} /\ Settle(p, "unsent")
  BY DEF GaveUp, Locked, At, FreshLabels
<1> QED
  BY <1>1, FreshStep

LEMMA BackoffKeeps ==
  ASSUME CommandIInv, NEW p \in CommandCalls, Backoff(p)
  PROVE  CommandIInv'
<1>1. /\ proc[p].pc = "backoff" /\ lock = p /\ SessionSame /\ NothingWritten
      /\ proc[p].pc \in FreshLabels \ {"idle", "attempt"} /\ proc[p].pc \in CommandLabels
      /\ lock' = NoOne /\ Goto(p, "backoffWait") /\ UNCHANGED cmd
  BY DEF Backoff, Locked, At, FreshLabels, CommandLabels
<1>2. "backoffWait" \in CommandLabels /\ "backoffWait" \in WaitLabels /\ "backoffWait" \in FreshLabels
  BY DEF CommandLabels, WaitLabels, FreshLabels
<1> QED
  BY <1>1, <1>2, Goes, FreshStep

\* The progress of one command changes, and nothing is written.
LEMMA Counts ==
  ASSUME CommandIInv, NEW p \in CommandCalls, NEW c \in CmdType, cmd' = [cmd EXCEPT ![p] = c],
         NothingWritten
  PROVE  /\ CmdTypes' /\ OthersKeep(p) /\ cmd'[p] = c
         /\ wrote' = wrote /\ reached' = reached
BY DEF CommandIInv, CmdTypes, OthersKeep, NothingWritten

LEMMA BackoffWakeKeeps ==
  ASSUME CommandIInv, NEW p \in CommandCalls, BackoffWake(p)
  PROVE  CommandIInv'
<1>1. /\ proc[p].pc = "backoffWait" /\ lock = NoOne /\ SessionSame /\ NothingWritten
      /\ proc[p].pc \in FreshLabels \ {"idle", "attempt"} /\ proc[p].pc \in CommandLabels
  BY DEF BackoffWake, Unlocked, At, FreshLabels, CommandLabels
<1>2. CASE Settle(p, "unsent")
  BY <1>1, <1>2, FreshStep
<1>3. CASE lock' = p /\ cmd' = [cmd EXCEPT ![p].attempt = @ + 1] /\ Goto(p, "attempt")
  <2>1. "attempt" \in CommandLabels \ WaitLabels /\ "attempt" \in FreshLabels
    BY DEF CommandLabels, WaitLabels, FreshLabels
  <2>2. Lands(p, "attempt")
    BY <1>1, <1>3, <2>1, Goes
  <2>3. PICK c : c = [cmd[p] EXCEPT !.attempt = cmd[p].attempt + 1]
    OBVIOUS
  <2>4. /\ c \in CmdType /\ c.attempt = cmd[p].attempt + 1 /\ c.poll = cmd[p].poll
        /\ c.budget = cmd[p].budget /\ c.extended = cmd[p].extended /\ c.verdict = cmd[p].verdict
    BY <2>3, CmdFields DEF CmdType
  <2>5. /\ CmdTypes' /\ OthersKeep(p) /\ cmd'[p] = c /\ wrote' = wrote /\ reached' = reached
    BY <1>1, <1>3, <2>3, <2>4, Counts
  <2>6. Progress(p, "backoffWait")
    BY <1>1, AtLabel
  <2>7. Progress(p, "attempt")'
    <3>1. Untouched(p)' <=> Untouched(p)
      BY <2>5 DEF Untouched
    <3>2. cmd'[p].attempt <= WriteAttempts
      BY <2>4, <2>5, <2>6, CmdFields, PolicyTyped DEF Progress, Trying
    <3> QED
      BY <2>4, <2>5, <2>6, <3>1, <3>2
      DEF Progress, Sending, Trying, Polling, FreshLabels, PairLabels, PollLabels
  <2>8. UNCHANGED <<sessionVars, transportVars, eventVars>> /\ ctxDone' \subseteq Calls
    BY <1>1 DEF SessionSame, CommandIInv, GattIInv, GlobalTypes
  <2> QED
    BY <1>1, <2>2, <2>5, <2>7, <2>8, CommandSteps
<1> QED
  BY <1>2, <1>3 DEF BackoffWake

LEMMA ChannelConnectedKeeps ==
  ASSUME CommandIInv, NEW p \in CommandCalls, ChannelConnected(p)
  PROVE  CommandIInv'
<1>1. /\ proc[p].pc = "channelConnected" /\ lock = p /\ SessionSame /\ NothingWritten
      /\ proc[p].pc \in FreshLabels \ {"idle", "attempt"} /\ proc[p].pc \in CommandLabels
  BY DEF ChannelConnected, Locked, At, FreshLabels, CommandLabels
<1>2. CASE Settle(p, "unsent")
  BY <1>1, <1>2, FreshStep
<1>3. CASE Call(p, "disconnect", "gaveUp") /\ UNCHANGED <<lock, cmd>>
  BY <1>1, <1>3, ClosesFresh, ClosesThen, FreshStep
<1>4. CASE Goto(p, "channelRead") /\ UNCHANGED <<lock, cmd>>
  <2>1. "channelRead" \in CommandLabels \ WaitLabels /\ "channelRead" \in FreshLabels
    BY DEF CommandLabels, WaitLabels, FreshLabels
  <2> QED
    BY <1>1, <1>4, <2>1, Goes, FreshStep
<1> QED
  BY <1>2, <1>3, <1>4 DEF ChannelConnected

LEMMA ChannelReadKeeps ==
  ASSUME CommandIInv, NEW p \in CommandCalls, ChannelRead(p)
  PROVE  CommandIInv'
<1>1. /\ proc[p].pc = "channelRead" /\ lock = p /\ SessionSame /\ NothingWritten
      /\ proc[p].pc \in FreshLabels \ {"idle", "attempt"} /\ proc[p].pc \in CommandLabels
  BY DEF ChannelRead, Locked, At, FreshLabels, CommandLabels
<1>2. CASE Settle(p, "unsent")
  BY <1>1, <1>2, FreshStep
<1>3. CASE Call(p, "disconnect", "gaveUp") /\ UNCHANGED <<lock, cmd>>
  BY <1>1, <1>3, ClosesFresh, ClosesThen, FreshStep
<1>4. CASE Goto(p, "channelWrite") /\ UNCHANGED <<lock, cmd>>
  <2>1. "channelWrite" \in CommandLabels \ WaitLabels /\ "channelWrite" \in FreshLabels
    BY DEF CommandLabels, WaitLabels, FreshLabels
  <2> QED
    BY <1>1, <1>4, <2>1, Goes, FreshStep
<1> QED
  BY <1>2, <1>3, <1>4 DEF ChannelRead

LEMMA ChannelUnsentKeeps ==
  ASSUME CommandIInv, NEW p \in CommandCalls, ChannelUnsent(p)
  PROVE  CommandIInv'
<1>1. /\ proc[p].pc = "channelWrite" /\ lock = p /\ SessionSame /\ NothingWritten
      /\ proc[p].pc \in FreshLabels \ {"idle", "attempt"} /\ proc[p].pc \in CommandLabels
  BY DEF ChannelUnsent, Locked, At, FreshLabels, CommandLabels
<1>2. CASE Settle(p, "unsent")
  BY <1>1, <1>2, FreshStep
<1>3. CASE Call(p, "disconnect", "gaveUp") /\ UNCHANGED <<lock, cmd>>
  BY <1>1, <1>3, ClosesFresh, ClosesThen, FreshStep
<1> QED
  BY <1>2, <1>3 DEF ChannelUnsent

LEMMA WriteUnsentKeeps ==
  ASSUME CommandIInv, NEW p \in CommandCalls, WriteUnsent(p)
  PROVE  CommandIInv'
<1>1. /\ proc[p].pc = "write" /\ lock = p /\ SessionSame /\ NothingWritten
      /\ proc[p].pc \in FreshLabels \ {"idle", "attempt"} /\ proc[p].pc \in CommandLabels
  BY DEF WriteUnsent, Locked, At, FreshLabels, CommandLabels
<1>2. CASE Settle(p, "unsent")
  BY <1>1, <1>2, FreshStep
<1>3. CASE proc' = [proc EXCEPT ![p].pc = "backoff"] /\ UNCHANGED <<lock, cmd>>
  <2>1. "backoff" \in CommandLabels \ WaitLabels /\ "backoff" \in FreshLabels
    BY DEF CommandLabels, WaitLabels, FreshLabels
  <2>2. Goto(p, "backoff")
    BY <1>3 DEF Goto
  <2> QED
    BY <1>1, <1>3, <2>1, <2>2, Goes, FreshStep
<1>4. CASE /\ \E l \in {"gaveUp", "backoff"} :
                 proc' = [proc EXCEPT ![p].pc = "disconnect", ![p].stack = <<l>>]
           /\ UNCHANGED <<lock, cmd>>
  BY <1>1, <1>4, ClosesFresh, ClosesThen, FreshStep
<1>5. \E l \in {"gaveUp", "backoff"} : l = IF LastAttempt(p) THEN "gaveUp" ELSE "backoff"
  OBVIOUS
<1> QED
  BY <1>2, <1>3, <1>4, <1>5 DEF WriteUnsent

-----------------------------------------------------------------------------
(* The writes.                                                             *)

\* A first byte, whatever is known of it.
LEMMA WritesFirst ==
  ASSUME CommandIInv, NEW p \in CommandCalls, proc[p].pc \in {"write", "channelWrite"}, lock = p,
         NEW byte \in Bytes, Count(p, byte), Reach(p, byte) \/ UNCHANGED reached, SessionSame,
         \/ Settle(p, "sent")
         \/ Lands(p, "confirm") /\ UNCHANGED cmd
         \/ Lands(p, "gap") /\ UNCHANGED cmd /\ byte = "prepare"
  PROVE  CommandIInv'
<1>1. proc[p].pc \in CommandLabels /\ proc[p].pc \in FreshLabels /\ proc[p].pc # "attempt"
      /\ proc[p].pc # "done"
  BY DEF CommandLabels, FreshLabels
<1>2. Progress(p, proc[p].pc)
  BY <1>1, AtLabel
<1>3. \A other \in Bytes : wrote[p][other] = 0 /\ wrote[p][other] <= 1
  BY <1>1, <1>2 DEF Progress, Sending, Untouched
<1>4. /\ wrote' \in [CommandCalls -> [Bytes -> Nat]] /\ reached' \subseteq CommandCalls \X Bytes
      /\ \A q \in CommandCalls \ {p} :
            /\ wrote'[q] = wrote[q]
            /\ \A other \in Bytes : <<q, other>> \in reached' <=> <<q, other>> \in reached
      /\ \A other \in Bytes : wrote'[p][other] <= 1
      /\ \A other \in Bytes \ {byte} : wrote'[p][other] = wrote[p][other]
  BY <1>3, Sends
<1>5. CASE Settle(p, "sent")
  <2>1. "sent" \in Verdicts \ {"none"}
    BY DEF Verdicts
  <2> QED
    BY <1>1, <1>4, <1>5, <2>1, Settles
<1>6. CASE \E b \in {"confirm", "gap"} :
              Lands(p, b) /\ UNCHANGED cmd /\ (b = "gap" => byte = "prepare")
  <2>1. PICK b \in {"confirm", "gap"} :
           Lands(p, b) /\ UNCHANGED cmd /\ (b = "gap" => byte = "prepare")
    BY <1>6
  <2>2. CmdTypes' /\ OthersKeep(p)
    BY <1>4, <2>1 DEF CommandIInv, CmdTypes, OthersKeep
  <2>3. Progress(p, b)'
    <3>1. b = "gap" => wrote'[p]["final"] = 0
      BY <1>3, <1>4, <2>1 DEF Bytes
    <3> QED
      BY <1>1, <1>2, <1>4, <2>1, <3>1
      DEF Progress, Sending, Trying, Polling, FreshLabels, PairLabels, PollLabels
  <2>4. UNCHANGED <<sessionVars, transportVars, eventVars>> /\ ctxDone' \subseteq Calls
    BY DEF SessionSame, CommandIInv, GattIInv, GlobalTypes
  <2> QED
    BY <1>1, <2>1, <2>2, <2>3, <2>4, CommandSteps
<1> QED
  BY <1>5, <1>6

LEMMA AfterWrite ==
  /\ "confirm" \in CommandLabels \ WaitLabels /\ "gap" \in CommandLabels /\ "gap" \in WaitLabels
  /\ "final" \in Bytes /\ "prepare" \in Bytes
BY DEF CommandLabels, WaitLabels, Bytes

LEMMA WriteKeeps ==
  ASSUME CommandIInv, NEW p \in CommandCalls, Write(p) \/ WriteAmbiguous(p)
  PROVE  CommandIInv'
<1>1. /\ proc[p].pc = "write" /\ lock = p /\ SessionSame /\ Count(p, FirstByte(p))
      /\ Reach(p, FirstByte(p)) \/ UNCHANGED reached
      /\ proc[p].pc \in CommandLabels /\ FirstByte(p) \in Bytes
      /\ Kind(p) = "sleep" => FirstByte(p) = "prepare"
  BY DEF Write, WriteAmbiguous, Written, PossiblySent, Locked, At, CommandLabels, FirstByte, Bytes
<1>2. \/ Settle(p, "sent")
      \/ Goto(p, "confirm") /\ UNCHANGED <<lock, cmd>>
      \/ Goto(p, "gap") /\ lock' = NoOne /\ UNCHANGED cmd /\ Kind(p) = "sleep"
  BY DEF Write, WriteAmbiguous
<1>3. CASE Settle(p, "sent")
  BY <1>1, <1>3, WritesFirst
<1>4. CASE Goto(p, "confirm") /\ UNCHANGED <<lock, cmd>>
  BY <1>1, <1>4, AfterWrite, Goes, WritesFirst
<1>5. CASE Goto(p, "gap") /\ lock' = NoOne /\ UNCHANGED cmd /\ Kind(p) = "sleep"
  BY <1>1, <1>5, AfterWrite, Goes, WritesFirst
<1> QED
  BY <1>2, <1>3, <1>4, <1>5

LEMMA ChannelWriteKeeps ==
  ASSUME CommandIInv, NEW p \in CommandCalls, ChannelWrite(p)
  PROVE  CommandIInv'
<1>1. /\ proc[p].pc = "channelWrite" /\ lock = p /\ SessionSame /\ Count(p, "final")
      /\ Reach(p, "final") \/ UNCHANGED reached
      /\ proc[p].pc \in CommandLabels /\ Goto(p, "confirm") /\ UNCHANGED <<lock, cmd>>
  BY DEF ChannelWrite, Written, PossiblySent, Locked, At, CommandLabels
<1> QED
  BY <1>1, AfterWrite, Goes, WritesFirst

\* The pair of a sleep: the context changes hands, the progress stays.
LEMMA PairStep ==
  ASSUME CommandIInv, NEW p \in CommandCalls, proc[p].pc \in PairLabels, lock \in {p, NoOne},
         NEW c \in CmdType, cmd' = [cmd EXCEPT ![p] = c],
         c.attempt = cmd[p].attempt, c.poll = cmd[p].poll, c.budget = cmd[p].budget,
         c.extended = cmd[p].extended, c.verdict = cmd[p].verdict,
         NEW b \in PairLabels \cup {"confirm"}, Lands(p, b),
         UNCHANGED <<sessionVars, transportVars, eventVars>>, ctxDone' \subseteq Calls,
         \/ NothingWritten
         \/ /\ Count(p, "final") /\ (Reach(p, "final") \/ UNCHANGED reached)
            /\ b = "confirm"
  PROVE  CommandIInv'
<1>1. proc[p].pc \in CommandLabels /\ proc[p].pc \notin FreshLabels
      /\ proc[p].pc \notin {"done", "attempt"}
  BY DEF CommandLabels, PairLabels, FreshLabels
<1>2. Progress(p, proc[p].pc)
  BY <1>1, AtLabel
<1>3. /\ wrote' \in [CommandCalls -> [Bytes -> Nat]] /\ reached' \subseteq CommandCalls \X Bytes
      /\ \A q \in CommandCalls \ {p} :
            /\ wrote'[q] = wrote[q]
            /\ \A other \in Bytes : <<q, other>> \in reached' <=> <<q, other>> \in reached
      /\ \A other \in Bytes : wrote'[p][other] <= 1
      /\ b # "confirm" => wrote'[p]["final"] = 0
  <2>1. wrote[p]["final"] = 0 /\ \A other \in Bytes : wrote[p][other] <= 1
    BY <1>2 DEF Progress, Sending
  <2>2. CASE NothingWritten
    BY <2>1, <2>2 DEF NothingWritten, CommandIInv, CmdTypes
  <2>3. CASE Count(p, "final") /\ (Reach(p, "final") \/ UNCHANGED reached) /\ b = "confirm"
    <3>1. "final" \in Bytes
      BY AfterWrite
    <3> QED
      BY <2>1, <2>3, <3>1, Sends
  <2> QED
    BY <2>2, <2>3
<1>4. cmd' \in [CommandCalls -> CmdType] /\ cmd'[p] = c
      /\ \A q \in CommandCalls \ {p} : cmd'[q] = cmd[q]
  BY DEF CommandIInv, CmdTypes
<1>5. CmdTypes' /\ OthersKeep(p)
  BY <1>3, <1>4 DEF CmdTypes, OthersKeep
<1>6. Progress(p, b)'
  <2>1. b \notin FreshLabels \cup PollLabels \cup {"done", "attempt"}
        /\ (b \in PairLabels => b # "confirm")
    BY DEF FreshLabels, PairLabels, PollLabels
  <2>2. Sending(p, b)'
    BY <1>1, <1>2, <1>3, <1>4, <2>1 DEF Progress, Sending
  <2>3. Trying(p, b)' /\ Polling(p, b)'
    BY <1>1, <1>2, <1>4, <2>1 DEF Progress, Trying, Polling
  <2> QED
    BY <2>2, <2>3 DEF Progress
<1> QED
  BY <1>1, <1>5, <1>6, CommandSteps

LEMMA CtxTyped ==
  ASSUME CommandIInv
  PROVE  ctxDone \subseteq Calls
BY DEF CommandIInv, GattIInv, GlobalTypes

LEMMA GapEndsKeeps ==
  ASSUME CommandIInv, NEW p \in CommandCalls, GapEnds(p)
  PROVE  CommandIInv'
<1>1. /\ proc[p].pc = "gap" /\ lock = NoOne /\ lock' = p /\ NothingWritten
      /\ ctxDone' = ctxDone \ {p} /\ UNCHANGED <<sessionVars, transportVars, eventVars>>
      /\ proc[p].pc \in CommandLabels /\ proc[p].pc \in PairLabels
  BY DEF GapEnds, Unlocked, At, CommandLabels, PairLabels
<1>2. PICK f \in BOOLEAN : f = (p \in ctxDone)
  <2>1. CASE p \in ctxDone
    <3>1. (p \in ctxDone) = TRUE
      BY <2>1
    <3> QED
      BY <3>1
  <2>2. CASE p \notin ctxDone
    <3>1. (p \in ctxDone) = FALSE
      BY <2>2
    <3> QED
      BY <3>1
  <2> QED
    BY <2>1, <2>2
<1>3. cmd' = [cmd EXCEPT ![p].outer = f, ![p].detached = TRUE]
  BY <1>2 DEF GapEnds, CtxDone
<1>4. PICK c : c = [cmd[p] EXCEPT !.outer = f, !.detached = TRUE]
  OBVIOUS
<1>5. /\ c \in CmdType /\ c.attempt = cmd[p].attempt /\ c.poll = cmd[p].poll
      /\ c.budget = cmd[p].budget /\ c.extended = cmd[p].extended /\ c.verdict = cmd[p].verdict
  BY <1>4, CmdFields DEF CmdType
<1>6. cmd' = [cmd EXCEPT ![p] = c]
  BY <1>3, <1>4 DEF CommandIInv, CmdTypes
<1>7. \E b \in PairLabels : Lands(p, b)
  <2>1. CASE Goto(p, "finalWrite")
    <3>1. "finalWrite" \in CommandLabels \ WaitLabels /\ "finalWrite" \in PairLabels
      BY DEF CommandLabels, WaitLabels, PairLabels
    <3> QED
      BY <1>1, <2>1, <3>1, Goes
  <2>2. CASE Call(p, "connect", "pairRebuilt")
    <3>1. "pairRebuilt" \in CommandConnects /\ "pairRebuilt" \in PairLabels
      BY DEF CommandConnects, PairLabels
    <3> QED
      BY <1>1, <2>2, <3>1, Connects
  <2> QED
    BY <2>1, <2>2 DEF GapEnds
<1>8. ctxDone' \subseteq Calls
  BY <1>1, CtxTyped
<1> QED
  BY <1>1, <1>5, <1>6, <1>7, <1>8, PairStep

LEMMA Reattached ==
  ASSUME CommandIInv, NEW p \in CommandCalls, Reattach(p)
  PROVE  /\ ctxDone' \subseteq Calls
         /\ \E c \in CmdType :
               /\ cmd' = [cmd EXCEPT ![p] = c] /\ c.attempt = cmd[p].attempt /\ c.poll = cmd[p].poll
               /\ c.budget = cmd[p].budget /\ c.extended = cmd[p].extended
               /\ c.verdict = cmd[p].verdict
<1>1. PICK c : c = [cmd[p] EXCEPT !.detached = FALSE]
  OBVIOUS
<1>2. /\ c \in CmdType /\ c.attempt = cmd[p].attempt /\ c.poll = cmd[p].poll
      /\ c.budget = cmd[p].budget /\ c.extended = cmd[p].extended /\ c.verdict = cmd[p].verdict
  BY <1>1, CmdFields DEF CmdType
<1>3. cmd' = [cmd EXCEPT ![p] = c]
  BY <1>1 DEF Reattach, CommandIInv, CmdTypes
<1>4. ctxDone' \subseteq Calls
  BY CtxTyped, Calling DEF Reattach
<1> QED
  BY <1>2, <1>3, <1>4

LEMMA PairRebuiltKeeps ==
  ASSUME CommandIInv, NEW p \in CommandCalls, PairRebuilt(p)
  PROVE  CommandIInv'
<1>1. /\ proc[p].pc = "pairRebuilt" /\ lock = p /\ lock' = p /\ NothingWritten
      /\ UNCHANGED <<sessionVars, transportVars, eventVars>>
      /\ proc[p].pc \in CommandLabels /\ proc[p].pc \in PairLabels
  BY DEF PairRebuilt, Locked, At, CommandLabels, PairLabels
<1>2. CASE Goto(p, "finalWrite") /\ UNCHANGED <<cmd, ctxDone>>
  <2>1. "finalWrite" \in CommandLabels \ WaitLabels /\ "finalWrite" \in PairLabels
    BY DEF CommandLabels, WaitLabels, PairLabels
  <2>2. Lands(p, "finalWrite")
    BY <1>1, <1>2, <2>1, Goes
  <2>3. PICK c \in CmdType : c = cmd[p]
    BY CmdFields
  <2>4. cmd' = [cmd EXCEPT ![p] = c]
    BY <1>2, <2>3 DEF CommandIInv, CmdTypes
  <2>5. ctxDone' \subseteq Calls
    BY <1>2, CtxTyped
  <2> QED
    BY <1>1, <2>1, <2>2, <2>3, <2>4, <2>5, PairStep
<1>3. CASE Goto(p, "confirm") /\ Reattach(p)
  <2>1. Lands(p, "confirm")
    BY <1>1, <1>3, AfterWrite, Goes
  <2> QED
    BY <1>1, <1>3, <2>1, Reattached, PairStep
<1> QED
  BY <1>2, <1>3 DEF PairRebuilt

LEMMA FinalWriteKeeps ==
  ASSUME CommandIInv, NEW p \in CommandCalls, FinalWrite(p)
  PROVE  CommandIInv'
<1>1. /\ proc[p].pc = "finalWrite" /\ lock = p /\ lock' = p
      /\ UNCHANGED <<sessionVars, transportVars, eventVars>>
      /\ proc[p].pc \in CommandLabels /\ proc[p].pc \in PairLabels
      /\ Goto(p, "confirm") /\ Reattach(p)
  BY DEF FinalWrite, Locked, At, CommandLabels, PairLabels
<1>2. Lands(p, "confirm")
  BY <1>1, AfterWrite, Goes
<1>3. \/ NothingWritten
      \/ Count(p, "final") /\ (Reach(p, "final") \/ UNCHANGED reached)
  BY DEF FinalWrite, Written, PossiblySent
<1> QED
  BY <1>1, <1>2, <1>3, Reattached, PairStep

-----------------------------------------------------------------------------
(* The confirmation.                                                       *)

LEMMA SentTyped ==
  /\ SentLabels \subseteq CommandLabels /\ SentLabels \cap (FreshLabels \cup PairLabels) = {}
  /\ SentLabels \cap {"attempt", "done"} = {} /\ PollLabels \subseteq SentLabels
  /\ {"poll", "lastRead", "sleepDropped", "confirm"} \subseteq SentLabels \ PollLabels
  /\ {"poll", "lastRead", "sleepDropped", "confirm"} \cap WaitLabels = {}
BY DEF SentLabels, PollLabels, CommandLabels, FreshLabels, PairLabels, WaitLabels

\* A read, or a reconnect, that the confirmation counts.
LEMMA PollCounts ==
  ASSUME CommandIInv, NEW p \in CommandCalls, proc[p].pc \in SentLabels, lock \in {p, NoOne},
         SessionSame, NothingWritten, NEW c \in CmdType, cmd' = [cmd EXCEPT ![p] = c],
         c.attempt = cmd[p].attempt, c.verdict = cmd[p].verdict, c.poll <= c.budget,
         c.budget <= FirstBudget + c.extended * FallbackAttempts, c.extended <= MaxExtensions,
         Lands(p, "poll")
  PROVE  CommandIInv'
<1>1. proc[p].pc \in CommandLabels /\ Progress(p, proc[p].pc) /\ "poll" \in SentLabels \ PollLabels
  BY SentTyped, AtLabel
<1>2. CmdTypes' /\ OthersKeep(p) /\ cmd'[p] = c /\ wrote' = wrote /\ reached' = reached
  BY Counts
<1>3. Progress(p, "poll")'
  <2>1. Sending(p, "poll")'
    BY <1>1, <1>2, SentTyped DEF Progress, Sending
  <2>2. Trying(p, "poll")'
    BY <1>1, <1>2, SentTyped DEF Progress, Trying
  <2>3. Polling(p, "poll")'
    BY <1>1, <1>2, SentTyped DEF Polling
  <2> QED
    BY <2>1, <2>2, <2>3 DEF Progress
<1>4. UNCHANGED <<sessionVars, transportVars, eventVars>> /\ ctxDone' \subseteq Calls
  BY CtxTyped DEF SessionSame
<1> QED
  BY <1>1, <1>2, <1>3, <1>4, CommandSteps

\* A step of the confirmation that counts nothing.
LEMMA PollGoes ==
  ASSUME CommandIInv, NEW p \in CommandCalls, proc[p].pc \in SentLabels, lock \in {p, NoOne},
         SessionSame, NothingWritten, UNCHANGED cmd, NEW b \in SentLabels \ {"confirm"}, Lands(p, b),
         b \in PollLabels => cmd[p].poll < cmd[p].budget
  PROVE  CommandIInv'
<1>1. proc[p].pc \in CommandLabels /\ Progress(p, proc[p].pc)
  BY SentTyped, AtLabel
<1>2. Progress(p, b)
  BY <1>1, SentTyped DEF Progress, Sending, Trying, Polling
<1>3. UNCHANGED cmdVars
  BY DEF cmdVars, NothingWritten
<1> QED
  BY <1>1, <1>2, <1>3, Proceeds

LEMMA PollsOverKeeps ==
  ASSUME CommandIInv, NEW p \in CommandCalls, proc[p].pc \in SentLabels, lock \in {p, NoOne},
         SessionSame, NothingWritten, PollsOver(p), Kind(p) = "channel" => lock' = p
  PROVE  CommandIInv'
<1>1. proc[p].pc \in CommandLabels
  BY SentTyped
<1>2. CASE Kind(p) = "channel"
  <2>1. Goto(p, "lastRead") /\ UNCHANGED cmd /\ lock' = p
    BY <1>2 DEF PollsOver
  <2>2. "lastRead" \in CommandLabels \ WaitLabels /\ "lastRead" \in SentLabels \ (PollLabels \cup {"confirm"})
    BY DEF CommandLabels, WaitLabels, SentLabels, PollLabels
  <2> QED
    BY <1>1, <2>1, <2>2, Goes, PollGoes
<1>3. CASE Kind(p) # "channel"
  BY <1>1, <1>3, SettlesSent DEF PollsOver
<1> QED
  BY <1>2, <1>3

LEMMA ConfirmKeeps ==
  ASSUME CommandIInv, NEW p \in CommandCalls, Confirm(p)
  PROVE  CommandIInv'
<1>1. /\ proc[p].pc = "confirm" /\ lock = p /\ SessionSame /\ NothingWritten
      /\ proc[p].pc \in CommandLabels /\ proc[p].pc \in SentLabels
  BY DEF Confirm, Locked, At, CommandLabels, SentLabels
<1>2. CASE Settle(p, "sent")
  BY <1>1, <1>2, SettlesSent
<1>3. CASE /\ cmd' = [cmd EXCEPT
                 ![p].budget = IF Kind(p) = "on" /\ FallbackAttempts > ConfirmAttempts
                               THEN FallbackAttempts ELSE ConfirmAttempts]
           /\ Goto(p, "poll") /\ UNCHANGED lock
  <2>1. PICK n \in Nat : /\ n <= FirstBudget
                         /\ n = IF Kind(p) = "on" /\ FallbackAttempts > ConfirmAttempts
                                THEN FallbackAttempts ELSE ConfirmAttempts
    BY PolicyTyped
  <2>2. PICK c : c = [cmd[p] EXCEPT !.budget = n]
    OBVIOUS
  <2>3. /\ c \in CmdType /\ c.attempt = cmd[p].attempt /\ c.poll = cmd[p].poll
        /\ c.budget = n /\ c.extended = cmd[p].extended /\ c.verdict = cmd[p].verdict
    BY <2>2, CmdFields DEF CmdType
  <2>4. cmd' = [cmd EXCEPT ![p] = c]
    BY <1>3, <2>1, <2>2 DEF CommandIInv, CmdTypes
  <2>5. Progress(p, "confirm")
    BY <1>1, AtLabel
  <2>6. c.poll = 0 /\ c.extended = 0
    BY <2>3, <2>5 DEF Progress, Polling
  <2>7. /\ c.poll <= c.budget /\ c.budget <= FirstBudget + c.extended * FallbackAttempts
        /\ c.extended <= MaxExtensions
    <3>1. 0 * FallbackAttempts = 0
      BY PolicyTyped
    <3> QED
      BY <2>1, <2>3, <2>6, <3>1, PolicyTyped
  <2>8. Lands(p, "poll")
    BY <1>1, <1>3, SentTyped, Goes
  <2> QED
    BY <1>1, <2>3, <2>4, <2>7, <2>8, PollCounts
<1> QED
  BY <1>2, <1>3 DEF Confirm

LEMMA PollKeeps ==
  ASSUME CommandIInv, NEW p \in CommandCalls, Poll(p)
  PROVE  CommandIInv'
<1>1. /\ proc[p].pc = "poll" /\ lock = p /\ SessionSame /\ NothingWritten
      /\ proc[p].pc \in CommandLabels /\ proc[p].pc \in SentLabels
  BY DEF Poll, Locked, At, CommandLabels, SentLabels
<1>2. CASE PollsOver(p) /\ (Kind(p) = "channel" => UNCHANGED lock)
  BY <1>1, <1>2, PollsOverKeeps
<1>3. CASE /\ cmd[p].poll < cmd[p].budget /\ UNCHANGED cmd
           /\ \/ Goto(p, "pollRead") /\ UNCHANGED lock
              \/ Goto(p, "pollWait") /\ lock' = NoOne
  <2>1. \E b \in {"pollRead", "pollWait"} : Lands(p, b)
    <3>1. "pollRead" \in CommandLabels \ WaitLabels /\ "pollWait" \in CommandLabels
          /\ "pollWait" \in WaitLabels
      BY DEF CommandLabels, WaitLabels
    <3> QED
      BY <1>1, <1>3, <3>1, Goes
  <2>2. {"pollRead", "pollWait"} \subseteq SentLabels \ {"confirm"}
    BY DEF SentLabels, PollLabels
  <2> QED
    BY <1>1, <1>3, <2>1, <2>2, PollGoes
<1>4. cmd[p].poll \in Nat /\ cmd[p].budget \in Nat
  BY CmdFields
<1>5. cmd[p].poll < cmd[p].budget \/ cmd[p].poll >= cmd[p].budget
  BY <1>4
<1>6. ~(cmd[p].poll < cmd[p].budget /\ cmd[p].poll >= cmd[p].budget)
  BY <1>4
<1> QED
  BY <1>2, <1>3, <1>5, <1>6 DEF Poll

LEMMA PollWakeKeeps ==
  ASSUME CommandIInv, NEW p \in CommandCalls, PollWake(p)
  PROVE  CommandIInv'
<1>1. /\ proc[p].pc = "pollWait" /\ lock = NoOne /\ SessionSame /\ NothingWritten
      /\ proc[p].pc \in CommandLabels /\ proc[p].pc \in SentLabels /\ proc[p].pc \in PollLabels
  BY DEF PollWake, Unlocked, At, CommandLabels, SentLabels, PollLabels
<1>2. CASE lock' = p /\ Goto(p, "pollRead") /\ UNCHANGED cmd
  <2>1. cmd[p].poll < cmd[p].budget
    BY <1>1, AtLabel DEF Progress, Polling
  <2>2. "pollRead" \in CommandLabels \ WaitLabels /\ "pollRead" \in SentLabels \ {"confirm"}
    BY DEF CommandLabels, WaitLabels, SentLabels, PollLabels
  <2> QED
    BY <1>1, <1>2, <2>1, <2>2, Goes, PollGoes
<1>3. CASE PollsOver(p) /\ (Kind(p) = "channel" => lock' = p)
  BY <1>1, <1>3, PollsOverKeeps
<1> QED
  BY <1>2, <1>3 DEF PollWake

\* A read that did not settle the command.
LEMMA PollAgain ==
  ASSUME CommandIInv, NEW p \in CommandCalls, proc[p].pc \in PollLabels, lock = p, SessionSame,
         NothingWritten, Goto(p, "poll"), UNCHANGED lock, NEW e \in Nat,
         cmd' = [cmd EXCEPT ![p].errors = e, ![p].poll = @ + 1]
  PROVE  CommandIInv'
<1>1. proc[p].pc \in CommandLabels /\ proc[p].pc \in SentLabels
  BY SentTyped
<1>8. PICK n \in Nat : n = cmd[p].poll + 1
  BY CmdFields
<1>2. PICK c : c = [cmd[p] EXCEPT !.errors = e, !.poll = n]
  OBVIOUS
<1>3. /\ c \in CmdType /\ c.attempt = cmd[p].attempt /\ c.poll = cmd[p].poll + 1
      /\ c.budget = cmd[p].budget /\ c.extended = cmd[p].extended /\ c.verdict = cmd[p].verdict
  BY <1>2, <1>8, CmdFields DEF CmdType
<1>4. cmd' = [cmd EXCEPT ![p] = c]
  BY <1>2, <1>8 DEF CommandIInv, CmdTypes
<1>5. /\ cmd[p].poll < cmd[p].budget /\ cmd[p].extended <= MaxExtensions
      /\ cmd[p].budget <= FirstBudget + cmd[p].extended * FallbackAttempts
  BY <1>1, AtLabel DEF Progress, Polling
<1>6. c.poll <= c.budget
  BY <1>3, <1>5, CmdFields
<1>7. Lands(p, "poll")
  BY <1>1, SentTyped, Goes
<1> QED
  BY <1>1, <1>3, <1>4, <1>5, <1>6, <1>7, PollCounts

LEMMA PollSeenKeeps ==
  ASSUME CommandIInv, NEW p \in CommandCalls, PollSeen(p)
  PROVE  CommandIInv'
<1>1. /\ proc[p].pc = "pollRead" /\ lock = p /\ SessionSame /\ NothingWritten
      /\ proc[p].pc \in CommandLabels /\ proc[p].pc \in PollLabels
  BY DEF PollSeen, Locked, At, CommandLabels, PollLabels
<1>2. CASE Settle(p, "confirmed")
  BY <1>1, <1>2, SettlesSent
<1>3. CASE /\ cmd' = [cmd EXCEPT ![p].errors = 0, ![p].poll = @ + 1]
           /\ Goto(p, "poll") /\ UNCHANGED lock
  BY <1>1, <1>3, PollAgain
<1> QED
  BY <1>2, <1>3 DEF PollSeen

LEMMA PollStopsKeeps ==
  ASSUME CommandIInv, NEW p \in CommandCalls, PollStops(p)
  PROVE  CommandIInv'
<1>1. /\ proc[p].pc \in SentLabels /\ lock = p /\ SessionSame /\ NothingWritten
      /\ PollsOver(p) /\ (Kind(p) = "channel" => lock' = p)
  BY DEF PollStops, Locked, At, SentLabels, PollLabels
<1> QED
  BY <1>1, PollsOverKeeps

LEMMA ClosesSent ==
  /\ {"sleepDropped", "pollClosed"} \subseteq CommandCloses
  /\ {"sleepDropped", "pollClosed"} \subseteq SentLabels \ {"confirm"}
  /\ "sleepDropped" \notin PollLabels
BY DEF CommandCloses, SentLabels, PollLabels

LEMMA PollFailsKeeps ==
  ASSUME CommandIInv, NEW p \in CommandCalls, PollFails(p)
  PROVE  CommandIInv'
<1>1. /\ proc[p].pc = "pollRead" /\ lock = p /\ UNCHANGED lock /\ SessionSame /\ NothingWritten
      /\ proc[p].pc \in CommandLabels /\ proc[p].pc \in SentLabels /\ proc[p].pc \in PollLabels
  BY DEF PollFails, Locked, At, CommandLabels, SentLabels, PollLabels
<1>2. cmd[p].poll < cmd[p].budget
  BY <1>1, AtLabel DEF Progress, Polling
<1>3. CASE \E l \in {"sleepDropped", "pollClosed"} :
              /\ proc' = [proc EXCEPT ![p].pc = "disconnect", ![p].uses = device, ![p].stack = <<l>>]
              /\ UNCHANGED cmd
  <2>1. PICK l \in {"sleepDropped", "pollClosed"} :
              /\ proc' = [proc EXCEPT ![p].pc = "disconnect", ![p].uses = device, ![p].stack = <<l>>]
              /\ UNCHANGED cmd
    BY <1>3
  <2>2. Lands(p, l)
    BY <1>1, <2>1, ClosesSent, ClosesThen
  <2> QED
    BY <1>1, <1>2, <2>1, <2>2, ClosesSent, PollGoes
<1>4. CASE cmd' = [cmd EXCEPT ![p].errors = @ + 1, ![p].poll = @ + 1] /\ Goto(p, "poll")
  <2>1. PICK e \in Nat : e = cmd[p].errors + 1
    BY CmdFields
  <2>2. cmd' = [cmd EXCEPT ![p].errors = e, ![p].poll = @ + 1]
    BY <1>4, <2>1
  <2> QED
    BY <1>1, <1>4, <2>2, PollAgain
<1> QED
  BY <1>3, <1>4 DEF PollFails

LEMMA SleepDroppedKeeps ==
  ASSUME CommandIInv, NEW p \in CommandCalls, SleepDropped(p)
  PROVE  CommandIInv'
BY SettlesSent DEF SleepDropped, Locked, At, CommandLabels

LEMMA PollClosedKeeps ==
  ASSUME CommandIInv, NEW p \in CommandCalls, PollClosed(p)
  PROVE  CommandIInv'
<1>1. /\ proc[p].pc = "pollClosed" /\ lock = p /\ SessionSame /\ NothingWritten
      /\ proc[p].pc \in CommandLabels /\ proc[p].pc \in SentLabels /\ proc[p].pc \in PollLabels
      /\ Goto(p, "pollReopen") /\ lock' = NoOne /\ UNCHANGED cmd
  BY DEF PollClosed, Locked, At, CommandLabels, SentLabels, PollLabels
<1>2. cmd[p].poll < cmd[p].budget
  BY <1>1, AtLabel DEF Progress, Polling
<1>3. "pollReopen" \in CommandLabels /\ "pollReopen" \in WaitLabels /\ "pollReopen" \in SentLabels \ {"confirm"}
  BY DEF CommandLabels, WaitLabels, SentLabels, PollLabels
<1> QED
  BY <1>1, <1>2, <1>3, Goes, PollGoes

LEMMA PollReopenKeeps ==
  ASSUME CommandIInv, NEW p \in CommandCalls, PollReopen(p)
  PROVE  CommandIInv'
<1>1. /\ proc[p].pc = "pollReopen" /\ lock = NoOne /\ SessionSame /\ NothingWritten
      /\ proc[p].pc \in CommandLabels /\ proc[p].pc \in SentLabels /\ proc[p].pc \in PollLabels
  BY DEF PollReopen, Unlocked, At, CommandLabels, SentLabels, PollLabels
<1>2. CASE lock' = p /\ Call(p, "connect", "pollReopened") /\ UNCHANGED cmd
  <2>1. cmd[p].poll < cmd[p].budget
    BY <1>1, AtLabel DEF Progress, Polling
  <2>2. "pollReopened" \in CommandConnects /\ "pollReopened" \in SentLabels \ {"confirm"}
    BY DEF CommandConnects, SentLabels, PollLabels
  <2> QED
    BY <1>1, <1>2, <2>1, <2>2, Connects, PollGoes
<1>3. CASE PollsOver(p) /\ (Kind(p) = "channel" => lock' = p)
  BY <1>1, <1>3, PollsOverKeeps
<1> QED
  BY <1>2, <1>3 DEF PollReopen

\* What an extension of the boot window adds to the budget.
LEMMA OneMore ==
  ASSUME NEW e \in Nat, NEW f \in Nat
  PROVE  (e + 1) * f = e * f + f
OBVIOUS

LEMMA PollReopenedKeeps ==
  ASSUME CommandIInv, NEW p \in CommandCalls, PollReopened(p)
  PROVE  CommandIInv'
<1>1. /\ proc[p].pc = "pollReopened" /\ lock = p /\ UNCHANGED lock /\ SessionSame /\ NothingWritten
      /\ proc[p].pc \in CommandLabels /\ proc[p].pc \in SentLabels /\ proc[p].pc \in PollLabels
      /\ Goto(p, "poll")
  BY DEF PollReopened, Locked, At, CommandLabels, SentLabels, PollLabels
<1>2. /\ cmd[p].poll < cmd[p].budget /\ cmd[p].extended <= MaxExtensions
      /\ cmd[p].budget <= FirstBudget + cmd[p].extended * FallbackAttempts
  BY <1>1, AtLabel DEF Progress, Polling
<1>3. \/ cmd' = [cmd EXCEPT ![p].errors = 0, ![p].poll = @ + 1]
      \/ /\ cmd[p].extended < MaxExtensions
         /\ cmd' = [cmd EXCEPT ![p].errors = 0, ![p].poll = @ + 1,
                               ![p].budget = cmd[p].poll + 1 + FallbackAttempts,
                               ![p].extended = @ + 1]
  <2> DEFINE restarted == cmd[p].poll + 1 + FallbackAttempts
             extends == /\ Kind(p) = "on" /\ cmd[p].extended < MaxExtensions
                        /\ FallbackAttempts > 0 /\ restarted > cmd[p].budget
  <2>1. cmd' = [cmd EXCEPT ![p].errors = 0, ![p].poll = @ + 1,
                           ![p].budget = IF extends THEN restarted ELSE @,
                           ![p].extended = IF extends THEN @ + 1 ELSE @]
    BY DEF PollReopened
  <2>2. CASE extends
    BY <2>1, <2>2
  <2>3. CASE ~extends
    <3>1. PICK c : c = [cmd[p] EXCEPT !.errors = 0, !.poll = cmd[p].poll + 1,
                                      !.budget = cmd[p].budget, !.extended = cmd[p].extended]
      OBVIOUS
    <3>2. c = [cmd[p] EXCEPT !.errors = 0, !.poll = cmd[p].poll + 1]
      BY <3>1, CmdFields DEF CmdType
    <3>3. cmd' = [cmd EXCEPT ![p] = c]
      BY <2>1, <2>3, <3>1 DEF CommandIInv, CmdTypes
    <3> QED
      BY <3>2, <3>3 DEF CommandIInv, CmdTypes
  <2> QED
    BY <2>2, <2>3
<1>4. CASE cmd' = [cmd EXCEPT ![p].errors = 0, ![p].poll = @ + 1]
  BY <1>1, <1>4, PollAgain
<1>5. CASE /\ cmd[p].extended < MaxExtensions
           /\ cmd' = [cmd EXCEPT ![p].errors = 0, ![p].poll = @ + 1,
                                 ![p].budget = cmd[p].poll + 1 + FallbackAttempts,
                                 ![p].extended = @ + 1]
  <2>9. PICK n \in Nat : n = cmd[p].poll + 1
    BY CmdFields
  <2>10. PICK k \in Nat : k = cmd[p].extended + 1
    BY CmdFields
  <2>11. PICK m \in Nat : m = cmd[p].poll + 1 + FallbackAttempts
    BY CmdFields, PolicyTyped
  <2>1. /\ n = cmd[p].poll + 1 /\ m = cmd[p].poll + 1 + FallbackAttempts
        /\ k = cmd[p].extended + 1
    BY <2>9, <2>10, <2>11
  <2>2. PICK a : a = [cmd[p] EXCEPT !.errors = 0, !.poll = n]
    OBVIOUS
  <2>3. /\ a \in CmdType /\ a.attempt = cmd[p].attempt /\ a.poll = n /\ a.verdict = cmd[p].verdict
    BY <2>2, CmdFields DEF CmdType
  <2>4. PICK c : c = [a EXCEPT !.budget = m, !.extended = k]
    OBVIOUS
  <2>5. /\ c \in CmdType /\ c.attempt = cmd[p].attempt /\ c.poll = n /\ c.budget = m
        /\ c.extended = k /\ c.verdict = cmd[p].verdict
    BY <2>3, <2>4 DEF CmdType
  <2>6. cmd' = [cmd EXCEPT ![p] = c]
    <3>1. cmd' = [cmd EXCEPT ![p].errors = 0, ![p].poll = n, ![p].budget = m, ![p].extended = k]
      BY <1>5, <2>1
    <3> QED
      BY <2>2, <2>4, <3>1 DEF CommandIInv, CmdTypes
  <2>7. /\ c.poll <= c.budget /\ c.budget <= FirstBudget + c.extended * FallbackAttempts
        /\ c.extended <= MaxExtensions
    <3>1. k * FallbackAttempts = cmd[p].extended * FallbackAttempts + FallbackAttempts
      BY <2>1, OneMore, CmdFields, PolicyTyped
    <3>2. PICK w \in Nat : w = cmd[p].extended * FallbackAttempts
      BY CmdFields, PolicyTyped
    <3>3. /\ c.poll <= c.budget /\ m <= FirstBudget + w + FallbackAttempts
          /\ k <= MaxExtensions
      BY <1>2, <1>5, <2>1, <2>5, <3>2, CmdFields, PolicyTyped
    <3> QED
      BY <2>5, <3>1, <3>2, <3>3, PolicyTyped
  <2>8. Lands(p, "poll")
    BY <1>1, SentTyped, Goes
  <2> QED
    BY <1>1, <2>5, <2>6, <2>7, <2>8, PollCounts
<1> QED
  BY <1>3, <1>4, <1>5

LEMMA LastReadKeeps ==
  ASSUME CommandIInv, NEW p \in CommandCalls, LastRead(p)
  PROVE  CommandIInv'
<1>1. /\ proc[p].pc = "lastRead" /\ lock = p /\ SessionSame /\ NothingWritten
      /\ proc[p].pc \in CommandLabels /\ proc[p].pc \in SentLabels
  BY DEF LastRead, Locked, At, CommandLabels, SentLabels
<1>2. CASE Settle(p, "confirmed") \/ Settle(p, "sent")
  BY <1>1, <1>2, SettlesSent
<1>3. CASE /\ proc' = [proc EXCEPT ![p].pc = "disconnect", ![p].uses = device,
                                   ![p].stack = <<"sleepDropped">>]
           /\ UNCHANGED <<lock, cmd>>
  <2>1. Lands(p, "sleepDropped")
    BY <1>1, <1>3, ClosesSent, ClosesThen
  <2> QED
    BY <1>1, <1>3, <2>1, ClosesSent, PollGoes
<1> QED
  BY <1>2, <1>3 DEF LastRead

-----------------------------------------------------------------------------
(* The steps of the session beside a command, and the whole.               *)

LEMMA CommandStepKeeps ==
  ASSUME CommandIInv, NEW p \in CommandCalls, CommandStep(p)
  PROVE  CommandIInv'
BY EnterCommandKeeps, AttemptKeeps, CommandConnectedKeeps, GaveUpKeeps, BackoffKeeps,
   BackoffWakeKeeps, WriteKeeps, WriteUnsentKeeps, GapEndsKeeps, PairRebuiltKeeps, FinalWriteKeeps,
   ConfirmKeeps, PollKeeps, PollWakeKeeps, PollSeenKeeps, PollStopsKeeps, PollFailsKeeps,
   SleepDroppedKeeps, PollClosedKeeps, PollReopenKeeps, PollReopenedKeeps, ChannelConnectedKeeps,
   ChannelReadKeeps, ChannelWriteKeeps, ChannelUnsentKeeps, LastReadKeeps
DEF CommandStep

\* The caller's context ends while the final byte runs on its own.
LEMMA CancelOuterKeeps ==
  ASSUME CommandIInv, NEW p \in CommandCalls, CancelOuter(p)
  PROVE  CommandIInv'
<1>1. /\ UNCHANGED <<lock, proc>> /\ SessionSame /\ NothingWritten
      /\ cmd' = [cmd EXCEPT ![p].outer = TRUE]
  BY DEF CancelOuter
<1>2. GattIInv'
  <2>1. UNCHANGED vars
    BY <1>1 DEF vars, SessionSame
  <2> QED
    BY <2>1, GattStep DEF CommandIInv
<1>3. PICK c : c = [cmd[p] EXCEPT !.outer = TRUE]
  OBVIOUS
<1>4. /\ c \in CmdType /\ c.attempt = cmd[p].attempt /\ c.poll = cmd[p].poll
      /\ c.budget = cmd[p].budget /\ c.extended = cmd[p].extended /\ c.verdict = cmd[p].verdict
  BY <1>3, CmdFields DEF CmdType
<1>5. cmd' = [cmd EXCEPT ![p] = c]
  BY <1>1, <1>3 DEF CommandIInv, CmdTypes
<1>6. CmdTypes' /\ OthersKeep(p) /\ cmd'[p] = c /\ wrote' = wrote /\ reached' = reached
  BY <1>1, <1>4, <1>5, Counts
<1>7. Moves(p)
  BY <1>1 DEF Moves, CommandIInv, GattIInv
<1>8. Known(p)'
  <2>1. Untouched(p)' <=> Untouched(p)
    BY <1>6 DEF Untouched
  <2>2. ASSUME NEW b \in CommandPcs, Stands(proc[p], b), Progress(p, b)
        PROVE  Stands(proc[p], b)' /\ Progress(p, b)'
    <3>1. Stands(proc[p], b)'
      BY <1>1, <2>2 DEF Stands, Back, InConnect, InClose
    <3>2. Progress(p, b)'
      BY <1>4, <1>6, <2>1, <2>2 DEF Progress, Sending, Trying, Polling
    <3> QED
      BY <3>1, <3>2
  <2> QED
    BY <1>1, <2>2 DEF CommandIInv, Known
<1> QED
  BY <1>2, <1>6, <1>7, <1>8, CommandMoves

LEMMA BeginCommandKeeps ==
  ASSUME CommandIInv, NEW p \in CommandCalls, NEW kind \in CommandKinds, BeginCommand(p, kind)
  PROVE  CommandIInv'
<1>1. /\ proc[p].pc = "idle" /\ UNCHANGED cmdVars
      /\ proc' = [proc EXCEPT ![p].kind = kind, ![p].pc = "enterCommand"] /\ ProcOnly
  BY DEF BeginCommand, At, SessionSame, NothingWritten, cmdVars, ProcOnly
<1>2. kind \in CmdKinds /\ kind \in AnyKinds /\ kind \notin OwnKinds /\ p \in Procs /\ p \in Calls
  BY CommandAssumption, CommandLabelsTyped, Calling DEF CmdKinds
<1>3. GattIInv'
  BY <1>1, <1>2, CallMade DEF CommandIInv
<1>4. proc[p].stack = NoFrames /\ proc[p].tries <= DiscoveryAttempts /\ proc[p] \in AnyProc
  BY <1>1, <1>2, TopFrame, InvTyped DEF CommandIInv, TopPcs, OwnPcs
<1>5. /\ Moves(p) /\ proc'[p].pc = "enterCommand" /\ proc'[p].kind = kind
      /\ proc'[p].stack = proc[p].stack /\ proc'[p].tries = proc[p].tries
  <2>1. "enterCommand" \in AnyLabels /\ proc \in [Procs -> AnyProc]
    BY DEF AnyLabels, CommandLabels, CommandIInv, GattIInv
  <2> QED
    BY <1>1, <1>2, <1>4, <2>1, ProcFields DEF Moves, AnyProc
<1>6. Progress(p, "idle")
  <2>1. PICK b \in CommandPcs : Stands(proc[p], b) /\ Progress(p, b)
    BY DEF CommandIInv, Known
  <2>2. b = "idle"
    BY <1>1, <2>1 DEF Stands, Back, InConnect, InClose, ConnectBody, GatePcs, ClosePcs
  <2> QED
    BY <2>1, <2>2
<1>7. cmd' = cmd /\ wrote' = wrote /\ reached' = reached
  BY <1>1 DEF cmdVars
<1>8. CmdTypes' /\ OthersKeep(p)
  BY <1>7 DEF CommandIInv, CmdTypes, OthersKeep
<1>9. Known(p)'
  <2>1. Progress(p, "enterCommand")'
    BY <1>6, <1>7
    DEF Progress, Sending, Trying, Polling, Untouched, FreshLabels, PairLabels, PollLabels
  <2>2. Stands(proc[p], "enterCommand")'
    BY <1>4, <1>5 DEF Stands, Back
  <2>3. "enterCommand" \in CommandPcs
    BY DEF CommandPcs, FreshLabels
  <2> QED
    BY <1>2, <1>5, <2>1, <2>2, <2>3 DEF Known
<1> QED
  BY <1>3, <1>5, <1>8, <1>9, CommandMoves

\* What a step of the session does to a command: nothing, or it is the command's
\* own step in a procedure it has called.
LEMMA BesideCommand ==
  ASSUME CommandIInv, SessionNext, NEW p \in CommandCalls
  PROVE  proc'[p] = proc[p] \/ ConnectStep(p) \/ DisconnectStep(p)
<1>0. p \in Procs /\ p \notin Handles /\ proc \in [Procs -> AnyProc] /\ GattIInv
  BY Calling DEF CommandIInv, GattIInv
<1>1. ASSUME NEW q \in Procs, ProcStep(q)
      PROVE  proc'[p] = proc[p] \/ ConnectStep(p) \/ DisconnectStep(p)
  <2>1. CASE q # p
    BY <1>0, <1>1, <2>1, WhoCloses DEF Moves
  <2>2. CASE q = p
    <3>1. PICK b \in CommandPcs : Stands(proc[p], b)
      BY DEF CommandIInv, Known
    <3>2. proc[p].pc \notin {"enter", "ensured", "interrupted", "refreshClosed", "fetched",
                             "releaseDone", "probe", "probed", "sweeping", "cleaned"}
      BY <3>1 DEF Stands, Back, InConnect, InClose, ConnectBody, GatePcs, ClosePcs, CommandPcs,
         FreshLabels, PairLabels, SentLabels, PollLabels
    <3>3. ~CallStep(p) /\ ~EagerCleanup(p) /\ ~EagerCleaned(p)
      BY <3>2 DEF CallStep, Enter, Ensured, Interrupted, RefreshClosed, Fetched, ReleaseDone,
         Probe, Probed, EagerCleanup, EagerCleaned, Locked, Unlocked, At
    <3> QED
      BY <1>1, <2>2, <3>3 DEF ProcStep
  <2> QED
    BY <2>1, <2>2
<1>2. ASSUME NEW q \in Calls, Cancel(q)
      PROVE  proc'[p] = proc[p]
  BY <1>2 DEF Cancel
<1>3. ASSUME NEW q \in Calls \ CommandCalls, NEW kind \in Kinds[q], Begin(q, kind)
      PROVE  proc'[p] = proc[p]
  BY <1>0, <1>3 DEF Begin
<1>4. CASE EventStep
  <2>1. CASE Invalidate
    <3>1. invalid \in Handles
      BY <1>0, <2>1 DEF Invalidate, GattIInv, GlobalTypes
    <3> QED
      BY <1>0, <2>1, <3>1 DEF Invalidate
  <2>2. CASE DrainNext \/ \E h \in Handles : LinkDrops(h) \/ DeliverDrop(h)
    BY <2>2 DEF DrainNext, LinkDrops, DeliverDrop
  <2> QED
    BY <1>4, <2>1, <2>2 DEF EventStep
<1> QED
  BY <1>1, <1>2, <1>3, <1>4 DEF SessionNext

LEMMA SessionNextKeeps ==
  ASSUME CommandIInv, SessionNext, UNCHANGED cmdVars
  PROVE  CommandIInv'
<1>1. GattIInv /\ ProcsTyped
  BY InvTyped DEF CommandIInv
<1>2. GattIInv'
  <2>1. Next
    BY DEF SessionNext, Next
  <2> QED
    BY <1>1, <2>1, GattStep
<1>3. cmd' = cmd /\ wrote' = wrote /\ reached' = reached
  BY DEF cmdVars
<1>4. CmdTypes'
  BY <1>3 DEF CommandIInv, CmdTypes
<1>5. ASSUME NEW p \in CommandCalls
      PROVE  Known(p)'
  <2>1. PICK b \in CommandPcs : Stands(proc[p], b) /\ Progress(p, b)
    BY DEF CommandIInv, Known
  <2>2. Progress(p, b)'
    BY <1>3, <2>1 DEF Progress, Sending, Trying, Polling, Untouched
  <2>3. proc[p].pc # "idle" => proc[p].kind \in CmdKinds
    BY DEF CommandIInv, Known
  <2>4. CASE proc'[p] = proc[p]
    <3>1. Stands(proc[p], b)'
      BY <2>1, <2>4 DEF Stands, Back, InConnect, InClose
    <3> QED
      BY <2>2, <2>3, <2>4, <3>1 DEF Known
  <2>5. CASE ConnectStep(p) \/ DisconnectStep(p)
    <3>1. p \in Procs /\ b \in AnyLabels
      BY Calling, CommandLabelsTyped, LabelsTyped
    <3>2. proc[p].pc \notin CommandPcs
      BY <2>5 DEF ConnectStep, Gate, GateWake, GateCancelled, Connect, GatePassed, StaleClosed,
         Rebuild, OpenOrReuse, Opened, Discover, AttemptFailed, GiveUp, RetryClosed, RetryWake,
         Reopen, DisconnectStep, CleanupSucceeds, CleanupFails, Disconnect, Detach,
         DisconnectSucceeds, DisconnectFails, Locked, Unlocked, At, CommandPcs, FreshLabels,
         PairLabels, SentLabels, PollLabels
    <3>3. \/ b \in CommandConnects /\ InConnect(proc[p], b)
          \/ b \in CommandCloses /\ InClose(proc[p], b)
      BY <2>1, <3>2 DEF Stands, Back
    <3>4. SameCall(p) /\ Stands(proc'[p], b)
      BY <1>1, <2>5, <3>1, <3>3, ConnectStays, CloseStays DEF Onward, Outward, Stands
    <3>5. Stands(proc[p], b)'
      BY <3>4 DEF Stands, Back, InConnect, InClose
    <3>6. proc[p].kind \in CmdKinds
      BY <2>3, <3>2 DEF CommandPcs, FreshLabels
    <3> QED
      BY <2>2, <3>4, <3>5, <3>6 DEF Known, SameCall
  <2> QED
    BY <2>4, <2>5, BesideCommand
<1> QED
  BY <1>2, <1>4, <1>5 DEF CommandIInv

LEMMA CommandNextKeeps ==
  CommandIInv /\ [CommandNext]_allVars => CommandIInv'
<1> SUFFICES ASSUME CommandIInv, [CommandNext]_allVars
             PROVE  CommandIInv'
  OBVIOUS
<1>1. CASE CommandNext
  BY <1>1, CommandStepKeeps, CancelOuterKeeps, BeginCommandKeeps, SessionNextKeeps DEF CommandNext
<1>2. CASE UNCHANGED allVars
  <2>1. UNCHANGED vars /\ UNCHANGED cmdVars
    BY <1>2 DEF allVars
  <2>2. GattIInv'
    BY <2>1, GattStep DEF CommandIInv
  <2>3. cmd' = cmd /\ wrote' = wrote /\ reached' = reached /\ proc' = proc
    BY <2>1 DEF cmdVars, vars
  <2>4. CmdTypes'
    BY <2>3 DEF CommandIInv, CmdTypes
  <2>5. ASSUME NEW p \in CommandCalls
        PROVE  Known(p)'
    BY <2>3 DEF CommandIInv, Known, Stands, Back, InConnect, InClose, Progress, Sending, Trying,
       Polling, Untouched
  <2> QED
    BY <2>2, <2>4, <2>5 DEF CommandIInv
<1> QED
  BY <1>1, <1>2

LEMMA CommandStarts ==
  CommandInit => CommandIInv
<1> SUFFICES ASSUME CommandInit
             PROVE  CommandIInv
  OBVIOUS
<1>1. GattIInv
  BY GattStarts DEF CommandInit
<1>2. PICK n : n = NoCommand
  OBVIOUS
<1>3. /\ n \in CmdType /\ n.attempt = 0 /\ n.poll = 0 /\ n.budget = 0 /\ n.extended = 0
      /\ n.verdict = "none"
  BY <1>2 DEF NoCommand, CmdType, Verdicts
<1>4. /\ cmd = [p \in CommandCalls |-> n] /\ reached = {}
      /\ wrote = [p \in CommandCalls |-> [byte \in Bytes |-> 0]]
  BY <1>2 DEF CommandInit
<1>5. CmdTypes
  BY <1>3, <1>4 DEF CmdTypes
<1>6. ASSUME NEW p \in CommandCalls
      PROVE  Known(p)
  <2>1. proc[p].pc = "idle" /\ proc[p].stack = NoFrames /\ proc[p].tries = 0
    BY Calling, IdleTyped DEF CommandInit, Init
  <2>2. Stands(proc[p], "idle") /\ "idle" \in CommandPcs
    BY <2>1, BoundsAssumption DEF Stands, Back, CommandPcs, FreshLabels
  <2>3. cmd[p] = n /\ Untouched(p) /\ \A byte \in Bytes : wrote[p][byte] = 0
    BY <1>4 DEF Untouched
  <2>4. Polling(p, "idle")
    <3>1. 0 * FallbackAttempts = 0
      BY PolicyTyped
    <3> QED
      BY <1>3, <2>3, <3>1, PolicyTyped DEF Polling, PollLabels
  <2>5. Sending(p, "idle") /\ Trying(p, "idle")
    BY <1>3, <2>3, PolicyTyped DEF Sending, Trying, PairLabels
  <2> QED
    BY <2>1, <2>2, <2>4, <2>5 DEF Known, Progress
<1> QED
  BY <1>1, <1>5, <1>6 DEF CommandIInv

\* A command has sent nothing before its first write, nothing of the final byte
\* between the two of a sleep, each byte at most once ever, and has read no more
\* often than its budget, which its extensions bound (power.go 204-232, 266-290,
\* 510-636; channel.go 40-130).
THEOREM CommandInvariant ==
  CommandSpec => []CommandIInv
<1> QED
  BY CommandStarts, CommandNextKeeps, PTL DEF CommandSpec

\* The variables have their types, and a command reported as not sent has not
\* reached the station, not even with the byte that prepares a sleep
\* (power.go 510-513, 618-626; channel.go 95-97).
THEOREM CommandsAreHonest ==
  CommandSpec => []CommandInv
<1>1. CommandIInv => CommandInv
  <2> SUFFICES ASSUME CommandIInv
               PROVE  CommandInv
    OBVIOUS
  <2>1. ASSUME NEW p \in CommandCalls
        PROVE  /\ cmd[p].attempt \in 0..WriteAttempts
               /\ cmd[p].verdict = "unsent" => Untouched(p)
    <3>1. PICK b \in CommandPcs : Progress(p, b)
      BY DEF CommandIInv, Known
    <3> QED
      BY <3>1, CmdFields, PolicyTyped DEF Progress, Trying, Sending
  <2>2. UnsentIsUnsent
    BY <2>1 DEF UnsentIsUnsent, Untouched
  <2>3. CommandTypeOK
    BY <2>1, CmdFields DEF CommandTypeOK, CommandIInv, CmdTypes, Verdicts
  <2> QED
    BY <2>2, <2>3 DEF CommandInv
<1> QED
  BY <1>1, CommandInvariant, PTL

\* A command that may have been sent is never sent again, whatever became of its
\* session, its context and its other byte (model.go 104-105, power.go 204-232,
\* 618-636).
THEOREM NoReplay ==
  CommandSpec => []NeverReplayed
<1>1. CommandIInv => NeverReplayed
  BY DEF CommandIInv, Known, Progress, Sending, NeverReplayed
<1> QED
  BY <1>1, CommandInvariant, PTL

LEMMA Within ==
  ASSUME NEW e \in Nat, NEW m \in Nat, NEW f \in Nat, e <= m
  PROVE  e * f <= m * f
<1>1. PICK d \in Nat : m = e + d
  <2>1. m - e \in Nat /\ m = e + (m - e)
    OBVIOUS
  <2> QED
    BY <2>1
<1>2. m * f = e * f + d * f /\ d * f \in Nat /\ e * f \in Nat
  BY <1>1
<1> QED
  BY <1>2

\* A confirmation ends after a bounded number of reads, however often the boot
\* window of a power-on was restarted (power.go 266-290).
THEOREM PollsEnd ==
  CommandSpec => []PollsBounded
<1>1. CommandIInv => PollsBounded
  <2> SUFFICES ASSUME CommandIInv, NEW p \in CommandCalls
               PROVE  cmd[p].poll <= FirstBudget + MaxExtensions * FallbackAttempts
    BY DEF PollsBounded, FirstBudget
  <2>1. /\ cmd[p].poll <= cmd[p].budget /\ cmd[p].extended <= MaxExtensions
        /\ cmd[p].budget <= FirstBudget + cmd[p].extended * FallbackAttempts
    BY DEF CommandIInv, Known, Progress, Polling
  <2>2. PICK w \in Nat, z \in Nat : /\ w = cmd[p].extended * FallbackAttempts
                                    /\ z = MaxExtensions * FallbackAttempts
    BY CmdFields, PolicyTyped
  <2>3. w <= z
    BY <2>1, <2>2, Within, CmdFields, PolicyTyped
  <2>4. cmd[p].poll <= FirstBudget + z
    BY <2>1, <2>2, <2>3, CmdFields, PolicyTyped
  <2> QED
    BY <2>2, <2>4
<1> QED
  BY <1>1, CommandInvariant, PTL

\* Commands beside the other calls, with their reconnects and their closes, leave
\* the station its one session, in one hand and in reach of the disconnect events
\* and of the fleet-wide cleanup (connection.go 443-447, 478-484, 519-524).
THEOREM CommandsShareTheSession ==
  CommandSpec => [](OneSession /\ HeldIsTracked)
<1>1. CommandIInv => OneSession /\ HeldIsTracked
  BY OneHolder DEF CommandIInv, GattIInv, Tracked, HeldIsTracked
<1> QED
  BY <1>1, CommandInvariant, PTL

\* A step of a command moves no other process, and takes no session in hand.
Apart(p) ==
  /\ \A q \in Procs \ {p} : proc'[q] = proc[q]
  /\ proc'[p].pc \notin HandPcs

LEMMA CommandApart ==
  ASSUME proc \in [Procs -> AnyProc], NEW p \in CommandCalls, CommandStep(p)
  PROVE  Apart(p)
<1>0. p \in Procs
  BY Calling
<1>1. ASSUME NEW v, Settle(p, v)
      PROVE  Apart(p)
  BY <1>0, <1>1 DEF Settle, Apart, HandPcs, Idle
<1>2. ASSUME NEW l, l \notin HandPcs, Goto(p, l)
      PROVE  Apart(p)
  BY <1>0, <1>2, ProcFields DEF Goto, Apart, AnyProc
<1>3. ASSUME NEW l, NEW s, s \notin HandPcs, Call(p, s, l)
      PROVE  Apart(p)
  BY <1>0, <1>3, ProcFields DEF Call, Apart, AnyProc
<1>4. ASSUME EnterCommand(p) \/ Attempt(p) \/ CommandConnected(p) \/ GaveUp(p) \/ Backoff(p)
             \/ BackoffWake(p)
      PROVE  Apart(p)
  BY <1>1, <1>2, <1>3, <1>4
  DEF EnterCommand, Attempt, CommandConnected, GaveUp, Backoff, BackoffWake, HandPcs
<1>5. ASSUME Write(p) \/ WriteAmbiguous(p)
      PROVE  Apart(p)
  BY <1>1, <1>2, <1>5 DEF Write, WriteAmbiguous, HandPcs
<1>6. ASSUME WriteUnsent(p)
      PROVE  Apart(p)
  <2>1. ASSUME NEW s, proc' = [proc EXCEPT ![p].pc = "disconnect", ![p].stack = s]
        PROVE  Apart(p)
    BY <1>0, <2>1, ProcFields DEF Apart, AnyProc, HandPcs
  <2>2. ASSUME proc' = [proc EXCEPT ![p].pc = "backoff"]
        PROVE  Apart(p)
    BY <1>0, <2>2, ProcFields DEF Apart, AnyProc, HandPcs
  <2> QED
    BY <1>1, <1>6, <2>1, <2>2 DEF WriteUnsent
<1>7. ASSUME GapEnds(p) \/ PairRebuilt(p) \/ FinalWrite(p)
      PROVE  Apart(p)
  BY <1>2, <1>3, <1>7 DEF GapEnds, PairRebuilt, FinalWrite, HandPcs
<1>8. ASSUME PollsOver(p)
      PROVE  Apart(p)
  BY <1>1, <1>2, <1>8 DEF PollsOver, HandPcs
<1>9. ASSUME Confirm(p) \/ Poll(p) \/ PollWake(p) \/ PollSeen(p) \/ PollStops(p)
      PROVE  Apart(p)
  <2>1. CASE Poll(p)
    <3>1. PollsOver(p) \/ Goto(p, "pollRead") \/ Goto(p, "pollWait")
      BY <2>1 DEF Poll
    <3> QED
      BY <1>2, <1>8, <3>1 DEF HandPcs
  <2>2. CASE Confirm(p) \/ PollWake(p) \/ PollSeen(p) \/ PollStops(p)
    BY <1>1, <1>2, <1>8, <2>2 DEF Confirm, PollWake, PollSeen, PollStops, HandPcs
  <2> QED
    BY <1>9, <2>1, <2>2
<1>10. ASSUME NEW s, NEW u, proc' = [proc EXCEPT ![p].pc = "disconnect", ![p].uses = u,
                                                 ![p].stack = s]
       PROVE  Apart(p)
  BY <1>0, <1>10, ProcFields DEF Apart, AnyProc, HandPcs
<1>11. ASSUME PollFails(p) \/ LastRead(p)
       PROVE  Apart(p)
  BY <1>1, <1>2, <1>10, <1>11 DEF PollFails, LastRead, HandPcs
<1>12. ASSUME SleepDropped(p) \/ PollClosed(p) \/ PollReopen(p) \/ PollReopened(p)
       PROVE  Apart(p)
  BY <1>1, <1>2, <1>3, <1>8, <1>12 DEF SleepDropped, PollClosed, PollReopen, PollReopened, HandPcs
<1>13. ASSUME ChannelConnected(p) \/ ChannelRead(p) \/ ChannelWrite(p) \/ ChannelUnsent(p)
       PROVE  Apart(p)
  BY <1>1, <1>2, <1>3, <1>13
  DEF ChannelConnected, ChannelRead, ChannelWrite, ChannelUnsent, HandPcs
<1> QED
  BY <1>4, <1>5, <1>6, <1>7, <1>9, <1>11, <1>12, <1>13 DEF CommandStep

\* Beside commands, too, a cancelled or failed call closes only a session it has
\* itself used, never one that a command has rebuilt meanwhile (connection.go
\* 13-16, 30-35).
THEOREM CommandsKeepForeign ==
  CommandSpec => ForeignSessionKept
<1>1. CommandIInv /\ [CommandNext]_allVars => [KeepsForeign]_vars
  <2> SUFFICES ASSUME CommandIInv, CommandNext
               PROVE  [KeepsForeign]_vars
    BY DEF allVars
  <2>0. GattIInv /\ proc \in [Procs -> AnyProc]
    BY DEF CommandIInv, GattIInv
  <2>1. ASSUME NEW p \in CommandCalls, CommandStep(p) \/ CancelOuter(p)
        PROVE  KeepsForeign
    <3> SUFFICES ASSUME NEW q \in Calls, proc[q].kind \in Cancellable,
                        proc'[q].pc = "disconnecting", proc[q].pc # "disconnecting"
                 PROVE  FALSE
      BY DEF KeepsForeign
    <3>1. q = p
      BY <2>0, <2>1, CommandApart DEF Apart, Procs, CancelOuter
    <3>2. proc[p].kind \notin CmdKinds /\ proc[p].kind \in OwnKinds
      BY <3>1, CommandLabelsTyped DEF Cancellable, OwnKinds, SessionKinds
    <3>3. proc[p].pc = "idle"
      BY <3>2 DEF CommandIInv, Known
    <3>4. ~CommandStep(p)
      BY <3>3 DEF CommandStep, EnterCommand, Attempt, CommandConnected, GaveUp, Backoff,
         BackoffWake, Write, WriteAmbiguous, WriteUnsent, GapEnds, PairRebuilt, FinalWrite,
         Confirm, Poll, PollWake, PollSeen, PollStops, PollFails, SleepDropped, PollClosed,
         PollReopen, PollReopened, ChannelConnected, ChannelRead, ChannelWrite, ChannelUnsent,
         LastRead, Locked, Unlocked, At
    <3> QED
      BY <2>1, <3>1, <3>4 DEF CancelOuter
  <2>2. ASSUME NEW p \in CommandCalls, NEW kind \in CommandKinds, BeginCommand(p, kind)
        PROVE  KeepsForeign
    <3>1. proc' = [proc EXCEPT ![p].kind = kind, ![p].pc = "enterCommand"] /\ p \in Procs
      BY <2>2, Calling DEF BeginCommand
    <3>2. \A q \in Procs : proc'[q].pc \in {proc[q].pc, "enterCommand"}
      BY <2>0, <3>1, ProcFields DEF AnyProc
    <3> QED
      BY <3>2 DEF KeepsForeign, Procs
  <2>3. CASE SessionNext
    <3>1. Next
      BY <2>3 DEF SessionNext, Next
    <3> QED
      BY <2>0, <3>1, ForeignStep
  <2> QED
    BY <2>1, <2>2, <2>3 DEF CommandNext
<1> QED
  BY <1>1, CommandInvariant, PTL DEF CommandSpec, ForeignSessionKept, KeepsForeign

\* A step of a command leaves the session where it is.
LEMMA CommandStutters ==
  ASSUME CommandIInv, NEW p \in CommandCalls, CommandStep(p)
  PROVE  UNCHANGED <<sessionVars, transportVars, eventVars>> /\ UNCHANGED HandsMapped
<1>1. UNCHANGED <<sessionVars, transportVars, eventVars>>
  BY DEF CommandStep, EnterCommand, Attempt, CommandConnected, GaveUp, Backoff,
     BackoffWake, Write, WriteAmbiguous, WriteUnsent, GapEnds, PairRebuilt, FinalWrite,
     Confirm, Poll, PollWake, PollSeen, PollStops, PollFails, SleepDropped, PollClosed,
     PollReopen, PollReopened, ChannelConnected, ChannelRead, ChannelWrite, ChannelUnsent,
     LastRead, SessionSame
<1>2. proc[p].pc \in CommandLabels
  BY DEF CommandStep, EnterCommand, Attempt, CommandConnected, GaveUp, Backoff,
     BackoffWake, Write, WriteAmbiguous, WriteUnsent, GapEnds, PairRebuilt, FinalWrite,
     Confirm, Poll, PollWake, PollSeen, PollStops, PollFails, SleepDropped, PollClosed,
     PollReopen, PollReopened, ChannelConnected, ChannelRead, ChannelWrite, ChannelUnsent,
     LastRead, Locked, Unlocked, At, CommandLabels
<1>3. proc \in [Procs -> AnyProc] /\ proc[p].pc \notin HandPcs
  BY <1>2, CommandLabelsTyped DEF CommandIInv, GattIInv
<1>4. UNCHANGED HandsMapped
  BY <1>3, CommandApart, HandsStay DEF Apart
<1> QED
  BY <1>1, <1>4

\* Beside commands, too, a session is opened when none is open, handed on and
\* closed by one process at a time, and detached by an event only when its own
\* link has dropped (connection.go 443-447, 478-484; model.go 57-61).
THEOREM CommandsImplementOwner ==
  CommandSpec => ImplementsSessionOwner
<1>1. CommandIInv /\ OwnerShape /\ [CommandNext]_allVars => OwnerShape' /\ [Owner!Next]_(Owner!vars)
  <2> SUFFICES ASSUME CommandIInv, OwnerShape, [CommandNext]_allVars
               PROVE  OwnerShape' /\ (Owner!Next \/ UNCHANGED Owner!vars)
    OBVIOUS
  <2>0. GattIInv /\ proc \in [Procs -> AnyProc]
    BY DEF CommandIInv, GattIInv
  <2>1. ASSUME UNCHANGED <<sessionVars, transportVars, eventVars>>, UNCHANGED HandsMapped
        PROVE  OwnerShape' /\ UNCHANGED Owner!vars
    <3>1. UNCHANGED <<device, chars, pending>>
      BY <2>1 DEF sessionVars
    <3>2. Told' = Told /\ (down \cup released)' = down \cup released
      BY <2>1 DEF Told, eventVars, transportVars
    <3> QED
      BY <2>1, <3>1, <3>2, OwnerStutter DEF OwnerShape
  <2>2. ASSUME NEW p \in CommandCalls, CommandStep(p)
        PROVE  OwnerShape' /\ UNCHANGED Owner!vars
    BY <2>1, <2>2, CommandStutters
  <2>3. ASSUME NEW p \in CommandCalls, CancelOuter(p)
        PROVE  OwnerShape' /\ UNCHANGED Owner!vars
    <3>1. UNCHANGED <<sessionVars, transportVars, eventVars>> /\ UNCHANGED HandsMapped
      BY <2>3 DEF CancelOuter, SessionSame, HandsMapped, HandOf, Opening, InHandAt, At
    <3> QED
      BY <2>1, <3>1
  <2>4. ASSUME NEW p \in CommandCalls, NEW kind \in CommandKinds, BeginCommand(p, kind)
        PROVE  OwnerShape' /\ UNCHANGED Owner!vars
    <3>1. /\ proc[p].pc = "idle" /\ p \in Procs
          /\ proc' = [proc EXCEPT ![p].kind = kind, ![p].pc = "enterCommand"]
          /\ UNCHANGED <<sessionVars, transportVars, eventVars>>
      BY <2>4, Calling DEF BeginCommand, At, SessionSame
    <3>2. proc'[p].pc = "enterCommand" /\ \A q \in Procs \ {p} : proc'[q] = proc[q]
      BY <2>0, <3>1, ProcFields DEF AnyProc
    <3>3. UNCHANGED HandsMapped
      BY <3>1, <3>2, HandsStay DEF HandPcs
    <3> QED
      BY <2>1, <3>1, <3>3
  <2>5. CASE SessionNext
    <3>1. Next
      BY <2>5 DEF SessionNext, Next
    <3> QED
      BY <2>0, <3>1, OwnerStep
  <2>6. CASE UNCHANGED allVars
    <3>1. UNCHANGED vars
      BY <2>6 DEF allVars
    <3> QED
      BY <2>0, <3>1, OwnerStep
  <2> QED
    BY <2>2, <2>3, <2>4, <2>5, <2>6 DEF CommandNext
<1>2. CommandInit => OwnerShape /\ Owner!Init
  BY OwnerStarts DEF CommandInit
<1> QED
  BY <1>1, <1>2, CommandInvariant, PTL DEF CommandSpec, ImplementsSessionOwner, Owner!Spec

=============================================================================
