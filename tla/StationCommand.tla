--------------------------- MODULE StationCommand ---------------------------
(***************************************************************************)
(* The commands of one base station (internal/bluetooth/power.go and       *)
(* channel.go) over its GATT session: SetPowerStateContext with its paired *)
(* sleep write and its confirmation by readback, SetChannelContext and     *)
(* IdentifyContext.  A command shares the session, the lock and the        *)
(* disconnect events of GattSession with the other calls.                  *)
(*                                                                         *)
(* A write is told apart by what the transport reports and by whether the  *)
(* byte reached the station; the two differ when the report is ambiguous   *)
(* (PossiblySentError).  The bytes of a call are "prepare", the 0x01 that  *)
(* precedes a sleep, and "final", the command itself.                      *)
(***************************************************************************)
EXTENDS GattSession

CONSTANTS
    CommandCalls,       \* the calls that are commands
    CommandKinds,       \* their kinds
    WriteAttempts,      \* TimingPolicy.WriteAttempts and IdentifyAttempts
    ConfirmAttempts,    \* TimingPolicy.ConfirmAttemptsOn, Off and Channel...
    FallbackAttempts,   \* bootFallbackConfirmAttempts of the policy
    ReconnectThreshold, \* TimingPolicy.ConfirmReconnectThreshold
    MaxExtensions       \* maxConfirmReconnectExtensions

ASSUME CommandAssumption ==
    /\ CommandCalls \subseteq Calls
    /\ CommandKinds \subseteq {"on", "standby", "sleep", "channel", "identify"}
    /\ {WriteAttempts, ConfirmAttempts, ReconnectThreshold} \subseteq Nat \ {0}
    /\ {FallbackAttempts, MaxExtensions} \subseteq Nat

PowerKinds == {"on", "standby", "sleep"}
Bytes == {"prepare", "final"}

VARIABLES
    cmd,        \* the progress of each command
    wrote,      \* how often each byte of a command may have been sent
    reached     \* the bytes that reached the station, as <<call, byte>>

cmdVars == <<cmd, wrote, reached>>
allVars == <<vars, cmdVars>>

NoCommand == [attempt |-> 0, poll |-> 0, budget |-> 0, errors |-> 0, extended |-> 0,
              outer |-> FALSE, detached |-> FALSE, verdict |-> "none"]

CommandInit ==
    /\ Init
    /\ cmd = [p \in CommandCalls |-> NoCommand]
    /\ wrote = [p \in CommandCalls |-> [b \in Bytes |-> 0]]
    /\ reached = {}

Kind(p) == proc[p].kind
LastAttempt(p) == cmd[p].attempt + 1 >= WriteAttempts

\* A command is over: what it tells its caller of the write; the wording of its
\* error is left out.
Settle(p, verdict) ==
    /\ cmd' = [cmd EXCEPT ![p] = [NoCommand EXCEPT !.verdict = verdict]]
    /\ proc' = [proc EXCEPT ![p] = [Idle EXCEPT !.pc = "done", !.kind = Kind(p)]]
    /\ lock' = NoOne

SessionSame == UNCHANGED <<sessionVars, transportVars, eventVars, ctxDone>>
NothingWritten == UNCHANGED <<wrote, reached>>

BeginCommand(p, kind) ==
    /\ At(p, "idle")
    /\ proc' = [proc EXCEPT ![p].kind = kind, ![p].pc = "enterCommand"]
    /\ UNCHANGED <<lock, cmd>> /\ SessionSame /\ NothingWritten

EnterCommand(p) ==
    /\ Unlocked(p, "enterCommand")
    /\ IF CtxDone(p)
       THEN Settle(p, "unsent")
       ELSE /\ lock' = p /\ UNCHANGED cmd
            /\ IF Kind(p) = "channel"
               THEN Call(p, "connect", "channelConnected")
               ELSE Goto(p, "attempt")
    /\ SessionSame /\ NothingWritten

-----------------------------------------------------------------------------
(* The write attempts of SetPowerStateContext and IdentifyContext.         *)
(***************************************************************************)
Attempt(p) ==
    /\ Locked(p, "attempt")
    /\ \/ cmd[p].attempt >= WriteAttempts /\ Settle(p, "unsent")
       \/ /\ cmd[p].attempt < WriteAttempts /\ CtxDone(p)
          /\ Settle(p, "unsent")
       \/ /\ cmd[p].attempt < WriteAttempts /\ ~CtxDone(p)
          /\ Call(p, "connect", "commandConnected")
          /\ UNCHANGED <<lock, cmd>>
    /\ SessionSame /\ NothingWritten

\* A connect that never started leaves the session alone; after another
\* failure it is closed, and the command waits for its next attempt.
\* IdentifyContext ends at once if its context is done by then.
CommandConnected(p) ==
    /\ Locked(p, "commandConnected")
    /\ LET ends == LastAttempt(p) \/ (Kind(p) = "identify" /\ CtxDone(p)) IN
       \/ proc[p].res = "notStarted" /\ Settle(p, "unsent")
       \/ /\ proc[p].res \in {"fail", "cancelled"}
          /\ Call(p, "disconnect", IF ends THEN "gaveUp" ELSE "backoff")
          /\ UNCHANGED <<lock, cmd>>
       \/ proc[p].res = "ok" /\ Goto(p, "write") /\ UNCHANGED <<lock, cmd>>
       \/ proc[p].res = "ok" /\ Settle(p, "unsent")
    /\ SessionSame /\ NothingWritten

GaveUp(p) ==
    /\ Locked(p, "gaveUp")
    /\ Settle(p, "unsent")
    /\ SessionSame /\ NothingWritten

\* retryBackoff: the wait between attempts runs outside the lock.
Backoff(p) ==
    /\ Locked(p, "backoff")
    /\ lock' = NoOne
    /\ Goto(p, "backoffWait")
    /\ UNCHANGED cmd /\ SessionSame /\ NothingWritten

BackoffWake(p) ==
    /\ Unlocked(p, "backoffWait")
    /\ \/ /\ lock' = p
          /\ cmd' = [cmd EXCEPT ![p].attempt = @ + 1]
          /\ Goto(p, "attempt")
       \/ CtxDone(p) /\ Settle(p, "unsent")
    /\ SessionSame /\ NothingWritten

-----------------------------------------------------------------------------
(* writeCharacteristicValueInternal: one byte, and what is known of it.    *)
(***************************************************************************)
Count(p, byte) == wrote' = [wrote EXCEPT ![p][byte] = @ + 1]
Reach(p, byte) == reached' = reached \cup {<<p, byte>>}

\* Reported as written.
Written(p, byte) ==
    /\ device \notin down
    /\ Count(p, byte) /\ Reach(p, byte)

\* Reported as possibly sent: a short write, a failure the transport does not
\* classify, a cancellation after the write was submitted.
PossiblySent(p, byte) ==
    /\ Count(p, byte)
    /\ Reach(p, byte) \/ UNCHANGED reached

FirstByte(p) == IF Kind(p) = "sleep" THEN "prepare" ELSE "final"

\* A sleep goes on with its settling gap, outside the lock; a power command
\* is confirmed; an identify signal has nothing to confirm.
Write(p) ==
    /\ Locked(p, "write")
    /\ Written(p, FirstByte(p))
    /\ CASE Kind(p) = "sleep" -> Goto(p, "gap") /\ lock' = NoOne /\ UNCHANGED cmd
         [] Kind(p) = "identify" -> Settle(p, "sent")
         [] OTHER -> Goto(p, "confirm") /\ UNCHANGED <<lock, cmd>>
    /\ SessionSame

\* Mutant: a write that may have been sent is tried again.
WriteRepeated(p) ==
    /\ Locked(p, "write")
    /\ PossiblySent(p, FirstByte(p))
    /\ Goto(p, "backoff")
    /\ UNCHANGED <<lock, cmd>> /\ SessionSame

\* Never replayed: an ambiguous prepare ends the command unconfirmed, with no
\* final byte; another command may still be confirmed by readback.
WriteAmbiguous(p) ==
    /\ Locked(p, "write")
    /\ PossiblySent(p, FirstByte(p))
    /\ IF Kind(p) \in {"sleep", "identify"}
       THEN Settle(p, "sent")
       ELSE Goto(p, "confirm") /\ UNCHANGED <<lock, cmd>>
    /\ SessionSame

\* Reported as unsent: by the context before submission, by a capability the
\* peer denies, by the transport or by the peer.  The transport's own report
\* keeps the session, another rejection closes it; both are tried again.
WriteUnsent(p) ==
    /\ Locked(p, "write")
    /\ \/ CtxDone(p) /\ Settle(p, "unsent")
       \/ Settle(p, "unsent")
       \/ /\ Kind(p) # "identify"
          /\ IF LastAttempt(p)
             THEN Settle(p, "unsent")
             ELSE /\ proc' = [proc EXCEPT ![p].pc = "backoff"]
                  /\ UNCHANGED <<lock, cmd>>
       \/ /\ proc' = [proc EXCEPT ![p].pc = "disconnect",
                                  ![p].stack = <<IF LastAttempt(p) THEN "gaveUp" ELSE "backoff">>]
          /\ UNCHANGED <<lock, cmd>>
    /\ SessionSame /\ NothingWritten

-----------------------------------------------------------------------------
(* writeSleepCommandPair after the prepare: the final byte has a budget of *)
(* its own, whatever became of the caller's context, and a session lost in *)
(* the gap is rebuilt for it.                                              *)
(***************************************************************************)
GapEnds(p) ==
    /\ Unlocked(p, "gap")
    /\ lock' = p
    /\ cmd' = [cmd EXCEPT ![p].outer = CtxDone(p), ![p].detached = TRUE]
    /\ ctxDone' = ctxDone \ {p}
    /\ IF chars THEN Goto(p, "finalWrite") ELSE Call(p, "connect", "pairRebuilt")
    /\ UNCHANGED <<sessionVars, transportVars, eventVars>> /\ NothingWritten

\* The caller's context counts again once the pair is over.
Reattach(p) ==
    /\ cmd' = [cmd EXCEPT ![p].detached = FALSE]
    /\ ctxDone' = IF cmd[p].outer THEN ctxDone \cup {p} ELSE ctxDone \ {p}

\* Mutant: without its final byte a sleep counts as not sent.
PairUnsent(p) ==
    /\ Locked(p, "pairRebuilt")
    /\ IF proc[p].res = "ok"
       THEN Goto(p, "finalWrite") /\ UNCHANGED <<lock, cmd, ctxDone>>
       ELSE Settle(p, "unsent") /\ UNCHANGED ctxDone
    /\ UNCHANGED <<sessionVars, transportVars, eventVars>> /\ NothingWritten

PairRebuilt(p) ==
    /\ Locked(p, "pairRebuilt")
    /\ IF proc[p].res = "ok"
       THEN Goto(p, "finalWrite") /\ UNCHANGED <<cmd, ctxDone>>
       ELSE Goto(p, "confirm") /\ Reattach(p)
    /\ UNCHANGED <<lock, sessionVars, transportVars, eventVars>> /\ NothingWritten

FinalWrite(p) ==
    /\ Locked(p, "finalWrite")
    /\ \/ Written(p, "final")
       \/ PossiblySent(p, "final")
       \/ NothingWritten
    /\ Goto(p, "confirm")
    /\ Reattach(p)
    /\ UNCHANGED <<lock, sessionVars, transportVars, eventVars>>

-----------------------------------------------------------------------------
(* confirmPowerStateInternalContext and confirmChannelWrite.               *)
(***************************************************************************)
\* A station that cannot be read settles unconfirmed.  A power-on covers the
\* boot fallback window whatever attempts are configured.
Confirm(p) ==
    /\ Locked(p, "confirm")
    /\ \/ Kind(p) # "channel" /\ Settle(p, "sent")
       \/ /\ cmd' = [cmd EXCEPT
               ![p].budget = IF Kind(p) = "on" /\ FallbackAttempts > ConfirmAttempts
                             THEN FallbackAttempts ELSE ConfirmAttempts]
          /\ Goto(p, "poll")
          /\ UNCHANGED lock
    /\ SessionSame /\ NothingWritten

\* Out of attempts or of time: a power command is over, a channel is read once
\* more.
PollsOver(p) ==
    IF Kind(p) = "channel"
    THEN Goto(p, "lastRead") /\ UNCHANGED cmd
    ELSE Settle(p, "sent")

\* A power command reads at once and waits between reads; a channel waits
\* before every read.  The waits run outside the lock.
Poll(p) ==
    /\ Locked(p, "poll")
    /\ CASE cmd[p].poll >= cmd[p].budget -> PollsOver(p) /\ (Kind(p) = "channel" => UNCHANGED lock)
         [] cmd[p].poll < cmd[p].budget /\ CtxDone(p) /\ Kind(p) # "channel" -> PollsOver(p)
         [] OTHER ->
              /\ UNCHANGED cmd
              /\ IF cmd[p].poll = 0 /\ Kind(p) # "channel"
                 THEN Goto(p, "pollRead") /\ UNCHANGED lock
                 ELSE Goto(p, "pollWait") /\ lock' = NoOne
    /\ SessionSame /\ NothingWritten

PollWake(p) ==
    /\ Unlocked(p, "pollWait")
    /\ \/ lock' = p /\ Goto(p, "pollRead") /\ UNCHANGED cmd
       \/ CtxDone(p) /\ PollsOver(p) /\ (Kind(p) = "channel" => lock' = p)
    /\ SessionSame /\ NothingWritten

Readable == device # None /\ chars /\ device \notin down

\* A readback that shows the target, and one that shows something else.
PollSeen(p) ==
    /\ Locked(p, "pollRead") /\ Readable
    /\ \/ Settle(p, "confirmed")
       \/ /\ cmd' = [cmd EXCEPT ![p].errors = 0, ![p].poll = @ + 1]
          /\ Goto(p, "poll")
          /\ UNCHANGED lock
    /\ SessionSame /\ NothingWritten

\* A failure that no reconnect can change, or the context, ends the polls.
PollStops(p) ==
    /\ Locked(p, "pollRead") /\ chars
    /\ PollsOver(p)
    /\ Kind(p) = "channel" => UNCHANGED lock
    /\ SessionSame /\ NothingWritten

\* A failure of the link: a sleeping station drops it, which ends the polls;
\* else the session is rebuilt after ReconnectThreshold failures in a row.
PollFails(p) ==
    /\ Locked(p, "pollRead")
    /\ UNCHANGED lock
    /\ IF Kind(p) = "sleep"
       THEN /\ proc' = [proc EXCEPT ![p].pc = "disconnect", ![p].uses = device,
                                    ![p].stack = <<"sleepDropped">>]
            /\ UNCHANGED cmd
       ELSE IF cmd[p].errors + 1 >= ReconnectThreshold /\ cmd[p].poll < cmd[p].budget - 1
       THEN /\ proc' = [proc EXCEPT ![p].pc = "disconnect", ![p].uses = device,
                                    ![p].stack = <<"pollClosed">>]
            /\ UNCHANGED cmd
       ELSE /\ cmd' = [cmd EXCEPT ![p].errors = @ + 1, ![p].poll = @ + 1]
            /\ Goto(p, "poll")
    /\ SessionSame /\ NothingWritten

SleepDropped(p) ==
    /\ Locked(p, "sleepDropped")
    /\ Settle(p, "sent")
    /\ SessionSame /\ NothingWritten

PollClosed(p) ==
    /\ Locked(p, "pollClosed")
    /\ Goto(p, "pollReopen") /\ lock' = NoOne
    /\ UNCHANGED cmd /\ SessionSame /\ NothingWritten

PollReopen(p) ==
    /\ Unlocked(p, "pollReopen")
    /\ \/ lock' = p /\ Call(p, "connect", "pollReopened") /\ UNCHANGED cmd
       \/ CtxDone(p) /\ PollsOver(p) /\ (Kind(p) = "channel" => lock' = p)
    /\ SessionSame /\ NothingWritten

\* Mutant: every reconnect restarts the boot window.
PollRestarted(p) ==
    /\ Locked(p, "pollReopened")
    /\ cmd' = [cmd EXCEPT ![p].errors = 0, ![p].poll = @ + 1,
                          ![p].budget = cmd[p].poll + 1 + FallbackAttempts]
    /\ Goto(p, "poll")
    /\ UNCHANGED lock /\ SessionSame /\ NothingWritten

\* A reconnect, whether it succeeded or not, starts the count of failures
\* anew, and for a power-on the boot window: the budget covers it again, a
\* bounded number of times.
PollReopened(p) ==
    /\ Locked(p, "pollReopened")
    /\ LET restarted == cmd[p].poll + 1 + FallbackAttempts
           extends == /\ Kind(p) = "on" /\ cmd[p].extended < MaxExtensions
                      /\ FallbackAttempts > 0 /\ restarted > cmd[p].budget
       IN  cmd' = [cmd EXCEPT ![p].errors = 0, ![p].poll = @ + 1,
                              ![p].budget = IF extends THEN restarted ELSE @,
                              ![p].extended = IF extends THEN @ + 1 ELSE @]
    /\ Goto(p, "poll")
    /\ UNCHANGED lock /\ SessionSame /\ NothingWritten

-----------------------------------------------------------------------------
(* SetChannelContext: connect, read, write once, confirm.                  *)
(***************************************************************************)
ChannelConnected(p) ==
    /\ Locked(p, "channelConnected")
    /\ \/ proc[p].res = "notStarted" /\ Settle(p, "unsent")
       \/ /\ proc[p].res \in {"fail", "cancelled"}
          /\ Call(p, "disconnect", "gaveUp") /\ UNCHANGED <<lock, cmd>>
       \/ proc[p].res = "ok" /\ Goto(p, "channelRead") /\ UNCHANGED <<lock, cmd>>
       \/ proc[p].res = "ok" /\ Settle(p, "unsent")
    /\ SessionSame /\ NothingWritten

\* A channel that is already set is not written; one that cannot be read is
\* not changed, and a failure of the link closes the session.
ChannelRead(p) ==
    /\ Locked(p, "channelRead")
    /\ \/ Readable /\ Settle(p, "unsent")
       \/ Readable /\ Goto(p, "channelWrite") /\ UNCHANGED <<lock, cmd>>
       \/ Settle(p, "unsent")
       \/ /\ Call(p, "disconnect", "gaveUp") /\ UNCHANGED <<lock, cmd>>
    /\ SessionSame /\ NothingWritten

ChannelWrite(p) ==
    /\ Locked(p, "channelWrite")
    /\ Written(p, "final") \/ PossiblySent(p, "final")
    /\ Goto(p, "confirm")
    /\ UNCHANGED <<lock, cmd>> /\ SessionSame

\* A write that is known not to have been sent is read back once: another
\* operation may have reached the channel, and that too is not a sent command.
ChannelUnsent(p) ==
    /\ Locked(p, "channelWrite")
    /\ \/ CtxDone(p) /\ Settle(p, "unsent")
       \/ Settle(p, "unsent")
       \/ Readable /\ Settle(p, "unsent")
       \/ Call(p, "disconnect", "gaveUp") /\ UNCHANGED <<lock, cmd>>
    /\ SessionSame /\ NothingWritten

LastRead(p) ==
    /\ Locked(p, "lastRead")
    /\ \/ Readable /\ Settle(p, "confirmed")
       \/ Settle(p, "sent")
       \/ /\ proc' = [proc EXCEPT ![p].pc = "disconnect", ![p].uses = device,
                                  ![p].stack = <<"sleepDropped">>]
          /\ UNCHANGED <<lock, cmd>>
    /\ SessionSame /\ NothingWritten

-----------------------------------------------------------------------------
\* The caller's context is cancelled while the final byte runs on its own.
CancelOuter(p) ==
    /\ cmd[p].detached /\ ~cmd[p].outer
    /\ cmd' = [cmd EXCEPT ![p].outer = TRUE]
    /\ UNCHANGED <<lock, proc>> /\ SessionSame /\ NothingWritten

CommandStep(p) ==
    \/ EnterCommand(p) \/ Attempt(p) \/ CommandConnected(p) \/ GaveUp(p)
    \/ Backoff(p) \/ BackoffWake(p)
    \/ Write(p) \/ WriteAmbiguous(p) \/ WriteUnsent(p)
    \/ GapEnds(p) \/ PairRebuilt(p) \/ FinalWrite(p)
    \/ Confirm(p) \/ Poll(p) \/ PollWake(p) \/ PollSeen(p) \/ PollStops(p) \/ PollFails(p)
    \/ SleepDropped(p) \/ PollClosed(p) \/ PollReopen(p) \/ PollReopened(p)
    \/ ChannelConnected(p) \/ ChannelRead(p) \/ ChannelWrite(p) \/ ChannelUnsent(p)
    \/ LastRead(p)

SessionNext ==
    \/ \E p \in Procs : ProcStep(p)
    \/ \E p \in Calls : Cancel(p)
    \/ \E p \in Calls \ CommandCalls : \E kind \in Kinds[p] : Begin(p, kind)
    \/ EventStep

CommandNext ==
    \/ \E p \in CommandCalls : CommandStep(p) \/ CancelOuter(p)
    \/ \E p \in CommandCalls, kind \in CommandKinds : BeginCommand(p, kind)
    \/ SessionNext /\ UNCHANGED cmdVars

CommandSpec == CommandInit /\ [][CommandNext]_allVars

-----------------------------------------------------------------------------
(* Types and properties.                                                   *)
(***************************************************************************)
\* Every variable of the commands holds a value of its type.
CommandTypeOK ==
    /\ \A p \in CommandCalls :
          /\ cmd[p].attempt \in 0..WriteAttempts
          /\ {cmd[p].poll, cmd[p].budget, cmd[p].errors, cmd[p].extended} \subseteq Nat
          /\ cmd[p].outer \in BOOLEAN /\ cmd[p].detached \in BOOLEAN
          /\ cmd[p].verdict \in {"none", "confirmed", "sent", "unsent"}
          /\ wrote[p] \in [Bytes -> Nat]
    /\ reached \subseteq CommandCalls \X Bytes

\* A command that may have been sent is confirmed, never replayed, across
\* retries, reconnects and the paired sleep write (model.go 104-105,
\* power.go 204-232, 618-636).
NeverReplayed == \A p \in CommandCalls, b \in Bytes : wrote[p][b] <= 1

\* A command reported as not sent has not reached the station, not even with
\* the byte that prepares a sleep (power.go 510-513, 618-626; channel.go 95-97).
UnsentIsUnsent ==
    \A p \in CommandCalls :
        cmd[p].verdict = "unsent" => \A b \in Bytes : <<p, b>> \notin reached

\* The variables have their types and nothing reported unsent was received.
CommandInv == CommandTypeOK /\ UnsentIsUnsent

\* A confirmation ends after a bounded number of reads even for a station that
\* never answers and a caller without a deadline (power.go 266-272).
PollsBounded ==
    LET first == IF FallbackAttempts > ConfirmAttempts THEN FallbackAttempts ELSE ConfirmAttempts
    IN  \A p \in CommandCalls : cmd[p].poll <= first + MaxExtensions * FallbackAttempts

====
