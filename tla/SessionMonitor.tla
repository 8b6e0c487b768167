---------------------------- MODULE SessionMonitor ----------------------------
(***************************************************************************)
(* The two data types of internal/autosleep as values: the Monitor, which  *)
(* follows the watched process, and the trigger debt of a Watcher.         *)
(*                                                                         *)
(* A session of the watched process is named by a key (the code uses the   *)
(* time at which it was seen closed, closedAt); None is the zero time.     *)
(* Time itself is not modelled: whether the delay has elapsed is an input. *)
(***************************************************************************)
CONSTANT None

\* A closed countdown always runs from a session.
MonitorOf(Sessions) ==
  {m \in [state : {"idle", "running", "closed"}, key : Sessions \cup {None}] :
     m.state = "closed" => m.key # None}

NewMonitor == [state |-> "idle", key |-> None]

NewMonitorContinuing(key) == [state |-> "closed", key |-> key]

\* A consumed countdown is turned back into a closed one.
Replacement(monitor, triggerOwed) ==
  IF triggerOwed /\ monitor.key # None
    THEN NewMonitorContinuing(monitor.key) ELSE monitor

ConsumeActiveCountdown(monitor) ==
  IF monitor.state = "closed" THEN [monitor EXCEPT !.state = "idle"] ELSE monitor

\* Poll with the process up; closedAt keeps the last session's value.
PollUp(monitor) == [monitor EXCEPT !.state = "running"]

\* Poll with the process down: session is what a close seen now is named.
PollDown(monitor, session, elapsed) ==
  CASE monitor.state = "running" -> NewMonitorContinuing(session)
    [] monitor.state = "closed" /\ elapsed -> [monitor EXCEPT !.state = "idle"]
    [] OTHER -> monitor

\* ... and it answers ActionTrigger.
Triggers(monitor, elapsed) == monitor.state = "closed" /\ elapsed

-----------------------------------------------------------------------------
(* The debt: a consumed trigger whose sleep has not settled.  triggerOwed is *)
(* key # None.  The generation is kept with the action, as "newest".         *)

DebtOf(Sessions) == [key : Sessions \cup {None}, carried : BOOLEAN]

NoDebt == [key |-> None, carried |-> FALSE]

SeedOwedSession(key) == [key |-> key, carried |-> TRUE]

\* A trigger joins an inherited debt under that debt's key.
QueueMonitorTrigger(debt, closedAt) ==
  IF debt.key # None /\ debt.carried THEN debt
  ELSE [debt EXCEPT !.key = closedAt]

ClearSessionDebtUnlessCarried(debt) ==
  IF debt.carried THEN debt ELSE NoDebt
=============================================================================
