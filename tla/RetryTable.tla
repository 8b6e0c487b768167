----------------------------- MODULE RetryTable -----------------------------
(***************************************************************************)
(* One entry of the recovery table: what the background recovery still     *)
(* owes to one station.  The source keeps a bit set of kinds and one       *)
(* schedule per kind (internal/station/manager.go, type statusRetry); here *)
(* an entry is the function from the kinds owed to their schedules, and    *)
(* the function with the empty domain is the station without an entry.     *)
(*                                                                         *)
(* Time is counted down: a schedule's "next" is the number of ticks until  *)
(* it is due, 0 once it is.  Failures are counted up to FailureCap, past   *)
(* which neither the delay nor the limit tells two counts apart.  The two  *)
(* legacy forms of an entry (no kind, a channel schedule kept in the       *)
(* connection's fields) are not modelled: no code creates them any more.   *)
(***************************************************************************)
EXTENDS Integers, FiniteSets

CONSTANTS MaxDelay,       \* the longest delay, in ticks
          FailureCap,     \* failures are counted no further
          MetadataLimit   \* metadata is given up after so many failures

ASSUME DelayAssumption == MaxDelay \in Nat \ {0}
ASSUME CapAssumption == FailureCap \in Nat \ {0}
ASSUME MetadataAssumption == MetadataLimit \in 1..FailureCap

Kinds == {"connection", "channel", "metadata", "refresh"}

\* The kinds an absent station is given up for.
LimitedKinds == {"connection", "channel"}

Schedules == [next : 0..MaxDelay, failures : 0..FailureCap]

Entries == UNION {[S -> Schedules] : S \in SUBSET Kinds}

NoEntry == [k \in {} |-> {}]

Lesser(a, b) == IF a < b THEN a ELSE b
Later(a, b) == IF a < b THEN b ELSE a
Least(S) == CHOOSE n \in S : \A m \in S : n <= m

\* statusRetryDelay: doubled with every failure, never past the maximum.
Delay(base, failures) ==
    LET doubled == IF failures = 0 THEN base ELSE base * 2 ^ (failures - 1)
    IN  IF doubled \in 1..MaxDelay THEN doubled ELSE MaxDelay

\* A schedule that is due at once and counts no failure.
Due == [next |-> 0, failures |-> 0]

Put(e, k, s) == [x \in DOMAIN e \cup {k} |-> IF x = k THEN s ELSE e[x]]

\* clearStatusFailureKind: the entry goes with its last kind.
Clear(e, ks) == [k \in DOMAIN e \ ks |-> e[k]]

\* The kinds with a failure behind them, whose delay is running.
Failed(e) == {k \in DOMAIN e : e[k].failures > 0}

Failures(e, k) == IF k \in DOMAIN e THEN e[k].failures ELSE 0

\* The backoff a refresh marker must not undercut.
Backoff(e) == IF "connection" \in DOMAIN e THEN e["connection"].next ELSE 0

-----------------------------------------------------------------------------

\* trackStatusRefreshPending: mark a read as owed, no earlier than the
\* connection's backoff ends and no later than an earlier marker said.
TrackPending(e) ==
    LET due == Backoff(e)
        at == IF "refresh" \in DOMAIN e THEN Lesser(e["refresh"].next, due)
              ELSE due
    IN  Put(e, "refresh", [next |-> at, failures |-> 0])

\* Mutant: a failure leaves an earlier marker where it was.
NoteFailureUnclamped(e, kind, base) ==
    LET count == Lesser(Failures(e, kind) + 1, FailureCap)
        noted == Put(e, kind, [next |-> Delay(base, count), failures |-> count])
    IN  IF kind = "metadata" /\ count >= MetadataLimit
        THEN Clear(e, {"metadata"})
        ELSE noted

\* noteStatusFailureKind: one more failure, the delay that follows from it,
\* and a refresh marker pushed behind a connection backoff.
NoteFailure(e, kind, base) ==
    LET count == Lesser(Failures(e, kind) + 1, FailureCap)
        noted == Put(e, kind, [next |-> Delay(base, count), failures |-> count])
    IN  IF kind = "metadata" /\ count >= MetadataLimit
        THEN Clear(e, {"metadata"})
        ELSE IF kind = "connection" /\ "refresh" \in DOMAIN e
             THEN [noted EXCEPT !["refresh"].next = Later(@, Delay(base, count))]
             ELSE noted

\* deferStatusRecovery: no kind is due before d ticks have passed.
Defer(e, d) == [k \in DOMAIN e |-> [e[k] EXCEPT !.next = Later(@, d)]]

\* ensureStatusRecoveryTracked: a disconnect seen now is served at once,
\* unless the connection's own backoff runs already.
EnsureTracked(e) ==
    IF "connection" \in DOMAIN e THEN e ELSE Put(e, "connection", Due)

\* rebaseRecoveryForRevivedStation: due at once, the failures kept.
Rebase(e) ==
    LET tracked == EnsureTracked(e)
    IN  [k \in DOMAIN tracked |-> IF k \in LimitedKinds
                                  THEN [tracked[k] EXCEPT !.next = 0]
                                  ELSE tracked[k]]

\* The limited work of ReviveAbsentStationRecovery, for an entry that was
\* exhausted: what is still tracked keeps its failures and its backoff.
Revive(e) ==
    IF DOMAIN e \cap LimitedKinds # {} THEN e
    ELSE Put(Put(e, "connection", Due), "channel", Due)

\* pruneExhaustedAbsentRetry.
PruneExhausted(e, limit) ==
    Clear(e, {k \in DOMAIN e \cap LimitedKinds : e[k].failures >= limit})

\* ApplyRecoverySettings on one entry: the delays already running are
\* counted again from the last failure.  "since" is the time since that
\* failure, which the entry does not keep.
Reschedule(e, base, since) ==
    [k \in DOMAIN e |->
        IF k \in Failed(e)
        THEN [e[k] EXCEPT !.next =
                 Later(Delay(base, e[k].failures) - since[k], 0)]
        ELSE e[k]]

\* One tick of the clock.
Elapse(e) == [k \in DOMAIN e |-> [e[k] EXCEPT !.next = Later(@ - 1, 0)]]

\* statusRetryOrderAndKind: the earliest deadline of an entry, and the kinds
\* that may be served under it.  Which of several overdue kinds is older is
\* not kept, so any of them may be.
NextDue(e) == Least({e[k].next : k \in DOMAIN e})
ServedKinds(e) == {k \in DOMAIN e : e[k].next = NextDue(e)}

-----------------------------------------------------------------------------

\* What a read says of the power value and of the channel value.
\*   ok        read, not supported, or a value the device malformed
\*   slow      its own deadline, a cancellation, or a protocol rejection of
\*             the power read: no evidence against the link
\*   rejected  a channel read the station answered with a failure
\*   dead      the link or the adapter is gone
PowerResults == {"unread", "ok", "slow", "dead"}
ChannelResults == {"unread", "ok", "slow", "rejected", "dead"}

BreaksLink(power, channel) == power = "dead" \/ channel = "dead"

\* The power half of recordObservedReadResult.
RecordPower(e, power, base) ==
    CASE power = "unread" -> e
      [] power = "ok" -> Clear(e, {"connection"})
      [] power \in {"slow", "dead"} -> NoteFailure(e, "connection", base)

\* Mutant: a dead link is counted by the power read and by the channel read.
RecordObservedTwice(e, power, channel, base) ==
    LET p == RecordPower(e, power, base)
        noted == NoteFailure(p, "channel", base)
    IN  CASE channel = "unread" -> p
          [] channel = "ok" -> Clear(p, {"channel"})
          [] channel = "slow" -> TrackPending(p)
          [] channel = "rejected" -> noted
          [] channel = "dead" -> NoteFailure(noted, "connection", base)

\* recordObservedReadResult and recordStructuredReadResult: one dead link
\* counts as one connection failure, whichever of the two reads met it.
RecordObserved(e, power, channel, base) ==
    LET p == RecordPower(e, power, base)
        noted == NoteFailure(p, "channel", base)
    IN  CASE channel = "unread" -> p
          [] channel = "ok" -> Clear(p, {"channel"})
          [] channel = "slow" -> TrackPending(p)
          [] channel = "rejected" -> noted
          [] channel = "dead" -> IF power \in {"slow", "dead"} THEN noted
                                 ELSE NoteFailure(noted, "connection", base)

\* recordMetadataReadResult.
RecordMetadata(e, ok, base) ==
    IF ok THEN Clear(e, {"metadata"}) ELSE NoteFailure(e, "metadata", base)

\* recordUnstructuredStationFailure, for an error that is
\*   unsupported  a missing capability or a malformed value: nothing to repair
\*   refused      a protocol rejection or a bare deadline: the link is kept
\*   dead         anything else: the session is given up
Errors == {"unsupported", "refused", "dead"}

RecordUnstructured(e, error, base) ==
    IF error = "unsupported" THEN Clear(e, {"connection"})
    ELSE NoteFailure(e, "connection", base)
=============================================================================
