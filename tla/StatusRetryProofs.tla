-------------------------- MODULE StatusRetryProofs --------------------------
(***************************************************************************)
(* Proofs that the recovery of a station is safe for every base delay,     *)
(* retry limit, presence threshold and mix of events: nothing owed is      *)
(* slept through, a marker stays behind the backoff, a failure counts      *)
(* once, and a stale sighting revives nothing.                             *)
(***************************************************************************)
EXTENDS StatusRetry, WellFoundedInduction, TLAPS

-----------------------------------------------------------------------------
(* The inductive invariant.                                                *)

\* One operation at a time on the device, and a scan past its drain beside none.
DeviceExclusive ==
    /\ LoopHolds => refresh = "idle" /\ command # "running"
    /\ refresh # "idle" => command # "running"
    /\ scan.at \in {"releasing", "listening", "reading"} => ~DeviceHeld

\* The marker a refresh leaves behind stays while its worker reads on.
AbandonedOwed == refresh = "abandoned" => "refresh" \in DOMAIN retry

\* A sighting that still counts is that of the last scan.
LateIsLatest ==
    late = "current" => scan.verdict = "seen" /\ scan.at \in {"none", "reading"}

RetryIInv ==
    TypeOK /\ NeverSleepsThrough /\ DeviceExclusive /\ AbandonedOwed /\ LateIsLatest

-----------------------------------------------------------------------------
(* Least elements.                                                         *)

LEMMA LeastOfNats ==
  ASSUME NEW S \in SUBSET Nat, S # {}
  PROVE  Least(S) \in S /\ \A m \in S : Least(S) <= m
<1>1. PICK n \in S : \A m \in S : <<m, n>> \notin OpToRel(<, Nat)
  BY NatLessThanWellFounded, WFMin
<1>2. \A m \in S : ~(m < n)
  BY <1>1, Zenon DEF OpToRel
<1>3. \A m \in S : n <= m
  BY <1>2
<1> QED
  BY <1>1, <1>3 DEF Least

-----------------------------------------------------------------------------
(* The operators of the table.                                             *)

LEMMA EntryShape ==
  ASSUME NEW e \in Entries
  PROVE  /\ DOMAIN e \subseteq Kinds
         /\ e = [k \in DOMAIN e |-> e[k]]
         /\ \A k \in DOMAIN e :
               /\ e[k] \in Schedules /\ e[k].next \in 0..MaxDelay
               /\ e[k].failures \in 0..FailureCap
BY DEF Entries, Schedules

LEMMA EntryIntro ==
  ASSUME NEW S \in SUBSET Kinds, NEW f, f = [k \in S |-> f[k]],
         \A k \in S : f[k] \in Schedules
  PROVE  f \in Entries /\ DOMAIN f = S
BY DEF Entries

LEMMA EmptyEntry ==
  /\ NoEntry \in Entries /\ DOMAIN NoEntry = {}
  /\ \A e \in Entries : e = NoEntry <=> DOMAIN e = {}
<1>1. NoEntry \in Entries /\ DOMAIN NoEntry = {}
  <2>1. NoEntry \in [{} -> Schedules]
    BY DEF NoEntry
  <2> QED
    BY <2>1 DEF Entries
<1>2. ASSUME NEW e \in Entries, DOMAIN e = {}
      PROVE  e = NoEntry
  BY <1>2, EntryShape DEF NoEntry
<1> QED
  BY <1>1, <1>2

LEMMA DelayTyped ==
  ASSUME NEW base, NEW failures
  PROVE  Delay(base, failures) \in 0..MaxDelay
BY DelayAssumption DEF Delay

\* What is recorded between two tables: a marker that runs ahead of the
\* backoff was there before, and at most n connection failures were counted.
Follows(e, f, n) ==
    /\ f \in Entries
    /\ Outruns(f) => Outruns(e)
    /\ Failures(f, "connection") <= Failures(e, "connection") + n

LEMMA FailuresTyped ==
  ASSUME NEW e \in Entries, NEW k \in Kinds
  PROVE  Failures(e, k) \in 0..FailureCap
BY EntryShape, CapAssumption DEF Failures

LEMMA FollowsSelf ==
  ASSUME NEW e \in Entries, NEW n \in Nat
  PROVE  Follows(e, e, n)
BY FailuresTyped, CapAssumption DEF Follows, Kinds

LEMMA FollowsTwo ==
  ASSUME NEW e \in Entries, NEW f, NEW g, NEW m \in Nat, NEW n \in Nat, NEW k \in Nat,
         Follows(e, f, m), Follows(f, g, n), m + n <= k
  PROVE  Follows(e, g, k)
<1>1. /\ Failures(e, "connection") \in Nat /\ Failures(f, "connection") \in Nat
      /\ Failures(g, "connection") \in Nat
  BY FailuresTyped, CapAssumption DEF Follows, Kinds
<1> QED
  BY <1>1 DEF Follows

LEMMA PutTyped ==
  ASSUME NEW e \in Entries, NEW k \in Kinds, NEW s \in Schedules
  PROVE  /\ Put(e, k, s) \in Entries
         /\ DOMAIN Put(e, k, s) = DOMAIN e \cup {k}
         /\ Put(e, k, s)[k] = s
         /\ \A x \in DOMAIN e \ {k} : Put(e, k, s)[x] = e[x]
<1>1. DOMAIN e \cup {k} \in SUBSET Kinds /\ \A x \in DOMAIN e : e[x] \in Schedules
  BY EntryShape
<1> QED
  BY <1>1, EntryIntro DEF Put

LEMMA ClearTyped ==
  ASSUME NEW e \in Entries, NEW ks
  PROVE  /\ Clear(e, ks) \in Entries
         /\ DOMAIN Clear(e, ks) = DOMAIN e \ ks
         /\ \A x \in DOMAIN e \ ks : Clear(e, ks)[x] = e[x]
         /\ Follows(e, Clear(e, ks), 0)
<1>1. DOMAIN e \ ks \in SUBSET Kinds /\ \A x \in DOMAIN e : e[x] \in Schedules
  BY EntryShape
<1>2. /\ Clear(e, ks) \in Entries
      /\ DOMAIN Clear(e, ks) = DOMAIN e \ ks
      /\ \A x \in DOMAIN e \ ks : Clear(e, ks)[x] = e[x]
  BY <1>1, EntryIntro DEF Clear
<1>3. Failures(Clear(e, ks), "connection") <= Failures(e, "connection")
  BY <1>2, FailuresTyped, CapAssumption, EntryShape DEF Failures, Kinds
<1>4. Outruns(Clear(e, ks)) => Outruns(e)
  BY <1>2 DEF Outruns
<1>5. Failures(e, "connection") \in Nat
  BY FailuresTyped, CapAssumption DEF Kinds
<1> QED
  BY <1>2, <1>3, <1>4, <1>5 DEF Follows

\* One more failure of a kind.
LEMMA NoteFailureFollows ==
  ASSUME NEW e \in Entries, NEW kind \in Kinds \ {"refresh"}, NEW base
  PROVE  Follows(e, NoteFailure(e, kind, base), IF kind = "connection" THEN 1 ELSE 0)
<1> DEFINE count == Lesser(Failures(e, kind) + 1, FailureCap)
           s == [next |-> Delay(base, count), failures |-> count]
           noted == Put(e, kind, s)
           pushed == [noted EXCEPT !["refresh"].next =
                         Later(noted["refresh"].next, Delay(base, count))]
<1>1. Failures(e, kind) \in 0..FailureCap /\ Failures(e, "connection") \in 0..FailureCap
  BY FailuresTyped DEF Kinds
<1>2. count \in 0..FailureCap /\ count <= Failures(e, kind) + 1
  BY <1>1, CapAssumption DEF Lesser
<1>3. Delay(base, count) \in 0..MaxDelay
  BY DelayTyped
<1>4. s \in Schedules /\ s.next = Delay(base, count) /\ s.failures = count
  BY <1>2, <1>3 DEF Schedules
<1> HIDE DEF s
<1>5. /\ noted \in Entries /\ DOMAIN noted = DOMAIN e \cup {kind}
      /\ noted[kind].next = Delay(base, count) /\ noted[kind].failures = count
      /\ \A x \in DOMAIN e \ {kind} : noted[x] = e[x]
  <2> HIDE DEF count
  <2>1. kind \in Kinds
    OBVIOUS
  <2>2. /\ noted \in Entries /\ DOMAIN noted = DOMAIN e \cup {kind}
        /\ noted[kind] = s
        /\ \A x \in DOMAIN e \ {kind} : noted[x] = e[x]
    BY <1>4, <2>1, PutTyped
  <2> HIDE DEF noted
  <2> QED
    BY <1>4, <2>2
<1> HIDE DEF count
<1>6. CASE kind = "metadata" /\ count >= MetadataLimit
  BY <1>1, <1>6, ClearTyped DEF NoteFailure, count, s
<1>7. CASE ~(kind = "metadata" /\ count >= MetadataLimit) /\ kind # "connection"
  <2>1. NoteFailure(e, kind, base) = noted
    BY <1>7 DEF NoteFailure, count, s
  <2>2. Outruns(noted) => Outruns(e)
    BY <1>5, <1>7 DEF Outruns
  <2>3. Failures(noted, "connection") = Failures(e, "connection")
    BY <1>5, <1>7 DEF Failures
  <2> QED
    BY <1>1, <1>5, <1>7, <2>1, <2>2, <2>3, CapAssumption DEF Follows
<1>8. CASE kind = "connection" /\ "refresh" \notin DOMAIN e
  <2>1. NoteFailure(e, kind, base) = noted
    BY <1>8 DEF NoteFailure, count, s
  <2>2. ~Outruns(noted)
    BY <1>5, <1>8 DEF Outruns
  <2>3. Failures(noted, "connection") <= Failures(e, "connection") + 1
    BY <1>2, <1>5, <1>8 DEF Failures
  <2> QED
    BY <1>5, <1>8, <2>1, <2>2, <2>3 DEF Follows
<1>9. CASE kind = "connection" /\ "refresh" \in DOMAIN e
  <2>1. NoteFailure(e, kind, base) = pushed
    BY <1>9 DEF NoteFailure, count, s
  <2>2. /\ noted["refresh"] \in Schedules
        /\ noted["refresh"].next \in 0..MaxDelay
        /\ \A x \in DOMAIN noted : noted[x] \in Schedules
    BY <1>5, <1>9, EntryShape
  <2>3. /\ Later(noted["refresh"].next, Delay(base, count)) \in 0..MaxDelay
        /\ Later(noted["refresh"].next, Delay(base, count)) >= Delay(base, count)
    BY <1>3, <2>2, DelayAssumption DEF Later
  <2>4. /\ DOMAIN pushed = DOMAIN noted
        /\ pushed["refresh"].next = Later(noted["refresh"].next, Delay(base, count))
        /\ pushed["refresh"] \in Schedules
        /\ \A x \in DOMAIN noted \ {"refresh"} : pushed[x] = noted[x]
    BY <1>5, <1>9, <2>2, <2>3 DEF Schedules
  <2>5. pushed \in Entries
    <3>1. pushed = [x \in DOMAIN noted |-> pushed[x]]
      BY <2>2, EntryShape
    <3>2. DOMAIN noted \in SUBSET Kinds
      BY <1>5, EntryShape
    <3> HIDE DEF noted, pushed
    <3> QED
      BY <2>2, <2>4, <3>1, <3>2, EntryIntro
  <2> HIDE DEF noted, pushed
  <2>6. ~Outruns(pushed)
    BY <1>3, <1>5, <1>9, <2>3, <2>4, DelayAssumption DEF Outruns
  <2>7. Failures(pushed, "connection") <= Failures(e, "connection") + 1
    BY <1>2, <1>5, <1>9, <2>4 DEF Failures
  <2> QED
    BY <1>9, <2>1, <2>5, <2>6, <2>7 DEF Follows
<1> QED
  BY <1>6, <1>7, <1>8, <1>9

LEMMA BackoffTyped ==
  ASSUME NEW e \in Entries
  PROVE  Backoff(e) \in 0..MaxDelay
BY EntryShape, DelayAssumption DEF Backoff

\* A marker is set behind the backoff.
LEMMA TrackPendingFollows ==
  ASSUME NEW e \in Entries
  PROVE  Follows(e, TrackPending(e), 0) /\ DOMAIN TrackPending(e) = DOMAIN e \cup {"refresh"}
<1> DEFINE at == IF "refresh" \in DOMAIN e THEN Lesser(e["refresh"].next, Backoff(e))
                 ELSE Backoff(e)
           s == [next |-> at, failures |-> 0]
           f == Put(e, "refresh", s)
<1>1. at \in 0..MaxDelay
  BY BackoffTyped, EntryShape, DelayAssumption DEF Lesser
<1>2. s \in Schedules /\ s.next = at
  BY <1>1, CapAssumption DEF Schedules
<1>3. TrackPending(e) = f
  BY DEF TrackPending
<1>4. ("refresh" \notin DOMAIN e \/ e["refresh"].next >= Backoff(e)) => at = Backoff(e)
  BY BackoffTyped, EntryShape, DelayAssumption DEF Lesser
<1> HIDE DEF at, s
<1>5. /\ f \in Entries /\ DOMAIN f = DOMAIN e \cup {"refresh"} /\ f["refresh"] = s
      /\ \A x \in DOMAIN e \ {"refresh"} : f[x] = e[x]
  <2>1. "refresh" \in Kinds /\ s \in Schedules
    BY <1>2 DEF Kinds
  <2> QED
    BY <2>1, PutTyped
<1> HIDE DEF f
<1>6. Outruns(f) => Outruns(e)
  <2> SUFFICES ASSUME "connection" \in DOMAIN e, at < e["connection"].next
               PROVE  Outruns(e)
    BY <1>2, <1>5 DEF Outruns
  <2>1. Backoff(e) = e["connection"].next
    BY DEF Backoff
  <2> QED
    BY <1>1, <1>4, <2>1, BackoffTyped, EntryShape, DelayAssumption DEF Outruns
<1>7. Failures(f, "connection") = Failures(e, "connection")
  BY <1>5 DEF Failures
<1>8. Failures(e, "connection") \in Nat
  BY FailuresTyped, CapAssumption DEF Kinds
<1> QED
  BY <1>3, <1>5, <1>6, <1>7, <1>8 DEF Follows

\* The schedules move together and keep their failures.
LEMMA MoveTyped ==
  ASSUME NEW e \in Entries, NEW f,
         f = [k \in DOMAIN e |-> f[k]],
         \A k \in DOMAIN e : f[k] \in Schedules /\ f[k].failures = e[k].failures
  PROVE  /\ f \in Entries /\ DOMAIN f = DOMAIN e
         /\ Failures(f, "connection") = Failures(e, "connection")
         /\ (Outruns(f) => Outruns(e)) => Follows(e, f, 0)
<1>1. DOMAIN e \in SUBSET Kinds
  BY EntryShape
<1>2. f \in Entries /\ DOMAIN f = DOMAIN e
  BY <1>1, EntryIntro
<1>3. Failures(f, "connection") = Failures(e, "connection")
  BY <1>2 DEF Failures
<1>4. Failures(e, "connection") \in Nat
  BY FailuresTyped, CapAssumption DEF Kinds
<1> QED
  BY <1>2, <1>3, <1>4 DEF Follows

LEMMA DeferFollows ==
  ASSUME NEW e \in Entries, NEW d \in 0..MaxDelay
  PROVE  Follows(e, Defer(e, d), 0) /\ DOMAIN Defer(e, d) = DOMAIN e
<1>1. \A k \in DOMAIN e :
         /\ Defer(e, d)[k] \in Schedules
         /\ Defer(e, d)[k].next = Later(e[k].next, d)
         /\ Defer(e, d)[k].failures = e[k].failures
  BY EntryShape, DelayAssumption DEF Defer, Later, Schedules
<1>2. Defer(e, d) = [k \in DOMAIN e |-> Defer(e, d)[k]]
  BY DEF Defer
<1>3. Outruns(Defer(e, d)) => Outruns(e)
  <2>1. DOMAIN Defer(e, d) = DOMAIN e
    BY DEF Defer
  <2> QED
    BY <1>1, <2>1, EntryShape, DelayAssumption DEF Outruns, Later
<1> QED
  BY <1>1, <1>2, <1>3, MoveTyped

LEMMA ElapseFollows ==
  ASSUME NEW e \in Entries
  PROVE  Follows(e, Elapse(e), 0) /\ DOMAIN Elapse(e) = DOMAIN e
<1>1. \A k \in DOMAIN e :
         /\ Elapse(e)[k] \in Schedules
         /\ Elapse(e)[k].next = Later(e[k].next - 1, 0)
         /\ Elapse(e)[k].failures = e[k].failures
  BY EntryShape, DelayAssumption DEF Elapse, Later, Schedules
<1>2. Elapse(e) = [k \in DOMAIN e |-> Elapse(e)[k]]
  BY DEF Elapse
<1>3. Outruns(Elapse(e)) => Outruns(e)
  <2>1. DOMAIN Elapse(e) = DOMAIN e
    BY DEF Elapse
  <2> QED
    BY <1>1, <2>1, EntryShape, DelayAssumption DEF Outruns, Later
<1> QED
  BY <1>1, <1>2, <1>3, MoveTyped

LEMMA DueTyped == Due \in Schedules /\ Due.next = 0 /\ Due.failures = 0
BY DelayAssumption, CapAssumption DEF Due, Schedules

\* Work that is put in its place, due at once and with no failure counted.
LEMMA PutDueFollows ==
  ASSUME NEW e \in Entries, NEW k \in LimitedKinds, k \notin DOMAIN e
  PROVE  Follows(e, Put(e, k, Due), 0) /\ DOMAIN Put(e, k, Due) = DOMAIN e \cup {k}
<1>1. k \in Kinds
  BY DEF LimitedKinds, Kinds
<1>2. /\ Put(e, k, Due) \in Entries /\ DOMAIN Put(e, k, Due) = DOMAIN e \cup {k}
      /\ Put(e, k, Due)[k] = Due
      /\ \A x \in DOMAIN e \ {k} : Put(e, k, Due)[x] = e[x]
  <2>1. Due \in Schedules
    BY DueTyped
  <2> QED
    BY <1>1, <2>1, PutTyped, ZenonT(40)
<1>3. Outruns(Put(e, k, Due)) => Outruns(e)
  <2>1. CASE k = "connection"
    <3>1. ASSUME "refresh" \in DOMAIN e
          PROVE  Put(e, k, Due)["refresh"].next >= 0
      BY <1>2, <2>1, <3>1, EntryShape, DelayAssumption
    <3> QED
      BY <1>2, <2>1, <3>1, DueTyped, EntryShape, DelayAssumption DEF Outruns
  <2>2. CASE k # "connection"
    BY <1>2, <2>2 DEF Outruns, LimitedKinds
  <2> QED
    BY <2>1, <2>2
<1>4. Failures(Put(e, k, Due), "connection") = Failures(e, "connection")
  BY <1>2, DueTyped DEF Failures
<1>5. Failures(e, "connection") \in Nat
  BY FailuresTyped, CapAssumption DEF Kinds
<1> QED
  BY <1>2, <1>3, <1>4, <1>5 DEF Follows

LEMMA EnsureTrackedFollows ==
  ASSUME NEW e \in Entries
  PROVE  /\ Follows(e, EnsureTracked(e), 0)
         /\ DOMAIN EnsureTracked(e) = DOMAIN e \cup {"connection"}
<1>1. CASE "connection" \in DOMAIN e
  BY <1>1, FollowsSelf DEF EnsureTracked
<1>2. CASE "connection" \notin DOMAIN e
  BY <1>2, PutDueFollows DEF EnsureTracked, LimitedKinds
<1> QED
  BY <1>1, <1>2

LEMMA RebaseFollows ==
  ASSUME NEW e \in Entries
  PROVE  /\ Follows(e, Rebase(e), 0)
         /\ DOMAIN Rebase(e) = DOMAIN e \cup {"connection"}
<1> DEFINE t == EnsureTracked(e)
<1>1. t \in Entries /\ Follows(e, t, 0) /\ DOMAIN t = DOMAIN e \cup {"connection"}
  BY EnsureTrackedFollows DEF Follows
<1> HIDE DEF t
<1>2. /\ Rebase(e) = [k \in DOMAIN t |-> Rebase(e)[k]]
      /\ \A k \in DOMAIN t : Rebase(e)[k] = IF k \in LimitedKinds
                                            THEN [t[k] EXCEPT !.next = 0] ELSE t[k]
  BY DEF Rebase, t
<1>3. \A k \in DOMAIN t : /\ Rebase(e)[k] \in Schedules
                          /\ Rebase(e)[k].failures = t[k].failures
  <2> SUFFICES ASSUME NEW k \in DOMAIN t
               PROVE  /\ Rebase(e)[k] \in Schedules
                      /\ Rebase(e)[k].failures = t[k].failures
    OBVIOUS
  <2>1. t[k] \in Schedules
    BY <1>1, EntryShape
  <2>2. /\ [t[k] EXCEPT !.next = 0] \in Schedules
        /\ [t[k] EXCEPT !.next = 0].failures = t[k].failures
    BY <2>1, DelayAssumption DEF Schedules
  <2> QED
    BY <1>2, <2>1, <2>2
<1>4. Rebase(e) \in Entries /\ DOMAIN Rebase(e) = DOMAIN t
  BY <1>1, <1>2, <1>3, MoveTyped
<1>5. ~Outruns(Rebase(e))
  <2>1. "connection" \in LimitedKinds /\ "refresh" \notin LimitedKinds
    BY DEF LimitedKinds
  <2>2. Rebase(e)["connection"].next = 0
    BY <1>1, <1>2, <2>1, EntryShape DEF Schedules
  <2>3. "refresh" \in DOMAIN t => Rebase(e)["refresh"].next >= 0
    BY <1>3, DelayAssumption DEF Schedules
  <2> QED
    BY <1>4, <2>2, <2>3, EntryShape, DelayAssumption DEF Outruns
<1>6. Follows(t, Rebase(e), 0)
  BY <1>1, <1>2, <1>3, <1>5, MoveTyped
<1> QED
  BY <1>1, <1>4, <1>6, FollowsTwo

LEMMA PruneFollows ==
  ASSUME NEW e \in Entries, NEW limit
  PROVE  /\ Follows(e, PruneExhausted(e, limit), 0)
         /\ "refresh" \in DOMAIN e => "refresh" \in DOMAIN PruneExhausted(e, limit)
BY ClearTyped DEF PruneExhausted, LimitedKinds

LEMMA ReviveFollows ==
  ASSUME NEW e \in Entries
  PROVE  /\ Follows(e, Revive(e), 0)
         /\ "refresh" \in DOMAIN e => "refresh" \in DOMAIN Revive(e)
<1>1. CASE DOMAIN e \cap LimitedKinds # {}
  BY <1>1, FollowsSelf DEF Revive
<1>2. CASE DOMAIN e \cap LimitedKinds = {}
  <2> DEFINE f == Put(e, "connection", Due)
  <2>1. "connection" \in LimitedKinds /\ "channel" \in LimitedKinds
    BY DEF LimitedKinds
  <2>2. Follows(e, f, 0) /\ DOMAIN f = DOMAIN e \cup {"connection"} /\ f \in Entries
    BY <1>2, <2>1, PutDueFollows DEF Follows
  <2> HIDE DEF f
  <2>3. /\ Follows(f, Put(f, "channel", Due), 0)
        /\ DOMAIN Put(f, "channel", Due) = DOMAIN f \cup {"channel"}
    BY <1>2, <2>1, <2>2, PutDueFollows
  <2>4. Revive(e) = Put(f, "channel", Due)
    BY <1>2 DEF Revive, f
  <2> QED
    BY <2>2, <2>3, <2>4, FollowsTwo
<1> QED
  BY <1>1, <1>2

LEMMA RescheduleTyped ==
  ASSUME NEW e \in Entries, NEW base, NEW since,
         \A k \in Failed(e) : since[k] \in {0, MaxDelay}
  PROVE  /\ Reschedule(e, base, since) \in Entries
         /\ DOMAIN Reschedule(e, base, since) = DOMAIN e
         /\ Failures(Reschedule(e, base, since), "connection") = Failures(e, "connection")
<1> DEFINE f == Reschedule(e, base, since)
<1>1. /\ f = [k \in DOMAIN e |-> f[k]]
      /\ \A k \in DOMAIN e :
            f[k] = IF k \in Failed(e)
                   THEN [e[k] EXCEPT !.next =
                            Later(Delay(base, e[k].failures) - since[k], 0)]
                   ELSE e[k]
  BY DEF Reschedule
<1> HIDE DEF f
<1>2. \A k \in DOMAIN e : f[k] \in Schedules /\ f[k].failures = e[k].failures
  <2> SUFFICES ASSUME NEW k \in DOMAIN e
               PROVE  f[k] \in Schedules /\ f[k].failures = e[k].failures
    OBVIOUS
  <2>1. e[k] \in Schedules
    BY EntryShape
  <2>2. CASE k \in Failed(e)
    <3>1. Delay(base, e[k].failures) \in 0..MaxDelay
      BY DelayTyped
    <3>2. since[k] \in 0..MaxDelay
      BY <2>2, DelayAssumption
    <3>3. Later(Delay(base, e[k].failures) - since[k], 0) \in 0..MaxDelay
      BY <3>1, <3>2, DelayAssumption DEF Later
    <3> QED
      BY <1>1, <2>1, <2>2, <3>3 DEF Schedules
  <2>3. CASE k \notin Failed(e)
    BY <1>1, <2>1, <2>3
  <2> QED
    BY <2>2, <2>3
<1> QED
  BY <1>1, <1>2, MoveTyped DEF f

LEMMA RecordPowerFollows ==
  ASSUME NEW e \in Entries, NEW power \in PowerResults, NEW base
  PROVE  Follows(e, RecordPower(e, power, base), IF power \in {"slow", "dead"} THEN 1 ELSE 0)
<1>1. CASE power = "unread"
  BY <1>1, FollowsSelf DEF RecordPower
<1>2. CASE power = "ok"
  BY <1>2, ClearTyped DEF RecordPower
<1>3. CASE power \in {"slow", "dead"}
  <2>1. "connection" \in Kinds \ {"refresh"}
    BY DEF Kinds
  <2>2. Follows(e, NoteFailure(e, "connection", base), 1)
    BY <2>1, NoteFailureFollows
  <2> QED
    BY <1>3, <2>2 DEF RecordPower
<1> QED
  BY <1>1, <1>2, <1>3 DEF PowerResults

\* A dead link counts once, whichever of the two reads met it.
LEMMA RecordObservedFollows ==
  ASSUME NEW e \in Entries, NEW power \in PowerResults, NEW channel \in ChannelResults,
         NEW base
  PROVE  Follows(e, RecordObserved(e, power, channel, base), 1)
<1> DEFINE p == RecordPower(e, power, base)
           noted == NoteFailure(p, "channel", base)
           m == IF power \in {"slow", "dead"} THEN 1 ELSE 0
<1>1. Follows(e, p, m) /\ p \in Entries
  BY RecordPowerFollows DEF Follows
<1>2. m \in {0, 1}
  OBVIOUS
<1>3. Follows(p, noted, 0) /\ noted \in Entries
  <2>1. "channel" \in Kinds \ {"refresh"}
    BY DEF Kinds
  <2> HIDE DEF p
  <2>2. Follows(p, noted, 0)
    BY <1>1, <2>1, NoteFailureFollows
  <2> QED
    BY <2>2 DEF Follows
<1> DEFINE dead == NoteFailure(noted, "connection", base)
<1>4. Follows(noted, dead, 1)
  <2>1. "connection" \in Kinds \ {"refresh"}
    BY DEF Kinds
  <2> HIDE DEF noted
  <2> QED
    BY <1>3, <2>1, NoteFailureFollows
<1>5. RecordObserved(e, power, channel, base)
        = CASE channel = "unread" -> p
            [] channel = "ok" -> Clear(p, {"channel"})
            [] channel = "slow" -> TrackPending(p)
            [] channel = "rejected" -> noted
            [] channel = "dead" -> IF power \in {"slow", "dead"} THEN noted ELSE dead
  BY DEF RecordObserved
<1> HIDE DEF p, noted, dead
<1>6. Follows(p, p, 0) /\ Follows(p, Clear(p, {"channel"}), 0) /\ Follows(p, TrackPending(p), 0)
  BY <1>1, FollowsSelf, ClearTyped, TrackPendingFollows
<1>7. Follows(p, dead, 1)
  BY <1>1, <1>3, <1>4, FollowsTwo
<1>8. CASE power \in {"slow", "dead"}
  <2>1. Follows(e, p, 1)
    BY <1>1, <1>8
  <2> QED
    BY <1>1, <1>3, <1>5, <1>6, <1>8, <2>1, FollowsTwo DEF ChannelResults
<1>9. CASE power \notin {"slow", "dead"}
  <2>1. Follows(e, p, 0)
    BY <1>1, <1>9
  <2>2. PICK g : g = RecordObserved(e, power, channel, base) /\ (Follows(p, g, 0) \/ Follows(p, g, 1))
    BY <1>3, <1>5, <1>6, <1>7, <1>9 DEF ChannelResults
  <2>3. Follows(e, g, 1)
    BY <1>1, <2>1, <2>2, FollowsTwo
  <2> QED
    BY <2>2, <2>3
<1> QED
  BY <1>8, <1>9

LEMMA RecordMetadataFollows ==
  ASSUME NEW e \in Entries, NEW ok \in BOOLEAN, NEW base
  PROVE  Follows(e, RecordMetadata(e, ok, base), 0)
<1>1. "metadata" \in Kinds \ {"refresh"}
  BY DEF Kinds
<1>2. Follows(e, NoteFailure(e, "metadata", base), 0)
  BY <1>1, NoteFailureFollows
<1> QED
  BY <1>2, ClearTyped DEF RecordMetadata

LEMMA RecordUnstructuredFollows ==
  ASSUME NEW e \in Entries, NEW error, NEW base
  PROVE  Follows(e, RecordUnstructured(e, error, base), 1)
<1>1. "connection" \in Kinds \ {"refresh"}
  BY DEF Kinds
<1>2. Follows(e, NoteFailure(e, "connection", base), 1)
  BY <1>1, NoteFailureFollows
<1>3. Follows(e, Clear(e, {"connection"}), 1)
  <2> DEFINE f == Clear(e, {"connection"})
  <2>1. Follows(e, f, 0) /\ Follows(e, e, 1)
    BY ClearTyped, FollowsSelf
  <2> HIDE DEF f
  <2>2. Follows(e, f, 1)
    BY <2>1, FollowsTwo
  <2> QED
    BY <2>2 DEF f
<1> QED
  BY <1>2, <1>3 DEF RecordUnstructured

LEMMA TimedOutFollows ==
  ASSUME NEW e \in Entries, NEW base
  PROVE  Follows(e, TimedOut(e, base), 1)
<1> DEFINE noted == NoteFailure(e, "connection", base)
           f == TrackPending(noted)
           d == Delay(base, Failures(noted, "connection"))
<1>1. Follows(e, noted, 1) /\ noted \in Entries
  <2>1. "connection" \in Kinds \ {"refresh"}
    BY DEF Kinds
  <2>2. Follows(e, noted, 1)
    BY <2>1, NoteFailureFollows
  <2> QED
    BY <2>2 DEF Follows
<1>2. TimedOut(e, base) = Defer(f, d) /\ d \in 0..MaxDelay
  BY DelayTyped DEF TimedOut
<1> HIDE DEF noted, d
<1>3. Follows(noted, f, 0) /\ f \in Entries
  BY <1>1, TrackPendingFollows DEF Follows
<1> HIDE DEF f
<1>4. Follows(f, Defer(f, d), 0)
  BY <1>2, <1>3, DeferFollows
<1>5. Follows(e, f, 1)
  BY <1>1, <1>3, FollowsTwo
<1> QED
  BY <1>1, <1>2, <1>3, <1>4, <1>5, FollowsTwo

LEMMA NextDueTyped ==
  ASSUME NEW e \in Entries, e # NoEntry
  PROVE  NextDue(e) \in 0..MaxDelay
<1> DEFINE S == {e[k].next : k \in DOMAIN e}
<1>1. S \subseteq 0..MaxDelay /\ S # {}
  BY EntryShape, EmptyEntry
<1>2. S \in SUBSET Nat
  BY <1>1, DelayAssumption
<1>3. Least(S) \in S
  <2> HIDE DEF S
  <2> QED
    BY <1>1, <1>2, LeastOfNats
<1> QED
  BY <1>1, <1>3 DEF NextDue

-----------------------------------------------------------------------------
(* What a step owes: the invariant, and the three action properties.       *)

StepOK ==
    /\ RetryIInv'
    /\ Outruns(retry') => Outruns(retry) \/ ChangeRecovery
    /\ command' = command =>
         Failures(retry', "connection") <= Failures(retry, "connection") + 1
    /\ late # "none" /\ late' = "none" /\ ~station.present /\ station'.present
         => scan.verdict = "seen"

\* A step that revives no station and does not change the settings.
LEMMA QuietSteps ==
  ASSUME TypeOK', NeverSleepsThrough', DeviceExclusive', AbandonedOwed', LateIsLatest',
         \/ Follows(retry, retry', 1)
         \/ Follows(retry, retry', 2) /\ command' # command,
         station.present \/ ~station'.present \/ late' = late \/ scan.verdict = "seen"
  PROVE  StepOK
BY DEF StepOK, RetryIInv, Follows

\* A session that is given up or kept, and a value that may be answered.
LEMMA SessionMoves ==
  ASSUME TypeOK, GiveUpSession \/ KeepSession \/ UNCHANGED <<station, events>>
  PROVE  /\ station' \in StationState /\ station'.present = station.present
         /\ events' \in 0..MaxEvents
<1>1. station \in StationState /\ events \in 0..MaxEvents
  BY DEF TypeOK
<1>2. CASE GiveUpSession
  <2>1. CASE station' = [station EXCEPT !.connected = FALSE] /\ UNCHANGED events
    BY <1>1, <2>1 DEF StationState
  <2>2. CASE /\ events > 0 /\ station' = [station EXCEPT !.locked = TRUE]
             /\ events' = events - 1
    <3>1. station' \in StationState /\ station'.present = station.present
      BY <1>1, <2>2 DEF StationState
    <3> QED
      BY <1>1, <2>2, <3>1, BoundsAssumption
  <2> QED
    BY <1>2, <2>1, <2>2 DEF GiveUpSession
<1>3. CASE KeepSession
  <2>1. PICK b \in BOOLEAN : b = station.reachable
    BY <1>1 DEF StationState
  <2>2. station' \in {station, [station EXCEPT !.connected = b]}
    BY <1>3, <2>1 DEF KeepSession
  <2>3. station' \in StationState /\ station'.present = station.present
    BY <1>1, <2>2 DEF StationState
  <2> QED
    BY <1>1, <1>3, <2>3 DEF KeepSession
<1> QED
  BY <1>1, <1>2, <1>3

LEMMA AnswersTyped ==
  /\ PowerAnswers \subseteq PowerResults /\ ChannelAnswers \subseteq ChannelResults
  /\ MetadataAnswers \subseteq BOOLEAN
BY DEF PowerAnswers, ChannelAnswers, MetadataAnswers, PowerResults, ChannelResults

\* A step of the recovery goroutine.
LEMMA LoopMoves ==
  ASSUME RetryIInv, UNCHANGED <<refresh, command, scan, late, settings>>,
         wake' \in BOOLEAN, loop' \in LoopState,
         station' \in StationState, station'.present = station.present,
         events' \in 0..MaxEvents,
         Follows(retry, retry', 1),
         loop'.at = "parked" /\ retry' # NoEntry => wake',
         LoopHolds' => LoopHolds \/ (~DeviceHeld /\ scan.at = "none"),
         LoopHolds \/ ("refresh" \in DOMAIN retry => "refresh" \in DOMAIN retry')
  PROVE  StepOK
<1>1. TypeOK'
  BY DEF RetryIInv, TypeOK, Follows
<1>2. NeverSleepsThrough' /\ LateIsLatest'
  BY DEF RetryIInv, NeverSleepsThrough, LateIsLatest
<1>3. DeviceExclusive'
  BY DEF RetryIInv, DeviceExclusive, DeviceHeld, LoopHolds
<1>4. AbandonedOwed'
  BY DEF RetryIInv, DeviceExclusive, AbandonedOwed
<1> QED
  BY <1>1, <1>2, <1>3, <1>4, QuietSteps

\* A step of the periodic refresh and of its worker.
LEMMA RefreshMoves ==
  ASSUME RetryIInv, UNCHANGED <<loop, command, scan, late, settings>>,
         wake' \in BOOLEAN, refresh' \in {"idle", "reading", "abandoned"},
         station' \in StationState, station'.present = station.present,
         events' \in 0..MaxEvents,
         Follows(retry, retry', 1),
         loop.at = "parked" /\ retry' # NoEntry => wake',
         refresh' # "idle" => refresh # "idle" \/ (~DeviceHeld /\ scan.at = "none"),
         refresh' = "abandoned" => "refresh" \in DOMAIN retry'
  PROVE  StepOK
<1>1. TypeOK'
  BY DEF RetryIInv, TypeOK, Follows
<1>2. NeverSleepsThrough' /\ LateIsLatest'
  BY DEF RetryIInv, NeverSleepsThrough, LateIsLatest
<1>3. DeviceExclusive'
  BY DEF RetryIInv, DeviceExclusive, DeviceHeld, LoopHolds
<1>4. AbandonedOwed'
  BY DEF AbandonedOwed
<1> QED
  BY <1>1, <1>2, <1>3, <1>4, QuietSteps

\* A step of a command.
LEMMA CommandMoves ==
  ASSUME RetryIInv, UNCHANGED <<loop, refresh, scan, late, settings>>,
         wake' \in BOOLEAN, command' \in {"none", "waiting", "running"},
         command' # command,
         station' \in StationState, station'.present = station.present,
         events' \in 0..MaxEvents,
         Follows(retry, retry', 2),
         loop.at = "parked" /\ retry' # NoEntry => wake',
         command' = "running" => ~DeviceHeld /\ scan.at = "none",
         command = "running" \/ UNCHANGED retry
  PROVE  StepOK
<1>1. TypeOK'
  BY DEF RetryIInv, TypeOK, Follows
<1>2. NeverSleepsThrough' /\ LateIsLatest'
  BY DEF RetryIInv, NeverSleepsThrough, LateIsLatest
<1>3. DeviceExclusive'
  BY DEF RetryIInv, DeviceExclusive, DeviceHeld, LoopHolds
<1>4. AbandonedOwed'
  BY DEF RetryIInv, DeviceExclusive, AbandonedOwed
<1> QED
  BY <1>1, <1>2, <1>3, <1>4, QuietSteps

\* A step of a scan, or of a sighting it left behind.
LEMMA ScanMoves ==
  ASSUME RetryIInv, UNCHANGED <<loop, refresh, command, settings>>,
         wake' \in BOOLEAN, scan' \in ScanState,
         late' \in {"none", "current", "superseded"},
         station' \in StationState, events' \in 0..MaxEvents,
         Follows(retry, retry', 1),
         loop.at = "parked" /\ retry' # NoEntry => wake',
         scan'.at \in {"releasing", "listening", "reading"} =>
            ~DeviceHeld \/ scan.at \in {"releasing", "listening", "reading"},
         DeviceHeld => ("refresh" \in DOMAIN retry => "refresh" \in DOMAIN retry'),
         late' = "current" => scan'.verdict = "seen" /\ scan'.at \in {"none", "reading"},
         station.present \/ ~station'.present \/ late' = late \/ scan.verdict = "seen"
  PROVE  StepOK
<1>1. TypeOK'
  BY DEF RetryIInv, TypeOK, Follows
<1>2. NeverSleepsThrough' /\ LateIsLatest'
  BY DEF RetryIInv, NeverSleepsThrough, LateIsLatest
<1>3. DeviceExclusive'
  BY DEF RetryIInv, DeviceExclusive, DeviceHeld, LoopHolds
<1>4. AbandonedOwed'
  BY DEF RetryIInv, DeviceHeld, AbandonedOwed
<1> QED
  BY <1>1, <1>2, <1>3, <1>4, QuietSteps

-----------------------------------------------------------------------------
(* The steps of the recovery goroutine.                                    *)

LEMMA LoopLooksOK == ASSUME RetryIInv, LoopLooks PROVE StepOK
<1>1. /\ UNCHANGED <<retry, wake, refresh, command, scan, late, station, settings, events>>
      /\ TypeOK /\ ~LoopHolds
  BY DEF LoopLooks, RetryIInv, LoopHolds
<1>2. /\ loop' \in LoopState /\ loop'.at \in {"parked", "asleep", "chosen"}
      /\ loop'.at = "parked" => retry = NoEntry
  <2>1. CASE retry = NoEntry /\ Go("parked")
    BY <1>1, <2>1, DelayAssumption DEF Go, LoopState, LoopSteps
  <2>2. CASE /\ retry # NoEntry
             /\ loop' = [loop EXCEPT !.at = "asleep", !.alarm = NextDue(retry)]
    <3>1. PICK n \in 0..MaxDelay : n = NextDue(retry)
      BY <1>1, <2>2, NextDueTyped DEF TypeOK
    <3> QED
      BY <1>1, <2>2, <3>1 DEF TypeOK, LoopState, LoopSteps
  <2>3. CASE loop' = [loop EXCEPT !.at = "chosen"]
    BY <1>1, <2>3 DEF TypeOK, LoopState, LoopSteps
  <2> QED
    BY <2>1, <2>2, <2>3 DEF LoopLooks
<1>3. Follows(retry, retry', 1)
  BY <1>1, FollowsSelf DEF TypeOK
<1>4. ~LoopHolds'
  BY <1>2 DEF LoopHolds
<1> QED
  BY <1>1, <1>2, <1>3, <1>4, LoopMoves DEF TypeOK

\* The loop goes to a step at which it neither parks nor holds the device.
LEMMA GoTyped ==
  ASSUME NEW step \in LoopSteps, Go(step)
  PROVE  loop' \in LoopState /\ loop'.at = step
BY DelayAssumption DEF Go, LoopState

LEMMA RestTyped ==
  ASSUME NEW ticks \in 0..MaxDelay, Rest(ticks)
  PROVE  loop' \in LoopState /\ loop'.at = "resting"
BY DEF Rest, LoopState, LoopSteps

LEMMA LoopWakesOK == ASSUME RetryIInv, LoopWakes PROVE StepOK
<1>1. /\ UNCHANGED <<retry, refresh, command, scan, late, station, settings, events>>
      /\ TypeOK /\ wake' = FALSE
  BY DEF LoopWakes, RetryIInv
<1>2. loop' \in LoopState /\ loop'.at = "top"
  BY GoTyped DEF LoopWakes, LoopSteps
<1>3. Follows(retry, retry', 1)
  BY <1>1, FollowsSelf DEF TypeOK
<1> QED
  BY <1>1, <1>2, <1>3, LoopMoves DEF TypeOK, LoopHolds

LEMMA LoopAlarmOK == ASSUME RetryIInv, LoopAlarm PROVE StepOK
<1>1. /\ UNCHANGED <<retry, wake, refresh, command, scan, late, station, settings, events>>
      /\ TypeOK
  BY DEF LoopAlarm, RetryIInv
<1>2. loop' \in LoopState /\ loop'.at \in {"top", "chosen"}
  BY GoTyped DEF LoopAlarm, LoopSteps
<1>3. Follows(retry, retry', 1)
  BY <1>1, FollowsSelf DEF TypeOK
<1> QED
  BY <1>1, <1>2, <1>3, LoopMoves DEF TypeOK, LoopHolds

LEMMA BusyTyped == BusyRetry \in 0..MaxDelay /\ MaxDelay \in 0..MaxDelay
BY BusyAssumption, DelayAssumption

LEMMA LoopChoosesOK == ASSUME RetryIInv, LoopChooses PROVE StepOK
<1>1. /\ UNCHANGED <<retry, wake, refresh, command, scan, late, station, settings, events>>
      /\ TypeOK
  BY DEF LoopChooses, RetryIInv
<1>2. loop' \in LoopState /\ loop'.at \in {"resting", "top", "chosen"}
  <2>1. CASE Rest(BusyRetry)
    BY <2>1, RestTyped, BusyTyped
  <2>2. CASE Go("top")
    BY <2>2, GoTyped DEF LoopSteps
  <2>3. CASE \E k \in ServedKinds(retry) : loop' = [loop EXCEPT !.kind = k]
    <3>1. PICK k \in ServedKinds(retry) : loop' = [loop EXCEPT !.kind = k]
      BY <2>3
    <3>2. k \in Kinds
      BY <1>1, EntryShape DEF ServedKinds, TypeOK
    <3>3. loop.at = "chosen"
      BY DEF LoopChooses
    <3> QED
      BY <1>1, <3>1, <3>2, <3>3 DEF TypeOK, LoopState
  <2> QED
    BY <2>1, <2>2, <2>3 DEF LoopChooses
<1>3. Follows(retry, retry', 1)
  BY <1>1, FollowsSelf DEF TypeOK
<1> QED
  BY <1>1, <1>2, <1>3, LoopMoves DEF TypeOK, LoopHolds

LEMMA LoopBeginsOK == ASSUME RetryIInv, LoopBegins PROVE StepOK
<1>1. /\ UNCHANGED <<retry, wake, refresh, command, scan, late, station, settings, events>>
      /\ TypeOK
  BY DEF LoopBegins, RetryIInv
<1>2. /\ loop' \in LoopState
      /\ loop'.at = "resting" \/ (loop'.at \in {"metadata", "read"} /\ ~DeviceHeld /\ scan.at = "none")
  <2>1. CASE Rest(BusyRetry)
    BY <2>1, RestTyped, BusyTyped
  <2>2. CASE ~Rest(BusyRetry)
    <3>1. PICK at \in {"metadata", "read"}, m \in {"tried", "none", "untracked"} :
             loop' = [at |-> at, alarm |-> 0, kind |-> "none", metadata |-> m]
      BY <2>2 DEF LoopBegins, MetadataOf
    <3>2. ~DeviceHeld /\ scan.at = "none"
      BY <2>2 DEF LoopBegins
    <3> QED
      BY <3>1, <3>2, DelayAssumption DEF LoopState, LoopSteps
  <2> QED
    BY <2>1, <2>2
<1>3. Follows(retry, retry', 1)
  BY <1>1, FollowsSelf DEF TypeOK
<1> QED
  BY <1>1, <1>2, <1>3, LoopMoves DEF TypeOK, LoopHolds

LEMMA LoopNotReadyOK == ASSUME RetryIInv, LoopNotReady PROVE StepOK
<1>1. /\ UNCHANGED <<retry, wake, refresh, command, scan, late, station, settings>>
      /\ TypeOK /\ events' \in 0..MaxEvents
  BY BoundsAssumption DEF LoopNotReady, RetryIInv, TypeOK
<1>2. loop' \in LoopState /\ loop'.at = "resting"
  BY RestTyped, BusyTyped DEF LoopNotReady
<1>3. Follows(retry, retry', 1)
  BY <1>1, FollowsSelf DEF TypeOK
<1> QED
  BY <1>1, <1>2, <1>3, LoopMoves DEF TypeOK, LoopHolds

LEMMA LoopCancelledOK == ASSUME RetryIInv, LoopCancelled PROVE StepOK
<1>1. /\ UNCHANGED <<refresh, command, scan, late, station, settings, events>>
      /\ TypeOK /\ wake' = TRUE /\ LoopHolds
  BY DEF LoopCancelled, RetryIInv, Signal, LoopHolds
<1>2. loop' \in LoopState /\ loop'.at = "resting"
  BY RestTyped, BusyTyped DEF LoopCancelled
<1>3. Follows(retry, retry', 1)
  <2>1. Follows(retry, Defer(retry, BusyRetry), 0)
    BY <1>1, BusyTyped, DeferFollows DEF TypeOK
  <2>2. Follows(retry, retry', 0)
    BY <2>1 DEF LoopCancelled
  <2> QED
    BY <1>1, <2>2, FollowsSelf, FollowsTwo DEF TypeOK
<1> QED
  BY <1>1, <1>2, <1>3, LoopMoves DEF TypeOK, LoopHolds

\* A record that counts nothing counts at most one failure, or two.
LEMMA FollowsMore ==
  ASSUME NEW e \in Entries, NEW f, NEW m \in {0, 1}, Follows(e, f, m)
  PROVE  Follows(e, f, 1) /\ Follows(e, f, 2)
<1>1. f \in Entries /\ Follows(f, f, 0) /\ Follows(f, f, 1)
  BY FollowsSelf DEF Follows
<1> QED
  BY <1>1, FollowsTwo

\* What a failed read records, with or without a metadata read beside it.
LEMMA RecordedTwice ==
  ASSUME NEW e \in Entries, NEW f, NEW m \in {0, 1}, NEW g, NEW ok \in BOOLEAN, NEW base,
         Follows(e, f, m), g = f \/ g = RecordMetadata(f, ok, base)
  PROVE  Follows(e, g, m)
<1>1. f \in Entries
  BY DEF Follows
<1>2. Follows(f, f, 0) /\ Follows(f, RecordMetadata(f, ok, base), 0)
  BY <1>1, FollowsSelf, RecordMetadataFollows
<1> QED
  BY <1>2, FollowsTwo

LEMMA LoopReadsMetadataOK == ASSUME RetryIInv, LoopReadsMetadata PROVE StepOK
<1>1. /\ UNCHANGED <<refresh, command, scan, late, settings>>
      /\ TypeOK /\ LoopHolds
  BY DEF LoopReadsMetadata, RetryIInv, LoopHolds
<1>2. CASE /\ loop' = [loop EXCEPT !.at = "read", !.metadata = "fresh"]
           /\ station' = [station EXCEPT !.connected = TRUE]
           /\ UNCHANGED <<retry, wake, events>>
  <2>1. loop' \in LoopState /\ loop'.at = "read"
    BY <1>1, <1>2 DEF TypeOK, LoopState, LoopSteps
  <2>2. station' \in StationState /\ station'.present = station.present
    BY <1>1, <1>2 DEF TypeOK, StationState
  <2>3. Follows(retry, retry', 1)
    BY <1>1, <1>2, FollowsSelf DEF TypeOK
  <2> QED
    BY <1>1, <1>2, <2>1, <2>2, <2>3, LoopMoves DEF TypeOK
<1>3. ASSUME NEW error,
             retry' = RecordMetadata(RecordUnstructured(retry, error, settings.base),
                                     FALSE, settings.base),
             GiveUpSession \/ KeepSession, Signal, Go("checking")
      PROVE  StepOK
  <2> DEFINE f == RecordUnstructured(retry, error, settings.base)
  <2>1. Follows(retry, f, 1)
    BY <1>1, RecordUnstructuredFollows DEF TypeOK
  <2>2. retry' = RecordMetadata(f, FALSE, settings.base)
    BY <1>3
  <2> HIDE DEF f
  <2>3. Follows(retry, retry', 1)
    BY <1>1, <2>1, <2>2, RecordedTwice DEF TypeOK
  <2>4. loop' \in LoopState /\ loop'.at = "checking"
    BY <1>3, GoTyped DEF LoopSteps
  <2> QED
    BY <1>1, <1>3, <2>3, <2>4, SessionMoves, LoopMoves DEF Signal
<1> QED
  BY <1>2, <1>3 DEF LoopReadsMetadata

LEMMA LoopReadsAllOK == ASSUME RetryIInv, LoopReadsAll PROVE StepOK
<1>1. /\ UNCHANGED <<refresh, command, scan, late, settings, events>>
      /\ TypeOK /\ wake' = TRUE /\ LoopHolds
      /\ station' = [station EXCEPT !.connected = TRUE]
  BY DEF LoopReadsAll, RetryIInv, Signal, LoopHolds
<1>2. loop' \in LoopState /\ loop'.at = "top"
  BY GoTyped DEF LoopReadsAll, LoopSteps
<1>3. Follows(retry, retry', 1)
  <2>1. Follows(retry, retry', 0)
    BY <1>1, ClearTyped DEF LoopReadsAll, TypeOK
  <2> QED
    BY <1>1, <2>1, FollowsMore DEF TypeOK
<1>4. station' \in StationState /\ station'.present = station.present
  BY <1>1 DEF TypeOK, StationState
<1> QED
  BY <1>1, <1>2, <1>3, <1>4, LoopMoves DEF TypeOK, LoopHolds

LEMMA LoopReadsPartOK == ASSUME RetryIInv, LoopReadsPart PROVE StepOK
<1> DEFINE consumed == Clear(retry, {"refresh"})
<1>1. /\ UNCHANGED <<refresh, command, scan, late, settings>>
      /\ TypeOK /\ wake' = TRUE /\ LoopHolds
  BY DEF LoopReadsPart, RetryIInv, Signal, LoopHolds
<1>2. loop' \in LoopState /\ loop'.at = "checking"
  BY GoTyped DEF LoopReadsPart, LoopSteps
<1>3. consumed \in Entries /\ Follows(retry, consumed, 0)
  BY <1>1, ClearTyped DEF TypeOK
<1>4. Follows(retry, retry', 1)
  <2>1. PICK power \in PowerResults, channel \in ChannelResults, ok \in BOOLEAN :
           LET recorded == RecordObserved(consumed, power, channel, settings.base)
           IN  \/ retry' = recorded
               \/ retry' = RecordMetadata(recorded, ok, settings.base)
    BY AnswersTyped DEF LoopReadsPart
  <2> DEFINE f == RecordObserved(consumed, power, channel, settings.base)
  <2> HIDE DEF consumed
  <2>2. Follows(consumed, f, 1)
    BY <1>3, RecordObservedFollows
  <2>3. retry' = f \/ retry' = RecordMetadata(f, ok, settings.base)
    BY <2>1
  <2> HIDE DEF f
  <2>4. Follows(retry, f, 1)
    BY <1>1, <1>3, <2>2, FollowsTwo DEF TypeOK
  <2> QED
    BY <1>1, <2>3, <2>4, RecordedTwice DEF TypeOK
<1>5. GiveUpSession \/ KeepSession
  BY DEF LoopReadsPart
<1> QED
  BY <1>1, <1>2, <1>4, <1>5, SessionMoves, LoopMoves

LEMMA LoopReadFailsOK == ASSUME RetryIInv, LoopReadFails PROVE StepOK
<1> DEFINE consumed == Clear(retry, {"refresh"})
<1>1. /\ UNCHANGED <<refresh, command, scan, late, settings>>
      /\ TypeOK /\ wake' = TRUE /\ LoopHolds
  BY DEF LoopReadFails, RetryIInv, Signal, LoopHolds
<1>2. loop' \in LoopState /\ loop'.at = "checking"
  BY GoTyped DEF LoopReadFails, LoopSteps
<1>3. consumed \in Entries /\ Follows(retry, consumed, 0)
  BY <1>1, ClearTyped DEF TypeOK
<1>4. Follows(retry, retry', 1)
  <2>1. PICK error \in ErrorAnswers, ok \in BOOLEAN :
           LET recorded == RecordUnstructured(consumed, error, settings.base)
           IN  \/ retry' = recorded
               \/ retry' = RecordMetadata(recorded, ok, settings.base)
    <3>1. PICK ok \in BOOLEAN : ok = (loop.metadata = "fresh")
      OBVIOUS
    <3> QED
      BY <3>1 DEF LoopReadFails
  <2> DEFINE f == RecordUnstructured(consumed, error, settings.base)
  <2> HIDE DEF consumed
  <2>2. Follows(consumed, f, 1)
    BY <1>3, RecordUnstructuredFollows
  <2>3. retry' = f \/ retry' = RecordMetadata(f, ok, settings.base)
    BY <2>1
  <2> HIDE DEF f
  <2>4. Follows(retry, f, 1)
    BY <1>1, <1>3, <2>2, FollowsTwo DEF TypeOK
  <2> QED
    BY <1>1, <2>3, <2>4, RecordedTwice DEF TypeOK
<1>5. GiveUpSession \/ KeepSession
  BY DEF LoopReadFails
<1> QED
  BY <1>1, <1>2, <1>4, <1>5, SessionMoves, LoopMoves

LEMMA LoopChecksPresenceOK == ASSUME RetryIInv, LoopChecksPresence PROVE StepOK
<1>1. /\ UNCHANGED <<retry, wake, refresh, command, scan, late, station, settings, events>>
      /\ TypeOK /\ LoopHolds
  BY DEF LoopChecksPresence, RetryIInv, LoopHolds
<1>2. loop' \in LoopState /\ loop'.at \in {"top", "pruning"}
  BY GoTyped DEF LoopChecksPresence, LoopSteps
<1>3. Follows(retry, retry', 1)
  BY <1>1, FollowsSelf DEF TypeOK
<1> QED
  BY <1>1, <1>2, <1>3, LoopMoves DEF TypeOK

LEMMA LoopPrunesOK == ASSUME RetryIInv, LoopPrunes PROVE StepOK
<1>1. /\ UNCHANGED <<refresh, command, scan, late, station, settings, events>>
      /\ TypeOK /\ LoopHolds /\ wake' \in BOOLEAN
  BY DEF LoopPrunes, RetryIInv, LoopHolds, TypeOK
<1>2. loop' \in LoopState /\ loop'.at = "top"
  BY GoTyped DEF LoopPrunes, LoopSteps
<1>3. Follows(retry, retry', 1)
  <2>1. Follows(retry, retry', 0)
    BY <1>1, PruneFollows DEF LoopPrunes, TypeOK
  <2> QED
    BY <1>1, <2>1, FollowsMore DEF TypeOK
<1> QED
  BY <1>1, <1>2, <1>3, LoopMoves DEF TypeOK

-----------------------------------------------------------------------------
(* The steps of the periodic refresh.                                      *)

LEMMA RefreshFindsDisconnectedOK == ASSUME RetryIInv, RefreshFindsDisconnected PROVE StepOK
<1>1. /\ UNCHANGED <<loop, refresh, command, scan, late, station, settings>>
      /\ TypeOK /\ wake' = TRUE /\ events' \in 0..MaxEvents
      /\ retry' = EnsureTracked(retry)
  BY BoundsAssumption DEF RefreshFindsDisconnected, RetryIInv, Signal, TypeOK
<1>2. Follows(retry, retry', 1) /\ DOMAIN retry \subseteq DOMAIN retry'
  <2>1. Follows(retry, retry', 0) /\ DOMAIN retry \subseteq DOMAIN retry'
    BY <1>1, EnsureTrackedFollows DEF TypeOK
  <2> QED
    BY <1>1, <2>1, FollowsMore DEF TypeOK
<1> QED
  BY <1>1, <1>2, RefreshMoves DEF TypeOK, RetryIInv, AbandonedOwed

LEMMA RefreshFindsBusyOK == ASSUME RetryIInv, RefreshFindsBusy PROVE StepOK
<1>1. /\ UNCHANGED <<loop, refresh, command, scan, late, station, settings>>
      /\ TypeOK /\ wake' = TRUE /\ events' \in 0..MaxEvents
      /\ retry' = TrackPending(retry)
  BY BoundsAssumption DEF RefreshFindsBusy, RetryIInv, Signal, TypeOK
<1>2. Follows(retry, retry', 1) /\ "refresh" \in DOMAIN retry'
  <2>1. Follows(retry, retry', 0) /\ "refresh" \in DOMAIN retry'
    BY <1>1, TrackPendingFollows DEF TypeOK
  <2> QED
    BY <1>1, <2>1, FollowsMore DEF TypeOK
<1> QED
  BY <1>1, <1>2, RefreshMoves DEF TypeOK

LEMMA RefreshReadsOK == ASSUME RetryIInv, RefreshReads PROVE StepOK
<1>1. /\ UNCHANGED <<retry, wake, loop, command, scan, late, station, settings>>
      /\ TypeOK /\ events' \in 0..MaxEvents
      /\ refresh' = "reading" /\ ~DeviceHeld /\ scan.at = "none"
  BY BoundsAssumption DEF RefreshReads, RetryIInv, TypeOK
<1>2. Follows(retry, retry', 1)
  BY <1>1, FollowsSelf DEF TypeOK
<1> QED
  BY <1>1, <1>2, RefreshMoves DEF TypeOK, RetryIInv, NeverSleepsThrough

LEMMA RefreshAbandonsOK == ASSUME RetryIInv, RefreshAbandons PROVE StepOK
<1>1. /\ UNCHANGED <<loop, command, scan, late, station, settings, events>>
      /\ TypeOK /\ wake' = TRUE /\ refresh' = "abandoned" /\ refresh # "idle"
      /\ retry' = TrackPending(retry)
  BY DEF RefreshAbandons, RetryIInv, Signal
<1>2. Follows(retry, retry', 1) /\ "refresh" \in DOMAIN retry'
  <2>1. Follows(retry, retry', 0) /\ "refresh" \in DOMAIN retry'
    BY <1>1, TrackPendingFollows DEF TypeOK
  <2> QED
    BY <1>1, <2>1, FollowsMore DEF TypeOK
<1> QED
  BY <1>1, <1>2, RefreshMoves DEF TypeOK

\* A read that nobody waits for records without a signal: what the refresh
\* left behind has given it already.
LEMMA RefreshInterruptedOK == ASSUME RetryIInv, RefreshInterrupted PROVE StepOK
<1>1. /\ UNCHANGED <<loop, command, scan, late, station, settings, events>>
      /\ TypeOK /\ wake' = (wake \/ refresh = "reading") /\ refresh' = "idle"
      /\ refresh \in {"reading", "abandoned"}
      /\ retry' = TrackPending(retry)
  BY DEF RefreshInterrupted, RetryIInv, JoinWakes, TypeOK
<1>2. Follows(retry, retry', 1)
  <2>1. Follows(retry, retry', 0)
    BY <1>1, TrackPendingFollows DEF TypeOK
  <2> QED
    BY <1>1, <2>1, FollowsMore DEF TypeOK
<1>3. wake' \in BOOLEAN
  BY <1>1 DEF TypeOK
<1>4. loop.at = "parked" /\ retry' # NoEntry => wake'
  <2>1. CASE refresh = "reading"
    BY <1>1, <2>1
  <2>2. CASE refresh = "abandoned"
    <3>1. retry # NoEntry
      BY <2>2, EmptyEntry DEF RetryIInv, AbandonedOwed
    <3> QED
      BY <1>1, <3>1 DEF RetryIInv, NeverSleepsThrough
  <2> QED
    BY <1>1, <2>1, <2>2
<1> QED
  BY <1>1, <1>2, <1>3, <1>4, RefreshMoves DEF TypeOK

\* The worker's last step: it lets the device go and signals.
LEMMA RefreshEnds ==
  ASSUME RetryIInv, UNCHANGED <<loop, command, scan, late, settings>>,
         Signal, refresh' = "idle", Follows(retry, retry', 1),
         GiveUpSession \/ KeepSession \/ UNCHANGED <<station, events>>
  PROVE  StepOK
<1>1. TypeOK /\ wake' = TRUE
  BY DEF RetryIInv, Signal
<1> QED
  BY <1>1, SessionMoves, RefreshMoves

LEMMA RefreshSucceedsOK == ASSUME RetryIInv, RefreshSucceeds PROVE StepOK
<1>1. Follows(retry, retry', 1)
  <2>1. retry \in Entries
    BY DEF RetryIInv, TypeOK
  <2>2. Follows(retry, retry', 0)
    BY <2>1, ClearTyped DEF RefreshSucceeds
  <2> QED
    BY <2>1, <2>2, FollowsMore
<1> QED
  BY <1>1, RefreshEnds DEF RefreshSucceeds

LEMMA RefreshFindsDroppedOK == ASSUME RetryIInv, RefreshFindsDropped PROVE StepOK
<1>1. Follows(retry, retry', 1)
  <2>1. retry \in Entries
    BY DEF RetryIInv, TypeOK
  <2>2. Follows(retry, retry', 0)
    BY <2>1, EnsureTrackedFollows DEF RefreshFindsDropped
  <2> QED
    BY <2>1, <2>2, FollowsMore
<1> QED
  BY <1>1, RefreshEnds DEF RefreshFindsDropped

LEMMA RefreshTimesOutOK == ASSUME RetryIInv, RefreshTimesOut PROVE StepOK
<1>1. Follows(retry, retry', 1)
  BY TimedOutFollows DEF RefreshTimesOut, RetryIInv, TypeOK
<1> QED
  BY <1>1, RefreshEnds DEF RefreshTimesOut

LEMMA RefreshFailsOK == ASSUME RetryIInv, RefreshFails PROVE StepOK
<1>1. retry \in Entries
  BY DEF RetryIInv, TypeOK
<1>2. Follows(retry, retry', 1)
  BY <1>1, AnswersTyped, RecordObservedFollows, RecordUnstructuredFollows DEF RefreshFails
<1>3. GiveUpSession \/ KeepSession \/ UNCHANGED <<station, events>>
  BY DEF RefreshFails
<1> QED
  BY <1>2, <1>3, RefreshEnds DEF RefreshFails

-----------------------------------------------------------------------------
(* The steps of a command.                                                 *)

LEMMA CommandArrivesOK == ASSUME RetryIInv, CommandArrives PROVE StepOK
<1>1. /\ UNCHANGED <<retry, wake, loop, refresh, scan, late, station, settings>>
      /\ TypeOK /\ events' \in 0..MaxEvents
      /\ command' \in {"waiting", "running"} /\ command' # command
      /\ command' = "running" => ~DeviceHeld /\ scan.at = "none"
  BY BoundsAssumption DEF CommandArrives, RetryIInv, TypeOK
<1>2. Follows(retry, retry', 2)
  BY <1>1, FollowsSelf DEF TypeOK
<1> QED
  BY <1>1, <1>2, CommandMoves DEF TypeOK, RetryIInv, NeverSleepsThrough

LEMMA CommandGoesOnOK == ASSUME RetryIInv, CommandGoesOn PROVE StepOK
<1>1. /\ UNCHANGED <<retry, wake, loop, refresh, scan, late, station, settings, events>>
      /\ TypeOK
      /\ command' \in {"none", "running"} /\ command' # command
      /\ command' = "running" => ~DeviceHeld /\ scan.at = "none"
  BY DEF CommandGoesOn, RetryIInv, TypeOK
<1>2. Follows(retry, retry', 2)
  BY <1>1, FollowsSelf DEF TypeOK
<1> QED
  BY <1>1, <1>2, CommandMoves DEF TypeOK, RetryIInv, NeverSleepsThrough

\* A command that is over.
LEMMA CommandOver ==
  ASSUME RetryIInv, command = "running", CommandDone, Follows(retry, retry', 2),
         GiveUpSession \/ KeepSession
  PROVE  StepOK
<1>1. TypeOK /\ wake' = TRUE /\ command' = "none"
  BY DEF RetryIInv, Signal, CommandDone
<1> QED
  BY <1>1, SessionMoves, CommandMoves DEF CommandDone

\* The metadata a command read beside it counts no connection failure.
LEMMA ReconciledFollows ==
  ASSUME NEW e \in Entries, NEW f, NEW g \in Reconciled(f), NEW m \in {0, 1, 2},
         Follows(e, f, m)
  PROVE  Follows(e, g, 2)
<1>1. f \in Entries
  BY DEF Follows
<1>2. Follows(f, g, 0)
  <2>1. CASE g = f
    BY <1>1, <2>1, FollowsSelf
  <2>2. CASE \E ok \in MetadataAnswers : g = RecordMetadata(f, ok, settings.base)
    BY <1>1, <2>2, RecordMetadataFollows, AnswersTyped
  <2> QED
    BY <2>1, <2>2 DEF Reconciled
<1> QED
  BY <1>2, FollowsTwo

LEMMA ObserveErrorFollows ==
  ASSUME NEW e \in Entries, NEW error
  PROVE  Follows(e, ObserveError(e, error), 1)
BY FollowsSelf, RecordUnstructuredFollows DEF ObserveError

\* The check of a stale value counts one failure, the command another.
LEMMA PowerEndsOK == ASSUME RetryIInv, PowerEnds PROVE StepOK
<1>1. retry \in Entries /\ command = "running" /\ CommandDone
  BY DEF PowerEnds, RetryIInv, TypeOK
<1>2. PICK e, broken, counted :
         /\ \/ e = retry
            \/ \E power \in PowerResults, channel \in ChannelResults :
                  e = RecordObserved(retry, power, channel, settings.base)
         /\ \/ /\ retry' \in Reconciled(Clear(e, {"connection"}))
               /\ KeepSession \/ GiveUpSession
            \/ \E error \in ErrorAnswers :
                 /\ retry' \in Reconciled(IF counted THEN e ELSE ObserveError(e, error))
                 /\ IF error = "dead" \/ broken THEN GiveUpSession ELSE KeepSession
  <2>1. PICK check :
           /\ \/ check = [retry |-> retry, broken |-> FALSE, counted |-> FALSE]
              \/ \E power \in PowerResults, channel \in ChannelResults :
                    check = [retry |-> RecordObserved(retry, power, channel, settings.base),
                             broken |-> BreaksLink(power, channel),
                             counted |-> power = "dead"]
           /\ \/ /\ station.reachable
                 /\ retry' \in Reconciled(Clear(check.retry, {"connection"}))
                 /\ KeepSession \/ GiveUpSession
              \/ \E error \in ErrorAnswers :
                   /\ retry' \in Reconciled(
                          IF check.counted /\ error = "dead" THEN check.retry
                          ELSE ObserveError(check.retry, error))
                   /\ IF error = "dead" \/ check.broken
                      THEN GiveUpSession ELSE KeepSession
    <3>1. /\ PowerAnswers \cup {"unread"} \subseteq PowerResults
          /\ ChannelAnswers \cup {"unread"} \subseteq ChannelResults
      BY AnswersTyped DEF PowerResults, ChannelResults
    <3> QED
      BY <3>1 DEF PowerEnds
  <2>2. \/ check.retry = retry
        \/ \E power \in PowerResults, channel \in ChannelResults :
              check.retry = RecordObserved(retry, power, channel, settings.base)
    BY <2>1
  <2>3. CASE retry' \in Reconciled(Clear(check.retry, {"connection"}))
             /\ (KeepSession \/ GiveUpSession)
    BY <2>2, <2>3
  <2>4. ASSUME NEW error \in ErrorAnswers,
               retry' \in Reconciled(
                   IF check.counted /\ error = "dead" THEN check.retry
                   ELSE ObserveError(check.retry, error)),
               IF error = "dead" \/ check.broken THEN GiveUpSession ELSE KeepSession
        PROVE  \E counted :
                 /\ retry' \in Reconciled(IF counted THEN check.retry
                                          ELSE ObserveError(check.retry, error))
                 /\ IF error = "dead" \/ check.broken THEN GiveUpSession ELSE KeepSession
    <3>1. CASE check.counted /\ error = "dead"
      <4>1. retry' \in Reconciled(IF TRUE THEN check.retry ELSE ObserveError(check.retry, error))
        BY <2>4, <3>1
      <4> QED
        BY <2>4, <4>1
    <3>2. CASE ~(check.counted /\ error = "dead")
      <4>1. retry' \in Reconciled(IF FALSE THEN check.retry ELSE ObserveError(check.retry, error))
        BY <2>4, <3>2
      <4> QED
        BY <2>4, <4>1
    <3> QED
      BY <3>1, <3>2
  <2> QED
    BY <2>1, <2>2, <2>3, <2>4
<1>3. GiveUpSession \/ KeepSession
  BY <1>2
<1>4. Follows(retry, e, 1) /\ e \in Entries
  <2>1. Follows(retry, e, 1)
    BY <1>1, <1>2, FollowsSelf, RecordObservedFollows
  <2> QED
    BY <2>1 DEF Follows
<1>5. Follows(retry, Clear(e, {"connection"}), 1)
  <2>1. Follows(e, Clear(e, {"connection"}), 0)
    BY <1>4, ClearTyped
  <2> QED
    BY <1>1, <1>4, <2>1, FollowsTwo
<1>6. \A error : Follows(retry, ObserveError(e, error), 2)
  BY <1>1, <1>4, ObserveErrorFollows, FollowsTwo
<1>7. Follows(retry, retry', 2)
  BY <1>1, <1>2, <1>4, <1>5, <1>6, ReconciledFollows
<1> QED
  BY <1>1, <1>3, <1>7, CommandOver

LEMMA CommandEndsOK == ASSUME RetryIInv, CommandEnds PROVE StepOK
<1>1. retry \in Entries /\ command = "running" /\ CommandDone
  BY DEF CommandEnds, RetryIInv, TypeOK
<1>2. GiveUpSession \/ KeepSession
  BY DEF CommandEnds
<1>3. \A error : Follows(retry, ObserveError(retry, error), 1)
  BY <1>1, ObserveErrorFollows
<1>4. \A ks : Follows(retry, Clear(retry, ks), 0)
  BY <1>1, ClearTyped
<1>5. \/ \E ks : retry' \in Reconciled(Clear(retry, ks))
      \/ \E error : retry' \in Reconciled(ObserveError(retry, error))
  BY DEF CommandEnds
<1>6. Follows(retry, retry', 2)
  BY <1>1, <1>3, <1>4, <1>5, ReconciledFollows
<1> QED
  BY <1>1, <1>2, <1>6, CommandOver

LEMMA CapabilitiesEndOK == ASSUME RetryIInv, CapabilitiesEnd PROVE StepOK
<1>1. retry \in Entries /\ command = "running" /\ CommandDone
  BY DEF CapabilitiesEnd, RetryIInv, TypeOK
<1>2. GiveUpSession \/ KeepSession
  BY DEF CapabilitiesEnd
<1>3. Follows(retry, NoEntry, 0)
  <2>1. ~Outruns(NoEntry) /\ Failures(NoEntry, "connection") = 0
    BY EmptyEntry DEF Outruns, Failures
  <2> QED
    BY <1>1, <2>1, EmptyEntry, FailuresTyped, CapAssumption DEF Follows, Kinds
<1>4. \/ retry' \in Reconciled(NoEntry)
      \/ \E power \in PowerResults, channel \in ChannelResults :
            retry' \in Reconciled(RecordObserved(retry, power, channel, settings.base))
  BY AnswersTyped DEF CapabilitiesEnd
<1>5. Follows(retry, retry', 2)
  BY <1>1, <1>3, <1>4, RecordObservedFollows, ReconciledFollows
<1> QED
  BY <1>1, <1>2, <1>5, CommandOver

-----------------------------------------------------------------------------
(* The steps of a scan and of what it leaves behind.                       *)

LEMMA ScanReservedOK == ASSUME RetryIInv, ScanReserved PROVE StepOK
<1>1. /\ UNCHANGED <<retry, wake, loop, refresh, command, station, settings>>
      /\ TypeOK /\ events' \in 0..MaxEvents /\ scan' = [scan EXCEPT !.at = "draining"]
      /\ late' \in {"none", "superseded"} /\ (late # "none" => late' # "none")
      /\ late = "none" => late' = "none"
  BY BoundsAssumption DEF ScanReserved, RetryIInv, TypeOK
<1>2. scan' \in ScanState /\ scan'.at = "draining"
  BY <1>1 DEF TypeOK, ScanState
<1>3. Follows(retry, retry', 1)
  BY <1>1, FollowsSelf DEF TypeOK
<1>4. station.present \/ ~station'.present
  BY <1>1
<1> QED
  BY <1>1, <1>2, <1>3, <1>4, ScanMoves DEF TypeOK, RetryIInv, NeverSleepsThrough

LEMMA ScanDrainedOK == ASSUME RetryIInv, ScanDrained PROVE StepOK
<1>1. /\ UNCHANGED <<retry, wake, loop, refresh, command, late, station, settings, events>>
      /\ TypeOK /\ scan.at = "draining"
  BY DEF ScanDrained, RetryIInv
<1>2. /\ scan' \in ScanState
      /\ scan'.at = "none" \/ (scan'.at = "releasing" /\ ~DeviceHeld)
      /\ scan'.verdict = scan.verdict
  BY <1>1 DEF ScanDrained, TypeOK, ScanState
<1>3. Follows(retry, retry', 1)
  BY <1>1, FollowsSelf DEF TypeOK
<1>4. late # "current"
  BY <1>1 DEF RetryIInv, LateIsLatest
<1>5. station.present \/ ~station'.present
  BY <1>1
<1> QED
  BY <1>1, <1>2, <1>3, <1>4, <1>5, ScanMoves DEF TypeOK, RetryIInv, NeverSleepsThrough

LEMMA ScanReleasesOK == ASSUME RetryIInv, ScanReleases PROVE StepOK
<1>1. /\ UNCHANGED <<retry, wake, loop, refresh, command, late, settings, events>>
      /\ TypeOK /\ scan.at = "releasing"
  BY DEF ScanReleases, RetryIInv
<1>2. scan' \in ScanState
  BY <1>1 DEF ScanReleases, TypeOK, ScanState
<1>3. station' \in StationState /\ station'.present = station.present
  <2>1. station' = [station EXCEPT !.connected = FALSE] \/ station' = station
    BY DEF ScanReleases
  <2> QED
    BY <1>1, <2>1 DEF TypeOK, StationState
<1>4. late # "current"
  BY <1>1 DEF RetryIInv, LateIsLatest
<1>5. Follows(retry, retry', 1)
  BY <1>1, FollowsSelf DEF TypeOK
<1>6. station.present \/ ~station'.present
  BY <1>3
<1> QED
  BY <1>1, <1>2, <1>3, <1>4, <1>5, <1>6, ScanMoves DEF TypeOK, RetryIInv, NeverSleepsThrough

LEMMA ScanEndsEarlyOK == ASSUME RetryIInv, ScanEndsEarly PROVE StepOK
<1>1. /\ UNCHANGED <<retry, wake, loop, refresh, command, late, station, settings, events>>
      /\ TypeOK /\ scan.at \in {"releasing", "listening"}
      /\ scan' = [scan EXCEPT !.at = "none"]
  BY DEF ScanEndsEarly, RetryIInv
<1>2. scan' \in ScanState /\ scan'.at = "none"
  BY <1>1 DEF TypeOK, ScanState
<1>3. late # "current"
  BY <1>1 DEF RetryIInv, LateIsLatest
<1>4. Follows(retry, retry', 1)
  BY <1>1, FollowsSelf DEF TypeOK
<1>5. station.present \/ ~station'.present
  BY <1>1
<1> QED
  BY <1>1, <1>2, <1>3, <1>4, <1>5, ScanMoves DEF TypeOK, RetryIInv, NeverSleepsThrough

\* The station is seen: what an absent one owed falls due, and the loop is told.
LEMMA ObservedMoves ==
  ASSUME RetryIInv, Observed
  PROVE  /\ wake' \in BOOLEAN /\ station' \in StationState
         /\ Follows(retry, retry', 1)
         /\ "refresh" \in DOMAIN retry => "refresh" \in DOMAIN retry'
         /\ loop.at = "parked" /\ retry' # NoEntry => wake'
<1>1. TypeOK
  BY DEF RetryIInv
<1>2. station' \in StationState
  <2>1. 0 \in 0..MaxMisses
    BY BoundsAssumption
  <2> QED
    BY <1>1, <2>1 DEF Observed, TypeOK, StationState
<1>3. CASE UNCHANGED <<retry, wake>>
  BY <1>1, <1>2, <1>3, FollowsSelf DEF TypeOK, RetryIInv, NeverSleepsThrough
<1>4. CASE retry' = Rebase(retry) /\ wake' = TRUE
  <2>1. Follows(retry, retry', 0) /\ DOMAIN retry \subseteq DOMAIN retry'
    BY <1>1, <1>4, RebaseFollows DEF TypeOK
  <2> QED
    BY <1>1, <1>2, <1>4, <2>1, FollowsMore DEF TypeOK
<1> QED
  BY <1>3, <1>4 DEF Observed, Signal

LEMMA ScanSeesOK == ASSUME RetryIInv, ScanSees PROVE StepOK
<1>1. /\ UNCHANGED <<loop, refresh, command, settings, events>>
      /\ TypeOK /\ scan.at = "listening"
  BY DEF ScanSees, RetryIInv
<1>2. /\ scan' \in ScanState /\ scan'.at \in {"none", "reading"}
      /\ scan'.verdict = "seen"
  <2>1. PICK at \in {"none", "reading"} : scan' = [scan EXCEPT !.at = at, !.verdict = "seen"]
    BY DEF ScanSees
  <2> QED
    BY <1>1, <2>1 DEF TypeOK, ScanState
<1>3. CASE late' = "current" /\ UNCHANGED <<retry, wake, station>>
  <2>1. Follows(retry, retry', 1)
    BY <1>1, <1>3, FollowsSelf DEF TypeOK
  <2>2. station.present \/ ~station'.present
    BY <1>3
  <2> QED
    BY <1>1, <1>2, <1>3, <2>1, <2>2, ScanMoves DEF TypeOK, RetryIInv, NeverSleepsThrough
<1>4. CASE Observed /\ UNCHANGED late
  BY <1>1, <1>2, <1>4, ObservedMoves, ScanMoves DEF TypeOK
<1> QED
  BY <1>3, <1>4 DEF ScanSees

LEMMA ScanMissesOK == ASSUME RetryIInv, ScanMisses PROVE StepOK
<1>1. /\ UNCHANGED <<retry, wake, loop, refresh, command, late, settings, events>>
      /\ TypeOK /\ scan.at = "listening"
  BY DEF ScanMisses, RetryIInv
<1>2. scan' \in ScanState
  BY <1>1 DEF ScanMisses, TypeOK, ScanState
<1>3. scan'.at = "none"
  BY <1>1 DEF ScanMisses, TypeOK, ScanState
<1>4. late # "current"
  BY <1>1 DEF RetryIInv, LateIsLatest
<1>5. station' \in StationState
  <2>1. Lesser(station.misses + 1, MaxMisses) \in 0..MaxMisses
    BY <1>1, BoundsAssumption DEF TypeOK, StationState, Lesser
  <2>2. PresentAfter(Lesser(station.misses + 1, MaxMisses), settings.threshold) \in BOOLEAN
    BY DEF PresentAfter
  <2>3. \/ \E misses \in 0..MaxMisses, present \in BOOLEAN :
              station' = [station EXCEPT !.misses = misses, !.present = present]
        \/ station' = station
    BY <2>1, <2>2 DEF ScanMisses
  <2> QED
    BY <1>1, <2>3 DEF TypeOK, StationState
<1>6. Follows(retry, retry', 1)
  BY <1>1, FollowsSelf DEF TypeOK
<1> QED
  BY <1>1, <1>2, <1>3, <1>4, <1>5, <1>6, ScanMoves DEF TypeOK, RetryIInv, NeverSleepsThrough

\* A step that ends the scan's read of the station, which holds no device.
LEMMA ScanReadEnds ==
  ASSUME RetryIInv, UNCHANGED <<loop, refresh, command, late, settings>>,
         scan.at = "reading", scan' = [scan EXCEPT !.at = "none"],
         station' \in StationState, station'.present = station.present,
         events' \in 0..MaxEvents, Follows(retry, retry', 1),
         Signal \/ UNCHANGED <<retry, wake>>
  PROVE  StepOK
<1>1. TypeOK /\ ~DeviceHeld
  BY DEF RetryIInv, DeviceExclusive
<1>2. scan' \in ScanState /\ scan'.at = "none" /\ scan'.verdict = scan.verdict
  BY <1>1 DEF TypeOK, ScanState
<1>3. wake' \in BOOLEAN /\ (loop.at = "parked" /\ retry' # NoEntry => wake')
  BY <1>1 DEF TypeOK, Signal, RetryIInv, NeverSleepsThrough
<1>4. late' = "current" => scan'.verdict = "seen"
  BY <1>2 DEF RetryIInv, LateIsLatest
<1>5. station.present \/ ~station'.present
  OBVIOUS
<1> QED
  BY <1>1, <1>2, <1>3, <1>4, <1>5, ScanMoves DEF TypeOK

LEMMA ScanReadsOK == ASSUME RetryIInv, ScanReads PROVE StepOK
<1>1. /\ UNCHANGED <<loop, refresh, command, late, settings>>
      /\ TypeOK /\ Signal /\ scan.at = "reading" /\ scan' = [scan EXCEPT !.at = "none"]
  BY DEF ScanReads, RetryIInv
<1>2. CASE /\ retry' = NoEntry /\ station' = [station EXCEPT !.connected = TRUE]
           /\ UNCHANGED events
  <2>1. station' \in StationState /\ station'.present = station.present
    BY <1>1, <1>2 DEF TypeOK, StationState
  <2>2. ~Outruns(NoEntry) /\ Failures(NoEntry, "connection") = 0
    BY EmptyEntry DEF Outruns, Failures
  <2>3. Follows(retry, retry', 1)
    BY <1>1, <1>2, <2>2, EmptyEntry, FailuresTyped, CapAssumption DEF Follows, Kinds, TypeOK
  <2> QED
    BY <1>1, <1>2, <2>1, <2>3, ScanReadEnds DEF TypeOK
<1>3. ASSUME NEW power \in PowerAnswers, NEW channel \in ChannelAnswers,
             NEW ok \in MetadataAnswers,
             retry' = RecordMetadata(RecordObserved(retry, power, channel, settings.base),
                                     ok, settings.base),
             GiveUpSession \/ KeepSession
      PROVE  StepOK
  <2> DEFINE f == RecordObserved(retry, power, channel, settings.base)
  <2>1. Follows(retry, f, 1)
    BY <1>1, AnswersTyped, RecordObservedFollows DEF TypeOK
  <2>2. retry' = RecordMetadata(f, ok, settings.base)
    BY <1>3
  <2> HIDE DEF f
  <2>3. Follows(retry, retry', 1)
    BY <1>1, <2>1, <2>2, AnswersTyped, RecordedTwice DEF TypeOK
  <2> QED
    BY <1>1, <1>3, <2>3, SessionMoves, ScanReadEnds
<1>4. ASSUME NEW error \in ErrorAnswers,
             retry' = RecordUnstructured(retry, error, settings.base),
             GiveUpSession \/ KeepSession
      PROVE  StepOK
  <2>1. Follows(retry, retry', 1)
    BY <1>1, <1>4, RecordUnstructuredFollows DEF TypeOK
  <2> QED
    BY <1>1, <1>4, <2>1, SessionMoves, ScanReadEnds
<1> QED
  BY <1>2, <1>3, <1>4 DEF ScanReads

LEMMA ScanReadAbandonedOK == ASSUME RetryIInv, ScanReadAbandoned PROVE StepOK
<1>1. /\ UNCHANGED <<loop, refresh, command, late, settings>>
      /\ TypeOK /\ scan.at = "reading" /\ scan' = [scan EXCEPT !.at = "none"]
  BY DEF ScanReadAbandoned, RetryIInv
<1>2. Follows(retry, retry', 1) /\ (Signal \/ UNCHANGED <<retry, wake>>)
  <2>1. \/ retry' = TrackPending(retry) /\ Signal
        \/ UNCHANGED <<retry, wake>>
    BY DEF ScanReadAbandoned
  <2>2. Follows(retry, TrackPending(retry), 1) /\ Follows(retry, retry, 1)
    BY <1>1, TrackPendingFollows, FollowsSelf, FollowsMore DEF TypeOK
  <2> QED
    BY <2>1, <2>2
<1>3. /\ station' \in StationState /\ station'.present = station.present
      /\ events' \in 0..MaxEvents
  <2>1. \/ UNCHANGED <<station, events>>
        \/ GiveUpSession
    BY DEF ScanReadAbandoned, GiveUpSession
  <2> QED
    BY <1>1, <2>1, SessionMoves
<1> QED
  BY <1>1, <1>2, <1>3, ScanReadEnds

\* The sighting is the last scan's, so the station it revives was seen.
LEMMA LateAppliesOK == ASSUME RetryIInv, LateApplies PROVE StepOK
<1>1. /\ UNCHANGED <<loop, refresh, command, scan, settings, events>>
      /\ TypeOK /\ late = "current" /\ late' = "none"
  BY DEF LateApplies, RetryIInv
<1>2. scan.verdict = "seen"
  BY <1>1 DEF RetryIInv, LateIsLatest
<1>3. Observed
  BY DEF LateApplies
<1> QED
  BY <1>1, <1>2, <1>3, ObservedMoves, ScanMoves DEF TypeOK

LEMMA LateDroppedOK == ASSUME RetryIInv, LateDropped PROVE StepOK
<1>1. /\ UNCHANGED <<retry, wake, loop, refresh, command, scan, station, settings, events>>
      /\ TypeOK /\ late' = "none"
  BY DEF LateDropped, RetryIInv
<1>2. Follows(retry, retry', 1)
  BY <1>1, FollowsSelf DEF TypeOK
<1>3. station.present \/ ~station'.present
  BY <1>1
<1> QED
  BY <1>1, <1>2, <1>3, ScanMoves DEF TypeOK, RetryIInv, NeverSleepsThrough

-----------------------------------------------------------------------------
(* Settings, the station and the clock.                                    *)

\* A step around the recovery: it starts and ends nothing that holds the
\* device, and takes no owed read away.
LEMMA SurroundingsMove ==
  ASSUME RetryIInv, UNCHANGED <<refresh, command, scan, late>>,
         loop' \in LoopState, loop'.at = loop.at, wake' \in BOOLEAN,
         station' \in StationState, settings' \in SettingsState,
         events' \in 0..MaxEvents, retry' \in Entries,
         "refresh" \in DOMAIN retry => "refresh" \in DOMAIN retry',
         loop.at = "parked" /\ retry' # NoEntry => wake',
         Outruns(retry') => Outruns(retry) \/ ChangeRecovery,
         Failures(retry', "connection") <= Failures(retry, "connection") + 1
  PROVE  StepOK
<1>1. TypeOK'
  BY DEF RetryIInv, TypeOK
<1>2. NeverSleepsThrough' /\ LateIsLatest' /\ AbandonedOwed'
  BY DEF RetryIInv, NeverSleepsThrough, LateIsLatest, AbandonedOwed
<1>3. DeviceExclusive'
  BY DEF RetryIInv, DeviceExclusive, DeviceHeld, LoopHolds
<1> QED
  BY <1>1, <1>2, <1>3 DEF StepOK, RetryIInv

\* A change of the settings moves delays and gives work up or back, and
\* counts no failure.
LEMMA ChangeRecoveryOK == ASSUME RetryIInv, ChangeRecovery PROVE StepOK
<1>1. /\ UNCHANGED <<loop, refresh, command, scan, late, station>>
      /\ TypeOK /\ wake' = TRUE /\ events' \in 0..MaxEvents
  BY BoundsAssumption DEF ChangeRecovery, RetryIInv, Signal, TypeOK
<1>2. PICK base \in Bases, limit \in Limits, since \in [Failed(retry) -> {0, MaxDelay}] :
         LET kept == IF station.present THEN retry ELSE PruneExhausted(retry, limit)
             rebased == Reschedule(kept, base, since)
         IN  /\ retry' = rebased \/ retry' = Revive(rebased)
             /\ settings' = [settings EXCEPT !.base = base, !.limit = limit]
  BY DEF ChangeRecovery
<1> DEFINE kept == IF station.present THEN retry ELSE PruneExhausted(retry, limit)
           rebased == Reschedule(kept, base, since)
<1>3. settings' \in SettingsState
  BY <1>1, <1>2 DEF TypeOK, SettingsState
<1>4. /\ kept \in Entries /\ Failures(kept, "connection") <= Failures(retry, "connection")
      /\ "refresh" \in DOMAIN retry => "refresh" \in DOMAIN kept
  <2>1. Follows(retry, kept, 0) /\ ("refresh" \in DOMAIN retry => "refresh" \in DOMAIN kept)
    BY <1>1, FollowsSelf, PruneFollows DEF TypeOK
  <2> HIDE DEF kept
  <2>2. Failures(retry, "connection") \in Nat
    BY <1>1, FailuresTyped, CapAssumption DEF TypeOK, Kinds
  <2> QED
    BY <2>1, <2>2 DEF Follows
<1>5. \A k \in Failed(kept) : since[k] \in {0, MaxDelay}
  <2>1. DOMAIN kept \subseteq DOMAIN retry /\ \A k \in DOMAIN kept : kept[k] = retry[k]
    <3>1. CASE station.present
      BY <3>1
    <3>2. CASE ~station.present
      <4>1. PICK ks : kept = Clear(retry, ks)
        BY <3>2 DEF PruneExhausted
      <4>2. /\ DOMAIN Clear(retry, ks) = DOMAIN retry \ ks
            /\ \A x \in DOMAIN retry \ ks : Clear(retry, ks)[x] = retry[x]
        BY <1>1, ClearTyped DEF TypeOK
      <4> HIDE DEF kept
      <4> QED
        BY <4>1, <4>2
    <3> QED
      BY <3>1, <3>2
  <2> HIDE DEF kept
  <2>2. Failed(kept) \subseteq Failed(retry)
    BY <2>1 DEF Failed
  <2> QED
    BY <2>2
<1> HIDE DEF kept
<1>6. /\ rebased \in Entries /\ DOMAIN rebased = DOMAIN kept
      /\ Failures(rebased, "connection") = Failures(kept, "connection")
  BY <1>4, <1>5, RescheduleTyped
<1>7. retry' = rebased \/ retry' = Revive(rebased)
  BY <1>2 DEF kept
<1> HIDE DEF rebased
<1>8. /\ retry' \in Entries
      /\ Failures(retry', "connection") <= Failures(rebased, "connection")
      /\ "refresh" \in DOMAIN rebased => "refresh" \in DOMAIN retry'
  <2>1. Failures(rebased, "connection") \in Nat
    BY <1>6, FailuresTyped, CapAssumption DEF Kinds
  <2>2. /\ Follows(rebased, Revive(rebased), 0) /\ Follows(rebased, rebased, 0)
        /\ "refresh" \in DOMAIN rebased => "refresh" \in DOMAIN Revive(rebased)
    BY <1>6, ReviveFollows, FollowsSelf
  <2> QED
    BY <1>7, <2>1, <2>2 DEF Follows
<1>9. Failures(retry', "connection") <= Failures(retry, "connection") + 1
  BY <1>1, <1>4, <1>6, <1>8, FailuresTyped, CapAssumption DEF TypeOK, Kinds
<1> QED
  BY <1>1, <1>3, <1>4, <1>6, <1>8, <1>9, SurroundingsMove DEF TypeOK

LEMMA ChangeThresholdOK == ASSUME RetryIInv, ChangeThreshold PROVE StepOK
<1>1. /\ UNCHANGED <<loop, refresh, command, scan, late>>
      /\ TypeOK /\ events' \in 0..MaxEvents
  BY BoundsAssumption DEF ChangeThreshold, RetryIInv, TypeOK
<1>2. settings' \in SettingsState
  BY <1>1 DEF ChangeThreshold, TypeOK, SettingsState
<1>3. station' \in StationState
  <2>1. PICK threshold \in Thresholds :
           station' = [station EXCEPT !.present =
                          IF ~station.locked /\ station.misses > 0
                          THEN PresentAfter(station.misses, threshold) ELSE station.present]
    BY <1>1 DEF ChangeThreshold, TypeOK, StationState
  <2>2. PresentAfter(station.misses, threshold) \in BOOLEAN
    BY DEF PresentAfter
  <2>3. \/ \E b \in BOOLEAN : station' = [station EXCEPT !.present = b]
        \/ station' = station
    BY <1>1, <2>1, <2>2 DEF TypeOK, StationState
  <2> QED
    BY <1>1, <2>3 DEF TypeOK, StationState
<1>4. /\ \/ retry' = Rebase(retry) \/ retry' = PruneExhausted(retry, settings.limit)
         \/ retry' = retry
      /\ wake' = (wake \/ retry' # retry)
  BY DEF ChangeThreshold
<1>5. Follows(retry, retry', 1) /\ ("refresh" \in DOMAIN retry => "refresh" \in DOMAIN retry')
  <2>1. retry \in Entries
    BY <1>1 DEF TypeOK
  <2>2. Follows(retry, retry', 0) /\ ("refresh" \in DOMAIN retry => "refresh" \in DOMAIN retry')
    BY <1>4, <2>1, RebaseFollows, PruneFollows, FollowsSelf
  <2> QED
    BY <2>1, <2>2, FollowsMore
<1>6. loop.at = "parked" /\ retry' # NoEntry => wake'
  BY <1>4 DEF RetryIInv, NeverSleepsThrough
<1>7. wake' \in BOOLEAN
  BY <1>1, <1>4 DEF TypeOK
<1> QED
  BY <1>1, <1>2, <1>3, <1>5, <1>6, <1>7, SurroundingsMove DEF TypeOK, Follows

\* Nothing but the station and the count of events changes.
LEMMA StationAlone ==
  ASSUME RetryIInv,
         UNCHANGED <<retry, wake, loop, refresh, command, scan, late, settings>>,
         station' \in StationState, events' \in 0..MaxEvents
  PROVE  StepOK
<1>1. TypeOK
  BY DEF RetryIInv
<1>2. Follows(retry, retry', 1)
  BY <1>1, FollowsSelf DEF TypeOK
<1> QED
  BY <1>1, <1>2, SurroundingsMove DEF TypeOK, Follows, RetryIInv, NeverSleepsThrough

LEMMA StationMovesOK == ASSUME RetryIInv, StationMoves PROVE StepOK
<1>1. TypeOK
  BY DEF RetryIInv
<1>2. PICK b \in BOOLEAN : station' = [station EXCEPT !.reachable = b]
  BY <1>1 DEF StationMoves, TypeOK, StationState
<1>3. station' \in StationState /\ events' \in 0..MaxEvents
  BY <1>1, <1>2, BoundsAssumption DEF StationMoves, TypeOK, StationState
<1> QED
  BY <1>3, StationAlone DEF StationMoves

LEMMA LinkDropsOK == ASSUME RetryIInv, LinkDrops PROVE StepOK
<1>1. station' \in StationState /\ events' \in 0..MaxEvents
  BY DEF LinkDrops, RetryIInv, TypeOK, StationState
<1> QED
  BY <1>1, StationAlone DEF LinkDrops

LEMMA CallReturnsOK == ASSUME RetryIInv, CallReturns PROVE StepOK
<1>1. TypeOK
  BY DEF RetryIInv
<1>2. PICK b \in BOOLEAN : station' = [station EXCEPT !.locked = FALSE, !.connected = b]
  BY <1>1 DEF CallReturns, TypeOK, StationState
<1>3. station' \in StationState /\ events' \in 0..MaxEvents
  BY <1>1, <1>2 DEF CallReturns, TypeOK, StationState
<1> QED
  BY <1>3, StationAlone DEF CallReturns

LEMMA TickOK == ASSUME RetryIInv, Tick PROVE StepOK
<1>1. /\ UNCHANGED <<wake, refresh, command, scan, late, station, settings, events>>
      /\ TypeOK /\ retry' = Elapse(retry)
  BY DEF Tick, RetryIInv
<1>2. loop' \in LoopState /\ loop'.at = loop.at
  <2>1. Later(loop.alarm - 1, 0) \in 0..MaxDelay
    BY <1>1, DelayAssumption DEF TypeOK, LoopState, Later
  <2>2. PICK n \in 0..MaxDelay : loop' = [loop EXCEPT !.alarm = n]
    BY <2>1 DEF Tick
  <2> QED
    BY <1>1, <2>2 DEF TypeOK, LoopState
<1>3. Follows(retry, retry', 1) /\ DOMAIN retry' = DOMAIN retry
  <2>1. Follows(retry, retry', 0) /\ DOMAIN retry' = DOMAIN retry
    BY <1>1, ElapseFollows DEF TypeOK
  <2> QED
    BY <1>1, <2>1, FollowsMore DEF TypeOK
<1>4. loop.at = "parked" /\ retry' # NoEntry => wake'
  BY <1>1, <1>3, EmptyEntry DEF RetryIInv, NeverSleepsThrough, TypeOK, Follows
<1> QED
  BY <1>1, <1>2, <1>3, <1>4, SurroundingsMove DEF TypeOK, Follows

-----------------------------------------------------------------------------
(* The theorems.                                                           *)

LEMMA RetryInit == Init => RetryIInv
<1> SUFFICES ASSUME Init PROVE RetryIInv
  OBVIOUS
<1>1. station \in StationState /\ station.present
  BY BoundsAssumption DEF Init, StationState
<1>2. settings \in SettingsState
  <2>1. Least(Bases) \in Bases
    BY BasesAssumption, LeastOfNats
  <2>2. Limits \in SUBSET Nat /\ Limits # {}
    BY LimitsAssumption, CapAssumption
  <2>3. Least(Limits) \in Limits
    BY <2>2, LeastOfNats
  <2>4. Thresholds \in SUBSET Nat /\ Thresholds # {}
    BY ThresholdsAssumption, BoundsAssumption
  <2>5. Least(Thresholds) \in Thresholds
    BY <2>4, LeastOfNats
  <2> QED
    BY <2>1, <2>3, <2>5 DEF Init, SettingsState
<1>3. retry \in Entries
  <2>1. NoEntry \in Entries /\ TrackPending(NoEntry) \in Entries
    BY EmptyEntry, TrackPendingFollows DEF Follows
  <2>2. \A power \in PowerAnswers, channel \in ChannelAnswers :
           RecordObserved(NoEntry, power, channel, settings.base) \in Entries
    BY <2>1, AnswersTyped, RecordObservedFollows DEF Follows
  <2> QED
    BY <2>1, <2>2 DEF Init
<1>4. loop \in LoopState /\ loop.at = "parked"
  BY DelayAssumption DEF Init, LoopState, LoopSteps
<1>5. scan \in ScanState /\ scan.at = "none"
  BY DEF Init, ScanState
<1>6. TypeOK
  BY <1>1, <1>2, <1>3, <1>4, <1>5, BoundsAssumption DEF Init, TypeOK
<1> QED
  BY <1>4, <1>5, <1>6
  DEF Init, RetryIInv, NeverSleepsThrough, DeviceExclusive, DeviceHeld, LoopHolds,
      AbandonedOwed, LateIsLatest

LEMMA RetryStep == ASSUME RetryIInv, [Next]_vars PROVE StepOK
<1>1. CASE UNCHANGED vars
  <2>1. UNCHANGED <<retry, wake, loop, refresh, command, scan, late, settings>>
        /\ station' \in StationState /\ events' \in 0..MaxEvents
    BY <1>1 DEF vars, RetryIInv, TypeOK
  <2> QED
    BY <2>1, StationAlone
<1>2. CASE LoopNext
  BY <1>2, LoopLooksOK, LoopWakesOK, LoopAlarmOK, LoopChoosesOK, LoopBeginsOK,
     LoopNotReadyOK, LoopCancelledOK, LoopReadsMetadataOK, LoopReadsAllOK,
     LoopReadsPartOK, LoopReadFailsOK, LoopChecksPresenceOK, LoopPrunesOK DEF LoopNext
<1>3. CASE RefreshNext
  BY <1>3, RefreshFindsDisconnectedOK, RefreshFindsBusyOK, RefreshReadsOK,
     RefreshAbandonsOK, RefreshInterruptedOK, RefreshSucceedsOK,
     RefreshFindsDroppedOK, RefreshTimesOutOK, RefreshFailsOK DEF RefreshNext
<1>4. CASE CommandNext
  BY <1>4, CommandArrivesOK, CommandGoesOnOK, PowerEndsOK, CommandEndsOK,
     CapabilitiesEndOK DEF CommandNext
<1>5. CASE ScanNext
  BY <1>5, ScanReservedOK, ScanDrainedOK, ScanReleasesOK, ScanEndsEarlyOK,
     ScanSeesOK, ScanMissesOK, ScanReadsOK, ScanReadAbandonedOK, LateAppliesOK,
     LateDroppedOK DEF ScanNext
<1>6. CASE EnvironmentNext
  BY <1>6, ChangeRecoveryOK, ChangeThresholdOK, StationMovesOK, LinkDropsOK,
     CallReturnsOK DEF EnvironmentNext
<1> QED
  BY <1>1, <1>2, <1>3, <1>4, <1>5, <1>6, TickOK DEF Next

\* The inductive invariant holds: the types, one operation at a time on the
\* device, an abandoned read that is still owed, and a sighting that counts
\* only while it is the last scan's.
THEOREM RetryInvariant == Spec => []RetryIInv
<1>1. Init => RetryIInv
  BY RetryInit
<1>2. RetryIInv /\ [Next]_vars => RetryIInv'
  BY RetryStep DEF StepOK
<1> QED
  BY <1>1, <1>2, PTL DEF Spec

\* The recovery loop never waits for a signal alone while a read is owed:
\* whoever records one, under any interleaving, also leaves a signal.
THEOREM RetryIsSafe == Spec => []RetryInv
<1>1. RetryIInv => RetryInv
  BY DEF RetryIInv, RetryInv
<1> QED
  BY <1>1, RetryInvariant, PTL

\* No read, command, scan or tick puts the marker of a pending read ahead of
\* the connection's backoff; only a change of the settings may.
THEOREM MarkerStaysBehind == Spec => MarkerBehindBackoff
<1>1. RetryIInv /\ [Next]_vars => [Outruns(retry') => Outruns(retry) \/ ChangeRecovery]_vars
  BY RetryStep DEF StepOK
<1> QED
  BY <1>1, RetryInvariant, PTL DEF Spec, MarkerBehindBackoff

\* A background read counts at most one connection failure, however many of
\* its values met the dead link.
THEOREM FailuresCountOnce == Spec => FailureCountedOnce
<1>1. RetryIInv /\ [Next]_vars =>
        [command' = command =>
           Failures(retry', "connection") <= Failures(retry, "connection") + 1]_vars
  BY RetryStep DEF StepOK
<1> QED
  BY <1>1, RetryInvariant, PTL DEF Spec, FailureCountedOnce

\* A sighting that waited for the station's lock never revives a station
\* that a newer scan has missed.
THEOREM StaleSightingsStay == Spec => NoStaleRevival
<1>1. RetryIInv /\ [Next]_vars =>
        [late # "none" /\ late' = "none" /\ ~station.present /\ station'.present
         => scan.verdict = "seen"]_vars
  BY RetryStep DEF StepOK
<1> QED
  BY <1>1, RetryInvariant, PTL DEF Spec, NoStaleRevival
=============================================================================
