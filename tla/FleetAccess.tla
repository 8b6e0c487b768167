----------------------------- MODULE FleetAccess -----------------------------
(***************************************************************************)
(* What the coordinator promises the rest of the manager: the adapter is   *)
(* one operation's alone, or shared; a station belongs to one operation at *)
(* a time, of at most GattSlots; and once closed, as the shutdown drain    *)
(* needs it for the fleet disconnect, it stays unused.  How an operation   *)
(* comes to be admitted, whom it waits for and what it cancels is left to  *)
(* the implementation.                                                     *)
(***************************************************************************)
EXTENDS Integers

CONSTANTS Holders, Stations, GattSlots

VARIABLES
  exclusive,  \* the holder of exclusive access, as a set
  shared,     \* the holders of shared access
  owner,      \* the holder at work on each station, as a set
  free,       \* GATT slots not in use
  closed

vars == <<exclusive, shared, owner, free, closed>>

Init ==
  /\ exclusive = {} /\ shared = {}
  /\ owner = [s \in Stations |-> {}]
  /\ free = GattSlots
  /\ closed = FALSE

AcquireExclusive(h) ==
  /\ ~closed /\ exclusive = {} /\ shared = {}
  /\ exclusive' = {h}
  /\ UNCHANGED <<shared, owner, free, closed>>

ReleaseExclusive ==
  /\ exclusive # {}
  /\ exclusive' = {}
  /\ UNCHANGED <<shared, owner, free, closed>>

AcquireShared(h) ==
  /\ ~closed /\ exclusive = {}
  /\ shared' = shared \cup {h}
  /\ UNCHANGED <<exclusive, owner, free, closed>>

ReleaseShared(h) ==
  /\ h \in shared /\ \A s \in Stations : h \notin owner[s]
  /\ shared' = shared \ {h}
  /\ UNCHANGED <<exclusive, owner, free, closed>>

TakeStation(h, s) ==
  /\ h \in shared /\ \A t \in Stations : h \notin owner[t]
  /\ owner[s] = {}
  /\ free > 0 /\ free' = free - 1
  /\ owner' = [owner EXCEPT ![s] = {h}]
  /\ UNCHANGED <<exclusive, shared, closed>>

GiveBack(s) ==
  /\ owner[s] # {}
  /\ owner' = [owner EXCEPT ![s] = {}]
  /\ free' = free + 1
  /\ UNCHANGED <<exclusive, shared, closed>>

Close ==
  /\ exclusive = {} /\ shared = {}
  /\ closed' = TRUE
  /\ UNCHANGED <<exclusive, shared, owner, free>>

Next ==
  \/ \E h \in Holders : \/ AcquireExclusive(h)
                        \/ AcquireShared(h) \/ ReleaseShared(h)
                        \/ \E s \in Stations : TakeStation(h, s)
  \/ ReleaseExclusive \/ Close
  \/ \E s \in Stations : GiveBack(s)

Spec == Init /\ [][Next]_vars

=============================================================================
