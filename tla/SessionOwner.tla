----------------------------- MODULE SessionOwner -----------------------------
(***************************************************************************)
(* What the Bluetooth package promises of the GATT session of a station:   *)
(* there is one at a time, and somebody has it.  The user who opens it     *)
(* gives it to the station; a user who closes it takes it from there, and  *)
(* what is once taken, or detached because its link has dropped, never     *)
(* comes back: it is released, or kept to be closed later.  What has been  *)
(* discovered of a session lasts no longer than the station has it.  Who   *)
(* waits for whom, and when, is left to the implementation.                *)
(***************************************************************************)
EXTENDS Naturals

CONSTANTS Users

VARIABLES
  count,     \* sessions opened so far, numbered in order
  live,      \* the sessions that are open
  down,      \* those of them whose link has dropped
  held,      \* the session the station has, as a set
  usable,    \* its services have been discovered
  kept,      \* the session kept to be closed later, as a set
  hand,      \* the session in the hand of each user, as a set
  fresh      \* the one in a hand has just been opened

vars == <<count, live, down, held, usable, kept, hand, fresh>>

Init ==
  /\ count = 0 /\ live = {} /\ down = {}
  /\ held = {} /\ kept = {}
  /\ hand = [u \in Users |-> {}]
  /\ fresh = FALSE /\ usable = FALSE

Open(u) ==
  /\ live = {} /\ live' = {count + 1}
  /\ count' = count + 1
  /\ hand' = [hand EXCEPT ![u] = live']
  /\ fresh' = TRUE
  /\ UNCHANGED <<down, held, usable, kept>>

\* Only a session that has just been opened is given to the station.
Give(u) ==
  /\ fresh /\ hand[u] # {}
  /\ held' = hand[u]
  /\ hand' = [hand EXCEPT ![u] = {}]
  /\ fresh' = FALSE
  /\ UNCHANGED <<count, live, down, usable, kept>>

Discover ==
  /\ held # {} /\ usable' = TRUE
  /\ UNCHANGED <<count, live, down, held, kept, hand, fresh>>

TakeHeld(u) ==
  /\ held # {} /\ held' = {}
  /\ hand' = [hand EXCEPT ![u] = held]
  /\ usable' = FALSE
  /\ UNCHANGED <<count, live, down, kept, fresh>>

TakeKept(u) ==
  /\ kept # {} /\ kept' = {}
  /\ hand' = [hand EXCEPT ![u] = kept]
  /\ UNCHANGED <<count, live, down, held, usable, fresh>>

Released(u) ==
  /\ hand[u] # {} /\ ~fresh
  /\ live' = live \ hand[u] /\ down' = down \ hand[u]
  /\ hand' = [hand EXCEPT ![u] = {}]
  /\ UNCHANGED <<count, held, usable, kept, fresh>>

NotReleased(u) ==
  /\ hand[u] # {} /\ ~fresh
  /\ kept' = hand[u]
  /\ hand' = [hand EXCEPT ![u] = {}]
  /\ UNCHANGED <<count, live, down, held, usable, fresh>>

LinkDrops(h) ==
  /\ h \in live /\ down' = down \cup {h}
  /\ UNCHANGED <<count, live, held, usable, kept, hand, fresh>>

\* A session is detached on an event only if its own link has dropped.
Detach ==
  /\ held # {} /\ held \subseteq down
  /\ held' = {} /\ kept' = held
  /\ usable' = FALSE
  /\ UNCHANGED <<count, live, down, hand, fresh>>

Next ==
  \/ \E u \in Users :
       \/ Open(u) \/ Give(u) \/ TakeHeld(u) \/ TakeKept(u)
       \/ Released(u) \/ NotReleased(u)
  \/ \E h \in live : LinkDrops(h)
  \/ Discover \/ Detach

Spec == Init /\ [][Next]_vars

=============================================================================
