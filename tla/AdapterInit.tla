----------------------------- MODULE AdapterInit -----------------------------
(***************************************************************************)
(* The Bluetooth adapter as the station manager sees it: one shared        *)
(* attempt to enable it, callers that wait for that attempt for a bounded  *)
(* time, a cooldown between attempts, and the one cleanup of the fleet     *)
(* after the adapter is lost (internal/station/manager.go 720-915).        *)
(*                                                                         *)
(* adapter.Enable takes no context and may never return.  Every section    *)
(* under initializeMutex is one step; the check of shuttingDown just       *)
(* before a section is taken with it.                                      *)
(***************************************************************************)
EXTENDS Integers, FiniteSets

CONSTANTS Askers,        \* the calls that need the adapter
          StartupAsker,  \* the one that is Initialize
          MaxEnables     \* attempts are begun no more often

ASSUME AskersAssumption == IsFiniteSet(Askers) /\ StartupAsker \in Askers
ASSUME EnablesAssumption == MaxEnables \in Nat \ {0}

VARIABLES adapter,   \* initializeAttempted, initializeErr, initializePending,
                     \* "before nextInitializeAt", adapterCleanupIssued, and
                     \* the fleet cleanups since the last success
          enabling,  \* the attempts that are inside adapter.Enable
          asker,     \* what each call has been told, or the attempt it awaits
          shutting   \* shuttingDown, and shutdownCh closed with it

adapterVars == <<adapter, enabling, asker, shutting>>

Attempts == 1..MaxEnables

AdapterStart ==
    /\ adapter = [attempted |-> FALSE, failed |-> FALSE, pending |-> 0,
                  cooling |-> FALSE, issued |-> FALSE, cleanups |-> 0, begun |-> 0]
    /\ enabling = {}
    /\ asker = [c \in Askers |->
                   [at |-> IF c = StartupAsker THEN "starting" ELSE "none",
                    attempt |-> 0]]
    /\ shutting = FALSE

\* (Nobody acts on what Initialize returned.)
Tell(c, answer) ==
    asker' = [asker EXCEPT ![c] =
        [at |-> IF c = StartupAsker /\ answer # "asking" THEN "none" ELSE answer,
         attempt |-> 0]]

Await(c, a) == asker' = [asker EXCEPT ![c] = [at |-> "waiting", attempt |-> a]]

BeginAttempt(c) ==
    LET a == adapter.begun + 1
    IN  /\ adapter.begun < MaxEnables
        /\ adapter' = [adapter EXCEPT !.pending = a, !.begun = a]
        /\ enabling' = enabling \cup {a}
        /\ Await(c, a)

\* What follows when the adapter is not known to be ready.
AdoptOrBegin(c) ==
    \/ /\ adapter.pending # 0
       /\ Await(c, adapter.pending)
       /\ UNCHANGED <<adapter, enabling>>
    \/ /\ adapter.pending = 0 /\ adapter.cooling
       /\ Tell(c, "unavailable")
       /\ UNCHANGED <<adapter, enabling>>
    \/ /\ adapter.pending = 0 /\ ~adapter.cooling
       /\ BeginAttempt(c)

\* Initialize, at the start of the program, beside the first requests: only
\* an attempt that was made and succeeded spares it one of its own.
Initialize(c) ==
    /\ asker[c].at = "starting"
    /\ \/ /\ shutting
          /\ Tell(c, "closing")
          /\ UNCHANGED <<adapter, enabling>>
       \/ /\ ~shutting /\ adapter.attempted /\ ~adapter.failed
          /\ Tell(c, "ready")
          /\ UNCHANGED <<adapter, enabling>>
       \/ /\ ~shutting /\ ~(adapter.attempted /\ ~adapter.failed)
          /\ AdoptOrBegin(c)
    /\ UNCHANGED shutting

EnsureReady(c) ==
    /\ asker[c].at = "asking"
    /\ \/ /\ shutting
          /\ Tell(c, "closing")
          /\ UNCHANGED <<adapter, enabling>>
       \/ /\ ~shutting /\ ~adapter.failed /\ adapter.pending = 0
          /\ Tell(c, "ready")
          /\ UNCHANGED <<adapter, enabling>>
       \/ /\ ~shutting /\ (adapter.failed \/ adapter.pending # 0)
          /\ AdoptOrBegin(c)
    /\ UNCHANGED shutting

\* waitInitializeAttempt: the attempt has ended, and the caller asks again.
AttemptSeen(c) ==
    /\ asker[c].at = "waiting"
    /\ asker[c].attempt \notin enabling
    /\ Tell(c, "asking")
    /\ UNCHANGED <<adapter, enabling, shutting>>

\* Mutant: the caller that gives up forgets the attempt it waited for.
WaitEndsForgetting(c) ==
    /\ asker[c].at = "waiting"
    /\ Tell(c, "unavailable")
    /\ adapter' = [adapter EXCEPT !.cooling = TRUE, !.pending = 0]
    /\ UNCHANGED <<enabling, shutting>>

\* The bounded wait is over.  The attempt goes on and stays tracked.
WaitEnds(c) ==
    /\ asker[c].at = "waiting"
    /\ Tell(c, "unavailable")
    /\ adapter' = [adapter EXCEPT !.cooling = TRUE]
    /\ UNCHANGED <<enabling, shutting>>

WaitShutDown(c) ==
    /\ asker[c].at = "waiting" /\ shutting
    /\ Tell(c, "closing")
    /\ UNCHANGED <<adapter, enabling, shutting>>

\* completeInitializeAttempt.
AttemptEnds(a) ==
    /\ a \in enabling
    /\ enabling' = enabling \ {a}
    /\ \E ok \in BOOLEAN :
         adapter' = [adapter EXCEPT
             !.pending = IF @ = a THEN 0 ELSE @,
             !.attempted = TRUE, !.failed = ~ok, !.cooling = ~ok,
             !.issued = @ /\ ~ok, !.cleanups = IF ok THEN 0 ELSE @]
    /\ UNCHANGED <<asker, shutting>>

\* (It matters only while the bound lets another attempt be made.)
CooldownEnds ==
    /\ adapter.cooling /\ adapter.begun < MaxEnables
    /\ adapter' = [adapter EXCEPT !.cooling = FALSE]
    /\ UNCHANGED <<enabling, asker, shutting>>

\* markBluetoothUnavailable: the state the adapter is left in, for the first
\* to observe its loss and for those who come after.
Lost(state) ==
    [state EXCEPT !.failed = TRUE, !.cooling = TRUE, !.issued = TRUE,
                  !.cleanups = IF state.issued THEN @ ELSE @ + 1]

-----------------------------------------------------------------------------

AdapterState ==
    [attempted : BOOLEAN, failed : BOOLEAN, pending : 0..MaxEnables, cooling : BOOLEAN,
     issued : BOOLEAN, cleanups : Nat, begun : 0..MaxEnables]

AskerState ==
    [at : {"none", "starting", "asking", "waiting", "ready", "unavailable", "closing"},
     attempt : 0..MaxEnables]

AdapterTypeOK ==
    /\ adapter \in AdapterState
    /\ enabling \subseteq Attempts
    /\ asker \in [Askers -> AskerState]
    /\ shutting \in BOOLEAN

\* Never two calls of adapter.Enable side by side, and never a cleanup of the
\* fleet twice in one period of unavailability, however many callers give up
\* on an attempt, adopt it late, or observe the same loss (manager.go 760-774,
\* 886-895).
AdapterOnce == Cardinality(enabling) <= 1 /\ adapter.cleanups <= 1
=============================================================================
