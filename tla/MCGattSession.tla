---------------------------- MODULE MCGattSession ----------------------------
(***************************************************************************)
(* Instances of GattSession: one call that opens the session and may be    *)
(* cancelled, beside one that closes or queries it.                        *)
(***************************************************************************)
EXTENDS GattSession, TLC

CONSTANTS Opener, Closer, OpenerKinds, CloserKinds

KindsOfCalls == (Opener :> OpenerKinds) @@ (Closer :> CloserKinds)
====
