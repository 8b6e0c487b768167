--------------------------- MODULE MCStationCommand ---------------------------
(***************************************************************************)
(* Instances of StationCommand: a command beside a call of GattSession.    *)
(***************************************************************************)
EXTENDS StationCommand

CONSTANT SessionCallKinds

KindsOfCalls == [p \in Calls |-> IF p \in CommandCalls THEN {} ELSE SessionCallKinds]
====
