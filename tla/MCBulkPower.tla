---------------------------- MODULE MCBulkPower ----------------------------
(***************************************************************************)
(* BulkPower for TLC: the second batch finds a station more than the first. *)
(***************************************************************************)
EXTENDS BulkPower

CONSTANTS s1, s2

MCStations == {s1, s2}
MCKnown == <<{s1}, MCStations>>
MCTarget == <<"sleep", "standby">>
MCFound == [s \in MCStations |-> IF s = s1 THEN "on" ELSE "standby"]
=============================================================================
