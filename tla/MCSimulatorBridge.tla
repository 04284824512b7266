------------------------- MODULE MCSimulatorBridge --------------------------
(***************************************************************************)
(* SimulatorBridge for TLC: results of one bit.                            *)
(***************************************************************************)
EXTENDS SimulatorBridge

MCDistance(r, s) == IF r = s THEN 0 ELSE 1
=============================================================================
