---------------------------- MODULE MCRoundsIndex ----------------------------
(* The instance of RoundsIndex that TLC checks.                            *)
EXTENDS RoundsIndex

ThreeRounds == <<1, 2, 3>>
=============================================================================
