------------------------------ MODULE MC_Motion ------------------------------
(***************************************************************************)
(* An AGV on a row of codes executes motions in any order.                  *)
(***************************************************************************)
EXTENDS Motion

MCOffsets == {-120, 30}
MCTurns == {90}
MCBiases == {1}
=============================================================================
