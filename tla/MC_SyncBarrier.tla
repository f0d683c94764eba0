--------------------------- MODULE MC_SyncBarrier ---------------------------
(***************************************************************************)
(* One team of three AGVs, each going through the barrier Rounds times.     *)
(***************************************************************************)
EXTENDS SyncBarrier

CONSTANT Rounds

EqualSyncs == [a \in 1..N |-> Rounds]
=============================================================================
