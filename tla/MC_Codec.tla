------------------------------- MODULE MC_Codec -------------------------------
(***************************************************************************)
(* Every value of each field on its own, over the range the server emits,   *)
(* with the ends of the ranges of the other fields.                         *)
(***************************************************************************)
EXTENDS Codec

Ids == [op : {"SET_ID"}, val : 3..60]
Turns == [op : {"QR_TURN"}, angle : 0..359]
             \cup [op : {"MOS_TURN"}, angle : -360..360]
Gos == [op : {"MOS_GO"}, distance : 0..1023]
Circles == [op : {"MOS_CIR"}, side : {0, 1}, angle : -180..180, r : {0, 300, 1023}]
             \cup [op : {"MOS_CIR"}, side : {0, 1}, angle : {-1, 1}, r : 0..1023]
ToQrs == [op : {"TO_QR"}, id : 1..254, end_angle : {0, 359}, distance : {0, 1023}]
           \cup [op : {"TO_QR"}, id : {1, 78, 254}, end_angle : 0..359, distance : {500}]

ServerIntents == Ids \cup Turns \cup Gos \cup Circles \cup ToQrs
=============================================================================
