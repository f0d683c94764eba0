------------------------------ MODULE MC_Encoder ------------------------------
(***************************************************************************)
(* One wheel over all sequences of motions of Target pulses either way.     *)
(***************************************************************************)
EXTENDS Encoder
=============================================================================
