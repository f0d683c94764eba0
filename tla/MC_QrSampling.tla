----------------------------- MODULE MC_QrSampling -----------------------------
(***************************************************************************)
(* Three requests, so that an answer could be two late; a socket of three,  *)
(* more than one request takes; two blank images for the ninety.            *)
(***************************************************************************)
EXTENDS QrSampling
=============================================================================
