----------------------------- MODULE MC_ServerBoot -----------------------------
(***************************************************************************)
(* A team of one, then a team of two; a fourth client finds no team.        *)
(***************************************************************************)
EXTENDS ServerBoot

TwoTeams == <<1, 2>>
=============================================================================
