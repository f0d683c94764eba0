------------------------------- MODULE MC_Faults -------------------------------
(***************************************************************************)
(* A team of two: the first turns on its code and drives to the next one,   *)
(* the second turns and makes a straight step.  Any AGV may end or fall     *)
(* silent, and the server may end, at any point.                            *)
(***************************************************************************)
EXTENDS Faults

Cmd(op, pf, sync) == [op |-> op, pf |-> pf, sync |-> sync]

ToQr == <<Cmd("TO_QR", 0, 0), Cmd("TO_QR", 1, 0), Cmd("TO_QR", 2, 0), Cmd("TO_QR", 3, 1)>>
TeamScript == <<Append(ToQr, Cmd("QR_TURN", 0, 1)),
                <<Cmd("MOS_GO", 0, 1), Cmd("MOS_CIR", 0, 0), Cmd("MOS_CIR", 1, 1)>>>>

DueOf(s) ==
  LET d[i \in 0..Len(s)] == IF i = 0 THEN 0 ELSE d[i - 1] + s[i].sync IN d
TeamDue == [a \in 1..N |-> DueOf(TeamScript[a])]
TeamSyncs == [a \in 1..N |-> TeamDue[a][Len(TeamScript[a])]]
=============================================================================
