----------------------------- MODULE MC_Dispatch -----------------------------
(***************************************************************************)
(* A team that makes a turn of one degree and goes on: the middle AGV turns *)
(* on its QR code, the others turn, circle around it and turn back          *)
(* (script_manager.c:265-339), then each makes one straight step.           *)
(***************************************************************************)
EXTENDS Dispatch

Cmd(op, pf, sync) == [op |-> op, pf |-> pf, sync |-> sync]

ToQr == <<Cmd("TO_QR", 0, 0), Cmd("TO_QR", 1, 0), Cmd("TO_QR", 2, 0), Cmd("TO_QR", 3, 1)>>
Go == <<Cmd("MOS_GO", 0, 1)>>
Around == <<Cmd("MOS_TURN", 0, 1), Cmd("MOS_CIR", 0, 0), Cmd("MOS_CIR", 1, 1),
            Cmd("MOS_TURN", 0, 1)>>
OnTheSpot == <<Cmd("QR_TURN", 0, 3)>>

Center == OnTheSpot \o ToQr
Outer == Around \o Go
TeamScript == [a \in 1..N |-> IF a = 2 THEN Center ELSE Outer]

DueOf(s) ==
  LET d[i \in 0..Len(s)] == IF i = 0 THEN 0 ELSE d[i - 1] + s[i].sync IN d
TeamDue == [a \in 1..N |-> DueOf(TeamScript[a])]
TeamSyncs == [a \in 1..N |-> TeamDue[a][Len(TeamScript[a])]]
=============================================================================
