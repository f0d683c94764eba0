------------------------------ MODULE Rendezvous ------------------------------
(***************************************************************************)
(* What the team synchronisation of the server promises, without saying    *)
(* how: the AGVs of a team meet again and again.  An AGV arrives at its     *)
(* next meeting, and passes it only when every AGV of the team has arrived  *)
(* at that meeting.  SyncBarrier (set_sync, trigger_team and the blocking   *)
(* read of the listener thread) is shown to implement this module.          *)
(***************************************************************************)
EXTENDS Naturals

CONSTANT Agv          \* the AGVs of one team

VARIABLES
  arrived,            \* arrived[a]: meetings AGV a has reached
  passed              \* passed[a]: meetings AGV a has been released from

meetings == <<arrived, passed>>

Init ==
  /\ arrived = [a \in Agv |-> 0]
  /\ passed = [a \in Agv |-> 0]

Arrive(a) ==
  /\ arrived[a] = passed[a]
  /\ arrived' = [arrived EXCEPT ![a] = @ + 1]
  /\ UNCHANGED passed

Pass(a) ==
  /\ passed[a] < arrived[a]
  /\ \A b \in Agv : arrived[a] <= arrived[b]
  /\ passed' = [passed EXCEPT ![a] = arrived[a]]
  /\ UNCHANGED arrived

Next == \E a \in Agv : Arrive(a) \/ Pass(a)

Spec == Init /\ [][Next]_meetings
=============================================================================
