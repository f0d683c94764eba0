------------------------------- MODULE TeamPlan -------------------------------
(***************************************************************************)
(* What the server and the AGVs together promise of a team, without saying  *)
(* how: every AGV executes the motions of its own script, one at a time and *)
(* in order, and nobody begins a motion while a teammate has yet to end one *)
(* that its script places after fewer meetings.  Dispatch (listeners,       *)
(* barrier, connections and command managers) is shown to implement this.   *)
(***************************************************************************)
EXTENDS Naturals

CONSTANTS
  Agv,                \* the AGVs of one team
  Motion,             \* Motion[a]: positions in a's script at which a motion ends
  Due                 \* Due[a][i]: meetings a's script places before position i

VARIABLES
  doing,              \* doing[a]: the motion a is executing, or Idle
  ended               \* ended[a]: the motions a has executed

plan == <<doing, ended>>

Idle == 0

Left(a) == Motion[a] \ ended[a]

Init ==
  /\ doing = [a \in Agv |-> Idle]
  /\ ended = [a \in Agv |-> {}]

Begin(a, i) ==
  /\ doing[a] = Idle
  /\ i \in Left(a)
  /\ \A j \in Left(a) : i <= j
  /\ \A b \in Agv : \A j \in Left(b) : Due[a][i] <= Due[b][j]
  /\ doing' = [doing EXCEPT ![a] = i]
  /\ UNCHANGED ended

End(a) ==
  /\ doing[a] # Idle
  /\ ended' = [ended EXCEPT ![a] = @ \cup {doing[a]}]
  /\ doing' = [doing EXCEPT ![a] = Idle]

Next == \E a \in Agv : End(a) \/ \E i \in Motion[a] : Begin(a, i)

Spec == Init /\ [][Next]_plan
=============================================================================
