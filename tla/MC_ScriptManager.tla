-------------------------- MODULE MC_ScriptManager --------------------------
(***************************************************************************)
(* The workspace of server/config/agv_workspace.json: a grid of 7 by 7      *)
(* checkpoints 500 apart, and the checkpoints 50..78 on and beside one of   *)
(* its diagonals, whose QR codes are turned by 315 degrees.                 *)
(***************************************************************************)
EXTENDS ScriptManager

Link(id, angle, dist) == [id |-> id, angle |-> angle, dist |-> dist]

Grid == [n \in 1..49 |->
  (IF n % 7 # 1 THEN {Link(n - 1, 0, 500)} ELSE {}) \cup
  (IF n <= 42 THEN {Link(n + 7, 90, 500)} ELSE {}) \cup
  (IF n % 7 # 0 THEN {Link(n + 1, 180, 500)} ELSE {}) \cup
  (IF n > 7 THEN {Link(n - 7, 270, 500)} ELSE {})]

\* <<checkpoint, id, angle, distance>>
Diagonals == {
  <<9,70,45,500>>, <<9,61,135,207>>, <<9,50,225,500>>, <<9,59,315,354>>,
  <<17,72,45,500>>, <<17,63,135,354>>, <<17,52,225,500>>, <<17,61,315,500>>,
  <<25,74,45,500>>, <<25,65,135,354>>, <<25,54,225,500>>, <<25,63,315,354>>,
  <<33,76,45,500>>, <<33,67,135,500>>, <<33,56,225,500>>, <<33,65,315,354>>,
  <<41,78,45,500>>, <<41,69,135,354>>, <<41,58,225,500>>, <<41,67,315,207>>,
  <<50,9,90,500>>, <<50,51,180,207>>, <<51,50,0,207>>, <<51,61,90,500>>,
  <<51,52,180,500>>, <<52,51,0,500>>, <<52,17,90,500>>, <<52,53,180,354>>,
  <<53,52,0,354>>, <<53,63,90,500>>, <<53,54,180,354>>, <<54,53,0,354>>,
  <<54,25,90,500>>, <<54,55,180,354>>, <<55,54,0,354>>, <<55,65,90,500>>,
  <<55,56,180,354>>, <<56,55,0,354>>, <<56,66,90,500>>, <<56,57,180,500>>,
  <<57,56,0,500>>, <<57,67,90,500>>, <<57,58,180,207>>, <<58,57,0,207>>,
  <<58,41,90,500>>, <<59,9,180,354>>, <<61,9,0,207>>, <<61,71,90,500>>,
  <<61,62,180,500>>, <<61,51,270,500>>, <<63,17,0,354>>, <<63,73,90,500>>,
  <<63,25,180,354>>, <<63,53,270,500>>, <<65,25,0,354>>, <<65,75,90,500>>,
  <<65,33,180,354>>, <<65,55,270,500>>, <<67,33,0,500>>, <<67,77,90,500>>,
  <<67,41,180,207>>, <<67,57,270,500>>, <<69,41,0,354>>, <<70,71,180,207>>,
  <<70,9,270,500>>, <<71,70,0,207>>, <<71,72,180,500>>, <<71,61,270,500>>,
  <<72,71,0,500>>, <<72,73,180,354>>, <<72,17,270,500>>, <<73,72,0,354>>,
  <<73,74,180,354>>, <<73,63,270,500>>, <<74,73,0,354>>, <<74,75,180,354>>,
  <<74,25,270,500>>, <<75,74,0,354>>, <<75,76,180,354>>, <<75,65,270,500>>,
  <<76,75,0,354>>, <<76,77,180,500>>, <<76,66,270,500>>, <<77,76,0,500>>,
  <<77,78,180,207>>, <<77,67,270,500>>, <<78,77,0,207>>, <<78,41,270,500>>}

Workspace == [n \in 1..78 |->
  (IF n <= 49 THEN Grid[n] ELSE {}) \cup
  {Link(d[2], d[3], d[4]) : d \in {e \in Diagonals : e[1] = n}}]

BiasAngles == [n \in 1..78 |-> IF n > 49 /\ n \notin {60, 62, 64, 66, 68} THEN 315 ELSE 0]

At(x, y) == [x |-> x, y |-> y]

\* server/config/agv_setting.json: three AGVs in a column
Column3 == <<At(0, 300), At(0, 0), At(0, -300)>>
Row3 == <<At(-1, 0), At(0, 0), At(1, 0)>>
Wedge == <<At(0, 100), At(-1, -300), At(1, -300)>>
Square == <<At(-1, 300), At(1, 300), At(-1, -300), At(1, -300)>>

ProductionPath == <<16, 23, 24, 25, 65, 33, 67>>

\* Paths of three legs over the grid, from s in direction h, turning by t and u
Delta(h) == CASE h = 0 -> -1 [] h = 90 -> 7 [] h = 180 -> 1 [] h = 270 -> -7
PathOf(s, h, t, u) ==
  LET a == s + Delta(h)
      b == a + Delta((h + t) % 360)
  IN  <<s, a, b, b + Delta((h + t + u) % 360)>>

Formations == {Column3, Row3, Wedge, Square}
PathsWith(turns) ==
  {PathOf(25, h, t, u) : h \in {0, 90, 180, 270}, t, u \in turns}
TasksOf(paths, forms, side) ==
  {[path |-> q, form |-> f, side |-> side] : q \in paths, f \in forms}

\* Rounded arcs of get_tangent_angle; at y = 0 it converts a NaN to int, of which
\* the ten bits sent are 0 on ARM (0) and on x86 (INT_MIN)
TangentOf == [p \in [x : {-1, 1}, y : {-300, 0, 300}] |->
  IF p.y = 0 THEN 0 ELSE IF (p.y > 0) = (p.x > 0) THEN -31 ELSE 31]

\* Right turns on checkpoints of the diagonal, with turned QR codes
DiagonalPaths == {<<53, 63, 25>>, <<55, 65, 33>>, <<57, 67, 41>>,
                  <<71, 61, 9>>, <<73, 63, 17>>, <<75, 65, 25>>, <<77, 67, 33>>}

\* Right and left turns, on the grid and on the diagonal (production), and a
\* single AGV in the first column, which starts at the border and returns to it
AllTasks ==
  TasksOf(PathsWith({0, 90, 180, 270}), Formations, "29c8610")
    \cup TasksOf(PathsWith({0, 90}), Formations, "HEAD")
    \cup TasksOf(DiagonalPaths, {Row3, <<At(0, 0), At(0, 100)>>}, "HEAD")
    \cup TasksOf({ProductionPath}, {Column3}, "29c8610")
    \cup TasksOf({<<29, 36, 43>>}, {<<At(0, 0)>>}, "29c8610")

Production == TasksOf({ProductionPath}, {Column3}, "HEAD")
=============================================================================
