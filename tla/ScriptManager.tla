---------------------------- MODULE ScriptManager ----------------------------
(***************************************************************************)
(* How the server turns a team's task (a path of checkpoints for the centre *)
(* of the formation, and the place of each AGV in the formation) into one   *)
(* script per AGV: get_command and get_on_fly_pos,                          *)
(* server/src/lib/script_manager.c.                                         *)
(*                                                                          *)
(* get_command runs once per AGV; every run makes the same walk along the   *)
(* path and differs only in whose commands it emits, so the model walks     *)
(* once and emits for all.  Each step is one turn of a loop of the code: a  *)
(* new leg of the path (with the team's turn when the heading changes) or a *)
(* straight move to where the next AGV meets a checkpoint.                  *)
(*                                                                          *)
(* The file holds an unresolved merge conflict (lines 272-279, 295-299); a  *)
(* task says which of its two sides is compiled.                            *)
(***************************************************************************)
EXTENDS Integers, Sequences, FiniteSetsExt

CONSTANTS
  Map,                \* Map[n]: links [id, angle, dist] of checkpoint n (ws_map)
  Bias,               \* Bias[n]: angle of n's QR code to the workspace's axes
  Tasks,              \* the [path, form] the server may be configured with, and
                      \* the side of the conflict: "HEAD" or "29c8610"
  Tangent             \* Tangent[p]: libm part of get_tangent_angle, x = 1 or -1

Nodes == DOMAIN Map
Centre == [x |-> 0, y |-> 0]
\* The line of an AGV, left, at or right of the centre, and how far it is ahead
Positions == [x : {-1, 0, 1}, y : Int]
MaxDist == 32767      \* bound: the longest link

\* At most one link leaves a checkpoint in each direction: get_navigation by the
\* angle takes the first it finds
ASSUME MapAssumption ==
  /\ Nodes \subseteq Nat
  /\ \A n \in Nodes :
       /\ \A l \in Map[n] : l.id \in Nodes /\ l.dist \in 1..MaxDist /\ l.angle \in 0..359
       /\ \A l, k \in Map[n] : l.angle = k.angle => l = k
ASSUME BiasAssumption == Bias \in [Nodes -> 0..359]
ASSUME TaskAssumption ==
  \A t \in Tasks :
    /\ t.side \in {"HEAD", "29c8610"}
    /\ t.path \in Seq(Nodes) /\ Len(t.path) > 1
    /\ t.form \in Seq(Positions) /\ Len(t.form) > 0
    /\ \A k \in 1..(Len(t.path) - 1) :
         \E l \in Map[t.path[k]] : l.id = t.path[k + 1]

VARIABLES
  task,               \* the task of the team: path, form, side
  mode,               \* "leg", "straight", or the end: "done", "exit"
  i,                  \* path[i] is where the current leg starts
  heading,            \* checkp_c->angle, the team's absolute heading
  yBias,              \* y_bias: distance the team went on this leg
  remain,             \* remain_dist[j]: next checkpoint of AGV j, and how far
  script              \* script[a]: the list get_command returns for AGV a

smVars == <<task, mode, i, heading, yBias, remain, script>>

Members == 0..Len(task.form)       \* 0 is the virtual AGV at the centre
Team == 1..Len(task.form)
Pos(j) == IF j = 0 THEN Centre ELSE task.form[j]

-----------------------------------------------------------------------------
\* Mutant of RTOA: the sum is not brought back into a circle
RTOAUnwrapped(a, b) == a + b

\* angle.h, config_manager.c
RTOA(a, b) == (a + b) % 360
ATOR(a, b) == (a - b + 360) % 360

LinkTo(n, m) == CHOOSE l \in Map[n] : l.id = m              \* BY_NODE
LinksAt(n, angle) == {l \in Map[n] : l.angle = angle}       \* BY_ANGLE

get_angle_diff(init, fin) ==
  LET diff == fin - init
  IN  IF diff > 180 THEN diff - 360 ELSE IF diff < -180 THEN diff + 360 ELSE diff

\* get_navigation found no link: the process prints an error and exits
Border == [id |-> 0, dist |-> 0]

\* The link that leaves checkpoint n in, and against, the team's direction h
Onward(n, h) == LinksAt(n, ATOR(h, Bias[n]))
Back(n, h) == LinksAt(n, ATOR(h + 180, Bias[n]))
The(links) == CHOOSE l \in links : TRUE

\* The next checkpoint of an AGV d ahead of (or, if d < 0, behind) checkpoint n
\* of its line, not counting one it stands on: the loops of get_on_fly_pos.
Ahead(h) ==
  LET walk[p \in Nodes \X Int] ==
        LET l == The(Onward(p[1], h))
        IN  IF p[2] < 0 THEN [id |-> p[1], dist |-> -p[2]]
            ELSE IF Onward(p[1], h) = {} THEN Border
            ELSE walk[<<l.id, p[2] - l.dist>>]
  IN walk

Behind(h) ==
  LET walk[p \in Nodes \X Int] ==
        LET l == The(Back(p[1], h))
        IN  IF Back(p[1], h) = {} THEN Border
            ELSE IF p[2] + l.dist >= 0 THEN [id |-> p[1], dist |-> -p[2]]
            ELSE walk[<<l.id, p[2] + l.dist>>]
  IN walk

\* The checkpoint abreast of centre checkpoint c on the line of an AGV at p
ColumnLinks(c, h, p) == LinksAt(c, (h - Bias[c] + 540 - 90 * p.x) % 360)
Column(c, h, p) ==
  IF p.x = 0 THEN c ELSE The(ColumnLinks(c, h, p)).id

\* get_on_fly_pos(ws_map, c, h, angle_bias, yb, p)
OnFly(c, h, yb, p) ==
  IF p.x # 0 /\ ColumnLinks(c, h, p) = {} THEN Border
  ELSE LET n == Column(c, h, p)
           d == p.y + yb
       IN  IF d < 0 THEN Behind(h)[<<n, d>>] ELSE Ahead(h)[<<n, d>>]

\* The whole team's positions when its centre is yb past checkpoint c
TeamOnFly(c, h, yb) == [j \in Members |-> OnFly(c, h, yb, Pos(j))]
Exceeds(positions) == \E j \in DOMAIN positions : positions[j] = Border

\* The absolute heading of leg k of a task's path
HeadingOn(t, k) == RTOA(LinkTo(t.path[k], t.path[k + 1]).angle, Bias[t.path[k]])

\* Going straight on from c to e, the line of an AGV at p goes on with it: the
\* checkpoints abreast of c and e are joined by a link as long, both ways
HasColumn(c, h, p) == p.x = 0 \/ ColumnLinks(c, h, p) # {}
Joined(n, m, h, dist) ==
  /\ \E l \in Onward(n, h) : l.id = m /\ l.dist = dist
  /\ \E l \in Back(m, h) : l.id = n /\ l.dist = dist
GoesOn(c, e, h, p) ==
  HasColumn(c, h, p) =>
    /\ HasColumn(e, h, p)
    /\ Joined(Column(c, h, p), Column(e, h, p), h, LinkTo(c, e).dist)

\* Where a path keeps its direction the lines of the map are parallel
ASSUME ParallelAssumption ==
  \A t \in Tasks : \A k \in 1..(Len(t.path) - 2) :
    HeadingOn(t, k) = HeadingOn(t, k + 1) =>
      /\ GoesOn(t.path[k], t.path[k + 1], HeadingOn(t, k), Centre)
      /\ \A j \in 1..Len(t.form) :
           GoesOn(t.path[k], t.path[k + 1], HeadingOn(t, k), t.form[j])
ASSUME TangentAssumption ==
  \A t \in Tasks : \A j \in 1..Len(t.form) :
    t.form[j].x # 0 => Tangent[t.form[j]] \in -360..360

-----------------------------------------------------------------------------
\* The commands get_command emits: [op, pf, sync, val].  A script is kept as a
\* list of blocks: commands that are emitted n times, one after the other.
Cmd(op, pf, sync, val) == [op |-> op, pf |-> pf, sync |-> sync, val |-> val]
Times(n, cmds) == [times |-> n, cmds |-> cmds]
Once(cmds) == <<Times(1, cmds)>>

ToQr(n, min) == Once(<<
  Cmd("TO_QR", 0, 0, n \div 256), Cmd("TO_QR", 1, 0, n % 255),
  Cmd("TO_QR", 2, 0, ATOR(heading, Bias[n])), Cmd("TO_QR", 3, 1, min) >>)

Go(min) == Once(<< Cmd("MOS_GO", 0, 1, min) >>)

\* The turn of the AGV at the centre, on its QR code
Degrees(turn) == IF turn < 0 THEN -turn ELSE turn
\* Mutant of TurnSync: the constant of the other side of the conflict
TurnSyncThree(turn) == 3

TurnSync(turn) == IF task.side = "HEAD" THEN 3 ELSE 2 + Degrees(turn)
CentreTurn(n, next, link, turn) ==
  Once(<< Cmd("QR_TURN", 0, TurnSync(turn),
              ATOR(IF task.side = "HEAD" THEN next ELSE link.angle, Bias[n])) >>)

\* get_tangent_angle, rounded; x = 0 needs no arc tangent
TangentAngle(p) == IF p.x = 0 THEN (IF p.y > 0 THEN -90 ELSE 90) ELSE Tangent[p]
Radius(p) ==
  CHOOSE r \in 0..1200 : LET s == 250000 * p.x * p.x + p.y * p.y
                         IN  r * r <= s /\ s < (r + 1) * (r + 1)

\* 0 for LEFT, 1 for RIGHT: where the centre is once the AGV is on the tangent
CentreSide(p) == IF p.x < 0 THEN 1 ELSE 0
\* Mutant of Inverter: the AGVs circle with the centre behind them
InverterSwapped(p) == IF CentreSide(p) = 0 THEN 1 ELSE -1

Inverter(p) == IF CentreSide(p) = 0 THEN -1 ELSE 1

\* The turn of another AGV: onto the tangent, one circle step per degree, back
CircleStep(p) == <<
  Cmd("MOS_CIR", 0, 0, CentreSide(p) * 512 + (Inverter(p) % 512)),
  Cmd("MOS_CIR", 1, 1, Radius(p) % 1024) >>
OuterTurn(p, turn) ==
  Once(<< Cmd("MOS_TURN", 0, 1, TangentAngle(p)) >>)
    \o << Times(Degrees(turn), CircleStep(p)) >>
    \o Once(<< Cmd("MOS_TURN", 0, 1, -TangentAngle(p)) >>)

TurnOf(p, n, next, link) ==
  LET turn == get_angle_diff(heading, IF task.side = "HEAD" THEN next ELSE link.angle)
  IN  IF p = Centre THEN CentreTurn(n, next, link, turn) ELSE OuterTurn(p, turn)

-----------------------------------------------------------------------------
SMInit ==
  /\ task \in Tasks
  /\ i = 1
  /\ yBias = 0
  /\ script = [a \in Team |-> <<>>]
  /\ heading = HeadingOn(task, 1)
  /\ remain = TeamOnFly(task.path[1], heading, 0)
  /\ mode = IF Exceeds(remain) THEN "exit" ELSE "leg"

NextLink == LinkTo(task.path[i], task.path[i + 1])
NextHeading == HeadingOn(task, i)

\* Mutant of KeepOn: the straight move is never entered
KeepOnIdle ==
  /\ mode = "leg"
  /\ heading = NextHeading
  /\ yBias' = 0
  /\ UNCHANGED <<task, mode, i, heading, remain, script>>

\* A new leg in the same direction
KeepOn ==
  /\ mode = "leg"
  /\ heading = NextHeading
  /\ yBias' = 0
  /\ mode' = "straight"
  /\ UNCHANGED <<task, i, heading, remain, script>>

\* "team turn is needed": the AGVs turn, and are located anew
TeamTurn ==
  /\ mode = "leg"
  /\ heading # NextHeading
  /\ script' = [a \in Team |->
                  script[a] \o TurnOf(Pos(a), task.path[i], NextHeading, NextLink)]
  /\ heading' = NextHeading
  /\ remain' = TeamOnFly(task.path[i], NextHeading, 0)
  /\ yBias' = 0
  /\ mode' = IF Exceeds(remain') THEN "exit" ELSE "straight"
  /\ UNCHANGED <<task, i>>

\* Mutants of Farther and Closer: y_bias is overwritten; a distance is kept
FartherForgets(min) == min
CloserNot(r, min) == r

Farther(min) == yBias + min                         \* y_bias += min
Closer(r, min) == [r EXCEPT !.dist = @ - min]       \* remain_dist[j].dist -= min

\* One round of the straight move: all go min; who is at a checkpoint then goes
\* there by its QR code and is located anew; the leg ends when the centre is.
Round ==
  LET min == Min({remain[j].dist : j \in Members})
      There(j) == remain[j].dist = min
      far == Farther(min)
  IN
  /\ mode = "straight"
  /\ script' = [a \in Team |->
                  script[a] \o IF There(a) THEN ToQr(remain[a].id, min) ELSE Go(min)]
  /\ yBias' = far
  /\ remain' = [j \in Members |->
                  IF There(j) THEN OnFly(task.path[i], heading, far, Pos(j))
                  ELSE Closer(remain[j], min)]
  /\ i' = IF There(0) /\ ~Exceeds(remain') THEN i + 1 ELSE i
  /\ mode' = IF Exceeds(remain') THEN "exit"
             ELSE IF ~There(0) THEN "straight"
             ELSE IF i' = Len(task.path) THEN "done" ELSE "leg"
  /\ UNCHANGED <<task, heading>>

Ended == mode \in {"done", "exit"} /\ UNCHANGED smVars

SMNext == KeepOn \/ TeamTurn \/ Round \/ Ended

SMSpec == SMInit /\ [][SMNext]_smVars
FairSM == SMSpec /\ WF_smVars(SMNext)

-----------------------------------------------------------------------------
\* Type invariant of the walk along the path.
SMTypeOK ==
  /\ task \in Tasks
  /\ mode \in {"leg", "straight", "done", "exit"}
  /\ i \in 1..Len(task.path)
  /\ heading \in 0..359
  /\ yBias \in 0..MaxDist
  /\ remain \in [Members -> [id : Nodes, dist : 1..MaxDist] \cup {Border}]
  /\ DOMAIN script = Team

(***************************************************************************)
(* The scripts of a team always ask for the same number of meetings: no AGV *)
(* waits for a meeting another one never goes to.  The turn is where they   *)
(* could part, the centre's AGV and the others go through different         *)
(* branches (script_manager.c:270-339).  Of the conflict at 272-279 only    *)
(* side 29c8610 counts the others' circle steps.                            *)
(***************************************************************************)
SumOf(q) ==
  LET sum[k \in 0..Len(q)] == IF k = 0 THEN 0 ELSE sum[k - 1] + q[k]
  IN  sum[Len(q)]
\* The meetings of one turn through a block, and of a script
SyncsOf(cmds) == SumOf([c \in 1..Len(cmds) |-> cmds[c].sync])
Meetings(s) == SumOf([k \in 1..Len(s) |-> s[k].times * SyncsOf(s[k].cmds)])
SyncParity ==
  task.side = "29c8610" =>
    \A a, b \in Team : Meetings(script[a]) = Meetings(script[b])

(***************************************************************************)
(* What get_command tracks by subtraction, round after round and across a   *)
(* leg that keeps its direction, is what get_on_fly_pos computes from the   *)
(* team's centre: every AGV keeps its place in the formation                *)
(* (script_manager.c:361-394 against 150-207).                              *)
(***************************************************************************)
KeepsFormation ==
  mode = "straight" => remain = TeamOnFly(task.path[i], heading, yBias)

(***************************************************************************)
(* A leg ends when the centre stands on the checkpoint the path names next, *)
(* the link's length away (script_manager.c:255-261, 391-393).              *)
(***************************************************************************)
CentreOnPath ==
  [][i' # i => /\ remain[0].id = task.path[i + 1]
               /\ yBias' = NextLink.dist]_smVars

(***************************************************************************)
(* After a team turn every AGV heads where the team heads, once it has      *)
(* executed what the turn added to its script (script_manager.c:265-340,    *)
(* with the client's decoding, command_manager.c:50-65, 84-95, and qe_cir). *)
(***************************************************************************)
Signed(v, w) == ((v + w) % (2 * w)) - w         \* two's complement, w = sign bit
\* Clockwise degrees of a circle step: backwards with the centre on the left
Circled(v) == IF v \div 512 = 0 THEN -Signed(v, 256) ELSE Signed(v, 256)
TurnedBy(c) == CASE c.op = "MOS_TURN" -> Signed(c.val, 512)
                 [] c.op = "MOS_CIR" /\ c.pf = 0 -> Circled(c.val)
                 [] OTHER -> 0
DegreesOf(cmds) == SumOf([c \in 1..Len(cmds) |-> TurnedBy(cmds[c])])
HeadingAfter(a, turn) ==
  IF Pos(a) = Centre
    THEN RTOA(turn[1].cmds[1].val, Bias[task.path[i]])
    ELSE (heading + SumOf([k \in 1..Len(turn) |->
                             turn[k].times * DegreesOf(turn[k].cmds)])) % 360
TurnTogether ==
  \A a \in Team :
    HeadingAfter(a, SubSeq(script'[a], Len(script[a]) + 1, Len(script'[a]))) = heading'
TeamTurnsTogether == [][heading' # heading => TurnTogether]_smVars

\* So it is, with side HEAD of the conflict, when the team turns clockwise
\* (script_manager.c:265-340).
RightTurnsTogether ==
  [][task.side = "HEAD" /\ get_angle_diff(heading, heading') > 0 => TurnTogether]_smVars

\* The walk ends: each round brings some AGV to its next checkpoint, and the
\* centre to the end of the leg (the loops at script_manager.c:248 and 353).
WalkEnds == <>(mode \in {"done", "exit"})
=============================================================================
