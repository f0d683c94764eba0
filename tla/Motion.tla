-------------------------------- MODULE Motion --------------------------------
(***************************************************************************)
(* The motions of an AGV (client/src/lib/command.c): loops that ask for the *)
(* QR code under the camera, drive the wheels until the encoder has counted *)
(* far enough, and ask again; first those of main (client/src/main.c), with *)
(* the calibration qe_corr (qe.c), then those the server commands.  That    *)
(* the encoder's loops end is the subject of Encoder, how an answer of the  *)
(* QR reader comes about that of QrSampling; here an answer shows what the  *)
(* camera saw when it was asked for, or up to Lag requests before.          *)
(*                                                                          *)
(* The floor is a row of QR codes, code k at place 2 * k and none between.  *)
(* Wheels slip: a turn may come out a third too long or too short.          *)
(***************************************************************************)
EXTENDS Integers, Sequences

CONSTANTS
  Codes,              \* bound: codes in the row
  Lag,                \* requests an answer may be late
  Headings,           \* headings at the start
  Offsets,            \* pixels from the middle of the image to a code arrived at
  Angles,             \* arguments of qr_turn, qr_to_qr and to_qr
  Turns,              \* arguments of qe_turn and qe_cir
  Biases,             \* corrections by the place of the code in the image
  Spun,               \* degrees the AGV turns by 40000 pulses, more or less
  Home                \* the code main goes to, 16

ASSUME LagAssumption == Lag \in 0..9
ASSUME FloorAssumption ==
  /\ Codes \in Nat \ {0}
  /\ Headings \subseteq 0..359 /\ Angles \subseteq 0..359
  /\ Offsets \subseteq -120..120 /\ Turns \subseteq Int /\ Biases \subseteq -90..90
  /\ Spun \in Int /\ Home \in 1..Codes

VARIABLES
  heading, place, dy, \* the AGV: its heading, its place, and the code's y - 120
  hist,               \* what was under the camera at the last Lag requests
  drive,              \* drive[side]: 1 forward, -1 backward, 0 stopped
  pc,                 \* where the motion is
  then,               \* what follows qr_turn: "end", "corr" of qe_corr, "start" of
                      \* main, "aim" or "go" of qr_to_qr; in qe_cir, the outer wheel
  target, count,      \* qr_turn's target_angle and count
  diff, amount,       \* its diff, and the argument of the motion it calls
  want, end,          \* to_qr's id, and the end_angle or init_angle of the caller
  first               \* qe_corr's init_qr.angle

agvVars == <<heading, place, dy>>
qrTurnVars == <<then, target, count, diff, amount>>
callVars == <<want, end, first>>
motionVars == <<agvVars, hist, drive, pc, qrTurnVars, callVars>>

Side == {"left", "right"}
Stopped == [i \in Side |-> 0]
Way(n) == IF n < 0 THEN -1 ELSE 1
Both(way) == [i \in Side |-> way]
Spin(n) == [i \in Side |-> IF (n < 0) = (i = "left") THEN -1 ELSE 1]

Magnitude(x) == IF x < 0 THEN -x ELSE x
Truncate(n, d) == IF n < 0 THEN -((-n) \div d) ELSE n \div d

ANGLE_MINUS(x, y) == (x - y + 360) % 360

\* Mutant of get_angle_diff: the long way round
AngleDiffPlain(from, to) == to - from

get_angle_diff(from, to) ==
  IF to - from > 180 THEN to - from - 360
  ELSE IF to - from < -180 THEN to - from + 360
  ELSE to - from

\* The code at a place, and what is in the image; code 0 is none
CodeAt(p) == IF p % 2 = 0 THEN p \div 2 ELSE 0
InImage == Magnitude(dy) <= 120
View == [code |-> IF InImage THEN CodeAt(place) ELSE 0, angle |-> heading, y |-> dy]
Onward(p) == IF p < 2 * Codes + 1 THEN p + 1 ELSE p
OffsetsAt(p) == IF CodeAt(p) = 0 THEN {0} ELSE Offsets

\* get_qr_angle: the answers there may be, and the memory after it
Seen == {View} \cup {hist[i] : i \in DOMAIN hist}
Found == {v \in Seen : v.code # 0}
Remembered == SubSeq(<<View>> \o hist, 1, IF Len(hist) < Lag THEN Len(hist) + 1 ELSE Lag)

\* The pulses counted, the wheels have turned by about n
Slips(n) == {n, n - Truncate(n, 3), n + Truncate(n, 3)}

MotionInit ==
  /\ heading \in Headings
  /\ place = 2
  /\ dy \in Offsets
  /\ hist = <<>>
  /\ drive = Stopped              \* pin_init
  /\ pc = "corr look" /\ then = "end"
  /\ target = 0 /\ count = 0 /\ diff = 0 /\ amount = 1
  /\ want = 0 /\ end = 0 /\ first = 0

-----------------------------------------------------------------------------
\* A motion of the wheels: motor_stop, pos_reset, motor_ctrl of both
Start(wheels, n, next) ==
  /\ drive' = wheels
  /\ amount' = n
  /\ pc' = next

\* Mutant of AfterMotion: motor_stop forgotten
AfterMotionRolling == drive

\* motor_stop at its end
AfterMotion == Stopped

\* The locals hold nothing between two motions
Forget ==
  /\ target' = 0 /\ count' = 0 /\ diff' = 0 /\ amount' = 0
  /\ want' = 0 /\ end' = 0 /\ first' = 0 /\ then' = "end"

Return ==
  /\ pc' = "idle"
  /\ Forget

-----------------------------------------------------------------------------
\* qr_turn is called
CallQrTurn(angle, next) ==
  /\ target' = ANGLE_MINUS(angle, 2)
  /\ count' = 10
  /\ then' = next
  /\ pc' = "look"

QrTurn(angle) ==
  /\ pc = "idle"
  /\ CallQrTurn(angle, "end")
  /\ UNCHANGED <<agvVars, hist, drive, diff, amount, callVars>>

\* Mutant of Halfway: pixels are taken for millimetres, without the factor 0.3
HalfwayPixels(y) == Truncate(y, 2)

\* (cur_qr.y - 120) * 0.3 * 0.5, made an int for qe_go
Halfway(y) == Truncate(3 * y, 20)

OffMiddle(y) == y < -20 \/ y > 20

\* Pixels the code goes through the image when qe_go goes n
Shift(n) == Truncate(10 * n, 3)

\* get_qr_angle and get_angle_diff, and qe_go if the code is not in the middle
Look(v) ==
  /\ pc = "look"
  /\ v \in Found
  /\ diff' = get_angle_diff(v.angle, target)
  /\ IF OffMiddle(v.y)
     THEN LET n == Halfway(v.y)
          IN  Start(Both(Way(n)), n, "centre")
     ELSE pc' = "decide" /\ UNCHANGED <<drive, amount>>
  /\ hist' = Remembered
  /\ UNCHANGED <<agvVars, then, target, count, callVars>>

\* The answer is 500: the loops over the threshold filter's parameters go on
LookBlank ==
  /\ pc = "look"
  /\ hist' = Remembered
  /\ UNCHANGED <<agvVars, drive, pc, qrTurnVars, callVars>>

\* qe_go ends
Centre ==
  /\ pc = "centre"
  /\ dy' = dy - Shift(amount)
  /\ drive' = AfterMotion
  /\ amount' = 0
  /\ pc' = "decide"
  /\ UNCHANGED <<heading, place, hist, then, target, count, diff, callVars>>

\* Mutant of CountAfterTurn: count = 10 forgotten
CountAfterTurnKept == count

CountAfterTurn == 10

\* Mutant of Step: it turns by 30 however little is left
StepWhole(d) == IF d > 0 THEN 30 ELSE -30

\* The argument of qe_turn or timer_turn
Step(d) == IF d > 30 THEN 30 ELSE IF d < -30 THEN -30 ELSE d

\* diff is more than a degree: qe_turn, or timer_turn up to ten degrees
StartTurn ==
  /\ pc = "decide"
  /\ Magnitude(diff) > 1
  /\ LET n == Step(diff) IN Start(Spin(n), n, "turn")
  /\ diff' = 0
  /\ UNCHANGED <<agvVars, hist, then, target, count, callVars>>

Turn ==
  /\ pc = "turn"
  /\ \E n \in Slips(amount) : heading' = (heading + n + 360) % 360
  /\ drive' = AfterMotion
  /\ count' = CountAfterTurn
  /\ amount' = 0
  /\ pc' = "look"
  /\ UNCHANGED <<place, dy, hist, then, target, diff, callVars>>

\* diff is a degree at most: count--, and look again until it is 0
Settle ==
  /\ pc = "decide"
  /\ Magnitude(diff) <= 1
  /\ count' = count - 1
  /\ pc' = IF count' = 0 THEN "turned" ELSE "look"
  /\ diff' = 0
  /\ UNCHANGED <<agvVars, hist, drive, then, target, amount, callVars>>

\* qr_turn returns to command_manager or to_qr, which return as well
Turned ==
  /\ pc = "turned" /\ then = "end"
  /\ Return
  /\ UNCHANGED <<agvVars, hist, drive>>

LookFound == \E v \in Found : Look(v)

InQrTurn == LookFound \/ LookBlank \/ Centre \/ StartTurn \/ Turn \/ Settle

-----------------------------------------------------------------------------
\* qr_to_qr(init_angle, distance): qr_turn(init_angle) ...
QrToQr(angle) ==
  /\ pc = "idle"
  /\ CallQrTurn(angle, "aim")
  /\ end' = angle
  /\ UNCHANGED <<agvVars, hist, drive, diff, amount, want, first>>

\* ... then an answer, 500 and its x = 0 not excepted, corrects the angle by
\* atan2 in radians, and qr_turn again
Aim ==
  /\ pc = "turned" /\ then = "aim"
  /\ hist' = Remembered
  /\ \E e \in {-1, 0, 1} : CallQrTurn(ANGLE_MINUS(end, e), "go")
  /\ UNCHANGED <<agvVars, drive, diff, amount, callVars>>

\* ... then an answer corrects the distance, and qe_go; it is positive
SetOut ==
  /\ pc = "turned" /\ then = "go"
  /\ hist' = Remembered
  /\ Start(Both(1), 0, "going")
  /\ UNCHANGED <<agvVars, then, target, count, diff, callVars>>

\* The AGV goes on to the next code or past it
Advance(p) ==
  /\ place' = p
  /\ dy' \in OffsetsAt(p)

\* qe_go ends
Going ==
  /\ pc = "going"
  /\ \E p \in {Onward(place), Onward(Onward(place))} : Advance(p)
  /\ drive' = AfterMotion
  /\ pc' = IF then = "go" THEN "arrive" ELSE "idle"
  /\ UNCHANGED <<heading, hist, qrTurnVars, callVars>>

\* A code is found: return
Arrive ==
  /\ pc = "arrive"
  /\ Found # {}
  /\ hist' = Remembered
  /\ Return
  /\ UNCHANGED <<agvVars, drive>>

\* The answer is 500: qe_go(30) and try again
GoOn ==
  /\ pc = "arrive"
  /\ hist' = Remembered
  /\ Start(Both(1), 0, "going")
  /\ UNCHANGED <<agvVars, then, target, count, diff, callVars>>

InQrToQr == Aim \/ SetOut \/ Going \/ Arrive \/ GoOn

-----------------------------------------------------------------------------
\* to_qr(id, end_angle, next_distance): the motors start without motor_stop
CallToQr(id, angle) ==
  /\ drive' = Both(1)
  /\ want' = id /\ end' = angle
  /\ pc' = "seek"
  /\ UNCHANGED <<agvVars, hist, qrTurnVars, first>>

\* The server sends an AGV to codes it has before it
ToQr(id, angle) ==
  /\ pc = "idle"
  /\ 2 * id > place
  /\ CallToQr(id, angle)

\* The AGV drives on while it looks
Travel ==
  /\ pc \in {"seek", "corr find"}
  /\ drive = Both(1)
  /\ place < 2 * Codes + 1
  /\ Advance(place + 1)
  /\ UNCHANGED <<heading, hist, drive, pc, qrTurnVars, callVars>>

\* Mutant of Sought: any code will do
SoughtAny(v) == v.code # 0

\* The loop's condition, negated
Sought(v) == v.code = want

\* The code is seen: motor_stop, and qr_turn
Spot ==
  /\ pc = "seek"
  /\ \E v \in Found : Sought(v)
  /\ hist' = Remembered
  /\ drive' = AfterMotion
  /\ \E e \in Biases : CallQrTurn(ANGLE_MINUS(end, e), "end")
  /\ UNCHANGED <<agvVars, diff, amount, callVars>>

\* It is not seen, if only for bad light: the loops over the threshold filter's parameters go on
SpotNot ==
  /\ pc = "seek"
  /\ hist' = Remembered
  /\ UNCHANGED <<agvVars, drive, pc, qrTurnVars, callVars>>

InToQr == Travel \/ Spot \/ SpotNot

-----------------------------------------------------------------------------
\* qe_go
QeGo ==
  /\ pc = "idle"
  /\ Start(Both(1), 0, "going")
  /\ UNCHANGED <<agvVars, hist, then, target, count, diff, callVars>>

\* qe_turn
QeTurn(n) ==
  /\ pc = "idle"
  /\ Start(Spin(n), n, "blind turn")
  /\ UNCHANGED <<agvVars, hist, then, target, count, diff, callVars>>

\* qe_cir: the outer wheel drives, the inner is let in and out
QeCir(n, outer) ==
  /\ pc = "idle"
  /\ Start([Stopped EXCEPT ![outer] = Way(n)], n, "circle")
  /\ then' = outer
  /\ UNCHANGED <<agvVars, hist, target, count, diff, callVars>>

InnerWheel ==
  /\ pc = "circle"
  /\ \E i \in Side \ {then} :
       drive' = [drive EXCEPT ![i] = IF @ = 0 THEN Way(amount) ELSE 0]
  /\ UNCHANGED <<agvVars, hist, pc, qrTurnVars, callVars>>

\* qe_turn or qe_cir ends
TurnedBlind ==
  /\ pc \in {"blind turn", "circle"}
  /\ \E n \in Slips(amount) : heading' = (heading + n + 360) % 360
  /\ IF pc = "circle" THEN Advance(Onward(place)) ELSE UNCHANGED <<place, dy>>
  /\ drive' = AfterMotion
  /\ Return
  /\ UNCHANGED hist

Blind == QeGo \/ (\E n \in Turns : QeTurn(n) \/ \E i \in Side : QeCir(n, i))

-----------------------------------------------------------------------------
\* qe_corr: an answer is taken, 500 as any other, and the AGV spins
Angles500 == {v.angle : v \in Found} \cup {500}

CorrLook ==
  /\ pc = "corr look"
  /\ hist' = Remembered
  /\ first' \in Angles500
  /\ Start(Spin(amount), amount, "corr spin")
  /\ UNCHANGED <<agvVars, then, target, count, diff, want, end>>

\* The encoder has counted 40000 pulses
CorrSpin ==
  /\ pc = "corr spin"
  /\ \E n \in Slips(Spun * amount) : heading' = (heading + n + 360) % 360
  /\ drive' = AfterMotion
  /\ pc' = "corr look again"
  /\ UNCHANGED <<place, dy, hist, qrTurnVars, callVars>>

\* Another answer: if it says the same, exit(1).  The same again the other way
\* round, which calibrates the other wheel, then qr_turn(180)
CorrLookAgain ==
  /\ pc = "corr look again"
  /\ hist' = Remembered
  /\ \E angle \in Angles500 :
       \/ get_angle_diff(first, angle) = 0 /\ pc' = "exit"
          /\ UNCHANGED <<then, target, count, amount>>
       \/ get_angle_diff(first, angle) # 0 /\ amount = 1
          /\ amount' = -1 /\ pc' = "corr look" /\ UNCHANGED <<then, target, count>>
       \/ get_angle_diff(first, angle) # 0 /\ amount = -1
          /\ amount' = 0 /\ CallQrTurn(180, "corr")
  /\ first' = 0
  /\ UNCHANGED <<agvVars, drive, diff, want, end>>

\* An answer, then forward by 250 mm and until any code is seen
CorrDrive ==
  /\ pc = "turned" /\ then = "corr"
  /\ hist' = Remembered
  /\ Start(Both(1), 0, "corr find")
  /\ UNCHANGED <<agvVars, then, target, count, diff, callVars>>

CorrFind ==
  /\ pc = "corr find"
  /\ hist' = Remembered
  /\ \/ Found # {} /\ drive' = AfterMotion /\ pc' = "start"
     \/ UNCHANGED <<drive, pc>>
  /\ UNCHANGED <<agvVars, qrTurnVars, callVars>>

\* main goes on: qr_turn(90), to_qr(16, 90, 500), then commands are received
StartTurn90 ==
  /\ pc = "start"
  /\ CallQrTurn(90, "start")
  /\ UNCHANGED <<agvVars, hist, drive, diff, amount, callVars>>

GoHome ==
  /\ pc = "turned" /\ then = "start"
  /\ CallToQr(Home, 90)

ClientStart ==
  \/ CorrLook \/ CorrSpin \/ CorrLookAgain \/ CorrDrive \/ CorrFind
  \/ StartTurn90 \/ GoHome

-----------------------------------------------------------------------------
\* command_manager calls the motion of the command it received
Command ==
  \/ Blind
  \/ \E angle \in Angles :
       \/ QrTurn(angle) \/ QrToQr(angle)
       \/ \E id \in 1..Codes : ToQr(id, angle)

MotionNext ==
  \/ ClientStart
  \/ Command
  \/ InQrTurn \/ Turned
  \/ InQrToQr
  \/ InToQr
  \/ InnerWheel \/ TurnedBlind

MotionSpec == MotionInit /\ [][MotionNext]_motionVars

\* Motions of the wheels end, and a code in view is found at last
FairMotion ==
  /\ MotionSpec
  /\ WF_motionVars(LookFound)
  /\ WF_motionVars(Centre) /\ WF_motionVars(Turn)
  /\ WF_motionVars(StartTurn) /\ WF_motionVars(Settle)

-----------------------------------------------------------------------------
Places ==
  {"idle", "look", "centre", "decide", "turn", "turned", "going", "arrive",
   "seek", "blind turn", "circle", "corr look", "corr spin", "corr look again",
   "corr find", "start", "exit"}
Follows == {"end", "aim", "go", "corr", "start"} \cup Side
Views == [code : 0..Codes, angle : 0..359, y : Int]

\* Type invariant of the motions (command.c:50-278).
MotionTypeOK ==
  /\ heading \in 0..359 /\ place \in 0..2 * Codes + 1 /\ dy \in Int
  /\ hist \in Seq(Views) /\ Len(hist) <= Lag
  /\ drive \in [Side -> {-1, 0, 1}]
  /\ pc \in Places
  /\ then \in Follows
  /\ target \in 0..359 /\ count \in 0..10
  /\ diff \in -180..180 /\ amount \in Int
  /\ want \in 0..Codes /\ end \in 0..359
  /\ first \in 0..500

(***************************************************************************)
(* When qr_turn returns, the AGV has the heading it was told, to a degree,  *)
(* however the wheels slip and although each answer may be late: none of    *)
(* ten good answers in a row may be of a heading it no longer has           *)
(* (command.c:60-127).                                                      *)
(***************************************************************************)
TurnsTrue ==
  pc = "turned" => Magnitude(get_angle_diff(heading, target)) <= 1

(***************************************************************************)
(* The AGV stands when it acknowledges a command and when it measures its   *)
(* heading, whatever motions and calls came before; only to_qr and the last *)
(* part of qe_corr look while it drives                                     *)
(* (command.c:33, 142, 179, 245, 273; qe.c:151-271; command_manager.c:196). *)
(***************************************************************************)
Stands ==
  pc \in {"idle", "look", "decide", "turned", "arrive", "corr look",
           "corr look again", "start", "exit"} => drive = Stopped

(***************************************************************************)
(* Going half of the way to the middle of the image by an answer about the  *)
(* code under the camera never takes that code out of the image, although   *)
(* the answer may be of before the last correction.  An answer about a code *)
(* the AGV has left may, and qr_turn then looks for ever                    *)
(* (command.c:66-104).                                                      *)
(***************************************************************************)
KeepsInView ==
  pc = "look" /\ InImage =>
    \A v \in Found :
      v.code = CodeAt(place) /\ OffMiddle(v.y) => Magnitude(dy - Shift(Halfway(v.y))) <= 120

\* to_qr stops at the code it was told or beyond it, never before
\* (command.c:253-273).
StopsAtItsCode == [][pc = "seek" /\ pc' # "seek" => place >= 2 * want]_motionVars

(***************************************************************************)
(* qr_turn over a code returns or loses the code, unless answers come late  *)
(* again and again: by answers that are always late it would turn to and    *)
(* fro for ever (command.c:60-127).                                         *)
(***************************************************************************)
LateAnswer == \E v \in Found \ {View} : Look(v)
QrTurnEnds ==
  \/ []<><<LateAnswer>>_motionVars
  \/ pc = "look" /\ View.code # 0 ~> pc = "turned" \/ View.code = 0
=============================================================================
