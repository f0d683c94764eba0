------------------------------- MODULE Encoder -------------------------------
(***************************************************************************)
(* One wheel of the AGV, its quadrature encoder and a motion that waits for *)
(* it (client/src/lib/qe.c, motor.c, and qe_go and qe_turn of command.c).   *)
(* qe_init registers the same function (left_pin_isr or right_pin_isr) for  *)
(* both pins of the encoder; wiringPi, which is external, runs it in one    *)
(* thread per pin and lets the edges of a pin that come while its thread is *)
(* busy fall together.  No lock protects left_state and pos, and pos_reset  *)
(* zeroes pos from the thread of the command manager.  Every read of a pin  *)
(* and every load and store of the two variables is a step of its own.      *)
(***************************************************************************)
EXTENDS Integers

CONSTANTS
  Target,             \* pulses a motion waits for: abs(distance * ptod)
  Cap                 \* bound: the wheel stands once the count is beyond it,
                      \* and turned, which is no further then, stops there too

ASSUME TargetAssumption == Target \in Nat \ {0}
ASSUME CapAssumption == Cap \in Nat

Pin == {"A", "B"}

VARIABLES
  phase, turned,      \* the wheel: its phase, and, as long as clean is "yes",
                      \* the pulses it has turned since pos_reset
  pending,            \* pins with an edge whose thread has not been woken
  at,                 \* at[t]: where the thread of pin t is in the function
  a, b, s, reg,       \* p1val, p2val, s, and the pos it loaded, of each thread
  state, pos,         \* left_state and pos[0]
  motor, heading,     \* the way the wheel is driven, and was driven last
  mpc,                \* where the command manager is in its motion
  clean               \* no edge has come too early, no pos_reset at a bad time

wheelVars == <<phase, turned>>
isrVars == <<at, a, b, s, reg, state>>
motionVars == <<motor, heading, mpc>>
encoderVars == <<wheelVars, pending, isrVars, pos, motionVars, clean>>

Magnitude(x) == IF x < 0 THEN -x ELSE x

\* The pins in the four phases: forward, their value goes 0, 2, 3, 1
LevelB(p) == IF p \in {1, 2} THEN 1 ELSE 0
LevelA(p) == IF p \in {2, 3} THEN 1 ELSE 0
Levels(p) == LevelA(p) + 2 * LevelB(p)

\* The next phase, or the one before
Onward(p, d) == (p + d + 4) % 4

\* The pin that changes when the wheel leaves phase p one way or the other
EdgeOn(p, q) == IF LevelA(p) = LevelA(q) THEN "B" ELSE "A"

\* Mutant of Change: a transition taken the wrong way round
ChangeSwapped(v) == IF v \in {1, 7, 8, 13} THEN 1
                    ELSE IF v \in {2, 4, 11, 14} THEN -1
                    ELSE IF v \in {3, 12} THEN 2
                    ELSE IF v \in {6, 9} THEN -2 ELSE 0

\* Mutant of Change: two columns of the table exchanged
ChangeMixed(v) == IF v \in {1, 4, 7, 13} THEN 1
                  ELSE IF v \in {2, 8, 11, 14} THEN -1
                  ELSE IF v \in {3, 12} THEN 2
                  ELSE IF v \in {6, 9} THEN -2 ELSE 0

\* What the switch adds to pos for the old and the new levels
Change(v) == IF v \in {1, 7, 8, 14} THEN 1
             ELSE IF v \in {2, 4, 11, 13} THEN -1
             ELSE IF v \in {3, 12} THEN 2
             ELSE IF v \in {6, 9} THEN -2 ELSE 0

Quiet == pending = {} /\ \A t \in Pin : at[t] = "idle"

\* left_state is static: it is 0 whatever the pins are when the program starts
Init ==
  /\ phase \in 0..3
  /\ turned = 0
  /\ pending = {}
  /\ at = [t \in Pin |-> "idle"]
  /\ a = [t \in Pin |-> 0] /\ b = [t \in Pin |-> 0]
  /\ s = [t \in Pin |-> 0] /\ reg = [t \in Pin |-> 0]
  /\ state = 0 /\ pos = 0
  /\ motor = 0 /\ heading = 1
  /\ mpc = "halted"
  /\ clean = IF state = Levels(phase) THEN "yes" ELSE "no"

-----------------------------------------------------------------------------
\* The wheel turns by one pulse, driven or rolling on, and one pin changes.
Edge(d) ==
  LET p == Onward(phase, d)
  IN
  /\ motor = d \/ (motor = 0 /\ heading = d)
  /\ Magnitude(pos) <= Cap
  /\ Quiet \/ clean = "yes"     \* bound: one edge too early until it is clean
  /\ phase' = p
  /\ pending' = pending \cup {EdgeOn(phase, p)}
  /\ clean' = IF Quiet THEN clean ELSE "no"
  /\ turned' = IF clean' = "no" THEN 0
               ELSE IF Magnitude(turned + d) <= Cap + 1 THEN turned + d ELSE turned
  /\ UNCHANGED <<isrVars, pos, motionVars>>

-----------------------------------------------------------------------------
\* The thread of pin t: digitalRead of phase A, then of phase B
ReadA(t) ==
  /\ at[t] = "idle" /\ t \in pending
  /\ pending' = pending \ {t}
  /\ a' = [a EXCEPT ![t] = LevelA(phase)]
  /\ at' = [at EXCEPT ![t] = "readB"]
  /\ UNCHANGED <<wheelVars, b, s, reg, state, pos, motionVars, clean>>

ReadB(t) ==
  /\ at[t] = "readB"
  /\ b' = [b EXCEPT ![t] = LevelB(phase)]
  /\ at' = [at EXCEPT ![t] = "loadState"]
  /\ UNCHANGED <<wheelVars, pending, a, s, reg, state, pos, motionVars, clean>>

\* s = left_state & 3, with the levels above it
LoadState(t) ==
  /\ at[t] = "loadState"
  /\ s' = [s EXCEPT ![t] = (state % 4) + 4 * a[t] + 8 * b[t]]
  /\ a' = [a EXCEPT ![t] = 0] /\ b' = [b EXCEPT ![t] = 0]
  /\ at' = [at EXCEPT ![t] = "storeState"]
  /\ UNCHANGED <<wheelVars, pending, reg, state, pos, motionVars, clean>>

\* Mutant of NextState: left_state keeps the old levels beside the new ones
NextStateWhole(v) == v

\* s >> 2
NextState(v) == v \div 4

\* left_state = s >> 2; and the switch
StoreState(t) ==
  /\ at[t] = "storeState"
  /\ state' = NextState(s[t])
  /\ IF Change(s[t]) = 0
     THEN at' = [at EXCEPT ![t] = "idle"] /\ s' = [s EXCEPT ![t] = 0]
     ELSE at' = [at EXCEPT ![t] = "loadPos"] /\ s' = s
  /\ UNCHANGED <<wheelVars, pending, a, b, reg, pos, motionVars, clean>>

\* pos[0]++, --, += 2 or -= 2 is a load and a store
LoadPos(t) ==
  /\ at[t] = "loadPos"
  /\ reg' = [reg EXCEPT ![t] = pos]
  /\ at' = [at EXCEPT ![t] = "storePos"]
  /\ UNCHANGED <<wheelVars, pending, a, b, s, state, pos, motionVars, clean>>

StorePos(t) ==
  /\ at[t] = "storePos"
  /\ pos' = reg[t] + Change(s[t])
  /\ at' = [at EXCEPT ![t] = "idle"]
  /\ s' = [s EXCEPT ![t] = 0] /\ reg' = [reg EXCEPT ![t] = 0]
  /\ UNCHANGED <<wheelVars, pending, a, b, state, motionVars, clean>>

Isr(t) ==
  \/ ReadA(t) \/ ReadB(t) \/ LoadState(t)
  \/ StoreState(t) \/ LoadPos(t) \/ StorePos(t)

-----------------------------------------------------------------------------
\* Mutant of NewCount: pos_reset forgets this wheel
NewCountKept == pos
NewCount == 0

\* motor_stop() was called; pos_reset() stores 0 into pos
Reset ==
  /\ mpc = "halted"
  /\ pos' = NewCount
  /\ turned' = 0
  /\ clean' = IF Quiet /\ state = Levels(phase) THEN "yes" ELSE "no"
  /\ mpc' = "reset"
  /\ UNCHANGED <<phase, pending, isrVars, motor, heading>>

\* motor_ctrl(side, way, 100)
Drive(d) ==
  /\ mpc = "reset"
  /\ motor' = d /\ heading' = d
  /\ mpc' = "wait"
  /\ UNCHANGED <<wheelVars, pending, isrVars, pos, clean>>

\* The loop while(abs(pos) < abs(target))
Reached == Magnitude(pos) >= Target

\* The loop ends; motor_stop()
Halt ==
  /\ mpc = "wait"
  /\ Reached
  /\ motor' = 0
  /\ mpc' = "halted"
  /\ UNCHANGED <<wheelVars, pending, isrVars, pos, heading, clean>>

Motion == Reset \/ Drive(1) \/ Drive(-1) \/ Halt

Next == Motion \/ Edge(1) \/ Edge(-1) \/ \E t \in Pin : Isr(t)

Spec == Init /\ [][Next]_encoderVars

\* The threads run, and a driven wheel turns
FairSpec ==
  /\ Spec
  /\ WF_encoderVars(Reset) /\ WF_encoderVars(Drive(1) \/ Drive(-1))
  /\ WF_encoderVars(Halt)
  /\ WF_encoderVars(Edge(1) /\ motor = 1) /\ WF_encoderVars(Edge(-1) /\ motor = -1)
  /\ \A t \in Pin : WF_encoderVars(Isr(t))

-----------------------------------------------------------------------------
IsrPlaces == {"idle", "readB", "loadState", "storeState", "loadPos", "storePos"}

\* Type invariant of the encoder (qe.c:32-37).
EncoderTypeOK ==
  /\ phase \in 0..3 /\ turned \in Int
  /\ pending \in SUBSET Pin
  /\ at \in [Pin -> IsrPlaces]
  /\ a \in [Pin -> {0, 1}] /\ b \in [Pin -> {0, 1}]
  /\ s \in [Pin -> 0..15] /\ reg \in [Pin -> Int]
  /\ state \in 0..3 /\ pos \in Int
  /\ motor \in {-1, 0, 1} /\ heading \in {-1, 1}
  /\ mpc \in {"halted", "reset", "wait"}
  /\ clean \in {"yes", "no"}

(***************************************************************************)
(* As long as each edge comes when the function has dealt with the one      *)
(* before, in the thread of either pin, and pos_reset when it deals with    *)
(* none, the count is the pulses the wheel has turned, across changes of    *)
(* direction and while it rolls on after motor_stop (qe.c:40-92).  Without  *)
(* that proviso it is not: two edges seen as one may count as two back, and *)
(* a count loaded before pos_reset is stored after it.                      *)
(***************************************************************************)
ExactCount == clean = "yes" /\ Quiet => pos = turned /\ state = Levels(phase)

(***************************************************************************)
(* A motion does not end before the wheel has turned as far as it was told: *)
(* the loop never takes a count of the motion before for its own.  The one  *)
(* pulse that may lack is the edge being dealt with, of a wheel that rolled *)
(* on the other way (command.c:162, 169, 188, 195).                         *)
(***************************************************************************)
GoesFar ==
  [][clean = "yes" /\ Halt => Magnitude(turned) >= Target - 1]_encoderVars

\* A motion ends, unless edges come too early (command.c:162, 188).
MotionEnds == mpc = "wait" /\ clean = "yes" ~> mpc = "halted" \/ clean = "no"
=============================================================================
