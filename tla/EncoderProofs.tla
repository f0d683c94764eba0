---------------------------- MODULE EncoderProofs ----------------------------
(***************************************************************************)
(* The count of a wheel is exact for every Target and Cap.  The invariant   *)
(* says, for each place the function can be at, how far the count is behind *)
(* the wheel and what the locals of the thread hold; left_state is the      *)
(* levels of the phase before until the thread has stored it.               *)
(***************************************************************************)
EXTENDS Encoder, TLAPS

\* left_state still has the levels of the phase before a pulse of direction d
Behind(d) == state = Levels(Onward(phase, -d))

\* What the thread of t holds while it deals with a pulse of direction d
Dealing(d, t) ==
  \/ at[t] = "idle" /\ t \in pending /\ Behind(d)
  \/ at[t] = "readB" /\ t \notin pending /\ Behind(d) /\ a[t] = LevelA(phase)
  \/ /\ at[t] = "loadState" /\ t \notin pending /\ Behind(d)
     /\ a[t] = LevelA(phase) /\ b[t] = LevelB(phase)
  \/ /\ at[t] = "storeState" /\ t \notin pending
     /\ s[t] = Levels(Onward(phase, -d)) + 4 * Levels(phase)
  \/ /\ at[t] = "loadPos" /\ t \notin pending
     /\ Change(s[t]) = d /\ state = Levels(phase)
  \/ /\ at[t] = "storePos" /\ t \notin pending
     /\ Change(s[t]) = d /\ state = Levels(phase) /\ reg[t] = pos

Owed(d, t) ==
  /\ turned = pos + d
  /\ \A u \in Pin \ {t} : at[u] = "idle" /\ u \notin pending
  /\ Dealing(d, t)

Settled == Quiet /\ pos = turned /\ state = Levels(phase)

Counted == clean = "yes" => Settled \/ \E d \in {-1, 1}, t \in Pin : Owed(d, t)

EncoderInv == EncoderTypeOK /\ Counted

-----------------------------------------------------------------------------
\* The switch of qe.c:48-61 for every pulse: it counts it, and in its direction.
LEMMA Table ==
  ASSUME NEW p \in 0..3, NEW d \in {-1, 1}
  PROVE  /\ Change(Levels(Onward(p, -d)) + 4 * Levels(p)) = d
         /\ (Levels(Onward(p, -d)) + 4 * Levels(p)) \div 4 = Levels(p)
         /\ (Levels(Onward(p, -d))) % 4 = Levels(Onward(p, -d))
<1>1. CASE d = 1
  <2>1. CASE p = 0 BY <1>1, <2>1 DEF Change, Levels, LevelA, LevelB, Onward
  <2>2. CASE p = 1 BY <1>1, <2>2 DEF Change, Levels, LevelA, LevelB, Onward
  <2>3. CASE p = 2 BY <1>1, <2>3 DEF Change, Levels, LevelA, LevelB, Onward
  <2>4. CASE p = 3 BY <1>1, <2>4 DEF Change, Levels, LevelA, LevelB, Onward
  <2>5. p = 0 \/ p = 1 \/ p = 2 \/ p = 3 OBVIOUS
  <2>6. QED BY <2>1, <2>2, <2>3, <2>4, <2>5
<1>2. CASE d = -1
  <2>1. CASE p = 0 BY <1>2, <2>1 DEF Change, Levels, LevelA, LevelB, Onward
  <2>2. CASE p = 1 BY <1>2, <2>2 DEF Change, Levels, LevelA, LevelB, Onward
  <2>3. CASE p = 2 BY <1>2, <2>3 DEF Change, Levels, LevelA, LevelB, Onward
  <2>4. CASE p = 3 BY <1>2, <2>4 DEF Change, Levels, LevelA, LevelB, Onward
  <2>5. p = 0 \/ p = 1 \/ p = 2 \/ p = 3 OBVIOUS
  <2>6. QED BY <2>1, <2>2, <2>3, <2>4, <2>5
<1>3. QED BY <1>1, <1>2

\* Going on by d and back by d is where one was.
LEMMA ThereAndBack ==
  ASSUME NEW p \in 0..3, NEW d \in {-1, 1}
  PROVE  /\ Onward(p, d) \in 0..3
         /\ Onward(Onward(p, d), -d) = p
<1>1. CASE d = 1
  <2>1. p = 0 \/ p = 1 \/ p = 2 \/ p = 3 OBVIOUS
  <2>2. QED BY <1>1, <2>1 DEF Onward
<1>2. CASE d = -1
  <2>1. p = 0 \/ p = 1 \/ p = 2 \/ p = 3 OBVIOUS
  <2>2. QED BY <1>2, <2>1 DEF Onward
<1>3. QED BY <1>1, <1>2

LEMMA ChangeType == ASSUME NEW v PROVE Change(v) \in Int
  BY DEF Change

LEMMA LevelType ==
  ASSUME NEW p PROVE LevelA(p) \in {0, 1} /\ LevelB(p) \in {0, 1} /\ Levels(p) \in 0..3
  BY DEF LevelA, LevelB, Levels

-----------------------------------------------------------------------------
\* The variables keep their types (qe.c:35-92).
LEMMA TypeStep == EncoderTypeOK /\ [Next]_encoderVars => EncoderTypeOK'
<1> SUFFICES ASSUME EncoderTypeOK, [Next]_encoderVars PROVE EncoderTypeOK'
    OBVIOUS
<1> USE DEF EncoderTypeOK, wheelVars, isrVars, motionVars, encoderVars
<1>1. ASSUME NEW d \in {-1, 1}, Edge(d) PROVE EncoderTypeOK'
  <2>1. phase' \in 0..3 BY <1>1, ThereAndBack DEF Edge
  <2>2. turned' \in Int BY <1>1 DEF Edge
  <2>3. pending' \in SUBSET Pin BY <1>1 DEF Edge, EdgeOn, Pin
  <2>4. clean' \in {"yes", "no"} BY <1>1 DEF Edge
  <2>5. QED BY <1>1, <2>1, <2>2, <2>3, <2>4 DEF Edge
<1>2. ASSUME NEW t \in Pin, ReadA(t) PROVE EncoderTypeOK'
  BY <1>2, LevelType DEF ReadA, IsrPlaces
<1>3. ASSUME NEW t \in Pin, ReadB(t) PROVE EncoderTypeOK'
  BY <1>3, LevelType DEF ReadB, IsrPlaces
<1>4. ASSUME NEW t \in Pin, LoadState(t) PROVE EncoderTypeOK'
  <2>1. (state % 4) + 4 * a[t] + 8 * b[t] \in 0..15 OBVIOUS
  <2>2. QED BY <1>4, <2>1 DEF LoadState, IsrPlaces
<1>5. ASSUME NEW t \in Pin, StoreState(t) PROVE EncoderTypeOK'
  <2>1. NextState(s[t]) \in 0..3 BY DEF NextState
  <2>2. QED BY <1>5, <2>1 DEF StoreState, IsrPlaces
<1>6. ASSUME NEW t \in Pin, LoadPos(t) PROVE EncoderTypeOK'
  BY <1>6 DEF LoadPos, IsrPlaces
<1>7. ASSUME NEW t \in Pin, StorePos(t) PROVE EncoderTypeOK'
  <2>1. reg[t] + Change(s[t]) \in Int BY ChangeType
  <2>2. QED BY <1>7, <2>1 DEF StorePos, IsrPlaces
<1>8. CASE Motion BY <1>8 DEF Motion, Reset, Drive, Halt, NewCount
<1>9. CASE UNCHANGED encoderVars BY <1>9
<1>10. QED BY <1>1, <1>2, <1>3, <1>4, <1>5, <1>6, <1>7, <1>8, <1>9 DEF Next, Isr

LEMMA TypeInit == Init => EncoderTypeOK
  BY DEF Init, EncoderTypeOK, IsrPlaces

-----------------------------------------------------------------------------
\* What one step of the thread of t does to what it owes (qe.c:40-62).
LEMMA ThreadStep ==
  ASSUME EncoderInv, NEW t \in Pin, Isr(t), clean = "yes"
  PROVE  Counted'
<1> USE DEF EncoderInv, EncoderTypeOK, wheelVars, isrVars, motionVars
<1>1. PICK d \in {-1, 1} : Owed(d, t)
  <2>1. ~Quiet
    BY DEF Quiet, Isr, ReadA, ReadB, LoadState, StoreState, LoadPos, StorePos
  <2>2. PICK d \in {-1, 1}, u \in Pin : Owed(d, u) BY <2>1 DEF Counted, Settled
  <2>3. u = t
    BY <2>2 DEF Owed, Isr, ReadA, ReadB, LoadState, StoreState, LoadPos, StorePos
  <2>4. QED BY <2>2, <2>3
<1>2. SUFFICES Settled' \/ Owed(d, t)'
  BY DEF Counted
<1>3. CASE ReadA(t)
  BY <1>1, <1>3 DEF ReadA, Owed, Dealing, Behind
<1>4. CASE ReadB(t)
  BY <1>1, <1>4 DEF ReadB, Owed, Dealing, Behind
<1>5. CASE LoadState(t)
  <2>1. a[t] + 2 * b[t] = Levels(phase) /\ state = Levels(Onward(phase, -d))
    BY <1>1, <1>5 DEF LoadState, Owed, Dealing, Behind, Levels
  <2>2. (state % 4) + 4 * a[t] + 8 * b[t] = Levels(Onward(phase, -d)) + 4 * Levels(phase)
    BY <2>1, Table
  <2>3. s'[t] = Levels(Onward(phase, -d)) + 4 * Levels(phase)
    BY <1>5, <2>2 DEF LoadState
  <2>4. QED BY <1>1, <1>5, <2>3 DEF LoadState, Owed, Dealing
<1>6. CASE StoreState(t)
  <2>1. s[t] = Levels(Onward(phase, -d)) + 4 * Levels(phase)
    BY <1>1, <1>6 DEF StoreState, Owed, Dealing
  <2>2. Change(s[t]) = d /\ NextState(s[t]) = Levels(phase)
    BY <2>1, Table DEF NextState
  <2>3. QED BY <1>1, <1>6, <2>2 DEF StoreState, Owed, Dealing
<1>7. CASE LoadPos(t)
  BY <1>1, <1>7 DEF LoadPos, Owed, Dealing
<1>8. CASE StorePos(t)
  <2>1. reg[t] = pos /\ Change(s[t]) = d /\ state = Levels(phase)
    BY <1>1, <1>8 DEF StorePos, Owed, Dealing
  <2>2. pos' = turned' /\ state' = Levels(phase')
    BY <1>1, <1>8, <2>1 DEF StorePos, Owed
  <2>3. Quiet'
    BY <1>1, <1>8 DEF StorePos, Owed, Dealing, Quiet
  <2>4. QED BY <2>2, <2>3 DEF Settled
<1>9. QED BY <1>3, <1>4, <1>5, <1>6, <1>7, <1>8 DEF Isr

\* A pulse of a wheel that owes nothing is owed by the thread of its pin.
LEMMA PulseStep ==
  ASSUME EncoderInv, NEW d \in {-1, 1}, Edge(d)
  PROVE  Counted'
<1> USE DEF EncoderInv, EncoderTypeOK, wheelVars, isrVars, motionVars
<1>1. SUFFICES ASSUME clean' = "yes" PROVE Counted'
  BY DEF Counted
<1>2. Quiet /\ clean = "yes" BY <1>1 DEF Edge
<1>3. Settled
  BY <1>2 DEF Counted, Owed, Dealing, Quiet
<1>4. PICK t \in Pin : t = EdgeOn(phase, Onward(phase, d))
  BY DEF EdgeOn, Pin
<1>5. turned' = pos' + d
  <2>1. turned \in Int /\ Cap \in Nat /\ Magnitude(turned) <= Cap
    BY <1>3, CapAssumption DEF Edge, Settled
  <2>2. Magnitude(turned + d) <= Cap + 1 BY <2>1 DEF Magnitude
  <2>3. QED BY <1>1, <1>3, <2>2 DEF Edge, Settled
<1>6. state' = Levels(Onward(phase', -d))
  BY <1>3, ThereAndBack DEF Edge, Settled
<1>7. at'[t] = "idle" /\ t \in pending'
      /\ \A u \in Pin \ {t} : at'[u] = "idle" /\ u \notin pending'
  BY <1>2, <1>4 DEF Edge, Quiet
<1>8. Owed(d, t)' BY <1>5, <1>6, <1>7 DEF Owed, Dealing, Behind
<1>9. QED BY <1>8 DEF Counted

-----------------------------------------------------------------------------
\* The count is exact, and what is owed is being dealt with, at all times.
THEOREM EncoderInvariant == Spec => []EncoderInv
<1>1. Init => EncoderInv
  <2>1. Init => EncoderTypeOK BY TypeInit
  <2>2. Init => Counted BY DEF Init, Counted, Settled, Quiet, Pin
  <2>3. QED BY <2>1, <2>2 DEF EncoderInv
<1>2. EncoderInv /\ [Next]_encoderVars => EncoderInv'
  <2> SUFFICES ASSUME EncoderInv, [Next]_encoderVars PROVE Counted'
      BY TypeStep DEF EncoderInv
  <2>1. ASSUME NEW d \in {-1, 1}, Edge(d) PROVE Counted' BY <2>1, PulseStep
  <2>2. ASSUME NEW t \in Pin, Isr(t) PROVE Counted'
    <3>1. CASE clean = "yes" BY <2>2, <3>1, ThreadStep
    <3>2. CASE clean # "yes"
      BY <2>2, <3>2 DEF Counted, Isr, ReadA, ReadB, LoadState, StoreState,
                        LoadPos, StorePos
    <3>3. QED BY <3>1, <3>2
  <2>3. CASE Reset
    BY <2>3 DEF EncoderInv, Reset, NewCount, Counted, Settled, Quiet, isrVars
  <2>4. CASE Drive(1) \/ Drive(-1) \/ Halt \/ UNCHANGED encoderVars
    BY <2>4 DEF EncoderInv, Drive, Halt, Counted, Settled, Quiet, Owed, Dealing,
                Behind, wheelVars, isrVars, motionVars, encoderVars
  <2>5. QED BY <2>1, <2>2, <2>3, <2>4 DEF Next, Motion
<1>3. QED BY <1>1, <1>2, PTL DEF Spec

\* The variables of the encoder keep their types (qe.c:32-37).
THEOREM EncoderTypes == Spec => []EncoderTypeOK
<1>1. EncoderInv => EncoderTypeOK BY DEF EncoderInv
<1>2. QED BY <1>1, EncoderInvariant, PTL

(***************************************************************************)
(* The count is the pulses the wheel has turned whenever the function has   *)
(* dealt with every edge in time (qe.c:40-92).                              *)
(***************************************************************************)
THEOREM CountIsExact == Spec => []ExactCount
<1>1. EncoderInv => ExactCount
  <2> SUFFICES ASSUME EncoderInv, clean = "yes", Quiet
               PROVE  pos = turned /\ state = Levels(phase)
      BY DEF ExactCount
  <2>1. \A d \in {-1, 1}, t \in Pin : ~Owed(d, t)
    BY DEF Owed, Dealing, Quiet
  <2>2. QED BY <2>1 DEF EncoderInv, Counted, Settled
<1>2. QED BY <1>1, EncoderInvariant, PTL

(***************************************************************************)
(* A motion ends at its target, and never before: the loop does not take    *)
(* the count of the motion before for its own (command.c:162, 188).         *)
(***************************************************************************)
THEOREM MotionsGoFar == Spec => GoesFar
<1>1. EncoderInv /\ [Next]_encoderVars
        => [clean = "yes" /\ Halt => Magnitude(turned) >= Target - 1]_encoderVars
  <2> SUFFICES ASSUME EncoderInv, clean = "yes", Halt
               PROVE  Magnitude(turned) >= Target - 1
      OBVIOUS
  <2>1. Magnitude(pos) >= Target BY DEF Halt, Reached
  <2>2. turned = pos \/ turned = pos + 1 \/ turned = pos - 1
    BY DEF EncoderInv, EncoderTypeOK, Counted, Settled, Owed
  <2>3. pos \in Int BY DEF EncoderInv, EncoderTypeOK
  <2>4. QED BY <2>1, <2>2, <2>3, TargetAssumption DEF Magnitude
<1>2. QED BY <1>1, EncoderInvariant, PTL DEF Spec, GoesFar
=============================================================================
