----------------------------- MODULE MotionProofs -----------------------------
(***************************************************************************)
(* Proofs about the motions of an AGV, for every floor, every slip and      *)
(* every lag of up to nine requests: qr_turn leaves the AGV with the        *)
(* heading it was told, the wheels stand when they must, and to_qr never    *)
(* stops short of its code.  With a lag of one request, which is what the   *)
(* QR reader gives, the corrections of qr_turn keep the code in the image.  *)
(***************************************************************************)
EXTENDS Motion, TLAPS

\* The latest n things under the camera have the heading the AGV has
Recent(n) == \A i \in 1..Len(hist) : i <= n => hist[i].angle = heading

\* After k good answers in a row the last k requests were of this heading, and
\* with the tenth the answer was of it too
Counting ==
  /\ pc \in {"look", "centre", "decide", "turn"} => count >= 1
  /\ pc = "look" => Recent(10 - count)
  /\ pc \in {"centre", "decide"} =>
       /\ Recent(11 - count)
       /\ count = 1 => diff = get_angle_diff(heading, target)

MotionInv == MotionTypeOK /\ Counting /\ TurnsTrue

-----------------------------------------------------------------------------
LEMMA RememberedIs ==
  ASSUME NEW S, hist \in Seq(S), View \in S, Len(hist) <= Lag, Lag \in Nat
  PROVE  /\ Remembered \in Seq(S)
         /\ Len(Remembered) <= Lag
         /\ Len(Remembered) <= Len(hist) + 1
         /\ \A i \in 1..Len(Remembered) :
              Remembered[i] = IF i = 1 THEN View ELSE hist[i - 1]
<1> DEFINE n == IF Len(hist) < Lag THEN Len(hist) + 1 ELSE Lag
           q == <<View>> \o hist
<1>1. q \in Seq(S) /\ Len(q) = Len(hist) + 1
      /\ \A i \in 1..Len(q) : q[i] = IF i = 1 THEN View ELSE hist[i - 1]
  OBVIOUS
<1>2. n \in 0..Len(q) /\ n <= Lag
  BY <1>1
<1> HIDE DEF n, q
<1>3. /\ SubSeq(q, 1, n) \in Seq(S) /\ Len(SubSeq(q, 1, n)) = n
      /\ \A i \in 1..n : SubSeq(q, 1, n)[i] = q[i]
  BY <1>1, <1>2
<1>4. Remembered = SubSeq(q, 1, n)
  BY DEF Remembered, n, q
<1>5. QED BY <1>1, <1>2, <1>3, <1>4

LEMMA DiffType ==
  ASSUME NEW x \in 0..359, NEW y \in 0..359
  PROVE  get_angle_diff(x, y) \in -180..180
  BY DEF get_angle_diff

LEMMA AngleType ==
  ASSUME NEW x \in 0..359, NEW y \in Int
  PROVE  ANGLE_MINUS(x, y) \in 0..359 /\ (x + y + 360) % 360 \in 0..359
<1>1. x - y + 360 \in Int /\ x + y + 360 \in Int OBVIOUS
<1>2. \A n \in Int : n % 360 \in 0..359 OBVIOUS
<1>3. QED BY <1>1, <1>2 DEF ANGLE_MINUS

LEMMA CallType ==
  ASSUME NEW angle \in 0..359, NEW next, CallQrTurn(angle, next)
  PROVE  target' \in 0..359
<1>1. 2 \in Int OBVIOUS
<1>2. ANGLE_MINUS(angle, 2) \in 0..359 BY <1>1, AngleType
<1>3. QED BY <1>2 DEF CallQrTurn

LEMMA SlipType ==
  ASSUME NEW n \in Int
  PROVE  Slips(n) \subseteq Int
  BY DEF Slips, Truncate

LEMMA ViewType == MotionTypeOK => View \in Views
<1> SUFFICES ASSUME MotionTypeOK PROVE View \in Views
    OBVIOUS
<1>1. CodeAt(place) \in 0..Codes
  BY FloorAssumption DEF MotionTypeOK, CodeAt
<1>2. (IF InImage THEN CodeAt(place) ELSE 0) \in 0..Codes
  BY <1>1, FloorAssumption
<1>3. QED BY <1>2 DEF MotionTypeOK, View, Views

LEMMA AdvanceType ==
  ASSUME NEW p \in 0..2 * Codes + 1, Advance(p)
  PROVE  place' \in 0..2 * Codes + 1 /\ dy' \in Int
  BY FloorAssumption DEF Advance, OffsetsAt

LEMMA OnwardType ==
  ASSUME NEW p \in 0..2 * Codes + 1
  PROVE  Onward(p) \in 0..2 * Codes + 1
  BY FloorAssumption DEF Onward

LEMMA MemoryType ==
  ASSUME MotionTypeOK, hist' = Remembered
  PROVE  hist' \in Seq(Views) /\ Len(hist') <= Lag
  BY ViewType, RememberedIs, LagAssumption DEF MotionTypeOK

LEMMA DriveType ==
  /\ Stopped \in [Side -> {-1, 0, 1}]
  /\ \A w \in {-1, 1} : Both(w) \in [Side -> {-1, 0, 1}]
  /\ \A n : Spin(n) \in [Side -> {-1, 0, 1}]
  BY DEF Stopped, Both, Spin, Side

LEMMA WayType == \A n : Way(n) \in {-1, 1}
  BY DEF Way

-----------------------------------------------------------------------------
LEMMA InitInv == MotionInit => MotionInv
<1> SUFFICES ASSUME MotionInit PROVE MotionInv
    OBVIOUS
<1>1. MotionTypeOK
  <2>1. /\ heading \in 0..359 /\ place \in 0..2 * Codes + 1 /\ dy \in Int
        /\ want \in 0..Codes
    <3>1. heading \in Headings /\ place = 2 /\ dy \in Offsets /\ want = 0
      BY DEF MotionInit
    <3>2. 2 \in 0..2 * Codes + 1 /\ 0 \in 0..Codes BY FloorAssumption
    <3>3. QED BY <3>1, <3>2, FloorAssumption
  <2>2. hist \in Seq(Views) /\ Len(hist) <= Lag
    <3>1. hist = <<>> BY DEF MotionInit
    <3>2. QED BY <3>1, LagAssumption
  <2>3. drive \in [Side -> {-1, 0, 1}] BY DriveType DEF MotionInit
  <2>4. pc \in Places /\ then \in Follows BY DEF MotionInit, Places, Follows
  <2>5. /\ target \in 0..359 /\ count \in 0..10 /\ diff \in -180..180
        /\ amount \in Int /\ end \in 0..359 /\ first \in 0..500
    <3>1. target = 0 /\ count = 0 /\ diff = 0 /\ amount = 1 /\ end = 0 /\ first = 0
      BY DEF MotionInit
    <3>2. QED BY <3>1
  <2>6. QED BY <2>1, <2>2, <2>3, <2>4, <2>5 DEF MotionTypeOK
<1>2. QED BY <1>1 DEF MotionInv, MotionInit, Counting, TurnsTrue

-----------------------------------------------------------------------------
\* The steps of qr_turn keep the invariant (command.c:60-127).
LEMMA QrTurnStep == MotionInv /\ InQrTurn => MotionInv'
<1> SUFFICES ASSUME MotionInv, InQrTurn PROVE MotionInv'
    OBVIOUS
<1> USE DEF agvVars, qrTurnVars, callVars
<1>0. MotionTypeOK BY DEF MotionInv
<1>1. ASSUME NEW v \in Found, Look(v) PROVE MotionInv'
  <2>1. v \in Views
    BY <1>0, ViewType DEF Found, Seen, MotionTypeOK
  <2>2. hist' \in Seq(Views) /\ Len(hist') <= Lag
    BY <1>0, <1>1, MemoryType DEF Look
  <2>3. diff' \in -180..180
    BY <1>0, <1>1, <2>1, DiffType DEF Look, MotionTypeOK, Views
  <2>4. /\ drive' \in [Side -> {-1, 0, 1}] /\ amount' \in Int
        /\ pc' \in {"centre", "decide"}
    <3>1. CASE OffMiddle(v.y)
      <4>1. Halfway(v.y) \in Int BY <2>1 DEF Halfway, Truncate, Views
      <4>2. QED BY <1>1, <3>1, <4>1, DriveType, WayType DEF Look, Start
    <3>2. CASE ~OffMiddle(v.y)
      BY <1>0, <1>1, <3>2 DEF Look, MotionTypeOK
    <3>3. QED BY <3>1, <3>2
  <2>5. MotionTypeOK'
    BY <1>0, <1>1, <2>2, <2>3, <2>4 DEF Look, MotionTypeOK, Places, Follows
  <2>6. count \in 1..10 /\ count' = count /\ heading' = heading
        /\ Recent(10 - count)
    BY <1>0, <1>1 DEF Look, MotionInv, Counting, MotionTypeOK
  <2>7. Recent(11 - count)'
    <3>1. \A i \in 1..Len(hist') :
            hist'[i] = IF i = 1 THEN View ELSE hist[i - 1]
      BY <1>0, <1>1, ViewType, RememberedIs, LagAssumption DEF Look, MotionTypeOK
    <3>2. Len(hist') <= Len(hist) + 1 /\ Len(hist) \in Nat /\ Len(hist') \in Nat
      BY <1>0, <1>1, <2>2, ViewType, RememberedIs, LagAssumption
         DEF Look, MotionTypeOK
    <3>3. \A i \in 1..Len(hist') : i <= 11 - count => hist'[i].angle = heading
      BY <2>6, <3>1, <3>2 DEF Recent, View
    <3>4. QED BY <2>6, <3>3 DEF Recent
  <2>8. count = 1 => v.angle = heading
    BY <1>0, <2>6, LagAssumption DEF Recent, Found, Seen, View, MotionTypeOK
  <2>9. count = 1 => diff' = get_angle_diff(heading, target)
    BY <1>1, <2>8 DEF Look
  <2>10. QED
    BY <1>1, <2>4, <2>5, <2>6, <2>7, <2>9
       DEF Look, MotionInv, Counting, TurnsTrue
<1>2. CASE LookBlank
  <2>1. hist' \in Seq(Views) /\ Len(hist') <= Lag
    BY <1>0, <1>2, MemoryType DEF LookBlank
  <2>2. MotionTypeOK' BY <1>0, <1>2, <2>1 DEF LookBlank, MotionTypeOK
  <2>3. Recent(10 - count)'
    <3>1. count \in 1..10 /\ count' = count /\ heading' = heading
          /\ Recent(10 - count)
      BY <1>0, <1>2 DEF LookBlank, MotionInv, Counting, MotionTypeOK
    <3>2. \A i \in 1..Len(hist') :
            hist'[i] = IF i = 1 THEN View ELSE hist[i - 1]
      BY <1>0, <1>2, ViewType, RememberedIs, LagAssumption
         DEF LookBlank, MotionTypeOK
    <3>3. Len(hist') <= Len(hist) + 1 /\ Len(hist) \in Nat /\ Len(hist') \in Nat
      BY <1>0, <1>2, <2>1, ViewType, RememberedIs, LagAssumption
         DEF LookBlank, MotionTypeOK
    <3>4. \A i \in 1..Len(hist') : i <= 10 - count => hist'[i].angle = heading
      BY <3>1, <3>2, <3>3 DEF Recent, View
    <3>5. QED BY <3>1, <3>4 DEF Recent
  <2>4. QED
    BY <1>2, <2>2, <2>3 DEF LookBlank, MotionInv, Counting, TurnsTrue
<1>3. CASE Centre
  <2>1. dy' \in Int BY <1>0, <1>3 DEF Centre, MotionTypeOK, Truncate
  <2>2. MotionTypeOK'
    BY <1>0, <1>3, <2>1, DriveType DEF Centre, MotionTypeOK, AfterMotion, Places, Follows
  <2>3. QED
    BY <1>3, <2>2 DEF Centre, MotionInv, Counting, TurnsTrue, Recent
<1>4. CASE StartTurn
  <2>1. Step(diff) \in Int BY <1>0 DEF Step, MotionTypeOK
  <2>2. MotionTypeOK'
    BY <1>0, <1>4, <2>1, DriveType DEF StartTurn, Start, MotionTypeOK, Places, Follows
  <2>3. QED
    BY <1>4, <2>2 DEF StartTurn, Start, MotionInv, Counting, TurnsTrue
<1>5. CASE Turn
  <2>1. heading' \in 0..359
    <3>1. PICK n \in Slips(amount) : heading' = (heading + n + 360) % 360
      BY <1>5 DEF Turn
    <3>2. n \in Int /\ heading \in 0..359 BY <1>0, SlipType DEF MotionTypeOK
    <3>3. QED BY <3>1, <3>2, AngleType
  <2>2. MotionTypeOK'
    BY <1>0, <1>5, <2>1, DriveType
       DEF Turn, MotionTypeOK, AfterMotion, CountAfterTurn, Places, Follows
  <2>3. Recent(10 - count)' BY <1>0, <1>5 DEF Turn, Recent, CountAfterTurn, MotionTypeOK
  <2>4. QED
    BY <1>5, <2>2, <2>3 DEF Turn, CountAfterTurn, MotionInv, Counting, TurnsTrue
<1>6. CASE Settle
  <2>1. count \in 1..10 /\ count' = count - 1 /\ Recent(11 - count)
    BY <1>0, <1>6 DEF Settle, MotionInv, Counting, MotionTypeOK
  <2>2. pc' = IF count' = 0 THEN "turned" ELSE "look" BY <1>6 DEF Settle
  <2>3. MotionTypeOK'
    BY <1>0, <1>6, <2>1, <2>2 DEF Settle, MotionTypeOK, Places, Follows
  <2>4. Recent(10 - count)' BY <1>6, <2>1 DEF Settle, Recent
  <2>5. count' = 0 => Magnitude(get_angle_diff(heading, target)) <= 1
    BY <1>6, <2>1 DEF Settle, MotionInv, Counting
  <2>6. TurnsTrue' BY <1>6, <2>2, <2>5 DEF Settle, TurnsTrue
  <2>7. Counting' BY <2>1, <2>2, <2>4 DEF Counting
  <2>8. QED BY <2>3, <2>6, <2>7 DEF MotionInv
<1>7. QED
  BY <1>1, <1>2, <1>3, <1>4, <1>5, <1>6 DEF InQrTurn, LookFound

\* qr_turn is called with ten answers to come, which are counted from here.
LEMMA CallStep ==
  ASSUME MotionTypeOK', NEW angle, NEW next, CallQrTurn(angle, next)
  PROVE  MotionInv'
<1>1. count' = 10 /\ pc' = "look" BY DEF CallQrTurn
<1>2. Recent(10 - count)' BY <1>1 DEF Recent, MotionTypeOK
<1>3. QED BY <1>1, <1>2 DEF MotionInv, Counting, TurnsTrue

\* Elsewhere there is nothing to count.
LEMMA OtherStep ==
  ASSUME MotionTypeOK',
         pc' \notin {"look", "centre", "decide", "turn", "turned"}
  PROVE  MotionInv'
  BY DEF MotionInv, Counting, TurnsTrue

-----------------------------------------------------------------------------
\* The steps of qr_to_qr keep the invariant (command.c:200-236).
LEMMA QrToQrStep == MotionInv /\ InQrToQr => MotionInv'
<1> SUFFICES ASSUME MotionInv, InQrToQr PROVE MotionInv'
    OBVIOUS
<1> USE DEF agvVars, qrTurnVars, callVars
<1>0. MotionTypeOK BY DEF MotionInv
<1>1. CASE Aim
  <2>1. hist' \in Seq(Views) /\ Len(hist') <= Lag
    BY <1>0, <1>1, MemoryType DEF Aim
  <2>2. PICK e \in {-1, 0, 1} : CallQrTurn(ANGLE_MINUS(end, e), "go")
    BY <1>1 DEF Aim
  <2>3. target' \in 0..359
    <3>1. end \in 0..359 /\ e \in Int BY <1>0 DEF MotionTypeOK
    <3>2. ANGLE_MINUS(end, e) \in 0..359 BY <3>1, AngleType
    <3>3. QED BY <2>2, <3>2, CallType
  <2>4. MotionTypeOK'
    <3>1. count' = 10 /\ then' = "go" /\ pc' = "look" BY <2>2 DEF CallQrTurn
    <3>2. UNCHANGED <<agvVars, drive, diff, amount, callVars>> BY <1>1 DEF Aim
    <3>3. count' \in 0..10 /\ then' \in Follows
          /\ pc' \in Places
      BY <3>1 DEF Places, Follows
    <3>4. /\ heading' \in 0..359 /\ place' \in 0..2 * Codes + 1 /\ dy' \in Int
          /\ drive' \in [Side -> {-1, 0, 1}] /\ diff' \in -180..180
          /\ amount' \in Int /\ want' \in 0..Codes /\ end' \in 0..359
          /\ first' \in 0..500
      BY <1>0, <3>2 DEF MotionTypeOK
    <3>5. QED BY <2>1, <2>3, <3>3, <3>4 DEF MotionTypeOK
  <2>5. QED BY <2>2, <2>4, CallStep
<1>2. CASE SetOut \/ GoOn
  <2>1. hist' \in Seq(Views) /\ Len(hist') <= Lag
    BY <1>0, <1>2, MemoryType DEF SetOut, GoOn
  <2>2. /\ pc' = "going" /\ drive' = Both(1) /\ amount' = 0
        /\ UNCHANGED <<agvVars, then, target, count, diff, callVars>>
    BY <1>2 DEF SetOut, GoOn, Start
  <2>3. MotionTypeOK'
    <3>1. drive' \in [Side -> {-1, 0, 1}] BY <2>2, DriveType
    <3>2. pc' \in Places BY <2>2 DEF Places, Follows
    <3>3. QED BY <1>0, <2>1, <2>2, <3>1, <3>2 DEF MotionTypeOK
  <2>4. QED BY <2>2, <2>3, OtherStep
<1>3. CASE Going
  <2>1. PICK p \in {Onward(place), Onward(Onward(place))} : Advance(p)
    BY <1>3 DEF Going
  <2>2. p \in 0..2 * Codes + 1 BY <1>0, OnwardType DEF MotionTypeOK
  <2>3. place' \in 0..2 * Codes + 1 /\ dy' \in Int BY <2>1, <2>2, AdvanceType
  <2>4. pc' \in {"arrive", "idle"} BY <1>3 DEF Going
  <2>5. MotionTypeOK'
    BY <1>0, <1>3, <2>3, <2>4, DriveType DEF Going, AfterMotion, MotionTypeOK, Places, Follows
  <2>6. QED BY <2>4, <2>5, OtherStep
<1>4. CASE Arrive
  <2>1. hist' \in Seq(Views) /\ Len(hist') <= Lag
    BY <1>0, <1>4, MemoryType DEF Arrive
  <2>2. MotionTypeOK'
    BY <1>0, <1>4, <2>1, FloorAssumption
       DEF Arrive, Return, Forget, MotionTypeOK, Places, Follows
  <2>3. QED BY <1>4, <2>2, OtherStep DEF Arrive, Return
<1>5. QED BY <1>1, <1>2, <1>3, <1>4 DEF InQrToQr

\* The steps of to_qr keep the invariant (command.c:238-278).
LEMMA ToQrStep == MotionInv /\ InToQr => MotionInv'
<1> SUFFICES ASSUME MotionInv, InToQr PROVE MotionInv'
    OBVIOUS
<1> USE DEF agvVars, qrTurnVars, callVars
<1>0. MotionTypeOK BY DEF MotionInv
<1>1. CASE Travel
  <2>1. place + 1 \in 0..2 * Codes + 1
    <3>1. place \in 0..2 * Codes + 1 /\ place < 2 * Codes + 1
      BY <1>0, <1>1 DEF Travel, MotionTypeOK
    <3>2. QED BY <3>1, FloorAssumption
  <2>2. place' \in 0..2 * Codes + 1 /\ dy' \in Int
    BY <1>1, <2>1, AdvanceType DEF Travel
  <2>3. MotionTypeOK' BY <1>0, <1>1, <2>2 DEF Travel, MotionTypeOK
  <2>4. QED BY <1>1, <2>3, OtherStep DEF Travel
<1>2. CASE Spot
  <2>1. hist' \in Seq(Views) /\ Len(hist') <= Lag
    BY <1>0, <1>2, MemoryType DEF Spot
  <2>2. PICK e \in Biases : CallQrTurn(ANGLE_MINUS(end, e), "end")
    BY <1>2 DEF Spot
  <2>3. ANGLE_MINUS(end, e) \in 0..359
    <3>1. end \in 0..359 /\ e \in Int BY <1>0, FloorAssumption DEF MotionTypeOK
    <3>2. QED BY <3>1, AngleType
  <2>4. target' \in 0..359 BY <2>2, <2>3, CallType
  <2>5. MotionTypeOK'
    BY <1>0, <1>2, <2>1, <2>2, <2>4, DriveType
       DEF Spot, CallQrTurn, AfterMotion, MotionTypeOK, Places, Follows
  <2>6. QED BY <2>2, <2>5, CallStep
<1>3. CASE SpotNot
  <2>1. hist' \in Seq(Views) /\ Len(hist') <= Lag
    BY <1>0, <1>3, MemoryType DEF SpotNot
  <2>2. MotionTypeOK' BY <1>0, <1>3, <2>1 DEF SpotNot, MotionTypeOK
  <2>3. QED BY <1>3, <2>2, OtherStep DEF SpotNot
<1>4. QED BY <1>1, <1>2, <1>3 DEF InToQr

\* A command's first step, and the motions without a camera, keep the invariant.
LEMMA CommandStep ==
  MotionInv /\ (Command \/ Turned \/ InnerWheel \/ TurnedBlind) => MotionInv'
<1> SUFFICES ASSUME MotionInv, Command \/ Turned \/ InnerWheel \/ TurnedBlind
             PROVE  MotionInv'
    OBVIOUS
<1> USE DEF agvVars, qrTurnVars, callVars
<1>0. MotionTypeOK BY DEF MotionInv
<1>1. ASSUME NEW angle \in Angles, QrTurn(angle) \/ QrToQr(angle)
      PROVE  MotionInv'
  <2>1. angle \in 0..359 BY FloorAssumption
  <2>2. PICK next \in {"end", "aim"} : CallQrTurn(angle, next)
    BY <1>1 DEF QrTurn, QrToQr
  <2>3. target' \in 0..359 BY <2>1, <2>2, CallType
  <2>4. MotionTypeOK'
    <3>1. count' = 10 /\ then' \in {"end", "aim"} /\ pc' = "look"
      BY <2>2 DEF CallQrTurn
    <3>2. end' \in 0..359
      <4>1. end \in 0..359 BY <1>0 DEF MotionTypeOK
      <4>2. end' = end \/ end' = angle BY <1>1 DEF QrTurn, QrToQr
      <4>3. QED BY <2>1, <4>1, <4>2
    <3>3. /\ UNCHANGED <<agvVars, hist, drive, diff, amount, want, first>>
      BY <1>1 DEF QrTurn, QrToQr
    <3>4. count' \in 0..10 /\ then' \in Follows
          /\ pc' \in Places
      BY <3>1 DEF Places, Follows
    <3>5. QED BY <1>0, <2>3, <3>2, <3>3, <3>4 DEF MotionTypeOK
  <2>5. QED BY <2>2, <2>4, CallStep
<1>2. ASSUME NEW angle \in Angles, NEW id \in 1..Codes, ToQr(id, angle)
      PROVE  MotionInv'
  <2>1. angle \in 0..359 /\ id \in 0..Codes BY FloorAssumption
  <2>2. MotionTypeOK'
    BY <1>0, <1>2, <2>1, DriveType DEF ToQr, CallToQr, MotionTypeOK, Places, Follows
  <2>3. QED BY <1>2, <2>2, OtherStep DEF ToQr, CallToQr
<1>3. CASE QeGo
  <2>1. MotionTypeOK' BY <1>0, <1>3, DriveType DEF QeGo, Start, MotionTypeOK, Places, Follows
  <2>2. QED BY <1>3, <2>1, OtherStep DEF QeGo, Start
<1>4. ASSUME NEW n \in Turns, QeTurn(n) PROVE MotionInv'
  <2>1. MotionTypeOK'
    BY <1>0, <1>4, DriveType, FloorAssumption DEF QeTurn, Start, MotionTypeOK, Places, Follows
  <2>2. QED BY <1>4, <2>1, OtherStep DEF QeTurn, Start
<1>5. ASSUME NEW n \in Turns, NEW i \in Side, QeCir(n, i) PROVE MotionInv'
  <2>1. MotionTypeOK'
    BY <1>0, <1>5, DriveType, WayType, FloorAssumption
       DEF QeCir, Start, MotionTypeOK, Places, Follows
  <2>2. QED BY <1>5, <2>1, OtherStep DEF QeCir, Start
<1>6. CASE Turned
  <2>1. MotionTypeOK'
    BY <1>0, <1>6, FloorAssumption DEF Turned, Return, Forget, MotionTypeOK, Places, Follows
  <2>2. QED BY <1>6, <2>1, OtherStep DEF Turned, Return
<1>7. CASE InnerWheel
  <2>1. PICK i \in Side \ {then} :
          drive' = [drive EXCEPT ![i] = IF @ = 0 THEN Way(amount) ELSE 0]
    BY <1>7 DEF InnerWheel
  <2>2. drive' \in [Side -> {-1, 0, 1}]
    BY <1>0, <2>1, WayType DEF MotionTypeOK
  <2>3. MotionTypeOK' BY <1>0, <1>7, <2>2 DEF InnerWheel, MotionTypeOK
  <2>4. QED BY <1>7, <2>3, OtherStep DEF InnerWheel
<1>8. CASE TurnedBlind
  <2>1. heading' \in 0..359
    <3>1. PICK n \in Slips(amount) : heading' = (heading + n + 360) % 360
      BY <1>8 DEF TurnedBlind
    <3>2. n \in Int /\ heading \in 0..359 BY <1>0, SlipType DEF MotionTypeOK
    <3>3. QED BY <3>1, <3>2, AngleType
  <2>2. place' \in 0..2 * Codes + 1 /\ dy' \in Int
    BY <1>0, <1>8, OnwardType, AdvanceType DEF TurnedBlind, MotionTypeOK
  <2>3. MotionTypeOK'
    <3>1. drive' = Stopped /\ Return /\ UNCHANGED hist
      BY <1>8 DEF TurnedBlind, AfterMotion
    <3>2. drive' \in [Side -> {-1, 0, 1}] BY <3>1, DriveType
    <3>3. /\ pc' \in Places /\ then' \in Follows
          /\ target' \in 0..359 /\ count' \in 0..10
          /\ diff' \in -180..180 /\ amount' \in Int
          /\ want' \in 0..Codes /\ end' \in 0..359
          /\ first' \in 0..500
      BY <3>1, FloorAssumption DEF Return, Forget, Places, Follows
    <3>4. QED BY <1>0, <2>1, <2>2, <3>1, <3>2, <3>3 DEF MotionTypeOK
  <2>4. QED BY <1>8, <2>3, OtherStep DEF TurnedBlind, Return
<1>9. QED
  BY <1>1, <1>2, <1>3, <1>4, <1>5, <1>6, <1>7, <1>8 DEF Command, Blind

\* The client's start keeps the invariant (qe.c:141-271, client/src/main.c:72-98).
LEMMA ClientStartStep == MotionInv /\ ClientStart => MotionInv'
<1> SUFFICES ASSUME MotionInv, ClientStart PROVE MotionInv'
    OBVIOUS
<1> USE DEF agvVars, qrTurnVars, callVars
<1>0. MotionTypeOK BY DEF MotionInv
<1>a. Angles500 \subseteq 0..500
  <2>1. \A v \in Found : v \in Views
    BY <1>0, ViewType DEF Found, Seen, MotionTypeOK
  <2>2. \A v \in Views : v.angle \in 0..359 BY DEF Views
  <2>3. QED BY <2>1, <2>2 DEF Angles500
<1>b. ASSUME CorrLook \/ CorrLookAgain \/ CorrDrive \/ CorrFind
      PROVE  hist' \in Seq(Views) /\ Len(hist') <= Lag
  BY <1>0, <1>b, MemoryType DEF CorrLook, CorrLookAgain, CorrDrive, CorrFind
<1>1. CASE CorrLook
  <2>1. first' \in 0..500 BY <1>1, <1>a DEF CorrLook
  <2>2. drive' \in [Side -> {-1, 0, 1}] /\ amount' \in Int
    BY <1>0, <1>1, DriveType DEF CorrLook, Start, MotionTypeOK
  <2>3. MotionTypeOK'
    BY <1>0, <1>1, <1>b, <2>1, <2>2 DEF CorrLook, Start, MotionTypeOK, Places
  <2>4. QED BY <1>1, <2>3, OtherStep DEF CorrLook, Start
<1>2. CASE CorrSpin
  <2>1. heading' \in 0..359
    <3>1. PICK n \in Slips(Spun * amount) : heading' = (heading + n + 360) % 360
      BY <1>2 DEF CorrSpin
    <3>2. Spun * amount \in Int BY <1>0, FloorAssumption DEF MotionTypeOK
    <3>3. n \in Int /\ heading \in 0..359
      BY <1>0, <3>2, SlipType DEF MotionTypeOK
    <3>4. QED BY <3>1, <3>3, AngleType
  <2>2. MotionTypeOK'
    BY <1>0, <1>2, <2>1, DriveType DEF CorrSpin, AfterMotion, MotionTypeOK, Places
  <2>3. QED BY <1>2, <2>2, OtherStep DEF CorrSpin
<1>3. CASE CorrLookAgain
  <2>1. /\ first' = 0
        /\ UNCHANGED <<agvVars, drive, diff, want, end>>
    BY <1>3 DEF CorrLookAgain
  <2>2. CASE CallQrTurn(180, "corr") /\ amount' = 0
    <3>1. target' \in 0..359
      <4>1. 180 \in 0..359 OBVIOUS
      <4>2. CallQrTurn(180, "corr") BY <2>2
      <4>3. QED BY <4>1, <4>2, CallType
    <3>2. count' \in 0..10 /\ then' \in Follows /\ pc' \in Places
      BY <2>2 DEF CallQrTurn, Follows, Places
    <3>3. MotionTypeOK' BY <1>0, <1>3, <1>b, <2>1, <2>2, <3>1, <3>2 DEF MotionTypeOK
    <3>4. QED BY <2>2, <3>3, CallStep
  <2>3. CASE /\ pc' \in {"exit", "corr look"} /\ (amount' = amount \/ amount' = -1)
             /\ UNCHANGED <<then, target, count>>
    <3>1. pc' \in Places BY <2>3 DEF Places
    <3>2. amount' \in Int
      <4>1. amount \in Int BY <1>0 DEF MotionTypeOK
      <4>2. amount' = amount \/ amount' = -1 BY <2>3
      <4>3. QED BY <4>1, <4>2
    <3>3. MotionTypeOK'
      <4>1. hist' \in Seq(Views) /\ Len(hist') <= Lag BY <1>3, <1>b
      <4>2. UNCHANGED <<agvVars, drive, diff, want, end, then, target, count>>
        BY <2>1, <2>3
      <4>3. first' = 0 BY <2>1
      <4>4. QED BY <1>0, <3>1, <3>2, <4>1, <4>2, <4>3 DEF MotionTypeOK
    <3>4. QED BY <2>3, <3>3, OtherStep
  <2>4. QED BY <1>3, <2>2, <2>3 DEF CorrLookAgain
<1>4. CASE CorrDrive
  <2>1. drive' \in [Side -> {-1, 0, 1}] /\ amount' \in Int /\ pc' \in Places
    <3>1. drive' = Both(1) /\ amount' = 0 /\ pc' = "corr find"
      BY <1>4 DEF CorrDrive, Start
    <3>2. Both(1) \in [Side -> {-1, 0, 1}] BY DriveType
    <3>3. "corr find" \in Places BY DEF Places
    <3>4. drive' \in [Side -> {-1, 0, 1}] BY <3>1, <3>2
    <3>5. amount' \in Int
      <4>1. amount' = 0 BY <3>1
      <4>2. QED BY <4>1
    <3>6. pc' \in Places BY <3>1, <3>3
    <3>7. QED BY <3>4, <3>5, <3>6
  <2>2. MotionTypeOK' BY <1>0, <1>4, <1>b, <2>1 DEF CorrDrive, MotionTypeOK
  <2>3. QED BY <1>4, <2>2, OtherStep DEF CorrDrive, Start
<1>5. CASE CorrFind
  <2>1. pc' \in {"start", "corr find"} /\ drive' \in {drive, Stopped}
        /\ UNCHANGED <<agvVars, qrTurnVars, callVars>>
    BY <1>5 DEF CorrFind, AfterMotion
  <2>2. pc' \in Places /\ drive' \in [Side -> {-1, 0, 1}]
    BY <1>0, <2>1, DriveType DEF MotionTypeOK, Places
  <2>3. MotionTypeOK' BY <1>0, <1>5, <1>b, <2>1, <2>2 DEF MotionTypeOK
  <2>4. QED BY <2>1, <2>3, OtherStep
<1>6. CASE StartTurn90
  <2>1. target' \in 0..359
    <3>1. CallQrTurn(90, "start") BY <1>6 DEF StartTurn90
    <3>2. 90 \in 0..359 OBVIOUS
    <3>3. QED BY <3>1, <3>2, CallType
  <2>2. count' \in 0..10 /\ then' \in Follows /\ pc' \in Places
    BY <1>6 DEF StartTurn90, CallQrTurn, Follows, Places
  <2>3. MotionTypeOK' BY <1>0, <1>6, <2>1, <2>2 DEF StartTurn90, MotionTypeOK
  <2>4. QED BY <1>6, <2>3, CallStep DEF StartTurn90
<1>7. CASE GoHome
  <2>1. Home \in 0..Codes BY FloorAssumption
  <2>2. drive' \in [Side -> {-1, 0, 1}] /\ pc' \in Places
    BY <1>7, DriveType DEF GoHome, CallToQr, Places
  <2>3. MotionTypeOK' BY <1>0, <1>7, <2>1, <2>2 DEF GoHome, CallToQr, MotionTypeOK
  <2>4. QED BY <1>7, <2>3, OtherStep DEF GoHome, CallToQr
<1>8. QED BY <1>1, <1>2, <1>3, <1>4, <1>5, <1>6, <1>7 DEF ClientStart

-----------------------------------------------------------------------------
\* The count of good answers is of answers for the heading the AGV has.
THEOREM MotionInvariant == MotionSpec => []MotionInv
<1>1. MotionInv /\ UNCHANGED motionVars => MotionInv'
  BY DEF MotionInv, MotionTypeOK, Counting, Recent, TurnsTrue, motionVars,
         agvVars, qrTurnVars, callVars
<1>2. MotionInv /\ [MotionNext]_motionVars => MotionInv'
  BY <1>1, QrTurnStep, QrToQrStep, ToQrStep, CommandStep,
     ClientStartStep DEF MotionNext
<1>3. QED BY InitInv, <1>2, PTL DEF MotionSpec

\* The variables of the motions keep their types (command.c:50-278).
THEOREM MotionTypes == MotionSpec => []MotionTypeOK
<1>1. MotionInv => MotionTypeOK BY DEF MotionInv
<1>2. QED BY <1>1, MotionInvariant, PTL

(***************************************************************************)
(* When qr_turn returns, the AGV has the heading it was told, to a degree,  *)
(* although the answers may be late by up to nine requests                  *)
(* (command.c:60-127).                                                      *)
(***************************************************************************)
THEOREM TurnsAreTrue == MotionSpec => []TurnsTrue
<1>1. MotionInv => TurnsTrue BY DEF MotionInv
<1>2. QED BY <1>1, MotionInvariant, PTL

(***************************************************************************)
(* The AGV stands when it acknowledges a command and when it measures its   *)
(* heading (command.c:33, 142, 179, 245, 273; qe.c:151-271;                 *)
(* command_manager.c:196).                                                  *)
(***************************************************************************)
THEOREM AgvStands == MotionSpec => []Stands
<1>1. MotionInit => Stands BY DEF MotionInit, Stands
<1>2. Stands /\ [MotionNext]_motionVars => Stands'
  <2> SUFFICES ASSUME Stands, [MotionNext]_motionVars PROVE Stands'
      OBVIOUS
  <2> USE DEF Stands, AfterMotion, agvVars, qrTurnVars, callVars
  <2>1. CASE InQrTurn
    BY <2>1 DEF InQrTurn, LookFound, Look, LookBlank, Centre, StartTurn, Turn,
                Settle, Start
  <2>2. CASE InQrToQr
    BY <2>2 DEF InQrToQr, Aim, SetOut, Going, Arrive, GoOn, Start, CallQrTurn, Return
  <2>3. CASE InToQr
    BY <2>3 DEF InToQr, Travel, Spot, SpotNot, CallQrTurn
  <2>4. CASE Command
    BY <2>4 DEF Command, Blind, QeGo, QeTurn, QeCir, QrTurn, QrToQr, ToQr, Start,
                CallQrTurn, CallToQr
  <2>5. CASE Turned \/ InnerWheel \/ TurnedBlind
    BY <2>5 DEF Turned, InnerWheel, TurnedBlind, Return
  <2>6. CASE ClientStart
    BY <2>6 DEF ClientStart, CorrLook, CorrSpin, CorrLookAgain, CorrDrive, CorrFind,
                StartTurn90, GoHome, Start, CallQrTurn, CallToQr
  <2>7. CASE UNCHANGED motionVars BY <2>7 DEF motionVars
  <2>8. QED BY <2>1, <2>2, <2>3, <2>4, <2>5, <2>6, <2>7 DEF MotionNext
<1>3. QED BY <1>1, <1>2, PTL DEF MotionSpec

-----------------------------------------------------------------------------
\* What the memory shows is under the AGV or behind it.
Passed == \A i \in 1..Len(hist) : 2 * hist[i].code <= place

LEMMA PlaceGrows ==
  ASSUME MotionTypeOK, [MotionNext]_motionVars
  PROVE  place' \in Int /\ place' >= place
<1> USE DEF agvVars, qrTurnVars, callVars
<1>1. place \in 0..2 * Codes + 1 BY DEF MotionTypeOK
<1>2. \A p \in 0..2 * Codes + 1 :
        Onward(p) \in 0..2 * Codes + 1 /\ Onward(p) >= p
  BY FloorAssumption DEF Onward
<1>3. CASE Going
  <2>1. place' = Onward(place) \/ place' = Onward(Onward(place))
    BY <1>3 DEF Going, Advance
  <2>2. QED BY <1>1, <1>2, <2>1
<1>4. CASE Travel
  <2>1. place' = place + 1 BY <1>4 DEF Travel, Advance
  <2>2. place \in Int BY <1>1, FloorAssumption
  <2>3. QED BY <2>1, <2>2
<1>5. CASE TurnedBlind
  <2>1. place' = Onward(place) \/ place' = place BY <1>5 DEF TurnedBlind, Advance
  <2>2. QED BY <1>1, <1>2, <2>1
<1>6. CASE place' = place BY <1>1, <1>6
<1>7. CASE InQrTurn
  BY <1>6, <1>7 DEF InQrTurn, LookFound, Look, LookBlank, Centre, StartTurn,
                    Turn, Settle
<1>8. CASE Command
  BY <1>6, <1>8 DEF Command, Blind, QeGo, QeTurn, QeCir, QrTurn, QrToQr, ToQr,
                    CallToQr
<1>9. CASE Aim \/ SetOut \/ Arrive \/ GoOn \/ Spot \/ SpotNot \/ Turned \/ InnerWheel
  BY <1>6, <1>9 DEF Aim, SetOut, Arrive, GoOn, Spot, SpotNot, Turned, InnerWheel
<1>10. CASE UNCHANGED motionVars BY <1>6, <1>10 DEF motionVars
<1>11. CASE ClientStart
  BY <1>6, <1>11 DEF ClientStart, CorrLook, CorrSpin, CorrLookAgain, CorrDrive,
                     CorrFind, StartTurn90, GoHome, CallToQr
<1>12. QED
  BY <1>3, <1>4, <1>5, <1>7, <1>8, <1>9, <1>10, <1>11 DEF MotionNext, InQrToQr, InToQr

LEMMA MemoryStep ==
  ASSUME [MotionNext]_motionVars
  PROVE  hist' = hist \/ hist' = Remembered
<1> USE DEF agvVars, qrTurnVars, callVars
<1>1. CASE InQrTurn
  BY <1>1 DEF InQrTurn, LookFound, Look, LookBlank, Centre, StartTurn, Turn, Settle
<1>2. CASE InQrToQr
  BY <1>2 DEF InQrToQr, Aim, SetOut, Going, Arrive, GoOn
<1>3. CASE InToQr BY <1>3 DEF InToQr, Travel, Spot, SpotNot
<1>4. CASE Command
  BY <1>4 DEF Command, Blind, QeGo, QeTurn, QeCir, QrTurn, QrToQr, ToQr,
                    CallToQr
<1>5. CASE Turned \/ InnerWheel \/ TurnedBlind
  BY <1>5 DEF Turned, InnerWheel, TurnedBlind
<1>6. CASE ClientStart
  BY <1>6 DEF ClientStart, CorrLook, CorrSpin, CorrLookAgain, CorrDrive, CorrFind,
              StartTurn90, GoHome, CallToQr
<1>7. CASE UNCHANGED motionVars BY <1>7 DEF motionVars
<1>8. QED BY <1>1, <1>2, <1>3, <1>4, <1>5, <1>6, <1>7 DEF MotionNext

LEMMA UnderIs == ASSUME MotionTypeOK PROVE 2 * View.code <= place
<1>1. place \in Nat BY FloorAssumption DEF MotionTypeOK
<1>2. 2 * CodeAt(place) <= place BY <1>1 DEF CodeAt
<1>3. View.code = CodeAt(place) \/ View.code = 0 BY DEF View
<1>4. QED BY <1>1, <1>2, <1>3

LEMMA PassedStep == MotionTypeOK /\ Passed /\ [MotionNext]_motionVars => Passed'
<1> SUFFICES ASSUME MotionTypeOK, Passed, [MotionNext]_motionVars PROVE Passed'
    OBVIOUS
<1>1. place \in Int /\ place' \in Int /\ place' >= place
  BY PlaceGrows DEF MotionTypeOK
<1>2. \A i \in 1..Len(hist) : hist[i].code \in Int
  <2>1. \A i \in 1..Len(hist) : hist[i] \in Views BY DEF MotionTypeOK
  <2>2. \A v \in Views : v.code \in Int BY FloorAssumption DEF Views
  <2>3. QED BY <2>1, <2>2
<1>3. CASE hist' = hist BY <1>1, <1>2, <1>3 DEF Passed
<1>4. CASE hist' = Remembered
  <2>1. /\ Len(hist') <= Len(hist) + 1 /\ Len(hist) \in Nat /\ Len(hist') \in Nat
        /\ \A i \in 1..Len(hist') : hist'[i] = IF i = 1 THEN View ELSE hist[i - 1]
    BY <1>4, ViewType, RememberedIs, MemoryType, LagAssumption DEF MotionTypeOK
  <2>2. View.code \in Int BY ViewType DEF Views
  <2>3. SUFFICES ASSUME NEW i \in 1..Len(hist') PROVE 2 * hist'[i].code <= place'
    BY DEF Passed
  <2>4. CASE i = 1 BY <1>1, <2>1, <2>2, <2>4, UnderIs
  <2>5. CASE i # 1
    <3>1. i - 1 \in 1..Len(hist) /\ hist'[i] = hist[i - 1] BY <2>1, <2>5
    <3>2. 2 * hist[i - 1].code <= place BY <3>1 DEF Passed
    <3>3. QED BY <1>1, <1>2, <3>1, <3>2
  <2>6. QED BY <2>4, <2>5
<1>5. QED BY <1>3, <1>4, MemoryStep

(***************************************************************************)
(* to_qr stops at the code it was told or beyond it, never before, also by  *)
(* an answer to an earlier request (command.c:253-273).                     *)
(***************************************************************************)
THEOREM ToQrStopsInTime == MotionSpec => StopsAtItsCode
<1>1. MotionInit => Passed
  <2>1. hist = <<>> => 1..Len(hist) = {} OBVIOUS
  <2>2. QED BY <2>1 DEF MotionInit, Passed
<1>2. MotionTypeOK /\ Passed /\ [MotionNext]_motionVars
        => [pc = "seek" /\ pc' # "seek" => place >= 2 * want]_motionVars
  <2> SUFFICES ASSUME MotionTypeOK, Passed, MotionNext, pc = "seek", pc' # "seek"
               PROVE  place >= 2 * want
      OBVIOUS
  <2>1. Spot
    BY DEF MotionNext, InQrTurn, LookFound, Look, LookBlank, Centre, StartTurn,
           Turn, Settle, InQrToQr, Aim, SetOut, Going, Arrive, GoOn, InToQr, Travel,
           SpotNot, Command, Blind, QeGo, QeTurn, QeCir, QrTurn, QrToQr, ToQr,
           Turned, InnerWheel, TurnedBlind, ClientStart, CorrLook, CorrSpin,
           CorrLookAgain, CorrDrive, CorrFind, StartTurn90, GoHome
  <2>2. PICK v \in Found : v.code = want BY <2>1 DEF Spot, Sought
  <2>3. 2 * v.code <= place
    <3>1. CASE v = View BY <3>1, UnderIs
    <3>2. CASE v # View BY <2>2, <3>2 DEF Found, Seen, Passed, MotionTypeOK
    <3>3. QED BY <3>1, <3>2
  <2>4. place \in Int /\ v.code \in Int
    BY <2>2, FloorAssumption DEF MotionTypeOK
  <2>5. QED BY <2>2, <2>3, <2>4
<1>3. QED
  BY <1>1, <1>2, PassedStep, MotionTypes, PTL DEF MotionSpec, StopsAtItsCode

-----------------------------------------------------------------------------
\* What an answer may show is in the image, and if it is the code under the
\* camera, the way it asks for does not lead out of the image; while the wheels
\* go such a way, the one answer remembered was made where they set out.
CodeKept ==
  /\ \A k \in 1..Len(hist) : hist[k].code # 0 =>
       /\ hist[k].y \in -120..120
       /\ hist[k].code = CodeAt(place) =>
            IF pc = "centre" THEN dy = hist[k].y
            ELSE InImage => Magnitude(dy - Shift(Halfway(hist[k].y))) <= 120
  /\ pc = "centre" => Shift(amount) \in -60..60

\* Half of the way to the middle is towards it and no more than half.
LEMMA ShiftHalf ==
  ASSUME NEW y \in -120..120
  PROVE  /\ Shift(Halfway(y)) \in -60..60
         /\ y >= 0 => Shift(Halfway(y)) >= 0
         /\ y <= 0 => Shift(Halfway(y)) <= 0
<1>1. \A h \in 0..18 : Shift(h) \in 0..60
  <2>1. \A h \in 0..18 : Shift(h) = (10 * h) \div 3 BY DEF Shift, Truncate
  <2>2. \A h \in 0..18 : (10 * h) \div 3 \in 0..60 OBVIOUS
  <2>3. QED BY <2>1, <2>2
<1>2. \A h \in -18..-1 : Shift(h) \in -60..0
  <2>1. \A h \in -18..-1 : Shift(h) = -((-(10 * h)) \div 3) BY DEF Shift, Truncate
  <2>2. \A h \in -18..-1 : (-(10 * h)) \div 3 \in 0..60 OBVIOUS
  <2>3. QED BY <2>1, <2>2
<1>3. CASE y > 0
  <2>1. 3 * y \in 0..360 /\ Halfway(y) = (3 * y) \div 20
    BY <1>3 DEF Halfway, Truncate
  <2>2. Halfway(y) \in 0..18 BY <2>1
  <2>3. QED BY <1>1, <1>3, <2>2
<1>4. CASE y = 0
  <2>1. Halfway(0) = 0 /\ Shift(0) = 0 BY DEF Halfway, Shift, Truncate
  <2>2. QED BY <1>4, <2>1
<1>5. CASE y < 0
  <2>1. -(3 * y) \in 0..360 /\ Halfway(y) = -((-(3 * y)) \div 20)
    BY <1>5 DEF Halfway, Truncate
  <2>2. Halfway(y) = 0 \/ Halfway(y) \in -18..-1 BY <2>1
  <2>3. Shift(0) = 0 BY DEF Shift, Truncate
  <2>4. QED BY <1>2, <1>5, <2>2, <2>3
<1>6. QED BY <1>3, <1>4, <1>5

LEMMA StaysInside ==
  \A x \in -120..120, n \in -60..60 :
    (x >= 0 => n >= 0) /\ (x <= 0 => n <= 0) => Magnitude(x - n) <= 120
  BY DEF Magnitude

LEMMA OneRemembered ==
  ASSUME MotionTypeOK, Lag <= 1, hist' = Remembered
  PROVE  \A k \in 1..Len(hist') : hist'[k] = View
<1>1. /\ Len(hist') <= Lag /\ Len(hist') \in Nat
      /\ \A k \in 1..Len(hist') : hist'[k] = IF k = 1 THEN View ELSE hist[k - 1]
  BY ViewType, RememberedIs, MemoryType, LagAssumption DEF MotionTypeOK
<1>2. \A k \in 1..Len(hist') : k = 1 BY <1>1, LagAssumption
<1>3. QED BY <1>1, <1>2

LEMMA ViewInImage ==
  ASSUME MotionTypeOK, View.code # 0
  PROVE  View.y = dy /\ dy \in -120..120
  BY DEF MotionTypeOK, View, InImage, Magnitude

\* A request that moves nothing
LEMMA KeptByRequest ==
  ASSUME MotionTypeOK, Lag <= 1, hist' = Remembered, UNCHANGED <<place, dy>>,
         pc' # "centre"
  PROVE  CodeKept'
<1>1. SUFFICES ASSUME NEW k \in 1..Len(hist'), hist'[k].code # 0
               PROVE  /\ hist'[k].y \in -120..120
                      /\ InImage' => Magnitude(dy' - Shift(Halfway(hist'[k].y))) <= 120
  BY DEF CodeKept
<1>2. View.code # 0 /\ hist'[k].y = dy /\ dy \in -120..120
  BY <1>1, OneRemembered, ViewInImage
<1>3. /\ Shift(Halfway(dy)) \in -60..60
      /\ dy >= 0 => Shift(Halfway(dy)) >= 0
      /\ dy <= 0 => Shift(Halfway(dy)) <= 0
  BY <1>2, ShiftHalf
<1>4. QED BY <1>2, <1>3, StaysInside

\* A step that neither asks nor moves
LEMMA KeptAtRest ==
  ASSUME CodeKept, UNCHANGED <<hist, place, dy>>, pc # "centre", pc' # "centre"
  PROVE  CodeKept'
  BY DEF CodeKept, InImage, Magnitude

\* A step onwards: what is remembered is behind
LEMMA KeptOnwards ==
  ASSUME MotionTypeOK, Passed, CodeKept, hist' = hist, pc' # "centre",
         place' \in Int, place' > place \/ place' = 2 * Codes + 1
  PROVE  CodeKept'
<1>1. SUFFICES ASSUME NEW k \in 1..Len(hist), hist[k].code # 0
               PROVE  hist[k].y \in -120..120 /\ hist[k].code # CodeAt(place')
  BY DEF CodeKept
<1>2. hist[k].y \in -120..120 BY <1>1 DEF CodeKept
<1>3. hist[k].code \in Nat /\ place \in Nat /\ 2 * hist[k].code <= place
  <2>1. hist[k] \in Views BY <1>1 DEF MotionTypeOK
  <2>2. QED BY <1>1, <2>1, FloorAssumption DEF Views, Passed, MotionTypeOK
<1>4. CASE place' > place
  <2>1. CASE place' % 2 = 0
    <3>1. CodeAt(place') = place' \div 2 BY <2>1 DEF CodeAt
    <3>2. \A n \in Nat : n % 2 = 0 => n \div 2 \in Nat /\ 2 * (n \div 2) = n
      OBVIOUS
    <3>3. place' \in Nat BY <1>3, <1>4
    <3>4. CodeAt(place') \in Nat /\ 2 * CodeAt(place') = place'
      BY <2>1, <3>1, <3>2, <3>3
    <3>5. hist[k].code # CodeAt(place') BY <1>3, <1>4, <3>4
    <3>6. QED BY <1>2, <3>5
  <2>2. CASE place' % 2 # 0 BY <1>1, <1>2, <2>2 DEF CodeAt
  <2>3. QED BY <2>1, <2>2
<1>5. CASE place' = 2 * Codes + 1
  <2>1. (2 * Codes + 1) % 2 = 1 BY FloorAssumption
  <2>2. QED BY <1>1, <1>2, <1>5, <2>1 DEF CodeAt
<1>6. QED BY <1>4, <1>5

\* What an answer may show, by the code it shows
LEMMA FoundIs ==
  ASSUME MotionTypeOK, CodeKept, NEW v \in Found
  PROVE  /\ v.y \in -120..120
         /\ \/ v.y = dy /\ dy \in -120..120
            \/ \E k \in 1..Len(hist) : v = hist[k]
<1>1. v = View \/ \E k \in 1..Len(hist) : v = hist[k]
  BY DEF Found, Seen, MotionTypeOK
<1>2. v.code # 0 BY DEF Found
<1>3. CASE v = View BY <1>2, <1>3, ViewInImage
<1>4. CASE \E k \in 1..Len(hist) : v = hist[k]
  BY <1>2, <1>4 DEF CodeKept
<1>5. QED BY <1>1, <1>3, <1>4

LEMMA KeptByLook ==
  ASSUME MotionTypeOK, Lag <= 1, CodeKept, NEW v \in Found, Look(v)
  PROVE  CodeKept'
<1>1. hist' = Remembered /\ UNCHANGED <<place, dy>> BY DEF Look, agvVars
<1>2. CASE pc' # "centre" BY <1>1, <1>2, KeptByRequest
<1>3. CASE pc' = "centre"
  <2>1. amount' = Halfway(v.y) BY <1>3 DEF Look, Start
  <2>2. Shift(amount') \in -60..60 BY <2>1, FoundIs, ShiftHalf
  <2>3. ASSUME NEW k \in 1..Len(hist'), hist'[k].code # 0
        PROVE  hist'[k].y \in -120..120 /\ dy' = hist'[k].y
    BY <1>1, <2>3, OneRemembered, ViewInImage
  <2>4. QED BY <1>3, <2>2, <2>3 DEF CodeKept
<1>4. QED BY <1>2, <1>3

LEMMA KeptByCentre ==
  ASSUME MotionTypeOK, CodeKept, Centre
  PROVE  CodeKept'
<1>1. /\ hist' = hist /\ place' = place /\ pc = "centre" /\ pc' = "decide"
      /\ dy' = dy - Shift(amount) /\ Shift(amount) \in -60..60
  BY DEF Centre, CodeKept
<1>2. SUFFICES ASSUME NEW k \in 1..Len(hist), hist[k].code # 0
               PROVE  /\ hist[k].y \in -120..120
                      /\ hist[k].code = CodeAt(place) /\ InImage'
                           => Magnitude(dy' - Shift(Halfway(hist[k].y))) <= 120
  BY <1>1 DEF CodeKept
<1>3. hist[k].y \in -120..120 BY <1>2 DEF CodeKept
<1>4. ASSUME hist[k].code = CodeAt(place), InImage'
      PROVE  Magnitude(dy' - Shift(Halfway(hist[k].y))) <= 120
  <2> DEFINE s == Shift(Halfway(hist[k].y))
  <2>1. dy \in -120..120 /\ s \in -60..60
        /\ (dy >= 0 => s >= 0) /\ (dy <= 0 => s <= 0)
    BY <1>1, <1>2, <1>3, <1>4, ShiftHalf DEF CodeKept
  <2>2. dy' \in -120..120
    <3>1. dy' \in Int BY <1>1, <2>1
    <3>2. Magnitude(dy') <= 120 BY <1>4 DEF InImage
    <3>3. \A x \in Int : Magnitude(x) <= 120 => x \in -120..120 BY DEF Magnitude
    <3>4. QED BY <3>1, <3>2, <3>3
  <2>3. \A x \in -120..120, n, m \in -60..60 :
          /\ x >= 0 => n >= 0
          /\ x <= 0 => n <= 0
          /\ x - m \in -120..120
          => Magnitude((x - m) - n) <= 120
    BY DEF Magnitude
  <2> HIDE DEF s
  <2>4. Magnitude((dy - Shift(amount)) - s) <= 120 BY <1>1, <2>1, <2>2, <2>3
  <2>5. QED BY <1>1, <2>4 DEF s
<1>5. QED BY <1>3, <1>4

\* Each step is of one of these kinds.
LEMMA StepKinds ==
  ASSUME MotionTypeOK, MotionNext
  PROVE  \/ Centre \/ LookFound
         \/ /\ pc # "centre" /\ pc' # "centre"
            /\ \/ hist' \in {hist, Remembered} /\ UNCHANGED <<place, dy>>
               \/ /\ hist' = hist
                  /\ place' \in Int
                  /\ place' > place \/ place' = 2 * Codes + 1
<1> USE DEF agvVars, qrTurnVars, callVars
<1>1. CASE InQrTurn
  BY <1>1 DEF InQrTurn, LookBlank, StartTurn, Turn, Settle, Start
<1>2. CASE InQrToQr
  <2>1. CASE Going
    <3>1. \A p \in 0..2 * Codes + 1 :
            Onward(p) \in 0..2 * Codes + 1 /\ (Onward(p) > p \/ Onward(p) = 2 * Codes + 1)
      BY FloorAssumption DEF Onward
    <3>2. place \in 0..2 * Codes + 1 BY DEF MotionTypeOK
    <3>3. \A p \in {Onward(place), Onward(Onward(place))} :
            p \in Int /\ (p > place \/ p = 2 * Codes + 1)
      BY <3>1, <3>2, FloorAssumption
    <3>4. hist' = hist /\ pc = "going" /\ pc' \in {"arrive", "idle"} BY <2>1 DEF Going
    <3>5. place' \in {Onward(place), Onward(Onward(place))} BY <2>1 DEF Going, Advance
    <3>6. QED BY <3>3, <3>4, <3>5
  <2>2. QED BY <1>2, <2>1 DEF InQrToQr, Aim, SetOut, Arrive, GoOn, Start, Return, CallQrTurn
<1>3. CASE InToQr
  <2>1. CASE Travel
    <3>0. place \in Int BY FloorAssumption DEF MotionTypeOK
    <3>1. place' \in Int /\ place' > place
      <4>1. place' = place + 1 BY <2>1 DEF Travel, Advance
      <4>2. QED BY <3>0, <4>1
    <3>2. hist' = hist /\ pc \in {"seek", "corr find"} /\ pc' = pc BY <2>1 DEF Travel
    <3>3. QED BY <3>1, <3>2
  <2>2. QED BY <1>3, <2>1 DEF InToQr, Spot, SpotNot, CallQrTurn
<1>4. CASE Command
  BY <1>4 DEF Command, Blind, QeGo, QeTurn, QeCir, QrTurn, QrToQr, ToQr, CallToQr,
              Start, CallQrTurn
<1>5. CASE Turned \/ InnerWheel BY <1>5 DEF Turned, InnerWheel, Return
<1>6. CASE TurnedBlind
  <2>1. hist' = hist /\ pc' = "idle" /\ pc \in {"blind turn", "circle"}
    BY <1>6 DEF TurnedBlind, Return
  <2>2. CASE pc = "circle"
    <3>1. place' = Onward(place) BY <1>6, <2>2 DEF TurnedBlind, Advance
    <3>2. place \in 0..2 * Codes + 1 BY DEF MotionTypeOK
    <3>3. QED BY <2>1, <2>2, <3>1, <3>2, FloorAssumption DEF Onward
  <2>3. CASE pc # "circle"
    BY <1>6, <2>1, <2>3 DEF TurnedBlind
  <2>4. QED BY <2>2, <2>3
<1>7. CASE ClientStart
  BY <1>7 DEF ClientStart, CorrLook, CorrSpin, CorrLookAgain, CorrDrive, CorrFind,
              StartTurn90, GoHome, CallToQr, Start, CallQrTurn
<1>8. QED BY <1>1, <1>2, <1>3, <1>4, <1>5, <1>6, <1>7 DEF MotionNext

LEMMA CodeKeptStep ==
  ASSUME Lag <= 1
  PROVE  MotionTypeOK /\ Passed /\ CodeKept /\ [MotionNext]_motionVars => CodeKept'
<1> SUFFICES ASSUME MotionTypeOK, Passed, CodeKept, [MotionNext]_motionVars
             PROVE  CodeKept'
    OBVIOUS
<1>1. CASE UNCHANGED motionVars
  BY <1>1 DEF CodeKept, InImage, Magnitude, motionVars, agvVars, qrTurnVars, Shift,
              Truncate, CodeAt
<1>2. CASE MotionNext
  <2>1. CASE Centre BY <2>1, KeptByCentre
  <2>2. CASE LookFound BY <2>2, KeptByLook DEF LookFound
  <2>3. CASE ~Centre /\ ~LookFound
    BY <1>2, <2>3, StepKinds, KeptByRequest, KeptAtRest, KeptOnwards
  <2>4. QED BY <2>1, <2>2, <2>3
<1>3. QED BY <1>1, <1>2

(***************************************************************************)
(* An answer about the code under the camera, late by one request at most,  *)
(* never leads that code out of the image, wherever in the image the AGV    *)
(* arrived at it (command.c:66-104).                                        *)
(***************************************************************************)
THEOREM CodeStaysInView ==
  ASSUME Lag <= 1
  PROVE  MotionSpec => []KeepsInView
<1>1. MotionInit => Passed /\ CodeKept
  <2>1. hist = <<>> => 1..Len(hist) = {} OBVIOUS
  <2>2. QED BY <2>1 DEF MotionInit, Passed, CodeKept
<1>2. MotionTypeOK /\ Passed /\ CodeKept /\ [MotionNext]_motionVars
        => (Passed /\ CodeKept)'
  BY PassedStep, CodeKeptStep
<1>3. MotionTypeOK /\ CodeKept => KeepsInView
  <2> SUFFICES ASSUME MotionTypeOK, CodeKept, pc = "look", InImage,
                      NEW v \in Found, v.code = CodeAt(place)
               PROVE  Magnitude(dy - Shift(Halfway(v.y))) <= 120
      BY DEF KeepsInView
  <2>1. v.code # 0 BY DEF Found
  <2>2. CASE v.y = dy /\ dy \in -120..120
    <3>1. /\ Shift(Halfway(dy)) \in -60..60
          /\ dy >= 0 => Shift(Halfway(dy)) >= 0
          /\ dy <= 0 => Shift(Halfway(dy)) <= 0
      BY <2>2, ShiftHalf
    <3>2. QED BY <2>2, <3>1, StaysInside
  <2>3. CASE \E k \in 1..Len(hist) : v = hist[k]
    BY <2>1, <2>3 DEF CodeKept
  <2>4. QED BY <2>2, <2>3, FoundIs
<1>4. QED BY <1>1, <1>2, <1>3, MotionTypes, PTL DEF MotionSpec
=============================================================================
