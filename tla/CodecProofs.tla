------------------------------ MODULE CodecProofs ------------------------------
(***************************************************************************)
(* An AGV executes what the server meant, for every instruction that fits   *)
(* into its frames.                                                         *)
(***************************************************************************)
EXTENDS Codec, TLAPS

-----------------------------------------------------------------------------
\* What of a value fits into a frame
Low(v) == v % 1024

\* The decoder takes a frame apart as the encoder put it together.
LEMMA Unpack ==
  \A p \in 0..3 : \A c \in 0..15 : \A v \in Int :
    /\ command_dcode(command_ecode(p, c, v)).pf = p
    /\ command_dcode(command_ecode(p, c, v)).op = c
    /\ command_dcode(command_ecode(p, c, v)).val = Low(v)
<1> TAKE p \in 0..3, c \in 0..15, v \in Int
<1> DEFINE w == v % 1024
           d == p * 16384 + c * 1024 + w
<1>1. w \in 0..1023 OBVIOUS
<1>2. p % 4 = p /\ c % 16 = c OBVIOUS
<1>3. command_ecode(p, c, v) = d BY <1>2 DEF command_ecode
<1> HIDE DEF w
<1>4. d \div 16384 = p BY <1>1
<1>5. d \div 1024 = p * 16 + c BY <1>1
<1>6. (p * 16 + c) % 16 = c OBVIOUS
<1>7. d % 1024 = w BY <1>1
<1> HIDE DEF d
<1>8. QED BY <1>2, <1>3, <1>4, <1>5, <1>6, <1>7 DEF command_dcode, w, Low

Names == {"SET_ID", "QR_TURN", "MOS_TURN", "MOS_GO", "MOS_CIR", "TO_QR"}

LEMMA OpCodes == \A n \in Names : OpCode[n] \in 0..15 /\ OpName(OpCode[n]) = n
<1>1. \A n \in Names : n \in DOMAIN OpCode /\ OpCode[n] \in 0..15
  BY DEF Names, OpCode
<1>2. \A n \in Names, m \in DOMAIN OpCode : OpCode[m] = OpCode[n] => m = n
  BY DEF Names, OpCode
<1>3. QED BY <1>1, <1>2 DEF OpName

\* A number of k bits comes back from the ten bits of a value with its sign.
LEMMA SignReturns ==
  /\ \A n \in -512..511 : SignExtend(n % 1024, 10) = n
  /\ \A n \in -256..255, s \in {0, 1} :
       /\ (s * 512 + (n % 512)) % 1024 = s * 512 + (n % 512)
       /\ ((s * 512 + (n % 512)) \div 512) % 2 = s
       /\ SignExtend(s * 512 + (n % 512), 9) = n
<1>1. 10 - 1 = 9 /\ 9 - 1 = 8 OBVIOUS
<1>2. 2^8 = 256 /\ 2^9 = 512 /\ 2^10 = 1024 OBVIOUS
<1>3. \A x : /\ SignExtend(x, 10) = ((x + 512) % 1024) - 512
             /\ SignExtend(x, 9) = ((x + 256) % 512) - 256
  BY <1>1, <1>2 DEF SignExtend
<1>4. \A n \in -512..511 : (((n % 1024) + 512) % 1024) - 512 = n
  OBVIOUS
<1>5. \A n \in -256..255 : n % 512 \in 0..511 /\ (((n % 512) + 256) % 512) - 256 = n
  OBVIOUS
<1>6. \A m \in 0..511 : /\ (512 + m) % 1024 = 512 + m /\ m % 1024 = m
                        /\ (512 + m) \div 512 = 1 /\ m \div 512 = 0
                        /\ (512 + m + 256) % 512 = (m + 256) % 512
  OBVIOUS
<1>7. QED BY <1>3, <1>4, <1>5, <1>6

-----------------------------------------------------------------------------
Frames == FramesOf(intent)
Received == Len(Frames) - Len(wire)

\* What the locals hold after k frames.  Those of a command of one frame hold
\* nothing before it; that an id below 255 has no upper bits makes the first
\* frame of TO_QR add nothing.
Gathered(k) ==
  /\ intent.op = "MOS_CIR" =>
       (k >= 1 => locals.side = intent.side /\ locals.angle = intent.angle)
  /\ intent.op = "TO_QR" =>
       /\ locals.id = IF k < 2 THEN 0 ELSE intent.id
       /\ k >= 3 => locals.end_angle = intent.end_angle

CodecInv ==
  /\ intent \in Emittable
  /\ wire \in Seq(Int) /\ Len(wire) <= Len(Frames)
  /\ \A j \in 1..Len(wire) : wire[j] = Frames[Received + j]
  /\ op = IF Received = 0 THEN "none" ELSE intent.op
  /\ locals \in [Locals -> Int]
  /\ Gathered(Received)
  /\ executed = IF wire = <<>> THEN intent ELSE Nothing

\* A command has as many frames as its receiver waits for.
LEMMA FramesAre ==
  ASSUME intent \in Emittable
  PROVE  /\ intent.op \in Names /\ intent.op # "none"
         /\ Frames \in Seq(Int)
         /\ Len(Frames) = PartsOf(intent.op) /\ Len(Frames) >= 1
<1>1. \A p, n, v \in Int : command_ecode(p, n, v) \in Int
  BY DEF command_ecode
<1>2. \A n \in Names : OpCode[n] \in Int BY OpCodes
<1>3. \A p, v \in Int, n \in Names : Frame(p, n, v) \in Int
  BY <1>1, <1>2 DEF Frame
<1>4. ASSUME NEW v \in Int, intent.op \in Names, Frames = <<Frame(0, intent.op, v)>>,
             PartsOf(intent.op) = 1
      PROVE  Frames \in Seq(Int) /\ Len(Frames) = PartsOf(intent.op) /\ Len(Frames) >= 1
  BY <1>3, <1>4
<1>5. CASE intent \in [op : {"SET_ID"}, val : 0..255]
  <2>1. intent.op = "SET_ID" /\ intent.val \in Int BY <1>5
  <2>2. Frames = <<Frame(0, intent.op, intent.val)>> /\ PartsOf(intent.op) = 1
    BY <2>1 DEF Frames, FramesOf, PartsOf
  <2>3. QED BY <1>4, <2>1, <2>2 DEF Names
<1>6. CASE intent \in [op : {"QR_TURN"}, angle : 0..359]
  <2>1. intent.op = "QR_TURN" /\ intent.angle \in Int BY <1>6
  <2>2. Frames = <<Frame(0, intent.op, intent.angle)>> /\ PartsOf(intent.op) = 1
    BY <2>1 DEF Frames, FramesOf, PartsOf
  <2>3. QED BY <1>4, <2>1, <2>2 DEF Names
<1>7. CASE intent \in [op : {"MOS_TURN"}, angle : -512..511]
  <2>1. intent.op = "MOS_TURN" /\ intent.angle \in Int BY <1>7
  <2>2. Frames = <<Frame(0, intent.op, intent.angle)>> /\ PartsOf(intent.op) = 1
    BY <2>1 DEF Frames, FramesOf, PartsOf
  <2>3. QED BY <1>4, <2>1, <2>2 DEF Names
<1>8. CASE intent \in [op : {"MOS_GO"}, distance : 0..1023]
  <2>1. intent.op = "MOS_GO" /\ intent.distance \in Int BY <1>8
  <2>2. Frames = <<Frame(0, intent.op, intent.distance)>> /\ PartsOf(intent.op) = 1
    BY <2>1 DEF Frames, FramesOf, PartsOf
  <2>3. QED BY <1>4, <2>1, <2>2 DEF Names
<1>a. \A n \in Names, x, y \in Int :
        /\ <<Frame(0, n, x), Frame(1, n, y)>> \in Seq(Int)
        /\ Len(<<Frame(0, n, x), Frame(1, n, y)>>) = 2
  BY <1>3
<1>b. \A n \in Names, x, y, z, w \in Int :
        /\ <<Frame(0, n, x), Frame(1, n, y), Frame(2, n, z), Frame(3, n, w)>> \in Seq(Int)
        /\ Len(<<Frame(0, n, x), Frame(1, n, y), Frame(2, n, z), Frame(3, n, w)>>) = 4
  BY <1>3
<1>9. CASE intent \in [op : {"MOS_CIR"}, side : {0, 1}, angle : -256..255, r : 0..1023]
  <2> DEFINE x == intent.side * 512 + (intent.angle % 512)
             y == intent.r % 1024
  <2>1. intent.op = "MOS_CIR" /\ x \in Int /\ y \in Int /\ "MOS_CIR" \in Names
    BY <1>9 DEF Names
  <2>2. Frames = << Frame(0, "MOS_CIR", x), Frame(1, "MOS_CIR", y) >>
        /\ PartsOf(intent.op) = 2
    BY <2>1 DEF Frames, FramesOf, PartsOf
  <2> HIDE DEF x, y
  <2>3. QED BY <1>a, <2>1, <2>2
<1>10. CASE intent \in [op : {"TO_QR"}, id : 0..254, end_angle : 0..359, distance : 0..1023]
  <2> DEFINE x == intent.id \div 256
             y == intent.id % 255
  <2>1. /\ intent.op = "TO_QR" /\ intent.end_angle \in Int /\ intent.distance \in Int
        /\ x \in Int /\ y \in Int /\ "TO_QR" \in Names
    BY <1>10 DEF Names
  <2>2. /\ Frames = << Frame(0, "TO_QR", x), Frame(1, "TO_QR", y),
                       Frame(2, "TO_QR", intent.end_angle),
                       Frame(3, "TO_QR", intent.distance) >>
        /\ PartsOf(intent.op) = 4
    BY <2>1 DEF Frames, FramesOf, PartsOf
  <2>3. /\ << Frame(0, "TO_QR", x), Frame(1, "TO_QR", y),
              Frame(2, "TO_QR", intent.end_angle),
              Frame(3, "TO_QR", intent.distance) >> \in Seq(Int)
        /\ Len(<< Frame(0, "TO_QR", x), Frame(1, "TO_QR", y),
                  Frame(2, "TO_QR", intent.end_angle),
                  Frame(3, "TO_QR", intent.distance) >>) = 4
    BY <1>b, <2>1, Zenon
  <2> HIDE DEF x, y
  <2>4. PartsOf(intent.op) = 4 BY <2>2
  <2>5. Frames \in Seq(Int) /\ Len(Frames) = 4 BY <2>2, <2>3, Zenon
  <2>6. QED BY <2>1, <2>4, <2>5
<1>11. intent.op \in Names /\ intent.op # "none" BY DEF Emittable, Names
<1>12. QED BY <1>5, <1>6, <1>7, <1>8, <1>9, <1>10, <1>11 DEF Emittable

\* One frame is taken off the wire ...
LEMMA Taken ==
  ASSUME CodecInv, Receive
  PROVE  /\ Received \in 0..(Len(Frames) - 1) /\ Received' = Received + 1
         /\ Head(wire) = Frames[Received + 1]
         /\ wire' \in Seq(Int) /\ Len(wire') <= Len(Frames')
         /\ \A j \in 1..Len(wire') : wire'[j] = Frames'[Received' + j]
         /\ wire' = <<>> <=> Received' = Len(Frames)
         /\ intent' = intent /\ Frames' = Frames
<1>1. /\ wire \in Seq(Int) /\ wire # <<>> /\ wire' = Tail(wire) /\ intent' = intent
      /\ Len(wire) <= Len(Frames) /\ Frames \in Seq(Int)
      /\ \A j \in 1..Len(wire) : wire[j] = Frames[Received + j]
  BY FramesAre DEF CodecInv, Receive
<1>2. Frames' = Frames BY <1>1 DEF Frames
<1>3. /\ Len(wire) \in Nat /\ Len(wire) >= 1 /\ Head(wire) = wire[1]
      /\ Len(wire') = Len(wire) - 1 /\ wire' \in Seq(Int)
      /\ \A j \in 1..Len(wire') : wire'[j] = wire[j + 1]
  BY <1>1
<1>4. Received = Len(Frames) - Len(wire) /\ Received' = Len(Frames) - Len(wire')
  BY <1>2 DEF Received
<1>5. Len(Frames) \in Nat BY <1>1
<1>6. \A j \in 1..Len(wire') : wire'[j] = Frames[Received' + j]
  <2> SUFFICES ASSUME NEW j \in 1..Len(wire')
               PROVE  wire'[j] = Frames[Received' + j]
      OBVIOUS
  <2>1. j + 1 \in 1..Len(wire) /\ Received + (j + 1) = Received' + j
    BY <1>3, <1>4, <1>5
  <2>2. QED BY <1>1, <1>3, <2>1
<1>7. wire' = <<>> <=> Len(wire') = 0 BY <1>3
<1>8. /\ Received \in 0..(Len(Frames) - 1) /\ Received' = Received + 1
      /\ Len(wire') <= Len(Frames)
      /\ Len(wire') = 0 <=> Received' = Len(Frames)
  <2> DEFINE n == Len(Frames)
             w == Len(wire)
             x == Len(wire')
  <2>1. n \in Nat /\ w \in Nat /\ w >= 1 /\ w <= n /\ x = w - 1
    BY <1>1, <1>3, <1>5
  <2>2. Received = n - w /\ Received' = n - x BY <1>4
  <2> HIDE DEF n, w, x
  <2>3. /\ Received \in 0..(n - 1) /\ Received' = Received + 1
        /\ x <= n /\ (x = 0 <=> Received' = n)
    BY <2>1, <2>2
  <2>4. QED BY <2>3 DEF n, x
<1>9. Head(wire) = Frames[Received + 1] BY <1>1, <1>3
<1>10. QED BY <1>1, <1>2, <1>3, <1>6, <1>7, <1>8, <1>9

\* ... decoded, stored, and executed if it is the last.
LEMMA Decoded ==
  ASSUME CodecInv, Receive, NEW p \in 0..3, NEW v \in Int,
         Frames[Received + 1] = Frame(p, intent.op, v)
  PROVE  /\ op' = intent.op
         /\ locals' = Store(locals, intent.op, p, Low(v))
         /\ executed' = IF Received' = Len(Frames) THEN Call(intent.op, locals')
                        ELSE Nothing
<1>1. intent.op \in Names /\ intent.op # "none" /\ Len(Frames) = PartsOf(intent.op)
  BY FramesAre DEF CodecInv
<1>2. OpCode[intent.op] \in 0..15 /\ OpName(OpCode[intent.op]) = intent.op
  BY <1>1, OpCodes
<1>3. Head(wire) = command_ecode(p, OpCode[intent.op], v) BY Taken DEF Frame
<1>4. /\ command_dcode(Head(wire)).pf = p
      /\ command_dcode(Head(wire)).op = OpCode[intent.op]
      /\ command_dcode(Head(wire)).val = Low(v)
  <2> DEFINE c == OpCode[intent.op]
             h == Head(wire)
  <2>1. c \in 0..15 /\ h = command_ecode(p, c, v) BY <1>2, <1>3
  <2> HIDE DEF c, h
  <2>2. /\ command_dcode(h).pf = p
        /\ command_dcode(h).op = c
        /\ command_dcode(h).val = Low(v)
    BY <2>1, Unpack
  <2>3. QED BY <2>2 DEF c, h
<1>5. (IF op = "none" THEN OpName(command_dcode(Head(wire)).op) ELSE op) = intent.op
  BY <1>1, <1>2, <1>4 DEF CodecInv
<1>6. Len(FramesOf(intent)) - Len(wire) + 1 = Received'
  BY Taken DEF Received, Frames
<1>7. QED BY <1>1, <1>4, <1>5, <1>6 DEF Receive

\* What one step must leave behind beside the wire.
Result ==
  /\ op' = intent.op
  /\ locals' \in [Locals -> Int]
  /\ Gathered(Received)'
  /\ executed' = IF Received' = Len(Frames) THEN intent ELSE Nothing

\* A command of one frame is executed as soon as the frame is there.
LEMMA OneFrame ==
  ASSUME CodecInv, Receive, NEW v \in Int, Frames = << Frame(0, intent.op, v) >>,
         intent.op \notin {"MOS_CIR", "TO_QR"},
         \A l \in [Locals -> Int] : l.val = Low(v) => Call(intent.op, l) = intent
  PROVE  Result
<1>1. Received = 0 /\ Received' = Len(Frames) BY Taken
<1>2. Frames[Received + 1] = Frame(0, intent.op, v) BY <1>1
<1>3. /\ op' = intent.op /\ locals' = Store(locals, intent.op, 0, Low(v))
      /\ executed' = IF Received' = Len(Frames) THEN Call(intent.op, locals') ELSE Nothing
  BY <1>2, Decoded
<1>4. Low(v) \in Int BY DEF Low
<1>5. locals' = [locals EXCEPT !.val = Low(v)] BY <1>3 DEF Store
<1>6. locals' \in [Locals -> Int] /\ locals'.val = Low(v)
  BY <1>4, <1>5 DEF CodecInv, Locals
<1>7. executed' = intent BY <1>1, <1>3, <1>6
<1>8. Gathered(Received)' BY Taken DEF Gathered
<1>9. QED BY <1>1, <1>3, <1>6, <1>7, <1>8 DEF Result

LEMMA SetId ==
  ASSUME CodecInv, Receive, intent \in [op : {"SET_ID"}, val : 0..255]
  PROVE  Result
<1>1. intent.op = "SET_ID" /\ intent.val \in 0..255
      /\ intent = [op |-> "SET_ID", val |-> intent.val]
  OBVIOUS
<1>2. Frames = << Frame(0, intent.op, intent.val) >> BY <1>1 DEF Frames, FramesOf
<1>3. Low(intent.val) % 256 = intent.val BY <1>1 DEF Low
<1>4. \A l \in [Locals -> Int] : l.val = Low(intent.val) => Call(intent.op, l) = intent
  BY <1>1, <1>3 DEF Call
<1>5. intent.val \in Int /\ intent.op \notin {"MOS_CIR", "TO_QR"} BY <1>1
<1>6. QED BY <1>2, <1>4, <1>5, OneFrame

LEMMA QrTurn ==
  ASSUME CodecInv, Receive, intent \in [op : {"QR_TURN"}, angle : 0..359]
  PROVE  Result
<1>1. intent.op = "QR_TURN" /\ intent.angle \in 0..359
      /\ intent = [op |-> "QR_TURN", angle |-> intent.angle]
  OBVIOUS
<1>2. Frames = << Frame(0, intent.op, intent.angle) >> BY <1>1 DEF Frames, FramesOf
<1>3. Low(intent.angle) = intent.angle BY <1>1 DEF Low
<1>4. \A l \in [Locals -> Int] : l.val = Low(intent.angle) => Call(intent.op, l) = intent
  BY <1>1, <1>3 DEF Call
<1>5. intent.angle \in Int /\ intent.op \notin {"MOS_CIR", "TO_QR"} BY <1>1
<1>6. QED BY <1>2, <1>4, <1>5, OneFrame

LEMMA MosTurn ==
  ASSUME CodecInv, Receive, intent \in [op : {"MOS_TURN"}, angle : -512..511]
  PROVE  Result
<1>1. intent.op = "MOS_TURN" /\ intent.angle \in -512..511
      /\ intent = [op |-> "MOS_TURN", angle |-> intent.angle]
  OBVIOUS
<1>2. Frames = << Frame(0, intent.op, intent.angle) >> BY <1>1 DEF Frames, FramesOf
<1>3. SignExtend(Low(intent.angle), 10) = intent.angle BY <1>1, SignReturns DEF Low
<1>4. \A l \in [Locals -> Int] : l.val = Low(intent.angle) => Call(intent.op, l) = intent
  BY <1>1, <1>3 DEF Call
<1>5. intent.angle \in Int /\ intent.op \notin {"MOS_CIR", "TO_QR"} BY <1>1
<1>6. QED BY <1>2, <1>4, <1>5, OneFrame

LEMMA MosGo ==
  ASSUME CodecInv, Receive, intent \in [op : {"MOS_GO"}, distance : 0..1023]
  PROVE  Result
<1>1. intent.op = "MOS_GO" /\ intent.distance \in 0..1023
      /\ intent = [op |-> "MOS_GO", distance |-> intent.distance]
  OBVIOUS
<1>2. Frames = << Frame(0, intent.op, intent.distance) >>
  BY <1>1 DEF Frames, FramesOf
<1>3. Low(intent.distance) = intent.distance BY <1>1 DEF Low
<1>4. \A l \in [Locals -> Int] :
        l.val = Low(intent.distance) => Call(intent.op, l) = intent
  BY <1>1, <1>3 DEF Call
<1>5. intent.distance \in Int /\ intent.op \notin {"MOS_CIR", "TO_QR"} BY <1>1
<1>6. QED BY <1>2, <1>4, <1>5, OneFrame

\* The side and the angle in the first frame of a circle
Side(z) == (z \div 512) % 2
Angle(z) == SignExtend(z, 9)

LEMMA StoreCircle ==
  ASSUME NEW l, NEW z
  PROVE  Store(l, "MOS_CIR", 0, z) = [l EXCEPT !.side = Side(z), !.angle = Angle(z)]
BY DEF Store, Side, Angle

\* A circle: the side and the angle share the first frame, the radius has the
\* second.
LEMMA MosCir ==
  ASSUME CodecInv, Receive,
         intent \in [op : {"MOS_CIR"}, side : {0, 1}, angle : -256..255, r : 0..1023]
  PROVE  Result
<1> DEFINE x == intent.side * 512 + (intent.angle % 512)
           y == intent.r % 1024
<1>1. /\ intent.op = "MOS_CIR" /\ intent.side \in {0, 1}
      /\ intent.angle \in -256..255 /\ intent.r \in 0..1023
      /\ intent = [op |-> "MOS_CIR", side |-> intent.side,
                   angle |-> intent.angle, r |-> intent.r]
  OBVIOUS
<1>2. Frames = << Frame(0, intent.op, x), Frame(1, intent.op, y) >>
  BY <1>1 DEF Frames, FramesOf
<1>3. x \in Int /\ y \in Int BY <1>1
<1>4. Low(x) = x /\ Side(x) = intent.side /\ Angle(x) = intent.angle
  BY <1>1, SignReturns DEF Low, Side, Angle
<1>5. Low(y) = intent.r BY <1>1 DEF Low
<1> HIDE DEF x, y
<1>6. Received \in 0..1 /\ Received' = Received + 1 /\ Len(Frames) = 2 /\ intent' = intent
  BY <1>2, Taken
<1>7. CASE Received = 0
  <2>1. Frames[Received + 1] = Frame(0, intent.op, x) BY <1>2, <1>7
  <2>2. op' = intent.op /\ locals' = Store(locals, intent.op, 0, x)
        /\ executed' = IF Received' = Len(Frames) THEN Call(intent.op, locals') ELSE Nothing
    BY <1>3, <1>4, <2>1, Decoded
  <2>3. Store(locals, "MOS_CIR", 0, x) = [locals EXCEPT !.side = Side(x), !.angle = Angle(x)]
    BY StoreCircle
  <2>4. locals' = [locals EXCEPT !.side = intent.side, !.angle = intent.angle]
    BY <1>1, <1>4, <2>2, <2>3
  <2>5. /\ locals' \in [Locals -> Int]
        /\ locals'.side = intent.side /\ locals'.angle = intent.angle
    <3>1. intent.side \in Int /\ intent.angle \in Int BY <1>1
    <3>2. locals \in [Locals -> Int] BY DEF CodecInv
    <3>3. "side" \in Locals /\ "angle" \in Locals BY DEF Locals
    <3>4. QED BY <2>4, <3>1, <3>2, <3>3
  <2>6. Gathered(Received)' BY <1>1, <1>6, <2>5 DEF Gathered
  <2>7. QED BY <1>6, <1>7, <2>2, <2>5, <2>6 DEF Result
<1>8. CASE Received = 1
  <2>1. Frames[Received + 1] = Frame(1, intent.op, y) BY <1>2, <1>8
  <2>2. op' = intent.op /\ locals' = Store(locals, intent.op, 1, intent.r)
        /\ executed' = IF Received' = Len(Frames) THEN Call(intent.op, locals') ELSE Nothing
    BY <1>3, <1>5, <2>1, Decoded
  <2>3. locals' = [locals EXCEPT !.r = intent.r] BY <1>1, <2>2 DEF Store
  <2>4. locals \in [Locals -> Int]
        /\ locals.side = intent.side /\ locals.angle = intent.angle
    BY <1>1, <1>8 DEF CodecInv, Gathered
  <2>5. /\ locals' \in [Locals -> Int] /\ locals'.r = intent.r
        /\ locals'.side = intent.side /\ locals'.angle = intent.angle
    BY <1>1, <2>3, <2>4 DEF Locals
  <2>6. Gathered(Received)' BY <1>1, <1>6, <2>5 DEF Gathered
  <2>7. Call(intent.op, locals') = intent BY <1>1, <2>5 DEF Call
  <2>8. QED BY <1>6, <1>8, <2>2, <2>5, <2>6, <2>7 DEF Result
<1>9. QED BY <1>6, <1>7, <1>8

\* A TO_QR: the two halves of the id, the angle to end at, the distance.  That
\* the halves are put together again needs an id below 255.
LEMMA ToQr ==
  ASSUME CodecInv, Receive,
         intent \in [op : {"TO_QR"}, id : 0..254, end_angle : 0..359, distance : 0..1023]
  PROVE  Result
<1> DEFINE x == intent.id \div 256
           y == intent.id % 255
           a == intent.end_angle
           d == intent.distance
<1>1. /\ intent.op = "TO_QR" /\ intent.id \in 0..254
      /\ a \in 0..359 /\ d \in 0..1023
      /\ intent = [op |-> "TO_QR", id |-> intent.id, end_angle |-> a, distance |-> d]
  OBVIOUS
<1>2. Frames = << Frame(0, intent.op, x), Frame(1, intent.op, y),
                  Frame(2, intent.op, a), Frame(3, intent.op, d) >>
  BY <1>1 DEF Frames, FramesOf
<1>3. x = 0 /\ y = intent.id BY <1>1
<1>4. x \in Int /\ y \in Int /\ a \in Int /\ d \in Int
      /\ Low(x) = 0 /\ Low(y) = intent.id /\ Low(a) = a /\ Low(d) = d
  BY <1>1, <1>3 DEF Low
<1> HIDE DEF x, y
<1>5. Received \in 0..3 /\ Received' = Received + 1 /\ Len(Frames) = 4 /\ intent' = intent
  BY <1>2, Taken
<1>6. locals \in [Locals -> Int] /\ Gathered(Received) BY DEF CodecInv
<1>7. ASSUME NEW p \in 0..3, NEW v \in Int, Received = p,
             Frames[Received + 1] = Frame(p, intent.op, v),
             NEW n \in Int, Low(v) = n
      PROVE  /\ op' = intent.op /\ locals' = Store(locals, intent.op, p, n)
             /\ executed' = IF Received' = 4 THEN Call(intent.op, locals') ELSE Nothing
  BY <1>5, <1>7, Decoded
<1>8. CASE Received = 0
  <2>1. op' = intent.op /\ locals' = Store(locals, intent.op, 0, 0) /\ executed' = Nothing
    BY <1>2, <1>4, <1>5, <1>7, <1>8
  <2>2. locals' = [locals EXCEPT !.id = @ + 0 * 256] BY <1>1, <2>1 DEF Store
  <2>3. locals' \in [Locals -> Int] /\ locals'.id = 0
    BY <1>1, <1>6, <1>8, <2>2 DEF Locals, Gathered
  <2>4. Gathered(Received)' BY <1>1, <1>5, <1>8, <2>3 DEF Gathered
  <2>5. QED BY <1>5, <1>8, <2>1, <2>3, <2>4 DEF Result
<1>9. CASE Received = 1
  <2>1. /\ op' = intent.op /\ locals' = Store(locals, intent.op, 1, intent.id)
        /\ executed' = Nothing
    BY <1>1, <1>2, <1>4, <1>5, <1>7, <1>9
  <2>2. locals' = [locals EXCEPT !.id = @ + intent.id] BY <1>1, <2>1 DEF Store
  <2>3. locals' \in [Locals -> Int] /\ locals'.id = intent.id
    BY <1>1, <1>6, <1>9, <2>2 DEF Locals, Gathered
  <2>4. Gathered(Received)' BY <1>1, <1>5, <1>9, <2>3 DEF Gathered
  <2>5. QED BY <1>5, <1>9, <2>1, <2>3, <2>4 DEF Result
<1>10. CASE Received = 2
  <2>1. op' = intent.op /\ locals' = Store(locals, intent.op, 2, a) /\ executed' = Nothing
    BY <1>1, <1>2, <1>4, <1>5, <1>7, <1>10
  <2>2. locals' = [locals EXCEPT !.end_angle = a] BY <1>1, <2>1 DEF Store
  <2>3. locals' \in [Locals -> Int] /\ locals'.id = intent.id /\ locals'.end_angle = a
    BY <1>1, <1>6, <1>10, <2>2 DEF Locals, Gathered
  <2>4. Gathered(Received)' BY <1>1, <1>5, <1>10, <2>3 DEF Gathered
  <2>5. QED BY <1>5, <1>10, <2>1, <2>3, <2>4 DEF Result
<1>11. CASE Received = 3
  <2>1. /\ op' = intent.op /\ locals' = Store(locals, intent.op, 3, d)
        /\ executed' = Call(intent.op, locals')
    BY <1>1, <1>2, <1>4, <1>5, <1>7, <1>11
  <2>2. locals' = [locals EXCEPT !.distance = d] BY <1>1, <2>1 DEF Store
  <2>3. /\ locals' \in [Locals -> Int] /\ locals'.id = intent.id
        /\ locals'.end_angle = a /\ locals'.distance = d
    BY <1>1, <1>6, <1>11, <2>2 DEF Locals, Gathered
  <2>4. Gathered(Received)' BY <1>1, <1>5, <1>11, <2>3 DEF Gathered
  <2>5. Call(intent.op, locals') = intent BY <1>1, <2>3 DEF Call
  <2>6. QED BY <1>5, <1>11, <2>1, <2>3, <2>4, <2>5 DEF Result
<1>12. QED BY <1>5, <1>8, <1>9, <1>10, <1>11

-----------------------------------------------------------------------------
LEMMA CodecStart == CodecInit => CodecInv
<1> SUFFICES ASSUME CodecInit PROVE CodecInv OBVIOUS
<1>1. intent \in Emittable /\ wire = Frames BY IntentsAssumption DEF CodecInit, Frames
<1>2. Frames \in Seq(Int) /\ Len(Frames) >= 1 BY <1>1, FramesAre
<1>3. Received = 0 /\ wire # <<>> BY <1>1, <1>2 DEF Received
<1>4. locals \in [Locals -> Int] /\ locals.id = 0
  BY DEF CodecInit, FreshLocals, Uninitialised, Locals
<1>5. Gathered(0) BY <1>4 DEF Gathered
<1>6. op = "none" /\ executed = Nothing BY DEF CodecInit
<1>7. \A j \in 1..Len(wire) : wire[j] = Frames[Received + j] BY <1>1, <1>2, <1>3
<1>8. QED BY <1>1, <1>2, <1>3, <1>4, <1>5, <1>6, <1>7 DEF CodecInv

LEMMA CodecStep == CodecInv /\ [CodecNext]_codecVars => CodecInv'
<1> SUFFICES ASSUME CodecInv, [CodecNext]_codecVars PROVE CodecInv' OBVIOUS
<1>1. CASE Receive
  <2>1. Result
    <3>1. intent \in Emittable BY DEF CodecInv
    <3>2. CASE intent \in [op : {"SET_ID"}, val : 0..255] BY <1>1, <3>2, SetId
    <3>3. CASE intent \in [op : {"QR_TURN"}, angle : 0..359] BY <1>1, <3>3, QrTurn
    <3>4. CASE intent \in [op : {"MOS_TURN"}, angle : -512..511] BY <1>1, <3>4, MosTurn
    <3>5. CASE intent \in [op : {"MOS_GO"}, distance : 0..1023] BY <1>1, <3>5, MosGo
    <3>6. CASE intent \in [op : {"MOS_CIR"}, side : {0, 1}, angle : -256..255, r : 0..1023]
      BY <1>1, <3>6, MosCir
    <3>7. CASE intent \in [op : {"TO_QR"}, id : 0..254, end_angle : 0..359,
                          distance : 0..1023]
      BY <1>1, <3>7, ToQr
    <3>8. QED BY <3>1, <3>2, <3>3, <3>4, <3>5, <3>6, <3>7 DEF Emittable
  <2>2. /\ Received \in 0..(Len(Frames) - 1) /\ Received' = Received + 1
        /\ wire' \in Seq(Int) /\ Len(wire') <= Len(Frames')
        /\ \A j \in 1..Len(wire') : wire'[j] = Frames'[Received' + j]
        /\ wire' = <<>> <=> Received' = Len(Frames)
        /\ intent' = intent
    BY <1>1, Taken
  <2>3. op' = IF Received' = 0 THEN "none" ELSE (intent').op BY <2>1, <2>2 DEF Result
  <2>4. executed' = IF wire' = <<>> THEN intent' ELSE Nothing BY <2>1, <2>2 DEF Result
  <2>5. QED BY <2>1, <2>2, <2>3, <2>4 DEF CodecInv, Result
<1>2. CASE UNCHANGED codecVars
  BY <1>2 DEF CodecInv, codecVars, Received, Frames, Gathered
<1>3. QED BY <1>1, <1>2 DEF CodecNext, Understanding

\* What an AGV executes is what the server meant, for every instruction that fits
\* into its frames: nothing before the last frame is there, the instruction then
\* (script_manager.c:318-384, command_manager.c:37-192).
THEOREM ExecutesWhatIsMeant == CodecSpec => []Understood
<1>1. CodecInv => Understood BY DEF CodecInv, Understood
<1>2. QED BY <1>1, CodecStart, CodecStep, PTL DEF CodecSpec
=============================================================================
