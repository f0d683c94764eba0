-------------------------------- MODULE Codec --------------------------------
(***************************************************************************)
(* What an AGV understands of an instruction: the server encodes it in one  *)
(* frame per part (get_command, server/src/lib/script_manager.c), the AGV   *)
(* decodes the frames one at a time into the locals of command_manager and  *)
(* calls the motion with them (client/src/lib/command_manager.c).  Dispatch *)
(* models the order in which frames travel, this module what is in them.    *)
(***************************************************************************)
EXTENDS EnDec, Sequences

CONSTANT Intents      \* the instructions the server may mean to send

\* What fits: a turn in ten bits with its sign, one of a circle in nine, a length
\* or a radius in ten without; an id below 255, by which get_command splits it
Emittable ==
  [op : {"SET_ID"}, val : 0..255]
    \cup [op : {"QR_TURN"}, angle : 0..359]
    \cup [op : {"MOS_TURN"}, angle : -512..511]
    \cup [op : {"MOS_GO"}, distance : 0..1023]
    \cup [op : {"MOS_CIR"}, side : {0, 1}, angle : -256..255, r : 0..1023]
    \cup [op : {"TO_QR"}, id : 0..254, end_angle : 0..359, distance : 0..1023]

ASSUME IntentsAssumption == Intents \subseteq Emittable

VARIABLES
  intent,             \* the instruction the server means
  wire,               \* its frames, not yet received
  op,                 \* command.op of the first frame, "none" before it
  locals,             \* the locals of command_manager's case
  executed            \* the call the AGV makes, Nothing before it

codecVars == <<intent, wire, op, locals, executed>>

Nothing == [op |-> "none"]

\* `uint32_t id = 0`; the other locals are not initialised
Uninitialised == -1
Locals == {"id", "val", "side", "angle", "r", "end_angle", "distance"}
FreshLocals == [v \in Locals |-> IF v = "id" THEN 0 ELSE Uninitialised]

Frame(pf, name, value) == command_ecode(pf, OpCode[name], value)

\* The frames of an instruction, as get_command and TCP_linstener encode them
FramesOf(c) ==
  CASE c.op = "SET_ID" -> << Frame(0, c.op, c.val) >>
    [] c.op = "QR_TURN" -> << Frame(0, c.op, c.angle) >>
    [] c.op = "MOS_TURN" -> << Frame(0, c.op, c.angle) >>
    [] c.op = "MOS_GO" -> << Frame(0, c.op, c.distance) >>
    [] c.op = "MOS_CIR" -> << Frame(0, c.op, c.side * 512 + (c.angle % 512)),
                              Frame(1, c.op, c.r % 1024) >>
    [] c.op = "TO_QR" -> << Frame(0, c.op, c.id \div 256), Frame(1, c.op, c.id % 255),
                            Frame(2, c.op, c.end_angle), Frame(3, c.op, c.distance) >>

OpName(code) == CHOOSE name \in DOMAIN OpCode : OpCode[name] = code

\* What a frame does to the locals: the switch on command.pf
Store(l, name, pf, val) ==
  CASE name = "MOS_CIR" /\ pf = 0 ->
         [l EXCEPT !.side = (val \div 512) % 2, !.angle = SignExtend(val, 9)]
    [] name = "MOS_CIR" /\ pf = 1 -> [l EXCEPT !.r = val]
    [] name = "TO_QR" /\ pf = 0 -> [l EXCEPT !.id = @ + val * 256]
    [] name = "TO_QR" /\ pf = 1 -> [l EXCEPT !.id = @ + val]
    [] name = "TO_QR" /\ pf = 2 -> [l EXCEPT !.end_angle = val]
    [] name = "TO_QR" /\ pf = 3 -> [l EXCEPT !.distance = val]
    [] name \notin {"MOS_CIR", "TO_QR"} -> [l EXCEPT !.val = val]

\* The call made with the locals.  agv_id is an uint8_t; qe_turn's angle is
\* shifted in an int16_t, qe_go's distance in an int, where << 6 >> 6 is nothing.
Call(name, l) ==
  CASE name = "SET_ID" -> [op |-> name, val |-> l.val % 256]
    [] name = "QR_TURN" -> [op |-> name, angle |-> l.val]
    [] name = "MOS_TURN" -> [op |-> name, angle |-> SignExtend(l.val, 10)]
    [] name = "MOS_GO" -> [op |-> name, distance |-> l.val]
    [] name = "MOS_CIR" ->
         [op |-> name, side |-> l.side, angle |-> l.angle, r |-> l.r]
    [] name = "TO_QR" ->
         [op |-> name, id |-> l.id, end_angle |-> l.end_angle, distance |-> l.distance]

PartsOf(name) == CASE name = "MOS_CIR" -> 2 [] name = "TO_QR" -> 4 [] OTHER -> 1

CodecInit ==
  /\ intent \in Intents
  /\ wire = FramesOf(intent)
  /\ op = "none"
  /\ locals = FreshLocals
  /\ executed = Nothing

\* recv_c, command_dcode and the case of the op of the first frame
Receive ==
  LET frame == command_dcode(Head(wire))
      name == IF op = "none" THEN OpName(frame.op) ELSE op
      received == Len(FramesOf(intent)) - Len(wire) + 1
  IN
  /\ wire # <<>>
  /\ wire' = Tail(wire)
  /\ op' = name
  /\ locals' = Store(locals, name, frame.pf, frame.val)
  /\ executed' = IF received = PartsOf(name) THEN Call(name, locals') ELSE Nothing
  /\ UNCHANGED intent

Understanding == wire = <<>> /\ UNCHANGED codecVars

CodecNext == Receive \/ Understanding

CodecSpec == CodecInit /\ [][CodecNext]_codecVars

-----------------------------------------------------------------------------
(***************************************************************************)
(* The AGV executes what the server meant, whatever bits the encoding drops *)
(* or the decoding adds, and only when it has all of it                     *)
(* (script_manager.c:318-384, command_manager.c:37-192).                    *)
(***************************************************************************)
Understood ==
  /\ wire = <<>> => executed = intent
  /\ wire # <<>> => executed = Nothing
=============================================================================
