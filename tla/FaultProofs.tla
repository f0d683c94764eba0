------------------------------ MODULE FaultProofs ------------------------------
(***************************************************************************)
(* Proofs about Faults, for every team size and every script: however AGVs  *)
(* and server end, the server outlives its AGVs and keeps to the plan of    *)
(* the team, and an AGV that lost the server executes whole commands of its *)
(* own script, twice at most.                                               *)
(*                                                                          *)
(* Faults extends Dispatch and this module the proofs about Dispatch; what  *)
(* they say of a step holds here while the server runs.                     *)
(***************************************************************************)
EXTENDS Faults, DispatchProofs

FaultTypes ==
  /\ dead \subseteq Agv
  /\ link \in [Agv -> {"open", "fin", "reset"}]
  /\ server \in {"up", "stopped"}
  /\ clink \in [Agv -> {"open", "fin", "answered", "reset"}]
  /\ again \in [Agv -> 0..AgainCap]
  /\ DispatchTypeOK

\* While the server runs the dispatch is as it is without faults, and the connections
\* are open as their AGVs see them.
Served ==
  server = "up" =>
    /\ DispatchInv /\ CollectInv
    /\ \A a \in Agv : clink[a] = "open" /\ again[a] = 0

\* A connection is closed by an AGV that is gone; a reset finds its listener in recv(),
\* with nothing left to receive.
Closed(a) ==
  /\ link[a] # "open" => a \in dead
  /\ link[a] = "reset" => up[a] = <<>> /\ lpc[a] \in {"recv", "done"}
ClosedInv == server = "up" => \A a \in Agv : Closed(a)

\* Positions i and l of a's script are parts of one command.
PartsOfOne(a, i, l) ==
  /\ i \in Position(a)
  /\ Script[a][i].op = Script[a][l].op
  /\ i - Script[a][i].pf = l - Script[a][l].pf

\* The frames an AGV holds are parts of one command, or the greeting.
Whole(a) ==
  /\ LastPart(a) = 0 => missing[a] = 0
  /\ LastPart(a) # 0 =>
       \A k \in 1..Len(parts[a]) : PartsOfOne(a, parts[a][k], LastPart(a))

\* An AGV without its server holds, or has still to read, a frame; it is in its place
\* as long as it has one to read.
Alone(a) ==
  /\ clink[a] # "open"
  /\ parts[a] = <<>> => down[a] # <<>>
  /\ parts[a] # <<>> => Whole(a)
  /\ down[a] # <<>> => Sound(a)

\* How often it has begun a motion again, by what its kernel knows of the server.
Repeats(a) ==
  /\ clink[a] = "fin" => again[a] <= (IF cpc[a] = "recv" THEN 0 ELSE 1)
  /\ clink[a] # "fin" =>
       again[a] <= (IF cpc[a] = "exec" \/ (cpc[a] = "ack" /\ clink[a] = "reset")
                      THEN 2 ELSE 1)

LeftInv == server = "stopped" => \A a \in Agv : Alone(a) /\ Repeats(a)

FaultInv == FaultTypes /\ Served /\ ClosedInv /\ LeftInv

-----------------------------------------------------------------------------
\* The frames in hand are parts of one command.
HandWhole ==
  \A a \in Agv : DispatchTypeOK /\ Collects(a) /\ parts[a] # <<>> => Whole(a)

LEMMA HandIsWhole == HandWhole
<1> SUFFICES ASSUME NEW a \in Agv, DispatchTypeOK, Collects(a), parts[a] # <<>>
             PROVE  Whole(a)
  BY DEF HandWhole
<1> PICK l : l = LastPart(a)
  OBVIOUS
<1> PICK n : n = Len(parts[a])
  OBVIOUS
<1>1. parts[a] \in Seq(Nat) BY DEF DispatchTypeOK
<1>2. n \in Nat \ {0} /\ l \in Nat /\ Received(a) = l
  BY <1>1 DEF LastPart, Received
<1>3. CASE l = 0
  BY <1>2, <1>3 DEF Whole, Collects
<1>4. CASE l # 0
  <2>1. InHand(a, l, n) BY <1>2, <1>4 DEF Collects
  <2>2. ASSUME NEW k \in 1..n PROVE PartsOfOne(a, parts[a][k], l)
    <3>1. /\ parts[a][k] = l - n + k /\ l - n + k \in Position(a)
          /\ Script[a][l - n + k].op = Script[a][l].op
          /\ Script[a][l - n + k].pf = k - 1
      BY <2>1 DEF InHand, Position
    <3>2. Script[a][l].pf = n - 1
      <4>1. l - n + n = l /\ n \in 1..n BY <1>2
      <4>2. Script[a][l - n + n].pf = n - 1 BY <2>1, <4>1 DEF InHand
      <4>3. QED BY <4>1, <4>2
    <3>3. (l - n + k) - (k - 1) = l - (n - 1) BY <1>2
    <3>4. QED BY <3>1, <3>2, <3>3 DEF PartsOfOne
  <2>3. QED BY <1>4, <2>2 DEF Whole
<1>5. QED BY <1>3, <1>4

LEMMA HandIsWholeNext == HandWhole'
BY HandIsWhole, PTL

LEMMA FaultInitInv == FaultInit => FaultInv
<1> SUFFICES ASSUME FaultInit PROVE FaultInv
  OBVIOUS
<1>1. DispatchInv /\ CollectInv
  BY DispatchInitInv, CollectInit DEF FaultInit
<1>2. FaultTypes
  BY <1>1 DEF FaultInit, FaultTypes, DispatchInv, AgainCap
<1>3. Served BY <1>1 DEF FaultInit, Served
<1>4. ClosedInv BY DEF FaultInit, ClosedInv, Closed
<1>5. LeftInv BY DEF FaultInit, LeftInv
<1>6. QED BY <1>2, <1>3, <1>4, <1>5 DEF FaultInv

-----------------------------------------------------------------------------
\* The end of a listener keeps the invariants of the dispatch: its AGV has been sent
\* nothing more.
LEMMA RecvEndInv ==
  ASSUME DispatchInv, CollectInv, NEW a \in Agv, RecvEnd(a)
  PROVE  DispatchInv' /\ CollectInv'
<1> USE DEF DispatchInv, RecvEnd, faultVars
<1>1. BarrierInv' BY BarrierUntouched
<1>2. DispatchTypeOK'
  BY <1>1 DEF DispatchTypeOK, BarrierInv, clientVars
<1>3. StopAndWait'
  BY DEF DispatchTypeOK, StopAndWait, OneFrame, ListenerBusy, ClientBusy, clientVars
<1>4. PlaceInv'
  BY DEF DispatchTypeOK, PlaceInv, InPlace, ClientBusy, LastPart, clientVars, barrierVars
<1>5. CollectInv'
  BY DEF DispatchTypeOK, CollectInv, Collects, Received, InHand, LastPart, clientVars
<1>6. QED BY <1>1, <1>2, <1>3, <1>4, <1>5

\* While the server runs, a step of a listener.
LEMMA ListenerFaultInv ==
  ASSUME FaultInv, NEW a \in Agv, FaultListener(a)
  PROVE  FaultInv'
<1>1. server = "up" /\ DispatchInv /\ CollectInv
  BY DEF FaultInv, Served, FaultListener
<1>2. \A b \in Agv : Closed(b)
  BY <1>1 DEF FaultInv, ClosedInv
<1>3. CASE Quietly(a)
  <2>1. Listener(a) /\ UNCHANGED faultVars
    BY <1>3 DEF Quietly, Listener
  <2>2. DispatchInv' /\ CollectInv'
    BY <1>1, <2>1, DispatchStepInv, CollectStep
  <2>3. ASSUME NEW b \in Agv PROVE Closed(b)'
    <3>1. CASE b = a
      <4>1. CASE link[a] = "reset"
        <5>1. up[a] = <<>> /\ lpc[a] \in {"recv", "done"} BY <1>2, <4>1 DEF Closed
        <5>2. InSync(a)
          BY <1>3, <5>1 DEF Quietly, Accept, Recv, EnterSync
        <5>3. QED BY <1>2, <2>1, <3>1, <4>1, <5>1, <5>2
                  DEF InSync, listenerVars, faultVars, Closed
      <4>2. CASE link[a] # "reset"
        BY <1>2, <2>1, <3>1, <4>2 DEF Closed, faultVars
      <4>3. QED BY <4>1, <4>2
    <3>2. CASE b # a
      <4>1. up'[b] = up[b] /\ lpc'[b] = lpc[b]
        BY <1>1, <1>3, <3>2 DEF Quietly, Accept, Recv, EnterSync, InSync, listenerVars,
                                DispatchInv, DispatchTypeOK
      <4>2. QED BY <1>2, <2>1, <4>1 DEF Closed, faultVars
    <3>3. QED BY <3>1, <3>2
  <2>4. QED BY <1>1, <2>1, <2>2, <2>3
        DEF FaultInv, FaultTypes, Served, ClosedInv, LeftInv, faultVars, DispatchInv
<1>4. CASE SendOn(a)
  <2>1. Listener(a) /\ UNCHANGED <<dead, clink, again>>
    BY <1>4 DEF SendOn, Listener
  <2>2. DispatchInv' /\ CollectInv'
    BY <1>1, <2>1, DispatchStepInv, CollectStep
  <2>3. lpc[a] \in {"greet", "sync"} /\ link[a] # "reset"
    BY <1>2, <1>4 DEF SendOn, Greet, Send, Closed
  <2>4. server' = "up" /\ link' = [link EXCEPT ![a] = IF @ = "fin" THEN "reset" ELSE @]
    BY <1>1, <1>4, <2>3 DEF SendOn
  <2>5. up[a] = <<>>
    BY <1>1, <2>3 DEF DispatchInv, StopAndWait, OneFrame, ListenerBusy
  <2>6. /\ up' = up /\ lpc'[a] \in {"recv", "done"}
        /\ \A b \in Agv \ {a} : lpc'[b] = lpc[b]
    BY <1>1, <1>4 DEF SendOn, Greet, Send, DispatchInv, DispatchTypeOK
  <2>7. link \in [Agv -> {"open", "fin", "reset"}]
    BY DEF FaultInv, FaultTypes
  <2>8. ASSUME NEW b \in Agv PROVE Closed(b)'
    <3>1. CASE b = a
      BY <1>2, <2>1, <2>4, <2>5, <2>6, <2>7, <3>1 DEF Closed
    <3>2. CASE b # a
      BY <1>2, <2>1, <2>4, <2>6, <2>7, <3>2 DEF Closed
    <3>3. QED BY <3>1, <3>2
  <2>9. FaultTypes'
    BY <2>1, <2>2, <2>4, <2>7 DEF FaultInv, FaultTypes, DispatchInv
  <2>10. QED BY <1>1, <2>1, <2>2, <2>4, <2>8, <2>9
         DEF FaultInv, Served, ClosedInv, LeftInv
<1>5. CASE RecvEnd(a)
  <2>1. DispatchInv' /\ CollectInv'
    BY <1>1, <1>5, RecvEndInv
  <2>2. UNCHANGED faultVars /\ up' = up /\ lpc' = [lpc EXCEPT ![a] = "done"]
    BY <1>5 DEF RecvEnd
  <2>3. \A b \in Agv : Closed(b)'
    BY <1>1, <1>2, <2>2 DEF Closed, faultVars, DispatchInv, DispatchTypeOK
  <2>4. QED BY <1>1, <2>1, <2>2, <2>3
        DEF FaultInv, FaultTypes, Served, ClosedInv, LeftInv, faultVars, DispatchInv
<1>6. QED BY <1>3, <1>4, <1>5 DEF FaultListener

\* While the server runs, a step of an AGV.
LEMMA ServedClientInv ==
  ASSUME FaultInv, server = "up", NEW a \in Agv, FaultClient(a)
  PROVE  FaultInv'
<1>1. DispatchInv /\ CollectInv /\ clink[a] = "open"
  BY DEF FaultInv, Served
<1>2. Client(a) /\ UNCHANGED faultVars /\ a \notin dead
  BY <1>1 DEF FaultClient, RecvFrame, RecvEof, FinishMotion, Acknowledge, AckInVain,
              AckBroken, Client
<1>3. DispatchInv' /\ CollectInv'
  BY <1>1, <1>2, DispatchStepInv, CollectStep
<1>4. lpc' = lpc /\ \A b \in Agv \ {a} : up'[b] = up[b]
  BY <1>1, <1>2 DEF Client, RecvCommand, Finish, SendAck, listenerVars, DispatchInv,
                    DispatchTypeOK
<1>5. \A b \in Agv : Closed(b)'
  BY <1>2, <1>4 DEF FaultInv, ClosedInv, Closed, faultVars
<1>6. QED BY <1>2, <1>3, <1>5
      DEF FaultInv, FaultTypes, Served, ClosedInv, LeftInv, faultVars, DispatchInv

-----------------------------------------------------------------------------
\* What one AGV does without its server leaves the others alone.
LeavesAlone(b) ==
  /\ StepsAside(b) /\ ConnectionAside(b) /\ HandAside(b)
  /\ clink'[b] = clink[b] /\ again'[b] = again[b]

LEMMA OthersAlone ==
  ASSUME NEW b \in Agv, Alone(b), Repeats(b), LeavesAlone(b)
  PROVE  Alone(b)' /\ Repeats(b)'
<1>1. Repeats(b)' BY DEF LeavesAlone, ConnectionAside, Repeats
<1>2. Sound(b) => Sound(b)'
  BY OthersInPlace, OthersOneFrame, OthersCollect DEF LeavesAlone, Sound
<1>3. Whole(b) => Whole(b)'
  BY DEF LeavesAlone, HandAside, Whole, LastPart, PartsOfOne
<1>4. QED BY <1>1, <1>2, <1>3 DEF Alone, LeavesAlone, HandAside

\* The types after a step that only an AGV's collecting and its connection changed.
LEMMA CollectTypes ==
  ASSUME DispatchTypeOK, UNCHANGED <<barrierVars, listenerVars, up>>,
         down' \in [Agv -> Seq(Nat)], cpc' \in [Agv -> {"recv", "exec", "ack"}],
         parts' \in [Agv -> Seq(Nat)], missing' \in [Agv -> 0..3]
  PROVE  DispatchTypeOK'
BY DEF DispatchTypeOK, TypeOK, barrierVars, listenerVars

\* What a frame i makes of the locals of the command manager.
LEMMA CollectedTypes ==
  ASSUME DispatchTypeOK, NEW a \in Agv, NEW i \in Nat, NEW count,
         count = (IF missing[a] = 0 THEN PartsOf(OpOf(a, i)) ELSE missing[a]),
         parts' = [parts EXCEPT ![a] = Collected(a, i)],
         missing' = [missing EXCEPT ![a] = FramesLeft(a, count)],
         cpc' = [cpc EXCEPT ![a] = AfterFrame(count)]
  PROVE  /\ count \in 1..4
         /\ parts' \in [Agv -> Seq(Nat)] /\ missing' \in [Agv -> 0..3]
         /\ cpc' \in [Agv -> {"recv", "exec", "ack"}]
         /\ parts'[a] # <<>> /\ LastPart(a)' = i
         /\ missing'[a] = count - 1 /\ cpc'[a] = AfterFrame(count)
         /\ parts'[a] = (IF missing[a] = 0 THEN <<i>> ELSE Append(parts[a], i))
<1>0. parts \in [Agv -> Seq(Nat)] /\ missing[a] \in 0..3 /\ missing \in [Agv -> 0..3]
      /\ cpc \in [Agv -> {"recv", "exec", "ack"}]
  BY DEF DispatchTypeOK
<1>1. count \in 1..4
  <2>1. PartsOf(OpOf(a, i)) \in {1, 2, 4} BY DEF PartsOf
  <2>2. QED BY <1>0, <2>1
<1>2. parts'[a] = (IF missing[a] = 0 THEN <<i>> ELSE Append(parts[a], i))
  BY <1>0 DEF Collected
<1>3. <<i>> \in Seq(Nat) /\ Append(parts[a], i) \in Seq(Nat)
  BY <1>0
<1>4. parts' \in [Agv -> Seq(Nat)]
  BY <1>0, <1>2, <1>3
<1>5. missing' \in [Agv -> 0..3] /\ missing'[a] = count - 1
  BY <1>0, <1>1 DEF FramesLeft
<1>6. cpc' \in [Agv -> {"recv", "exec", "ack"}] /\ cpc'[a] = AfterFrame(count)
  BY <1>0 DEF AfterFrame
<1>7. parts'[a] # <<>> /\ parts'[a][Len(parts'[a])] = i
  <2>1. <<i>> # <<>> /\ <<i>>[Len(<<i>>)] = i OBVIOUS
  <2>2. parts[a] \in Seq(Nat) BY <1>0
  <2>3. Append(parts[a], i) # <<>> BY <2>2
  <2>4. Append(parts[a], i)[Len(Append(parts[a], i))] = i BY <2>2
  <2>5. QED BY <1>2, <2>1, <2>3, <2>4
<1>8. QED BY <1>1, <1>2, <1>4, <1>5, <1>6, <1>7 DEF LastPart

\* Without its server an AGV still reads a frame that was sent to it.
LEMMA LeftRecvFrame ==
  ASSUME FaultInv, server = "stopped", NEW a \in Agv, RecvFrame(a)
  PROVE  DispatchTypeOK' /\ Alone(a)' /\ Repeats(a)'
<1>1. DispatchTypeOK /\ Alone(a) /\ Repeats(a) BY DEF FaultInv, FaultTypes, LeftInv
<1>2. RecvCommand(a) /\ UNCHANGED faultVars /\ down[a] # <<>> /\ cpc[a] = "recv"
  BY DEF RecvFrame, RecvCommand
<1>3. Sound(a) BY <1>1, <1>2 DEF Alone
<1>4. Collects(a)' /\ down'[a] = <<>> /\ parts'[a] # <<>>
      /\ down' = [down EXCEPT ![a] = <<>>]
  <2>1. down' = [down EXCEPT ![a] = <<>>] /\ parts'[a] # <<>>
    BY <1>1, <1>2, <1>3, FrameArrives
  <2>2. down'[a] = <<>> BY <1>1, <2>1 DEF DispatchTypeOK
  <2>3. QED BY <1>1, <1>2, <1>3, <2>1, <2>2, RecvCommandCollects
<1>5. DispatchTypeOK' /\ cpc'[a] # "recv"
  <2>1. PICK i : i = Head(down[a]) OBVIOUS
  <2>2. PICK count : count = (IF missing[a] = 0 THEN PartsOf(OpOf(a, i)) ELSE missing[a])
    OBVIOUS
  <2>3. i \in Nat BY <1>1, <1>2, <2>1 DEF DispatchTypeOK
  <2>4. /\ parts' = [parts EXCEPT ![a] = Collected(a, i)]
        /\ missing' = [missing EXCEPT ![a] = FramesLeft(a, count)]
        /\ cpc' = [cpc EXCEPT ![a] = AfterFrame(count)]
        /\ UNCHANGED <<barrierVars, listenerVars, up>>
    BY <1>2, <2>1, <2>2 DEF RecvCommand
  <2>5. /\ parts' \in [Agv -> Seq(Nat)] /\ missing' \in [Agv -> 0..3]
        /\ cpc' \in [Agv -> {"recv", "exec", "ack"}] /\ cpc'[a] = AfterFrame(count)
    BY <1>1, <2>2, <2>3, <2>4, CollectedTypes
  <2>6. down' \in [Agv -> Seq(Nat)]
    <3>1. <<>> \in Seq(Nat) OBVIOUS
    <3>2. QED BY <1>1, <1>4, <3>1 DEF DispatchTypeOK
  <2>7. QED BY <1>1, <2>4, <2>5, <2>6, CollectTypes DEF AfterFrame
<1>6. Whole(a)'
  <2>1. HandWhole' BY HandIsWholeNext
  <2>2. QED BY <1>4, <1>5, <2>1 DEF HandWhole
<1>7. Alone(a)' BY <1>1, <1>2, <1>4, <1>6 DEF Alone, faultVars
<1>8. Repeats(a)'
  <2>1. again'[a] = again[a] /\ clink'[a] = clink[a] /\ again[a] \in 0..3
    BY <1>2 DEF faultVars, FaultInv, FaultTypes, AgainCap
  <2>2. QED BY <1>1, <1>2, <1>5, <2>1 DEF Repeats
<1>9. QED BY <1>5, <1>7, <1>8

\* Without its server an AGV takes the last frame it received for a new one.
LEMMA LeftRecvEof ==
  ASSUME FaultInv, server = "stopped", NEW a \in Agv, RecvEof(a)
  PROVE  DispatchTypeOK' /\ Alone(a)' /\ Repeats(a)' /\ again' \in [Agv -> 0..AgainCap]
<1>1. DispatchTypeOK /\ Alone(a) /\ Repeats(a) BY DEF FaultInv, FaultTypes, LeftInv
<1>i. PICK i : i = LastPart(a) OBVIOUS
<1>n. PICK n : n = Len(parts[a]) OBVIOUS
<1>c. PICK count : count = (IF missing[a] = 0 THEN PartsOf(OpOf(a, i)) ELSE missing[a])
  OBVIOUS
<1>2. /\ cpc[a] = "recv" /\ down[a] = <<>> /\ clink[a] # "open"
      /\ parts' = [parts EXCEPT ![a] = Collected(a, i)]
      /\ missing' = [missing EXCEPT ![a] = FramesLeft(a, count)]
      /\ cpc' = [cpc EXCEPT ![a] = AfterFrame(count)]
      /\ again' = [again EXCEPT ![a] =
                     IF AfterFrame(count) = "exec" /\ i # 0 /\ @ < AgainCap
                       THEN @ + 1 ELSE @]
      /\ UNCHANGED <<barrierVars, listenerVars, down, up, dead, link, server, clink>>
  BY <1>i, <1>c DEF RecvEof
<1>3. parts[a] # <<>> /\ Whole(a) /\ parts[a] \in Seq(Nat) /\ n \in Nat \ {0} /\ i \in Nat
  <2>1. parts[a] # <<>> /\ Whole(a) /\ parts[a] \in Seq(Nat)
    BY <1>1, <1>2 DEF Alone, DispatchTypeOK
  <2>2. n \in Nat \ {0} /\ i \in Nat BY <1>i, <1>n, <2>1 DEF LastPart
  <2>3. QED BY <2>1, <2>2
<1>4. /\ count \in 1..4
      /\ parts' \in [Agv -> Seq(Nat)] /\ missing' \in [Agv -> 0..3]
      /\ cpc' \in [Agv -> {"recv", "exec", "ack"}]
      /\ parts'[a] # <<>> /\ LastPart(a)' = i
      /\ missing'[a] = count - 1 /\ cpc'[a] = AfterFrame(count)
      /\ parts'[a] = (IF missing[a] = 0 THEN <<i>> ELSE Append(parts[a], i))
  BY <1>1, <1>c, <1>2, <1>3, CollectedTypes
<1>5. DispatchTypeOK'
  <2>1. down' \in [Agv -> Seq(Nat)] BY <1>1, <1>2 DEF DispatchTypeOK
  <2>2. QED BY <1>1, <1>2, <1>4, <2>1, CollectTypes
<1>6. Whole(a)'
  <2>1. CASE i = 0
    <3>1. missing[a] = 0 BY <1>i, <1>3, <2>1 DEF Whole
    <3>2. count = 1 BY <1>c, <2>1, <3>1 DEF OpOf, PartsOf
    <3>3. QED BY <1>4, <2>1, <3>2 DEF Whole
  <2>2. CASE i # 0
    <3>1. \A k \in 1..n : PartsOfOne(a, parts[a][k], i)
      BY <1>i, <1>n, <1>3, <2>2 DEF Whole
    <3>2. PartsOfOne(a, i, i)
      <4>1. n \in 1..n BY <1>3
      <4>2. parts[a][n] = i BY <1>i, <1>n DEF LastPart
      <4>3. QED BY <3>1, <4>1, <4>2
    <3>3. \A k \in 1..Len(parts'[a]) : PartsOfOne(a, parts'[a][k], i)
      <4>1. CASE missing[a] = 0
        <5>1. parts'[a] = <<i>> BY <1>4, <4>1
        <5>2. \A k \in 1..Len(parts'[a]) : parts'[a][k] = i BY <5>1
        <5>3. QED BY <3>2, <5>2
      <4>2. CASE missing[a] # 0
        <5>1. parts'[a] = Append(parts[a], i) BY <1>4, <4>2
        <5>2. Len(parts'[a]) = n + 1 BY <1>n, <1>3, <5>1
        <5>3. \A k \in 1..(n + 1) :
                parts'[a][k] = IF k = n + 1 THEN i ELSE parts[a][k]
          BY <1>n, <1>3, <5>1
        <5>4. \A k \in 1..(n + 1) : k # n + 1 => k \in 1..n BY <1>3
        <5>5. QED BY <3>1, <3>2, <5>2, <5>3, <5>4
      <4>3. QED BY <4>1, <4>2
    <3>4. QED BY <1>4, <2>2, <3>3 DEF Whole, PartsOfOne
  <2>3. QED BY <2>1, <2>2
<1>7. Alone(a)' BY <1>2, <1>4, <1>6 DEF Alone
<1>8. again[a] \in 0..3 /\ again \in [Agv -> 0..3] BY DEF FaultInv, FaultTypes, AgainCap
<1>9. again[a] <= (IF clink[a] = "fin" THEN 0 ELSE 1)
  BY <1>1, <1>2 DEF Repeats
<1>10. /\ again'[a] \in 0..3
       /\ again'[a] = again[a] \/ (again'[a] = again[a] + 1 /\ cpc'[a] = "exec")
  BY <1>2, <1>4, <1>8, <1>9 DEF AgainCap
<1>11. Repeats(a)'
  <2>1. clink' = clink /\ cpc'[a] \in {"exec", "ack"}
    BY <1>2, <1>4 DEF AfterFrame
  <2>2. CASE clink[a] = "fin" BY <1>8, <1>9, <1>10, <2>1, <2>2 DEF Repeats
  <2>3. CASE clink[a] # "fin" BY <1>8, <1>9, <1>10, <2>1, <2>3 DEF Repeats
  <2>4. QED BY <2>2, <2>3
<1>12. again' \in [Agv -> 0..AgainCap]
  BY <1>2, <1>8, <1>10 DEF AgainCap
<1>13. QED BY <1>5, <1>7, <1>11, <1>12

\* Without its server an AGV ends its motion, acknowledges in vain, or ends.
LEMMA LeftOther ==
  ASSUME FaultInv, server = "stopped", NEW a \in Agv,
         FinishMotion(a) \/ AckInVain(a) \/ AckBroken(a)
  PROVE  DispatchTypeOK' /\ Alone(a)' /\ Repeats(a)'
<1>1. /\ DispatchTypeOK /\ Alone(a) /\ Repeats(a) /\ again[a] \in 0..3
      /\ clink \in [Agv -> {"open", "fin", "answered", "reset"}]
      /\ cpc \in [Agv -> {"recv", "exec", "ack"}]
  BY DEF FaultInv, FaultTypes, LeftInv, AgainCap, DispatchTypeOK
<1>2. CASE AckBroken(a)
  <2>1. UNCHANGED <<dispatchVars, clink, again>> BY <1>2 DEF AckBroken
  <2>2. LeavesAlone(a)
    BY <2>1 DEF LeavesAlone, StepsAside, ConnectionAside, HandAside, dispatchVars,
                barrierVars, listenerVars, clientVars
  <2>3. DispatchTypeOK'
    BY <1>1, <2>1 DEF DispatchTypeOK, TypeOK, dispatchVars, barrierVars, listenerVars,
                      clientVars
  <2>4. QED BY <1>1, <2>2, <2>3, OthersAlone
<1>3. CASE FinishMotion(a) \/ AckInVain(a)
  <2>1. /\ cpc[a] \in {"exec", "ack"}
        /\ UNCHANGED <<barrierVars, listenerVars, down, up, parts, missing, again>>
        /\ cpc' \in [Agv -> {"recv", "exec", "ack"}]
        /\ clink[a] # "open" => clink'[a] # "open"
    BY <1>1, <1>3 DEF FinishMotion, Finish, AckInVain, faultVars
  <2>2. down[a] = <<>>
    BY <1>1, <2>1 DEF Alone, Sound, OneFrame, ClientBusy
  <2>3. DispatchTypeOK'
    BY <1>1, <2>1, CollectTypes DEF DispatchTypeOK
  <2>4. Whole(a) => Whole(a)'
    BY <2>1 DEF Whole, LastPart, PartsOfOne
  <2>5. Alone(a)' BY <1>1, <2>1, <2>2, <2>4 DEF Alone
  <2>6. Repeats(a)'
    <3>1. CASE FinishMotion(a)
      <4>1. cpc[a] = "exec" /\ cpc'[a] = "ack" /\ clink' = clink /\ again' = again
            /\ clink[a] \in {"fin", "reset"}
        BY <1>1, <3>1 DEF FinishMotion, Finish, faultVars, Alone
      <4>2. QED BY <1>1, <4>1 DEF Repeats
    <3>2. CASE AckInVain(a)
      <4>1. /\ cpc[a] = "ack" /\ cpc'[a] = "recv" /\ again' = again
            /\ clink[a] \in {"fin", "answered"} /\ clink'[a] = "answered"
        BY <1>1, <3>2 DEF AckInVain
      <4>2. QED BY <1>1, <4>1 DEF Repeats
    <3>3. QED BY <1>3, <3>1, <3>2
  <2>7. QED BY <2>3, <2>5, <2>6
<1>4. QED BY <1>2, <1>3

LEMMA LeftClientInv ==
  ASSUME FaultInv, server = "stopped", NEW a \in Agv, FaultClient(a)
  PROVE  FaultInv'
<1>1. ~Acknowledge(a)
  BY DEF FaultInv, LeftInv, Alone, Acknowledge
<1>2. \/ RecvFrame(a) \/ RecvEof(a)
      \/ FinishMotion(a) \/ AckInVain(a) \/ AckBroken(a)
  BY <1>1 DEF FaultClient
<1>3. DispatchTypeOK' /\ Alone(a)' /\ Repeats(a)'
  BY <1>2, LeftRecvFrame, LeftRecvEof, LeftOther
<1>4. again' \in [Agv -> 0..AgainCap]
  BY <1>2, LeftRecvEof DEF FaultInv, FaultTypes, RecvFrame, FinishMotion, AckInVain,
                           AckBroken, faultVars
<1>5. /\ UNCHANGED <<server, link>> /\ dead' \subseteq Agv
      /\ clink' \in [Agv -> {"open", "fin", "answered", "reset"}]
  BY <1>2 DEF FaultInv, FaultTypes, RecvFrame, RecvEof, FinishMotion, AckInVain, AckBroken,
              faultVars
<1>6. ASSUME NEW b \in Agv, b # a PROVE Alone(b)' /\ Repeats(b)'
  <2>1. LeavesAlone(b)
    <3>1. UNCHANGED <<barrierVars, listenerVars, up>>
      BY <1>2 DEF RecvFrame, RecvCommand, RecvEof, FinishMotion, Finish, AckInVain, AckBroken,
                  dispatchVars
    <3>2. /\ down'[b] = down[b] /\ parts'[b] = parts[b] /\ missing'[b] = missing[b]
          /\ cpc'[b] = cpc[b] /\ clink'[b] = clink[b] /\ again'[b] = again[b]
      <4>1. CASE RecvFrame(a)
        BY <1>6, <4>1 DEF RecvFrame, RecvCommand, faultVars, FaultInv, FaultTypes,
                          DispatchTypeOK
      <4>2. CASE RecvEof(a)
        BY <1>6, <4>2 DEF RecvEof, FaultInv, FaultTypes, DispatchTypeOK
      <4>3. CASE FinishMotion(a)
        BY <1>6, <4>3 DEF FinishMotion, Finish, faultVars, FaultInv, FaultTypes,
                          DispatchTypeOK
      <4>4. CASE AckInVain(a)
        BY <1>6, <4>4 DEF AckInVain, FaultInv, FaultTypes, DispatchTypeOK
      <4>5. CASE AckBroken(a)
        BY <4>5 DEF AckBroken, dispatchVars, clientVars
      <4>6. QED BY <1>2, <4>1, <4>2, <4>3, <4>4, <4>5
    <3>3. QED BY <3>1, <3>2 DEF LeavesAlone, StepsAside, ConnectionAside, HandAside,
                                barrierVars, listenerVars
  <2>2. Alone(b) /\ Repeats(b) BY DEF FaultInv, LeftInv
  <2>3. QED BY <2>1, <2>2, OthersAlone
<1>7. QED BY <1>3, <1>4, <1>5, <1>6
      DEF FaultInv, FaultTypes, Served, ClosedInv, LeftInv

-----------------------------------------------------------------------------
\* A reset that arrives at an AGV.
LEMMA ResetArrivesInv ==
  ASSUME FaultInv, NEW a \in Agv, ResetArrives(a)
  PROVE  FaultInv'
<1>1. server = "stopped"
  BY DEF ResetArrives, FaultInv, FaultTypes, Served
<1>2. /\ UNCHANGED <<dispatchVars, dead, link, server, again>>
      /\ clink[a] = "answered" /\ clink' = [clink EXCEPT ![a] = "reset"]
      /\ clink \in [Agv -> {"open", "fin", "answered", "reset"}]
      /\ \A b \in Agv : again[b] \in 0..3
  BY DEF ResetArrives, FaultInv, FaultTypes, AgainCap
<1>3. ASSUME NEW b \in Agv
      PROVE  StepsAside(b) /\ ConnectionAside(b) /\ HandAside(b)
  BY <1>2 DEF StepsAside, ConnectionAside, HandAside, dispatchVars, barrierVars,
              listenerVars, clientVars
<1>4. ASSUME NEW b \in Agv PROVE Alone(b)' /\ Repeats(b)'
  <2>1. Alone(b) /\ Repeats(b) BY <1>1 DEF FaultInv, LeftInv
  <2>2. CASE b # a
    <3>1. LeavesAlone(b) BY <1>2, <1>3, <2>2 DEF LeavesAlone
    <3>2. QED BY <2>1, <3>1, OthersAlone
  <2>3. CASE b = a
    <3>1. Sound(a) => Sound(a)'
      BY <1>3, <2>3, OthersInPlace, OthersOneFrame, OthersCollect DEF Sound
    <3>2. Whole(a) => Whole(a)'
      BY <1>3, <2>3 DEF HandAside, Whole, LastPart, PartsOfOne
    <3>3. Alone(a)' BY <1>2, <1>3, <2>1, <2>3, <3>1, <3>2 DEF Alone, HandAside
    <3>4. clink'[a] = "reset" /\ cpc'[a] = cpc[a] /\ again'[a] = again[a]
      BY <1>2, <1>3 DEF HandAside
    <3>5. Repeats(a)' BY <1>2, <2>1, <2>3, <3>4 DEF Repeats
    <3>6. QED BY <2>3, <3>3, <3>5
  <2>4. QED BY <2>2, <2>3
<1>5. DispatchTypeOK'
  BY <1>2 DEF FaultInv, FaultTypes, DispatchTypeOK, TypeOK, dispatchVars, barrierVars,
              listenerVars, clientVars
<1>6. QED BY <1>1, <1>2, <1>4, <1>5
      DEF FaultInv, FaultTypes, Served, ClosedInv, LeftInv

\* Everything of the dispatch and of the AGVs' connections as before
NothingMoves == UNCHANGED <<dispatchVars, clink, again>>

LEMMA NothingMovesInv ==
  ASSUME FaultInv, NothingMoves, server' = server
  PROVE  /\ DispatchTypeOK' /\ Served' /\ LeftInv'
         /\ \A b \in Agv : lpc'[b] = lpc[b] /\ up'[b] = up[b]
<1> USE DEF NothingMoves
<1>1. DispatchTypeOK'
  BY DEF FaultInv, FaultTypes, DispatchTypeOK, TypeOK, dispatchVars, barrierVars,
         listenerVars, clientVars
<1>2. Served' BY DispatchStutterInv, CollectStutter DEF FaultInv, Served
<1>3. \A b \in Agv : LeavesAlone(b)
  BY DEF LeavesAlone, StepsAside, ConnectionAside, HandAside, dispatchVars, barrierVars,
         listenerVars, clientVars
<1>4. LeftInv' BY <1>3, OthersAlone DEF FaultInv, LeftInv
<1>5. QED BY <1>1, <1>2, <1>4 DEF dispatchVars, listenerVars

\* An AGV that ends or falls silent.
LEMMA AgvFaultInv ==
  ASSUME FaultInv, NEW a \in Agv, AgvEnds(a) \/ AgvSilent(a)
  PROVE  FaultInv'
<1>1. /\ NothingMoves /\ server' = server /\ a \notin dead /\ dead' = dead \cup {a}
      /\ link \in [Agv -> {"open", "fin", "reset"}]
      /\ \/ link' = link
         \/ link' = [link EXCEPT ![a] = IF down[a] = <<>> THEN "fin" ELSE "reset"]
  BY DEF AgvEnds, AgvSilent, NothingMoves, FaultInv, FaultTypes
<1>2. /\ DispatchTypeOK' /\ Served' /\ LeftInv'
      /\ \A b \in Agv : lpc'[b] = lpc[b] /\ up'[b] = up[b]
  BY <1>1, NothingMovesInv
<1>3. ASSUME server = "up", NEW b \in Agv PROVE Closed(b)'
  <2>1. Closed(b) BY <1>3 DEF FaultInv, ClosedInv
  <2>2. CASE link'[b] = link[b] BY <1>1, <1>2, <2>1, <2>2 DEF Closed
  <2>3. CASE b = a /\ down[a] = <<>> /\ link'[a] = "fin"
    BY <1>1, <2>3 DEF Closed
  <2>4. CASE b = a /\ down[a] # <<>> /\ link'[a] = "reset"
    <3>1. DispatchTypeOK /\ OneFrame(a)
      BY <1>3 DEF FaultInv, Served, DispatchInv, StopAndWait
    <3>2. up[a] = <<>> /\ ~ListenerBusy(a) BY <2>4, <3>1 DEF OneFrame, DispatchTypeOK
    <3>3. lpc[a] \in {"recv", "done"} BY <3>1, <3>2 DEF ListenerBusy, DispatchTypeOK
    <3>4. QED BY <1>1, <1>2, <2>4, <3>2, <3>3 DEF Closed
  <2>5. QED BY <1>1, <2>2, <2>3, <2>4
<1>4. FaultTypes' BY <1>1, <1>2 DEF FaultInv, FaultTypes, NothingMoves
<1>5. QED BY <1>1, <1>2, <1>3, <1>4 DEF FaultInv, ClosedInv

\* The end of the server leaves every AGV with a frame to execute or to read.
LEMMA ServerEndsInv == ASSUME FaultInv, ServerEnds PROVE FaultInv'
<1>1. /\ DispatchInv /\ CollectInv /\ \A a \in Agv : again[a] = 0
      /\ server' = "stopped" /\ UNCHANGED <<dispatchVars, dead, link, again>>
      /\ \A a \in Agv : clink'[a] \in {"fin", "reset"}
      /\ clink' \in [Agv -> {"open", "fin", "answered", "reset"}]
  BY DEF ServerEnds, FaultInv, Served
<1>2. DispatchTypeOK'
  BY <1>1 DEF FaultInv, FaultTypes, DispatchTypeOK, TypeOK, dispatchVars, barrierVars,
              listenerVars, clientVars
<1>3. ASSUME NEW a \in Agv PROVE Alone(a)' /\ Repeats(a)'
  <2>1. StepsAside(a) /\ ConnectionAside(a) /\ HandAside(a) /\ again'[a] = again[a]
    BY <1>1 DEF StepsAside, ConnectionAside, HandAside, dispatchVars, barrierVars,
                listenerVars, clientVars
  <2>2. Sound(a) BY <1>1, InvSound
  <2>3. Sound(a)'
    BY <2>1, <2>2, OthersInPlace, OthersOneFrame, OthersCollect DEF Sound
  <2>4. parts[a] = <<>> => down[a] # <<>>
    <3>1. lpc[a] \notin {"none", "greet"} BY DEF ServerEnds
    <3>2. Received(a) = text[a] - (IF down[a] = <<>> THEN 1 ELSE 2)
      BY <2>2, <3>1 DEF Sound, Collects
    <3>3. text[a] \in Nat \ {0} BY <1>1 DEF DispatchInv, DispatchTypeOK
    <3>4. QED BY <3>2, <3>3 DEF Received
  <2>5. parts'[a] # <<>> => Whole(a)'
    BY <1>2, <2>3, HandIsWholeNext DEF HandWhole, Sound
  <2>6. Alone(a)' BY <1>1, <2>1, <2>3, <2>4, <2>5 DEF Alone, HandAside
  <2>7. Repeats(a)' BY <1>1, <2>1 DEF Repeats
  <2>8. QED BY <2>6, <2>7
<1>4. QED BY <1>1, <1>2, <1>3 DEF FaultInv, FaultTypes, Served, ClosedInv, LeftInv

LEMMA FaultStutterInv == ASSUME FaultInv, UNCHANGED vars PROVE FaultInv'
<1>1. NothingMoves /\ UNCHANGED faultVars BY DEF vars, faultVars, NothingMoves
<1>2. /\ DispatchTypeOK' /\ Served' /\ LeftInv'
      /\ \A b \in Agv : lpc'[b] = lpc[b] /\ up'[b] = up[b]
  BY <1>1, NothingMovesInv DEF faultVars
<1>3. QED BY <1>1, <1>2 DEF FaultInv, FaultTypes, ClosedInv, Closed, faultVars

LEMMA FaultStepInv == ASSUME FaultInv, FaultNext PROVE FaultInv'
<1>1. server \in {"up", "stopped"} BY DEF FaultInv, FaultTypes
<1>2. QED BY <1>1, ListenerFaultInv, ServedClientInv, LeftClientInv, ResetArrivesInv,
             AgvFaultInv, ServerEndsInv DEF FaultNext

\* However AGVs and server end, the invariant of the dispatch holds while the server
\* runs, and each AGV that lost it holds frames of one command
\* (server tcp_handler.c:184-251, client tcp_handler.c:47-66).
THEOREM FaultInvariant == FaultSpec => []FaultInv
<1>1. FaultInv /\ [FaultNext]_vars => FaultInv'
  BY FaultStepInv, FaultStutterInv
<1>2. QED BY FaultInitInv, <1>1, PTL DEF FaultSpec

\* No team's AGVs can end the server by going away (tcp_handler.c:193-200, 248).
THEOREM ServerOutlivesAgvs == FaultSpec => []ServerSurvives
<1>1. FaultInv => ServerSurvives BY DEF FaultInv, FaultTypes, ServerSurvives
<1>2. QED BY FaultInvariant, <1>1, PTL

\* An AGV that lost the server moves at most twice more
\* (client tcp_handler.c:47-66).
THEOREM TwiceAtMost == FaultSpec => []AtMostTwice
<1>1. FaultInv => AtMostTwice
  <2> SUFFICES ASSUME FaultInv, NEW a \in Agv PROVE again[a] <= 2
    BY DEF AtMostTwice
  <2>1. again[a] \in 0..3 BY DEF FaultInv, FaultTypes, AgainCap
  <2>2. CASE server = "up" BY <2>2 DEF FaultInv, Served
  <2>3. CASE server # "up"
    <3>1. Repeats(a) BY <2>3 DEF FaultInv, FaultTypes, LeftInv
    <3>2. QED BY <2>1, <3>1 DEF Repeats
  <2>4. QED BY <2>2, <2>3
<1>2. QED BY FaultInvariant, <1>1, PTL

\* What an AGV executes, with or without its server, is frames of one command of its
\* own script (client tcp_handler.c:55-66, command_manager.c:77-192).
THEOREM CommandsStayWhole == FaultSpec => []OneCommand
<1>1. FaultInv => OneCommand
  <2> SUFFICES ASSUME FaultInv, NEW a \in Agv, Moving(a),
                      NEW k \in 1..Len(parts[a]), NEW l \in 1..Len(parts[a])
               PROVE  /\ parts[a][k] > 0 /\ parts[a][l] > 0
                      /\ Script[a][parts[a][k]].op = Script[a][parts[a][l]].op
                      /\ parts[a][k] - Script[a][parts[a][k]].pf
                           = parts[a][l] - Script[a][parts[a][l]].pf
    BY DEF OneCommand
  <2>1. parts[a] # <<>>
    <3>1. parts[a] \in Seq(Nat) BY DEF FaultInv, FaultTypes, DispatchTypeOK
    <3>2. QED BY <3>1
  <2>2. Whole(a)
    <3>1. CASE server = "up"
      BY <2>1, <3>1, HandIsWhole DEF HandWhole, FaultInv, Served, DispatchInv, CollectInv
    <3>2. CASE server # "up"
      BY <2>1, <3>2 DEF FaultInv, FaultTypes, LeftInv, Alone
    <3>3. QED BY <3>1, <3>2
  <2>3. /\ PartsOfOne(a, parts[a][k], LastPart(a))
        /\ PartsOfOne(a, parts[a][l], LastPart(a))
    BY <2>2 DEF Whole, Moving
  <2>4. parts[a][k] \in Nat \ {0} /\ parts[a][l] \in Nat \ {0}
    BY <2>3, CommandFrames DEF PartsOfOne
  <2>5. QED BY <2>3, <2>4 DEF PartsOfOne
<1>2. QED BY FaultInvariant, <1>1, PTL

\* While the server runs, the team keeps to its plan, and an AGV that fell out counts
\* with all the motions it still has (tcp_handler.c:37-54, 193-244).
THEOREM PlanIsKept == FaultSpec => PlanWhileServed
<1>1. FaultInv /\ [FaultNext]_vars
        => [server = "up" => Plan!Next \/ UNCHANGED Plan!plan]_vars
  <2> SUFFICES ASSUME FaultInv, FaultNext, server = "up"
               PROVE  Plan!Next \/ UNCHANGED Plan!plan
    OBVIOUS
  <2>1. DispatchInv /\ CollectInv /\ \A a \in Agv : clink[a] = "open"
    BY DEF FaultInv, Served
  <2>2. ASSUME NEW a \in Agv, Listener(a) \/ Client(a)
        PROVE  Plan!Next \/ UNCHANGED Plan!plan
    BY <2>1, <2>2, PlanStep DEF DispatchNext
  <2>3. ASSUME NEW a \in Agv, FaultListener(a) PROVE Plan!Next \/ UNCHANGED Plan!plan
    <3>1. CASE RecvEnd(a) BY <3>1, PlanStutters DEF RecvEnd, clientVars
    <3>2. CASE Quietly(a) \/ SendOn(a)
      BY <2>2, <3>2 DEF Quietly, SendOn, Listener
    <3>3. QED BY <2>3, <3>1, <3>2 DEF FaultListener
  <2>4. ASSUME NEW a \in Agv, FaultClient(a) PROVE Plan!Next \/ UNCHANGED Plan!plan
    <3>1. Client(a)
      BY <2>1, <2>4 DEF FaultClient, RecvFrame, RecvEof, FinishMotion, Acknowledge,
                        AckInVain, AckBroken, Client
    <3>2. QED BY <2>2, <3>1
  <2>5. ASSUME NEW a \in Agv, ResetArrives(a) \/ AgvEnds(a) \/ AgvSilent(a)
        PROVE  UNCHANGED Plan!plan
    BY <2>5, PlanStutters DEF ResetArrives, AgvEnds, AgvSilent, dispatchVars, clientVars
  <2>6. CASE ServerEnds
    BY <2>6, PlanStutters DEF ServerEnds, dispatchVars, clientVars
  <2>7. QED BY <2>3, <2>4, <2>5, <2>6 DEF FaultNext
<1>2. QED BY FaultInvariant, <1>1, PTL DEF FaultSpec, PlanWhileServed
=============================================================================
