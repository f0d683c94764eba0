------------------------------ MODULE BootProofs ------------------------------
(***************************************************************************)
(* Proofs about the start of the server, for any number of teams of any     *)
(* size and any number of clients and slots: each seat gets the descriptor  *)
(* of its own listener, and the meetings of a team that is still being      *)
(* filled are sound as long as no listener reads from descriptor 0.         *)
(***************************************************************************)
EXTENDS ServerBoot, TLAPS

\* The seats the accept thread has left behind it
Behind(s) == s[1] < seat[1] \/ (s[1] = seat[1] /\ s[2] < seat[2])

\* A listener exists only for a seat the accept thread has left, or is at.
SeatInv ==
  /\ mainPc = "create" => apc = "absent"
  /\ apc \in {"absent", "detach", "arm"} => seat[2] = 1
  /\ \A s \in Seats :
       lpc[s] # "absent" => Behind(s) \/ (s = seat /\ apc \in {"ipc", "full"})

\* The one connection that can wait on the IPC socket is that of the listener the
\* accept thread has just created and waits for.
SocketInv ==
  /\ apc # "ipc" => pending = <<>>
  /\ apc = "ipc" => \/ lpc[seat] = "connect" /\ pending = <<>>
                    \/ lpc[seat] # "connect" /\ pending = <<seat>>
  /\ \A s \in Seats : lpc[s] = "connect" => apc = "ipc" /\ s = seat

\* A listener is one meeting ahead of its acknowledgements exactly while it waits.
Waits(s) == IF lpc[s] \in {"call", "read"} THEN 1 ELSE 0
CountInv ==
  \A s \in Seats :
    /\ arrived[s] = passed[s] + Waits(s)
    /\ lpc[s] \in {"absent", "connect"} => arrived[s] = 0

BootInv ==
  /\ BootTypeOK
  /\ SeatInv
  /\ SocketInv
  /\ OwnSocket
  /\ \A s \in Seats : fd[s] \in {s, Stdin}
  /\ CountInv

-----------------------------------------------------------------------------
\* A seat is a team with an AGV of it, and never descriptor 0.
LEMMA SeatParts ==
  ASSUME NEW s \in Seats
  PROVE  /\ s[1] \in Teams /\ s[1] \in Nat \ {0} /\ s[1] <= Len(AgvCount)
         /\ AgvCount[s[1]] \in Nat \ {0}
         /\ s[2] \in 1..AgvCount[s[1]] /\ s[2] \in Nat \ {0}
         /\ s = <<s[1], s[2]>>
         /\ s \in TeamSeats(s[1])
         /\ s # Stdin
<1>1. PICK t \in Teams : s \in {t} \X (1..AgvCount[t])
  BY DEF Seats
<1>2. s[1] = t /\ s[2] \in 1..AgvCount[t] /\ s = <<s[1], s[2]>>
  BY <1>1
<1>3. t \in 1..Len(AgvCount) /\ AgvCount[t] \in Nat \ {0} /\ Len(AgvCount) \in Nat
  BY CountAssumption DEF Teams
<1>4. s[1] # 0
  BY <1>2, <1>3
<1>5. s # Stdin
  BY <1>4 DEF Stdin
<1>6. QED BY <1>1, <1>2, <1>3, <1>5 DEF TeamSeats

LEMMA SeatMade ==
  ASSUME NEW t \in Teams, NEW j \in 1..AgvCount[t]
  PROVE  <<t, j>> \in Seats
<1>1. <<t, j>> \in {t} \X (1..AgvCount[t])
  OBVIOUS
<1>2. QED BY <1>1 DEF Seats

LEMMA TeamSeat ==
  ASSUME NEW t \in Teams, NEW s \in TeamSeats(t)
  PROVE  s \in Seats /\ s[1] = t
BY DEF TeamSeats, Seats

LEMMA StdinNoSeat == Stdin \notin Seats
BY SeatParts

LEMMA FirstSeat == <<1, 1>> \in Seats
<1>1. 1 \in Teams /\ AgvCount[1] \in Nat \ {0}
  BY CountAssumption DEF Teams
<1>2. 1 \in 1..AgvCount[1]
  BY <1>1
<1>3. QED BY <1>1, <1>2, SeatMade

-----------------------------------------------------------------------------
\* Where the accept thread goes from a seat.
LEMMA NextSeatIs ==
  ASSUME seat \in Seats, NextSeat
  PROVE  /\ seat' \in Seats
         /\ apc' \in {"accept", "arm", "full"}
         /\ apc' = "arm" => seat'[2] = 1
         /\ \A s \in Seats :
              Behind(s) \/ s = seat => Behind(s)' \/ (s = seat' /\ apc' = "full")
<1>1. /\ seat[1] \in Teams /\ seat[1] \in Nat \ {0} /\ seat[1] <= Len(AgvCount)
      /\ AgvCount[seat[1]] \in Nat \ {0}
      /\ seat[2] \in 1..AgvCount[seat[1]] /\ seat[2] \in Nat \ {0}
      /\ seat = <<seat[1], seat[2]>>
  BY SeatParts
<1>2. Len(AgvCount) \in Nat
  BY CountAssumption
<1>3. CASE seat[2] < AgvCount[seat[1]] /\ seat' = <<seat[1], seat[2] + 1>> /\ apc' = "accept"
  <2>1. seat[2] + 1 \in 1..AgvCount[seat[1]]
    BY <1>1, <1>3
  <2>2. seat' \in Seats
    BY <1>1, <1>3, <2>1, SeatMade
  <2>3. seat'[1] = seat[1] /\ seat'[2] = seat[2] + 1
    BY <1>3
  <2>4. ASSUME NEW s \in Seats, Behind(s) \/ s = seat PROVE Behind(s)'
    <3>1. s[1] \in Nat /\ s[2] \in Nat
      BY SeatParts
    <3>2. QED BY <1>1, <2>3, <2>4, <3>1 DEF Behind
  <2>5. QED BY <1>3, <2>2, <2>4
<1>4. CASE seat[1] < Len(AgvCount) /\ seat' = <<seat[1] + 1, 1>> /\ apc' = "arm"
  <2>1. seat[1] + 1 \in Teams
    BY <1>1, <1>2, <1>4, CountAssumption DEF Teams
  <2>2. 1 \in 1..AgvCount[seat[1] + 1]
    BY <2>1, CountAssumption DEF Teams
  <2>3. seat' \in Seats
    BY <1>4, <2>1, <2>2, SeatMade
  <2>4. seat'[1] = seat[1] + 1 /\ seat'[2] = 1
    BY <1>4
  <2>5. ASSUME NEW s \in Seats, Behind(s) \/ s = seat PROVE Behind(s)'
    <3>1. s[1] \in Nat /\ s[2] \in Nat
      BY SeatParts
    <3>2. QED BY <1>1, <2>4, <2>5, <3>1 DEF Behind
  <2>6. QED BY <1>4, <2>3, <2>4, <2>5
<1>5. CASE seat' = seat /\ apc' = "full"
  <2>1. ASSUME NEW s \in Seats, Behind(s) \/ s = seat
        PROVE  Behind(s)' \/ (s = seat' /\ apc' = "full")
    BY <1>5, <2>1 DEF Behind
  <2>2. QED BY <1>5, <2>1
<1>6. QED BY <1>3, <1>4, <1>5 DEF NextSeat

LEMMA BootInitInv == BootInit => BootInv
<1> SUFFICES ASSUME BootInit PROVE BootInv
  OBVIOUS
<1> USE DEF BootInit
<1>1. BootTypeOK
  <2>1. seat \in Seats BY FirstSeat
  <2>2. syncFlag \in [Teams -> SUBSET Nat] OBVIOUS
  <2>3. 0 \in 0..Rounds BY CountAssumption
  <2>4. pending \in Seq(Seats) OBVIOUS
  <2>5. /\ cli \in [Seats -> Seats \cup {Stdin}] /\ fd \in [Seats -> Seats \cup {Stdin}]
        /\ lpc \in [Seats -> {"absent", "connect", "recv", "call", "read"}]
        /\ mail \in [Seats -> Nat]
    OBVIOUS
  <2>6. arrived \in [Seats -> 0..Rounds] /\ passed \in [Seats -> 0..Rounds]
    BY <2>3
  <2>7. QED BY <2>1, <2>2, <2>4, <2>5, <2>6 DEF BootTypeOK
<1>2. SeatInv BY DEF SeatInv
<1>3. SocketInv BY DEF SocketInv
<1>4. OwnSocket BY DEF OwnSocket
<1>5. CountInv BY DEF CountInv, Waits
<1>6. QED BY <1>1, <1>2, <1>3, <1>4, <1>5 DEF BootInv

-----------------------------------------------------------------------------
\* Steps of main, of a client that connects, and of the accept thread between two
\* seats leave listeners, sockets and descriptors alone.
Aside ==
  UNCHANGED <<pending, cli, lpc, fd, arrived, passed>>

LEMMA AsideInv ==
  ASSUME BootInv, Aside, BootTypeOK', SeatInv',
         apc = "ipc" <=> apc' = "ipc", apc = "ipc" => seat' = seat
  PROVE  BootInv'
<1> USE DEF BootInv, Aside
<1>1. SocketInv' BY DEF SocketInv
<1>2. OwnSocket' BY DEF OwnSocket
<1>3. CountInv' BY DEF CountInv, Waits
<1>4. QED BY <1>1, <1>2, <1>3

LEMMA MainInv ==
  ASSUME BootInv, Main \/ Detach \/ (\E c \in Clients : Connect(c) \/ AcceptExtra(c))
  PROVE  BootInv'
<1> USE DEF BootInv, BootTypeOK, SeatInv, mainVars, acceptVars, clientVars, listenerVars
<1>1. CASE CreateAccept
  <2>1. BootTypeOK' BY <1>1 DEF CreateAccept
  <2>2. SeatInv' BY <1>1 DEF CreateAccept, Behind
  <2>3. QED BY <1>1, <2>1, <2>2, AsideInv DEF CreateAccept, Aside
<1>2. CASE Join
  <2>1. BootTypeOK' BY <1>2 DEF Join
  <2>2. SeatInv' BY <1>2 DEF Join, Behind
  <2>3. QED BY <1>2, <2>1, <2>2, AsideInv DEF Join, Aside
<1>3. CASE Detach
  <2>1. BootTypeOK' BY <1>3 DEF Detach
  <2>2. SeatInv' BY <1>3 DEF Detach, Behind
  <2>3. QED BY <1>3, <2>1, <2>2, AsideInv DEF Detach, Aside
<1>4. ASSUME NEW c \in Clients, Connect(c) PROVE BootInv'
  <2>1. BootTypeOK' BY <1>4 DEF Connect
  <2>2. SeatInv' BY <1>4 DEF Connect, Behind
  <2>3. QED BY <1>4, <2>1, <2>2, AsideInv DEF Connect, Aside
<1>5. ASSUME NEW c \in Clients, AcceptExtra(c) PROVE BootInv'
  <2>1. BootTypeOK' BY <1>5 DEF AcceptExtra
  <2>2. SeatInv' BY <1>5 DEF AcceptExtra, Behind
  <2>3. QED BY <1>5, <2>1, <2>2, AsideInv DEF AcceptExtra, Aside
<1>6. QED BY <1>1, <1>2, <1>3, <1>4, <1>5 DEF Main

LEMMA ArmTeamInv == ASSUME BootInv, ArmTeam PROVE BootInv'
<1> USE DEF BootInv, ArmTeam, mainVars, clientVars, listenerVars
<1>1. seat[1] \in Teams /\ AgvCount[seat[1]] \in Nat
  BY SeatParts DEF BootTypeOK
<1>2. BootTypeOK'
  <2>1. Mask(seat[1]) \subseteq Nat BY <1>1 DEF Mask
  <2>2. syncFlag' \in [Teams -> SUBSET Nat] BY <2>1 DEF BootTypeOK
  <2>3. QED BY <2>2 DEF BootTypeOK
<1>3. SeatInv' BY DEF SeatInv, Behind
<1>4. QED BY <1>2, <1>3, AsideInv DEF Aside

LEMMA AcceptClientInv == ASSUME BootInv, NEW c \in Clients, AcceptClient(c) PROVE BootInv'
<1> USE DEF BootInv, AcceptClient, mainVars, listenerVars
<1>1. seat \in Seats BY DEF BootTypeOK
<1>2. CASE SlotFree /\ fdList' = fdList \cup {c} /\ apc' = "spawn" /\ UNCHANGED seat
  <2>1. BootTypeOK' BY <1>2 DEF BootTypeOK
  <2>2. SeatInv' BY <1>2 DEF SeatInv, Behind, BootTypeOK
  <2>3. QED BY <1>2, <2>1, <2>2, AsideInv DEF Aside
<1>3. CASE ~SlotFree /\ NextSeat /\ UNCHANGED fdList
  <2>1. BootTypeOK' BY <1>1, <1>3, NextSeatIs DEF BootTypeOK
  <2>2. SeatInv' BY <1>1, <1>3, NextSeatIs DEF SeatInv, BootTypeOK
  <2>3. apc' # "ipc" BY <1>1, <1>3, NextSeatIs
  <2>4. QED BY <1>3, <2>1, <2>2, <2>3, AsideInv DEF Aside
<1>4. QED BY <1>2, <1>3

LEMMA SpawnInv == ASSUME BootInv, Spawn PROVE BootInv'
<1> USE DEF BootInv, Spawn, mainVars, clientVars
<1>1. seat \in Seats BY DEF BootTypeOK
<1>2. lpc[seat] = "absent"
  <2>1. ~Behind(seat)
    BY <1>1, SeatParts DEF Behind
  <2>2. QED BY <1>1, <2>1 DEF SeatInv
<1>3. BootTypeOK' BY DEF BootTypeOK
<1>4. SeatInv' BY DEF SeatInv, Behind, BootTypeOK
<1>5. SocketInv' BY <1>1 DEF SocketInv, BootTypeOK
<1>6. OwnSocket' BY DEF OwnSocket
<1>7. CountInv' BY <1>1, <1>2 DEF CountInv, Waits, BootTypeOK
<1>8. QED BY <1>3, <1>4, <1>5, <1>6, <1>7

\* The accept thread ties the seat it is at to the connection of its own listener.
LEMMA StoreCliInv == ASSUME BootInv, StoreCli PROVE BootInv'
<1> USE DEF BootInv, StoreCli, mainVars, clientVars, listenerVars
<1>1. seat \in Seats /\ pending \in Seq(Seats) BY DEF BootTypeOK
<1>2. pending = <<seat>> /\ lpc[seat] # "connect"
  BY DEF SocketInv, Peer
<1>3. Head(pending) = seat /\ SubSeq(pending, 2, Len(pending)) = <<>>
  BY <1>1, <1>2
<1>4. cli' = [cli EXCEPT ![seat] = seat] /\ pending' = <<>>
  BY <1>2, <1>3 DEF Peer
<1>5. BootTypeOK'
  <2>1. cli' \in [Seats -> Seats \cup {Stdin}] BY <1>1, <1>4 DEF BootTypeOK
  <2>2. pending' \in Seq(Seats)
    <3> HIDE DEF BootInv, StoreCli
    <3>1. <<>> \in Seq(Seats) OBVIOUS
    <3>2. QED BY <1>4, <3>1
  <2>3. seat' \in Seats /\ apc' \in {"accept", "arm", "full"} BY <1>1, NextSeatIs
  <2>4. QED BY <2>1, <2>2, <2>3 DEF BootTypeOK
<1>6. SeatInv' BY <1>1, NextSeatIs DEF SeatInv, BootTypeOK
<1>7. SocketInv'
  <2>1. apc' # "ipc" BY <1>1, NextSeatIs
  <2>2. \A s \in Seats : lpc[s] # "connect" BY <1>2 DEF SocketInv
  <2>3. QED BY <1>4, <2>1, <2>2 DEF SocketInv
<1>8. OwnSocket' BY <1>1, <1>4 DEF OwnSocket, BootTypeOK
<1>9. CountInv' BY DEF CountInv, Waits
<1>10. QED BY <1>5, <1>6, <1>7, <1>8, <1>9

-----------------------------------------------------------------------------
LEMMA IpcConnectInv == ASSUME BootInv, NEW s \in Seats, IpcConnect(s) PROVE BootInv'
<1> USE DEF BootInv, IpcConnect, mainVars, acceptVars, clientVars
<1>1. apc = "ipc" /\ s = seat /\ pending = <<>> BY DEF SocketInv
<1>2. pending' = <<seat>> BY <1>1
<1>3. BootTypeOK'
  <2>1. seat \in Seats BY DEF BootTypeOK
  <2>2. pending' \in Seq(Seats)
    <3> HIDE DEF BootInv, IpcConnect
    <3>1. QED BY <1>2, <2>1
  <2>3. QED BY <2>2 DEF BootTypeOK
<1>4. SeatInv' BY DEF SeatInv, Behind, BootTypeOK
<1>5. SocketInv' BY <1>1, <1>2 DEF SocketInv, BootTypeOK
<1>6. OwnSocket' BY DEF OwnSocket
<1>7. CountInv' BY DEF CountInv, Waits, BootTypeOK
<1>8. QED BY <1>3, <1>4, <1>5, <1>6, <1>7

\* A listener that goes on from one place to another, none of them its start.
GoesOn(s) ==
  /\ lpc[s] \in {"recv", "call", "read"}
  /\ lpc'[s] \in {"recv", "call", "read"}
  /\ \A r \in Seats \ {s} : lpc'[r] = lpc[r]
  /\ UNCHANGED <<mainPc, apc, seat, pending, cli>>

LEMMA GoesOnInv ==
  ASSUME BootInv, NEW s \in Seats, GoesOn(s)
  PROVE  SeatInv' /\ SocketInv' /\ OwnSocket'
<1> USE DEF BootInv, GoesOn
<1>1. SeatInv' BY DEF SeatInv, Behind
<1>2. SocketInv' BY DEF SocketInv, BootTypeOK
<1>3. OwnSocket' BY DEF OwnSocket
<1>4. QED BY <1>1, <1>2, <1>3

LEMMA SetSyncInv == ASSUME BootInv, NEW s \in Seats, SetSync(s) PROVE BootInv'
<1> USE DEF BootInv, SetSync, mainVars, acceptVars, clientVars
<1>1. GoesOn(s) BY DEF GoesOn, BootTypeOK
<1>2. BootTypeOK'
  <2>1. s[1] \in Teams /\ AgvCount[s[1]] \in Nat /\ s[2] \in Nat BY SeatParts
  <2>2. Mask(s[1]) \subseteq Nat BY <2>1 DEF Mask
  <2>3. SymDiff(syncFlag[s[1]], {s[2]}) \subseteq Nat BY <2>1 DEF SymDiff, BootTypeOK
  <2>4. syncFlag' \in [Teams -> SUBSET Nat] BY <2>2, <2>3 DEF BootTypeOK
  <2>5. mail' \in [Seats -> Nat] BY DEF BootTypeOK
  <2>6. arrived' \in [Seats -> 0..Rounds]
    <3>1. arrived[s] \in 0..Rounds BY DEF BootTypeOK
    <3>2. arrived[s] + 1 \in 0..Rounds BY <3>1, CountAssumption
    <3>3. QED BY <3>2 DEF BootTypeOK
  <2>7. QED BY <2>4, <2>5, <2>6 DEF BootTypeOK
<1>3. CountInv'
  <2>1. arrived[s] \in Nat /\ passed[s] \in Nat BY DEF BootTypeOK
  <2>2. ASSUME NEW r \in Seats
        PROVE  /\ arrived'[r] = passed'[r] + Waits(r)'
               /\ lpc'[r] \in {"absent", "connect"} => arrived'[r] = 0
    <3>1. CASE r = s
      <4>1. arrived[s] = passed[s] BY <2>1 DEF CountInv, Waits
      <4>2. arrived'[s] = arrived[s] + 1 /\ passed'[s] = passed[s] /\ lpc'[s] = "call"
        BY DEF BootTypeOK
      <4>3. QED BY <2>1, <3>1, <4>1, <4>2 DEF Waits
    <3>2. CASE r # s BY <3>2 DEF CountInv, Waits, BootTypeOK
    <3>3. QED BY <3>1, <3>2
  <2>3. QED BY <2>2 DEF CountInv
<1>4. QED BY <1>1, <1>2, <1>3, GoesOnInv

LEMMA CallReadInv == ASSUME BootInv, NEW s \in Seats, CallRead(s) PROVE BootInv'
<1> USE DEF BootInv, CallRead, mainVars, acceptVars, clientVars
<1>1. GoesOn(s) BY DEF GoesOn, BootTypeOK
<1>2. cli[s] \in {s, Stdin} BY DEF OwnSocket
<1>3. BootTypeOK' BY DEF BootTypeOK
<1>4. CountInv' BY DEF CountInv, Waits, BootTypeOK
<1>5. \A r \in Seats : fd'[r] \in {r, Stdin} BY <1>2 DEF BootTypeOK
<1>6. QED BY <1>1, <1>3, <1>4, <1>5, GoesOnInv

LEMMA ReadAckInv == ASSUME BootInv, NEW s \in Seats, ReadAck(s) PROVE BootInv'
<1> USE DEF BootInv, ReadAck, mainVars, acceptVars, clientVars
<1>1. GoesOn(s) BY DEF GoesOn, BootTypeOK
<1>2. arrived[s] = passed[s] + 1 /\ arrived[s] \in 0..Rounds /\ passed[s] \in 0..Rounds
  BY DEF CountInv, Waits, BootTypeOK
<1>3. BootTypeOK'
  <2>1. passed[s] + 1 \in 0..Rounds BY <1>2
  <2>2. passed' \in [Seats -> 0..Rounds] BY <2>1 DEF BootTypeOK
  <2>3. mail' \in [Seats -> Nat]
    <3>1. fd[s] # Stdin => fd[s] \in Seats BY DEF BootTypeOK
    <3>2. CASE fd[s] = Stdin /\ UNCHANGED mail BY <3>2 DEF BootTypeOK
    <3>3. CASE /\ fd[s] # Stdin /\ mail[fd[s]] > 0
               /\ mail' = [mail EXCEPT ![fd[s]] = @ - 1]
      <4>1. mail[fd[s]] - 1 \in Nat BY <3>1, <3>3 DEF BootTypeOK
      <4>2. QED BY <3>3, <4>1 DEF BootTypeOK
    <3>4. QED BY <3>2, <3>3
  <2>4. QED BY <2>2, <2>3 DEF BootTypeOK
<1>4. CountInv'
  <2>1. ASSUME NEW r \in Seats
        PROVE  /\ arrived'[r] = passed'[r] + Waits(r)'
               /\ lpc'[r] \in {"absent", "connect"} => arrived'[r] = 0
    <3>1. CASE r = s BY <1>2, <3>1 DEF CountInv, Waits, BootTypeOK
    <3>2. CASE r # s BY <3>2 DEF CountInv, Waits, BootTypeOK
    <3>3. QED BY <3>1, <3>2
  <2>2. QED BY <2>1 DEF CountInv
<1>5. QED BY <1>1, <1>3, <1>4, GoesOnInv

-----------------------------------------------------------------------------
LEMMA BootStutterInv == ASSUME BootInv, UNCHANGED bootVars PROVE BootInv'
<1> USE DEF BootInv, bootVars, mainVars, acceptVars, clientVars, listenerVars
<1>1. BootTypeOK' BY DEF BootTypeOK
<1>2. SeatInv' BY DEF SeatInv, Behind
<1>3. QED BY <1>1, <1>2, AsideInv DEF Aside

LEMMA BootStepInv == ASSUME BootInv, BootNext PROVE BootInv'
BY MainInv, ArmTeamInv, AcceptClientInv, SpawnInv, StoreCliInv, IpcConnectInv,
   SetSyncInv, CallReadInv, ReadAckInv DEF BootNext, Acceptor, Listener

\* Each seat's IPC connection is that of its own listener, for all teams: the accept
\* thread waits for the connection of one listener before it creates the next
\* (tcp_handler.c:130-166).
THEOREM BootInvariant == BootSpec => []BootInv
<1>1. BootInv /\ [BootNext]_bootVars => BootInv'
  BY BootStepInv, BootStutterInv
<1>2. QED BY BootInitInv, <1>1, PTL DEF BootSpec

\* The types of the server's start.
THEOREM BootTypes == BootSpec => []BootTypeOK
<1>1. BootInv => BootTypeOK BY DEF BootInv
<1>2. QED BY BootInvariant, <1>1, PTL

\* No listener ever reads the acknowledgements of another seat (tcp_handler.c:157).
THEOREM SocketsAreOwn == BootSpec => []OwnSocket
<1>1. BootInv => OwnSocket BY DEF BootInv
<1>2. QED BY BootInvariant, <1>1, PTL

-----------------------------------------------------------------------------
\* The teams whose flag has been set
Armed(t) ==
  t < seat[1] \/ (t = seat[1] /\ apc \in {"accept", "spawn", "ipc", "full"})

\* Meetings a listener has reached, the one it is still expected at included
Expected(s) == arrived[s] + Bit(s)

\* The acknowledgements sent to a seat, read or not, are the meetings that are over:
\* as many as each team-mate has reached but for the one the flag is about.
MeetInv ==
  /\ \A t \in Teams : syncFlag[t] \subseteq Mask(t)
  /\ \A t \in Teams : ~Armed(t) => syncFlag[t] = {}
  /\ \A s \in Seats : ~Armed(s[1]) => mail[s] = 0
  /\ \A s, r \in Seats :
       s[1] = r[1] /\ Armed(s[1]) => mail[s] + passed[s] + 1 = Expected(r)

LEMMA Numbers ==
  ASSUME BootInv, NEW s \in Seats
  PROVE  /\ arrived[s] \in Nat /\ passed[s] \in Nat /\ mail[s] \in Nat
         /\ Bit(s) \in {0, 1} /\ Expected(s) \in Nat
<1>1. arrived[s] \in Nat /\ passed[s] \in Nat /\ mail[s] \in Nat
  BY DEF BootInv, BootTypeOK
<1>2. Bit(s) \in {0, 1} BY DEF Bit
<1>3. QED BY <1>1, <1>2 DEF Expected

\* There are listeners in teams whose flag has been set only.
LEMMA ActiveArmed ==
  ASSUME BootInv, NEW s \in Seats, ~Armed(s[1])
  PROVE  lpc[s] = "absent" /\ arrived[s] = 0 /\ passed[s] = 0
<1>1. lpc[s] = "absent"
  <2>1. s[1] \in Nat /\ s[2] \in Nat \ {0} BY SeatParts
  <2>2. seat[1] \in Nat /\ seat[2] \in Nat BY SeatParts DEF BootInv, BootTypeOK
  <2>3. apc \in {"absent", "detach", "arm"} => seat[2] = 1 BY DEF BootInv, SeatInv
  <2>4. apc \in {"absent", "detach", "arm", "accept", "spawn", "ipc", "full"}
    BY DEF BootInv, BootTypeOK
  <2>5. ~Behind(s) /\ ~(s = seat /\ apc \in {"ipc", "full"})
    BY <2>1, <2>2, <2>3, <2>4 DEF Armed, Behind
  <2>6. QED BY <2>5 DEF BootInv, SeatInv
<1>2. arrived[s] = 0 /\ arrived[s] = passed[s] + 0
  BY <1>1 DEF BootInv, CountInv, Waits
<1>3. passed[s] \in Nat BY Numbers
<1>4. QED BY <1>1, <1>2, <1>3

\* Going to the next seat arms no team.
LEMMA NextSeatArms ==
  ASSUME seat \in Seats, NextSeat, apc \in {"accept", "ipc"}, NEW t \in Teams
  PROVE  Armed(t)' <=> Armed(t)
<1>1. seat[1] \in Nat /\ t \in Nat
  BY SeatParts, CountAssumption DEF Teams
<1>2. CASE seat' = <<seat[1], seat[2] + 1>> /\ apc' = "accept"
  <2>1. seat'[1] = seat[1] BY <1>2
  <2>2. QED BY <1>2, <2>1 DEF Armed
<1>3. CASE seat' = <<seat[1] + 1, 1>> /\ apc' = "arm"
  <2>1. seat'[1] = seat[1] + 1 BY <1>3
  <2>2. QED BY <1>1, <1>3, <2>1 DEF Armed
<1>4. CASE seat' = seat /\ apc' = "full"
  BY <1>4 DEF Armed
<1>5. QED BY <1>2, <1>3, <1>4 DEF NextSeat

LEMMA MeetAside ==
  ASSUME MeetInv, UNCHANGED <<syncFlag, mail, arrived, passed>>,
         \A t \in Teams : Armed(t)' <=> Armed(t)
  PROVE  MeetInv'
<1>1. \A s \in Seats : Expected(s)' = Expected(s) BY DEF Expected, Bit
<1>2. \A s \in Seats : Armed(s[1])' <=> Armed(s[1]) BY SeatParts
<1>3. QED BY <1>1, <1>2 DEF MeetInv, Mask

LEMMA MeetInit == BootInit => MeetInv
<1> SUFFICES ASSUME BootInit PROVE MeetInv
  OBVIOUS
<1>1. \A t \in Teams : ~Armed(t)
  <2>1. ASSUME NEW t \in Teams PROVE ~Armed(t)
    <3>1. t \in Nat \ {0} BY CountAssumption DEF Teams
    <3>2. seat[1] = 1 /\ apc = "absent" BY DEF BootInit
    <3>3. QED BY <3>1, <3>2 DEF Armed
  <2>2. QED BY <2>1
<1>2. \A s \in Seats : ~Armed(s[1]) BY <1>1, SeatParts
<1>3. (\A t \in Teams : syncFlag[t] = {}) /\ \A s \in Seats : mail[s] = 0
  BY DEF BootInit
<1>4. QED BY <1>1, <1>2, <1>3 DEF MeetInv

LEMMA ArmTeamMeets == ASSUME BootInv, MeetInv, ArmTeam PROVE MeetInv'
<1>u. PICK u : u = seat[1]
  OBVIOUS
<1>1. seat \in Seats /\ u \in Teams /\ u \in Nat
  BY <1>u, SeatParts DEF BootInv, BootTypeOK
<1>2. /\ ~Armed(u) /\ Armed(u)'
      /\ \A t \in Teams \ {u} : Armed(t)' <=> Armed(t)
  BY <1>u, <1>1 DEF ArmTeam, Armed
<1>3. /\ syncFlag'[u] = Mask(u) /\ UNCHANGED <<mail, arrived, passed>>
      /\ \A t \in Teams \ {u} : syncFlag'[t] = syncFlag[t]
  BY <1>u, <1>1 DEF ArmTeam, BootInv, BootTypeOK, listenerVars
<1>4. ASSUME NEW s \in Seats, s[1] = u
      PROVE  mail'[s] = 0 /\ passed'[s] = 0 /\ Expected(s)' = 1
  <2>1. mail[s] = 0 /\ passed[s] = 0 /\ arrived[s] = 0
    BY <1>2, <1>4, ActiveArmed DEF MeetInv
  <2>2. s[2] \in Mask(u) BY <1>4, SeatParts DEF Mask
  <2>3. Bit(s)' = 1 BY <1>3, <1>4, <2>2 DEF Bit
  <2>4. QED BY <1>3, <2>1, <2>3 DEF Expected
<1>5. ASSUME NEW s \in Seats, s[1] # u PROVE Expected(s)' = Expected(s)
  <2>1. s[1] \in Teams BY SeatParts
  <2>2. QED BY <1>3, <1>5, <2>1 DEF Expected, Bit
<1>6. \A s \in Seats : s[1] # u => (Armed(s[1])' <=> Armed(s[1]))
  BY <1>2, SeatParts
<1>7. \A t \in Teams : Mask(t)' = Mask(t) BY DEF Mask
<1>8. \A t \in Teams : syncFlag'[t] \subseteq Mask(t)'
  BY <1>3, <1>7 DEF MeetInv
<1>9. \A t \in Teams : ~Armed(t)' => syncFlag'[t] = {}
  BY <1>2, <1>3 DEF MeetInv
<1>10. \A s \in Seats : ~Armed(s[1])' => mail'[s] = 0
  BY <1>2, <1>3, <1>6 DEF MeetInv
<1>11. ASSUME NEW s \in Seats, NEW r \in Seats, s[1] = r[1], Armed(s[1])'
       PROVE  mail'[s] + passed'[s] + 1 = Expected(r)'
  <2>1. CASE s[1] = u
    <3>1. mail'[s] = 0 /\ passed'[s] = 0 BY <1>4, <2>1
    <3>2. r[1] = u BY <1>11, <2>1
    <3>3. Expected(r)' = 1 BY <1>4, <3>2
    <3>4. QED BY <3>1, <3>3
  <2>2. CASE s[1] # u
    <3>1. mail[s] + passed[s] + 1 = Expected(r) BY <1>6, <1>11, <2>2 DEF MeetInv
    <3>2. mail'[s] = mail[s] /\ passed'[s] = passed[s] BY <1>3
    <3>3. Expected(r)' = Expected(r) BY <1>5, <1>11, <2>2
    <3>4. QED BY <3>1, <3>2, <3>3
  <2>3. QED BY <2>1, <2>2
<1>12. QED BY <1>8, <1>9, <1>10, <1>11 DEF MeetInv

\* The listener that brings the flag to zero sends every team-mate an
\* acknowledgement and expects all of them again; any other is no longer expected.
LEMMA SetSyncMeets ==
  ASSUME BootInv, MeetInv, NEW s \in Seats, SetSync(s)
  PROVE  MeetInv'
<1> DEFINE t == s[1]
           toggled == SymDiff(syncFlag[t], {s[2]})
<1>1. t \in Teams /\ s[2] \in Mask(t) /\ s \in TeamSeats(t)
  BY SeatParts DEF Mask
<1>2. Armed(t)
  BY ActiveArmed DEF SetSync
<1>3. s[2] \in syncFlag[t] /\ Bit(s) = 1
  <2>1. arrived[s] = passed[s] + 0
    BY DEF BootInv, CountInv, Waits, SetSync
  <2>2. mail[s] + passed[s] + 1 = arrived[s] + Bit(s)
    BY <1>2 DEF MeetInv, Expected
  <2>3. Bit(s) = 1
    BY <2>1, <2>2, Numbers
  <2>4. QED BY <2>3 DEF Bit
<1>4. toggled = syncFlag[t] \ {s[2]}
  BY <1>3 DEF SymDiff
<1>5. \A u \in Teams : Armed(u)' <=> Armed(u)
  BY DEF SetSync, acceptVars, Armed
<1>6. \A r \in Seats : Armed(r[1])' <=> Armed(r[1])
  BY <1>5, SeatParts
<1>7. /\ arrived' = [arrived EXCEPT ![s] = @ + 1] /\ passed' = passed
      /\ syncFlag' = [syncFlag EXCEPT ![t] = IF toggled = {} THEN Mask(t) ELSE toggled]
      /\ mail' = [r \in Seats |->
                    IF r \in (IF toggled = {} THEN TeamSeats(t) ELSE {})
                      THEN mail[r] + 1 ELSE mail[r]]
  BY DEF SetSync
<1> HIDE DEF toggled
<1>8. /\ syncFlag'[t] = (IF toggled = {} THEN Mask(t) ELSE toggled)
      /\ \A u \in Teams \ {t} : syncFlag'[u] = syncFlag[u]
      /\ arrived'[s] = arrived[s] + 1
      /\ \A r \in Seats \ {s} : arrived'[r] = arrived[r]
  BY <1>1, <1>7 DEF BootInv, BootTypeOK
<1>9. ASSUME NEW r \in Seats, r[1] = t
      PROVE  /\ mail'[r] = mail[r] + (IF toggled = {} THEN 1 ELSE 0)
             /\ Expected(r)' = Expected(r) + (IF toggled = {} THEN 1 ELSE 0)
  <2>1. r \in TeamSeats(t) /\ r[2] \in Mask(t) /\ (r # s => r[2] # s[2])
    <3>1. /\ r = <<r[1], r[2]>> /\ s = <<s[1], s[2]>>
          /\ r \in TeamSeats(r[1]) /\ r[2] \in 1..AgvCount[r[1]]
      BY SeatParts
    <3>2. QED BY <1>9, <3>1 DEF Mask
  <2>2. mail'[r] = mail[r] + (IF toggled = {} THEN 1 ELSE 0)
    BY <1>7, <2>1, Numbers
  <2>3. Bit(r)' = IF r[2] \in syncFlag'[t] THEN 1 ELSE 0
    BY <1>9 DEF Bit
  <2>4. Bit(r) = IF r[2] \in syncFlag[t] THEN 1 ELSE 0
    BY <1>9 DEF Bit
  <2>5. CASE r = s
    <3>1. s[2] \notin toggled BY <1>4
    <3>2. Bit(s)' = IF toggled = {} THEN 1 ELSE 0
      BY <1>1, <1>8, <2>3, <2>5, <3>1
    <3>3. QED BY <1>3, <1>8, <2>2, <2>5, <3>2, Numbers DEF Expected
  <2>6. CASE r # s
    <3>1. arrived'[r] = arrived[r] BY <1>8, <2>6
    <3>2. r[2] \in toggled <=> r[2] \in syncFlag[t] BY <1>4, <2>1, <2>6
    <3>3. Bit(r)' = Bit(r) + (IF toggled = {} THEN 1 ELSE 0)
      BY <1>8, <2>1, <2>3, <2>4, <3>2
    <3>4. QED BY <2>2, <3>1, <3>3, Numbers DEF Expected
  <2>7. QED BY <2>5, <2>6
<1>10. ASSUME NEW r \in Seats, r[1] # t
       PROVE  mail'[r] = mail[r] /\ Expected(r)' = Expected(r)
  <2>1. r \notin TeamSeats(t) BY <1>1, <1>10, TeamSeat
  <2>2. r[1] \in Teams /\ r # s BY <1>10, SeatParts
  <2>3. mail'[r] = mail[r] BY <1>7, <2>1
  <2>4. arrived'[r] = arrived[r] /\ syncFlag'[r[1]] = syncFlag[r[1]]
    BY <1>8, <1>10, <2>2
  <2>5. QED BY <2>3, <2>4 DEF Expected, Bit
<1>11. \A u \in Teams : syncFlag'[u] \subseteq Mask(u)'
  <2>1. \A u \in Teams : Mask(u)' = Mask(u) BY DEF Mask
  <2>2. toggled \subseteq Mask(t) BY <1>1, <1>4 DEF MeetInv
  <2>3. QED BY <1>8, <2>1, <2>2 DEF MeetInv
<1>12. \A u \in Teams : ~Armed(u)' => syncFlag'[u] = {}
  BY <1>2, <1>5, <1>8 DEF MeetInv
<1>13. \A r \in Seats : ~Armed(r[1])' => mail'[r] = 0
  BY <1>2, <1>6, <1>10 DEF MeetInv
<1>14. ASSUME NEW q \in Seats, NEW r \in Seats, q[1] = r[1], Armed(q[1])'
       PROVE  mail'[q] + passed'[q] + 1 = Expected(r)'
  <2>1. mail[q] + passed[q] + 1 = Expected(r) BY <1>6, <1>14 DEF MeetInv
  <2>2. mail[q] \in Nat /\ passed[q] \in Nat /\ Expected(r) \in Nat BY Numbers
  <2>3. CASE q[1] = t
    <3>1. /\ mail'[q] = mail[q] + (IF toggled = {} THEN 1 ELSE 0)
          /\ Expected(r)' = Expected(r) + (IF toggled = {} THEN 1 ELSE 0)
      BY <1>9, <1>14, <2>3
    <3>2. QED BY <1>7, <2>1, <2>2, <3>1
  <2>4. CASE q[1] # t
    <3>1. mail'[q] = mail[q] /\ Expected(r)' = Expected(r)
      BY <1>10, <1>14, <2>4
    <3>2. QED BY <1>7, <2>1, <3>1
  <2>5. QED BY <2>3, <2>4
<1>15. QED BY <1>11, <1>12, <1>13, <1>14 DEF MeetInv

\* A listener that does not read from descriptor 0 reads its own acknowledgement.
LEMMA ReadAckMeets ==
  ASSUME BootInv, MeetInv, ReadsAck, NEW s \in Seats, ReadAck(s)
  PROVE  MeetInv'
<1>1. fd[s] = s
  BY DEF ReadAck, ReadsAck, AtTerminal, BootInv
<1>2. s # Stdin BY SeatParts
<1>3. /\ mail[s] > 0 /\ mail' = [mail EXCEPT ![s] = @ - 1]
      /\ passed' = [passed EXCEPT ![s] = @ + 1]
      /\ UNCHANGED <<arrived, syncFlag, acceptVars>>
  BY <1>1, <1>2 DEF ReadAck
<1>4. \A r \in Seats : mail'[r] + passed'[r] = mail[r] + passed[r]
  <2>1. ASSUME NEW r \in Seats PROVE mail'[r] + passed'[r] = mail[r] + passed[r]
    <3>1. CASE r = s
      <4>1. mail'[s] = mail[s] - 1 /\ passed'[s] = passed[s] + 1
        BY <1>3 DEF BootInv, BootTypeOK
      <4>2. QED BY <3>1, <4>1, Numbers
    <3>2. CASE r # s BY <1>3, <3>2 DEF BootInv, BootTypeOK
    <3>3. QED BY <3>1, <3>2
  <2>2. QED BY <2>1
<1>5. \A u \in Teams : Armed(u)' <=> Armed(u) BY <1>3 DEF acceptVars, Armed
<1>6. \A r \in Seats : Armed(r[1])' <=> Armed(r[1]) BY <1>5, SeatParts
<1>7. \A r \in Seats : Expected(r)' = Expected(r) BY <1>3 DEF Expected, Bit
<1>8. Armed(s[1]) BY ActiveArmed DEF ReadAck
<1>9. \A r \in Seats : ~Armed(r[1])' => mail'[r] = 0
  <2>1. ASSUME NEW r \in Seats, ~Armed(r[1])' PROVE mail'[r] = 0
    <3>1. r # s BY <1>6, <1>8, <2>1
    <3>2. mail'[r] = mail[r] BY <1>3, <3>1 DEF BootInv, BootTypeOK
    <3>3. QED BY <1>6, <2>1, <3>2 DEF MeetInv
  <2>2. QED BY <2>1
<1>10. QED BY <1>3, <1>4, <1>5, <1>6, <1>7, <1>9 DEF MeetInv, Mask

LEMMA MeetStep ==
  ASSUME BootInv, MeetInv, ReadsAck, BootNext
  PROVE  MeetInv'
<1> USE DEF mainVars, acceptVars, clientVars, listenerVars
<1>1. CASE Main
  <2>1. UNCHANGED <<syncFlag, mail, arrived, passed, seat>>
    BY <1>1 DEF Main, CreateAccept, Join
  <2>2. \A t \in Teams : Armed(t)' <=> Armed(t)
    BY <1>1 DEF Main, CreateAccept, Join, Armed, BootInv, SeatInv
  <2>3. QED BY <2>1, <2>2, MeetAside
<1>2. CASE Detach BY <1>2, MeetAside DEF Detach, Armed
<1>3. CASE ArmTeam BY <1>3, ArmTeamMeets
<1>4. CASE Spawn BY <1>4, MeetAside DEF Spawn, Armed
<1>5. CASE StoreCli
  <2>1. \A t \in Teams : Armed(t)' <=> Armed(t)
    BY <1>5, NextSeatArms DEF StoreCli, BootInv, BootTypeOK
  <2>2. QED BY <1>5, <2>1, MeetAside DEF StoreCli
<1>6. ASSUME NEW c \in Clients, AcceptClient(c) PROVE MeetInv'
  <2>1. \A t \in Teams : Armed(t)' <=> Armed(t)
    <3>1. CASE apc' = "spawn" /\ UNCHANGED seat BY <1>6, <3>1 DEF AcceptClient, Armed
    <3>2. CASE NextSeat
      BY <1>6, <3>2, NextSeatArms DEF AcceptClient, BootInv, BootTypeOK
    <3>3. QED BY <1>6, <3>1, <3>2 DEF AcceptClient
  <2>2. QED BY <1>6, <2>1, MeetAside DEF AcceptClient
<1>7. ASSUME NEW c \in Clients, AcceptExtra(c) \/ Connect(c) PROVE MeetInv'
  BY <1>7, MeetAside DEF AcceptExtra, Connect, Armed
<1>8. ASSUME NEW s \in Seats, IpcConnect(s) \/ CallRead(s) PROVE MeetInv'
  BY <1>8, MeetAside DEF IpcConnect, CallRead, Armed
<1>9. ASSUME NEW s \in Seats, SetSync(s) \/ ReadAck(s) PROVE MeetInv'
  BY <1>9, SetSyncMeets, ReadAckMeets
<1>10. QED
  BY <1>1, <1>2, <1>3, <1>4, <1>5, <1>6, <1>7, <1>8, <1>9
  DEF BootNext, Acceptor, Listener

LEMMA InvMeets == BootInv /\ MeetInv => TeamsMeet
<1> SUFFICES ASSUME BootInv, MeetInv, NEW t \in Teams,
                    NEW s \in TeamSeats(t), NEW r \in TeamSeats(t)
             PROVE  Together(s, r)
  BY DEF TeamsMeet
<1>1. s \in Seats /\ r \in Seats /\ s[1] = t /\ r[1] = t BY TeamSeat
<1>2. /\ passed[s] \in Nat /\ mail[s] \in Nat /\ arrived[r] \in Nat
      /\ Bit(s) \in {0, 1} /\ Bit(r) \in {0, 1}
  BY <1>1, Numbers
<1>3. CASE Armed(t)
  <2>1. /\ mail[s] + passed[s] + 1 = arrived[r] + Bit(r)
        /\ mail[s] + passed[s] + 1 = arrived[s] + Bit(s)
    BY <1>1, <1>3 DEF MeetInv, Expected
  <2>2. QED BY <1>2, <2>1 DEF Together
<1>4. CASE ~Armed(t)
  <2>1. passed[s] = 0 /\ arrived[s] = 0 /\ arrived[r] = 0
    BY <1>1, <1>4, ActiveArmed
  <2>2. syncFlag[t] = {} BY <1>4 DEF MeetInv
  <2>3. Bit(s) = 0 /\ Bit(r) = 0 BY <1>1, <2>2 DEF Bit
  <2>4. QED BY <2>1, <2>3 DEF Together
<1>5. QED BY <1>3, <1>4

\* As long as no listener reads from descriptor 0, nobody leaves a meeting before the
\* whole team, those not yet connected included, has reached it, in all teams
\* (tcp_handler.c:37-54, 133, 239).
THEOREM MeetingsAreSound == BootSpec => MeetUnlessRaced
<1>1. BootInv /\ MeetInv /\ ReadsAck /\ [BootNext]_bootVars => MeetInv'
  <2>1. ASSUME MeetInv, UNCHANGED bootVars PROVE MeetInv'
    BY <2>1, MeetAside DEF bootVars, acceptVars, listenerVars, Armed
  <2>2. QED BY <2>1, MeetStep
<1>2. QED BY BootInvariant, MeetInit, InvMeets, <1>1, PTL DEF BootSpec, MeetUnlessRaced
=============================================================================
