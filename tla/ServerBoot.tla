------------------------------ MODULE ServerBoot ------------------------------
(***************************************************************************)
(* The start of the server: main creates the accept thread and joins it     *)
(* (server/src/main.c); the accept thread fills one team after the other    *)
(* with the clients that connect, creates a listener thread for each and    *)
(* then stores the end of the listener's IPC connection from which it is to *)
(* read (TCP_accept, server/src/lib/tcp_handler.c); the listeners connect,  *)
(* greet their clients and go to the meetings of their teams.               *)
(*                                                                          *)
(* Dispatch takes the acceptance of a client as one step; here its steps    *)
(* interleave with the listener it creates.  The barrier, shown to be sound *)
(* in SyncBarrier, is one step per call of set_sync here.                   *)
(***************************************************************************)
EXTENDS Integers, Sequences, FiniteSetsExt

CONSTANTS
  AgvCount,           \* AgvCount[t]: AGVs of team t in the configuration
  Clients,            \* AGV programs that connect
  MaxClient,          \* MAX_CLIENT: slots of socket_fd_list
  Rounds              \* meetings each listener goes to

Teams == DOMAIN AgvCount
Seats == UNION {{t} \X (1..AgvCount[t]) : t \in Teams}   \* team, agv

ASSUME CountAssumption ==
  /\ IsFiniteSet(Clients)
  /\ AgvCount \in Seq(Nat \ {0}) /\ AgvCount # <<>>
  /\ MaxClient \in Nat
  /\ Rounds \in Nat

Stdin == <<0, 0>>     \* a descriptor of value 0: agv_ipc_cli is a zeroed global

VARIABLES
  mainPc,             \* main: create, join, wait for the thread, or gone
  detached,           \* the accept thread has detached itself
  apc,                \* where the accept thread is
  seat,               \* its loop indices, counted from 1: <<team, agv>>
  fdList,             \* socket_fd_list: clients in its slots
  connected,          \* clients whose connect() waits to be accepted
  accepted,           \* clients that have been accepted
  syncFlag,           \* sync_flag[t]: AGVs still expected at the meeting
  pending,            \* connections waiting on the IPC socket
  cli,                \* agv_ipc_cli: the connection a seat's listener reads
  lpc,                \* where the listener of a seat is
  fd,                 \* the descriptor it called read() with
  mail,               \* acknowledgements unread in a seat's connection
  arrived, passed     \* meetings a listener has reached, and left

mainVars == <<mainPc, detached>>
acceptVars == <<apc, seat, fdList>>
clientVars == <<connected, accepted>>
listenerVars == <<lpc, fd, mail, arrived, passed>>
bootVars == <<mainVars, acceptVars, clientVars, syncFlag, pending, cli, listenerVars>>

BootInit ==
  /\ mainPc = "create"
  /\ detached = FALSE
  /\ apc = "absent"
  /\ seat = <<1, 1>>
  /\ fdList = {}
  /\ connected = {}
  /\ accepted = {}
  /\ syncFlag = [t \in Teams |-> {}]
  /\ pending = <<>>
  /\ cli = [s \in Seats |-> Stdin]
  /\ lpc = [s \in Seats |-> "absent"]
  /\ fd = [s \in Seats |-> Stdin]
  /\ mail = [s \in Seats |-> 0]
  /\ arrived = [s \in Seats |-> 0]
  /\ passed = [s \in Seats |-> 0]

-----------------------------------------------------------------------------
\* main: pthread_create(TCP_accept_adapter), after socket, bind and malloc
CreateAccept ==
  /\ mainPc = "create"
  /\ mainPc' = "join"
  /\ apc' = "detach"
  /\ UNCHANGED <<detached, seat, fdList, clientVars, syncFlag, pending, cli, listenerVars>>

\* pthread_join waits for the thread, whose loop is endless.  Joining a thread that
\* is detached is undefined: it may also return at once, and main with it.
Join ==
  /\ mainPc = "join"
  /\ mainPc' \in IF detached THEN {"wait", "gone"} ELSE {"wait"}
  /\ UNCHANGED <<detached, acceptVars, clientVars, syncFlag, pending, cli, listenerVars>>

\* pthread_detach(pthread_self()), without effect when main already waits for the
\* thread; then listen() and ipc_listen()
Detach ==
  /\ apc = "detach"
  /\ detached' = (mainPc # "wait")
  /\ apc' = "arm"
  /\ UNCHANGED <<mainPc, seat, fdList, clientVars, syncFlag, pending, cli, listenerVars>>

\* A client's connect() succeeds as soon as the server listens
Connect(c) ==
  /\ apc \notin {"absent", "detach"}
  /\ c \notin connected \cup accepted
  /\ connected' = connected \cup {c}
  /\ UNCHANGED <<mainVars, acceptVars, accepted, syncFlag, pending, cli, listenerVars>>

-----------------------------------------------------------------------------
\* Mutant of Mask: the bits of the first team for all
MaskOfFirst(t) == 1..AgvCount[1]

\* (1 << agv_count) - 1
Mask(t) == 1..AgvCount[t]

\* The outer loop of TCP_accept: sync_flag[i] is set for the next team
ArmTeam ==
  /\ apc = "arm"
  /\ syncFlag' = [syncFlag EXCEPT ![seat[1]] = Mask(seat[1])]
  /\ apc' = "accept"
  /\ UNCHANGED <<mainVars, seat, fdList, clientVars, pending, cli, listenerVars>>

\* Mutant of NextSeat: the index runs one past the last AGV of a team
NextSeatPast ==
  LET t == seat[1]
  IN  \/ seat[2] <= AgvCount[t] /\ seat' = <<t, seat[2] + 1>> /\ apc' = "accept"
      \/ /\ seat[2] > AgvCount[t]
         /\ IF t < Len(AgvCount) THEN seat' = <<t + 1, 1>> /\ apc' = "arm"
            ELSE UNCHANGED seat /\ apc' = "full"

\* j++, and i++ after the last AGV of a team
NextSeat ==
  LET t == seat[1]
  IN  \/ seat[2] < AgvCount[t] /\ seat' = <<t, seat[2] + 1>> /\ apc' = "accept"
      \/ /\ seat[2] = AgvCount[t]
         /\ IF t < Len(AgvCount) THEN seat' = <<t + 1, 1>> /\ apc' = "arm"
            ELSE UNCHANGED seat /\ apc' = "full"

\* Mutant of SlotFree: the last slot is never used
SlotFreeShort == Cardinality(fdList) < MaxClient - 1

\* The search for a slot of socket_fd_list that is 0
SlotFree == Cardinality(fdList) < MaxClient

\* accept() of the client for this seat; without a slot the seat stays empty
AcceptClient(c) ==
  /\ apc = "accept"
  /\ c \in connected
  /\ connected' = connected \ {c}
  /\ accepted' = accepted \cup {c}
  /\ \/ SlotFree /\ fdList' = fdList \cup {c} /\ apc' = "spawn" /\ UNCHANGED seat
     \/ ~SlotFree /\ NextSeat /\ UNCHANGED fdList
  /\ UNCHANGED <<mainVars, syncFlag, pending, cli, listenerVars>>

\* pthread_create(TCP_linstener_adapter)
Spawn ==
  /\ apc = "spawn"
  /\ lpc' = [lpc EXCEPT ![seat] = "connect"]
  /\ apc' = "ipc"
  /\ UNCHANGED <<mainVars, seat, fdList, clientVars, syncFlag, pending, cli, fd, mail,
                 arrived, passed>>

\* Mutant of Peer: the accept thread does not wait
PeerTooEarly == IF pending = <<>> THEN {Stdin} ELSE {Head(pending)}

\* What ipc_accept(serv_ipc) may return: it waits for a connection
Peer == IF pending = <<>> THEN {} ELSE {Head(pending)}

\* agv_ipc_cli[team][agv] = ipc_accept(serv_ipc)
StoreCli ==
  /\ apc = "ipc"
  /\ \E p \in Peer :
       /\ cli' = [cli EXCEPT ![seat] = p]
       /\ pending' = SubSeq(pending, 2, Len(pending))
  /\ NextSeat
  /\ UNCHANGED <<mainVars, fdList, clientVars, syncFlag, listenerVars>>

\* All teams are full: the connection is accepted, and nothing serves it
AcceptExtra(c) ==
  /\ apc = "full"
  /\ c \in connected
  /\ connected' = connected \ {c}
  /\ accepted' = accepted \cup {c}
  /\ UNCHANGED <<mainVars, acceptVars, syncFlag, pending, cli, listenerVars>>

Main == CreateAccept \/ Join
Acceptor ==
  \/ Detach \/ ArmTeam \/ Spawn \/ StoreCli
  \/ \E c \in Clients : AcceptClient(c) \/ AcceptExtra(c)

-----------------------------------------------------------------------------
\* agv_ipc_sev[team][agv] = ipc_connect(): connect() does not wait for accept()
IpcConnect(s) ==
  /\ lpc[s] = "connect"
  /\ pending' = Append(pending, s)
  /\ lpc' = [lpc EXCEPT ![s] = "recv"]
  /\ UNCHANGED <<mainVars, acceptVars, clientVars, syncFlag, cli, fd, mail, arrived,
                 passed>>

TeamSeats(t) == {t} \X (1..AgvCount[t])

\* The client acknowledges, and its next command asks for a meeting: set_sync, with
\* trigger_team in the listener that brings the flag to zero
SetSync(s) ==
  LET t == s[1]
      toggled == SymDiff(syncFlag[t], {s[2]})
      woken == IF toggled = {} THEN TeamSeats(t) ELSE {}
  IN
  /\ lpc[s] = "recv"
  /\ arrived[s] < Rounds
  /\ arrived' = [arrived EXCEPT ![s] = @ + 1]
  /\ syncFlag' = [syncFlag EXCEPT ![t] = IF toggled = {} THEN Mask(t) ELSE toggled]
  /\ mail' = [r \in Seats |-> IF r \in woken THEN mail[r] + 1 ELSE mail[r]]
  /\ lpc' = [lpc EXCEPT ![s] = "call"]
  /\ UNCHANGED <<mainVars, acceptVars, clientVars, pending, cli, fd, passed>>

\* read(agv_ipc_cli[team][agv], ...) is called with the descriptor stored by now
CallRead(s) ==
  /\ lpc[s] = "call"
  /\ fd' = [fd EXCEPT ![s] = cli[s]]
  /\ lpc' = [lpc EXCEPT ![s] = "read"]
  /\ UNCHANGED <<mainVars, acceptVars, clientVars, syncFlag, pending, cli, mail, arrived,
                 passed>>

\* read() returns an acknowledgement, or what comes from the server's terminal
ReadAck(s) ==
  /\ lpc[s] = "read"
  /\ \/ fd[s] = Stdin /\ UNCHANGED mail
     \/ fd[s] # Stdin /\ mail[fd[s]] > 0 /\ mail' = [mail EXCEPT ![fd[s]] = @ - 1]
  /\ passed' = [passed EXCEPT ![s] = @ + 1]
  /\ lpc' = [lpc EXCEPT ![s] = "recv"]
  /\ UNCHANGED <<mainVars, acceptVars, clientVars, syncFlag, pending, cli, fd, arrived>>

Listener(s) == IpcConnect(s) \/ SetSync(s) \/ CallRead(s) \/ ReadAck(s)

\* The process ends with main; a thread is between its steps when it does
BootNext ==
  /\ mainPc # "gone"
  /\ \/ Main \/ Acceptor
     \/ \E c \in Clients : Connect(c)
     \/ \E s \in Seats : Listener(s)

BootSpec == BootInit /\ [][BootNext]_bootVars

AtTerminal(s) == lpc[s] = "read" /\ fd[s] = Stdin

\* Threads run, and enough clients connect.  Nobody need type at the terminal.
FairBoot ==
  /\ BootSpec
  /\ WF_bootVars(mainPc # "gone" /\ Main)
  /\ WF_bootVars(mainPc # "gone" /\ Acceptor)
  /\ \A c \in Clients : WF_bootVars(mainPc # "gone" /\ Connect(c))
  /\ \A s \in Seats :
       WF_bootVars(mainPc # "gone" /\ ~AtTerminal(s) /\ Listener(s))

-----------------------------------------------------------------------------
\* Type invariant of the start of the server.
BootTypeOK ==
  /\ mainPc \in {"create", "join", "wait", "gone"}
  /\ detached \in BOOLEAN
  /\ apc \in {"absent", "detach", "arm", "accept", "spawn", "ipc", "full"}
  /\ seat \in Seats
  /\ fdList \subseteq accepted /\ accepted \subseteq Clients
  /\ connected \subseteq Clients \ accepted
  /\ syncFlag \in [Teams -> SUBSET Nat]
  /\ pending \in Seq(Seats)
  /\ cli \in [Seats -> Seats \cup {Stdin}]
  /\ lpc \in [Seats -> {"absent", "connect", "recv", "call", "read"}]
  /\ fd \in [Seats -> Seats \cup {Stdin}]
  /\ mail \in [Seats -> Nat]
  /\ arrived \in [Seats -> 0..Rounds] /\ passed \in [Seats -> 0..Rounds]

(***************************************************************************)
(* Each seat's descriptor leads to the connection its own listener made:    *)
(* the IPC connections carry no name, only the order in which the accept    *)
(* thread creates listeners and accepts ties them (tcp_handler.c:153-157).  *)
(***************************************************************************)
OwnSocket == \A s \in Seats : cli[s] \in {s, Stdin}

(***************************************************************************)
(* As long as no listener reads from descriptor 0, the meetings of a team   *)
(* that is still being filled are sound: nobody leaves one before all of    *)
(* the team, those not yet connected included, have arrived, and the bits   *)
(* of the flag tell who has (tcp_handler.c:133, 37-54, 239).                *)
(***************************************************************************)
Bit(s) == IF s[2] \in syncFlag[s[1]] THEN 1 ELSE 0
Together(s, r) ==
  /\ passed[s] <= arrived[r]
  /\ arrived[s] + Bit(s) = arrived[r] + Bit(r)
TeamsMeet == \A t \in Teams : \A s, r \in TeamSeats(t) : Together(s, r)
ReadsAck == \A s \in Seats : ~AtTerminal(s)
MeetUnlessRaced == ([]ReadsAck) => []TeamsMeet

(***************************************************************************)
(* Every seat of every team gets a client and a listener, when as many      *)
(* clients connect and the server stays up (tcp_handler.c:130-166).         *)
(***************************************************************************)
EverySeatTaken ==
  <>(mainPc = "gone" \/ \A s \in Seats : lpc[s] # "absent" /\ cli[s] = s)
=============================================================================
