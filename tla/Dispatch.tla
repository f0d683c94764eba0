------------------------------- MODULE Dispatch -------------------------------
(***************************************************************************)
(* How one team executes its scripts.  For each AGV the server runs a       *)
(* listener thread (TCP_linstener, server/src/lib/tcp_handler.c) that sends *)
(* the next command of the AGV's script when the AGV acknowledged the last  *)
(* one, going first through as many meetings of the team's barrier as the   *)
(* command's sync says.  The AGV (command_manager,                          *)
(* client/src/lib/command_manager.c) receives a command, collects the other *)
(* parts of a command that needs several, executes it and acknowledges.     *)
(*                                                                          *)
(* The module extends the barrier: its threads are the listeners.  A        *)
(* command is abstracted to its position in the script (0 is the SET_ID     *)
(* that greets a client), the sensor frames to what the listener tells      *)
(* apart.  Each TCP connection is two FIFO channels; a listener's accept,   *)
(* its IPC connection and ipc_accept are one step.                          *)
(***************************************************************************)
EXTENDS SyncBarrier, Sequences

CONSTANTS
  Script,             \* Script[a]: get_command's list of [op, pf, sync]
  Due                 \* Due[a][i]: sum of the sync of commands 1..i of Script[a]

Ops == {"MOS_COS", "QR_TURN", "MOS_TURN", "MOS_GO", "MOS_CIR", "QR_TO_QR", "TO_QR"}

\* How many frames a command is sent in: count in command_manager.c
PartsOf(op) == CASE op \in {"MOS_CIR", "QR_TO_QR"} -> 2
                 [] op = "TO_QR" -> 4
                 [] OTHER -> 1

Command == [op : Ops, pf : 0..3, sync : Nat]

\* get_command never returns an empty list, and TCP_linstener relies on it
ASSUME ScriptAssumption ==
  \A a \in Agv : Script[a] \in Seq(Command) /\ Script[a] # <<>>

\* get_command emits the parts of a command one after the other, pf = 0, 1, ...
ASSUME PartsAssumption ==
  \A a \in Agv : \A i \in 1..Len(Script[a]) :
    LET c == Script[a][i]
    IN  IF c.pf = 0
          THEN \A p \in 0..(PartsOf(c.op) - 1) :
                 /\ i + p <= Len(Script[a])
                 /\ Script[a][i + p].op = c.op /\ Script[a][i + p].pf = p
          ELSE /\ c.pf < PartsOf(c.op) /\ i > 1
               /\ Script[a][i - 1].op = c.op /\ Script[a][i - 1].pf = c.pf - 1

ASSUME DueAssumption ==
  \A a \in Agv :
    /\ Due[a] \in [0..Len(Script[a]) -> Nat]
    /\ Due[a][0] = 0
    /\ \A i \in 1..Len(Script[a]) : Due[a][i] = Due[a][i - 1] + Script[a][i].sync
    /\ Syncs[a] = Due[a][Len(Script[a])]
    \* follows by induction, which the provers lack
    /\ \A i, j \in 0..Len(Script[a]) : i <= j => Due[a][i] <= Due[a][j]

VARIABLES
  lpc,                \* where listener a is: not yet accepted, in its loop, ...
  text,               \* text[a]: position of the next command to send
  syncCount,          \* sync_count: meetings left before that command
  down, up,           \* the TCP connection of a: to the AGV, to the server
  cpc,                \* where command_manager of AGV a is
  parts,              \* frames received of the command being collected
  missing             \* count: frames still to receive of that command

listenerVars == <<lpc, text, syncCount>>
clientVars == <<cpc, parts, missing>>
dispatchVars == <<barrierVars, listenerVars, down, up, clientVars>>

\* client_id, position: the op of a frame
OpOf(a, i) == IF i = 0 THEN "SET_ID" ELSE Script[a][i].op

DispatchInit ==
  /\ Init
  /\ lpc = [a \in Agv |-> "none"]
  /\ text = [a \in Agv |-> 1]
  /\ syncCount = [a \in Agv |-> 0]
  /\ down = [a \in Agv |-> <<>>]
  /\ up = [a \in Agv |-> <<>>]
  /\ cpc = [a \in Agv |-> "recv"]
  /\ parts = [a \in Agv |-> <<>>]
  /\ missing = [a \in Agv |-> 0]

-----------------------------------------------------------------------------
\* TCP_accept's loop: the clients get the numbers 1..N in the order they come,
\* each with a listener thread and its pair of IPC sockets.
Accept(a) ==
  /\ lpc[a] = "none"
  /\ \A b \in 1..(a - 1) : lpc[b] # "none"
  /\ lpc' = [lpc EXCEPT ![a] = "greet"]
  /\ UNCHANGED <<barrierVars, text, syncCount, down, up, clientVars>>

\* send(SET_ID); get_command computes the script
Greet(a) ==
  /\ lpc[a] = "greet"
  /\ lpc' = [lpc EXCEPT ![a] = "recv"]
  /\ down' = [down EXCEPT ![a] = Append(@, 0)]
  /\ UNCHANGED <<barrierVars, text, syncCount, up, clientVars>>

\* Mutant of SyncOf: do ... while instead of while
SyncOfDoWhile(a) == Script[a][text[a]].sync + 1

\* text->sync
SyncOf(a) == Script[a][text[a]].sync

\* recv(id->socket, &sensor_data_buf, 4) and sensor_data_decoder.  The clients
\* send acknowledgements only (nobody orders the QR reader TO_SERVER), and the
\* shared buffer is read for its type and value, the same whoever wrote it last.
Recv(a) ==
  /\ lpc[a] = "recv"
  /\ up[a] # <<>>
  /\ up' = [up EXCEPT ![a] = Tail(@)]
  /\ syncCount' = [syncCount EXCEPT ![a] = SyncOf(a)]
  /\ lpc' = [lpc EXCEPT ![a] = "sync"]
  /\ UNCHANGED <<barrierVars, text, down, clientVars>>

\* while(sync_count--) set_sync(...): one more meeting
EnterSync(a) ==
  /\ lpc[a] = "sync"
  /\ syncCount[a] > 0
  /\ Lock(a)
  /\ syncCount' = [syncCount EXCEPT ![a] = @ - 1]
  /\ UNCHANGED <<lpc, text, down, up, clientVars>>

\* The rest of set_sync and the read of the acknowledgement
InSync(a) ==
  /\ LoadFlag(a) \/ StoreFlag(a) \/ Trigger(a) \/ Unlock(a) \/ ReadAck(a)
  /\ UNCHANGED <<listenerVars, down, up, clientVars>>

\* Mutant of Met: the last acknowledgement is not waited for
MetEarly(a) == syncCount[a] = 0

\* The AGV has been through all the meetings before its next command
Met(a) == syncCount[a] = 0 /\ pc[a] = "run"

\* send(text->val), then text->next; the thread ends after the last command
Send(a) ==
  /\ lpc[a] = "sync"
  /\ Met(a)
  /\ down' = [down EXCEPT ![a] = Append(@, text[a])]
  /\ text' = [text EXCEPT ![a] = @ + 1]
  /\ lpc' = [lpc EXCEPT ![a] = IF text[a] = Len(Script[a]) THEN "done" ELSE "recv"]
  /\ UNCHANGED <<barrierVars, syncCount, up, clientVars>>

Listener(a) ==
  \/ Accept(a) \/ Greet(a) \/ Recv(a)
  \/ EnterSync(a) \/ InSync(a) \/ Send(a)

-----------------------------------------------------------------------------
\* Mutants of Collected and AfterFrame: the frames of the command before are kept;
\* only the last frame of a command is acknowledged
CollectedStale(a, i) == Append(parts[a], i)
AfterFrameSilent(count) == IF count = 1 THEN "exec" ELSE "recv"

\* The frames of the command being received, with frame i
Collected(a, i) == IF missing[a] = 0 THEN <<i>> ELSE Append(parts[a], i)

\* Each frame is acknowledged, the last one when the motion has ended
AfterFrame(count) == IF count = 1 THEN "exec" ELSE "ack"

\* --count
FramesLeft(a, count) == count - 1

\* recv_c and command_dcode: the first frame says how many the command needs
RecvCommand(a) ==
  LET i == Head(down[a])
      count == IF missing[a] = 0 THEN PartsOf(OpOf(a, i)) ELSE missing[a]
  IN
  /\ cpc[a] = "recv"
  /\ down[a] # <<>>
  /\ down' = [down EXCEPT ![a] = Tail(@)]
  /\ parts' = [parts EXCEPT ![a] = Collected(a, i)]
  /\ missing' = [missing EXCEPT ![a] = FramesLeft(a, count)]
  /\ cpc' = [cpc EXCEPT ![a] = AfterFrame(count)]
  /\ UNCHANGED <<barrierVars, listenerVars, up>>

\* qr_turn, qe_turn, qe_go, qe_cir, qr_to_qr or to_qr returns
Finish(a) ==
  /\ cpc[a] = "exec"
  /\ cpc' = [cpc EXCEPT ![a] = "ack"]
  /\ UNCHANGED <<barrierVars, listenerVars, down, up, parts, missing>>

\* Mutant of SendAck: the case acknowledges, and the end of the loop again
SendAckTwice(a) ==
  /\ cpc[a] = "ack"
  /\ up' = [up EXCEPT ![a] = @ \o <<"ack", "ack">>]
  /\ cpc' = [cpc EXCEPT ![a] = "recv"]
  /\ UNCHANGED <<barrierVars, listenerVars, down, parts, missing>>

\* send_s(sensor_data_encoder(agv_id, 0x07, 0xffffffff))
SendAck(a) ==
  /\ cpc[a] = "ack"
  /\ up' = [up EXCEPT ![a] = Append(@, "ack")]
  /\ cpc' = [cpc EXCEPT ![a] = "recv"]
  /\ UNCHANGED <<barrierVars, listenerVars, down, parts, missing>>

Client(a) == RecvCommand(a) \/ Finish(a) \/ SendAck(a)

-----------------------------------------------------------------------------
\* The last acknowledgement stays unread: no listener is left to read it.
AllDone ==
  \A a \in Agv : lpc[a] = "done" /\ cpc[a] = "recv" /\ down[a] = <<>>

AllDoneStutter == AllDone /\ UNCHANGED dispatchVars

DispatchNext == (\E a \in Agv : Listener(a) \/ Client(a)) \/ AllDoneStutter

DispatchSpec == DispatchInit /\ [][DispatchNext]_dispatchVars

\* Both programs' threads run, the network delivers, and motions end
FairDispatch ==
  /\ DispatchSpec
  /\ \A a \in Agv : WF_dispatchVars(Listener(a)) /\ WF_dispatchVars(Client(a))

-----------------------------------------------------------------------------
\* Type invariant of the listeners, the connections and the clients.
DispatchTypeOK ==
  /\ TypeOK
  /\ lpc \in [Agv -> {"none", "greet", "recv", "sync", "done"}]
  /\ text \in [Agv -> Nat \ {0}]
  /\ \A a \in Agv : text[a] <= Len(Script[a]) + 1
  /\ syncCount \in [Agv -> Nat]
  /\ down \in [Agv -> Seq(Nat)]
  /\ up \in [Agv -> Seq({"ack"})]
  /\ cpc \in [Agv -> {"recv", "exec", "ack"}]
  /\ parts \in [Agv -> Seq(Nat)]
  /\ missing \in [Agv -> 0..3]

\* The AGV's wheels are turning: it executes a command of its script.
LastPart(a) == parts[a][Len(parts[a])]
Moving(a) == cpc[a] = "exec" /\ LastPart(a) # 0

(***************************************************************************)
(* The team moves in step: two AGVs that move at the same time execute      *)
(* commands their scripts placed after the same number of meetings          *)
(* (tcp_handler.c:230-251 with command_manager.c:196).                      *)
(***************************************************************************)
InStep ==
  \A a, b \in Agv :
    Moving(a) /\ Moving(b) => Due[a][LastPart(a)] = Due[b][LastPart(b)]

(***************************************************************************)
(* Every command the AGV executes is made of the consecutive frames of one  *)
(* command of the script, each in the local its pf names: no frame is       *)
(* skipped, doubled or taken for a part of another (command_manager.c:77-192)*)
(***************************************************************************)
WholeCommand ==
  \A a \in Agv : Moving(a) =>
    LET first == parts[a][1]
    IN  /\ first \in 1..Len(Script[a])
        /\ Len(parts[a]) = PartsOf(Script[a][first].op)
        /\ \A k \in 1..Len(parts[a]) :
             /\ parts[a][k] = first + k - 1
             /\ Script[a][parts[a][k]].op = Script[a][first].op
             /\ Script[a][parts[a][k]].pf = k - 1

(***************************************************************************)
(* Stop and wait: a command and its acknowledgement are never outstanding   *)
(* together, so neither end's send() can block on a full socket and no      *)
(* frame is ever read while another waits behind it                         *)
(* (tcp_handler.c:193, 248; command_manager.c:34, 196).                     *)
(***************************************************************************)
ListenerBusy(a) == lpc[a] \in {"none", "greet", "sync"}
ClientBusy(a) == cpc[a] # "recv"
OneFrame(a) ==
  /\ ListenerBusy(a) => ~ClientBusy(a) /\ down[a] = <<>> /\ up[a] = <<>>
  /\ ClientBusy(a) => down[a] = <<>> /\ up[a] = <<>>
  /\ Len(down[a]) + Len(up[a]) <= 1

StopAndWait == \A a \in Agv : OneFrame(a)

\* Where each AGV is in its script: its next command is due after the meetings
\* it passed and those still ahead of it; the frame on its way or being worked on
\* is the one before.
InPlace(a) ==
  /\ lpc[a] \in {"none", "greet"} => text[a] = 1
  /\ lpc[a] \in {"recv", "sync"} => text[a] <= Len(Script[a])
  /\ lpc[a] = "sync" =>
       passed[a] + syncCount[a] + (IF pc[a] = "run" THEN 0 ELSE 1) = Due[a][text[a]]
  /\ lpc[a] # "sync" => pc[a] = "run" /\ passed[a] = Due[a][text[a] - 1]
  /\ down[a] # <<>> => Head(down[a]) = text[a] - 1
  /\ ClientBusy(a) => parts[a] # <<>> /\ LastPart(a) = text[a] - 1

PlaceInv == \A a \in Agv : InPlace(a)

(***************************************************************************)
(* The inductive invariant of the dispatch, on top of the barrier's.        *)
(***************************************************************************)
DispatchInv == DispatchTypeOK /\ BarrierInv /\ StopAndWait /\ PlaceInv

\* What an AGV holds of the command it is being sent: the frames of one command,
\* consecutive, up to the last one sent to it; missing says how many are to come.
Received(a) == IF parts[a] = <<>> THEN -1 ELSE LastPart(a)

InHand(a, l, n) ==
  /\ n = Script[a][l].pf + 1
  /\ missing[a] = PartsOf(Script[a][l].op) - n
  /\ \A k \in 1..n :
       LET i == l - n + k
       IN  /\ parts[a][k] = i /\ i \in 1..Len(Script[a])
           /\ Script[a][i].op = Script[a][l].op /\ Script[a][i].pf = k - 1

Collects(a) ==
  /\ IF lpc[a] \in {"none", "greet"}
       THEN Received(a) = -1
       ELSE Received(a) = text[a] - (IF down[a] = <<>> THEN 1 ELSE 2)
  /\ Received(a) <= 0 => missing[a] = 0
  /\ Received(a) > 0 => InHand(a, LastPart(a), Len(parts[a]))
  /\ cpc[a] = "exec" => missing[a] = 0

CollectInv == \A a \in Agv : Collects(a)

(***************************************************************************)
(* The listeners use the barrier as its specification says: only from       *)
(* outside it, and as often as their scripts ask (tcp_handler.c:232-244).   *)
(***************************************************************************)
UsesBarrier == Spec

\* The positions of a's script at which a command is complete and is executed
Motions(a) == {i \in 1..Len(Script[a]) : Script[a][i].pf = PartsOf(Script[a][i].op) - 1}

\* The position of the last frame a has dealt with
Dealt(a) == IF parts[a] = <<>> THEN 0
            ELSE IF cpc[a] = "exec" THEN LastPart(a) - 1 ELSE LastPart(a)

\* The motion a executes, and those it has executed
Doing(a) == IF Moving(a) THEN LastPart(a) ELSE 0
Ended(a) == {i \in Motions(a) : i <= Dealt(a)}

(***************************************************************************)
(* The listeners, the barrier, the connections and the command managers     *)
(* together carry out the plan of the team: each AGV executes every motion  *)
(* of its own script once and in order, and never begins one while a        *)
(* teammate has yet to end one due after fewer meetings                     *)
(* (tcp_handler.c:189-267 with command_manager.c:32-198).                   *)
(***************************************************************************)
Plan == INSTANCE TeamPlan WITH
  Motion <- [a \in Agv |-> Motions(a)],
  doing <- [a \in Agv |-> Doing(a)],
  ended <- [a \in Agv |-> Ended(a)]
ImplementsPlan == Plan!Spec

\* Every AGV executes its whole script, if the scripts of the team ask for the
\* same number of meetings (tcp_handler.c:252-259, "ALL command done").
ScriptsEnd == <>AllDone
=============================================================================
