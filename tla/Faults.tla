-------------------------------- MODULE Faults --------------------------------
(***************************************************************************)
(* What becomes of a team when one end of a connection goes away.  An AGV   *)
(* may end (its own exit(1), a kill) or fall silent (no power, no network); *)
(* the server may end (exit(1) in get_command for another team, a kill).    *)
(* The listener takes a recv() of 0 or -1 for the end of its AGV            *)
(* (server/src/lib/tcp_handler.c:193-200) and leaves its team-mates waiting *)
(* at the barrier.  recv_c and send_s of the AGV only print: recv_c leaves  *)
(* the last instruction in the buffer, and the AGV executes it again        *)
(* (client/src/lib/tcp_handler.c:47-66), until the SIGPIPE of a send() ends *)
(* it.                                                                      *)
(*                                                                          *)
(* The steps of Dispatch are kept.  The behaviour of the two TCP stacks is  *)
(* external: an end that closes with bytes unread resets the connection,    *)
(* otherwise it sends FIN; what is sent to an end that is gone succeeds and *)
(* is answered by a reset; a send() after the reset fails.                  *)
(***************************************************************************)
EXTENDS Dispatch

VARIABLES
  dead,               \* the AGVs whose process has ended or fallen silent
  link,               \* link[a]: a's connection as the server's kernel sees it
  server,             \* the server runs, was ended, or ended by a failed send()
  clink,              \* clink[a]: the connection as a's kernel sees it
  again               \* again[a]: motions a began on an instruction it had already

faultVars == <<dead, link, server, clink, again>>
vars == <<dispatchVars, faultVars>>

\* Bound on the motions counted
AgainCap == 3

FaultInit ==
  /\ DispatchInit
  /\ dead = {}
  /\ link = [a \in Agv |-> "open"]
  /\ server = "up"
  /\ clink = [a \in Agv |-> "open"]
  /\ again = [a \in Agv |-> 0]

-----------------------------------------------------------------------------
\* The listener's steps that send nothing
Quietly(a) ==
  /\ Accept(a) \/ Recv(a) \/ EnterSync(a) \/ InSync(a)
  /\ UNCHANGED faultVars

\* send() of the greeting or of a command.  When the AGV has closed its end it is in
\* vain and answered by a reset; after the reset it ends the server, by SIGPIPE or by
\* the exit(0) that follows -1.
SendOn(a) ==
  /\ Greet(a) \/ Send(a)
  /\ link' = [link EXCEPT ![a] = IF @ = "fin" THEN "reset" ELSE @]
  /\ server' = IF link[a] = "reset" THEN "broken" ELSE server
  /\ UNCHANGED <<dead, clink, again>>

\* Mutant of RecvEnd: without the break, the acknowledgement still in
\* sensor_data_buf is taken for a new one
RecvEndWithoutBreak(a) ==
  /\ lpc[a] = "recv" /\ up[a] = <<>> /\ link[a] # "open"
  /\ lpc' = [lpc EXCEPT ![a] = "sync"]
  /\ syncCount' = [syncCount EXCEPT ![a] = SyncOf(a)]
  /\ UNCHANGED <<barrierVars, text, down, up, clientVars, faultVars>>

\* recv() returns 0 or -1: close(id->socket), and the thread ends
RecvEnd(a) ==
  /\ lpc[a] = "recv" /\ up[a] = <<>> /\ link[a] # "open"
  /\ lpc' = [lpc EXCEPT ![a] = "done"]
  /\ UNCHANGED <<barrierVars, text, syncCount, down, up, clientVars, faultVars>>

FaultListener(a) ==
  server = "up" /\ (Quietly(a) \/ SendOn(a) \/ RecvEnd(a))

-----------------------------------------------------------------------------
\* recv_c returns a frame
RecvFrame(a) == RecvCommand(a) /\ UNCHANGED faultVars

\* recv_c returns 0 or -1 at once, and the instruction is still the last frame
RecvEof(a) ==
  LET i == LastPart(a)
      count == IF missing[a] = 0 THEN PartsOf(OpOf(a, i)) ELSE missing[a]
      begins == AfterFrame(count) = "exec" /\ i # 0
  IN
  /\ cpc[a] = "recv" /\ down[a] = <<>> /\ clink[a] # "open"
  /\ parts' = [parts EXCEPT ![a] = Collected(a, i)]
  /\ missing' = [missing EXCEPT ![a] = FramesLeft(a, count)]
  /\ cpc' = [cpc EXCEPT ![a] = AfterFrame(count)]
  /\ again' = [again EXCEPT ![a] = IF begins /\ @ < AgainCap THEN @ + 1 ELSE @]
  /\ UNCHANGED <<barrierVars, listenerVars, down, up, dead, link, server, clink>>

\* A motion takes seconds: the reset that answers a send() before it is there
\* when it ends.
FinishMotion(a) == clink[a] # "answered" /\ Finish(a) /\ UNCHANGED faultVars

Acknowledge(a) == clink[a] = "open" /\ SendAck(a) /\ UNCHANGED faultVars

\* send_s to a server that is gone: the send() succeeds
AckInVain(a) ==
  /\ cpc[a] = "ack" /\ clink[a] \in {"fin", "answered"}
  /\ cpc' = [cpc EXCEPT ![a] = "recv"]
  /\ clink' = [clink EXCEPT ![a] = "answered"]
  /\ UNCHANGED <<barrierVars, listenerVars, down, up, parts, missing,
                 dead, link, server, again>>

\* Mutant of AckBroken: SIGPIPE is ignored, and send_s keeps going as it says
AckBrokenIgnored(a) ==
  /\ cpc[a] = "ack" /\ clink[a] = "reset"
  /\ cpc' = [cpc EXCEPT ![a] = "recv"]
  /\ UNCHANGED <<barrierVars, listenerVars, down, up, parts, missing, faultVars>>

\* send_s on a connection that was reset: SIGPIPE ends the AGV's program
AckBroken(a) ==
  /\ cpc[a] = "ack" /\ clink[a] = "reset"
  /\ dead' = dead \cup {a}
  /\ UNCHANGED <<dispatchVars, link, server, clink, again>>

ResetArrives(a) ==
  /\ clink[a] = "answered"
  /\ clink' = [clink EXCEPT ![a] = "reset"]
  /\ UNCHANGED <<dispatchVars, dead, link, server, again>>

FaultClient(a) ==
  /\ a \notin dead
  /\ \/ RecvFrame(a) \/ RecvEof(a) \/ FinishMotion(a)
     \/ Acknowledge(a) \/ AckInVain(a) \/ AckBroken(a)

-----------------------------------------------------------------------------
\* The AGV's program ends: its kernel closes the connection
AgvEnds(a) ==
  /\ a \notin dead
  /\ dead' = dead \cup {a}
  /\ link' = [link EXCEPT ![a] = IF down[a] = <<>> THEN "fin" ELSE "reset"]
  /\ UNCHANGED <<dispatchVars, server, clink, again>>

\* The AGV loses its power or its network: nobody closes anything
AgvSilent(a) ==
  /\ a \notin dead
  /\ dead' = dead \cup {a}
  /\ UNCHANGED <<dispatchVars, link, server, clink, again>>

\* The server's program ends, after it has greeted the whole team
ServerEnds ==
  /\ server = "up"
  /\ \A a \in Agv : lpc[a] \notin {"none", "greet"}
  /\ server' = "stopped"
  /\ clink' = [a \in Agv |-> IF up[a] = <<>> THEN "fin" ELSE "reset"]
  /\ UNCHANGED <<dispatchVars, dead, link, again>>

FaultNext ==
  \/ ServerEnds
  \/ \E a \in Agv :
       \/ FaultListener(a) \/ FaultClient(a) \/ ResetArrives(a)
       \/ AgvEnds(a) \/ AgvSilent(a)

FaultSpec == FaultInit /\ [][FaultNext]_vars

\* As in FairDispatch; resets arrive; nothing has to go wrong
FairFaults ==
  /\ FaultSpec
  /\ \A a \in Agv : /\ WF_vars(FaultListener(a)) /\ WF_vars(FaultClient(a))
                    /\ WF_vars(ResetArrives(a))

-----------------------------------------------------------------------------
(***************************************************************************)
(* However AGVs end, the server goes on: no listener sends on a connection  *)
(* that was reset, because it hears of the reset in the recv() that stands  *)
(* between any two of its send()s (tcp_handler.c:184, 193-200, 248).        *)
(***************************************************************************)
ServerSurvives == server # "broken"

(***************************************************************************)
(* While the server runs, nobody passes an AGV that fell out: the team      *)
(* keeps to its plan, and an AGV that ended or fell silent counts with all  *)
(* the motions it still has (tcp_handler.c:37-54, 193-244).                 *)
(***************************************************************************)
PlanWhileServed == [][server = "up" => Plan!Next \/ UNCHANGED Plan!plan]_vars

(***************************************************************************)
(* What an AGV executes, before or after it lost the server, is made of     *)
(* frames of one command of its script: the instruction it finds in its     *)
(* buffer again belongs to the command it executed or collected last        *)
(* (client tcp_handler.c:55-66, command_manager.c:77-192).                  *)
(***************************************************************************)
OneCommand ==
  \A a \in Agv : Moving(a) =>
    \A k, l \in 1..Len(parts[a]) :
      LET i == parts[a][k]
          j == parts[a][l]
      IN  /\ i > 0 /\ j > 0
          /\ Script[a][i].op = Script[a][j].op
          /\ i - Script[a][i].pf = j - Script[a][j].pf

\* An AGV that lost the server moves at most twice more (client tcp_handler.c:47-66).
AtMostTwice == \A a \in Agv : again[a] <= 2

\* When the server has ended, so does the program of every AGV that has a command
\* (client tcp_handler.c:47-66): none goes on repeating its last instruction.
AgvsFollow == server = "stopped" ~> dead = Agv
=============================================================================
