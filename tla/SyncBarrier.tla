----------------------------- MODULE SyncBarrier -----------------------------
(***************************************************************************)
(* The barrier the server's listener threads use to keep one team in step  *)
(* (server/src/lib/tcp_handler.c): set_sync toggles the AGV's bit of the    *)
(* team's sync_flag under the team's mutex; the thread that brings the flag *)
(* to zero re-arms it and, still holding the mutex, writes one "sync_ack"   *)
(* into the IPC socket of every AGV of the team; each thread then blocks    *)
(* in read() on its own IPC socket.                                         *)
(*                                                                          *)
(* sync_flag is an int32 used as a bit set: it is modelled as the set of    *)
(* the AGVs whose bit is 1, so ^ is the symmetric difference.  The load and *)
(* the store of the ^ are two steps: only the mutex makes them one.         *)
(***************************************************************************)
EXTENDS Integers, FiniteSetsExt

CONSTANTS
  N,                  \* get_agv_count: AGVs of the team, numbered from 1
  Syncs               \* Syncs[a]: number of set_sync calls a's script makes

Agv == 1..N
NoAgv == 0            \* the mutex is free

\* An int32 has 31 bits below the sign for `(1 << agv_count) - 1`.
ASSUME NAssumption == N \in 1..31
ASSUME SyncsAssumption == Syncs \in [Agv -> Nat]

VARIABLES
  pc,                 \* where listener thread a is, in or after set_sync
  syncFlag,           \* sync_flag[team-1]: AGVs still expected at the barrier
  loaded,             \* the value of sync_flag thread a loaded for its ^
  lock,               \* holder of sync_lock[team-1], or NoAgv
  next,               \* loop index of trigger_team: next AGV to be written to
  ipc,                \* ipc[a]: "sync_ack"s in a's IPC socket, not yet read
  arrived, passed     \* set_sync calls of a that toggled / returned from read

barrierVars == <<pc, syncFlag, loaded, lock, next, ipc, arrived, passed>>

\* Mutant of Mask: one AGV too few
MaskShort == Agv \ {N}

\* (1 << get_agv_count(AGV_CONFIG, team_id)) - 1
Mask == Agv

Init ==
  /\ pc = [a \in Agv |-> "run"]
  /\ syncFlag = Mask
  /\ loaded = [a \in Agv |-> {}]
  /\ lock = NoAgv
  /\ next = 1
  /\ ipc = [a \in Agv |-> 0]
  /\ arrived = [a \in Agv |-> 0]
  /\ passed = [a \in Agv |-> 0]

-----------------------------------------------------------------------------
\* Mutant of MutexFree: no mutual exclusion
MutexIgnored == TRUE

MutexFree == lock = NoAgv

\* pthread_mutex_lock(sync_lock + team_id - 1)
Lock(a) ==
  /\ pc[a] = "run"
  /\ MutexFree
  /\ lock' = a
  /\ pc' = [pc EXCEPT ![a] = "load"]
  /\ UNCHANGED <<syncFlag, loaded, next, ipc, arrived, passed>>

\* The load of sync_flag[team_id-1] ^ (0x01 << (agv_id - 1))
LoadFlag(a) ==
  /\ pc[a] = "load"
  /\ loaded' = [loaded EXCEPT ![a] = syncFlag]
  /\ pc' = [pc EXCEPT ![a] = "store"]
  /\ UNCHANGED <<syncFlag, lock, next, ipc, arrived, passed>>

\* The store of the toggled flag; a flag of zero is re-armed to all ones and
\* trigger_team is entered.
StoreFlag(a) ==
  LET toggled == SymDiff(loaded[a], {a})
  IN
  /\ pc[a] = "store"
  /\ arrived' = [arrived EXCEPT ![a] = @ + 1]
  /\ \/ /\ toggled = {}
        /\ syncFlag' = Mask
        /\ next' = 1
        /\ pc' = [pc EXCEPT ![a] = "trigger"]
     \/ /\ toggled # {}
        /\ syncFlag' = toggled
        /\ pc' = [pc EXCEPT ![a] = "unlock"]
        /\ UNCHANGED next
  /\ UNCHANGED <<loaded, lock, ipc, passed>>

\* Mutant of LastWrite: the loop writes to one AGV too few
LastWriteShort == next = N - 1

\* i + 1 is the last AGV of the team
LastWrite == next = N

\* One turn of trigger_team's loop: ipc_send(agv_ipc_sev[team][i+1], "sync_ack")
Trigger(a) ==
  /\ pc[a] = "trigger"
  /\ ipc' = [ipc EXCEPT ![next] = @ + 1]
  /\ next' = next + 1
  /\ pc' = IF LastWrite THEN [pc EXCEPT ![a] = "unlock"] ELSE pc
  /\ UNCHANGED <<syncFlag, loaded, lock, arrived, passed>>

\* pthread_mutex_unlock, and back to the listener
Unlock(a) ==
  /\ pc[a] = "unlock"
  /\ lock' = NoAgv
  /\ pc' = [pc EXCEPT ![a] = "read"]
  /\ UNCHANGED <<syncFlag, loaded, next, ipc, arrived, passed>>

\* read(agv_ipc_cli[team][agv], buf, 8) returns: the AGV passes the barrier
ReadAck(a) ==
  /\ pc[a] = "read"
  /\ ipc[a] > 0
  /\ ipc' = [ipc EXCEPT ![a] = @ - 1]
  /\ passed' = [passed EXCEPT ![a] = @ + 1]
  /\ pc' = [pc EXCEPT ![a] = "run"]
  /\ UNCHANGED <<syncFlag, loaded, lock, next, arrived>>

\* What a thread does between calling set_sync and returning from its read
Step(a) ==
  \/ Lock(a) \/ LoadFlag(a) \/ StoreFlag(a)
  \/ Trigger(a) \/ Unlock(a) \/ ReadAck(a)

-----------------------------------------------------------------------------
\* The barrier on its own: thread a goes through it Syncs[a] times and ends.
Thread(a) == (pc[a] = "run" => arrived[a] < Syncs[a]) /\ Step(a)

Finished == \A a \in Agv : pc[a] = "run" /\ passed[a] = Syncs[a]

Terminated == Finished /\ UNCHANGED barrierVars

Next == (\E a \in Agv : Thread(a)) \/ Terminated

Spec == Init /\ [][Next]_barrierVars

\* Every thread that can take a step does: each listener is a kernel thread.
\* The mutex need not be fair, a thread that has it soon blocks in read().
FairSpec == Spec /\ \A a \in Agv : WF_barrierVars(Thread(a))

-----------------------------------------------------------------------------
PcValues == {"run", "load", "store", "trigger", "unlock", "read"}

\* Type invariant of the barrier's state (tcp_handler.c:19-25).
TypeOK ==
  /\ pc \in [Agv -> PcValues]
  /\ syncFlag \in SUBSET Agv
  /\ loaded \in [Agv -> SUBSET Agv]
  /\ lock \in Agv \cup {NoAgv}
  /\ next \in 1..(N + 1)
  /\ ipc \in [Agv -> Nat]
  /\ arrived \in [Agv -> Nat]
  /\ passed \in [Agv -> Nat]

Holds(a) == pc[a] \in {"load", "store", "trigger", "unlock"}

\* AGV a has toggled its bit and has not read the acknowledgement yet.
Waiting(a) == pc[a] \in {"trigger", "unlock", "read"}

\* trigger_team is running and has yet to write to a
ToBeWritten(a) == a >= next /\ \E b \in Agv : pc[b] = "trigger"

\* Acknowledgements in a's socket, and the one yet to be written
Owed(a) == ipc[a] + (IF ToBeWritten(a) THEN 1 ELSE 0)

(***************************************************************************)
(* No AGV leaves meeting k before every AGV of its team has arrived at      *)
(* meeting k: the reason the barrier exists (tcp_handler.c:37-54, 232-244). *)
(***************************************************************************)
BarrierSafe == \A a, b \in Agv : passed[a] <= arrived[b]

(***************************************************************************)
(* An IPC socket never holds more than one "sync_ack", and only for a       *)
(* thread that will read it: the write() in trigger_team, made while the    *)
(* mutex is held, cannot fill a socket and block the team (line 31), and no *)
(* stale acknowledgement lets a thread through a later meeting.             *)
(***************************************************************************)
NoStaleAck == \A a \in Agv : ipc[a] <= (IF Waiting(a) THEN 1 ELSE 0)

-----------------------------------------------------------------------------
\* The conjuncts of the inductive invariant.

\* The mutex is held by the one thread inside set_sync; so the flag it loaded
\* is the flag it toggles, and the flag it re-armed stays armed as it triggers.
MutexInv ==
  /\ \A a \in Agv : Holds(a) <=> lock = a
  /\ \A a \in Agv : pc[a] = "store" => loaded[a] = syncFlag
  /\ \A a \in Agv : pc[a] = "trigger" => next <= N /\ syncFlag = Agv

\* A thread is one meeting ahead of its acknowledgements exactly while it waits.
CountInv ==
  \A a \in Agv : arrived[a] = passed[a] + (IF Waiting(a) THEN 1 ELSE 0)

\* No wake-up is lost and none is sent twice: one acknowledgement is on its way
\* to each waiting AGV whose bit has been re-armed, and to nobody else; an AGV
\* that does not wait has its bit on.
WakeupInv ==
  /\ \A a \in Agv : Owed(a) = (IF Waiting(a) /\ a \in syncFlag THEN 1 ELSE 0)
  /\ \A a \in Agv : ~Waiting(a) => a \in syncFlag

\* The AGVs whose bit is on are all at one meeting, the others at the next.
GenerationInv ==
  /\ syncFlag # {}
  /\ \A a, b \in Agv :
       arrived[a] + (IF a \in syncFlag THEN 1 ELSE 0)
         = arrived[b] + (IF b \in syncFlag THEN 1 ELSE 0)

(***************************************************************************)
(* The inductive invariant: the mutex makes the toggle atomic, no wake-up   *)
(* is lost or doubled, and the flag says which meeting each AGV is at.      *)
(***************************************************************************)
BarrierInv == TypeOK /\ MutexInv /\ CountInv /\ WakeupInv /\ GenerationInv

\* Every thread goes through all its meetings when the scripts of the team
\* ask for the same number of them (tcp_handler.c:232-258).
TeamFinishes == <>Finished

\* The abstract meeting place, and that this barrier implements it: toggling
\* the bit is arriving, returning from read() is passing.
Meeting == INSTANCE Rendezvous WITH
  Agv <- Agv, arrived <- arrived, passed <- passed
ImplementsRendezvous == Meeting!Spec
=============================================================================
