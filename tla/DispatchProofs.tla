---------------------------- MODULE DispatchProofs ----------------------------
(***************************************************************************)
(* Proofs about the barrier of a team and about the dispatch of commands    *)
(* that is built on it, for every team size and every script.               *)
(*                                                                          *)
(* The barrier: the inductive invariant BarrierInv, its safety, that no     *)
(* stale acknowledgement is ever left in a socket, and that it implements   *)
(* Rendezvous.  The dispatch: the stop-and-wait of each connection, the     *)
(* lock step of the team, the frames an AGV collects, and that all this     *)
(* implements the plan of the team, TeamPlan.                               *)
(***************************************************************************)
EXTENDS Dispatch, TLAPS

-----------------------------------------------------------------------------
(* The barrier: SyncBarrier *)

\* Toggling a bit twice restores the flag, and toggles nothing else.
LEMMA ToggleBit ==
  ASSUME NEW S, NEW a
  PROVE  /\ a \in S => SymDiff(S, {a}) = S \ {a}
         /\ a \notin S => SymDiff(S, {a}) = S \cup {a}
  BY Zenon DEF SymDiff

\* The initial state satisfies the inductive invariant.
LEMMA BarrierInit == Init => BarrierInv
  <1> SUFFICES ASSUME Init PROVE BarrierInv
    OBVIOUS
  <1> USE NAssumption DEF Init, Mask, Agv, NoAgv
  <1>1. TypeOK
    BY DEF TypeOK, PcValues
  <1>2. MutexInv
    BY DEF MutexInv, Holds
  <1>3. CountInv
    BY DEF CountInv, Waiting
  <1>4. WakeupInv
    BY DEF WakeupInv, Waiting, Owed, ToBeWritten
  <1>5. GenerationInv
    BY DEF GenerationInv
  <1> QED BY <1>1, <1>2, <1>3, <1>4, <1>5 DEF BarrierInv

-----------------------------------------------------------------------------
\* One lemma per step of a thread: each preserves the inductive invariant.

LEMMA LockInv ==
  ASSUME BarrierInv, NEW a \in Agv, Lock(a)
  PROVE  BarrierInv'
  <1> USE NAssumption DEF Lock, MutexFree, Agv, NoAgv, BarrierInv
  <1>1. TypeOK'
    BY DEF TypeOK, PcValues
  <1>2. MutexInv'
    BY DEF TypeOK, MutexInv, Holds
  <1>3. CountInv'
    BY DEF TypeOK, CountInv, Waiting
  <1>4. WakeupInv'
    BY DEF TypeOK, WakeupInv, Waiting, Owed, ToBeWritten
  <1>5. GenerationInv'
    BY DEF GenerationInv
  <1> QED BY <1>1, <1>2, <1>3, <1>4, <1>5

LEMMA LoadInv ==
  ASSUME BarrierInv, NEW a \in Agv, LoadFlag(a)
  PROVE  BarrierInv'
  <1> USE NAssumption DEF LoadFlag, Agv, NoAgv, BarrierInv
  <1>1. TypeOK'
    BY DEF TypeOK, PcValues
  <1>2. MutexInv'
    BY DEF TypeOK, MutexInv, Holds
  <1>3. CountInv'
    BY DEF TypeOK, CountInv, Waiting
  <1>4. WakeupInv'
    BY DEF TypeOK, WakeupInv, Waiting, Owed, ToBeWritten
  <1>5. GenerationInv'
    BY DEF GenerationInv
  <1> QED BY <1>1, <1>2, <1>3, <1>4, <1>5

LEMMA TriggerInv ==
  ASSUME BarrierInv, NEW a \in Agv, Trigger(a)
  PROVE  BarrierInv'
  <1> USE NAssumption DEF Trigger, LastWrite, Agv, NoAgv, BarrierInv
  <1>0. /\ \A b \in Agv : pc[b] = "trigger" => b = a
        /\ next \in Agv /\ syncFlag = Agv
    BY DEF TypeOK, MutexInv, Holds
  <1>1. TypeOK'
    <2>1. ipc' \in [Agv -> Nat]
      BY <1>0 DEF TypeOK
    <2>2. next' \in 1..(N + 1)
      BY <1>0
    <2>3. pc' \in [Agv -> PcValues]
      BY DEF TypeOK, PcValues
    <2> QED BY <2>1, <2>2, <2>3 DEF TypeOK
  <1>2. MutexInv'
    BY DEF TypeOK, MutexInv, Holds
  <1>3. CountInv'
    BY DEF TypeOK, CountInv, Waiting
  <1>4. WakeupInv'
    <2>1. \A b \in Agv : Waiting(b)' = Waiting(b)
      BY DEF TypeOK, Waiting
    <2>2. ASSUME NEW b \in Agv PROVE Owed(b)' = Owed(b)
      <3>1. ipc'[b] = ipc[b] + (IF b = next THEN 1 ELSE 0)
        <4>1. /\ ipc \in [1..N -> Nat] /\ b \in 1..N
              /\ ipc' = [ipc EXCEPT ![next] = @ + 1]
          BY DEF TypeOK
        <4> HIDE DEF BarrierInv, Trigger, LastWrite, Agv
        <4> QED BY <4>1
      <3>2. ToBeWritten(b) <=> b >= next
        BY DEF ToBeWritten
      <3>3. ToBeWritten(b)' <=> b >= next + 1
        <4>1. CASE next = N
          BY <1>0, <4>1 DEF ToBeWritten, TypeOK
        <4>2. CASE next # N
          BY <4>2 DEF ToBeWritten
        <4> QED BY <4>1, <4>2
      <3>4. /\ Owed(b) = ipc[b] + (IF b >= next THEN 1 ELSE 0)
            /\ Owed(b)' = ipc'[b] + (IF b >= next + 1 THEN 1 ELSE 0)
        BY <3>2, <3>3 DEF Owed
      <3>5. ipc[b] \in Nat /\ b \in Int /\ next \in Int
        BY <1>0 DEF TypeOK
      <3> HIDE DEF BarrierInv, Trigger, LastWrite, Agv
      <3>6. CASE b = next
        BY <3>1, <3>4, <3>5, <3>6
      <3>7. CASE b # next
        BY <3>1, <3>4, <3>5, <3>7
      <3> QED BY <3>6, <3>7
    <2> QED BY <2>1, <2>2 DEF WakeupInv
  <1>5. GenerationInv'
    BY DEF GenerationInv
  <1> QED BY <1>1, <1>2, <1>3, <1>4, <1>5

LEMMA UnlockInv ==
  ASSUME BarrierInv, NEW a \in Agv, Unlock(a)
  PROVE  BarrierInv'
  <1> USE NAssumption DEF Unlock, Agv, NoAgv, BarrierInv
  <1>1. TypeOK'
    BY DEF TypeOK, PcValues
  <1>2. MutexInv'
    BY DEF TypeOK, MutexInv, Holds
  <1>3. CountInv'
    BY DEF TypeOK, CountInv, Waiting
  <1>4. WakeupInv'
    BY DEF TypeOK, WakeupInv, Waiting, Owed, ToBeWritten
  <1>5. GenerationInv'
    BY DEF GenerationInv
  <1> QED BY <1>1, <1>2, <1>3, <1>4, <1>5

LEMMA ReadInv ==
  ASSUME BarrierInv, NEW a \in Agv, ReadAck(a)
  PROVE  BarrierInv'
  <1> USE NAssumption DEF ReadAck, Agv, NoAgv, BarrierInv
  <1>1. TypeOK'
    <2>1. ipc' \in [Agv -> Nat]
      BY DEF TypeOK
    <2>2. passed' \in [Agv -> Nat] /\ pc' \in [Agv -> PcValues]
      BY DEF TypeOK, PcValues
    <2> QED BY <2>1, <2>2 DEF TypeOK
  <1>2. MutexInv'
    BY DEF TypeOK, MutexInv, Holds
  <1>3. CountInv'
    BY DEF TypeOK, CountInv, Waiting
  <1>4. WakeupInv'
    <2>1. \A b \in Agv : ToBeWritten(b)' = ToBeWritten(b)
      BY DEF TypeOK, ToBeWritten
    <2>2. Waiting(a) /\ ~Waiting(a)'
      BY DEF TypeOK, Waiting
    <2>3. Owed(a) = 1 /\ a \in syncFlag
      BY <2>2 DEF TypeOK, WakeupInv, Owed
    <2>4. Owed(a)' = Owed(a) - 1
      BY <2>1 DEF TypeOK, Owed
    <2>5. ASSUME NEW b \in Agv, b # a
          PROVE  Owed(b)' = Owed(b) /\ Waiting(b)' = Waiting(b)
      BY <2>1, <2>5 DEF TypeOK, Waiting, Owed
    <2> QED BY <2>2, <2>3, <2>4, <2>5 DEF WakeupInv
  <1>5. GenerationInv'
    BY DEF GenerationInv
  <1> QED BY <1>1, <1>2, <1>3, <1>4, <1>5

\* The store is the step that changes the flag: it puts a among the waiting, and
\* when it was the last bit it releases everybody at once.
LEMMA StoreInv ==
  ASSUME BarrierInv, NEW a \in Agv, StoreFlag(a)
  PROVE  BarrierInv'
  <1> USE NAssumption DEF Agv, NoAgv
  <1> DEFINE toggled == syncFlag \ {a}
  <1>0. /\ TypeOK /\ MutexInv /\ CountInv /\ WakeupInv /\ GenerationInv
        /\ pc[a] = "store" /\ ~Waiting(a) /\ a \in syncFlag
        /\ SymDiff(loaded[a], {a}) = toggled
        /\ \A b \in Agv : Holds(b) => b = a
    <2>1. TypeOK /\ MutexInv /\ CountInv /\ WakeupInv /\ GenerationInv
      BY DEF BarrierInv
    <2>2. pc[a] = "store"
      BY DEF StoreFlag, Mask
    <2>3. ~Waiting(a)
      BY <2>2 DEF Waiting
    <2>4. a \in syncFlag
      BY <2>1, <2>3 DEF WakeupInv
    <2>5. loaded[a] = syncFlag
      BY <2>1, <2>2 DEF MutexInv
    <2>6. SymDiff(syncFlag, {a}) = toggled
      BY <2>4, ToggleBit
    <2>7. Holds(a)
      BY <2>2 DEF Holds
    <2>8. \A b \in Agv : Holds(b) => b = a
      BY <2>1, <2>7 DEF MutexInv
    <2> QED BY <2>1, <2>2, <2>3, <2>4, <2>5, <2>6, <2>8
  <1>1. /\ arrived' = [arrived EXCEPT ![a] = @ + 1]
        /\ UNCHANGED <<loaded, lock, ipc, passed>>
        /\ pc' = [pc EXCEPT ![a] = IF toggled = {} THEN "trigger" ELSE "unlock"]
        /\ syncFlag' = IF toggled = {} THEN Agv ELSE toggled
        /\ next' = IF toggled = {} THEN 1 ELSE next
    BY <1>0 DEF StoreFlag, Mask, TypeOK
  <1>t. /\ pc \in [Agv -> PcValues] /\ arrived \in [Agv -> Nat]
        /\ syncFlag \in SUBSET Agv /\ next \in 1..(N + 1)
    BY <1>0 DEF TypeOK
  <1>2. TypeOK'
    <2>1. arrived' \in [Agv -> Nat]
      BY <1>1, <1>t
    <2>2. pc' \in [Agv -> PcValues]
      BY <1>1, <1>t DEF PcValues
    <2>3. syncFlag' \in SUBSET Agv
      BY <1>1, <1>t
    <2>4. next' \in 1..(N + 1)
      BY <1>1, <1>t, NAssumption
    <2> QED BY <1>0, <1>1, <2>1, <2>2, <2>3, <2>4 DEF TypeOK
  <1>3. MutexInv'
    <2>1. /\ pc'[a] \in {"trigger", "unlock"}
          /\ pc'[a] = "trigger" => toggled = {}
          /\ \A b \in Agv : b # a => pc'[b] = pc[b]
      BY <1>1, <1>t
    <2>2. \A b \in Agv : Holds(b)' <=> lock' = b
      BY <1>0, <1>1, <2>1 DEF MutexInv, Holds
    <2>3. \A b \in Agv : pc'[b] = "store" => FALSE
      BY <1>0, <2>1 DEF Holds
    <2>4. \A b \in Agv : pc'[b] = "trigger" => next' <= N /\ syncFlag' = Agv
      <3>1. \A b \in Agv : pc'[b] = "trigger" => toggled = {}
        BY <1>0, <2>1 DEF Holds
      <3> QED BY <1>1, <3>1, NAssumption
    <2> QED BY <2>2, <2>3, <2>4 DEF MutexInv
  <1>4. /\ Waiting(a)'
        /\ \A b \in Agv : b # a => Waiting(b)' = Waiting(b)
    BY <1>0, <1>1 DEF TypeOK, Waiting
  <1>5. CountInv'
    BY <1>0, <1>1, <1>4 DEF TypeOK, CountInv
  <1>6. \A b \in Agv : ~ToBeWritten(b) /\ Owed(b) = ipc[b]
    BY <1>0 DEF ToBeWritten, Owed, Holds, TypeOK
  <1>7. WakeupInv'
    <2>1. CASE toggled = {}
      <3>1. \A b \in Agv : Waiting(b)' /\ ipc[b] = 0
        BY <1>0, <1>4, <1>6, <2>1 DEF WakeupInv
      <3>2. \A b \in Agv : ToBeWritten(b)'
        BY <1>0, <1>1, <2>1 DEF ToBeWritten, TypeOK
      <3> QED BY <1>1, <2>1, <3>1, <3>2 DEF WakeupInv, Owed
    <2>2. CASE toggled # {}
      <3>1. \A b \in Agv : ~ToBeWritten(b)'
        BY <1>0, <1>1, <2>2 DEF ToBeWritten, Holds, TypeOK
      <3> QED BY <1>0, <1>1, <1>4, <1>6, <2>2, <3>1 DEF WakeupInv, Owed, TypeOK
    <2> QED BY <2>1, <2>2
  <1>8. GenerationInv'
    <2>1. /\ arrived'[a] = arrived[a] + 1
          /\ \A b \in Agv : b # a => arrived'[b] = arrived[b]
          /\ \A b \in Agv : arrived[b] \in Nat
      BY <1>1, <1>t
    <2>2. /\ a \in syncFlag
          /\ \A b, c \in Agv : arrived[b] + (IF b \in syncFlag THEN 1 ELSE 0)
                               = arrived[c] + (IF c \in syncFlag THEN 1 ELSE 0)
      BY <1>0 DEF GenerationInv
    <2>3. CASE toggled = {}
      <3>1. \A b \in Agv : b \in syncFlag <=> b = a
        BY <1>0, <2>3
      <3>2. \A b \in Agv : arrived'[b] = arrived[a] + 1
        BY <2>1, <2>2, <3>1
      <3>3. syncFlag' = Agv /\ a \in Agv
        BY <1>1, <2>3
      <3> HIDE DEF Agv
      <3> QED BY <3>2, <3>3 DEF GenerationInv
    <2>4. CASE toggled # {}
      <3>1. syncFlag' = syncFlag \ {a}
        BY <1>1, <2>4
      <3>2. \A b \in Agv : arrived'[b] + (IF b \in syncFlag' THEN 1 ELSE 0)
                            = arrived[b] + (IF b \in syncFlag THEN 1 ELSE 0)
        BY <2>1, <2>2, <3>1
      <3> HIDE DEF Agv
      <3> QED BY <2>2, <2>4, <3>1, <3>2 DEF GenerationInv
    <2> QED BY <2>3, <2>4
  <1> QED BY <1>2, <1>3, <1>5, <1>7, <1>8 DEF BarrierInv

-----------------------------------------------------------------------------
\* Whatever a listener thread does in the barrier preserves the invariant.
LEMMA StepInv ==
  ASSUME BarrierInv, NEW a \in Agv, Step(a)
  PROVE  BarrierInv'
  BY LockInv, LoadInv, StoreInv, TriggerInv, UnlockInv, ReadInv DEF Step

LEMMA StutterInv ==
  ASSUME BarrierInv, UNCHANGED barrierVars
  PROVE  BarrierInv'
  BY DEF BarrierInv, barrierVars, TypeOK, MutexInv, Holds, CountInv, Waiting,
         WakeupInv, Owed, ToBeWritten, GenerationInv

\* The mutex, the wake-ups and the generations of the barrier are kept by every
\* execution, for every team size (tcp_handler.c:27-54).
THEOREM BarrierInvariant == Spec => []BarrierInv
  <1>1. BarrierInv /\ [Next]_barrierVars => BarrierInv'
    BY StepInv, StutterInv DEF Next, Thread, Terminated
  <1> QED BY BarrierInit, <1>1, PTL DEF Spec

\* The type invariant holds in every execution.
THEOREM TypeCorrect == Spec => []TypeOK
  <1>1. BarrierInv => TypeOK
    BY DEF BarrierInv
  <1> QED BY BarrierInvariant, <1>1, PTL

\* The barrier is safe for every team size: a thread returns from read() only
\* when all the team's threads have toggled their bit (tcp_handler.c:37-54).
LEMMA InvImpliesSafe == BarrierInv => BarrierSafe
  <1> SUFFICES ASSUME BarrierInv, NEW a \in Agv, NEW b \in Agv
               PROVE  passed[a] <= arrived[b]
    BY DEF BarrierSafe
  <1>1. /\ arrived[a] = passed[a] + (IF Waiting(a) THEN 1 ELSE 0)
        /\ ~Waiting(a) => a \in syncFlag
        /\ arrived[a] + (IF a \in syncFlag THEN 1 ELSE 0)
             = arrived[b] + (IF b \in syncFlag THEN 1 ELSE 0)
    BY DEF BarrierInv, CountInv, WakeupInv, GenerationInv
  <1>2. passed[a] \in Nat /\ arrived[a] \in Nat /\ arrived[b] \in Nat
    BY DEF BarrierInv, TypeOK
  <1> QED BY <1>1, <1>2

THEOREM BarrierIsSafe == Spec => []BarrierSafe
  BY BarrierInvariant, InvImpliesSafe, PTL

\* No acknowledgement is ever left over in an IPC socket (tcp_handler.c:31, 239).
THEOREM NoStaleAcks == Spec => []NoStaleAck
  <1>1. BarrierInv => NoStaleAck
    <2> SUFFICES ASSUME BarrierInv, NEW a \in Agv
                 PROVE  ipc[a] <= (IF Waiting(a) THEN 1 ELSE 0)
      BY DEF NoStaleAck
    <2>1. ipc[a] \in Nat
      BY DEF BarrierInv, TypeOK
    <2>2. Owed(a) = (IF Waiting(a) /\ a \in syncFlag THEN 1 ELSE 0)
      BY DEF BarrierInv, WakeupInv
    <2> QED BY <2>1, <2>2 DEF Owed
  <1> QED BY BarrierInvariant, <1>1, PTL

-----------------------------------------------------------------------------
\* In the step that arrives, the AGV had passed every meeting it arrived at.
LEMMA StoreArrives ==
  ASSUME BarrierInv, NEW a \in Agv, StoreFlag(a)
  PROVE  Meeting!Arrive(a)
  <1>1. ~Waiting(a)
    BY DEF StoreFlag, Waiting
  <1>2. arrived[a] = passed[a]
    BY <1>1 DEF BarrierInv, CountInv, TypeOK
  <1> QED BY <1>2 DEF StoreFlag, Meeting!Arrive

\* In the step that passes, the acknowledgement proves that all have arrived.
LEMMA ReadPasses ==
  ASSUME BarrierInv, NEW a \in Agv, ReadAck(a)
  PROVE  Meeting!Pass(a)
  <1>1. Waiting(a) /\ ipc[a] \in Nat /\ ipc[a] > 0
    BY DEF ReadAck, Waiting, BarrierInv, TypeOK
  <1>2. a \in syncFlag
    <2>1. Owed(a) # 0
      BY <1>1 DEF Owed
    <2> QED BY <2>1 DEF BarrierInv, WakeupInv
  <1>3. /\ arrived \in [Agv -> Nat] /\ passed \in [Agv -> Nat]
        /\ arrived[a] = passed[a] + 1
    BY <1>1 DEF BarrierInv, TypeOK, CountInv
  <1>4. \A b \in Agv : arrived[a] <= arrived[b]
    <2>1. \A b \in Agv : arrived[a] + 1
                          = arrived[b] + (IF b \in syncFlag THEN 1 ELSE 0)
      BY <1>2 DEF BarrierInv, GenerationInv
    <2> QED BY <1>3, <2>1
  <1>5. passed' = [passed EXCEPT ![a] = arrived[a]]
    BY <1>3 DEF ReadAck
  <1>6. UNCHANGED arrived
    BY DEF ReadAck
  <1> QED BY <1>3, <1>4, <1>5, <1>6 DEF Meeting!Pass

\* Every other step of a thread leaves the meeting place as it is.
LEMMA OtherStepsStutter ==
  ASSUME NEW a \in Agv,
         Lock(a) \/ LoadFlag(a) \/ Trigger(a) \/ Unlock(a)
  PROVE  UNCHANGED <<arrived, passed>>
  BY DEF Lock, LoadFlag, Trigger, Unlock

\* The barrier of the server implements the abstract meeting place, for every
\* team size and every script (tcp_handler.c:27-54, 232-244).
THEOREM Refinement == Spec => ImplementsRendezvous
  <1>1. Init => Meeting!Init
    BY DEF Init, Meeting!Init
  <1>2. BarrierInv /\ [Next]_barrierVars => [Meeting!Next]_(Meeting!meetings)
    <2> SUFFICES ASSUME BarrierInv, [Next]_barrierVars
                 PROVE  Meeting!Next \/ UNCHANGED <<arrived, passed>>
      BY DEF Meeting!meetings
    <2>1. ASSUME NEW a \in Agv, Step(a)
          PROVE  Meeting!Next \/ UNCHANGED <<arrived, passed>>
      BY <2>1, StoreArrives, ReadPasses, OtherStepsStutter DEF Step, Meeting!Next
    <2>2. CASE UNCHANGED barrierVars
      BY <2>2 DEF barrierVars
    <2> QED BY <2>1, <2>2 DEF Next, Thread, Terminated
  <1> QED BY BarrierInvariant, <1>1, <1>2, PTL
        DEF Spec, ImplementsRendezvous, Meeting!Spec

-----------------------------------------------------------------------------
(* The dispatch: Dispatch *)

\* The initial state satisfies the inductive invariant.
LEMMA DispatchInitInv == DispatchInit => DispatchInv
  <1> SUFFICES ASSUME DispatchInit PROVE DispatchInv
    OBVIOUS
  <1>1. BarrierInv
    BY BarrierInit DEF DispatchInit
  <1>2. DispatchTypeOK
    BY <1>1, ScriptAssumption DEF DispatchInit, DispatchTypeOK, BarrierInv
  <1>3. StopAndWait
    BY DEF DispatchInit, StopAndWait, OneFrame, ListenerBusy, ClientBusy
  <1>4. PlaceInv
    BY DueAssumption DEF DispatchInit, Init, PlaceInv, InPlace, ClientBusy
  <1> QED BY <1>1, <1>2, <1>3, <1>4 DEF DispatchInv

-----------------------------------------------------------------------------
\* Outside the barrier nothing of it changes.
LEMMA BarrierUntouched ==
  ASSUME BarrierInv, UNCHANGED barrierVars
  PROVE  BarrierInv'
  BY StutterInv

\* The meetings before position i + 1 are those before i and the i-th command's.
LEMMA DueStep ==
  ASSUME NEW a \in Agv, NEW i \in 1..Len(Script[a])
  PROVE  /\ Due[a][i] \in Nat /\ Due[a][i - 1] \in Nat
         /\ Script[a][i].sync \in Nat
         /\ Due[a][i] = Due[a][i - 1] + Script[a][i].sync
  <1>1. Script[a] \in Seq(Command)
    BY ScriptAssumption
  <1>2. Script[a][i] \in Command
    BY <1>1
  <1>3. i - 1 \in 0..Len(Script[a]) /\ i \in 0..Len(Script[a])
    BY <1>1
  <1> QED BY <1>2, <1>3, DueAssumption DEF Command

\* An AGV whose part of the state a step leaves alone stays in place.
StepsAside(b) ==
  /\ lpc'[b] = lpc[b] /\ text'[b] = text[b] /\ syncCount'[b] = syncCount[b]
  /\ pc'[b] = pc[b] /\ passed'[b] = passed[b]
  /\ down'[b] = down[b] /\ cpc'[b] = cpc[b] /\ parts'[b] = parts[b]

LEMMA OthersInPlace ==
  ASSUME NEW b \in Agv, InPlace(b), StepsAside(b)
  PROVE  InPlace(b)'
  BY DEF StepsAside, InPlace, ClientBusy, LastPart

\* And so does its connection.
ConnectionAside(b) ==
  lpc'[b] = lpc[b] /\ cpc'[b] = cpc[b] /\ down'[b] = down[b] /\ up'[b] = up[b]

LEMMA OthersOneFrame ==
  ASSUME NEW b \in Agv, OneFrame(b), ConnectionAside(b)
  PROVE  OneFrame(b)'
  BY DEF ConnectionAside, OneFrame, ListenerBusy, ClientBusy

LEMMA AcceptInv ==
  ASSUME DispatchInv, NEW a \in Agv, Accept(a)
  PROVE  DispatchInv'
  <1> USE DEF DispatchInv, Accept
  <1>1. BarrierInv'
    BY BarrierUntouched
  <1>2. DispatchTypeOK'
    BY <1>1 DEF DispatchTypeOK, BarrierInv, clientVars
  <1>3. StopAndWait'
    BY DEF DispatchTypeOK, StopAndWait, OneFrame, ListenerBusy, ClientBusy, clientVars
  <1>4. PlaceInv'
    BY DEF DispatchTypeOK, PlaceInv, InPlace, ClientBusy, LastPart, clientVars,
           barrierVars
  <1> QED BY <1>1, <1>2, <1>3, <1>4

LEMMA GreetInv ==
  ASSUME DispatchInv, NEW a \in Agv, Greet(a)
  PROVE  DispatchInv'
  <1> USE DEF DispatchInv, Greet
  <1>1. BarrierInv'
    BY BarrierUntouched
  <1>2. DispatchTypeOK'
    BY <1>1 DEF DispatchTypeOK, BarrierInv, clientVars
  <1>3. StopAndWait'
    BY DEF DispatchTypeOK, StopAndWait, OneFrame, ListenerBusy, ClientBusy, clientVars
  <1>4. \A b \in Agv \ {a} : StepsAside(b)
    BY DEF DispatchTypeOK, StepsAside, clientVars, barrierVars
  <1>5. InPlace(a)'
    <2>0. down[a] = <<>> /\ ~ClientBusy(a) /\ text[a] = 1
      BY DEF PlaceInv, InPlace, StopAndWait, OneFrame, ListenerBusy
    <2>1. down'[a] = <<0>>
      BY <2>0 DEF DispatchTypeOK
    <2>2. Head(down'[a]) = text'[a] - 1
      BY <2>0, <2>1
    <2> QED BY <2>0, <2>1, <2>2, ScriptAssumption
          DEF DispatchTypeOK, PlaceInv, InPlace, ClientBusy, clientVars, barrierVars
  <1>6. PlaceInv'
    BY <1>4, <1>5, OthersInPlace DEF PlaceInv
  <1> QED BY <1>1, <1>2, <1>3, <1>6

LEMMA RecvInv ==
  ASSUME DispatchInv, NEW a \in Agv, Recv(a)
  PROVE  DispatchInv'
  <1> USE DEF DispatchInv, Recv, SyncOf
  <1>0. text[a] \in 1..Len(Script[a])
    BY DEF DispatchTypeOK, PlaceInv, InPlace
  <1>d. /\ Due[a][text[a]] \in Nat /\ Due[a][text[a] - 1] \in Nat
        /\ Script[a][text[a]].sync \in Nat
        /\ Due[a][text[a]] = Due[a][text[a] - 1] + Script[a][text[a]].sync
    BY <1>0, DueStep
  <1>1. BarrierInv'
    BY BarrierUntouched
  <1>2. DispatchTypeOK'
    <2>1. syncCount' \in [Agv -> Nat]
      BY <1>d DEF DispatchTypeOK
    <2>2. up' \in [Agv -> Seq({"ack"})]
      BY DEF DispatchTypeOK
    <2> QED BY <1>1, <2>1, <2>2 DEF DispatchTypeOK, BarrierInv, clientVars
  <1>3. StopAndWait'
    BY DEF DispatchTypeOK, StopAndWait, OneFrame, ListenerBusy, ClientBusy, clientVars
  <1>4. \A b \in Agv \ {a} : StepsAside(b)
    BY DEF DispatchTypeOK, StepsAside, clientVars, barrierVars
  <1>5. InPlace(a)'
    <2>1. down[a] = <<>> /\ ~ClientBusy(a)
      BY DEF DispatchTypeOK, StopAndWait, OneFrame
    <2>2. pc[a] = "run" /\ passed[a] = Due[a][text[a] - 1] /\ passed[a] \in Nat
      BY DEF PlaceInv, InPlace, DispatchTypeOK, TypeOK
    <2>3. lpc'[a] = "sync" /\ syncCount'[a] = Script[a][text[a]].sync
      BY DEF DispatchTypeOK
    <2> QED BY <1>0, <1>d, <2>1, <2>2, <2>3
          DEF InPlace, ClientBusy, clientVars, barrierVars
  <1>6. PlaceInv'
    BY <1>4, <1>5, OthersInPlace DEF PlaceInv
  <1> QED BY <1>1, <1>2, <1>3, <1>6

LEMMA EnterSyncInv ==
  ASSUME DispatchInv, NEW a \in Agv, EnterSync(a)
  PROVE  DispatchInv'
  <1> USE DEF DispatchInv, EnterSync
  <1>1. BarrierInv'
    BY LockInv
  <1>2. DispatchTypeOK'
    BY <1>1 DEF DispatchTypeOK, BarrierInv, clientVars
  <1>3. StopAndWait'
    BY DEF DispatchTypeOK, StopAndWait, OneFrame, ListenerBusy, ClientBusy, clientVars
  <1>4. \A b \in Agv \ {a} : StepsAside(b)
    BY DEF DispatchTypeOK, TypeOK, Lock, StepsAside, clientVars
  <1>5. InPlace(a)'
    <2>1. down[a] = <<>> /\ ~ClientBusy(a)
      BY DEF DispatchTypeOK, StopAndWait, OneFrame, ListenerBusy
    <2>2. /\ pc[a] = "run" /\ pc'[a] = "load" /\ passed' = passed
          /\ syncCount'[a] = syncCount[a] - 1
          /\ passed[a] \in Nat /\ syncCount[a] \in Nat
      BY DEF Lock, MutexFree, DispatchTypeOK, TypeOK
    <2>3. /\ text[a] <= Len(Script[a])
          /\ passed[a] + syncCount[a] = Due[a][text[a]]
      BY <2>2 DEF PlaceInv, InPlace
    <2> QED BY <2>1, <2>2, <2>3 DEF InPlace, ClientBusy, clientVars
  <1>6. PlaceInv'
    BY <1>4, <1>5, OthersInPlace DEF PlaceInv
  <1> QED BY <1>1, <1>2, <1>3, <1>6

LEMMA InSyncInv ==
  ASSUME DispatchInv, NEW a \in Agv, InSync(a)
  PROVE  DispatchInv'
  <1> USE DEF DispatchInv
  <1>1. BarrierInv'
    BY StepInv DEF InSync, Step
  <1>u. UNCHANGED <<listenerVars, down, up, clientVars>>
    BY DEF InSync
  <1>2. DispatchTypeOK'
    BY <1>1, <1>u DEF DispatchTypeOK, BarrierInv, clientVars, listenerVars
  <1>3. StopAndWait'
    BY <1>u DEF StopAndWait, OneFrame, ListenerBusy, ClientBusy, clientVars, listenerVars
  <1>4. /\ \A b \in Agv \ {a} : pc'[b] = pc[b] /\ passed'[b] = passed[b]
        /\ pc[a] # "run"
        /\ \/ pc'[a] # "run" /\ passed'[a] = passed[a]
           \/ pc'[a] = "run" /\ passed'[a] = passed[a] + 1
    <2>1. CASE LoadFlag(a) BY <2>1 DEF LoadFlag, DispatchTypeOK, TypeOK
    <2>2. CASE StoreFlag(a)
      BY <2>2 DEF StoreFlag, Mask, DispatchTypeOK, TypeOK
    <2>3. CASE Trigger(a) BY <2>3 DEF Trigger, LastWrite, DispatchTypeOK, TypeOK
    <2>4. CASE Unlock(a) BY <2>4 DEF Unlock, DispatchTypeOK, TypeOK
    <2>5. CASE ReadAck(a) BY <2>5 DEF ReadAck, DispatchTypeOK, TypeOK
    <2> QED BY <2>1, <2>2, <2>3, <2>4, <2>5 DEF InSync
  <1>5. \A b \in Agv \ {a} : StepsAside(b)
    BY <1>4, <1>u DEF StepsAside, clientVars, listenerVars
  <1>6. InPlace(a)'
    <2>1. lpc[a] = "sync"
      BY <1>4 DEF PlaceInv, InPlace
    <2>2. down[a] = <<>> /\ ~ClientBusy(a)
      BY <2>1 DEF StopAndWait, OneFrame, ListenerBusy
    <2>3. passed[a] \in Nat /\ syncCount[a] \in Nat
      BY DEF DispatchTypeOK, TypeOK
    <2>4. /\ text[a] <= Len(Script[a])
          /\ passed[a] + syncCount[a] + 1 = Due[a][text[a]]
      BY <1>4, <2>1 DEF PlaceInv, InPlace
    <2> QED BY <1>4, <1>u, <2>1, <2>2, <2>3, <2>4
          DEF InPlace, ClientBusy, clientVars, listenerVars
  <1>7. PlaceInv'
    BY <1>5, <1>6, OthersInPlace DEF PlaceInv
  <1> QED BY <1>1, <1>2, <1>3, <1>7

LEMMA SendInv ==
  ASSUME DispatchInv, NEW a \in Agv, Send(a)
  PROVE  DispatchInv'
  <1> USE DEF DispatchInv, Send, Met
  <1>1. BarrierInv'
    BY BarrierUntouched
  <1>a. text[a] \in 1..Len(Script[a])
    BY DEF DispatchTypeOK, PlaceInv, InPlace
  <1>b. down[a] = <<>> /\ up[a] = <<>> /\ ~ClientBusy(a)
    BY DEF StopAndWait, OneFrame, ListenerBusy
  <1>c. /\ down'[a] = <<text[a]>> /\ text'[a] = text[a] + 1
        /\ lpc'[a] = IF text[a] = Len(Script[a]) THEN "done" ELSE "recv"
    BY <1>b DEF DispatchTypeOK
  <1>2. DispatchTypeOK'
    <2>1. text' \in [Agv -> Nat \ {0}]
      BY DEF DispatchTypeOK
    <2>2. \A b \in Agv : text'[b] <= Len(Script[b]) + 1
      BY <1>a, <1>c DEF DispatchTypeOK
    <2>3. down' \in [Agv -> Seq(Nat)]
      BY <1>a DEF DispatchTypeOK
    <2>4. lpc' \in [Agv -> {"none", "greet", "recv", "sync", "done"}]
      BY DEF DispatchTypeOK
    <2> QED BY <1>1, <2>1, <2>2, <2>3, <2>4 DEF DispatchTypeOK, BarrierInv, clientVars
  <1>3. StopAndWait'
    <2>1. Len(down'[a]) = 1 /\ up'[a] = <<>>
      BY <1>b, <1>c
    <2>2. ~ListenerBusy(a)' /\ ~ClientBusy(a)'
      BY <1>b, <1>c DEF ListenerBusy, ClientBusy, clientVars
    <2>3. \A b \in Agv \ {a} : ConnectionAside(b)
      BY DEF DispatchTypeOK, ConnectionAside, clientVars
    <2>4. Len(up'[a]) = 0
      BY <2>1
    <2>5. OneFrame(a)'
      <3> HIDE DEF DispatchInv, Send, Met
      <3> QED BY <2>1, <2>2, <2>4 DEF OneFrame
    <2> QED BY <2>3, <2>5, OthersOneFrame DEF StopAndWait
  <1>4. \A b \in Agv \ {a} : StepsAside(b)
    BY DEF DispatchTypeOK, StepsAside, clientVars, barrierVars
  <1>5. InPlace(a)'
    <2>0. passed[a] + 0 + 0 = Due[a][text[a]] /\ passed[a] \in Nat
      BY DEF PlaceInv, InPlace, DispatchTypeOK, TypeOK
    <2>1. passed[a] = Due[a][text[a]]
      BY <2>0
    <2>3. text[a] + 1 - 1 = text[a] /\ text[a] \in Nat
      BY <1>a
    <2>2. Head(down'[a]) = text'[a] - 1
      <3> HIDE DEF DispatchInv, Send, Met
      <3>1. Head(<<text[a]>>) = text[a]
        BY <2>3
      <3> QED BY <1>c, <2>3, <3>1
    <2> QED BY <1>a, <1>b, <1>c, <2>1, <2>2
          DEF InPlace, ClientBusy, clientVars, barrierVars
  <1>6. PlaceInv'
    BY <1>4, <1>5, OthersInPlace DEF PlaceInv
  <1> QED BY <1>1, <1>2, <1>3, <1>6

LEMMA RecvCommandInv ==
  ASSUME DispatchInv, NEW a \in Agv, RecvCommand(a)
  PROVE  DispatchInv'
  <1> USE DEF DispatchInv
  <1> DEFINE i == Head(down[a])
             count == IF missing[a] = 0 THEN PartsOf(OpOf(a, i)) ELSE missing[a]
  <1>c. /\ cpc[a] = "recv" /\ down[a] # <<>>
        /\ down' = [down EXCEPT ![a] = Tail(@)]
        /\ parts' = [parts EXCEPT ![a] = IF missing[a] = 0 THEN <<i>> ELSE Append(@, i)]
        /\ missing' = [missing EXCEPT ![a] = count - 1]
        /\ cpc' = [cpc EXCEPT ![a] = IF count = 1 THEN "exec" ELSE "ack"]
        /\ UNCHANGED <<barrierVars, listenerVars, up>>
    BY DEF RecvCommand, Collected, FramesLeft, AfterFrame
  <1> HIDE DEF count
  <1>d. i \in Nat /\ count \in 1..4
    <2>1. i \in Nat
      BY <1>c DEF DispatchTypeOK
    <2>2. PartsOf(OpOf(a, i)) \in {1, 2, 4}
      BY DEF PartsOf
    <2>3. missing[a] \in 0..3
      BY DEF DispatchTypeOK
    <2> QED BY <2>1, <2>2, <2>3 DEF count
  <1>1. BarrierInv'
    BY <1>c, BarrierUntouched
  <1>2. DispatchTypeOK'
    <2>1. down' \in [Agv -> Seq(Nat)]
      BY <1>c DEF DispatchTypeOK
    <2>2. parts' \in [Agv -> Seq(Nat)]
      <3>1. parts[a] \in Seq(Nat) /\ parts \in [Agv -> Seq(Nat)]
        BY DEF DispatchTypeOK
      <3>2. <<i>> \in Seq(Nat) /\ Append(parts[a], i) \in Seq(Nat)
        BY <1>d, <3>1
      <3> HIDE DEF i
      <3> QED BY <1>c, <3>1, <3>2
    <2>3. missing' \in [Agv -> 0..3]
      BY <1>c, <1>d DEF DispatchTypeOK
    <2>4. cpc' \in [Agv -> {"recv", "exec", "ack"}]
      BY <1>c DEF DispatchTypeOK
    <2> QED BY <1>1, <1>c, <2>1, <2>2, <2>3, <2>4
          DEF DispatchTypeOK, BarrierInv, listenerVars
  <1>b. /\ ~ListenerBusy(a) /\ up[a] = <<>> /\ Tail(down[a]) = <<>>
    BY <1>c DEF StopAndWait, OneFrame, DispatchTypeOK
  <1>3. StopAndWait'
    <2>1. down'[a] = <<>> /\ up'[a] = <<>> /\ ~ListenerBusy(a)'
      BY <1>b, <1>c DEF ListenerBusy, listenerVars, DispatchTypeOK
    <2>2. \A b \in Agv \ {a} : ConnectionAside(b)
      BY <1>c DEF DispatchTypeOK, ConnectionAside, listenerVars
    <2>3. Len(down'[a]) = 0 /\ Len(up'[a]) = 0
      BY <2>1
    <2>4. OneFrame(a)'
      BY <2>1, <2>3 DEF OneFrame
    <2> QED BY <2>2, <2>4, OthersOneFrame DEF StopAndWait
  <1>4. \A b \in Agv \ {a} : StepsAside(b)
    BY <1>c DEF DispatchTypeOK, StepsAside, listenerVars, barrierVars
  <1>5. InPlace(a)'
    <2>1. i = text[a] - 1
      BY <1>c DEF PlaceInv, InPlace
    <2>2. parts'[a] # <<>> /\ parts'[a][Len(parts'[a])] = i
      <3>1. parts[a] \in Seq(Nat)
        BY DEF DispatchTypeOK
      <3>2. parts'[a] \in {<<i>>, Append(parts[a], i)}
        BY <1>c DEF DispatchTypeOK
      <3> HIDE DEF i, DispatchInv
      <3>3. <<i>> # <<>> /\ <<i>>[Len(<<i>>)] = i
        BY <1>d
      <3>4. Append(parts[a], i) # <<>>
        BY <1>d, <3>1
      <3>5. Append(parts[a], i)[Len(Append(parts[a], i))] = i
        BY <1>d, <3>1
      <3> QED BY <3>2, <3>3, <3>4, <3>5
    <2>3. down'[a] = <<>>
      BY <1>b, <1>c DEF DispatchTypeOK
    <2> QED BY <1>c, <2>1, <2>2, <2>3
          DEF PlaceInv, InPlace, LastPart, listenerVars, barrierVars
  <1>6. PlaceInv'
    BY <1>4, <1>5, OthersInPlace DEF PlaceInv
  <1> QED BY <1>1, <1>2, <1>3, <1>6

LEMMA FinishInv ==
  ASSUME DispatchInv, NEW a \in Agv, Finish(a)
  PROVE  DispatchInv'
  <1> USE DEF DispatchInv, Finish
  <1>1. BarrierInv'
    BY BarrierUntouched
  <1>2. DispatchTypeOK'
    BY <1>1 DEF DispatchTypeOK, BarrierInv, listenerVars
  <1>3. StopAndWait'
    BY DEF DispatchTypeOK, StopAndWait, OneFrame, ListenerBusy, ClientBusy, listenerVars
  <1>4. PlaceInv'
    BY DEF DispatchTypeOK, PlaceInv, InPlace, ClientBusy, LastPart, listenerVars,
           barrierVars
  <1> QED BY <1>1, <1>2, <1>3, <1>4

LEMMA SendAckInv ==
  ASSUME DispatchInv, NEW a \in Agv, SendAck(a)
  PROVE  DispatchInv'
  <1> USE DEF DispatchInv, SendAck
  <1>1. BarrierInv'
    BY BarrierUntouched
  <1>2. DispatchTypeOK'
    BY <1>1 DEF DispatchTypeOK, BarrierInv, listenerVars
  <1>3. StopAndWait'
    <2>0. ClientBusy(a)
      BY DEF ClientBusy
    <2>1. ~ListenerBusy(a) /\ down[a] = <<>> /\ up[a] = <<>>
      BY <2>0 DEF StopAndWait, OneFrame
    <2>2. up'[a] = <<"ack">> /\ cpc'[a] = "recv"
      BY <2>1 DEF DispatchTypeOK
    <2>3. Len(up'[a]) = 1 /\ Len(down'[a]) = 0
      BY <2>1, <2>2
    <2>4. ~ListenerBusy(a)' /\ ~ClientBusy(a)'
      BY <2>1, <2>2 DEF ListenerBusy, ClientBusy, listenerVars
    <2>5. \A b \in Agv \ {a} : ConnectionAside(b)
      BY DEF DispatchTypeOK, ConnectionAside, listenerVars
    <2>6. OneFrame(a)'
      <3> HIDE DEF DispatchInv, SendAck
      <3> QED BY <2>3, <2>4 DEF OneFrame
    <2> QED BY <2>5, <2>6, OthersOneFrame DEF StopAndWait
  <1>4. PlaceInv'
    BY DEF DispatchTypeOK, PlaceInv, InPlace, ClientBusy, LastPart, listenerVars,
           barrierVars
  <1> QED BY <1>1, <1>2, <1>3, <1>4

-----------------------------------------------------------------------------
LEMMA DispatchStutterInv ==
  ASSUME DispatchInv, UNCHANGED dispatchVars
  PROVE  DispatchInv'
  <1> USE DEF DispatchInv, dispatchVars
  <1>1. BarrierInv'
    BY BarrierUntouched
  <1>2. DispatchTypeOK'
    BY <1>1 DEF DispatchTypeOK, BarrierInv, clientVars, listenerVars
  <1>3. StopAndWait'
    BY DEF StopAndWait, OneFrame, ListenerBusy, ClientBusy, clientVars, listenerVars
  <1>4. PlaceInv'
    BY DEF PlaceInv, InPlace, ClientBusy, LastPart, clientVars, listenerVars,
           barrierVars
  <1> QED BY <1>1, <1>2, <1>3, <1>4

\* Every step of a listener or an AGV keeps the inductive invariant.
LEMMA DispatchStepInv ==
  ASSUME DispatchInv, NEW a \in Agv, Listener(a) \/ Client(a)
  PROVE  DispatchInv'
  BY AcceptInv, GreetInv, RecvInv, EnterSyncInv, InSyncInv, SendInv,
     RecvCommandInv, FinishInv, SendAckInv DEF Listener, Client

\* Each connection stops and waits, the barrier is used from outside it only, and
\* every AGV is where its script and its meetings put it: for every team size and
\* all scripts (tcp_handler.c:179-269, command_manager.c:23-202).
THEOREM DispatchInvariant == DispatchSpec => []DispatchInv
  <1>1. DispatchInv /\ [DispatchNext]_dispatchVars => DispatchInv'
    BY DispatchStepInv, DispatchStutterInv DEF DispatchNext, AllDoneStutter
  <1> QED BY DispatchInitInv, <1>1, PTL DEF DispatchSpec

\* The types of the composed state hold in every execution.
THEOREM DispatchTypeCorrect == DispatchSpec => []DispatchTypeOK
  <1>1. DispatchInv => DispatchTypeOK
    BY DEF DispatchInv
  <1> QED BY DispatchInvariant, <1>1, PTL

\* A command and its acknowledgement are never outstanding together.
THEOREM DispatchStopsAndWaits == DispatchSpec => []StopAndWait
  <1>1. DispatchInv => StopAndWait
    BY DEF DispatchInv
  <1> QED BY DispatchInvariant, <1>1, PTL

\* While an AGV moves, its listener waits outside the barrier, so the AGV has
\* passed all the meetings it arrived at, those due before its command.
LEMMA MovingPlace ==
  ASSUME DispatchInv, NEW a \in Agv, Moving(a)
  PROVE  passed[a] = Due[a][LastPart(a)] /\ arrived[a] = passed[a]
  <1>1. ClientBusy(a)
    BY DEF Moving, ClientBusy
  <1>2. lpc[a] # "sync"
    BY <1>1 DEF DispatchInv, StopAndWait, OneFrame, ListenerBusy
  <1>3. /\ pc[a] = "run" /\ passed[a] = Due[a][text[a] - 1]
        /\ LastPart(a) = text[a] - 1
    BY <1>1, <1>2 DEF DispatchInv, PlaceInv, InPlace
  <1>4. arrived[a] = passed[a] + 0
    BY <1>3 DEF DispatchInv, BarrierInv, CountInv, Waiting
  <1>5. passed[a] \in Nat
    BY DEF DispatchInv, BarrierInv, TypeOK
  <1> QED BY <1>3, <1>4, <1>5

\* The whole team moves in step, whatever its size and its scripts: the purpose
\* of the server's synchronisation (tcp_handler.c:230-251).
THEOREM TeamMovesInStep == DispatchSpec => []InStep
  <1>1. DispatchInv => InStep
    <2> SUFFICES ASSUME DispatchInv, NEW a \in Agv, NEW b \in Agv,
                        Moving(a), Moving(b)
                 PROVE  Due[a][LastPart(a)] = Due[b][LastPart(b)]
      BY DEF InStep
    <2>1. BarrierSafe
      BY InvImpliesSafe DEF DispatchInv
    <2>2. passed[a] <= passed[b] /\ passed[b] <= passed[a]
      BY <2>1, MovingPlace DEF BarrierSafe
    <2>3. passed[a] \in Nat /\ passed[b] \in Nat
      BY DEF DispatchInv, BarrierInv, TypeOK
    <2> QED BY <2>2, <2>3, MovingPlace
  <1> QED BY DispatchInvariant, <1>1, PTL

-----------------------------------------------------------------------------
(* The plan of the team: Dispatch implements TeamPlan *)

Position(a) == 1..Len(Script[a])

\* A command of a script has an operation of at most four frames.
LEMMA CommandFrames ==
  ASSUME NEW a \in Agv, NEW i \in Position(a)
  PROVE  /\ Script[a][i].op \in Ops /\ Script[a][i].pf \in 0..3
         /\ PartsOf(Script[a][i].op) \in 1..4
         /\ OpOf(a, i) = Script[a][i].op
         /\ i \in Nat \ {0} /\ Len(Script[a]) \in Nat
  <1>1. Script[a] \in Seq(Command)
    BY ScriptAssumption
  <1>2. Script[a][i] \in Command
    BY <1>1 DEF Position
  <1>3. Len(Script[a]) \in Nat /\ i \in Nat \ {0}
    BY <1>1 DEF Position
  <1> QED BY <1>2, <1>3 DEF Command, PartsOf, OpOf

\* The frame after the last one of a command is the first one of the next.
LEMMA FirstFrame ==
  ASSUME NEW a \in Agv, NEW i \in Position(a),
         i > 1 => Script[a][i - 1].pf = PartsOf(Script[a][i - 1].op) - 1
  PROVE  Script[a][i].pf = 0
  <1> SUFFICES ASSUME Script[a][i].pf # 0 PROVE FALSE
    OBVIOUS
  <1>1. /\ Script[a][i].pf < PartsOf(Script[a][i].op) /\ i > 1
        /\ Script[a][i - 1].op = Script[a][i].op
        /\ Script[a][i - 1].pf = Script[a][i].pf - 1
    BY PartsAssumption DEF Position
  <1> QED BY <1>1, CommandFrames

\* The frame after one that is not the last of its command is its next one.
LEMMA NextFrame ==
  ASSUME NEW a \in Agv, NEW first \in Position(a), NEW p \in Nat,
         Script[a][first].pf = 0, p < PartsOf(Script[a][first].op)
  PROVE  /\ first + p \in Position(a)
         /\ Script[a][first + p].op = Script[a][first].op
         /\ Script[a][first + p].pf = p
  <1>1. PartsOf(Script[a][first].op) \in Nat
    BY CommandFrames
  <1>2. p \in 0..(PartsOf(Script[a][first].op) - 1)
    BY <1>1
  <1>3. /\ first + p <= Len(Script[a])
        /\ Script[a][first + p].op = Script[a][first].op
        /\ Script[a][first + p].pf = p
    BY <1>2, PartsAssumption DEF Position
  <1> QED BY <1>3 DEF Position

-----------------------------------------------------------------------------
LEMMA CollectInit == DispatchInit => CollectInv
  BY DEF DispatchInit, CollectInv, Collects, Received

\* An AGV whose frames, connection and listener a step leaves alone.
HandAside(b) ==
  /\ lpc'[b] = lpc[b] /\ text'[b] = text[b] /\ down'[b] = down[b]
  /\ cpc'[b] = cpc[b] /\ parts'[b] = parts[b] /\ missing'[b] = missing[b]

LEMMA OthersCollect ==
  ASSUME NEW b \in Agv, Collects(b), HandAside(b)
  PROVE  Collects(b)'
  BY DEF HandAside, Collects, Received, InHand, LastPart

\* One AGV, its connection and its listener are as the invariants say.
Sound(a) == OneFrame(a) /\ InPlace(a) /\ Collects(a)

LEMMA InvSound ==
  ASSUME DispatchInv, CollectInv, NEW a \in Agv
  PROVE  DispatchTypeOK /\ Sound(a)
  BY DEF DispatchInv, StopAndWait, PlaceInv, CollectInv, Sound

\* What a frame that arrives adds to the frames in hand.
LEMMA FrameArrives ==
  ASSUME DispatchTypeOK, NEW a \in Agv, Sound(a), RecvCommand(a)
  PROVE  LET i == text[a] - 1
             count == IF missing[a] = 0 THEN PartsOf(OpOf(a, i)) ELSE missing[a]
         IN  /\ Head(down[a]) = i /\ Received(a) = i - 1
             /\ lpc[a] \notin {"none", "greet", "sync"}
             /\ i \in Nat /\ (i # 0 => i \in Position(a))
             /\ i = 0 => missing[a] = 0
             /\ down' = [down EXCEPT ![a] = <<>>]
             /\ parts'[a] = IF missing[a] = 0 THEN <<i>> ELSE Append(parts[a], i)
             /\ parts'[a] # <<>> /\ parts'[a][Len(parts'[a])] = i
             /\ missing'[a] = count - 1
             /\ cpc'[a] = (IF count = 1 THEN "exec" ELSE "ack")
  <1> DEFINE i == text[a] - 1
             count == IF missing[a] = 0 THEN PartsOf(OpOf(a, i)) ELSE missing[a]
  <1>1. /\ cpc[a] = "recv" /\ down[a] # <<>> /\ down[a] \in Seq(Nat)
        /\ parts[a] \in Seq(Nat) /\ text[a] \in Nat \ {0}
        /\ text[a] <= Len(Script[a]) + 1
    BY DEF RecvCommand, DispatchTypeOK
  <1>2. Head(down[a]) = i
    BY <1>1 DEF Sound, InPlace
  <1>3. ~ListenerBusy(a) /\ Tail(down[a]) = <<>>
    BY <1>1 DEF Sound, OneFrame, DispatchTypeOK
  <1>4. lpc[a] \notin {"none", "greet", "sync"}
    BY <1>3 DEF ListenerBusy
  <1>5. Received(a) = i - 1
    BY <1>1, <1>4 DEF Sound, Collects
  <1>6. i = 0 => missing[a] = 0
    BY <1>5 DEF Sound, Collects
  <1>7. /\ parts'[a] = IF missing[a] = 0 THEN <<i>> ELSE Append(parts[a], i)
        /\ missing'[a] = count - 1
        /\ cpc'[a] = (IF count = 1 THEN "exec" ELSE "ack")
        /\ down' = [down EXCEPT ![a] = <<>>]
    BY <1>2, <1>3
       DEF RecvCommand, Collected, FramesLeft, AfterFrame, DispatchTypeOK
  <1>8. i \in Nat /\ (i # 0 => i \in Position(a))
    <2>1. Len(Script[a]) \in Nat
      BY ScriptAssumption
    <2> QED BY <1>1, <2>1 DEF Position
  <1>9. parts'[a] # <<>> /\ parts'[a][Len(parts'[a])] = i
    <2> HIDE DEF i, count
    <2>1. i \in Nat
      BY <1>8
    <2>2. <<i>> # <<>> /\ <<i>>[Len(<<i>>)] = i
      BY <2>1
    <2>3. Append(parts[a], i) # <<>> /\ Append(parts[a], i)[Len(Append(parts[a], i))] = i
      BY <1>1, <2>1
    <2> QED BY <1>7, <2>2, <2>3
  <1> QED BY <1>2, <1>4, <1>5, <1>6, <1>7, <1>8, <1>9

\* The frames in hand after the first frame of a command has arrived.
LEMMA FirstInHand ==
  ASSUME DispatchTypeOK, NEW a \in Agv, Sound(a), RecvCommand(a),
         text[a] - 1 # 0, missing[a] = 0
  PROVE  InHand(a, text[a] - 1, Len(parts[a]))'
  <1> DEFINE i == text[a] - 1
  <1>1. /\ Received(a) = i - 1 /\ i \in Position(a)
        /\ parts'[a] = <<i>> /\ missing'[a] = PartsOf(OpOf(a, i)) - 1
    BY FrameArrives
  <1>2. i \in Nat \ {0} /\ Len(Script[a]) \in Nat
    BY <1>1, CommandFrames
  <1>3. ASSUME i > 1
        PROVE  Script[a][i - 1].pf = PartsOf(Script[a][i - 1].op) - 1
    <2>1. Received(a) = LastPart(a) /\ LastPart(a) = i - 1
      BY <1>1, <1>2, <1>3 DEF Received
    <2>2. InHand(a, i - 1, Len(parts[a]))
      BY <1>1, <1>2, <1>3, <2>1 DEF Sound, Collects
    <2>3. i - 1 \in Position(a)
      BY <1>1, <1>2, <1>3 DEF Position
    <2>4. Script[a][i - 1].pf \in Nat /\ PartsOf(Script[a][i - 1].op) \in Nat
      BY <2>3, CommandFrames
    <2> QED BY <2>2, <2>4 DEF InHand
  <1>4. Script[a][i].pf = 0
    BY <1>1, <1>3, FirstFrame
  <1>5. text' = text /\ OpOf(a, i) = Script[a][i].op /\ PartsOf(Script[a][i].op) \in 1..4
    BY <1>1, CommandFrames DEF RecvCommand, listenerVars
  <1>6. Len(parts'[a]) = 1 /\ parts'[a][1] = i
    BY <1>1
  <1> HIDE DEF i
  <1>7. InHand(a, i, 1)'
    <2>1. ASSUME NEW k \in 1..1
          PROVE  /\ parts'[a][k] = i - 1 + k /\ i - 1 + k \in 1..Len(Script[a])
                 /\ Script[a][i - 1 + k].op = Script[a][i].op
                 /\ Script[a][i - 1 + k].pf = k - 1
      <3>1. k = 1 /\ i - 1 + k = i
        BY <1>2
      <3> QED BY <1>1, <1>4, <1>6, <3>1 DEF Position
    <2>2. i' = i
      BY <1>5 DEF i
    <2> QED BY <1>1, <1>4, <1>5, <2>1, <2>2 DEF InHand
  <1> QED BY <1>6, <1>7 DEF i

LEMMA Fewer ==
  ASSUME NEW m \in Nat \ {0}, NEW q \in Nat, NEW n \in Nat, m = q - n
  PROVE  n < q
  OBVIOUS

LEMMA Shift ==
  ASSUME NEW i \in Int, NEW n \in Int, NEW k \in Int
  PROVE  i - (n + 1) + k = i - 1 - n + k
  OBVIOUS

\* The frames in hand after a further frame of a command has arrived.
LEMMA FurtherInHand ==
  ASSUME DispatchTypeOK, NEW a \in Agv, Sound(a), RecvCommand(a),
         text[a] - 1 # 0, missing[a] # 0
  PROVE  InHand(a, text[a] - 1, Len(parts[a]))'
  <1> PICK i : i = text[a] - 1
    OBVIOUS
  <1> PICK n : n = Len(parts[a])
    OBVIOUS
  <1>1. /\ Received(a) = i - 1 /\ i \in Position(a)
        /\ parts'[a] = Append(parts[a], i) /\ missing'[a] = missing[a] - 1
    BY FrameArrives
  <1>2. i \in Nat \ {0} /\ Len(Script[a]) \in Nat
    BY <1>1, CommandFrames
  <1>3. i - 1 > 0 /\ LastPart(a) = i - 1 /\ i - 1 \in Position(a)
    BY <1>1, <1>2 DEF Received, Sound, Collects, Position
  <1>4. parts[a] \in Seq(Nat) /\ n \in Nat /\ missing[a] \in 0..3
    BY DEF DispatchTypeOK
  <1>5. InHand(a, i - 1, n)
    BY <1>1, <1>3 DEF Sound, Collects
  <1> DEFINE first == i - n
             op == Script[a][i - 1].op
  <1>6. /\ n = Script[a][i - 1].pf + 1 /\ missing[a] = PartsOf(op) - n
        /\ Script[a][i - 1].pf \in 0..3 /\ PartsOf(op) \in 1..4
    BY <1>3, <1>5, CommandFrames DEF InHand
  <1>7. \A k \in 1..n :
          /\ parts[a][k] = i - 1 - n + k /\ i - 1 - n + k \in 1..Len(Script[a])
          /\ Script[a][i - 1 - n + k].op = op /\ Script[a][i - 1 - n + k].pf = k - 1
    BY <1>5 DEF InHand
  <1>8. first \in Position(a) /\ Script[a][first].op = op /\ Script[a][first].pf = 0
    <2>0. n \in Nat \ {0}
      BY <1>4, <1>6
    <2>1. 1 \in 1..n /\ i - 1 - n + 1 = first
      BY <1>2, <2>0
    <2>2. first \in 1..Len(Script[a]) /\ Script[a][first].op = op
          /\ Script[a][first].pf = 1 - 1
      <3> HIDE DEF first, op
      <3> QED BY <1>7, <2>1
    <2> QED BY <2>2 DEF Position
  <1>9. n < PartsOf(op)
    <2>1. missing[a] \in Nat \ {0} /\ PartsOf(op) \in Nat
      BY <1>4, <1>6
    <2>2. missing[a] = PartsOf(op) - n /\ n \in Nat
      BY <1>4, <1>6
    <2> HIDE DEF op, first
    <2> QED BY <2>1, <2>2, Fewer
  <1>10. Script[a][i].op = op /\ Script[a][i].pf = n
    <2>1. first + n = i
      BY <1>2, <1>4
    <2> HIDE DEF first, op
    <2> QED BY <1>4, <1>8, <1>9, <2>1, NextFrame
  <1>11. Len(parts'[a]) = n + 1 /\ \A k \in 1..n : parts'[a][k] = parts[a][k]
    BY <1>1, <1>4
  <1>12. parts'[a][n + 1] = i
    BY <1>1, <1>4
  <1>13. text' = text
    BY DEF RecvCommand, listenerVars
  <1>14. missing'[a] = PartsOf(op) - (n + 1)
    BY <1>1, <1>4, <1>6
  <1> HIDE DEF op, first
  <1>15. ASSUME NEW k \in 1..(n + 1)
         PROVE  LET j == i - (n + 1) + k
                IN  /\ parts'[a][k] = j /\ j \in 1..Len(Script[a])
                    /\ Script[a][j].op = Script[a][i].op /\ Script[a][j].pf = k - 1
    <2>1. CASE k \in 1..n
      <3>0. i \in Int /\ n \in Int /\ k \in Int
        BY <1>2, <1>4
      <3>1. i - (n + 1) + k = i - 1 - n + k
        BY <3>0, Shift
      <3> QED BY <1>7, <1>10, <1>11, <2>1, <3>1
    <2>2. CASE k = n + 1
      <3>1. i - (n + 1) + k = i /\ k - 1 = n
        BY <1>2, <1>4, <2>2
      <3> QED BY <1>1, <1>10, <1>12, <2>2, <3>1 DEF Position
    <2> QED BY <1>4, <2>1, <2>2
  <1>16. InHand(a, i, n + 1)'
    <2>1. n + 1 = Script[a][i].pf + 1
      BY <1>10
    <2>2. missing'[a] = PartsOf(Script[a][i].op) - (n + 1)
      BY <1>10, <1>14
    <2> QED BY <1>15, <2>1, <2>2 DEF InHand
  <1>17. (text[a] - 1)' = i
    BY <1>13
  <1> QED BY <1>11, <1>16, <1>17

LEMMA RecvCommandCollects ==
  ASSUME DispatchTypeOK, NEW a \in Agv, Sound(a), RecvCommand(a)
  PROVE  Collects(a)'
  <1>i. PICK i : i = text[a] - 1
    OBVIOUS
  <1> DEFINE count == IF missing[a] = 0 THEN PartsOf(OpOf(a, i)) ELSE missing[a]
  <1>1. /\ lpc[a] \notin {"none", "greet"} /\ i \in Nat
        /\ parts'[a] # <<>> /\ parts'[a][Len(parts'[a])] = i
        /\ i = 0 => missing[a] = 0
        /\ missing'[a] = count - 1
        /\ cpc'[a] = (IF count = 1 THEN "exec" ELSE "ack")
        /\ down' = [down EXCEPT ![a] = <<>>]
    BY <1>i, FrameArrives
  <1>2. Received(a)' = i /\ LastPart(a)' = i
    BY <1>1 DEF Received, LastPart
  <1>3. lpc' = lpc /\ text' = text /\ down'[a] = <<>>
    BY <1>1 DEF RecvCommand, listenerVars, DispatchTypeOK
  <1>4. i = 0 => missing'[a] = 0
    BY <1>1 DEF OpOf, PartsOf
  <1>5. i # 0 => InHand(a, text[a] - 1, Len(parts[a]))'
    BY <1>i, FirstInHand, FurtherInHand
  <1>6. (text[a] - 1)' = LastPart(a)'
    BY <1>i, <1>2, <1>3
  <1>7. i # 0 => InHand(a, LastPart(a), Len(parts[a]))'
    BY <1>5, <1>6 DEF InHand
  <1>8. cpc'[a] = "exec" => missing'[a] = 0
    BY <1>1
  <1>9. IF lpc'[a] \in {"none", "greet"}
          THEN Received(a)' = -1
          ELSE Received(a)' = text'[a] - (IF down'[a] = <<>> THEN 1 ELSE 2)
    BY <1>i, <1>1, <1>2, <1>3
  <1>10. Received(a)' <= 0 => missing'[a] = 0
    <2>1. i \in Nat
      BY <1>1
    <2>2. i <= 0 => missing'[a] = 0
      BY <2>1, <1>4
    <2> QED BY <1>2, <2>2
  <1>11. Received(a)' > 0 => InHand(a, LastPart(a), Len(parts[a]))'
    BY <1>1, <1>2, <1>7
  <1> QED BY <1>8, <1>9, <1>10, <1>11 DEF Collects

LEMMA CollectStep ==
  ASSUME DispatchInv, CollectInv, NEW a \in Agv, Listener(a) \/ Client(a)
  PROVE  CollectInv'
  <1> USE DEF DispatchInv, DispatchTypeOK
  <1>1. CASE Accept(a)
    BY <1>1 DEF Accept, CollectInv, Collects, Received, InHand, LastPart, clientVars
  <1>2. CASE Greet(a)
    <2>1. down[a] = <<>> /\ text[a] = 1
      BY <1>2 DEF Greet, StopAndWait, OneFrame, ListenerBusy, PlaceInv, InPlace
    <2>2. down'[a] = <<0>> /\ \A b \in Agv \ {a} : HandAside(b)
      BY <1>2, <2>1 DEF Greet, HandAside, clientVars
    <2>3. Received(a) = -1 /\ UNCHANGED <<parts, missing, cpc, text>> /\ lpc'[a] = "recv"
      BY <1>2 DEF Greet, CollectInv, Collects, clientVars
    <2>4. Received(a)' = Received(a) /\ LastPart(a)' = LastPart(a)
      BY <2>3 DEF Received, LastPart
    <2>5. Collects(a)'
      BY <2>1, <2>2, <2>3, <2>4 DEF CollectInv, Collects
    <2> QED BY <2>2, <2>5, OthersCollect DEF CollectInv
  <1>3. CASE Recv(a)
    BY <1>3 DEF Recv, CollectInv, Collects, Received, InHand, LastPart, clientVars
  <1>4. CASE EnterSync(a) \/ InSync(a)
    <2>1. \A b \in Agv : HandAside(b)
      BY <1>4 DEF EnterSync, InSync, HandAside, clientVars, listenerVars
    <2> QED BY <2>1, OthersCollect DEF CollectInv
  <1>5. CASE Send(a)
    <2>1. down[a] = <<>>
      BY <1>5 DEF Send, StopAndWait, OneFrame, ListenerBusy
    <2>2. /\ down'[a] = <<text[a]>> /\ text'[a] = text[a] + 1
          /\ lpc[a] = "sync" /\ lpc'[a] \in {"done", "recv"}
          /\ UNCHANGED <<parts, missing, cpc>>
          /\ \A b \in Agv \ {a} : HandAside(b)
      BY <1>5, <2>1 DEF Send, HandAside, clientVars
    <2>3. Received(a)' = Received(a) /\ LastPart(a)' = LastPart(a)
      BY <2>2 DEF Received, LastPart
    <2>4. InHand(a, LastPart(a), Len(parts[a])) => InHand(a, LastPart(a), Len(parts[a]))'
      BY <2>2, <2>3 DEF InHand
    <2>5. Received(a) = text[a] - 1 /\ text[a] \in Nat
      BY <2>1, <2>2 DEF CollectInv, Collects
    <2>7. down'[a] # <<>>
      <3> HIDE DEF DispatchInv, DispatchTypeOK
      <3> QED BY <2>2
    <2>6. Collects(a)'
      BY <2>2, <2>3, <2>4, <2>5, <2>7 DEF CollectInv, Collects
    <2> QED BY <2>2, <2>6, OthersCollect DEF CollectInv
  <1>6. CASE RecvCommand(a)
    <2>1. \A b \in Agv \ {a} : HandAside(b)
      BY <1>6 DEF RecvCommand, HandAside, listenerVars
    <2> QED BY <1>6, <2>1, OthersCollect, InvSound, RecvCommandCollects DEF CollectInv
  <1>7. CASE Finish(a) \/ SendAck(a)
    <2>1. /\ UNCHANGED <<lpc, text, down, parts, missing>> /\ cpc'[a] # "exec"
          /\ \A b \in Agv \ {a} : HandAside(b)
      BY <1>7 DEF Finish, SendAck, HandAside, listenerVars
    <2>2. Collects(a)'
      <3> HIDE DEF DispatchInv, DispatchTypeOK
      <3> QED BY <2>1 DEF CollectInv, Collects, Received, InHand, LastPart
    <2> QED BY <2>1, <2>2, OthersCollect DEF CollectInv
  <1> QED BY <1>1, <1>2, <1>3, <1>4, <1>5, <1>6, <1>7 DEF Listener, Client

LEMMA CollectStutter ==
  ASSUME CollectInv, UNCHANGED dispatchVars
  PROVE  CollectInv'
  <1>1. \A b \in Agv : HandAside(b)
    BY DEF HandAside, dispatchVars, listenerVars, clientVars
  <1> QED BY <1>1, OthersCollect DEF CollectInv

\* The frames in an AGV's hand are those of one command, in order, up to the last
\* one it was sent (command_manager.c:77-192).
THEOREM CollectInvariant == DispatchSpec => [](DispatchInv /\ CollectInv)
  <1>1. DispatchInv /\ CollectInv /\ [DispatchNext]_dispatchVars => CollectInv'
    BY CollectStep, CollectStutter DEF DispatchNext, AllDoneStutter
  <1>2. DispatchInv /\ CollectInv /\ [DispatchNext]_dispatchVars => DispatchInv'
    BY DispatchStepInv, DispatchStutterInv DEF DispatchNext, AllDoneStutter
  <1> QED BY DispatchInitInv, CollectInit, <1>1, <1>2, PTL DEF DispatchSpec

\* Every command that is executed is made of all its own frames, each in the local
\* its pf names (command_manager.c:77-192).
THEOREM CommandsAreWhole == DispatchSpec => []WholeCommand
  <1>1. DispatchInv /\ CollectInv => WholeCommand
    <2> SUFFICES ASSUME DispatchInv, CollectInv, NEW a \in Agv, Moving(a)
                 PROVE  LET first == parts[a][1]
                        IN  /\ first \in 1..Len(Script[a])
                            /\ Len(parts[a]) = PartsOf(Script[a][first].op)
                            /\ \A k \in 1..Len(parts[a]) :
                                 /\ parts[a][k] = first + k - 1
                                 /\ Script[a][parts[a][k]].op = Script[a][first].op
                                 /\ Script[a][parts[a][k]].pf = k - 1
      BY DEF WholeCommand
    <2> PICK l : l = LastPart(a)
      OBVIOUS
    <2> PICK n : n = Len(parts[a])
      OBVIOUS
    <2>1. /\ parts[a] # <<>> /\ parts[a] \in Seq(Nat) /\ missing[a] = 0 /\ n \in Nat \ {0}
      BY DEF Moving, DispatchInv, DispatchTypeOK, StopAndWait, PlaceInv, InPlace,
             ClientBusy, CollectInv, Collects
    <2>2. l \in Nat \ {0} /\ Received(a) = l
      BY <2>1 DEF Moving, LastPart, Received
    <2>3. InHand(a, l, n)
      BY <2>2 DEF CollectInv, Collects
    <2>4. /\ n = PartsOf(Script[a][l].op)
          /\ \A k \in 1..n :
               /\ parts[a][k] = l - n + k /\ l - n + k \in Position(a)
               /\ Script[a][l - n + k].op = Script[a][l].op
               /\ Script[a][l - n + k].pf = k - 1
      <3>1. PartsOf(Script[a][l].op) \in {1, 2, 4}
        BY DEF PartsOf
      <3> QED BY <2>1, <2>3, <3>1 DEF InHand, Position
    <2>5. parts[a][1] = l - n + 1 /\ 1 \in 1..n
      BY <2>1, <2>4
    <2>6. /\ parts[a][1] \in Position(a)
          /\ Script[a][parts[a][1]].op = Script[a][l].op
      BY <2>4, <2>5
    <2>7. ASSUME NEW k \in 1..n
          PROVE  /\ parts[a][k] = parts[a][1] + k - 1
                 /\ Script[a][parts[a][k]].op = Script[a][l].op
                 /\ Script[a][parts[a][k]].pf = k - 1
      <3>1. l - n + k = l - n + 1 + k - 1
        BY <2>1, <2>2
      <3> QED BY <2>4, <2>5, <3>1
    <2> QED BY <2>4, <2>6, <2>7 DEF Position
  <1> QED BY CollectInvariant, <1>1, PTL

-----------------------------------------------------------------------------
\* A step that leaves the frames and the activity of every AGV alone is none of the
\* plan's.
LEMMA PlanStutters ==
  ASSUME UNCHANGED <<parts, cpc>>
  PROVE  UNCHANGED Plan!plan
  BY DEF Plan!plan, Doing, Ended, Dealt, Moving, LastPart

\* AGVs whose frames and activity a step leaves alone keep their place in the plan.
LEMMA OthersPlan ==
  ASSUME NEW b \in Agv, parts'[b] = parts[b], cpc'[b] = cpc[b]
  PROVE  Doing(b)' = Doing(b) /\ Ended(b)' = Ended(b)
  BY DEF Doing, Ended, Dealt, Moving, LastPart

LEMMA DealtType ==
  ASSUME DispatchInv, CollectInv, NEW a \in Agv
  PROVE  /\ Dealt(a) \in Int /\ text[a] \in Nat \ {0} /\ Len(Script[a]) \in Nat
         /\ Received(a) \in Int
  <1>1. parts[a] \in Seq(Nat) /\ text[a] \in Nat \ {0}
    BY DEF DispatchInv, DispatchTypeOK
  <1>2. Len(Script[a]) \in Nat
    BY ScriptAssumption
  <1>3. Received(a) \in Int
    <2>1. CASE lpc[a] \in {"none", "greet"}
      BY <2>1 DEF CollectInv, Collects
    <2>2. CASE lpc[a] \notin {"none", "greet"}
      <3>1. Received(a) = text[a] - (IF down[a] = <<>> THEN 1 ELSE 2)
        BY <2>2 DEF CollectInv, Collects
      <3> QED BY <1>1, <3>1
    <2> QED BY <2>1, <2>2
  <1>4. CASE parts[a] = <<>>
    BY <1>1, <1>2, <1>3, <1>4 DEF Dealt
  <1>5. CASE parts[a] # <<>>
    <2>1. LastPart(a) \in Int
      BY <1>3, <1>5 DEF Received
    <2> QED BY <1>1, <1>2, <1>3, <1>5, <2>1 DEF Dealt
  <1> QED BY <1>4, <1>5

\* An AGV that has yet to deal with position j has arrived at no meeting after it.
LEMMA NotPastDue ==
  ASSUME DispatchInv, CollectInv, NEW b \in Agv, NEW j \in Position(b), j > Dealt(b)
  PROVE  arrived[b] <= Due[b][j]
  <1>1. /\ Dealt(b) \in Int /\ text[b] \in Nat \ {0} /\ Len(Script[b]) \in Nat
        /\ j \in Nat \ {0} /\ arrived[b] \in Nat /\ passed[b] \in Nat
        /\ syncCount[b] \in Nat
    BY DealtType, CommandFrames DEF DispatchInv, DispatchTypeOK, BarrierInv, TypeOK
  <1>2. \A i \in 0..Len(Script[b]) : i <= j => Due[b][i] <= Due[b][j] /\ Due[b][i] \in Nat
    <2>1. j \in 0..Len(Script[b])
      BY <1>1 DEF Position
    <2> QED BY <2>1, DueAssumption
  <1>3. Due[b][j] \in Nat
    BY <1>1, <1>2 DEF Position
  <1>4. arrived[b] = passed[b] + (IF Waiting(b) THEN 1 ELSE 0)
    BY DEF DispatchInv, BarrierInv, CountInv
  <1>5. CASE lpc[b] = "sync"
    <2>1. down[b] = <<>> /\ cpc[b] = "recv"
      BY <1>5 DEF DispatchInv, StopAndWait, OneFrame, ListenerBusy, ClientBusy
    <2>2. Received(b) = text[b] - 1
      BY <1>5, <2>1 DEF CollectInv, Collects
    <2>3. Dealt(b) = text[b] - 1
      BY <1>1, <2>1, <2>2 DEF Dealt, Received
    <2>4. text[b] <= j
      BY <1>1, <2>3
    <2>5. text[b] \in 0..Len(Script[b])
      BY <1>1, <1>5 DEF DispatchInv, PlaceInv, InPlace
    <2>6. passed[b] + syncCount[b] + (IF pc[b] = "run" THEN 0 ELSE 1) = Due[b][text[b]]
      BY <1>5 DEF DispatchInv, PlaceInv, InPlace
    <2>7. arrived[b] <= Due[b][text[b]]
      BY <1>1, <1>4, <2>6 DEF Waiting
    <2>8. Due[b][text[b]] <= Due[b][j] /\ Due[b][text[b]] \in Nat
      BY <1>2, <2>4, <2>5
    <2> QED BY <1>1, <1>3, <2>7, <2>8
  <1>6. CASE lpc[b] # "sync"
    <2>1. pc[b] = "run" /\ passed[b] = Due[b][text[b] - 1]
      BY <1>6 DEF DispatchInv, PlaceInv, InPlace
    <2>2. arrived[b] = Due[b][text[b] - 1]
      BY <1>1, <1>4, <2>1 DEF Waiting
    <2>3. text[b] - 1 \in 0..Len(Script[b])
      <3>1. text[b] <= Len(Script[b]) + 1
        BY DEF DispatchInv, DispatchTypeOK
      <3> QED BY <1>1, <3>1
    <2>4. text[b] - 1 <= j
      <3>1. CASE lpc[b] \in {"none", "greet"}
        BY <1>1, <3>1 DEF DispatchInv, PlaceInv, InPlace
      <3>2. CASE lpc[b] \notin {"none", "greet"} /\ parts[b] = <<>>
        <4>1. Received(b) = -1
          BY <3>2 DEF Received
        <4>2. Received(b) = text[b] - (IF down[b] = <<>> THEN 1 ELSE 2)
          BY <3>2 DEF CollectInv, Collects
        <4>3. text[b] <= 1
          BY <1>1, <4>1, <4>2
        <4> QED BY <1>1, <4>3
      <3>3. CASE lpc[b] \notin {"none", "greet"} /\ parts[b] # <<>>
        <4>1. Received(b) = LastPart(b)
          BY <3>3 DEF Received
        <4>2. LastPart(b) = text[b] - (IF down[b] = <<>> THEN 1 ELSE 2)
          BY <3>3, <4>1 DEF CollectInv, Collects
        <4>3. cpc[b] = "exec" => down[b] = <<>>
          BY DEF DispatchInv, StopAndWait, OneFrame, ClientBusy
        <4>4. Dealt(b) = IF cpc[b] = "exec" THEN LastPart(b) - 1 ELSE LastPart(b)
          BY <3>3 DEF Dealt
        <4>5. Dealt(b) >= text[b] - 2
          BY <1>1, <4>2, <4>3, <4>4
        <4> QED BY <1>1, <4>5
      <3> QED BY <3>1, <3>2, <3>3
    <2>5. Due[b][text[b] - 1] <= Due[b][j]
      BY <1>2, <2>3, <2>4
    <2> QED BY <2>2, <2>5
  <1> QED BY <1>5, <1>6

\* The frame an AGV receives completes a command of its script: the motion begins.
LEMMA RecvBegins ==
  ASSUME DispatchInv, CollectInv, NEW a \in Agv, RecvCommand(a),
         cpc'[a] = "exec", text[a] # 1
  PROVE  \E i \in Motions(a) : Plan!Begin(a, i)
  <1>i. PICK i : i = text[a] - 1
    OBVIOUS
  <1>1. /\ Received(a) = i - 1 /\ i \in Nat \ {0} /\ i \in Position(a)
        /\ lpc[a] # "sync" /\ parts'[a] # <<>> /\ LastPart(a)' = i
    <2>1. text[a] \in Nat \ {0}
      BY DealtType
    <2>2. i \in Nat \ {0}
      BY <1>i, <2>1
    <2>3. /\ Received(a) = i - 1 /\ i \in Position(a) /\ lpc[a] # "sync"
          /\ parts'[a] # <<>> /\ parts'[a][Len(parts'[a])] = i
      BY <1>i, <2>2, InvSound, FrameArrives
    <2> QED BY <2>2, <2>3 DEF LastPart
  <1>2. /\ cpc[a] = "recv" /\ \A b \in Agv \ {a} : parts'[b] = parts[b] /\ cpc'[b] = cpc[b]
    BY DEF RecvCommand, DispatchInv, DispatchTypeOK
  <1>3. i \in Motions(a)
    <2>1. InHand(a, i, Len(parts[a]))'
      <3>1. InHand(a, text[a] - 1, Len(parts[a]))'
        BY <1>1, <1>i, FirstInHand, InvSound, FurtherInHand
      <3>2. (text[a] - 1)' = i
        BY <1>i DEF RecvCommand, listenerVars
      <3> QED BY <3>1, <3>2 DEF InHand
    <2>2. missing'[a] = 0
      BY InvSound, RecvCommandCollects DEF Collects
    <2>3. Script[a][i].pf \in Nat /\ PartsOf(Script[a][i].op) \in Nat
      BY <1>1, CommandFrames
    <2> QED BY <1>1, <2>1, <2>2, <2>3 DEF InHand, Motions, Position
  <1>4. Dealt(a) = i - 1 \/ (parts[a] = <<>> /\ Dealt(a) = 0 /\ i = 0)
    <2>1. CASE parts[a] = <<>>
      BY <1>1, <2>1 DEF Received
    <2>2. CASE parts[a] # <<>>
      BY <1>1, <1>2, <2>2 DEF Received, Dealt
    <2> QED BY <2>1, <2>2
  <1>5. Dealt(a) = i - 1 /\ Dealt(a)' = i - 1
    BY <1>1, <1>4 DEF Dealt
  <1>6. Doing(a) = 0 /\ Doing(a)' = i /\ Ended(a)' = Ended(a)
    BY <1>1, <1>2, <1>5 DEF Doing, Moving, Ended, Motions
  <1>7. \A b \in Agv \ {a} : Doing(b)' = Doing(b) /\ Ended(b)' = Ended(b)
    BY <1>2, OthersPlan
  <1>8. \A b \in Agv : Motions(b) \subseteq Position(b)
    BY DEF Motions, Position
  <1>9. i \notin Ended(a) /\ \A j \in Motions(a) \ Ended(a) : i <= j
    <2>1. ASSUME NEW j \in Motions(a) \ Ended(a) PROVE i <= j
      <3>1. ~(j <= i - 1) /\ j \in Nat
        BY <1>5, <1>8, CommandFrames DEF Ended
      <3> QED BY <1>1, <3>1
    <2> QED BY <1>1, <1>5, <2>1 DEF Ended
  <1>10. ASSUME NEW b \in Agv, NEW j \in Motions(b) \ Ended(b)
         PROVE  Due[a][i] <= Due[b][j]
    <2>1. j \in Position(b) /\ j \in Nat /\ Dealt(b) \in Int
      BY <1>8, CommandFrames, DealtType
    <2>2. j > Dealt(b)
      BY <2>1 DEF Ended
    <2>3. arrived[b] <= Due[b][j]
      BY <2>1, <2>2, NotPastDue
    <2>4. passed[a] = Due[a][i]
      BY <1>1, <1>i DEF DispatchInv, PlaceInv, InPlace
    <2>5. passed[a] <= arrived[b]
      BY InvImpliesSafe DEF DispatchInv, BarrierSafe
    <2>6. passed[a] \in Nat /\ arrived[b] \in Nat /\ Due[b][j] \in Nat
      <3>1. j \in 0..Len(Script[b])
        BY <2>1 DEF Position
      <3> QED BY <3>1, DueAssumption DEF DispatchInv, BarrierInv, TypeOK
    <2> QED BY <2>3, <2>4, <2>5, <2>6
  <1> DEFINE doing == [b \in Agv |-> Doing(b)]
             ended == [b \in Agv |-> Ended(b)]
  <1>11. doing' = [doing EXCEPT ![a] = i] /\ ended' = ended
    BY <1>6, <1>7
  <1>12. Plan!Left(a) = Motions(a) \ Ended(a)
         /\ \A b \in Agv : Plan!Left(b) = Motions(b) \ Ended(b)
    BY DEF Plan!Left
  <1>13. Plan!Begin(a, i)
    BY <1>3, <1>6, <1>9, <1>10, <1>11, <1>12 DEF Plan!Begin, Plan!Idle
  <1> QED BY <1>3, <1>13

\* Frames before the last one, and the greeting, begin nothing.
LEMMA RecvStutters ==
  ASSUME DispatchInv, CollectInv, NEW a \in Agv, RecvCommand(a),
         cpc'[a] # "exec" \/ text[a] = 1
  PROVE  UNCHANGED Plan!plan
  <1>i. PICK i : i = text[a] - 1
    OBVIOUS
  <1>1. /\ Received(a) = i - 1 /\ i \in Nat /\ (i # 0 => i \in Position(a))
        /\ parts'[a] # <<>> /\ LastPart(a)' = i
    BY <1>i, InvSound, FrameArrives DEF LastPart
  <1>2. /\ cpc[a] = "recv" /\ \A b \in Agv \ {a} : parts'[b] = parts[b] /\ cpc'[b] = cpc[b]
    BY DEF RecvCommand, DispatchInv, DispatchTypeOK
  <1>3. \A j \in Motions(a) : j \in Nat \ {0}
    <2>1. \A j \in Motions(a) : j \in Position(a)
      BY DEF Motions, Position
    <2> QED BY <2>1, CommandFrames
  <1>4. Doing(a)' = Doing(a)
    <2>1. ~Moving(a)
      BY <1>2 DEF Moving
    <2>2. ~Moving(a)'
      BY <1>1, <1>i DEF Moving
    <2> QED BY <2>1, <2>2 DEF Doing
  <1>5. Dealt(a) = IF i = 0 THEN 0 ELSE i - 1
    <2>1. CASE parts[a] = <<>>
      BY <1>1, <2>1 DEF Received, Dealt
    <2>2. CASE parts[a] # <<>>
      <3>1. LastPart(a) = i - 1 /\ LastPart(a) \in Nat
        BY <1>1, <2>2 DEF Received, LastPart, DispatchInv, DispatchTypeOK
      <3> QED BY <1>1, <1>2, <2>2, <3>1 DEF Dealt
    <2> QED BY <2>1, <2>2
  <1>6. Ended(a)' = Ended(a)
    <2>1. CASE i = 0
      <3>1. Dealt(a)' \in {0, -1} /\ Dealt(a) = 0
        BY <1>1, <1>5, <2>1 DEF Dealt
      <3>2. \A j \in Motions(a) : ~(j <= 0) /\ ~(j <= -1)
        BY <1>3
      <3> QED BY <3>1, <3>2 DEF Ended, Motions
    <2>2. CASE i # 0
      <3>1. cpc'[a] = "ack"
        BY <1>i, <2>2 DEF RecvCommand, AfterFrame, DispatchInv, DispatchTypeOK
      <3>2. Dealt(a)' = i /\ Dealt(a) = i - 1
        BY <1>1, <1>5, <2>2, <3>1 DEF Dealt
      <3>3. i \notin Motions(a)
        <4>1. InHand(a, i, Len(parts[a]))'
          <5>1. InHand(a, text[a] - 1, Len(parts[a]))'
            BY <1>i, <2>2, FirstInHand, InvSound, FurtherInHand
          <5>2. (text[a] - 1)' = i
            BY <1>i DEF RecvCommand, listenerVars
          <5> QED BY <5>1, <5>2 DEF InHand
        <4>2. missing'[a] # 0
          <5>1. /\ missing'[a] = (IF missing[a] = 0 THEN PartsOf(OpOf(a, i)) ELSE missing[a]) - 1
                /\ cpc'[a] = (IF (IF missing[a] = 0 THEN PartsOf(OpOf(a, i)) ELSE missing[a]) = 1
                                THEN "exec" ELSE "ack")
            BY <1>i, InvSound, FrameArrives
          <5>2. PartsOf(OpOf(a, i)) \in {1, 2, 4}
            BY DEF PartsOf
          <5>3. missing[a] \in 0..3
            BY DEF DispatchInv, DispatchTypeOK
          <5> QED BY <3>1, <5>1, <5>2, <5>3
        <4>3. /\ missing'[a] = PartsOf(Script[a][i].op) - (Script[a][i].pf + 1)
              /\ Script[a][i].pf \in Nat /\ PartsOf(Script[a][i].op) \in Nat
          <5>1. Script[a][i].pf \in Nat /\ PartsOf(Script[a][i].op) \in Nat
            BY <1>1, <2>2, CommandFrames
          <5>2. /\ Len(parts[a])' = Script[a][i].pf + 1
                /\ missing'[a] = PartsOf(Script[a][i].op) - Len(parts[a])'
            BY <4>1 DEF InHand
          <5> QED BY <5>1, <5>2
        <4> QED BY <4>2, <4>3 DEF Motions
      <3>4. \A j \in Motions(a) : (j <= i) <=> (j <= i - 1)
        <4>1. ASSUME NEW j \in Motions(a) PROVE (j <= i) <=> (j <= i - 1)
          <5>1. j \in Nat /\ j # i
            BY <1>3, <3>3
          <5> QED BY <1>1, <5>1
        <4> QED BY <4>1
      <3> QED BY <3>2, <3>4 DEF Ended, Motions
    <2> QED BY <2>1, <2>2
  <1>7. \A b \in Agv : Doing(b)' = Doing(b) /\ Ended(b)' = Ended(b)
    BY <1>2, <1>4, <1>6, OthersPlan
  <1> QED BY <1>7 DEF Plan!plan

\* The end of a motion is its end in the plan; after the greeting nothing ends.
LEMMA FinishEnds ==
  ASSUME DispatchInv, CollectInv, NEW a \in Agv, Finish(a)
  PROVE  Plan!End(a) \/ UNCHANGED Plan!plan
  <1>i. PICK i : i = LastPart(a)
    OBVIOUS
  <1>1. /\ cpc[a] = "exec" /\ cpc'[a] = "ack" /\ parts' = parts /\ missing[a] = 0
        /\ \A b \in Agv \ {a} : cpc'[b] = cpc[b]
    BY DEF Finish, DispatchInv, DispatchTypeOK, CollectInv, Collects
  <1>2. parts[a] # <<>> /\ parts[a] \in Seq(Nat)
    BY <1>1 DEF DispatchInv, DispatchTypeOK, PlaceInv, InPlace, ClientBusy
  <1>3. i \in Nat /\ Received(a) = i /\ LastPart(a)' = i
    BY <1>i, <1>1, <1>2 DEF LastPart, Received
  <1>4. Dealt(a) = i - 1 /\ Dealt(a)' = i
    BY <1>i, <1>1, <1>2, <1>3 DEF Dealt
  <1>5. \A j \in Motions(a) : j \in Nat \ {0}
    <2>1. \A j \in Motions(a) : j \in Position(a)
      BY DEF Motions, Position
    <2> QED BY <2>1, CommandFrames
  <1>6. \A b \in Agv \ {a} : Doing(b)' = Doing(b) /\ Ended(b)' = Ended(b)
    BY <1>1, OthersPlan
  <1>7. Doing(a) = i /\ Doing(a)' = 0
    BY <1>i, <1>1 DEF Doing, Moving
  <1>8. CASE i = 0
    <2>1. \A j \in Motions(a) : ~(j <= 0) /\ ~(j <= 0 - 1)
      BY <1>5
    <2>2. Ended(a)' = Ended(a)
      BY <1>4, <1>8, <2>1 DEF Ended, Motions
    <2> QED BY <1>6, <1>7, <1>8, <2>2 DEF Plan!plan
  <1>9. CASE i # 0
    <2>1. i \in Motions(a)
      <3>1. InHand(a, i, Len(parts[a]))
        BY <1>i, <1>3, <1>9 DEF CollectInv, Collects
      <3>2. i \in Position(a)
        <4>1. i = text[a] - 1 /\ text[a] <= Len(Script[a]) + 1
          BY <1>i, <1>1 DEF DispatchInv, DispatchTypeOK, PlaceInv, InPlace, ClientBusy
        <4>2. text[a] \in Nat \ {0} /\ Len(Script[a]) \in Nat
          BY DealtType
        <4> QED BY <1>9, <4>1, <4>2 DEF Position
      <3>3. Script[a][i].pf \in Nat /\ PartsOf(Script[a][i].op) \in Nat
        BY <3>2, CommandFrames
      <3> QED BY <1>1, <3>1, <3>2, <3>3 DEF InHand, Motions, Position
    <2>2. \A j \in Motions(a) : (j <= i) <=> (j <= i - 1 \/ j = i)
      <3>1. ASSUME NEW j \in Motions(a) PROVE (j <= i) <=> (j <= i - 1 \/ j = i)
        <4>1. j \in Nat
          BY <1>5
        <4> QED BY <1>3, <4>1
      <3> QED BY <3>1
    <2>3. Ended(a)' = Ended(a) \cup {i}
      BY <1>4, <2>1, <2>2 DEF Ended, Motions
    <2> DEFINE doing == [b \in Agv |-> Doing(b)]
               ended == [b \in Agv |-> Ended(b)]
    <2>4. doing' = [doing EXCEPT ![a] = 0]
      BY <1>6, <1>7
    <2>5. ended' = [ended EXCEPT ![a] = @ \cup {i}]
      BY <1>6, <2>3
    <2>6. doing[a] = i
      BY <1>7
    <2> QED BY <1>9, <2>4, <2>5, <2>6 DEF Plan!End, Plan!Idle
  <1> QED BY <1>8, <1>9

\* Every step of a listener or an AGV is a step of the plan or changes nothing of it.
LEMMA PlanStep ==
  ASSUME DispatchInv, CollectInv, DispatchNext
  PROVE  Plan!Next \/ UNCHANGED Plan!plan
  <1>1. CASE AllDoneStutter
    BY <1>1, PlanStutters DEF AllDoneStutter, dispatchVars, clientVars
  <1>2. ASSUME NEW a \in Agv, Listener(a)
        PROVE  UNCHANGED Plan!plan
    <2>1. UNCHANGED <<parts, cpc>>
      BY <1>2 DEF Listener, Accept, Greet, Recv, EnterSync, InSync, Send, clientVars
    <2> QED BY <2>1, PlanStutters
  <1>3. ASSUME NEW a \in Agv, RecvCommand(a)
        PROVE  Plan!Next \/ UNCHANGED Plan!plan
    <2>1. CASE cpc'[a] = "exec" /\ text[a] # 1
      <3>1. PICK i \in Motions(a) : Plan!Begin(a, i)
        BY <1>3, <2>1, RecvBegins
      <3> QED BY <3>1 DEF Plan!Next
    <2>2. CASE cpc'[a] # "exec" \/ text[a] = 1
      BY <1>3, <2>2, RecvStutters
    <2> QED BY <2>1, <2>2
  <1>4. ASSUME NEW a \in Agv, Finish(a)
        PROVE  Plan!Next \/ UNCHANGED Plan!plan
    BY <1>4, FinishEnds DEF Plan!Next
  <1>5. ASSUME NEW a \in Agv, SendAck(a)
        PROVE  UNCHANGED Plan!plan
    <2>1. /\ cpc[a] = "ack" /\ cpc'[a] = "recv" /\ parts' = parts
          /\ \A b \in Agv \ {a} : cpc'[b] = cpc[b]
      BY <1>5 DEF SendAck, DispatchInv, DispatchTypeOK
    <2>2. Doing(a)' = Doing(a) /\ Ended(a)' = Ended(a)
      BY <2>1 DEF Doing, Ended, Dealt, Moving, LastPart
    <2>3. \A b \in Agv : Doing(b)' = Doing(b) /\ Ended(b)' = Ended(b)
      BY <2>1, <2>2, OthersPlan
    <2> QED BY <2>3 DEF Plan!plan
  <1> QED BY <1>1, <1>2, <1>3, <1>4, <1>5 DEF DispatchNext, Client

LEMMA PlanInit == DispatchInit => Plan!Init
  <1> SUFFICES ASSUME DispatchInit PROVE Plan!Init
    OBVIOUS
  <1>1. ASSUME NEW a \in Agv PROVE Doing(a) = 0 /\ Ended(a) = {}
    <2>1. Doing(a) = 0 /\ Dealt(a) = 0
      BY DEF DispatchInit, Doing, Moving, Dealt
    <2>2. \A j \in Motions(a) : j \in Position(a)
      BY DEF Motions, Position
    <2>3. \A j \in Motions(a) : ~(j <= 0)
      BY <2>2, CommandFrames
    <2> QED BY <2>1, <2>3 DEF Ended
  <1> QED BY <1>1 DEF Plan!Init, Plan!Idle

\* The server and the AGVs carry out the plan of the team: for every team size and
\* all scripts, each AGV executes every motion of its script once, in order, and none
\* while a teammate has one to end that is due after fewer meetings.
THEOREM DispatchRefinesPlan == DispatchSpec => ImplementsPlan
  <1>1. DispatchInv /\ CollectInv /\ [DispatchNext]_dispatchVars
          => [Plan!Next]_(Plan!plan)
    BY PlanStep, PlanStutters DEF dispatchVars, clientVars
  <1> QED BY PlanInit, CollectInvariant, <1>1, PTL
        DEF DispatchSpec, ImplementsPlan, Plan!Spec

\* A listener that enters the barrier has a meeting of its script left.
LEMMA EnterIsThread ==
  ASSUME DispatchInv, NEW a \in Agv, EnterSync(a)
  PROVE  Thread(a)
  <1>1. /\ lpc[a] = "sync" /\ syncCount[a] > 0 /\ pc[a] = "run" /\ Lock(a)
    BY DEF EnterSync, Lock
  <1>2. /\ passed[a] + syncCount[a] + 0 = Due[a][text[a]]
        /\ text[a] <= Len(Script[a])
    BY <1>1 DEF DispatchInv, PlaceInv, InPlace
  <1>3. /\ passed[a] \in Nat /\ syncCount[a] \in Nat /\ text[a] \in Nat /\ arrived[a] \in Nat
        /\ arrived[a] = passed[a] + 0 /\ Len(Script[a]) \in Nat
    <2>1. arrived[a] = passed[a] + 0
      BY <1>1 DEF DispatchInv, BarrierInv, CountInv, Waiting
    <2>2. Len(Script[a]) \in Nat
      BY ScriptAssumption
    <2> QED BY <2>1, <2>2 DEF DispatchInv, DispatchTypeOK, BarrierInv, TypeOK
  <1>4. text[a] \in 0..Len(Script[a]) /\ Len(Script[a]) \in 0..Len(Script[a])
    BY <1>2, <1>3
  <1>5. /\ Due[a][text[a]] <= Due[a][Len(Script[a])]
        /\ Syncs[a] = Due[a][Len(Script[a])]
        /\ Due[a][text[a]] \in Nat /\ Syncs[a] \in Nat
    BY <1>2, <1>4, DueAssumption
  <1>6. arrived[a] < Syncs[a]
    BY <1>1, <1>2, <1>3, <1>5
  <1> QED BY <1>1, <1>6 DEF Thread, Step

\* The listeners use the barrier as its specification says, so all that is proved of
\* the barrier holds of it inside the server (tcp_handler.c:232-244).
THEOREM ListenersUseBarrier == DispatchSpec => UsesBarrier
  <1>1. DispatchInit => Init
    BY DEF DispatchInit
  <1>2. DispatchInv /\ [DispatchNext]_dispatchVars => [Next]_barrierVars
    <2> SUFFICES ASSUME DispatchInv, DispatchNext
                 PROVE  Next \/ UNCHANGED barrierVars
      BY DEF dispatchVars
    <2>1. ASSUME NEW a \in Agv, EnterSync(a) PROVE Next
      BY <2>1, EnterIsThread DEF Next
    <2>2. ASSUME NEW a \in Agv, InSync(a) PROVE Next
      BY <2>2 DEF InSync, Next, Thread, Step, LoadFlag, StoreFlag, Trigger, Unlock, ReadAck
    <2>3. ASSUME NEW a \in Agv,
                 Accept(a) \/ Greet(a) \/ Recv(a) \/ Send(a) \/ Client(a)
          PROVE  UNCHANGED barrierVars
      BY <2>3 DEF Accept, Greet, Recv, Send, Client, RecvCommand, Finish, SendAck
    <2>4. CASE AllDoneStutter
      BY <2>4 DEF AllDoneStutter, dispatchVars
    <2> QED BY <2>1, <2>2, <2>3, <2>4 DEF DispatchNext, Listener
  <1> QED BY <1>1, <1>2, DispatchInvariant, PTL DEF DispatchSpec, UsesBarrier, Spec
=============================================================================
