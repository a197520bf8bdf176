--------------------------- MODULE TorFleetProofs ---------------------------
(***************************************************************************)
(* Proofs about TorFleet: however often the instances crash and come back  *)
(* while the others start, the startup counts each of them once and ends   *)
(* only when all of them have been ready.                                  *)
(***************************************************************************)
EXTENDS TorFleet, FiniteSetTheorems, TLAPS

\* The instances onceReady has fired for.
Ready == {i \in Instances : sent[i]}

\* The loop of StartAllWithRestart goes on exactly until the count is complete.
Loop == /\ main = "startup" => started < Total
        /\ main \notin {"startup", "interrupted"} => started = Total

IInv == TypeOK /\ CountedOnce /\ Loop

LEMMA TotalIsPositive == Total \in Nat /\ Total > 0
  BY FleetAssumption, FS_CardinalityType, FS_EmptySet DEF Total

\* An instance that was not counted leaves room in readyCh.
LEMMA Room ==
  ASSUME TypeOK
  PROVE  /\ Cardinality(Ready) \in Nat
         /\ Cardinality(Ready) <= Total
         /\ Cardinality(Ready) = Total => Ready = Instances
         /\ \A i \in Instances : ~sent[i] => Cardinality(Ready) < Total
<1>1. Ready \in SUBSET Instances
  BY DEF Ready
<1>2. /\ IsFiniteSet(Ready)
      /\ Cardinality(Ready) <= Total
      /\ Cardinality(Ready) = Total => Ready = Instances
  BY <1>1, FleetAssumption, FS_Subset DEF Total
<1>3. Cardinality(Ready) \in Nat
  BY <1>2, FS_CardinalityType
<1>4. ASSUME NEW i \in Instances, ~sent[i] PROVE Ready # Instances
  BY <1>4 DEF Ready
<1> QED
  BY <1>2, <1>3, <1>4, TotalIsPositive

\* Setting the flag of an instance adds it to those that were ready.
LEMMA SetSent ==
  ASSUME TypeOK, NEW i \in Instances, sent' = [sent EXCEPT ![i] = TRUE]
  PROVE  Cardinality(Ready') = IF sent[i] THEN Cardinality(Ready)
                                          ELSE Cardinality(Ready) + 1
<1>1. Ready' = Ready \cup {i}
  BY DEF Ready, TypeOK
<1>2. IsFiniteSet(Ready)
  BY FleetAssumption, FS_Subset DEF Ready
<1>3. i \in Ready <=> sent[i]
  BY DEF Ready
<1> QED
  BY <1>1, <1>2, <1>3, FS_AddElement

LEMMA Initial == Init => IInv
<1> SUFFICES ASSUME Init PROVE IInv
  OBVIOUS
<1>1. TypeOK
  <2>1. queue \in 0 .. Total /\ started \in 0 .. Total
    BY TotalIsPositive DEF Init
  <2>2. /\ sup \in [Instances -> SupSteps]
        /\ exit \in [Instances -> {"none", "armed", "error", "nil"}]
        /\ timer \in [Instances -> BOOLEAN] /\ sent \in [Instances -> BOOLEAN]
        /\ status \in [Requests -> {"idle", "waiting"}]
    BY DEF Init, SupSteps
  <2> QED
    BY <2>1, <2>2 DEF Init, TypeOK, MainSteps
<1>2. Ready = {}
  BY DEF Init, Ready
<1>3. CountedOnce
  BY <1>2, FS_EmptySet DEF Init, CountedOnce, Ready
<1> QED
  BY <1>1, <1>3, TotalIsPositive DEF Init, Loop, IInv

\* What neither counts nor moves the main goroutine keeps the two other parts.
LEMMA Uncounted ==
  ASSUME CountedOnce, Loop, UNCHANGED readyVars, UNCHANGED main
  PROVE  CountedOnce' /\ Loop'
  BY DEF CountedOnce, Loop, readyVars

\* The supervisors: only SupReady touches readyCh, and its message fits.
LEMMA SupStep ==
  ASSUME IInv, NEW i \in Instances, SupNext(i) \/ WaitEnd(i)
  PROVE  IInv'
<1> USE DEF IInv
<1>1. CASE SupReady(i)
  <2>1. CountedOnce'
    <3>1. started + queue = Cardinality(Ready) /\ started \in Nat /\ queue \in Nat
      BY DEF CountedOnce, Ready, TypeOK
    <3>2. started' = started
          /\ queue' = IF ~sent[i] /\ queue < Total THEN queue + 1 ELSE queue
      BY <1>1 DEF SupReady, Sends, Capacity
    <3>3. ~sent[i] => queue < Total
      BY <3>1, Room, TotalIsPositive
    <3>4. sent' = [sent EXCEPT ![i] = TRUE]
      BY <1>1 DEF SupReady
    <3>5. Cardinality(Ready') = IF sent[i] THEN Cardinality(Ready)
                                           ELSE Cardinality(Ready) + 1
      BY <3>4, SetSent
    <3>6. started' + queue' = Cardinality(Ready')
      BY <3>1, <3>2, <3>3, <3>5
    <3> QED
      BY <3>6 DEF CountedOnce, Ready
  <2>2. queue' \in 0 .. Total
    BY <1>1, TotalIsPositive DEF SupReady, Sends, Capacity, TypeOK
  <2>3. TypeOK'
    BY <1>1, <2>2 DEF SupReady, SupAt, SupGoto, mainVars, rotVars, TypeOK, SupSteps
  <2>4. Loop'
    BY <1>1 DEF SupReady, mainVars, Loop
  <2> QED
    BY <2>1, <2>3, <2>4
<1>2. CASE ~SupReady(i)
  <2>1. UNCHANGED <<cancelled, readyVars, mainVars, rotVars, status>>
    BY <1>2 DEF SupNext, SupAttempt, SupStartFails, SupStarted, SupCancelled,
       SupTimer, SupExit, SupFailed, SupBackoff, WaitEnd
  <2>2. /\ sup' \in [Instances -> SupSteps]
        /\ exit' \in [Instances -> {"none", "armed", "error", "nil"}]
        /\ timer' \in [Instances -> BOOLEAN]
    <3> USE DEF SupGoto, SupSteps, TypeOK
    <3>1. CASE SupAttempt(i)
      BY <3>1 DEF SupAttempt
    <3>2. CASE SupStartFails(i)
      BY <3>2 DEF SupStartFails
    <3>3. CASE SupStarted(i)
      BY <3>3 DEF SupStarted
    <3>4. CASE SupCancelled(i)
      BY <3>4 DEF SupCancelled
    <3>5. CASE SupTimer(i)
      BY <3>5 DEF SupTimer, Either
    <3>6. CASE SupExit(i)
      BY <3>6 DEF SupExit, Either
    <3>7. CASE SupFailed(i)
      BY <3>7 DEF SupFailed
    <3>8. CASE SupBackoff(i)
      BY <3>8 DEF SupBackoff
    <3>9. CASE WaitEnd(i)
      BY <3>9 DEF WaitEnd
    <3> QED
      BY <1>2, <3>1, <3>2, <3>3, <3>4, <3>5, <3>6, <3>7, <3>8, <3>9 DEF SupNext
  <2>3. TypeOK'
    BY <2>1, <2>2 DEF readyVars, mainVars, rotVars, TypeOK
  <2> QED
    BY <2>1, <2>3, Uncounted DEF mainVars
<1> QED
  BY <1>1, <1>2

\* The main goroutine: a message received is counted, the last one ends the
\* startup.
LEMMA MainStep ==
  ASSUME IInv, MainNext \/ MainReload
  PROVE  IInv'
<1> USE DEF IInv
<1>1. CASE MainReceive
  <2>1. /\ started + queue = Cardinality(Ready) /\ started \in Nat /\ queue \in Nat
        /\ started < Total /\ queue > 0
        /\ started' = started + 1 /\ queue' = queue - 1 /\ sent' = sent
    BY <1>1 DEF MainReceive, CountedOnce, Ready, TypeOK, Loop
  <2>2. started' + queue' = Cardinality(Ready')
    BY <2>1 DEF Ready
  <2>3. started' \in 0 .. Total /\ queue' \in 0 .. Total
    BY <2>1, TotalIsPositive DEF TypeOK
  <2>4. TypeOK'
    BY <1>1, <2>1, <2>3 DEF MainReceive, supVars, rotVars, TypeOK, MainSteps
  <2>5. Loop'
    BY <1>1, <2>1, TotalIsPositive DEF MainReceive, Loop
  <2> QED
    BY <2>2, <2>4, <2>5 DEF CountedOnce, Ready
<1>2. ASSUME NEW from \in MainSteps, NEW to \in MainSteps, MainGoto(from, to),
             from = "startup" => to = "interrupted",
             to \in {"startup", "interrupted"} => from = "startup",
             from # "interrupted"
      PROVE  IInv'
  <2>1. TypeOK'
    BY <1>2 DEF MainGoto, supVars, readyVars, rotVars, TypeOK
  <2>2. CountedOnce'
    BY <1>2 DEF MainGoto, readyVars, CountedOnce
  <2>3. Loop'
    BY <1>2 DEF MainGoto, readyVars, Loop
  <2> QED
    BY <2>1, <2>2, <2>3
<1>3. ASSUME NEW i \in Instances, StopInstance(i) PROVE IInv'
  <2>1. main = "stopall" /\ main' \in {"sweep", "stopall"} /\ UNCHANGED readyVars
    BY <1>3 DEF StopInstance
  <2>2. TypeOK'
    BY <1>3, <2>1 DEF StopInstance, supVars, readyVars, rotVars, TypeOK, MainSteps
  <2>3. CountedOnce' /\ Loop'
    BY <2>1 DEF readyVars, CountedOnce, Loop
  <2> QED
    BY <2>2, <2>3
<1>4. CASE MainInterrupted
  BY <1>2, <1>4 DEF MainInterrupted, MainSteps
<1>5. CASE MainWired
  BY <1>2, <1>5 DEF MainWired, MainSteps
<1>6. CASE MainReload \/ MainGetInstances
  BY <1>2, <1>6 DEF MainReload, MainGetInstances, MainSteps
<1>7. CASE MainShutdown \/ MainDaemonStopped \/ MainSweep
  BY <1>2, <1>7 DEF MainShutdown, MainDaemonStopped, MainSweep, MainSteps
<1> QED
  BY <1>1, <1>3, <1>4, <1>5, <1>6, <1>7 DEF MainNext

\* Rotations, requests and the interruption count nothing.
LEMMA OtherStep ==
  ASSUME IInv,
         \/ Interrupt \/ Rotate \/ RotNext
         \/ \E r \in Requests : StatusRequest(r) \/ CollectStatus(r)
  PROVE  IInv'
<1> USE DEF IInv
<1>1. UNCHANGED readyVars /\ UNCHANGED main
  BY DEF Interrupt, Rotate, RotNext, RotLock, RotStopped, RotStarted, StatusRequest,
     CollectStatus, mainVars
<1>2. TypeOK'
  <2> USE DEF TypeOK, supVars, readyVars, mainVars, rotVars
  <2>1. CASE Interrupt
    BY <2>1 DEF Interrupt
  <2>2. CASE Rotate
    BY <2>2 DEF Rotate
  <2>3. CASE RotLock
    <3>1. picked' \in SUBSET Instances
      BY <2>3 DEF RotLock
    <3> QED
      BY <2>3, <3>1 DEF RotLock
  <2>4. CASE RotStopped
    BY <2>4 DEF RotStopped
  <2>5. CASE RotStarted
    BY <2>5 DEF RotStarted, Unlocked
  <2>6. ASSUME NEW r \in Requests, StatusRequest(r) \/ CollectStatus(r) PROVE TypeOK'
    BY <2>6 DEF StatusRequest, CollectStatus
  <2> QED
    BY <2>1, <2>2, <2>3, <2>4, <2>5, <2>6 DEF RotNext
<1> QED
  BY <1>1, <1>2, Uncounted

LEMMA Inductive == IInv /\ [Next]_vars => IInv'
<1> SUFFICES ASSUME IInv, [Next]_vars PROVE IInv'
  OBVIOUS
<1>1. CASE UNCHANGED vars
  BY <1>1 DEF vars, supVars, readyVars, mainVars, rotVars, IInv, TypeOK, CountedOnce,
     Loop
<1>2. CASE Next
  BY <1>2, SupStep, MainStep, OtherStep DEF Next
<1> QED
  BY <1>1, <1>2

\* The invariant holds after every step of the supervisors, of
\* StartAllWithRestart (manager.go:186-214), of the rotation and of the shutdown.
THEOREM Invariance == Spec => []IInv
  BY Initial, Inductive, PTL DEF Spec

\* The variables keep their types, for any finite set of instances.
THEOREM TypeCorrect == Spec => []TypeOK
  BY Invariance, PTL DEF IInv

\* readyCh loses no message and onceReady lets none through twice.
THEOREM CountsOnce == Spec => []CountedOnce
  BY Invariance, PTL DEF IInv

\* A startup that ended has seen every instance ready.
THEOREM AllReady == Spec => []ReadyMeansAll
<1>1. IInv => ReadyMeansAll
  <2> SUFFICES ASSUME IInv, main \notin {"startup", "interrupted"}
               PROVE  \A i \in Instances : sent[i]
    BY DEF ReadyMeansAll
  <2>1. started = Total /\ started + queue = Cardinality(Ready) /\ queue \in Nat
    BY DEF IInv, Loop, CountedOnce, TypeOK, Ready
  <2>2. Cardinality(Ready) = Total
    BY <2>1, Room, TotalIsPositive DEF IInv
  <2>3. Ready = Instances
    BY <2>2, Room DEF IInv
  <2> QED
    BY <2>3 DEF Ready
<1> QED
  BY Invariance, <1>1, PTL

-----------------------------------------------------------------------------
(* The mutex *)

\* Who waits for the mutex waits for a rotation that is stopping or starting an
\* instance, and so for nobody who waits for the mutex; a cycle that gave it
\* back has an instance left to come to.
HolderGoesOn ==
  /\ locked <=> rot \in {"stop", "start"}
  /\ rot = "cycle" => picked # {}
  /\ rot = "idle" => picked = {}

\* The cycles are past before the shutdown stops the first instance, and it has
\* stopped all of them before it turns to the processes that are left.
ShutdownInOrder ==
  /\ main \notin {"serving", "reload", "daemon"} => rot = "idle"
  /\ main \in {"sweep", "exit"} => stopped = Instances
  /\ main \notin {"stopall", "sweep", "exit"} => stopped = {}

LockInv == HolderGoesOn /\ ShutdownInOrder

LEMMA LockInitial == Init => LockInv
  BY DEF Init, LockInv, HolderGoesOn, ShutdownInOrder

LEMMA LockStep == TypeOK /\ LockInv /\ [Next]_vars => LockInv'
<1> SUFFICES ASSUME TypeOK, LockInv, [Next]_vars PROVE LockInv'
  OBVIOUS
<1> USE DEF LockInv, HolderGoesOn, ShutdownInOrder, rotVars, mainVars
<1>1. ASSUME NEW i \in Instances, SupNext(i) \/ WaitEnd(i) PROVE LockInv'
  BY <1>1 DEF SupNext, SupAttempt, SupStartFails, SupStarted, SupCancelled, SupTimer,
     SupReady, SupExit, SupFailed, SupBackoff, WaitEnd
<1>2. CASE MainReceive
  BY <1>2 DEF MainReceive
<1>3. CASE MainInterrupted \/ MainWired \/ MainReload \/ MainGetInstances \/ MainShutdown
  BY <1>3 DEF MainInterrupted, MainWired, MainReload, MainGetInstances, MainShutdown, MainGoto
<1>4. CASE MainDaemonStopped \/ MainSweep
  BY <1>4 DEF MainDaemonStopped, MainSweep, MainGoto
<1>5. ASSUME NEW i \in Instances, StopInstance(i) PROVE LockInv'
  BY <1>5 DEF StopInstance
<1>6. CASE Interrupt \/ UNCHANGED vars
  BY <1>6 DEF Interrupt, vars
<1>7. CASE Rotate
  BY <1>7 DEF Rotate
<1>8. CASE RotLock
  BY <1>8 DEF RotLock, Running
<1>9. CASE RotStopped
  BY <1>9 DEF RotStopped
<1>10. CASE RotStarted
  BY <1>10 DEF RotStarted, Unlocked
<1>11. ASSUME NEW r \in Requests, StatusRequest(r) \/ CollectStatus(r) PROVE LockInv'
  BY <1>11 DEF StatusRequest, CollectStatus
<1> QED
  BY <1>1, <1>2, <1>3, <1>4, <1>5, <1>6, <1>7, <1>8, <1>9, <1>10, <1>11
     DEF Next, MainNext, RotNext

\* manager.go:237: whatever fails, RotateInstance gives the mutex back, and run.go
\* joins the daemon before StopAll: the shutdown meets no rotation.
THEOREM MutexAndShutdown == Spec => [](HolderGoesOn /\ ShutdownInOrder)
  BY LockInitial, LockStep, TypeCorrect, PTL DEF Spec, LockInv
=============================================================================
