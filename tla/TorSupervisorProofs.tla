------------------------ MODULE TorSupervisorProofs ------------------------
(***************************************************************************)
(* Proofs about TorSupervisor, for any number of processes an instance is  *)
(* given in its life: as long as nobody rotates it one Tor runs at a time; *)
(* the shutdown leaves none but one whose Spawn was under way; and what    *)
(* TorFleet keeps of an instance is what the instance does.                *)
(***************************************************************************)
EXTENDS TorSupervisor, FiniteSetTheorems, TLAPS

\* Where the supervisor has no process of its own.
Between == {"top", "render", "boot", "check", "fork", "failed", "exited",
            "backoff"}

\* Only the supervisor starts processes: the one it holds, if any, is up.
AtMostHeld == \A k \in Children : child[k] \in Up => k = hold["sup"]

\* What the supervisor's position says of the processes and of its waiter.
Alone ==
  /\ at["rot"] = "idle"
  /\ AtMostHeld
  /\ at["sup"] \in Between => NoneUp /\ waiter = "none"
  /\ at["sup"] \in {"list", "assign"} => waiter = "none"
  /\ at["sup"] \in {"monitor", "ready"} =>
       /\ proc = hold["sup"]
       /\ waiter = "blocked" => waitOn = proc
       /\ waiter \in {"error", "nil"} => NoneUp

\* Every field keeps to the values the code gives it, for any number of processes
\* and with or without rotation (instance.go:19: the states of an instance).
THEOREM TypeCorrect == Spec => []TypeOK
<1> USE DEF TypeOK, Children, NoChild, Threads, Up, Exited, SupSteps, StartSteps,
            StopSteps, MainSteps, manager
<1>1. Init => TypeOK
  <2> SUFFICES ASSUME Init PROVE TypeOK
    OBVIOUS
  <2>1. rotation \in BOOLEAN /\ cancelled \in BOOLEAN /\ attemptCancelled \in BOOLEAN
    BY SupervisorAssumption DEF Init
  <2>2. timer \in BOOLEAN /\ ready \in BOOLEAN
    BY DEF Init
  <2>3. /\ child \in [Children -> {"none"} \cup Up \cup Exited]
        /\ hold \in [Threads -> Children \cup {NoChild}]
    BY DEF Init
  <2>4. at \in [sup : SupSteps \cup StartSteps,
               rot : {"idle"} \cup StopSteps \cup StartSteps,
               main : MainSteps \cup StopSteps]
    BY DEF Init
  <2> QED
    BY <2>1, <2>2, <2>3, <2>4 DEF Init
<1>2. TypeOK /\ [Next]_vars => TypeOK'
  <2> SUFFICES ASSUME TypeOK, [Next]_vars PROVE TypeOK'
    OBVIOUS
  <2> USE DEF At, Goto, shared, supVars
  <2>1. ASSUME NEW t \in {"sup", "rot"}, StartNext(t) PROVE TypeOK'
    <3>1. CASE StartRender(t)
      BY <2>1, <3>1 DEF StartRender, StartFailed
    <3>2. CASE StartBoot(t)
      BY <2>1, <3>2 DEF StartBoot
    <3>3. CASE StartCheck(t)
      BY <2>1, <3>3 DEF StartCheck, StartFailed
    <3>5. CASE StartFork(t)
      BY <2>1, <3>5 DEF StartFork, StartFailed
    <3>6. CASE StartList("sup") \/ StartList("rot")
      <4>1. CASE StartList("sup")
        <5>1. listed' = listed \cup {hold["sup"]} /\ at["sup"] = "list"
          BY <4>1 DEF StartList
        <5>2. hold["sup"] \in Children
          BY <5>1
        <5>3. listed' \subseteq Children
          BY <5>1, <5>2
        <5> QED
          BY <4>1, <5>3 DEF StartList
      <4>2. CASE StartList("rot")
        <5>1. listed' = listed \cup {hold["rot"]} /\ at["rot"] = "list"
          BY <4>2 DEF StartList
        <5>2. hold["rot"] \in Children
          BY <5>1
        <5>3. listed' \subseteq Children
          BY <5>1, <5>2
        <5> QED
          BY <4>2, <5>3 DEF StartList
      <4> QED
        BY <3>6, <4>1, <4>2
    <3>4. CASE StartAssign("sup") \/ StartAssign("rot")
      <4>1. hold' \in [Threads -> Children \cup {NoChild}] /\ proc' \in Children \cup {NoChild}
        BY <3>4 DEF StartAssign
      <4>2. CASE StartAssign("sup")
        BY <4>1, <4>2 DEF StartAssign
      <4>3. CASE StartAssign("rot")
        BY <4>1, <4>3 DEF StartAssign
      <4> QED
        BY <3>4, <4>2, <4>3
    <3> QED
      BY <2>1, <3>1, <3>2, <3>3, <3>4, <3>5, <3>6 DEF StartNext
  <2>2. ASSUME NEW t \in {"rot", "main"}, StopNext(t) PROVE TypeOK'
    <3>1. CASE StopCancel(t)
      BY <2>2, <3>1 DEF StopCancel
    <3>2. CASE StopClaim(t)
      BY <2>2, <3>2 DEF StopClaim, Asked
    <3>3. CASE StopJoin(t)
      BY <2>2, <3>3 DEF StopJoin
    <3>4. CASE StopDown(t)
      BY <2>2, <3>4 DEF StopDown, AfterStop
    <3> QED
      BY <2>2, <3>1, <3>2, <3>3, <3>4 DEF StopNext
  <2>3. CASE SupAttempt
    <3>1. attemptCancelled' \in BOOLEAN
      BY <2>3 DEF SupAttempt
    <3>2. at' = [at EXCEPT !["sup"] = "render"]
      BY <2>3 DEF SupAttempt
    <3>3. /\ at' \in [sup : SupSteps \cup StartSteps,
                      rot : {"idle"} \cup StopSteps \cup StartSteps,
                      main : MainSteps \cup StopSteps]
          /\ at'["sup"] = "render" /\ at'["rot"] = at["rot"]
      BY <3>2
    <3>4. /\ state' = "bootstrapping"
          /\ UNCHANGED <<rotation, cancelled, proc, child, hold, manager, supVars>>
      BY <2>3 DEF SupAttempt
    <3> QED
      BY <3>1, <3>3, <3>4
  <2>4. CASE SupCancelled
    BY <2>4 DEF SupCancelled
  <2>15. CASE SupTimer
    <3>1. AfterTimer \in SupSteps
      BY DEF AfterTimer
    <3>2. timer' \in BOOLEAN
      BY <2>15 DEF SupTimer
    <3> QED
      BY <2>15, <3>1, <3>2 DEF SupTimer
  <2>16. CASE SupReady
    BY <2>16 DEF SupReady
  <2>11. CASE SupExit
    <3>1. attemptCancelled' \in BOOLEAN
      BY <2>11 DEF SupExit
    <3> QED
      BY <2>11, <3>1 DEF SupExit, AfterExit
  <2>12. CASE SupFailed
    BY <2>12 DEF SupFailed
  <2>13. CASE SupBackoff
    BY <2>13 DEF SupBackoff
  <2>5. CASE WaitNext
    <3>1. CASE WaitBegin
      BY <3>1 DEF WaitBegin
    <3>2. CASE WaitEnd
      BY <3>2 DEF WaitEnd
    <3> QED
      BY <2>5, <3>1, <3>2 DEF WaitNext
  <2>6. CASE Rotate
    BY <2>6 DEF Rotate
  <2>14. CASE Interrupt
    BY <2>14 DEF Interrupt
  <2>7. CASE MainStartup \/ MainWired \/ MainShutdown \/ MainDaemonStopped
    <3>1. CASE MainStartup
      BY <3>1 DEF MainStartup
    <3>2. CASE MainWired
      BY <3>2 DEF MainWired
    <3>3. CASE MainShutdown
      BY <3>3 DEF MainShutdown
    <3>4. CASE MainDaemonStopped
      BY <3>4 DEF MainDaemonStopped
    <3> QED
      BY <2>7, <3>1, <3>2, <3>3, <3>4
  <2>8. CASE MainSweep
    BY <2>8 DEF MainSweep
  <2>17. CASE MainReap
    BY <2>17 DEF MainReap
  <2>9. ASSUME NEW k \in Children, ChildExit(k) PROVE TypeOK'
    BY <2>9 DEF ChildExit
  <2>10. CASE UNCHANGED vars
    BY <2>10 DEF vars
  <2> QED
    BY <2>1, <2>2, <2>3, <2>4, <2>5, <2>6, <2>7, <2>8, <2>9, <2>10,
       <2>11, <2>12, <2>13, <2>14, <2>15, <2>16, <2>17
       DEF Next, SupNext, RotNext, MainNext
<1> QED
  BY <1>1, <1>2, PTL DEF Spec

\* A step that changes neither the processes nor what is known of the waiter
\* keeps Alone if the supervisor does not move.
LEMMA AloneFrame ==
  ASSUME Alone, UNCHANGED <<child, proc, waiter, waitOn>>,
         at'["sup"] = at["sup"], at'["rot"] = at["rot"], hold'["sup"] = hold["sup"]
  PROVE  Alone'
  BY DEF Alone, AtMostHeld, NoneUp

\* So does one that only asks processes to end, or lets one end.
LEMMA AloneShrinks ==
  ASSUME TypeOK, Alone, UNCHANGED <<proc, waiter, waitOn>>,
         \A k \in Children : child'[k] \in Up => child[k] \in Up,
         at'["sup"] = at["sup"], at'["rot"] = at["rot"], hold'["sup"] = hold["sup"]
  PROVE  Alone'
  BY DEF Alone, AtMostHeld, NoneUp

LEMMA AloneStop ==
  ASSUME TypeOK, Alone, StopNext("main")
  PROVE  Alone'
<1> USE DEF At, Goto, shared, supVars
<1>1. CASE StopCancel("main")
  BY <1>1, AloneFrame DEF StopCancel, TypeOK
<1>2. CASE StopClaim("main")
  <2>1. \A k \in Children : child'[k] \in Up => child[k] \in Up
    BY <1>2 DEF StopClaim, Asked, Up, TypeOK
  <2>2. at'["sup"] = at["sup"] /\ at'["rot"] = at["rot"] /\ hold'["sup"] = hold["sup"]
    BY <1>2 DEF StopClaim, TypeOK, Threads
  <2> QED
    BY <1>2, <2>1, <2>2, AloneShrinks DEF StopClaim
<1>3. CASE StopJoin("main")
  BY <1>3, AloneFrame DEF StopJoin, TypeOK
<1>4. CASE StopDown("main")
  BY <1>4, AloneFrame DEF StopDown, TypeOK, Threads
<1> QED
  BY <1>1, <1>2, <1>3, <1>4 DEF StopNext

LEMMA AloneStart ==
  ASSUME TypeOK, Alone, StartNext("sup")
  PROVE  Alone'
<1> USE DEF At, Goto, shared, supVars
<1>1. CASE StartRender("sup")
  BY <1>1 DEF StartRender, StartFailed, TypeOK, Alone, Between, AtMostHeld, NoneUp
<1>2. CASE StartBoot("sup")
  BY <1>2 DEF StartBoot, TypeOK, Alone, Between, AtMostHeld, NoneUp
<1>5. CASE StartCheck("sup")
  BY <1>5 DEF StartCheck, StartFailed, TypeOK, Alone, Between, AtMostHeld, NoneUp
<1>6. CASE StartList("sup")
  BY <1>6 DEF StartList, TypeOK, Alone, Between, AtMostHeld, NoneUp
<1>3. CASE StartFork("sup")
  <2>1. at["sup"] = "fork" /\ at["rot"] = "idle" /\ NoneUp /\ waiter = "none"
    BY <1>3 DEF StartFork, Alone, Between
  <2>2. UNCHANGED <<proc, waiter, waitOn>> /\ at'["rot"] = at["rot"]
    BY <1>3 DEF StartFork, StartFailed, TypeOK
  <2>3. ASSUME NEW k \in Children, child' = [child EXCEPT ![k] = "live"],
               hold' = [hold EXCEPT !["sup"] = k], Goto("sup", "list")
        PROVE  Alone'
    <3>1. at'["sup"] = "list" /\ hold'["sup"] = k
      BY <2>3 DEF TypeOK, Threads
    <3>2. AtMostHeld'
      BY <2>1, <2>3, <3>1 DEF AtMostHeld, NoneUp, TypeOK
    <3> QED
      BY <2>1, <2>2, <3>1, <3>2 DEF Alone, Between
  <2>4. CASE StartFailed("sup") /\ UNCHANGED <<child, hold>>
    <3>1. at'["sup"] = "failed"
      BY <2>4 DEF StartFailed, TypeOK
    <3> QED
      BY <2>1, <2>2, <2>4, <3>1 DEF Alone, Between, NoneUp, AtMostHeld
  <2> QED
    BY <1>3, <2>3, <2>4 DEF StartFork
<1>4. CASE StartAssign("sup")
  <2>1. /\ at["sup"] = "assign" /\ at'["sup"] = "monitor" /\ at'["rot"] = at["rot"]
        /\ waiter' = "new" /\ proc' = hold["sup"] /\ UNCHANGED <<hold, child>>
    BY <1>4 DEF StartAssign, TypeOK
  <2> QED
    BY <2>1 DEF Alone, Between, AtMostHeld
<1> QED
  BY <1>1, <1>2, <1>3, <1>4, <1>5, <1>6 DEF StartNext

LEMMA AloneSup ==
  ASSUME TypeOK, Alone, SupNext
  PROVE  Alone'
<1> USE DEF At, Goto, shared, supVars
<1>1. CASE SupAttempt
  BY <1>1 DEF SupAttempt, TypeOK, Alone, Between, AtMostHeld, NoneUp
<1>2. CASE SupCancelled
  BY <1>2 DEF SupCancelled, TypeOK, Alone, Between, AtMostHeld, NoneUp
<1>3. CASE SupTimer
  <2>1. AfterTimer \in {"ready", "monitor"}
    BY DEF AfterTimer
  <2> QED
    BY <1>3, <2>1 DEF SupTimer, TypeOK, Alone, Between, AtMostHeld, NoneUp
<1>4. CASE SupReady
  BY <1>4 DEF SupReady, TypeOK, Alone, Between, AtMostHeld, NoneUp
<1>5. CASE SupExit
  <2>1. AfterExit \in {"exited", "ended"}
    BY DEF AfterExit
  <2>2. NoneUp /\ at["rot"] = "idle"
    BY <1>5 DEF SupExit, Alone
  <2>3. /\ at'["sup"] \in {"exited", "ended"} /\ at'["rot"] = at["rot"]
        /\ waiter' = "none" /\ child' = child
    BY <1>5, <2>1 DEF SupExit, TypeOK
  <2> QED
    BY <2>2, <2>3 DEF Alone, AtMostHeld, NoneUp
<1>6. CASE SupFailed
  BY <1>6 DEF SupFailed, TypeOK, Alone, Between, AtMostHeld, NoneUp
<1>7. CASE SupBackoff
  BY <1>7 DEF SupBackoff, TypeOK, Alone, Between, AtMostHeld, NoneUp
<1> QED
  BY <1>1, <1>2, <1>3, <1>4, <1>5, <1>6, <1>7, AloneStart DEF SupNext

LEMMA AloneStep ==
  ASSUME TypeOK, ~rotation, Alone, [Next]_vars
  PROVE  Alone'
<1> USE DEF At, Goto, shared, supVars
<1>1. CASE WaitBegin
  BY <1>1 DEF WaitBegin, Alone, AtMostHeld, NoneUp, Between
<1>2. CASE WaitEnd
  <2>1. waiter = "blocked" /\ child[waitOn] \in Exited /\ waiter' \in {"error", "nil"}
    BY <1>2 DEF WaitEnd
  <2>2. UNCHANGED <<child, proc, waitOn, at, hold>>
    BY <1>2 DEF WaitEnd
  <2>3. at["sup"] \in {"monitor", "ready"} => NoneUp
    BY <2>1 DEF Alone, AtMostHeld, NoneUp, Up, Exited
  <2> QED
    BY <2>1, <2>2, <2>3 DEF Alone, AtMostHeld, NoneUp, Between
<1>3. CASE MainStartup \/ MainWired \/ MainShutdown \/ MainDaemonStopped
  <2>1. at'["sup"] = at["sup"] /\ at'["rot"] = at["rot"]
    BY <1>3 DEF MainStartup, MainWired, MainShutdown, MainDaemonStopped, TypeOK
  <2> QED
    BY <1>3, <2>1, AloneFrame DEF MainStartup, MainWired, MainShutdown, MainDaemonStopped
<1>4. CASE MainSweep \/ MainReap
  <2>1. \A k \in Children : child'[k] \in Up => child[k] \in Up
    BY <1>4 DEF MainSweep, MainReap, Up, TypeOK
  <2>2. at'["sup"] = at["sup"] /\ at'["rot"] = at["rot"]
    BY <1>4 DEF MainSweep, MainReap, TypeOK
  <2> QED
    BY <1>4, <2>1, <2>2, AloneShrinks DEF MainSweep, MainReap
<1>5. ASSUME NEW k \in Children, ChildExit(k) PROVE Alone'
  <2>1. \A j \in Children : child'[j] \in Up => child[j] \in Up
    BY <1>5 DEF ChildExit, Up, TypeOK
  <2> QED
    BY <1>5, <2>1, AloneShrinks DEF ChildExit
<1>6. CASE Interrupt \/ UNCHANGED vars
  BY <1>6, AloneFrame DEF Interrupt, vars
<1>7. CASE RotNext
  BY <1>7 DEF RotNext, Alone, StopNext, StopCancel, StopClaim, StopJoin, StopDown,
     StartNext, StartRender, StartBoot, StartCheck, StartFork, StartList, StartAssign
<1>8. CASE Rotate
  BY <1>8 DEF Rotate
<1> QED
  BY <1>1, <1>2, <1>3, <1>4, <1>5, <1>6, <1>7, <1>8, AloneStop, AloneSup
     DEF Next, WaitNext, MainNext

\* The rotation is switched on or off for good when the program starts.
LEMMA RotationConstant == [Next]_vars => rotation' = rotation
  BY DEF Next, vars, SupNext, SupAttempt, StartNext, StartRender, StartBoot, StartCheck, StartFork, StartList,
     StartAssign, StopNext, StopCancel, StopClaim, StopJoin, StopDown, SupCancelled,
     SupTimer, SupReady, SupExit, SupFailed, SupBackoff, WaitNext, WaitBegin, WaitEnd,
     Rotate, RotNext, MainNext, MainStartup, MainWired, MainShutdown, MainDaemonStopped,
     MainSweep, MainReap, Interrupt, ChildExit

\* Without rotation crashes, failed starts, a late timer and the shutdown never
\* give an instance two processes (restart.go:29), however often it restarts.
THEOREM AloneKeepsToOne == Spec => []SingleTorAlone
<1>1. Init => (~rotation => Alone)
  BY DEF Init, Alone, AtMostHeld, NoneUp, Between, Up
<1>2. TypeOK /\ (~rotation => Alone) /\ [Next]_vars => (~rotation' => Alone')
  BY AloneStep, RotationConstant
<1>3. (~rotation => Alone) => SingleTorAlone
  BY DEF Alone, AtMostHeld, SingleTorAlone, SingleTor
<1> QED
  BY <1>1, <1>2, <1>3, TypeCorrect, PTL DEF Spec

\* Until the shutdown begins nobody asks a process to end, the state says failed
\* only where the supervisor is about to try again, and what its waiter has
\* answered is how its process ended.
Supervision ==
  /\ at["main"] \in {"daemon", "sweep", "reap", "exit"} \cup StopSteps => cancelled
  /\ ~cancelled => \A k \in Children : child[k] \notin {"asked", "quit0", "quit1"}
  /\ at["sup"] \in {"list", "assign"} => hold["sup"] # NoChild
  /\ at["sup"] \in {"check", "fork", "list", "assign", "monitor", "ready"} => state # "failed"
  /\ at["sup"] \in {"monitor", "ready"} =>
       /\ proc # NoChild
       /\ waiter = "nil" => child[proc] \in {"died0", "quit0"}
       /\ waiter = "error" => child[proc] \in Errors
  /\ at["sup"] = "ended" /\ ~cancelled =>
       proc # NoChild /\ child[proc] = "died0" /\ NoneUp

\* A step of another goroutine keeps Supervision if it leaves the processes that
\* have ended alone, and those that run unless the shutdown has begun.
LEMMA SupervisionFrame ==
  ASSUME TypeOK, Supervision, UNCHANGED <<proc, waiter>>,
         state' # "failed" \/ state' = state, cancelled => cancelled',
         \A k \in Children : child[k] \notin Up => child'[k] = child[k],
         \A k \in Children :
           child'[k] = child[k] \/ child'[k] \in {"died0", "died1"} \/ cancelled',
         at'["sup"] = at["sup"], hold'["sup"] = hold["sup"],
         at'["main"] \in {"daemon", "sweep", "reap", "exit"} \cup StopSteps => cancelled'
  PROVE  Supervision'
<1>1. ~cancelled' => \A k \in Children : child'[k] \notin {"asked", "quit0", "quit1"}
  BY DEF Supervision
<1>2. /\ at["sup"] \in {"monitor", "ready"} =>
            /\ proc # NoChild
            /\ waiter = "nil" => child'[proc] \in {"died0", "quit0"}
            /\ waiter = "error" => child'[proc] \in Errors
      /\ at["sup"] = "ended" /\ ~cancelled' =>
            /\ proc # NoChild /\ child'[proc] = "died0"
            /\ \A k \in Children : child'[k] \notin Up
  BY DEF Supervision, NoneUp, Up, Errors, TypeOK
<1> QED
  BY <1>1, <1>2 DEF Supervision, NoneUp

LEMMA SupervisionStop ==
  ASSUME TypeOK, Supervision, StopNext("main")
  PROVE  Supervision'
<1> USE DEF At, Goto, shared, supVars
<1>1. at["main"] \in StopSteps /\ cancelled /\ cancelled'
  BY DEF StopNext, StopCancel, StopClaim, StopJoin, StopDown, StopSteps, Supervision
<1>2. /\ UNCHANGED <<proc, waiter>> /\ (state' # "failed" \/ state' = state)
      /\ at'["sup"] = at["sup"] /\ hold'["sup"] = hold["sup"]
  BY DEF StopNext, StopCancel, StopClaim, StopJoin, StopDown, TypeOK, Threads
<1>3. \A k \in Children : child[k] \notin Up => child'[k] = child[k]
  BY DEF StopNext, StopCancel, StopClaim, StopJoin, StopDown, Asked, Up, TypeOK
<1> QED
  BY <1>1, <1>2, <1>3, SupervisionFrame

LEMMA SupervisionStart ==
  ASSUME TypeOK, Alone, Supervision, StartNext("sup")
  PROVE  Supervision'
<1> USE DEF At, Goto, shared, supVars
<1>1. CASE StartRender("sup")
  BY <1>1 DEF StartRender, StartFailed, TypeOK, Supervision
<1>2. CASE StartBoot("sup")
  BY <1>2 DEF StartBoot, TypeOK, Supervision
<1>5. CASE StartCheck("sup")
  BY <1>5 DEF StartCheck, StartFailed, TypeOK, Supervision
<1>6. CASE StartList("sup")
  BY <1>6 DEF StartList, TypeOK, Supervision
<1>3. CASE StartFork("sup")
  <2>1. at["sup"] = "fork" /\ UNCHANGED <<proc, waiter, cancelled>> /\ at'["main"] = at["main"]
    BY <1>3 DEF StartFork, StartFailed, TypeOK
  <2>2. ASSUME NEW k \in Children, child' = [child EXCEPT ![k] = "live"],
               hold' = [hold EXCEPT !["sup"] = k], Goto("sup", "list"), state' = state
        PROVE  Supervision'
    <3>1. at'["sup"] = "list" /\ hold'["sup"] # NoChild
      BY <2>2 DEF TypeOK, Threads, Children, NoChild
    <3>2. ~cancelled => \A j \in Children : child'[j] \notin {"asked", "quit0", "quit1"}
      BY <2>2 DEF Supervision, TypeOK
    <3> QED
      BY <2>1, <2>2, <3>1, <3>2 DEF Supervision
  <2>3. CASE StartFailed("sup") /\ UNCHANGED <<child, hold>>
    <3>1. at'["sup"] = "failed"
      BY <2>3 DEF StartFailed, TypeOK
    <3> QED
      BY <2>1, <2>3, <3>1 DEF Supervision
  <2> QED
    BY <1>3, <2>2, <2>3 DEF StartFork
<1>4. CASE StartAssign("sup")
  <2>1. /\ at["sup"] = "assign" /\ at'["sup"] = "monitor" /\ at'["main"] = at["main"]
        /\ waiter' = "new" /\ proc' = hold["sup"] /\ UNCHANGED <<child, state, cancelled>>
    BY <1>4 DEF StartAssign, TypeOK
  <2> QED
    BY <2>1 DEF Supervision
<1> QED
  BY <1>1, <1>2, <1>3, <1>4, <1>5, <1>6 DEF StartNext

LEMMA SupervisionSup ==
  ASSUME TypeOK, Alone, Supervision, SupNext
  PROVE  Supervision'
<1> USE DEF At, Goto, shared, supVars
<1>1. CASE SupAttempt
  BY <1>1 DEF SupAttempt, TypeOK, Supervision
<1>2. CASE SupCancelled
  BY <1>2 DEF SupCancelled, TypeOK, Supervision
<1>3. CASE SupTimer
  <2>1. AfterTimer \in {"ready", "monitor"}
    BY DEF AfterTimer
  <2>2. /\ at["sup"] = "monitor" /\ at'["sup"] \in {"ready", "monitor"} /\ at'["main"] = at["main"]
        /\ UNCHANGED <<child, proc, hold, waiter, cancelled, state>>
    BY <1>3, <2>1 DEF SupTimer, TypeOK
  <2> QED
    BY <2>2 DEF Supervision
<1>4. CASE SupReady
  BY <1>4 DEF SupReady, TypeOK, Supervision
<1>5. CASE SupExit
  <2>1. /\ at["sup"] = "monitor" /\ at'["sup"] = AfterExit /\ at'["main"] = at["main"]
        /\ waiter \in {"error", "nil"} /\ NoneUp
        /\ UNCHANGED <<child, proc, hold, cancelled, state>>
    BY <1>5 DEF SupExit, TypeOK, AfterExit, Alone
  <2>2. CASE waiter = "error"
    <3>1. AfterExit = "exited"
      BY <2>1, <2>2 DEF AfterExit, Supervision
    <3> QED
      BY <2>1, <3>1 DEF Supervision
  <2>3. CASE waiter = "nil"
    <3>1. AfterExit = "ended"
      BY <2>3 DEF AfterExit
    <3>2. proc \in Children /\ child[proc] \in {"died0", "quit0"}
      BY <2>1, <2>3 DEF Supervision, TypeOK
    <3> QED
      BY <2>1, <3>1, <3>2 DEF Supervision, NoneUp
  <2> QED
    BY <2>1, <2>2, <2>3
<1>6. CASE SupFailed
  BY <1>6 DEF SupFailed, TypeOK, Supervision
<1>7. CASE SupBackoff
  BY <1>7 DEF SupBackoff, TypeOK, Supervision
<1> QED
  BY <1>1, <1>2, <1>3, <1>4, <1>5, <1>6, <1>7, SupervisionStart DEF SupNext

LEMMA SupervisionStep ==
  ASSUME TypeOK, ~rotation, Alone, Supervision, [Next]_vars
  PROVE  Supervision'
<1> USE DEF At, Goto, shared, supVars
<1>1. CASE WaitBegin
  BY <1>1 DEF WaitBegin, Supervision, NoneUp
<1>2. CASE WaitEnd
  <2>1. /\ waiter = "blocked" /\ child[waitOn] \in Exited
        /\ waiter' = IF child[waitOn] \in Errors THEN "error" ELSE "nil"
        /\ UNCHANGED <<child, proc, at, hold, cancelled, state>>
    BY <1>2 DEF WaitEnd
  <2>2. at["sup"] \in {"monitor", "ready"} => waitOn = proc
    BY <2>1 DEF Alone
  <2>3. at["sup"] \in {"monitor", "ready"} =>
          /\ waiter' = "nil" => child[proc] \in {"died0", "quit0"}
          /\ waiter' = "error" => child[proc] \in Errors
    BY <2>1, <2>2 DEF Exited, Errors
  <2> QED
    BY <2>1, <2>3 DEF Supervision, NoneUp
<1>3. CASE MainStartup \/ MainWired \/ MainShutdown \/ MainDaemonStopped
  <2>1. /\ at'["sup"] = at["sup"] /\ UNCHANGED <<child, proc, waiter, state, hold, cancelled>>
        /\ at'["main"] \in {"daemon", "sweep", "reap", "exit"} \cup StopSteps => cancelled
    BY <1>3 DEF MainStartup, MainWired, MainShutdown, MainDaemonStopped, TypeOK,
       Supervision, StopSteps
  <2> QED
    BY <2>1, SupervisionFrame
<1>4. CASE MainSweep \/ MainReap
  <2>1. \A k \in Children : child[k] \notin Up => child'[k] = child[k]
    BY <1>4 DEF MainSweep, MainReap, Up, TypeOK
  <2>2. /\ at'["sup"] = at["sup"] /\ UNCHANGED <<proc, waiter, state, hold, cancelled>>
        /\ cancelled
    BY <1>4 DEF MainSweep, MainReap, TypeOK, Supervision
  <2> QED
    BY <2>1, <2>2, SupervisionFrame
<1>5. ASSUME NEW k \in Children, ChildExit(k) PROVE Supervision'
  <2>1. UNCHANGED <<proc, waiter, state, hold, at, cancelled>>
    BY <1>5 DEF ChildExit
  <2>2. \A j \in Children : child[j] \notin Up => child'[j] = child[j]
    BY <1>5 DEF ChildExit, TypeOK
  <2>3. \A j \in Children :
          child'[j] = child[j] \/ child'[j] \in {"died0", "died1"} \/ cancelled
    BY <1>5 DEF ChildExit, TypeOK, Up, Supervision
  <2>4. at'["main"] \in {"daemon", "sweep", "reap", "exit"} \cup StopSteps => cancelled'
    BY <2>1 DEF Supervision
  <2> QED
    BY <2>1, <2>2, <2>3, <2>4, SupervisionFrame
<1>6. CASE Interrupt \/ UNCHANGED vars
  BY <1>6, SupervisionFrame DEF Interrupt, vars, Supervision
<1>7. CASE RotNext
  BY <1>7 DEF RotNext, Alone, StopNext, StopCancel, StopClaim, StopJoin, StopDown,
     StartNext, StartRender, StartBoot, StartCheck, StartFork, StartList, StartAssign
<1>8. CASE Rotate
  BY <1>8 DEF Rotate
<1> QED
  BY <1>1, <1>2, <1>3, <1>4, <1>5, <1>6, <1>7, <1>8, SupervisionStop, SupervisionSup
     DEF Next, WaitNext, MainNext

\* Without rotation the supervisor does not give up on an instance: it ends in
\* the shutdown, or when its process has ended without an error (restart.go:82).
THEOREM AloneNeverGivesUp == Spec => []SupervisedAlone
<1>1. Init => (~rotation => Alone /\ Supervision)
  BY DEF Init, Alone, AtMostHeld, NoneUp, Between, Up, Supervision, StopSteps
<1>2. TypeOK /\ (~rotation => Alone /\ Supervision) /\ [Next]_vars
        => (~rotation' => Alone' /\ Supervision')
  BY AloneStep, SupervisionStep, RotationConstant
<1>3. (~rotation => Alone /\ Supervision) => SupervisedAlone
  BY DEF Supervision, SupervisedAlone
<1> QED
  BY <1>1, <1>2, <1>3, TypeCorrect, PTL DEF Spec

\* A process that was started is on the manager's list or about to be added to
\* it.  From the signal on no Spawn goes past its look at the context, so that
\* besides the copy of StopAll there is at most the process the supervisor holds.
Swept ==
  /\ \A k \in Children : child[k] # "none" =>
       k \in listed \/ \E t \in {"sup", "rot"} : at[t] = "list" /\ hold[t] = k
  /\ at["main"] \in {"daemon", "sweep", "reap"} \cup StopSteps => cancelled
  /\ at["main"] \in {"sweep", "reap"} \cup StopSteps => at["rot"] = "idle"
  /\ at["main"] = "reap" =>
       \A k \in Children : child[k] # "none" =>
         k \in swept \/ (k = hold["sup"] /\ at["sup"] # "fork")
  /\ OnlyLateSpawnIsLeft

LEMMA SweptStart ==
  ASSUME TypeOK, Swept, NEW t \in {"sup", "rot"}, StartNext(t)
  PROVE  Swept'
<1> USE DEF At, Goto, shared, supVars, Swept, OnlyLateSpawnIsLeft, TypeOK
<1>1. /\ Running /\ at["main"] # "exit" /\ at'["main"] = at["main"] /\ cancelled' = cancelled
      /\ swept' = swept
      /\ t = "rot" => at["main"] \notin {"sweep", "reap"} \cup StopSteps
  BY DEF StartNext, StartRender, StartFailed, StartBoot, StartCheck, StartFork, StartList,
     StartAssign, Running, StartSteps, manager
<1>2. CASE StartRender(t) \/ StartBoot(t)
  BY <1>1, <1>2 DEF StartRender, StartFailed, StartBoot, manager
<1>3. CASE StartCheck(t)
  <2>1. at["main"] = "reap" => cancelled /\ t = "sup"
    BY <1>1
  <2> QED
    BY <1>1, <1>3, <2>1 DEF StartCheck, StartFailed, SpawnContextDone, manager
<1>4. CASE StartFork(t)
  <2>1. CASE StartFailed(t) /\ UNCHANGED <<child, hold>>
    BY <1>1, <1>4, <2>1 DEF StartFork, StartFailed, manager
  <2>2. ASSUME NEW k \in Children, child' = [child EXCEPT ![k] = "live"],
               hold' = [hold EXCEPT ![t] = k], Goto(t, "list")
        PROVE  Swept'
    <3>1. /\ at[t] = "fork" /\ at'[t] = "list" /\ hold'[t] = k /\ listed' = listed
          /\ \A u \in {"sup", "rot"} \ {t} : at'[u] = at[u] /\ hold'[u] = hold[u]
      BY <1>4, <2>2 DEF StartFork, manager, Threads
    <3>2. \A j \in Children : j # k => child'[j] = child[j]
      BY <2>2
    <3>3. \A j \in Children : child'[j] # "none" =>
            j \in listed' \/ \E u \in {"sup", "rot"} : at'[u] = "list" /\ hold'[u] = j
      BY <3>1, <3>2
    <3>4. at["main"] = "reap" => \A j \in Children : child'[j] # "none" =>
            j \in swept' \/ (j = hold'["sup"] /\ at'["sup"] # "fork")
      BY <1>1, <3>1, <3>2
    <3>5. at'["rot"] = at["rot"] \/ t = "rot"
      BY <3>1
    <3> QED
      BY <1>1, <3>3, <3>4, <3>5
  <2> QED
    BY <1>4, <2>1, <2>2 DEF StartFork
<1>5. CASE StartList(t)
  <2>1. /\ at[t] = "list" /\ at'[t] = "assign" /\ listed' = listed \cup {hold[t]}
        /\ UNCHANGED <<child, hold>>
        /\ \A u \in {"sup", "rot"} \ {t} : at'[u] = at[u]
    BY <1>5 DEF StartList
  <2> QED
    BY <1>1, <2>1
<1>6. CASE StartAssign(t)
  <2>1. /\ at[t] = "assign" /\ at'[t] \in {"monitor", "idle"} /\ hold'["sup"] = hold["sup"]
        /\ UNCHANGED <<child, listed>>
        /\ \A u \in {"sup", "rot"} \ {t} : at'[u] = at[u] /\ hold'[u] = hold[u]
    BY <1>6 DEF StartAssign, manager, Threads
  <2> QED
    BY <1>1, <2>1
<1> QED
  BY <1>2, <1>3, <1>4, <1>5, <1>6 DEF StartNext

\* A step that starts no process and moves none of the goroutines that do so.
LEMMA SweptFrame ==
  ASSUME TypeOK, Swept, UNCHANGED <<listed, swept>>, cancelled => cancelled',
         \A k \in Children : child'[k] # "none" => child[k] # "none",
         \A k \in Children : child'[k] \in Up => child[k] \in Up,
         at'["sup"] = at["sup"] \/ {at["sup"], at'["sup"]} \cap {"fork", "list"} = {},
         hold'["sup"] = hold["sup"],
         at'["rot"] = at["rot"], at["rot"] = "list" => hold'["rot"] = hold["rot"],
         at'["main"] = at["main"]
  PROVE  Swept'
<1>1. \A k \in Children : child'[k] # "none" =>
        k \in listed' \/ \E t \in {"sup", "rot"} : at'[t] = "list" /\ hold'[t] = k
  BY DEF Swept
<1>2. at'["main"] = "reap" =>
        \A k \in Children : child'[k] # "none" =>
          k \in swept' \/ (k = hold'["sup"] /\ at'["sup"] # "fork")
  BY DEF Swept
<1> QED
  BY <1>1, <1>2 DEF Swept, OnlyLateSpawnIsLeft

LEMMA SweptSup ==
  ASSUME TypeOK, Swept, SupNext
  PROVE  Swept'
<1> USE DEF At, Goto, shared, supVars, manager, TypeOK
<1>1. CASE SupAttempt \/ SupCancelled \/ SupReady \/ SupFailed \/ SupBackoff
  BY <1>1, SweptFrame DEF SupAttempt, SupCancelled, SupReady, SupFailed, SupBackoff
<1>2. CASE SupTimer
  BY <1>2, SweptFrame DEF SupTimer, AfterTimer
<1>3. CASE SupExit
  BY <1>3, SweptFrame DEF SupExit, AfterExit
<1> QED
  BY <1>1, <1>2, <1>3, SweptStart DEF SupNext

LEMMA SweptStop ==
  ASSUME TypeOK, Swept, NEW t \in {"rot", "main"}, StopNext(t)
  PROVE  Swept'
<1> USE DEF At, Goto, shared, supVars, manager, TypeOK, Swept, OnlyLateSpawnIsLeft
<1>1. /\ at[t] \in StopSteps /\ at["main"] # "exit" /\ UNCHANGED <<listed, swept, cancelled>>
      /\ at'["sup"] = at["sup"] /\ hold'["sup"] = hold["sup"]
      /\ at'[t] \in StopSteps \cup {AfterStop(t)}
      /\ \A u \in {"rot", "main"} \ {t} : at'[u] = at[u] /\ hold'[u] = hold[u]
  BY DEF StopNext, StopCancel, StopClaim, StopJoin, StopDown, StopSteps, Running, Threads
<1>2. \A k \in Children : child'[k] # "none" => child[k] # "none"
  BY DEF StopNext, StopCancel, StopClaim, StopJoin, StopDown, Asked
<1>3. CASE t = "rot"
  BY <1>1, <1>2, <1>3 DEF StopSteps, AfterStop
<1>4. CASE t = "main"
  BY <1>1, <1>2, <1>4 DEF StopSteps, AfterStop
<1> QED
  BY <1>3, <1>4

LEMMA SweptMain ==
  ASSUME TypeOK, Swept, MainNext
  PROVE  Swept'
<1> USE DEF At, Goto, shared, supVars, TypeOK, Swept, OnlyLateSpawnIsLeft
<1>1. CASE MainStartup \/ MainWired \/ MainShutdown
  BY <1>1 DEF MainStartup, MainWired, MainShutdown, manager, StopSteps
<1>2. CASE MainDaemonStopped
  BY <1>2 DEF MainDaemonStopped, manager, StopSteps
<1>3. CASE MainSweep
  <2>1. /\ at["main"] = "sweep" /\ at'["main"] = "reap" /\ swept' = listed
        /\ at'["sup"] = at["sup"] /\ at'["rot"] = at["rot"]
        /\ UNCHANGED <<child, listed, hold, cancelled>>
    BY <1>3 DEF MainSweep
  <2> QED
    BY <2>1 DEF StopSteps
<1>4. CASE MainReap
  <2>1. /\ at["main"] = "reap" /\ at'["sup"] = at["sup"] /\ at'["rot"] = at["rot"]
        /\ UNCHANGED <<listed, swept, hold, cancelled>>
    BY <1>4 DEF MainReap, manager
  <2>2. CASE at' = at /\ \E k \in swept :
               child[k] = "live" /\ child' = [child EXCEPT ![k] = "asked"]
    <3>1. \A k \in Children : child'[k] # "none" => child[k] # "none"
      BY <2>2
    <3> QED
      BY <2>1, <2>2, <3>1
  <2>3. CASE AllGone /\ Goto("main", "exit") /\ UNCHANGED child
    <3>1. \A k \in Children : child[k] \in Up => k \notin swept
      BY <2>3 DEF AllGone, Up, Exited
    <3>2. \A k \in Children : child[k] \in Up => k = hold["sup"]
      BY <2>1, <3>1 DEF Up
    <3> QED
      BY <2>1, <2>3, <3>1, <3>2 DEF StopSteps
  <2> QED
    BY <1>4, <2>2, <2>3 DEF MainReap
<1> QED
  BY <1>1, <1>2, <1>3, <1>4, SweptStop DEF MainNext

\* Whatever rotations and restarts have left behind when the signal comes, the
\* shutdown ends it: only a Spawn that was past its look at the context (spawn.go:12)
\* when StopAll copied the list (shutdown.go:50) has a process that outlives run.
THEOREM AllButTheLate == Spec => []OnlyLateSpawnIsLeft
<1>1. Init => Swept
  BY DEF Init, Swept, OnlyLateSpawnIsLeft, StopSteps
<1>2. TypeOK /\ Swept /\ [Next]_vars => Swept'
  <2> SUFFICES ASSUME TypeOK, Swept, [Next]_vars PROVE Swept'
    OBVIOUS
  <2> USE DEF At, Goto, shared, supVars, manager
  <2>1. CASE WaitNext
    BY <2>1, SweptFrame DEF WaitNext, WaitBegin, WaitEnd
  <2>2. CASE Rotate
    BY <2>2 DEF Rotate, Swept, OnlyLateSpawnIsLeft, TypeOK, StopSteps
  <2>3. CASE Interrupt \/ UNCHANGED vars
    BY <2>3, SweptFrame DEF Interrupt, vars
  <2>4. ASSUME NEW k \in Children, ChildExit(k) PROVE Swept'
    <3>1. \A j \in Children : child'[j] # "none" => child[j] # "none"
      BY <2>4 DEF ChildExit, TypeOK, Up
    <3>2. \A j \in Children : child'[j] \in Up => child[j] \in Up
      BY <2>4 DEF ChildExit, TypeOK, Up
    <3> QED
      BY <2>4, <3>1, <3>2, SweptFrame DEF ChildExit
  <2> QED
    BY <2>1, <2>2, <2>3, <2>4, SweptSup, SweptStart, SweptStop, SweptMain
       DEF Next, RotNext
<1>3. Swept => OnlyLateSpawnIsLeft
  BY DEF Swept
<1> QED
  BY <1>1, <1>2, <1>3, TypeCorrect, PTL DEF Spec

-----------------------------------------------------------------------------
(* The fleet of TorFleet *)

\* Before the rotation starts only the supervisor writes the state: it is
\* bootstrapping until the timer has fired.  The startup ends only with an
\* instance that was ready.
FleetInv ==
  /\ InStartup => at["rot"] = "idle"
  /\ ~InStartup => ready
  /\ at["main"] = "startup" =>
       /\ at["sup"] \in {"render", "boot", "check", "fork", "list", "assign", "ready"} =>
            state = "bootstrapping"
       /\ at["sup"] = "ready" => ~timer
       /\ at["sup"] = "monitor" =>
            state # "failed" /\ (timer => state = "bootstrapping")

LEMMA FleetInitially == Init => FleetInv /\ Fleet!Init
<1> SUFFICES ASSUME Init PROVE FleetInv /\ Fleet!Init
  OBVIOUS
<1>1. /\ FleetSup = "top" /\ FleetExit = "none" /\ FleetMain = "startup" /\ FleetRot = "idle"
      /\ InStartup /\ FleetQueue = 0 /\ FleetStarted = 0 /\ FleetStopped = {}
      /\ FleetPicked = {} /\ FleetLocked = FALSE
  BY DEF Init, FleetSup, FleetExit, FleetMain, FleetRot, InStartup, StartSteps, StopSteps,
     FleetQueue, FleetStarted, FleetStopped, FleetPicked, FleetLocked
<1>2. timer = FALSE /\ ready = FALSE /\ cancelled = FALSE
  BY DEF Init
<1>3. Fleet!Init
  BY <1>1, <1>2 DEF Fleet!Init
<1>4. FleetInv
  BY <1>1 DEF FleetInv, Init
<1> QED
  BY <1>3, <1>4

LEMMA FleetInvStep == TypeOK /\ FleetInv /\ [Next]_vars => FleetInv'
<1> SUFFICES ASSUME TypeOK, FleetInv, [Next]_vars PROVE FleetInv'
  OBVIOUS
<1> USE DEF At, Goto, shared, supVars, FleetInv, InStartup
<1>1. ASSUME NEW t \in {"sup", "rot"}, StartNext(t) PROVE FleetInv'
  BY <1>1 DEF TypeOK, StartNext, StartRender, StartFailed, StartBoot, StartCheck, StartFork, StartList, StartAssign
<1>2. ASSUME NEW t \in {"rot", "main"}, StopNext(t) PROVE FleetInv'
  BY <1>2 DEF TypeOK, StopNext, StopCancel, StopClaim, StopJoin, StopDown, AfterStop
<1>3. CASE SupAttempt
  BY <1>3 DEF TypeOK, SupAttempt
<1>15. CASE SupReady
  BY <1>15 DEF TypeOK, SupReady
<1>14. CASE SupCancelled
  BY <1>14 DEF TypeOK, SupCancelled
<1>4. CASE SupTimer
  BY <1>4 DEF TypeOK, SupTimer, AfterTimer
<1>5. CASE SupExit
  BY <1>5 DEF TypeOK, SupExit, AfterExit
<1>6. CASE SupFailed \/ SupBackoff
  BY <1>6 DEF TypeOK, SupFailed, SupBackoff
<1>7. CASE WaitNext
  BY <1>7 DEF WaitNext, WaitBegin, WaitEnd
<1>8. CASE Rotate
  BY <1>8 DEF TypeOK, Rotate
<1>9. CASE MainStartup \/ MainWired
  BY <1>9 DEF TypeOK, MainStartup, MainWired
<1>10. CASE MainShutdown \/ MainDaemonStopped \/ MainSweep \/ MainReap
  BY <1>10 DEF TypeOK, MainShutdown, MainDaemonStopped, MainSweep, MainReap
<1>11. CASE Interrupt
  BY <1>11 DEF Interrupt
<1>12. ASSUME NEW k \in Children, ChildExit(k) PROVE FleetInv'
  BY <1>12 DEF ChildExit
<1>13. CASE UNCHANGED vars
  BY <1>13 DEF vars
<1> QED
  BY <1>1, <1>2, <1>3, <1>4, <1>5, <1>6, <1>7, <1>8, <1>9, <1>10, <1>11, <1>12, <1>13,
     <1>14, <1>15
     DEF Next, SupNext, RotNext, MainNext

LEMMA FleetOfOne == Fleet!Total = 1
<1>1. Cardinality({1}) = 1
  BY FS_Singleton
<1>2. Fleet!Cardinality({1}) = Cardinality({1})
  BY Zenon DEF Cardinality, Fleet!Cardinality
<1> QED
  BY <1>1, <1>2 DEF Fleet!Total

\* A step of the supervisor, its waiter or a process.
LEMMA FleetOthers ==
  ASSUME at'["main"] = at["main"], at'["rot"] = at["rot"]
  PROVE  /\ UNCHANGED <<FleetMain, FleetRot, FleetStarted, FleetStopped, FleetPicked,
                        FleetLocked>>
         /\ ready' = ready => FleetQueue' = FleetQueue
  BY DEF FleetMain, FleetRot, FleetStarted, FleetStopped, FleetPicked, FleetLocked,
     FleetQueue, InStartup

LEMMA FleetRuns == Running => Fleet!Running
  BY DEF Running, Fleet!Running, FleetMain, StopSteps

LEMMA FleetSupStep ==
  ASSUME TypeOK, FleetInv, SupNext
  PROVE  Fleet!SupNext(1) \/ UNCHANGED Fleet!vars
<1> USE DEF At, Goto, shared, supVars, Fleet!SupAt, Fleet!SupGoto, Fleet!readyVars,
            Fleet!mainVars, Fleet!rotVars
<1>1. Fleet!Running
  BY FleetRuns DEF SupNext, SupAttempt, StartNext, StartRender, StartBoot, StartCheck, StartFork, StartList,
     StartAssign, SupCancelled, SupTimer, SupReady, SupExit, SupFailed, SupBackoff
<1>2. at'["main"] = at["main"] /\ at'["rot"] = at["rot"]
  BY DEF SupNext, SupAttempt, StartNext, StartRender, StartFailed, StartBoot, StartCheck, StartFork, StartList,
     StartAssign, SupCancelled, SupTimer, SupReady, SupExit, SupFailed, SupBackoff, TypeOK
<1>3. /\ UNCHANGED <<FleetMain, FleetRot, FleetStarted, FleetStopped, FleetPicked,
                     FleetLocked>>
      /\ ready' = ready => FleetQueue' = FleetQueue
  BY <1>2, FleetOthers
<1>4. waiter' = waiter => FleetExit' = FleetExit
  BY DEF FleetExit
<1>5. CASE SupAttempt
  <2>1. FleetSup = "top" /\ FleetSup' = "start"
    BY <1>5 DEF SupAttempt, FleetSup, StartSteps, TypeOK
  <2>2. UNCHANGED <<cancelled, waiter, timer, ready>>
    BY <1>5 DEF SupAttempt
  <2> QED
    BY <1>1, <1>3, <1>4, <2>1, <2>2 DEF Fleet!SupNext, Fleet!SupAttempt
<1>6. CASE StartRender("sup") \/ StartBoot("sup") \/ StartCheck("sup")
      \/ StartFork("sup") \/ StartList("sup")
  <2>1. FleetSup = "start" /\ FleetSup' \in {"start", "failed"}
    BY <1>6 DEF StartRender, StartFailed, StartBoot, StartCheck, StartFork, StartList, FleetSup, StartSteps, TypeOK
  <2>2. UNCHANGED <<cancelled, waiter, timer, ready>>
    BY <1>6 DEF StartRender, StartBoot, StartCheck, StartFork, StartList
  <2>3. CASE FleetSup' = "start"
    BY <1>3, <1>4, <2>1, <2>2, <2>3 DEF Fleet!vars, Fleet!supVars
  <2>4. CASE FleetSup' = "failed"
    BY <1>1, <1>3, <1>4, <2>1, <2>2, <2>4 DEF Fleet!SupNext, Fleet!SupStartFails
  <2> QED
    BY <2>1, <2>3, <2>4
<1>7. CASE StartAssign("sup")
  <2>1. FleetSup = "start" /\ FleetSup' = "monitor"
    BY <1>7 DEF StartAssign, FleetSup, StartSteps, TypeOK
  <2>2. FleetExit' = "armed" /\ timer' = TRUE /\ UNCHANGED <<cancelled, ready>>
    BY <1>7 DEF StartAssign, FleetExit
  <2> QED
    BY <1>1, <1>3, <2>1, <2>2 DEF Fleet!SupNext, Fleet!SupStarted
<1>8. CASE SupCancelled
  <2>1. FleetSup = "monitor" /\ FleetSup' = "ended"
    BY <1>8 DEF SupCancelled, FleetSup, StartSteps, TypeOK
  <2>2. cancelled /\ UNCHANGED <<cancelled, waiter, timer, ready>>
    BY <1>8 DEF SupCancelled
  <2> QED
    BY <1>1, <1>3, <1>4, <2>1, <2>2 DEF Fleet!SupNext, Fleet!SupCancelled
<1>9. CASE SupTimer
  <2>1. AfterTimer \in {"ready", "monitor"} /\ (FleetMain = "startup" => AfterTimer = "ready")
    BY <1>9 DEF SupTimer, AfterTimer, FleetInv, FleetMain, StopSteps
  <2>2. FleetSup = "monitor" /\ FleetSup' = AfterTimer
    BY <1>9, <2>1 DEF SupTimer, FleetSup, StartSteps, TypeOK
  <2>3. timer /\ timer' = FALSE /\ UNCHANGED <<cancelled, waiter, ready>>
    BY <1>9 DEF SupTimer
  <2> QED
    BY <1>1, <1>3, <1>4, <2>1, <2>2, <2>3
       DEF Fleet!SupNext, Fleet!SupTimer, Fleet!Either
<1>10. CASE SupReady
  <2>1. FleetSup = "ready" /\ FleetSup' = "monitor"
    BY <1>10 DEF SupReady, FleetSup, StartSteps, TypeOK
  <2>2. ready' = TRUE /\ UNCHANGED <<cancelled, waiter, timer>>
    BY <1>10 DEF SupReady
  <2>3. Fleet!Capacity = 1
    BY FleetOfOne DEF Fleet!Capacity
  <2>4. FleetQueue' = IF Fleet!Sends(1) /\ FleetQueue < Fleet!Capacity THEN FleetQueue + 1
                                                                   ELSE FleetQueue
    BY <1>2, <2>2, <2>3 DEF FleetQueue, InStartup, Fleet!Sends, FleetInv
  <2> QED
    BY <1>1, <1>3, <1>4, <2>1, <2>2, <2>4 DEF Fleet!SupNext, Fleet!SupReady
<1>11. CASE SupExit
  <2>1. FleetExit \in {"error", "nil"} /\ FleetExit = waiter /\ FleetExit' = "none"
    BY <1>11 DEF SupExit, FleetExit
  <2>2. /\ AfterExit \in {"exited", "ended"}
        /\ waiter # "error" => AfterExit = "ended"
        /\ FleetMain = "startup" /\ waiter = "error" => AfterExit = "exited"
    BY <1>11 DEF SupExit, AfterExit, FleetInv, FleetMain, StopSteps
  <2>3. FleetSup = "monitor" /\ FleetSup' = IF AfterExit = "exited" THEN "failed" ELSE "ended"
    BY <1>11, <2>2 DEF SupExit, FleetSup, StartSteps, TypeOK
  <2>4. timer' = FALSE /\ UNCHANGED <<cancelled, ready>>
    BY <1>11 DEF SupExit
  <2> QED
    BY <1>1, <1>3, <2>1, <2>2, <2>3, <2>4
       DEF Fleet!SupNext, Fleet!SupExit, Fleet!Either
<1>12. CASE SupFailed
  <2>1. FleetSup = "failed" /\ FleetSup' = "backoff"
    BY <1>12 DEF SupFailed, FleetSup, StartSteps, TypeOK
  <2>2. UNCHANGED <<cancelled, waiter, timer, ready>>
    BY <1>12 DEF SupFailed
  <2> QED
    BY <1>1, <1>3, <1>4, <2>1, <2>2 DEF Fleet!SupNext, Fleet!SupFailed
<1>13. CASE SupBackoff
  <2>1. FleetSup = "backoff" /\ (FleetSup' = "top" \/ (cancelled /\ FleetSup' = "ended"))
    BY <1>13 DEF SupBackoff, FleetSup, StartSteps, TypeOK
  <2>2. UNCHANGED <<cancelled, waiter, timer, ready>>
    BY <1>13 DEF SupBackoff
  <2> QED
    BY <1>1, <1>3, <1>4, <2>1, <2>2 DEF Fleet!SupNext, Fleet!SupBackoff
<1> QED
  BY <1>5, <1>6, <1>7, <1>8, <1>9, <1>10, <1>11, <1>12, <1>13 DEF SupNext, StartNext

LEMMA FleetWaitStep ==
  ASSUME TypeOK, WaitNext
  PROVE  Fleet!WaitEnd(1) \/ UNCHANGED Fleet!vars
<1> USE DEF shared, Fleet!readyVars, Fleet!mainVars, Fleet!rotVars
<1>1. at' = at /\ Running /\ UNCHANGED <<cancelled, timer, ready>>
  BY DEF WaitNext, WaitBegin, WaitEnd
<1>2. /\ UNCHANGED <<FleetMain, FleetRot, FleetStarted, FleetStopped, FleetPicked,
                     FleetLocked, FleetQueue>>
      /\ Fleet!Running /\ FleetSup' = FleetSup
  BY <1>1, FleetOthers, FleetRuns DEF FleetSup
<1>3. CASE WaitBegin
  <2>1. FleetExit' = FleetExit
    BY <1>3 DEF WaitBegin, FleetExit
  <2> QED
    BY <1>1, <1>2, <2>1 DEF Fleet!vars, Fleet!supVars
<1>4. CASE WaitEnd
  <2>1. FleetExit = "armed" /\ FleetExit' \in {"error", "nil"}
    BY <1>4 DEF WaitEnd, FleetExit
  <2> QED
    BY <1>1, <1>2, <2>1 DEF Fleet!WaitEnd
<1> QED
  BY <1>3, <1>4 DEF WaitNext

\* What a step of the rotation or of main leaves alone.
LEMMA FleetSupSame ==
  ASSUME at'["sup"] = at["sup"], UNCHANGED supVars
  PROVE  UNCHANGED <<FleetSup, FleetExit>>
  BY DEF supVars, FleetSup, FleetExit

LEMMA FleetRotStep ==
  ASSUME TypeOK, FleetInv, Rotate \/ RotNext
  PROVE  Fleet!Rotate \/ Fleet!RotNext \/ UNCHANGED Fleet!vars
<1> USE DEF At, Goto, shared, Fleet!supVars, Fleet!readyVars, Fleet!mainVars
<1>1. /\ Running /\ at'["main"] = at["main"] /\ at'["sup"] = at["sup"]
      /\ UNCHANGED <<cancelled, supVars>>
  BY DEF Rotate, RotNext, StopNext, StopCancel, StopClaim, StopJoin, StopDown,
     StartNext, StartRender, StartFailed, StartBoot, StartCheck, StartFork, StartList, StartAssign, TypeOK
<1>2. /\ UNCHANGED <<FleetSup, FleetExit, timer, ready, cancelled>>
      /\ UNCHANGED <<FleetMain, FleetStarted, FleetStopped, FleetQueue>>
      /\ Fleet!Running
  BY <1>1, FleetSupSame, FleetRuns
     DEF supVars, FleetMain, FleetStarted, FleetStopped, FleetQueue, InStartup
<1>3. CASE Rotate
  <2>1. FleetRot = "idle" /\ FleetRot' = "cycle" /\ FleetPicked' = {1}
    BY <1>3 DEF Rotate, FleetRot, FleetPicked, StopSteps, StartSteps, TypeOK
  <2>2. FleetMain = "serving" /\ FleetLocked' = FleetLocked
    BY <1>3, <2>1 DEF Rotate, FleetMain, FleetLocked, StopSteps
  <2> QED
    BY <1>2, <2>1, <2>2 DEF Fleet!Rotate
<1>4. CASE StopCancel("rot")
  <2>1. /\ FleetRot = "cycle" /\ FleetRot' = "stop"
        /\ FleetPicked = {1} /\ FleetPicked' = {}
    BY <1>4 DEF StopCancel, FleetRot, FleetPicked, StopSteps, StartSteps, TypeOK
  <2>2. FleetLocked = FALSE /\ FleetLocked' = TRUE
    BY <2>1 DEF FleetLocked
  <2> QED
    BY <1>2, <2>1, <2>2 DEF Fleet!RotNext, Fleet!RotLock
<1>5. CASE StopClaim("rot") \/ StopJoin("rot")
  <2>1. FleetRot = "stop" /\ FleetRot' = "stop" /\ FleetPicked' = FleetPicked
    BY <1>5 DEF StopClaim, StopJoin, FleetRot, FleetPicked, StopSteps, StartSteps, TypeOK
  <2>2. FleetLocked' = FleetLocked
    BY <2>1 DEF FleetLocked
  <2> QED
    BY <1>2, <2>1, <2>2 DEF Fleet!vars, Fleet!rotVars
<1>6. CASE StopDown("rot")
  <2>1. FleetRot = "stop" /\ FleetRot' = "start" /\ FleetPicked' = FleetPicked
    BY <1>6 DEF StopDown, AfterStop, FleetRot, FleetPicked, StopSteps, StartSteps, TypeOK
  <2>2. FleetLocked' = FleetLocked
    BY <2>1 DEF FleetLocked
  <2> QED
    BY <1>2, <2>1, <2>2 DEF Fleet!RotNext, Fleet!RotStopped
<1>7. CASE StartNext("rot")
  <2>1. /\ FleetRot = "start" /\ FleetRot' \in {"start", "idle"}
        /\ FleetPicked = {} /\ FleetPicked' = {}
    BY <1>7 DEF StartNext, StartRender, StartFailed, StartBoot, StartCheck, StartFork, StartList, StartAssign,
       FleetRot, FleetPicked, StopSteps, StartSteps, TypeOK
  <2>2. CASE FleetRot' = "start"
    <3>1. FleetLocked' = FleetLocked
      BY <2>1, <2>2 DEF FleetLocked
    <3> QED
      BY <1>2, <2>1, <2>2, <3>1 DEF Fleet!vars, Fleet!rotVars
  <2>3. CASE FleetRot' = "idle"
    <3>1. FleetLocked' = FALSE
      BY <2>3 DEF FleetLocked
    <3> QED
      BY <1>2, <2>1, <2>3, <3>1 DEF Fleet!RotNext, Fleet!RotStarted, Fleet!Unlocked
  <2> QED
    BY <2>1, <2>2, <2>3
<1> QED
  BY <1>3, <1>4, <1>5, <1>6, <1>7 DEF RotNext, StopNext

LEMMA FleetMainStep ==
  ASSUME TypeOK, FleetInv, MainNext
  PROVE  Fleet!MainNext \/ UNCHANGED Fleet!vars
<1> USE DEF At, Goto, shared, Fleet!MainGoto, Fleet!supVars, Fleet!readyVars, Fleet!rotVars
<1>1. /\ at'["sup"] = at["sup"] /\ at'["rot"] = at["rot"]
      /\ UNCHANGED <<cancelled, supVars>>
  BY DEF MainNext, MainStartup, MainWired, MainShutdown, MainDaemonStopped, MainSweep, MainReap,
     StopNext, StopCancel, StopClaim, StopJoin, StopDown, TypeOK
<1>2. /\ UNCHANGED <<FleetSup, FleetExit, timer, ready, cancelled>>
      /\ UNCHANGED <<FleetRot, FleetPicked, FleetLocked>>
  BY <1>1, FleetSupSame DEF supVars, FleetRot, FleetPicked, FleetLocked
<1> DEFINE Rest == UNCHANGED <<FleetQueue, FleetStarted, FleetStopped>>
<1>3. CASE MainStartup
  <2>1. CASE ready /\ Goto("main", "started")
    <3>1. FleetMain = "startup" /\ FleetMain' = "started" /\ FleetStopped' = FleetStopped
      BY <1>3, <2>1 DEF MainStartup, FleetMain, FleetStopped, StopSteps, TypeOK
    <3>2. /\ FleetQueue = 1 /\ FleetQueue' = 0
          /\ FleetStarted = 0 /\ FleetStarted' = 1
      BY <1>3, <2>1 DEF MainStartup, FleetQueue, FleetStarted, InStartup, TypeOK
    <3> QED
      BY <1>2, <3>1, <3>2, FleetOfOne DEF Fleet!MainNext, Fleet!MainReceive
  <2>2. CASE cancelled /\ Goto("main", "interrupted")
    <3>1. FleetMain = "startup" /\ FleetMain' = "interrupted"
      BY <1>3, <2>2 DEF MainStartup, FleetMain, StopSteps, TypeOK
    <3>2. Rest
      BY <1>2, <1>3, <2>2
         DEF MainStartup, FleetQueue, FleetStarted, FleetStopped, InStartup, TypeOK
    <3> QED
      BY <1>2, <2>2, <3>1, <3>2 DEF Fleet!MainNext, Fleet!MainInterrupted
  <2> QED
    BY <1>3, <2>1, <2>2 DEF MainStartup
<1>4. CASE MainWired
  <2>1. FleetMain = "started" /\ FleetMain' \in {"serving", "abort"}
    BY <1>4 DEF MainWired, FleetMain, StopSteps, TypeOK
  <2>2. Rest
    BY <1>2, <1>4 DEF MainWired, FleetQueue, FleetStarted, FleetStopped, InStartup, TypeOK
  <2> QED
    BY <1>2, <2>1, <2>2 DEF Fleet!MainNext, Fleet!MainWired
<1>5. CASE MainShutdown
  <2>1. FleetMain = "serving" /\ FleetMain' = "daemon" /\ cancelled
    BY <1>5 DEF MainShutdown, FleetMain, StopSteps, TypeOK
  <2>2. Rest
    BY <1>2, <1>5 DEF MainShutdown, FleetQueue, FleetStarted, FleetStopped, InStartup, TypeOK
  <2> QED
    BY <1>2, <2>1, <2>2 DEF Fleet!MainNext, Fleet!MainShutdown
<1>6. CASE MainDaemonStopped
  <2>1. FleetMain = "daemon" /\ FleetMain' = "stopall"
    BY <1>6 DEF MainDaemonStopped, FleetMain, StopSteps, TypeOK
  <2>2. Rest
    BY <1>2, <1>6
       DEF MainDaemonStopped, FleetQueue, FleetStarted, FleetStopped, InStartup, TypeOK
  <2>3. FleetRot = "idle" /\ FleetLocked = FALSE
    BY <1>6 DEF MainDaemonStopped, FleetRot, FleetLocked, StopSteps, StartSteps
  <2> QED
    BY <1>2, <2>1, <2>2, <2>3 DEF Fleet!MainNext, Fleet!MainDaemonStopped
<1>7. CASE StopCancel("main") \/ StopClaim("main") \/ StopJoin("main")
  <2>1. FleetMain' = FleetMain
    BY <1>7 DEF StopCancel, StopClaim, StopJoin, FleetMain, StopSteps, TypeOK
  <2>2. Rest
    BY <1>2, <1>7 DEF StopCancel, StopClaim, StopJoin, FleetQueue, FleetStarted,
       FleetStopped, InStartup, TypeOK
  <2> QED
    BY <1>2, <2>1, <2>2 DEF Fleet!vars, Fleet!mainVars
<1>8. CASE StopDown("main")
  <2>1. FleetMain = "stopall" /\ FleetMain' = "sweep"
    BY <1>8 DEF StopDown, AfterStop, FleetMain, StopSteps, TypeOK
  <2>2. /\ UNCHANGED <<FleetQueue, FleetStarted>>
        /\ FleetStopped = {} /\ FleetStopped' = {1}
    BY <1>2, <1>8
       DEF StopDown, AfterStop, FleetQueue, FleetStarted, FleetStopped, InStartup, TypeOK
  <2>3. Fleet!StopInstance(1)
    BY <1>2, <2>1, <2>2 DEF Fleet!StopInstance
  <2> QED
    BY <2>3 DEF Fleet!MainNext
<1>9. CASE MainSweep \/ MainReap
  <2>1. CASE at' = at \/ MainSweep
    <3>1. UNCHANGED FleetMain /\ Rest
      BY <1>2, <2>1 DEF MainSweep, FleetMain, FleetQueue, FleetStarted, FleetStopped,
         InStartup, StopSteps, TypeOK
    <3> QED
      BY <1>2, <3>1 DEF Fleet!vars, Fleet!mainVars
  <2>2. CASE MainReap /\ Goto("main", "exit")
    <3>1. FleetMain = "sweep" /\ FleetMain' = "exit"
      BY <2>2 DEF MainReap, FleetMain, StopSteps, TypeOK
    <3>2. Rest
      BY <1>2, <2>2
         DEF MainReap, FleetQueue, FleetStarted, FleetStopped, InStartup, TypeOK
    <3> QED
      BY <1>2, <3>1, <3>2 DEF Fleet!MainNext, Fleet!MainSweep
  <2> QED
    BY <1>9, <2>1, <2>2 DEF MainReap
<1> QED
  BY <1>3, <1>4, <1>5, <1>6, <1>7, <1>8, <1>9 DEF MainNext, StopNext

\* For any bound on the processes an instance is given, TorSupervisor is a fleet
\* of one: what TorFleet assumes of RunWithRestart, RotateInstance and StopAll
\* is what they do (manager.go:186, 236, 128).
THEOREM FleetHolds == Spec => ImplementsFleet
<1>1. TypeOK /\ FleetInv /\ [Next]_vars => [Fleet!Next]_(Fleet!vars)
  <2> SUFFICES ASSUME TypeOK, FleetInv, [Next]_vars
               PROVE  Fleet!Next \/ UNCHANGED Fleet!vars
    OBVIOUS
  <2>1. CASE Interrupt
    <3>1. UNCHANGED <<at, ready, supVars>> /\ Running /\ ~cancelled /\ cancelled' = TRUE
      BY <2>1 DEF Interrupt, supVars
    <3>2. /\ UNCHANGED <<FleetMain, FleetRot, FleetStarted, FleetStopped, FleetPicked,
                         FleetLocked, FleetQueue, FleetSup, FleetExit, timer>>
          /\ Fleet!Running
      BY <3>1, FleetOthers, FleetSupSame, FleetRuns DEF supVars
    <3>3. Fleet!Interrupt
      BY <3>1, <3>2 DEF Fleet!Interrupt, Fleet!supVars, Fleet!readyVars, Fleet!mainVars,
         Fleet!rotVars
    <3> QED
      BY <3>3 DEF Fleet!Next
  <2>2. CASE UNCHANGED vars \/ \E k \in Children : ChildExit(k)
    <3>1. UNCHANGED <<at, cancelled, ready, supVars>>
      BY <2>2 DEF ChildExit, vars, supVars
    <3>2. UNCHANGED <<FleetMain, FleetRot, FleetStarted, FleetStopped, FleetPicked,
                      FleetLocked, FleetQueue, FleetSup, FleetExit, timer>>
      BY <3>1, FleetOthers, FleetSupSame DEF supVars
    <3> QED
      BY <3>1, <3>2 DEF Fleet!vars, Fleet!supVars, Fleet!readyVars, Fleet!mainVars,
         Fleet!rotVars
  <2> QED
    BY <2>1, <2>2, FleetSupStep, FleetWaitStep, FleetRotStep, FleetMainStep
       DEF Next, Fleet!Next
<1> QED
  BY <1>1, FleetInitially, FleetInvStep, TypeCorrect, PTL DEF Spec, ImplementsFleet, Fleet!Spec
=============================================================================
