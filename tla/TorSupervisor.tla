--------------------------- MODULE TorSupervisor ---------------------------
(***************************************************************************)
(* internal/tor: the life of one Tor instance.  Three goroutines act on it *)
(* and share its fields state, proc and cancelFunc:                        *)
(*   sup   RunWithRestart, the supervisor, with the goroutine that waits   *)
(*         for the child of the current attempt (waiter);                  *)
(*   rot   the country daemon, in TorManager.RotateInstance;               *)
(*   main  StartAllWithRestart, then the shutdown of cmd/run.go, which     *)
(*         ends in TorManager.StopAll and process.Manager.StopAll.         *)
(* state is protected by a lock, proc and cancelFunc by nothing.           *)
(*                                                                         *)
(* A child is what ProcessContract leaves of a process: its exit is        *)
(* visible to Stop and Wait at once.  Spawn is not one step: it looks at   *)
(* its context, forks, and adds the child to the list of the manager, and  *)
(* StopAll may copy the list in between.  The failure counter of the       *)
(* supervisor decides only how long it backs off, so it and all durations  *)
(* are left out: a timer fires at any time.                                *)
(***************************************************************************)
EXTENDS Integers, FiniteSets

CONSTANTS Rotations,   \* the values country.rotation.enabled may have
          MaxChildren  \* bound: cmd.Start fails from then on

ASSUME SupervisorAssumption == Rotations \subseteq BOOLEAN /\ MaxChildren \in Nat \ {0}

Children == 1 .. MaxChildren
NoChild  == 0
Threads  == {"sup", "rot", "main"}

VARIABLES
  rotation,          \* country.rotation.enabled
  cancelled,         \* the context of run.go: SIGINT or SIGTERM was received
  attemptCancelled,  \* the context of the supervisor's attempt: cancelFunc called
  state,             \* Instance.state
  proc,              \* Instance.proc
  child,             \* the processes spawned for this instance
  listed,            \* those in process.Manager.processes
  swept,             \* those in the copy that Manager.StopAll has taken
  at,                \* where each goroutine is
  hold,              \* the *Process in a local variable of each goroutine
  waiter,            \* the goroutine of restart.go:56 and its channel waitCh
  waitOn,            \* the child it waits for
  timer,             \* bootstrapTimer is armed
  ready              \* a value was sent on readyCh

shared == <<state, proc, attemptCancelled>>
supVars == <<waiter, waitOn, timer, ready>>
manager == <<listed, swept>>
vars == <<rotation, cancelled, shared, child, manager, at, hold, supVars>>

Up     == {"live", "asked"}                         \* asked: Stop claimed it
Exited == {"died0", "died1", "quit0", "quit1"}      \* by itself, or asked to
Errors == {"died1", "quit1"}                        \* Wait returns an error

StopSteps  == {"cancel", "claim", "join", "down"}
StartSteps == {"render", "boot", "check", "fork", "list", "assign"}
SupSteps   == {"top", "monitor", "ready", "exited", "failed", "backoff", "ended"}
MainSteps  == {"startup", "started", "serving", "daemon", "sweep", "reap", "exit",
               "abort", "interrupted"}

Init == /\ rotation \in Rotations
        /\ cancelled = FALSE /\ attemptCancelled = FALSE
        /\ state = "starting" /\ proc = NoChild
        /\ child = [k \in Children |-> "none"] /\ listed = {} /\ swept = {}
        /\ at = [sup |-> "top", rot |-> "idle", main |-> "startup"]
        /\ hold = [t \in Threads |-> NoChild]
        /\ waiter = "none" /\ waitOn = NoChild
        /\ timer = FALSE /\ ready = FALSE

Goto(t, l) == at' = [at EXCEPT ![t] = l]

\* The goroutines live as long as the program: main has not returned.
Running == at["main"] \notin {"exit", "abort", "interrupted"}
At(t, l) == Running /\ at[t] = l

-----------------------------------------------------------------------------
(* Instance.Start, by the supervisor or by the rotation. *)

SpawnContextDone(t) == cancelled \/ (t = "sup" /\ attemptCancelled)
StartFailed(t) == Goto(t, IF t = "sup" THEN "failed" ELSE "idle")

\* generateTorrc and generateDataDir
StartRender(t) ==
  /\ At(t, "render")
  /\ Goto(t, "boot") \/ StartFailed(t)
  /\ UNCHANGED <<rotation, cancelled, shared, child, hold, manager, supVars>>

StartBoot(t) ==
  /\ At(t, "boot")
  /\ state' = "bootstrapping"
  /\ Goto(t, "check")
  /\ UNCHANGED <<rotation, cancelled, proc, attemptCancelled, child, hold, manager, supVars>>

Fresh(k) == child[k] = "none" /\ \A j \in Children : j < k => child[j] # "none"

\* Spawn looks at its context once, and returns before anything is started.
StartCheck(t) ==
  /\ At(t, "check")
  /\ IF SpawnContextDone(t)
     THEN state' = "failed" /\ StartFailed(t)
     ELSE Goto(t, "fork") /\ UNCHANGED state
  /\ UNCHANGED <<rotation, cancelled, proc, attemptCancelled, child, hold, manager, supVars>>

\* cmd.Start, which may fail.
StartFork(t) ==
  /\ At(t, "fork")
  /\ \/ /\ \E k \in Children :
             /\ Fresh(k)
             /\ child' = [child EXCEPT ![k] = "live"]
             /\ hold' = [hold EXCEPT ![t] = k]
        /\ Goto(t, "list")
        /\ UNCHANGED state
     \/ /\ state' = "failed"
        /\ StartFailed(t)
        /\ UNCHANGED <<child, hold>>
  /\ UNCHANGED <<rotation, cancelled, proc, attemptCancelled, supVars, manager>>

\* Manager.add
StartList(t) ==
  /\ At(t, "list")
  /\ listed' = listed \cup {hold[t]}
  /\ Goto(t, "assign")
  /\ UNCHANGED <<rotation, cancelled, shared, child, swept, hold, supVars>>

\* inst.proc = proc; the supervisor goes on to start its waiter and its timer.
StartAssign(t) ==
  /\ At(t, "assign")
  /\ proc' = hold[t]
  /\ IF t = "sup"
     THEN /\ Goto(t, "monitor")
          /\ waiter' = "new" /\ timer' = TRUE
          /\ UNCHANGED <<waitOn, ready, hold>>
     ELSE /\ Goto(t, "idle")
          /\ hold' = [hold EXCEPT ![t] = NoChild]
          /\ UNCHANGED supVars
  /\ UNCHANGED <<rotation, cancelled, state, attemptCancelled, child, manager>>

-----------------------------------------------------------------------------
(* Instance.Stop, by the rotation or by the shutdown. *)

StopCancel(t) ==
  /\ At(t, "cancel")
  /\ attemptCancelled' = TRUE
  /\ Goto(t, "claim")
  /\ UNCHANGED <<rotation, cancelled, state, proc, child, hold, manager, supVars>>

Asked(k) == IF child[k] = "live" THEN "asked" ELSE child[k]

StopClaim(t) ==
  /\ At(t, "claim")
  /\ hold' = [hold EXCEPT ![t] = proc]
  /\ IF proc = NoChild
     THEN Goto(t, "down") /\ UNCHANGED child
     ELSE Goto(t, "join") /\ child' = [child EXCEPT ![proc] = Asked(proc)]
  /\ UNCHANGED <<rotation, cancelled, shared, supVars, manager>>

StopJoin(t) ==
  /\ At(t, "join")
  /\ child[hold[t]] \in Exited
  /\ Goto(t, "down")
  /\ UNCHANGED <<rotation, cancelled, shared, child, hold, manager, supVars>>

AfterStop(t) == IF t = "rot" THEN "render" ELSE "sweep"

StopDown(t) ==
  /\ At(t, "down")
  /\ state' = "starting"
  /\ Goto(t, AfterStop(t))
  /\ hold' = [hold EXCEPT ![t] = NoChild]
  /\ UNCHANGED <<rotation, cancelled, proc, attemptCancelled, child, supVars, manager>>

-----------------------------------------------------------------------------
(* The children. *)

ChildExit(k) ==
  /\ child[k] \in Up
  /\ \E how \in IF child[k] = "live" THEN {"died0", "died1"}
                                     ELSE {"quit0", "quit1"} :
       child' = [child EXCEPT ![k] = how]
  /\ UNCHANGED <<rotation, cancelled, shared, at, hold, supVars, manager>>

-----------------------------------------------------------------------------
(* RunWithRestart. *)

SupAttempt ==
  /\ At("sup", "top")
  /\ attemptCancelled' = FALSE
  /\ state' = "bootstrapping"
  /\ Goto("sup", "render")
  /\ UNCHANGED <<rotation, cancelled, proc, child, hold, manager, supVars>>

\* The waiter reads inst.proc only when it runs.
WaitBegin ==
  /\ Running /\ waiter = "new"
  /\ waiter' = "blocked" /\ waitOn' = proc
  /\ UNCHANGED <<rotation, cancelled, shared, child, manager, at, hold,
                 timer, ready>>

WaitEnd ==
  /\ Running /\ waiter = "blocked"
  /\ child[waitOn] \in Exited
  /\ waiter' = IF child[waitOn] \in Errors THEN "error" ELSE "nil"
  /\ UNCHANGED <<rotation, cancelled, shared, child, manager, at, hold, waitOn,
                 timer, ready>>

SupCancelled ==
  /\ At("sup", "monitor")
  /\ cancelled
  /\ Goto("sup", "ended")
  /\ attemptCancelled' = TRUE
  /\ UNCHANGED <<rotation, cancelled, state, proc, child, hold, manager, supVars>>

\* Mutant: an instance that took its grace period is restarted.
MutAfterTimer == "exited"

AfterTimer == IF state = "bootstrapping" THEN "ready" ELSE "monitor"

SupTimer ==
  /\ At("sup", "monitor")
  /\ timer /\ timer' = FALSE
  /\ Goto("sup", AfterTimer)
  /\ UNCHANGED <<rotation, cancelled, shared, child, manager, hold, waiter, waitOn, ready>>

SupReady ==
  /\ At("sup", "ready")
  /\ state' = "ready" /\ ready' = TRUE
  /\ Goto("sup", "monitor")
  /\ UNCHANGED <<rotation, cancelled, proc, attemptCancelled, child, manager, hold, waiter,
                 waitOn, timer>>

\* Mutant: the test of the error is inverted.
MutAfterExit == IF waiter = "nil" /\ state # "failed" THEN "exited" ELSE "ended"

\* An exit with an error is retried, unless the state says failed already;
\* any other exit ends the supervision.
AfterExit == IF waiter = "error" /\ state # "failed" THEN "exited" ELSE "ended"

SupExit ==
  /\ At("sup", "monitor")
  /\ waiter \in {"error", "nil"}
  /\ waiter' = "none" /\ waitOn' = NoChild /\ timer' = FALSE
  /\ Goto("sup", AfterExit)
  /\ attemptCancelled' = (attemptCancelled \/ AfterExit = "ended")
  /\ UNCHANGED <<rotation, cancelled, state, proc, child, manager, hold, ready>>

SupFailed ==
  /\ At("sup", "exited") \/ At("sup", "failed")
  /\ state' = "failed"
  /\ Goto("sup", "backoff")
  /\ UNCHANGED <<rotation, cancelled, proc, attemptCancelled, child, hold, manager, supVars>>

SupBackoff ==
  /\ At("sup", "backoff")
  /\ \/ Goto("sup", "top")
     \/ cancelled /\ Goto("sup", "ended")
  /\ attemptCancelled' = TRUE
  /\ UNCHANGED <<rotation, cancelled, state, proc, child, hold, manager, supVars>>

-----------------------------------------------------------------------------
(* The country daemon rotates this instance; it starts once run.go is past *)
(* the startup and is waited for by the first step of the shutdown.        *)

Rotate ==
  /\ rotation
  /\ At("rot", "idle") /\ at["main"] = "serving"
  /\ Goto("rot", "cancel")
  /\ UNCHANGED <<rotation, cancelled, shared, child, hold, manager, supVars>>

-----------------------------------------------------------------------------
(* run.go: startup, interruption, shutdown. *)

Interrupt ==
  /\ Running /\ ~cancelled
  /\ cancelled' = TRUE
  /\ UNCHANGED <<rotation, shared, child, at, hold, supVars, manager>>

\* StartAllWithRestart; interrupted, run returns its error and stops nothing.
MainStartup ==
  /\ At("main", "startup")
  /\ \/ ready /\ Goto("main", "started")
     \/ cancelled /\ Goto("main", "interrupted")
  /\ UNCHANGED <<rotation, cancelled, shared, child, hold, manager, supVars>>

\* The renewer, HAProxy and the daemon; when one of them fails, so does run.
MainWired ==
  /\ At("main", "started")
  /\ Goto("main", "serving") \/ Goto("main", "abort")
  /\ UNCHANGED <<rotation, cancelled, shared, child, hold, manager, supVars>>

MainShutdown ==
  /\ At("main", "serving")
  /\ cancelled
  /\ Goto("main", "daemon")
  /\ UNCHANGED <<rotation, cancelled, shared, child, hold, manager, supVars>>

\* countryDaemon.Stop waits for the daemon; torMgr.StopAll follows.
MainDaemonStopped ==
  /\ At("main", "daemon")
  /\ at["rot"] = "idle"
  /\ Goto("main", "cancel")
  /\ UNCHANGED <<rotation, cancelled, shared, child, hold, manager, supVars>>

\* process.Manager.StopAll copies the list
MainSweep ==
  /\ At("main", "sweep")
  /\ swept' = listed
  /\ Goto("main", "reap")
  /\ UNCHANGED <<rotation, cancelled, shared, child, listed, hold, supVars>>

\* Mutants: a child that was asked to end is not waited for; the list, from
\* which nothing is ever removed, is waited on to be empty.
MutAllGone == \A k \in swept : child[k] # "live"
MutAllGoneEmpty == swept = {}

AllGone == \A k \in swept : child[k] \in Exited

\* and stops each process of the copy in a goroutine of its own; it returns when
\* each has been asked and has ended.
MainReap ==
  /\ At("main", "reap")
  /\ \/ /\ \E k \in swept :
             child[k] = "live" /\ child' = [child EXCEPT ![k] = "asked"]
        /\ UNCHANGED at
     \/ /\ AllGone
        /\ Goto("main", "exit")
        /\ UNCHANGED child
  /\ UNCHANGED <<rotation, cancelled, shared, hold, supVars, manager>>

-----------------------------------------------------------------------------

StartNext(t) == StartRender(t) \/ StartBoot(t) \/ StartCheck(t) \/ StartFork(t)
                \/ StartList(t) \/ StartAssign(t)
StopNext(t)  == StopCancel(t) \/ StopClaim(t) \/ StopJoin(t) \/ StopDown(t)

SupNext  == \/ SupAttempt \/ StartNext("sup") \/ SupCancelled \/ SupTimer
            \/ SupReady \/ SupExit \/ SupFailed \/ SupBackoff
WaitNext == WaitBegin \/ WaitEnd
RotNext  == StopNext("rot") \/ StartNext("rot")
MainNext == \/ MainStartup \/ MainWired \/ MainShutdown \/ MainDaemonStopped
            \/ StopNext("main") \/ MainSweep \/ MainReap

Next == \/ SupNext \/ WaitNext \/ Rotate \/ RotNext \/ MainNext \/ Interrupt
        \/ \E k \in Children : ChildExit(k)

Spec == Init /\ [][Next]_vars

(* Goroutines run and timers fire; a child that Stop was called on exits,  *)
(* at the latest of the SIGKILL.  Signals, rotations and crashes need not  *)
(* happen.                                                                 *)
Fairness ==
  /\ WF_vars(SupNext) /\ WF_vars(WaitNext)
  /\ WF_vars(RotNext) /\ WF_vars(MainNext)
  /\ \A k \in Children : WF_vars(child[k] = "asked" /\ ChildExit(k))

FairSpec == Spec /\ Fairness

-----------------------------------------------------------------------------
(* Properties *)

\* The variables range over the values of the code's fields and positions.
TypeOK ==
  /\ rotation \in BOOLEAN /\ cancelled \in BOOLEAN /\ attemptCancelled \in BOOLEAN
  /\ state \in {"starting", "bootstrapping", "ready", "failed"}
  /\ proc \in Children \cup {NoChild}
  /\ child \in [Children -> {"none"} \cup Up \cup Exited]
  /\ listed \subseteq Children /\ swept \subseteq Children
  /\ at \in [sup : SupSteps \cup StartSteps,
              rot : {"idle"} \cup StopSteps \cup StartSteps,
              main : MainSteps \cup StopSteps]
  /\ hold \in [Threads -> Children \cup {NoChild}]
  /\ at["sup"] = "list" => hold["sup"] # NoChild
  /\ at["rot"] = "list" => hold["rot"] # NoChild
  /\ waiter \in {"none", "new", "blocked", "error", "nil"}
  /\ waitOn \in Children \cup {NoChild}
  /\ timer \in BOOLEAN /\ ready \in BOOLEAN

NoneUp == \A k \in Children : child[k] \notin Up

\* One Tor process per instance: they would share torrc, data directory and
\* ports.  ROADMAP 3.2.4: the rotation "restarts the affected instances".
SingleTor ==
  \A j, k \in Children : child[j] \in Up /\ child[k] \in Up => j = k

\* The supervisor alone keeps to one, through crashes, failed starts, a late
\* bootstrap timer and the shutdown.
SingleTorAlone == ~rotation => SingleTor

\* Nor does it give up: without rotation the supervision ends in the shutdown,
\* or with a process that ended without an error and has left no other behind.
SupervisedAlone ==
  ~rotation /\ at["sup"] = "ended" /\ ~cancelled =>
    /\ proc # NoChild /\ child[proc] = "died0"
    /\ NoneUp

\* ROADMAP 3.2.1: "Each Tor instance is a goroutine-managed process": the
\* supervisor has not given up on an instance whose current process is live.
LiveIsSupervised ==
  proc # NoChild /\ child[proc] = "live" /\ at["sup"] = "ended" => cancelled

\* ROADMAP 3.2.1: "if a Tor process exits unexpectedly, the goroutine
\* restarts it": nor on one whose current process ended unasked.
ExitIsSupervised ==
  proc # NoChild /\ child[proc] \in {"died0", "died1"} /\ at["sup"] = "ended"
    => cancelled

\* The shutdown of run.go leaves no Tor process but one: that of a Spawn that
\* had looked at its context before the signal and was added to the list after
\* StopAll had copied it.  Processes that rotations and restarts which overlapped
\* have detached from the instance are on the list and are stopped.
OnlyLateSpawnIsLeft ==
  at["main"] = "exit" =>
    \A k \in Children : child[k] \in Up => k = hold["sup"] /\ k \notin swept

\* ROADMAP 3.1.4: "Kill all children on exit", however run returns.
ExitLeavesNone == ~Running => NoneUp

\* When the process of the supervisor crashes a new attempt begins, unless the
\* program is stopped.
Crashed == /\ at["sup"] = "monitor" /\ hold["sup"] # NoChild
           /\ child[hold["sup"]] = "died1"
Retried == at["sup"] = "top" \/ cancelled \/ ~Running

CrashIsRetried == Crashed ~> Retried

\* The same as long as no rotation writes the state the supervisor relies on.
CrashAloneIsRetried == Crashed /\ ~rotation ~> Retried

\* After SIGINT or SIGTERM run returns, whatever the supervisor and the
\* rotation were doing.
ShutdownTerminates == cancelled ~> ~Running

\* ROADMAP 3.2.1: "Track state: starting, bootstrapping, ready, failed": an
\* instance whose rotation succeeded and whose process stays up becomes ready.
RotatedBecomesReady ==
  at["rot"] = "assign" ~>
    state = "ready" \/ at["rot"] = "cancel" \/ cancelled \/ ~Running
    \/ \E k \in Children : child[k] \in {"died0", "died1"}

-----------------------------------------------------------------------------
(* The fleet of TorFleet, of this instance alone and without requests *)

FleetSup ==
  CASE at["sup"] \in StartSteps -> "start"
    [] at["sup"] \in {"exited", "failed"} -> "failed"
    [] OTHER -> at["sup"]
FleetExit == IF waiter \in {"new", "blocked"} THEN "armed" ELSE waiter
FleetMain ==
  CASE at["main"] \in StopSteps -> "stopall"
    [] at["main"] = "reap" -> "sweep"
    [] OTHER -> at["main"]
FleetRot ==
  CASE at["rot"] = "cancel" -> "cycle"
    [] at["rot"] \in StopSteps \ {"cancel"} -> "stop"
    [] at["rot"] \in StartSteps -> "start"
    [] OTHER -> "idle"
InStartup    == at["main"] \in {"startup", "interrupted"}
FleetQueue   == IF InStartup /\ ready THEN 1 ELSE 0
FleetStarted == IF InStartup THEN 0 ELSE 1
FleetStopped == IF at["main"] \in {"sweep", "reap", "exit"} THEN {1} ELSE {}
FleetPicked  == IF at["rot"] = "cancel" THEN {1} ELSE {}
FleetLocked  == FleetRot \in {"stop", "start"}

Fleet == INSTANCE TorFleet WITH
  Instances <- {1}, Requests <- {},
  sup <- [i \in {1} |-> FleetSup], exit <- [i \in {1} |-> FleetExit],
  timer <- [i \in {1} |-> timer], sent <- [i \in {1} |-> ready],
  queue <- FleetQueue, started <- FleetStarted,
  main <- FleetMain, stopped <- FleetStopped,
  rot <- FleetRot, picked <- FleetPicked, locked <- FleetLocked,
  status <- [r \in {} |-> "idle"]

\* What TorFleet leaves of an instance is what it does: when it tells the
\* startup that it is ready, which ends of a process it retries, where the
\* rotation and the shutdown wait for it.
ImplementsFleet == Fleet!Spec
=============================================================================
