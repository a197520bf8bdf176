------------------------------ MODULE TorFleet ------------------------------
(***************************************************************************)
(* internal/tor/manager.go with its callers: the Tor instances together.   *)
(* StartAllWithRestart counts the instances that became ready; later the   *)
(* country daemon rotates one of them at a time under the manager's mutex, *)
(* and the main goroutine (GetInstances in handleReload, StopAll) and the  *)
(* status server (CollectStatus) copy the list under the same mutex.       *)
(*                                                                         *)
(* Of one instance only the progress of its supervisor is left: a process  *)
(* ends when it wants to, with or without an error, a Stop takes as long   *)
(* as it takes, and once the rotation may write Instance.state what the    *)
(* supervisor reads there is open.  TorSupervisor, where all that is       *)
(* modelled, implements the fleet of one instance.                         *)
(***************************************************************************)
EXTENDS Integers, FiniteSets

CONSTANTS Instances,  \* TorManager.instances
          Requests    \* GET /status

ASSUME FleetAssumption == IsFiniteSet(Instances) /\ Instances # {}

VARIABLES
  cancelled,  \* the context of run.go
  sup,        \* where RunWithRestart of each instance is
  exit,       \* its waitCh: none, armed (nothing received yet), error, nil
  timer,      \* its bootstrapTimer is armed
  sent,       \* its onceReady is done
  queue,      \* the messages in readyCh
  started,    \* startedCount
  main,       \* where the main goroutine is
  stopped,    \* the instances StopAll has stopped
  rot,        \* where the country daemon is
  picked,     \* the instances its cycle has not come to
  locked,     \* TorManager.mu is held by RotateInstance
  status      \* where each status request is

supVars == <<sup, exit, timer>>
readyVars == <<sent, queue, started>>
mainVars == <<main, stopped>>
rotVars == <<rot, picked, locked>>
vars == <<cancelled, supVars, readyVars, mainVars, rotVars, status>>

SupSteps  == {"top", "start", "monitor", "ready", "failed", "backoff", "ended"}
MainSteps == {"startup", "started", "serving", "reload", "daemon", "stopall", "sweep",
              "exit", "interrupted", "abort"}
Total     == Cardinality(Instances)

Init == /\ cancelled = FALSE
        /\ sup = [i \in Instances |-> "top"]
        /\ exit = [i \in Instances |-> "none"]
        /\ timer = [i \in Instances |-> FALSE]
        /\ sent = [i \in Instances |-> FALSE]
        /\ queue = 0 /\ started = 0
        /\ main = "startup" /\ stopped = {}
        /\ rot = "idle" /\ picked = {} /\ locked = FALSE
        /\ status = [r \in Requests |-> "idle"]

\* The goroutines live as long as the program.
Running == main \notin {"exit", "interrupted", "abort"}

-----------------------------------------------------------------------------
(* RunWithRestart, for each instance *)

SupAt(i, l)   == Running /\ sup[i] = l
SupGoto(i, l) == sup' = [sup EXCEPT ![i] = l]

SupAttempt(i) ==
  /\ SupAt(i, "top")
  /\ SupGoto(i, "start")
  /\ UNCHANGED <<cancelled, exit, timer, readyVars, mainVars, rotVars, status>>

\* Instance.Start fails in one of its steps.
SupStartFails(i) ==
  /\ SupAt(i, "start")
  /\ SupGoto(i, "failed")
  /\ UNCHANGED <<cancelled, exit, timer, readyVars, mainVars, rotVars, status>>

\* It succeeds: the waiter and the timer are started.
SupStarted(i) ==
  /\ SupAt(i, "start")
  /\ SupGoto(i, "monitor")
  /\ exit' = [exit EXCEPT ![i] = "armed"]
  /\ timer' = [timer EXCEPT ![i] = TRUE]
  /\ UNCHANGED <<cancelled, readyVars, mainVars, rotVars, status>>

\* The process the waiter waits for has ended: by itself, or stopped.
WaitEnd(i) ==
  /\ Running /\ exit[i] = "armed"
  /\ \E how \in {"error", "nil"} : exit' = [exit EXCEPT ![i] = how]
  /\ UNCHANGED <<cancelled, sup, timer, readyVars, mainVars, rotVars, status>>

SupCancelled(i) ==
  /\ SupAt(i, "monitor") /\ cancelled
  /\ SupGoto(i, "ended")
  /\ UNCHANGED <<cancelled, exit, timer, readyVars, mainVars, rotVars, status>>

\* Where the supervisor goes if the state of the instance is what it has itself
\* made it, and, once there are rotations, if it is not.
Either(l, other) == IF main = "startup" THEN {l} ELSE {l, other}

SupTimer(i) ==
  /\ SupAt(i, "monitor") /\ timer[i]
  /\ timer' = [timer EXCEPT ![i] = FALSE]
  /\ \E l \in Either("ready", "monitor") : SupGoto(i, l)
  /\ UNCHANGED <<cancelled, exit, readyVars, mainVars, rotVars, status>>

\* Mutant: readyCh is made for one message.
MutCapacity == 1

\* readyCh has one place per instance.
Capacity == Total

\* Mutant: every attempt that becomes ready says so.
MutSends(i) == TRUE

\* onceReady
Sends(i) == ~sent[i]

\* The send does not block: a message that finds readyCh full is dropped.
SupReady(i) ==
  /\ SupAt(i, "ready")
  /\ SupGoto(i, "monitor")
  /\ sent' = [sent EXCEPT ![i] = TRUE]
  /\ queue' = IF Sends(i) /\ queue < Capacity THEN queue + 1 ELSE queue
  /\ UNCHANGED <<cancelled, exit, timer, started, mainVars, rotVars, status>>

\* Only an exit with an error is retried.
SupExit(i) ==
  /\ SupAt(i, "monitor") /\ exit[i] \in {"error", "nil"}
  /\ exit' = [exit EXCEPT ![i] = "none"]
  /\ timer' = [timer EXCEPT ![i] = FALSE]
  /\ \E l \in IF exit[i] = "error" THEN Either("failed", "ended") ELSE {"ended"} :
       SupGoto(i, l)
  /\ UNCHANGED <<cancelled, readyVars, mainVars, rotVars, status>>

SupFailed(i) ==
  /\ SupAt(i, "failed")
  /\ SupGoto(i, "backoff")
  /\ UNCHANGED <<cancelled, exit, timer, readyVars, mainVars, rotVars, status>>

SupBackoff(i) ==
  /\ SupAt(i, "backoff")
  /\ SupGoto(i, "top") \/ (cancelled /\ SupGoto(i, "ended"))
  /\ UNCHANGED <<cancelled, exit, timer, readyVars, mainVars, rotVars, status>>

-----------------------------------------------------------------------------
(* run.go: startup, reload, shutdown *)

MainGoto(from, to) ==
  /\ main = from /\ main' = to
  /\ UNCHANGED <<cancelled, supVars, readyVars, stopped, rotVars, status>>

\* The loop of StartAllWithRestart.
MainReceive ==
  /\ main = "startup" /\ queue > 0
  /\ queue' = queue - 1 /\ started' = started + 1
  /\ main' = IF started' = Total THEN "started" ELSE "startup"
  /\ UNCHANGED <<cancelled, supVars, sent, stopped, rotVars, status>>

MainInterrupted == cancelled /\ MainGoto("startup", "interrupted")

\* The renewer, HAProxy, the country daemon and the status server are started;
\* the error of one of them ends run.
MainWired == MainGoto("started", "serving") \/ MainGoto("started", "abort")

\* A SIGHUP whose reload needs the instances, and GetInstances in handleReload.
MainReload       == MainGoto("serving", "reload")
MainGetInstances == ~locked /\ MainGoto("reload", "serving")

MainShutdown == cancelled /\ MainGoto("serving", "daemon")

\* countryDaemon.Stop has returned; TorManager.StopAll copies the instances.
MainDaemonStopped == rot = "idle" /\ ~locked /\ MainGoto("daemon", "stopall")

\* One of its goroutines has stopped its instance; it waits for all of them.
StopInstance(i) ==
  /\ main = "stopall" /\ i \notin stopped
  /\ stopped' = stopped \cup {i}
  /\ main' = IF stopped' = Instances THEN "sweep" ELSE "stopall"
  /\ UNCHANGED <<cancelled, supVars, readyVars, rotVars, status>>

\* procMgr.StopAll and the end of run.
MainSweep == MainGoto("sweep", "exit")

Interrupt ==
  /\ Running /\ ~cancelled
  /\ cancelled' = TRUE
  /\ UNCHANGED <<supVars, readyVars, mainVars, rotVars, status>>

-----------------------------------------------------------------------------
(* rotateOnce of the country daemon, with RotateInstance for each of the    *)
(* instances it has picked, also when the context has ended meanwhile.      *)

Rotate ==
  /\ main \in {"serving", "reload"} /\ rot = "idle"
  /\ rot' = "cycle"
  /\ picked' \in (SUBSET Instances) \ {{}}
  /\ UNCHANGED <<cancelled, supVars, readyVars, mainVars, locked, status>>

\* Those who hold the lock to copy the list do not block: each is one step.
RotLock ==
  /\ Running /\ rot = "cycle" /\ ~locked
  /\ locked' = TRUE
  /\ rot' = "stop"
  /\ \E i \in picked : picked' = picked \ {i}
  /\ UNCHANGED <<cancelled, supVars, readyVars, mainVars, status>>

\* Instance.Stop returns once the old process has ended.
RotStopped ==
  /\ Running /\ rot = "stop"
  /\ rot' = "start"
  /\ UNCHANGED <<cancelled, supVars, readyVars, mainVars, picked, locked, status>>

\* Mutant: the return after a failed Start does not unlock.
MutUnlocked(ok) == ok

\* defer m.mu.Unlock(): every return unlocks.
Unlocked(ok) == TRUE

\* Instance.Start succeeds or fails; the cycle goes on.
RotStarted ==
  /\ Running /\ rot = "start"
  /\ \E ok \in BOOLEAN : locked' = IF Unlocked(ok) THEN FALSE ELSE locked
  /\ rot' = IF picked = {} THEN "idle" ELSE "cycle"
  /\ UNCHANGED <<cancelled, supVars, readyVars, mainVars, picked, status>>

-----------------------------------------------------------------------------
(* The status server *)

\* It is started last and stops accepting when the context is done.
StatusRequest(r) ==
  /\ main \in {"serving", "reload"} /\ ~cancelled
  /\ status[r] = "idle"
  /\ status' = [status EXCEPT ![r] = "waiting"]
  /\ UNCHANGED <<cancelled, supVars, readyVars, mainVars, rotVars>>

\* CollectStatus: GetInstances is all that waits; then it reads and answers.
CollectStatus(r) ==
  /\ Running /\ status[r] = "waiting" /\ ~locked
  /\ status' = [status EXCEPT ![r] = "idle"]
  /\ UNCHANGED <<cancelled, supVars, readyVars, mainVars, rotVars>>

-----------------------------------------------------------------------------

SupNext(i) == \/ SupAttempt(i) \/ SupStartFails(i) \/ SupStarted(i)
              \/ SupCancelled(i) \/ SupTimer(i) \/ SupReady(i) \/ SupExit(i)
              \/ SupFailed(i) \/ SupBackoff(i)
MainNext == \/ MainReceive \/ MainInterrupted \/ MainWired \/ MainGetInstances
            \/ MainShutdown \/ MainDaemonStopped \/ MainSweep
            \/ \E i \in Instances : StopInstance(i)
RotNext  == RotLock \/ RotStopped \/ RotStarted

Next == \/ \E i \in Instances : SupNext(i) \/ WaitEnd(i)
        \/ MainNext \/ MainReload \/ Interrupt
        \/ Rotate \/ RotNext
        \/ \E r \in Requests : StatusRequest(r) \/ CollectStatus(r)

Spec == Init /\ [][Next]_vars

(* Goroutines run, and a Stop returns, as ProcessContract promises.  Who    *)
(* waits for the mutex gets it between two rotations: strong fairness.      *)
(* SIGHUPs, rotations, requests and ends of processes need not happen.      *)
Fairness ==
  /\ \A i \in Instances : WF_vars(SupNext(i))
  /\ WF_vars(MainNext) /\ SF_vars(MainGetInstances)
  /\ WF_vars(RotNext)
  /\ \A r \in Requests : SF_vars(CollectStatus(r))

\* Of Tor: an instance that is started again and again is up at some time for
\* as long as its grace period lasts.
TorSettles ==
  \A i \in Instances : SF_vars(SupStarted(i)) /\ SF_vars(SupTimer(i))

FairSpec == Spec /\ Fairness /\ TorSettles

-----------------------------------------------------------------------------
(* Properties *)

\* The variables range over the values of the code's fields and positions.
TypeOK ==
  /\ cancelled \in BOOLEAN
  /\ sup \in [Instances -> SupSteps]
  /\ exit \in [Instances -> {"none", "armed", "error", "nil"}]
  /\ timer \in [Instances -> BOOLEAN] /\ sent \in [Instances -> BOOLEAN]
  /\ queue \in 0 .. Total /\ started \in 0 .. Total
  /\ main \in MainSteps /\ stopped \in SUBSET Instances
  /\ rot \in {"idle", "cycle", "stop", "start"} /\ picked \in SUBSET Instances
  /\ locked \in BOOLEAN
  /\ status \in [Requests -> {"idle", "waiting"}]

\* manager.go:198, 206: each instance that became ready is counted once, however
\* often it crashed before or since, and no message is dropped.
CountedOnce == started + queue = Cardinality({i \in Instances : sent[i]})

\* "all tor instances ready" (manager.go:213): HAProxy and the rest are started
\* only after every single instance has once been ready.
ReadyMeansAll == main \notin {"startup", "interrupted"} => \A i \in Instances : sent[i]

\* The startup ends, whatever crashes, unless it is interrupted or the process
\* of an instance ended with status 0 before it was ever ready.
StartupEnds ==
  main = "startup" ~> \/ main # "startup"
                      \/ \E i \in Instances : sup[i] = "ended" /\ ~sent[i]

\* A status request is answered, and a reload gets the instances, although a
\* rotation holds the lock for as long as an old Tor takes to end, also one
\* whose new Tor could not be started.
WaitersServed ==
  /\ \A r \in Requests : status[r] = "waiting" ~> status[r] = "idle" \/ ~Running
  /\ main = "reload" ~> main # "reload"

\* ROADMAP 3.2.1: "if a Tor process exits unexpectedly, the goroutine restarts
\* it": so nothing but an interruption keeps the startup from ending.
StartupAlwaysEnds == main = "startup" ~> main # "startup"
=============================================================================
