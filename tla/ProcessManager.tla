--------------------------- MODULE ProcessManager ---------------------------
(***************************************************************************)
(* internal/process: the manager that starts, watches and stops the child  *)
(* processes (Tor, HAProxy).  Each child is one *Process, started by one   *)
(* Spawn call, watched by the reaper goroutine Spawn leaves behind, and    *)
(* stopped by any number of concurrent Stop calls: those of the Stoppers   *)
(* (instance stop, HAProxy stop) and those of the goroutines StopAll       *)
(* starts, one per child of its snapshot, written stop[Sweeper].           *)
(*                                                                         *)
(* A section of code under Process.mu or Manager.mu contains no blocking   *)
(* call and is one step.                                                   *)
(***************************************************************************)
EXTENDS FiniteSets

CONSTANTS Procs,     \* the children that may be spawned, one Spawn call each
          Stoppers,  \* goroutines that call Stop on a child they hold
          Sweeper    \* the caller that stands for StopAll's goroutines

ASSUME SweeperAssumption == Sweeper \notin Stoppers

Callers == Stoppers \cup {Sweeper}

VARIABLES
  cancelled,  \* the context given to Spawn is done
  spawn,      \* where each Spawn call is
  os,         \* the child as the kernel sees it
  sig,        \* the strongest signal delivered to the child's group
  exitErr,    \* the child's exit status is not success
  state,      \* Process.state
  wait,       \* Process.wait is an error
  reaper,     \* where the child's reaper goroutine is; "closed": done closed
  processes,  \* Manager.processes
  stop,       \* where each caller's Stop of each child is
  sweep,      \* where StopAll is
  snapshot    \* the copy of Manager.processes StopAll works on

childVars == <<os, sig, exitErr>>
procVars  == <<state, wait, reaper>>
sweepVars == <<sweep, snapshot>>
vars == <<cancelled, spawn, childVars, procVars, processes, stop, sweepVars>>

SpawnSteps  == {"idle", "checked", "forked", "marked", "added",
                "returned", "refused"}
ReaperSteps == {"none", "waiting", "waited", "recorded", "closed"}
StopSteps   == {"idle", "term", "select", "join", "returned"}

Init == /\ cancelled = FALSE
        /\ spawn = [p \in Procs |-> "idle"]
        /\ os = [p \in Procs |-> "none"]
        /\ sig = [p \in Procs |-> "none"]
        /\ exitErr = [p \in Procs |-> FALSE]
        /\ state = [p \in Procs |-> "starting"]
        /\ wait = [p \in Procs |-> FALSE]
        /\ reaper = [p \in Procs |-> "none"]
        /\ processes = {}
        /\ stop = [c \in Callers |-> [p \in Procs |-> "idle"]]
        /\ sweep = "idle"
        /\ snapshot = {}

-----------------------------------------------------------------------------
(* Spawn: context check, fork, mark, list, start the reaper. *)

Cancel == /\ ~cancelled
          /\ cancelled' = TRUE
          /\ UNCHANGED <<spawn, childVars, procVars, processes, stop, sweepVars>>

SpawnCheck(p) ==
  /\ spawn[p] = "idle"
  /\ spawn' = [spawn EXCEPT ![p] = IF cancelled THEN "refused" ELSE "checked"]
  /\ UNCHANGED <<cancelled, childVars, procVars, processes, stop, sweepVars>>

SpawnFork(p) ==
  /\ spawn[p] = "checked"
  /\ \/ /\ spawn' = [spawn EXCEPT ![p] = "forked"]
        /\ os' = [os EXCEPT ![p] = "alive"]
     \/ /\ spawn' = [spawn EXCEPT ![p] = "refused"]     \* cmd.Start failed
        /\ UNCHANGED os
  /\ UNCHANGED <<cancelled, sig, exitErr, procVars, processes, stop, sweepVars>>

SpawnMark(p) ==
  /\ spawn[p] = "forked"
  /\ spawn' = [spawn EXCEPT ![p] = "marked"]
  /\ state' = [state EXCEPT ![p] = "running"]
  /\ UNCHANGED <<cancelled, childVars, wait, reaper, processes, stop, sweepVars>>

SpawnAdd(p) ==
  /\ spawn[p] = "marked"
  /\ spawn' = [spawn EXCEPT ![p] = "added"]
  /\ processes' = processes \cup {p}
  /\ UNCHANGED <<cancelled, childVars, procVars, stop, sweepVars>>

SpawnReturn(p) ==
  /\ spawn[p] = "added"
  /\ spawn' = [spawn EXCEPT ![p] = "returned"]
  /\ reaper' = [reaper EXCEPT ![p] = "waiting"]
  /\ UNCHANGED <<cancelled, childVars, state, wait, processes, stop, sweepVars>>

-----------------------------------------------------------------------------
(* The kernel and the child: exits by itself, or because of a signal. *)

Exit(p) ==
  /\ os[p] = "alive"
  /\ os' = [os EXCEPT ![p] = "dead"]
  /\ \E e \in BOOLEAN : /\ sig[p] = "kill" => e
                        /\ exitErr' = [exitErr EXCEPT ![p] = e]
  /\ UNCHANGED <<cancelled, spawn, sig, procVars, processes, stop, sweepVars>>

\* Mutant: the escalation to SIGKILL is forgotten.
MutSignalled(p, s) == [sig EXCEPT ![p] = IF os[p] = "alive" THEN "term" ELSE @]

\* syscall.Kill(-pid, s): a group that has exited is not affected.
Signalled(p, s) == [sig EXCEPT ![p] = IF os[p] = "alive" THEN s ELSE @]

-----------------------------------------------------------------------------
(* The reaper goroutine: cmd.Wait, record the verdict, close(done). *)

Reap(p) ==
  /\ reaper[p] = "waiting"
  /\ os[p] = "dead"
  /\ os' = [os EXCEPT ![p] = "reaped"]
  /\ reaper' = [reaper EXCEPT ![p] = "waited"]
  /\ UNCHANGED <<cancelled, spawn, sig, exitErr, state, wait, processes, stop,
                 sweepVars>>

\* Mutant: the test of the state is dropped.
MutVerdict(p) == IF exitErr[p] THEN "failed" ELSE "stopped"

\* The state a process whose exit is recorded goes to.
Verdict(p) == IF state[p] = "running"
              THEN IF exitErr[p] THEN "failed" ELSE "stopped"
              ELSE state[p]

Record(p) ==
  /\ reaper[p] = "waited"
  /\ reaper' = [reaper EXCEPT ![p] = "recorded"]
  /\ wait' = [wait EXCEPT ![p] = exitErr[p]]
  /\ state' = [state EXCEPT ![p] = Verdict(p)]
  /\ UNCHANGED <<cancelled, spawn, childVars, processes, stop, sweepVars>>

CloseDone(p) ==
  /\ reaper[p] = "recorded"
  /\ reaper' = [reaper EXCEPT ![p] = "closed"]
  /\ UNCHANGED <<cancelled, spawn, childVars, state, wait, processes, stop,
                 sweepVars>>

\* Mutant: waiting on the state instead of the channel.
MutDone(p) == state[p] \in {"stopped", "failed"}

Done(p) == reaper[p] = "closed"

-----------------------------------------------------------------------------
(* Stop: the caller that finds the process running owns its termination,  *)
(* any other waits for done.                                               *)

\* A Stopper holds the *Process that Spawn returned; StopAll's goroutines
\* hold those of the snapshot.
Holds(c, p) == IF c = Sweeper THEN sweep = "sweeping" /\ p \in snapshot
                              ELSE spawn[p] = "returned"

\* Mutant: the lock is released before the process is marked.
MutClaimed(p) == state

\* Process.state once a Stop has taken a running process over.
Claimed(p) == [state EXCEPT ![p] = "stopped"]

StopEnter(c, p) ==
  /\ stop[c][p] = "idle"
  /\ Holds(c, p)
  /\ IF state[p] = "running"
     THEN /\ state' = Claimed(p)
          /\ stop' = [stop EXCEPT ![c][p] = "term"]
     ELSE /\ stop' = [stop EXCEPT ![c][p] = "join"]
          /\ UNCHANGED state
  /\ UNCHANGED <<cancelled, spawn, childVars, wait, reaper, processes, sweepVars>>

StopTerm(c, p) ==
  /\ stop[c][p] = "term"
  /\ stop' = [stop EXCEPT ![c][p] = "select"]
  /\ sig' = Signalled(p, "term")
  /\ UNCHANGED <<cancelled, spawn, os, exitErr, procVars, processes, sweepVars>>

\* The 5 s timer fires, or the context of the call is done: SIGKILL.
StopKill(c, p) ==
  /\ stop[c][p] = "select"
  /\ stop' = [stop EXCEPT ![c][p] = "join"]
  /\ sig' = Signalled(p, "kill")
  /\ UNCHANGED <<cancelled, spawn, os, exitErr, procVars, processes, sweepVars>>

StopReturn(c, p) ==
  /\ stop[c][p] \in {"select", "join"}
  /\ Done(p)
  /\ stop' = [stop EXCEPT ![c][p] = "returned"]
  /\ UNCHANGED <<cancelled, spawn, childVars, procVars, processes, sweepVars>>

-----------------------------------------------------------------------------
(* StopAll: copy the list, stop every child of the copy, wait for all. *)

SweepBegin ==
  /\ sweep = "idle"
  /\ sweep' = "sweeping"
  /\ snapshot' = processes
  /\ UNCHANGED <<cancelled, spawn, childVars, procVars, processes, stop>>

\* Mutant: the goroutines are started and not waited for.
MutSwept == \A p \in snapshot : stop[Sweeper][p] # "idle"

\* wg.Wait
Swept == \A p \in snapshot : stop[Sweeper][p] = "returned"

\* Stop never returns an error, so neither does StopAll.
SweepEnd ==
  /\ sweep = "sweeping"
  /\ Swept
  /\ sweep' = "returned"
  /\ UNCHANGED <<cancelled, spawn, childVars, procVars, processes, stop, snapshot>>

-----------------------------------------------------------------------------

SpawnNext(p) == SpawnCheck(p) \/ SpawnFork(p) \/ SpawnMark(p) \/ SpawnAdd(p)
                \/ SpawnReturn(p)
ReaperNext(p) == Reap(p) \/ Record(p) \/ CloseDone(p)
StopNext(c, p) == StopEnter(c, p) \/ StopTerm(c, p) \/ StopKill(c, p)
                  \/ StopReturn(c, p)

Next == \/ Cancel \/ SweepBegin \/ SweepEnd
        \/ \E p \in Procs : \/ SpawnNext(p) \/ Exit(p) \/ ReaperNext(p)
                            \/ \E c \in Callers : StopNext(c, p)

Spec == Init /\ [][Next]_vars

(* Goroutines are scheduled, the kernel completes a SIGKILL, and the 5 s   *)
(* timer of a Stop fires.  Nobody is obliged to call Spawn, Stop or        *)
(* StopAll, nor a child to exit by itself or on SIGTERM.                   *)
StopProgress(c, p) == \/ /\ c = Sweeper /\ StopEnter(c, p)
                      \/ StopTerm(c, p) \/ StopKill(c, p) \/ StopReturn(c, p)
Fairness ==
  /\ WF_vars(SweepEnd)
  /\ \A p \in Procs :
       /\ WF_vars(SpawnFork(p)) /\ WF_vars(SpawnMark(p))
       /\ WF_vars(SpawnAdd(p)) /\ WF_vars(SpawnReturn(p))
       /\ WF_vars(Reap(p)) /\ WF_vars(Record(p)) /\ WF_vars(CloseDone(p))
       /\ WF_vars(sig[p] = "kill" /\ Exit(p))
       /\ \A c \in Callers : WF_vars(StopProgress(c, p))

FairSpec == Spec /\ Fairness

-----------------------------------------------------------------------------
(* Properties *)

\* The variables range over the values of the code's fields and positions.
TypeOK ==
  /\ cancelled \in BOOLEAN
  /\ spawn \in [Procs -> SpawnSteps]
  /\ os \in [Procs -> {"none", "alive", "dead", "reaped"}]
  /\ sig \in [Procs -> {"none", "term", "kill"}]
  /\ exitErr \in [Procs -> BOOLEAN]
  /\ state \in [Procs -> {"starting", "running", "stopped", "failed"}]
  /\ wait \in [Procs -> BOOLEAN]
  /\ reaper \in [Procs -> ReaperSteps]
  /\ processes \in SUBSET Procs
  /\ stop \in [Callers -> [Procs -> StopSteps]]
  /\ sweep \in {"idle", "sweeping", "returned"}
  /\ snapshot \in SUBSET Procs

\* Every Stop call, also one that lost the race for the process to another
\* Stop or to the reaper, returns only after the child was reaped (the
\* `<-p.done` of shutdown.go:21 and :44), so its ports and files are free.
StopJoinsExit ==
  \A c \in Callers, p \in Procs :
    stop[c][p] = "returned" => os[p] = "reaped"

\* At most one of the concurrent Stop calls of a process signals it, and no
\* signal is sent to a process that was not first marked stopped.
SingleSignaller ==
  \A p \in Procs :
    /\ \A c, d \in Callers :
         stop[c][p] \in {"term", "select"} /\ stop[d][p] \in {"term", "select"}
           => c = d
    /\ sig[p] # "none" => state[p] = "stopped"

\* A process that failed did so by itself: a child that answers the SIGTERM
\* of Stop with an error status is reported stopped, and Wait's error agrees
\* with State() when it says failed.
FailureIsUnasked ==
  \A p \in Procs : state[p] = "failed" => sig[p] = "none" /\ wait[p]

\* The verdict of a process is never revised: neither by a Stop that comes
\* after the exit nor by a reaper that comes after the Stop.
VerdictFinal ==
  [][\A p \in Procs : state[p] \in {"stopped", "failed"}
                          => state'[p] = state[p]]_vars

\* When StopAll returns every child of its snapshot has been reaped.
SweepReapsSnapshot ==
  sweep = "returned" => \A p \in snapshot : os[p] = "reaped"

\* ROADMAP 3.1.4: "Kill all children on exit".
ChildrenKilledOnExit ==
  sweep = "returned" => \A p \in Procs : os[p] # "alive"

\* StopAll returns, and with it the Stop of each child of its snapshot, whatever
\* Spawn, other Stops and the children do meanwhile, also if a child ignores
\* SIGTERM and whichever Stop owns its termination.
SweepTerminates == sweep = "sweeping" ~> sweep = "returned"

\* The manager keeps the promises of ProcessContract.
Contract == INSTANCE ProcessContract WITH
  phase  <- state,
  gone   <- {p \in Procs : Done(p)},
  served <- {cp \in Callers \X Procs : stop[cp[1]][cp[2]] = "returned"}

ImplementsContract == Contract!Spec
=============================================================================
