-------------------------- MODULE ProcessContract --------------------------
(***************************************************************************)
(* What internal/process promises the rest of SPLITTER about each child    *)
(* process, free of goroutines, locks, signals and channels:               *)
(*   - a child runs, then reaches one verdict, "stopped" or "failed", that *)
(*     is never revised;                                                   *)
(*   - a stop request that finds the child running decides the verdict,    *)
(*     whatever exit status the child reports afterwards;                  *)
(*   - a stop call returns only when the child is gone.                    *)
(***************************************************************************)

CONSTANTS Procs,    \* the child processes
          Callers   \* those who may ask for a child to be stopped

VARIABLES phase,    \* what State() answers for each child
          gone,     \* the children whose exit has been announced
          served    \* the stop calls, <<caller, child>>, that have returned

vars == <<phase, gone, served>>

Verdicts == {"stopped", "failed"}

Init == /\ phase = [p \in Procs |-> "starting"]
        /\ gone = {}
        /\ served = {}

Launch(p) == /\ phase[p] = "starting"
             /\ phase' = [phase EXCEPT ![p] = "running"]
             /\ UNCHANGED <<gone, served>>

\* A running child gets its verdict: asked to stop, or exited by itself.
Decide(p) == /\ phase[p] = "running"
             /\ \E v \in Verdicts : phase' = [phase EXCEPT ![p] = v]
             /\ UNCHANGED <<gone, served>>

\* The exit is announced once the verdict is in.
Announce(p) == /\ phase[p] \in Verdicts
               /\ gone' = gone \cup {p}
               /\ UNCHANGED <<phase, served>>

Serve(c, p) == /\ p \in gone
               /\ served' = served \cup {<<c, p>>}
               /\ UNCHANGED <<phase, gone>>

Next == \E p \in Procs : \/ Launch(p)
                         \/ Decide(p)
                         \/ Announce(p)
                         \/ \E c \in Callers : Serve(c, p)

Spec == Init /\ [][Next]_vars
=============================================================================
