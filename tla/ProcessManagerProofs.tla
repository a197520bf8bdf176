------------------------ MODULE ProcessManagerProofs ------------------------
(***************************************************************************)
(* What holds of ProcessManager for any number of children and of          *)
(* concurrent callers: its safety properties, by one inductive invariant,  *)
(* and that it implements ProcessContract.                                 *)
(***************************************************************************)
EXTENDS ProcessManager, TLAPS

Ended == {"stopped", "failed"}

\* Where Spawn is tells what exists: the child once forked, the state once
\* marked, the entry of the list once added, the reaper once returned.
SpawnShape(p) ==
  /\ os[p] = "none" <=> spawn[p] \in {"idle", "checked", "refused"}
  /\ state[p] = "starting" <=> spawn[p] \notin {"marked", "added", "returned"}
  /\ p \in processes <=> spawn[p] \in {"added", "returned"}
  /\ reaper[p] = "none" <=> spawn[p] # "returned"

\* The reaper reaps before it records and records before it closes done;
\* only its record says failed.
ReaperShape(p) ==
  /\ os[p] = "reaped" <=> reaper[p] \in {"waited", "recorded", "closed"}
  /\ reaper[p] \in {"recorded", "closed"} => state[p] \in Ended
  /\ state[p] = "failed" => /\ reaper[p] \in {"recorded", "closed"}
                            /\ wait[p]

\* A Stop that terminates the child has marked it, and nobody else signals.
SignalShape(p) == sig[p] # "none" => state[p] = "stopped"

Owns(c, p) == stop[c][p] \in {"term", "select"}

StopShape(c, p) ==
  /\ Owns(c, p) => state[p] = "stopped"
  /\ \A d \in Callers : Owns(c, p) /\ Owns(d, p) => c = d
  /\ stop[c][p] = "returned" => Done(p)

SweepShape ==
  sweep = "returned" => \A p \in snapshot : stop[Sweeper][p] = "returned"

ChildInv == \A p \in Procs : SpawnShape(p) /\ ReaperShape(p) /\ SignalShape(p)
StopInv  == \A c \in Callers, p \in Procs : StopShape(c, p)

\* The inductive invariant.
Inv == TypeOK /\ ChildInv /\ StopInv /\ SweepShape

-----------------------------------------------------------------------------

\* The sets of positions are spelt out wherever a type is needed.
USE DEF SpawnSteps, ReaperSteps, StopSteps

\* Before any call every child is unborn, every caller idle, StopAll not begun.
LEMMA InitInv == Init => Inv
<1> SUFFICES ASSUME Init PROVE Inv
  OBVIOUS
<1>1. TypeOK
  BY DEF Init, TypeOK
<1>2. ChildInv
  BY DEF Init, ChildInv, SpawnShape, ReaperShape, SignalShape
<1>3. StopInv
  BY DEF Init, StopInv, StopShape, Owns
<1>4. SweepShape
  BY DEF Init, SweepShape
<1> QED
  BY <1>1, <1>2, <1>3, <1>4 DEF Inv

\* Types: the fields of the code only ever hold the values of their enumerations.
LEMMA TypeStep == TypeOK /\ [Next]_vars => TypeOK'
<1> SUFFICES ASSUME TypeOK, [Next]_vars PROVE TypeOK'
  OBVIOUS
<1> USE DEF TypeOK, childVars, procVars, sweepVars
<1>1. ASSUME Cancel \/ SweepBegin \/ SweepEnd PROVE TypeOK'
  BY <1>1 DEF Cancel, SweepBegin, SweepEnd
<1>2. ASSUME NEW p \in Procs, SpawnNext(p) PROVE TypeOK'
  BY <1>2 DEF SpawnNext, SpawnCheck, SpawnFork, SpawnMark, SpawnAdd, SpawnReturn
<1>3. ASSUME NEW p \in Procs, Exit(p) PROVE TypeOK'
  BY <1>3 DEF Exit
<1>4. ASSUME NEW p \in Procs, ReaperNext(p) PROVE TypeOK'
  BY <1>4 DEF ReaperNext, Reap, Record, CloseDone, Verdict
<1>5. ASSUME NEW p \in Procs, NEW c \in Callers, StopNext(c, p) PROVE TypeOK'
  <2>1. CASE StopEnter(c, p)
    BY <2>1 DEF StopEnter, Claimed
  <2>2. CASE StopTerm(c, p)
    BY <2>2 DEF StopTerm, Signalled
  <2>3. CASE StopKill(c, p)
    BY <2>3 DEF StopKill, Signalled
  <2>4. CASE StopReturn(c, p)
    BY <2>4 DEF StopReturn
  <2> QED
    BY <1>5, <2>1, <2>2, <2>3, <2>4 DEF StopNext
<1>6. CASE UNCHANGED vars
  BY <1>6 DEF vars
<1> QED
  BY <1>1, <1>2, <1>3, <1>4, <1>5, <1>6 DEF Next


\* The steps of a child's Spawn, of the kernel and of its reaper, and those of
\* a Stop, keep each child's own record straight.
LEMMA ChildStep == Inv /\ [Next]_vars => ChildInv'
<1> SUFFICES ASSUME Inv, [Next]_vars PROVE ChildInv'
  OBVIOUS
<1>1. TypeOK /\ ChildInv /\ StopInv
  BY DEF Inv
<1> USE <1>1 DEF TypeOK, ChildInv, SpawnShape, ReaperShape, SignalShape, Ended,
            childVars, procVars, sweepVars
<1>2. ASSUME Cancel \/ SweepBegin \/ SweepEnd PROVE ChildInv'
  BY <1>2 DEF Cancel, SweepBegin, SweepEnd
<1>3. ASSUME NEW p \in Procs, SpawnNext(p) PROVE ChildInv'
  BY <1>3 DEF SpawnNext, SpawnCheck, SpawnFork, SpawnMark, SpawnAdd, SpawnReturn
<1>4. ASSUME NEW p \in Procs, Exit(p) PROVE ChildInv'
  BY <1>4 DEF Exit
<1>5. ASSUME NEW p \in Procs, ReaperNext(p) PROVE ChildInv'
  BY <1>5 DEF ReaperNext, Reap, Record, CloseDone, Verdict
<1>6. ASSUME NEW p \in Procs, NEW c \in Callers, StopNext(c, p) PROVE ChildInv'
  <2>1. CASE StopEnter(c, p)
    BY <2>1 DEF StopEnter, Claimed
  <2>2. CASE StopTerm(c, p) \/ StopKill(c, p)
    \* Only an owner signals, and what it owns is marked stopped.
    <3>1. state[p] = "stopped"
      BY <2>2 DEF StopInv, StopShape, Owns, StopTerm, StopKill
    <3> QED
      BY <2>2, <3>1 DEF StopTerm, StopKill, Signalled
  <2>3. CASE StopReturn(c, p)
    BY <2>3 DEF StopReturn
  <2> QED
    BY <1>6, <2>1, <2>2, <2>3 DEF StopNext
<1>7. CASE UNCHANGED vars
  BY <1>7 DEF vars
<1> QED
  BY <1>2, <1>3, <1>4, <1>5, <1>6, <1>7 DEF Next

\* A verdict, once in, stays: the two writers of state test it first.
LEMMA VerdictStep ==
  ASSUME Inv, [Next]_vars, NEW p \in Procs, state[p] \in Ended
  PROVE  state'[p] = state[p]
<1>1. TypeOK /\ SpawnShape(p)
  BY DEF Inv, ChildInv
<1> USE <1>1 DEF TypeOK, SpawnShape, Ended, childVars, procVars, sweepVars
<1>2. ASSUME NEW q \in Procs, SpawnNext(q) PROVE state'[p] = state[p]
  BY <1>2 DEF SpawnNext, SpawnCheck, SpawnFork, SpawnMark, SpawnAdd, SpawnReturn
<1>3. ASSUME NEW q \in Procs, ReaperNext(q) PROVE state'[p] = state[p]
  BY <1>3 DEF ReaperNext, Reap, Record, CloseDone, Verdict
<1>4. ASSUME NEW q \in Procs, NEW c \in Callers, StopNext(c, q)
      PROVE  state'[p] = state[p]
  BY <1>4 DEF StopNext, StopEnter, StopTerm, StopKill, StopReturn, Claimed
<1>5. ASSUME UNCHANGED state PROVE state'[p] = state[p]
  BY <1>5
<1> QED
  BY <1>2, <1>3, <1>4, <1>5
     DEF Next, Cancel, SweepBegin, SweepEnd, Exit, vars

\* The channel done, once closed, is never reopened: no step takes the reaper
\* back from its end.
LEMMA DoneStays ==
  ASSUME Inv, [Next]_vars, NEW p \in Procs, Done(p)
  PROVE  Done(p)'
<1>1. reaper[p] = "closed" /\ reaper \in [Procs -> ReaperSteps]
      /\ spawn[p] = "returned"
  BY DEF Inv, TypeOK, ChildInv, SpawnShape, Done
<1>2. ASSUME NEW q \in Procs, SpawnNext(q) PROVE Done(p)'
  BY <1>1, <1>2 DEF SpawnNext, SpawnCheck, SpawnFork, SpawnMark, SpawnAdd,
                    SpawnReturn, procVars, Done
<1>3. ASSUME NEW q \in Procs, ReaperNext(q) PROVE Done(p)'
  BY <1>1, <1>3 DEF ReaperNext, Reap, Record, CloseDone, Done
<1>4. ASSUME NEW q \in Procs, NEW c \in Callers, StopNext(c, q) PROVE Done(p)'
  BY <1>1, <1>4 DEF StopNext, StopEnter, StopTerm, StopKill, StopReturn, procVars,
                    Done
<1>5. ASSUME UNCHANGED reaper PROVE Done(p)'
  BY <1>1, <1>5 DEF Done
<1> QED
  BY <1>2, <1>3, <1>4, <1>5
     DEF Next, Cancel, SweepBegin, SweepEnd, Exit, vars, procVars

\* One step of a Stop moves that Stop alone: to the ownership of a process it
\* found running and marks, or out of it, or to its end once done is closed.
LEMMA StopMoves ==
  ASSUME TypeOK, NEW c \in Callers, NEW p \in Procs, StopNext(c, p)
  PROVE  /\ \A d \in Callers, q \in Procs :
              <<d, q>> # <<c, p>> => stop'[d][q] = stop[d][q]
         /\ stop'[c][p] \in {"term", "select"} =>
              \/ stop[c][p] \in {"term", "select"}
              \/ state[p] = "running" /\ state'[p] = "stopped"
         /\ stop'[c][p] = "returned" => Done(p)
<1> USE DEF TypeOK
<1>1. CASE StopEnter(c, p)
  BY <1>1 DEF StopEnter, Claimed
<1>2. CASE StopTerm(c, p)
  BY <1>2 DEF StopTerm
<1>3. CASE StopKill(c, p)
  BY <1>3 DEF StopKill
<1>4. CASE StopReturn(c, p)
  BY <1>4 DEF StopReturn
<1> QED
  BY <1>1, <1>2, <1>3, <1>4 DEF StopNext

\* A caller that becomes the owner found the process running, hence unowned;
\* it leaves only when the reaper has closed done, which is for good.
LEMMA StopStep == Inv /\ [Next]_vars => StopInv'
<1> SUFFICES ASSUME Inv, [Next]_vars, NEW c \in Callers, NEW p \in Procs
             PROVE  StopShape(c, p)'
  BY DEF StopInv
<1>1. TypeOK /\ TypeOK' /\ SpawnShape(p) /\ \A d \in Callers : StopShape(d, p)
  BY TypeStep DEF Inv, ChildInv, StopInv
<1>2. state[p] = "stopped" => state'[p] = "stopped"
  BY VerdictStep DEF Ended
<1>3. Done(p) => Done(p)'
  BY DoneStays
<1>4. ASSUME NEW e \in Callers, NEW q \in Procs, StopNext(e, q)
      PROVE  StopShape(c, p)'
  <2>1. CASE q # p
    <3>1. \A d \in Callers : stop'[d][p] = stop[d][p]
      BY <1>1, <1>4, <2>1, StopMoves
    <3> QED
      BY <1>1, <1>2, <1>3, <3>1 DEF StopShape, Owns
  <2>2. CASE q = p
    <3>1. \A d \in Callers \ {e} : stop'[d][p] = stop[d][p]
      BY <1>1, <1>4, StopMoves
    <3>2. Owns(e, p)' => Owns(e, p) \/ (state[p] = "running" /\ state'[p] = "stopped")
      BY <1>1, <1>4, <2>2, StopMoves DEF Owns
    <3>3. stop'[e][p] = "returned" => Done(p)
      BY <1>1, <1>4, <2>2, StopMoves
    <3> QED
      BY <1>1, <1>2, <1>3, <3>1, <3>2, <3>3 DEF StopShape, Owns
  <2> QED
    BY <2>1, <2>2
<1>5. ASSUME UNCHANGED stop PROVE StopShape(c, p)'
  BY <1>1, <1>2, <1>3, <1>5 DEF StopShape, Owns
<1> QED
  BY <1>4, <1>5 DEF Next, vars, Cancel, SweepBegin, SweepEnd, SpawnNext,
     SpawnCheck, SpawnFork, SpawnMark, SpawnAdd, SpawnReturn, Exit, ReaperNext,
     Reap, Record, CloseDone

\* The snapshot is fixed once taken, and a Stop that has returned stays so.
LEMMA SweepStep == Inv /\ [Next]_vars => SweepShape'
<1> SUFFICES ASSUME Inv, [Next]_vars PROVE SweepShape'
  OBVIOUS
<1> USE DEF Inv, TypeOK, SweepShape, childVars, procVars, sweepVars
<1>1. ASSUME Cancel \/ SweepBegin \/ SweepEnd PROVE SweepShape'
  BY <1>1 DEF Cancel, SweepBegin, SweepEnd, Swept
<1>2. ASSUME NEW p \in Procs, NEW c \in Callers, StopNext(c, p) PROVE SweepShape'
  <2>1. ASSUME NEW q \in Procs, stop[Sweeper][q] = "returned"
        PROVE  stop'[Sweeper][q] = "returned"
    BY <1>2, <2>1 DEF Callers, StopNext, StopEnter, StopTerm, StopKill, StopReturn
  <2>2. UNCHANGED sweepVars
    BY <1>2 DEF StopNext, StopEnter, StopTerm, StopKill, StopReturn
  <2> QED
    BY <2>1, <2>2
<1>3. ASSUME UNCHANGED <<stop, sweepVars>> PROVE SweepShape'
  BY <1>3
<1> QED
  BY <1>1, <1>2, <1>3 DEF Next, vars, SpawnNext, SpawnCheck, SpawnFork,
     SpawnMark, SpawnAdd, SpawnReturn, Exit, ReaperNext, Reap, Record, CloseDone

\* The invariant holds in every state the manager reaches.
THEOREM Invariance == Spec => []Inv
<1>1. Inv /\ [Next]_vars => Inv'
  BY TypeStep, ChildStep, StopStep, SweepStep DEF Inv
<1> QED
  BY InitInv, <1>1, PTL DEF Spec

-----------------------------------------------------------------------------
(* What it gives. *)

\* Type correctness: every field keeps to its enumeration.
THEOREM TypeCorrect == Spec => []TypeOK
  BY Invariance, PTL DEF Inv

\* Every Stop, whoever owns the termination, joins the exit of the child.
THEOREM StopJoins == Spec => []StopJoinsExit
<1>1. Inv => StopJoinsExit
  BY DEF Inv, ChildInv, StopInv, ReaperShape, StopShape, Done, StopJoinsExit
<1> QED
  BY Invariance, <1>1, PTL

\* Of any number of concurrent Stops of a process, one signals it.
THEOREM OneSignaller == Spec => []SingleSignaller
<1>1. Inv => SingleSignaller
  BY DEF Inv, ChildInv, StopInv, SignalShape, StopShape, Owns, SingleSignaller
<1> QED
  BY Invariance, <1>1, PTL

\* A child that was signalled is never reported failed.
THEOREM FailuresUnasked == Spec => []FailureIsUnasked
<1>1. Inv => FailureIsUnasked
  BY DEF Inv, TypeOK, ChildInv, ReaperShape, SignalShape, FailureIsUnasked
<1> QED
  BY Invariance, <1>1, PTL

\* StopAll returns when every child of its copy of the list is reaped.
THEOREM SweepReaps == Spec => []SweepReapsSnapshot
<1>1. Inv => SweepReapsSnapshot
  BY DEF Inv, TypeOK, ChildInv, StopInv, ReaperShape, StopShape, SweepShape, Done,
         Callers, SweepReapsSnapshot
<1> QED
  BY Invariance, <1>1, PTL

\* No Stop and no reaper revises a verdict.
THEOREM VerdictsFinal == Spec => VerdictFinal
<1>1. Inv /\ [Next]_vars =>
        [\A p \in Procs : state[p] \in {"stopped", "failed"}
                              => state'[p] = state[p]]_vars
  BY VerdictStep DEF Ended
<1> QED
  BY Invariance, <1>1, PTL DEF Spec, VerdictFinal

-----------------------------------------------------------------------------
(* The manager implements ProcessContract. *)

\* A manager nobody has called is a contract under which nothing happened.
LEMMA ContractInit == Init => Contract!Init
  BY DEF Init, Contract!Init, Done

\* Every step of the manager is one of the contract's, or is invisible to it.
LEMMA ContractStep == Inv /\ [Next]_vars => [Contract!Next]_Contract!vars
<1> SUFFICES ASSUME Inv, [Next]_vars
             PROVE  Contract!Next \/ UNCHANGED Contract!vars
  OBVIOUS
<1> USE DEF childVars, procVars, sweepVars
<1>1. TypeOK /\ ChildInv
  BY DEF Inv
<1>2. ASSUME UNCHANGED <<state, reaper, stop>> PROVE UNCHANGED Contract!vars
  BY <1>2 DEF Contract!vars, Done
<1>3. ASSUME NEW p \in Procs, SpawnNext(p)
      PROVE  Contract!Next \/ UNCHANGED Contract!vars
  <2>1. CASE SpawnMark(p)
    <3>1. Contract!Launch(p)
      BY <1>1, <2>1 DEF SpawnMark, ChildInv, SpawnShape, Contract!Launch, Done
    <3> QED
      BY <3>1 DEF Contract!Next
  <2>2. CASE SpawnReturn(p)
    <3>1. {q \in Procs : Done(q)}' = {q \in Procs : Done(q)}
      BY <1>1, <2>2 DEF SpawnReturn, Done, TypeOK, ChildInv, SpawnShape
    <3> QED
      BY <2>2, <3>1 DEF SpawnReturn, Contract!vars
  <2> QED
    BY <1>2, <1>3, <2>1, <2>2 DEF SpawnNext, SpawnCheck, SpawnFork, SpawnAdd
<1>4. ASSUME NEW p \in Procs, ReaperNext(p)
      PROVE  Contract!Next \/ UNCHANGED Contract!vars
  <2>1. ASSUME Reap(p) \/ Record(p)
        PROVE  {q \in Procs : Done(q)}' = {q \in Procs : Done(q)}
    BY <1>1, <2>1 DEF Reap, Record, Done, TypeOK
  <2>2. CASE Reap(p)
    BY <2>1, <2>2 DEF Reap, Contract!vars
  <2>3. CASE Record(p) /\ state[p] = "running"
    <3>1. Contract!Decide(p)
      BY <1>1, <2>1, <2>3 DEF Record, Verdict, TypeOK, Contract!Decide,
                              Contract!Verdicts
    <3> QED
      BY <3>1 DEF Contract!Next
  <2>4. CASE Record(p) /\ state[p] # "running"
    <3>1. state' = state
      BY <1>1, <2>4 DEF Record, Verdict, TypeOK
    <3> QED
      BY <2>1, <2>4, <3>1 DEF Record, Contract!vars
  <2>5. CASE CloseDone(p)
    <3>1. {q \in Procs : Done(q)}' = {q \in Procs : Done(q)} \cup {p}
      BY <1>1, <2>5 DEF CloseDone, Done, TypeOK
    <3>2. Contract!Announce(p)
      BY <1>1, <2>5, <3>1 DEF CloseDone, ChildInv, ReaperShape, Ended,
                              Contract!Announce, Contract!Verdicts
    <3> QED
      BY <3>2 DEF Contract!Next
  <2> QED
    BY <1>4, <2>2, <2>3, <2>4, <2>5 DEF ReaperNext
<1>5. ASSUME NEW p \in Procs, NEW c \in Callers, StopNext(c, p)
      PROVE  Contract!Next \/ UNCHANGED Contract!vars
  <2> DEFINE Served == {cp \in Callers \X Procs : stop[cp[1]][cp[2]] = "returned"}
  <2>1. CASE StopReturn(c, p)
    <3>1. Served' = Served \cup {<<c, p>>}
      BY <1>1, <2>1 DEF StopReturn, TypeOK
    <3>2. Contract!Serve(c, p)
      BY <2>1, <3>1 DEF StopReturn, Done, Contract!Serve
    <3> QED
      BY <3>2 DEF Contract!Next
  <2>2. CASE StopEnter(c, p) \/ StopTerm(c, p) \/ StopKill(c, p)
    <3>1. Served' = Served
      BY <1>1, <2>2 DEF StopEnter, StopTerm, StopKill, TypeOK
    <3>2. CASE StopEnter(c, p) /\ state[p] = "running"
      <4>1. Contract!Decide(p)
        BY <3>1, <3>2 DEF StopEnter, Claimed, Done, Contract!Decide,
                          Contract!Verdicts
      <4> QED
        BY <4>1 DEF Contract!Next
    <3>3. CASE ~(StopEnter(c, p) /\ state[p] = "running")
      BY <2>2, <3>1, <3>3 DEF StopEnter, StopTerm, StopKill, Done, Contract!vars
    <3> QED
      BY <3>2, <3>3
  <2> QED
    BY <1>5, <2>1, <2>2 DEF StopNext
<1> QED
  BY <1>2, <1>3, <1>4, <1>5 DEF Next, vars, Cancel, SweepBegin, SweepEnd, Exit

\* Callers of internal/process may rely on ProcessContract alone.
THEOREM ContractHolds == Spec => ImplementsContract
  BY Invariance, ContractInit, ContractStep, PTL
     DEF Spec, ImplementsContract, Contract!Spec
=============================================================================
