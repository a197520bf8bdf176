----------------------- MODULE CountryRotationProofs -----------------------
(***************************************************************************)
(* Proofs about CountryRotation, for any finite set of instances and any   *)
(* configurations: the copies a cycle works on (of the instances and of    *)
(* the configuration) do not mislead it, however often a reload replaces   *)
(* the configuration, and Stop ends it.                                    *)
(***************************************************************************)
EXTENDS CountryRotation, FiniteSetTheorems, TLAPS

InCycle == pc \in {"next", "stopped"}

\* The instances the cycle has moved, and those it may still move.
Moved == {i \in Instances : country[i] # instances[i]}
Left  == {i \in Instances : i \in todo \/ (pc = "stopped" /\ i = pick.id)}

\* The copy of the instances is exact when the cycle begins, and stays so for
\* the instances whose turn has not come.
Copy ==
  /\ pc = "config" => instances = country
  /\ InCycle => \A i \in Left : country[i] = instances[i]

\* The rotation under way was decided on that copy, for an instance that has
\* no other turn.
Decision ==
  pc = "stopped" => /\ pick \in [id : Instances, to : Countries]
                    /\ pick.to \in Candidates(instances[pick.id], taken)
                    /\ pick.id \notin todo

\* What was moved and what may be moved are together within the budget.
Within == InCycle => Cardinality(Moved \cup Left) <= taken.total

\* A Stop that has begun finds a daemon that was started, and one that has
\* returned has seen its channel closed.
Stopped ==
  /\ stopping # "idle" => started # "no"
  /\ stopping = "returned" => pc = "done"

IInv == TypeOK /\ Copy /\ Decision /\ Within /\ Stopped

\* A country that a configuration allows is a country.
LEMMA AllowedCountries ==
  ASSUME NEW c \in Configs PROVE Allowed(c) \subseteq Countries /\ c.total \in Int
  BY RotationAssumption DEF Allowed

LEMMA Initial == Init => IInv
<1> SUFFICES ASSUME Init PROVE IInv
  OBVIOUS
<1>1. country \in [Instances -> Countries]
  BY AllowedCountries DEF Init
<1>2. TypeOK
  BY <1>1 DEF Init, TypeOK, NoPick
<1>3. Copy /\ Decision /\ Within /\ Stopped
  BY DEF Init, Copy, Decision, Within, Stopped, InCycle
<1> QED
  BY <1>2, <1>3 DEF IInv

\* A set of instances inside another has no more members.
LEMMA Fewer ==
  ASSUME NEW S \in SUBSET Instances, NEW T \in SUBSET S
  PROVE  /\ Cardinality(T) \in Nat /\ Cardinality(S) \in Nat
         /\ Cardinality(T) <= Cardinality(S)
<1>1. IsFiniteSet(S)
  BY FS_Subset, RotationAssumption
<1>2. IsFiniteSet(T) /\ Cardinality(T) <= Cardinality(S)
  BY <1>1, FS_Subset
<1> QED
  BY <1>1, <1>2, FS_CardinalityType

\* Once a cycle is under way, a step that moves or may move no further
\* instance stays within its budget.
LEMMA StaysWithin ==
  ASSUME IInv, InCycle, InCycle' => (Moved \cup Left)' \subseteq Moved \cup Left,
         taken' = taken
  PROVE  Within'
<1>1. Moved \cup Left \in SUBSET Instances
  BY DEF Moved, Left
<1>2. taken.total \in Int
  BY AllowedCountries DEF IInv, TypeOK
<1>3. ASSUME InCycle' PROVE Cardinality((Moved \cup Left)') <= taken.total
  BY <1>1, <1>2, <1>3, Fewer DEF IInv, Within
<1> QED
  BY <1>3 DEF Within

\* The configuration of the cycle and the instances it may move are chosen.
LEMMA TakeConfigStep == IInv /\ TakeConfig => IInv'
<1> SUFFICES ASSUME IInv, TakeConfig PROVE IInv'
  OBVIOUS
<1> USE DEF IInv
<1>1. CASE cfg.total <= 0
  BY <1>1 DEF TakeConfig, TypeOK, Copy, Decision, Within, Stopped, InCycle
<1>2. CASE ~(cfg.total <= 0)
  <2>1. PICK S \in SUBSET Instances : Cardinality(S) = Budget(cfg) /\ todo' = S
    BY <1>2 DEF TakeConfig
  <2>2. pc' = "next" /\ pc = "config" /\ taken' = cfg
        /\ UNCHANGED <<cfg, country, started, cancelled, instances, pick, stopping>>
    BY <1>2 DEF TakeConfig
  <2>3. country' = instances'
    BY <2>2 DEF Copy
  <2>4. TypeOK'
    BY <2>1, <2>2 DEF TypeOK
  <2>5. Moved' = {} /\ Left' = S
    BY <2>1, <2>2, <2>3 DEF Moved, Left
  <2>6. Cardinality(S) <= cfg.total
    <3>1. cfg.total \in Int /\ Cardinality(Instances) \in Nat
      BY AllowedCountries, FS_CardinalityType, RotationAssumption DEF TypeOK
    <3> QED
      BY <2>1, <3>1 DEF Budget
  <2>7. Within'
    <3>1. (Moved \cup Left)' = S
      BY <2>5
    <3> QED
      BY <2>2, <2>6, <3>1 DEF Within
  <2>8. Copy' /\ Decision' /\ Stopped'
    BY <2>2, <2>3 DEF Copy, Decision, Stopped
  <2> QED
    BY <2>4, <2>7, <2>8
<1> QED
  BY <1>1, <1>2

\* One turn of the loop takes its instance from those left.
LEMMA PickNextStep == IInv /\ PickNext => IInv'
<1> SUFFICES ASSUME IInv, PickNext PROVE IInv'
  OBVIOUS
<1> USE DEF IInv
<1>1. PICK i \in todo :
        /\ todo' = todo \ {i}
        /\ IF Candidates(instances[i], taken) = {}
           THEN UNCHANGED <<pc, pick>>
           ELSE /\ \E c \in Candidates(instances[i], taken) :
                     pick' = [id |-> i, to |-> c]
                /\ pc' = "stopped"
  BY DEF PickNext
<1>2. pc = "next" /\ i \in Instances
      /\ UNCHANGED <<cfg, country, started, cancelled, instances, taken, stopping>>
  BY <1>1 DEF PickNext, TypeOK
<1>3. CASE Candidates(instances[i], taken) = {}
  <2>1. UNCHANGED <<pc, pick>>
    BY <1>1, <1>3
  <2>2. TypeOK' /\ Decision' /\ Stopped'
    BY <1>1, <1>2, <2>1 DEF TypeOK, Decision, Stopped
  <2>3. Left' \subseteq Left /\ Moved' = Moved
    BY <1>1, <1>2, <2>1 DEF Left, Moved
  <2>4. Copy'
    BY <1>2, <2>1, <2>3 DEF Copy, InCycle
  <2>5. Within'
    BY <1>2, <2>3, StaysWithin DEF InCycle
  <2> QED
    BY <2>2, <2>4, <2>5
<1>4. CASE Candidates(instances[i], taken) # {}
  <2>1. PICK c \in Candidates(instances[i], taken) : pick' = [id |-> i, to |-> c]
    BY <1>1, <1>4
  <2>2. pc' = "stopped"
    BY <1>1, <1>4
  <2>3. c \in Countries
    BY AllowedCountries DEF Candidates, TypeOK
  <2>4. TypeOK'
    BY <1>1, <1>2, <2>1, <2>2, <2>3 DEF TypeOK
  <2>5. Decision'
    BY <1>1, <1>2, <2>1, <2>2, <2>3 DEF Decision, Candidates
  <2>6. Left' \subseteq Left /\ Moved' = Moved
    BY <1>1, <1>2, <2>1, <2>2 DEF Left, Moved
  <2>7. Copy'
    BY <1>2, <2>2, <2>6 DEF Copy, InCycle
  <2>8. Within'
    BY <1>2, <2>6, StaysWithin DEF InCycle
  <2>9. Stopped'
    BY <1>2, <2>2 DEF Stopped
  <2> QED
    BY <2>4, <2>5, <2>7, <2>8, <2>9
<1> QED
  BY <1>3, <1>4

\* The rotation moves only the instance that was picked.
LEMMA RotateStep == IInv /\ RotateInstance => IInv'
<1> SUFFICES ASSUME IInv, RotateInstance PROVE IInv'
  OBVIOUS
<1> USE DEF IInv
<1>1. pc = "stopped" /\ pc' = "next" /\ pick' = NoPick
      /\ country' = [country EXCEPT ![pick.id] = pick.to]
      /\ UNCHANGED <<cfg, started, cancelled, instances, taken, todo, stopping>>
  BY DEF RotateInstance
<1>2. pick.id \in Instances /\ pick.to \in Countries /\ pick.id \notin todo
  BY <1>1 DEF Decision
<1>3. TypeOK'
  BY <1>1, <1>2 DEF TypeOK
<1>4. Left' = todo /\ todo \subseteq Left /\ todo \subseteq Instances
  BY <1>1 DEF Left, TypeOK
<1>5. \A i \in Instances : i # pick.id => country'[i] = country[i]
  BY <1>1 DEF TypeOK
<1>6. (Moved \cup Left)' \subseteq Moved \cup Left
  BY <1>1, <1>4, <1>5 DEF Moved, Left
<1>7. Copy'
  BY <1>1, <1>2, <1>4, <1>5 DEF Copy, InCycle
<1>8. Within'
  BY <1>1, <1>6, StaysWithin DEF InCycle
<1>9. Decision' /\ Stopped'
  BY <1>1 DEF Decision, Stopped
<1> QED
  BY <1>3, <1>7, <1>8, <1>9

\* The other steps do not touch what a cycle works on: none takes place in one
\* but UpdateConfig, Stop and the interruption, and those leave its copies alone.
LEMMA OtherStep ==
  ASSUME IInv,
         \/ Start \/ UpdateConfig \/ RunCancelled \/ RunTimer \/ CycleEnd
         \/ StopBegin \/ StopReturn \/ Interrupt \/ UNCHANGED vars
  PROVE  IInv'
<1> USE DEF IInv
<1>1. CASE Start
  BY <1>1 DEF Start, First, TypeOK, Copy, Decision, Within, Stopped, InCycle
<1>2. CASE RunCancelled
  BY <1>2 DEF RunCancelled, TypeOK, Copy, Decision, Within, Stopped, InCycle
<1>3. CASE RunTimer
  BY <1>3 DEF RunTimer, TypeOK, Copy, Decision, Within, Stopped, InCycle
<1>4. CASE CycleEnd
  BY <1>4 DEF CycleEnd, TypeOK, Copy, Decision, Within, Stopped, InCycle
<1>5. CASE UpdateConfig \/ StopBegin \/ StopReturn \/ Interrupt \/ UNCHANGED vars
  <2>1. UNCHANGED <<country, goroutine>>
    BY <1>5 DEF UpdateConfig, StopBegin, StopReturn, Interrupt, vars
  <2>2. Copy' /\ Decision' /\ Within'
    BY <2>1 DEF goroutine, Copy, Decision, Within, InCycle, Moved, Left
  <2>3. TypeOK' /\ Stopped'
    BY <1>5 DEF UpdateConfig, StopBegin, StopReturn, Interrupt, vars, Closed,
                goroutine, TypeOK, Stopped
  <2> QED
    BY <2>2, <2>3
<1> QED
  BY <1>1, <1>2, <1>3, <1>4, <1>5

LEMMA Inductive == IInv /\ [Next]_vars => IInv'
  BY TakeConfigStep, PickNextStep, RotateStep, OtherStep DEF Next, RunNext

\* The invariant holds after every step of the daemon (daemon.go:60-170) and of
\* those who call Start, Stop and UpdateConfig.
THEOREM Invariance == Spec => []IInv
  BY Initial, Inductive, PTL DEF Spec

\* The variables keep their types under every configuration.
THEOREM TypeCorrect == Spec => []TypeOK
  BY Invariance, PTL DEF IInv

\* A rotation changes the country, to one its cycle's configuration allows.
THEOREM AlwaysMoves == Spec => []RotationMoves
<1>1. IInv => RotationMoves
  <2> SUFFICES ASSUME IInv, pc = "stopped"
               PROVE  pick.to # country[pick.id] /\ pick.to \in Allowed(taken)
    BY DEF RotationMoves
  <2>1. pick.id \in Instances /\ pick.to \in Candidates(instances[pick.id], taken)
    BY DEF IInv, Decision
  <2>2. country[pick.id] = instances[pick.id]
    BY <2>1 DEF IInv, Copy, Left, InCycle
  <2> QED
    BY <2>1, <2>2 DEF Candidates
<1> QED
  BY Invariance, <1>1, PTL

\* No cycle moves more instances than its configuration asks for.
THEOREM BudgetIsKept == Spec => []BudgetKept
<1>1. IInv => BudgetKept
  <2> SUFFICES ASSUME IInv, InCycle PROVE Cardinality(Moved) <= taken.total
    BY DEF BudgetKept, InCycle, Moved
  <2>1. Moved \cup Left \in SUBSET Instances /\ Moved \in SUBSET (Moved \cup Left)
    BY DEF Moved, Left
  <2>2. taken.total \in Int
    BY AllowedCountries DEF IInv, TypeOK
  <2> QED
    BY <2>1, <2>2, Fewer DEF IInv, Within
<1> QED
  BY Invariance, <1>1, PTL

\* After Stop has returned no instance is moved.
THEOREM JoinsOnStop == Spec => StopJoins
<1>1. IInv /\ [Next]_vars => [stopping = "returned" => UNCHANGED country]_vars
  <2> SUFFICES ASSUME IInv, Next, stopping = "returned" PROVE UNCHANGED country
    BY DEF vars
  <2>1. pc = "done"
    BY DEF IInv, Stopped
  <2> QED
    BY <2>1 DEF Next, RunNext, Start, UpdateConfig, RunCancelled, RunTimer,
                TakeConfig, PickNext, RotateInstance, CycleEnd, StopBegin,
                StopReturn, Interrupt
<1> QED
  BY Invariance, <1>1, PTL DEF Spec, StopJoins

\* In a cycle that covers every instance those that had their turn are where the
\* configuration allows, or had nowhere to go.
Cleared ==
  InCycle /\ taken.total >= Cardinality(Instances) =>
    \A i \in Instances \ Left : \/ country[i] \in Allowed(taken)
                                \/ Candidates(instances[i], taken) = {}

LEMMA ClearedStep == IInv /\ Cleared /\ [Next]_vars => Cleared'
<1> SUFFICES ASSUME IInv, Cleared, [Next]_vars,
                    InCycle', (taken.total >= Cardinality(Instances))'
             PROVE  (\A i \in Instances \ Left : \/ country[i] \in Allowed(taken)
                                                 \/ Candidates(instances[i], taken) = {})'
  BY DEF Cleared
<1>1. CASE TakeConfig
  <2>1. CASE cfg.total <= 0
    BY <1>1, <2>1 DEF TakeConfig, InCycle
  <2>2. CASE ~(cfg.total <= 0)
    <3>1. PICK S \in SUBSET Instances : Cardinality(S) = Budget(cfg) /\ todo' = S
      BY <1>1, <2>2 DEF TakeConfig
    <3>2. cfg.total \in Int /\ Cardinality(Instances) \in Nat /\ taken' = cfg
      BY <1>1, AllowedCountries, FS_CardinalityType, RotationAssumption
         DEF TakeConfig, IInv, TypeOK
    <3>3. Cardinality(S) = Cardinality(Instances)
      BY <3>1, <3>2 DEF Budget
    <3>4. S = Instances
      BY <3>3, FS_Subset, RotationAssumption
    <3> QED
      BY <3>1, <3>4 DEF Left
  <2> QED
    BY <2>1, <2>2
<1>2. CASE PickNext
  <2>1. PICK i \in todo :
          /\ todo' = todo \ {i}
          /\ IF Candidates(instances[i], taken) = {}
             THEN UNCHANGED <<pc, pick>>
             ELSE /\ \E c \in Candidates(instances[i], taken) :
                       pick' = [id |-> i, to |-> c]
                  /\ pc' = "stopped"
    BY <1>2 DEF PickNext
  <2>2. pc = "next" /\ UNCHANGED <<country, instances, taken>>
    BY <1>2 DEF PickNext
  <2>3. Candidates(instances[i], taken) # {} => pc' = "stopped" /\ pick'.id = i
    BY <2>1
  <2>4. \A j \in Instances \ Left' : j \notin Left \/ Candidates(instances[j], taken) = {}
    BY <2>1, <2>2, <2>3 DEF Left
  <2> QED
    BY <2>2, <2>4 DEF Cleared, InCycle, Allowed, Candidates
<1>3. CASE RotateInstance
  <2>1. pc = "stopped" /\ country' = [country EXCEPT ![pick.id] = pick.to]
        /\ UNCHANGED <<instances, taken, todo>>
    BY <1>3 DEF RotateInstance
  <2>2. pick.id \in Instances /\ pick.to \in Allowed(taken)
    BY <2>1 DEF IInv, Decision, Candidates
  <2>3. country'[pick.id] = pick.to /\ \A j \in Instances : j # pick.id => country'[j] = country[j]
    BY <2>1, <2>2 DEF IInv, TypeOK
  <2>4. \A j \in Instances \ Left' : j \notin Left \/ j = pick.id
    BY <2>1 DEF Left
  <2> QED
    BY <2>1, <2>2, <2>3, <2>4 DEF Cleared, InCycle, Allowed, Candidates
<1>4. CASE Start \/ RunCancelled \/ RunTimer \/ CycleEnd
  BY <1>4 DEF Start, First, RunCancelled, RunTimer, CycleEnd, InCycle
<1>5. CASE UpdateConfig \/ StopBegin \/ StopReturn \/ Interrupt \/ UNCHANGED vars
  <2>1. UNCHANGED <<country, goroutine>>
    BY <1>5 DEF UpdateConfig, StopBegin, StopReturn, Interrupt, vars
  <2> QED
    BY <2>1 DEF goroutine, Cleared, InCycle, Left, Allowed, Candidates
<1> QED
  BY <1>1, <1>2, <1>3, <1>4, <1>5 DEF Next, RunNext

\* A cycle that covers every instance leaves none in a country its configuration
\* forbids, unless there was nowhere else to go (daemon.go:110).
THEOREM AllCleared == Spec => []FullCycleClears
<1>1. Init => Cleared
  BY DEF Init, Cleared, InCycle
<1>2. IInv /\ Cleared => FullCycleClears
  BY DEF Cleared, InCycle, Left, FullCycleClears
<1> QED
  BY Invariance, ClearedStep, <1>1, <1>2, PTL DEF Spec
=============================================================================
