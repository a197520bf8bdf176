--------------------------- MODULE CountryRotation --------------------------
(***************************************************************************)
(* internal/country: the daemon that moves Tor instances to other          *)
(* countries, while a SIGHUP may replace its configuration (UpdateConfig)  *)
(* and the shutdown may stop it.  The rotation of one instance is          *)
(* TorManager.RotateInstance, here reduced to its effect on the country    *)
(* and to its success; TorSupervisor has its steps.                        *)
(***************************************************************************)
EXTENDS Integers, FiniteSets

CONSTANTS Instances,   \* the Tor instances
          Countries,   \* the country codes that occur
          Configs      \* the values [enabled, accepted, blacklisted, total] of
                       \* the country section a reload may bring

ASSUME RotationAssumption ==
  /\ IsFiniteSet(Instances) /\ Instances # {}
  /\ Configs \subseteq [enabled : BOOLEAN, accepted : SUBSET Countries,
                        blacklisted : SUBSET Countries, total : Int]

VARIABLES
  cfg,        \* Daemon.cfg
  country,    \* Instance.Country of each instance
  started,    \* Daemon.started, and whether it started the goroutine
  cancelled,  \* the context of the daemon is done
  pc,         \* where the goroutine run is; "done": channel done closed
  instances,  \* rotateOnce: the InstanceInfos it works on
  taken,      \* rotateOnce: the accepted, blacklisted and total it works on
  todo,       \* rotateOnce: the shuffled indices still to be rotated
  pick,       \* rotateOnce: the rotation under way
  stopping    \* where Stop is

goroutine == <<pc, instances, taken, todo, pick>>
vars == <<cfg, country, started, cancelled, goroutine, stopping>>

Allowed(c) == c.accepted \ c.blacklisted

\* Mutant: the current country is not left out.
MutCandidates(current, c) == Allowed(c)

\* pickDifferentCountry: every outcome of its random choice.
Candidates(current, c) == Allowed(c) \ {current}

NoPick == [id |-> "none", to |-> "none"]

\* run.go hands over the configuration it started the instances with:
\* SelectRandom took their countries from it.
Init == /\ cfg \in Configs
        /\ country \in [Instances -> Allowed(cfg)]
        /\ started = "no"
        /\ cancelled = FALSE
        /\ pc = "none"
        /\ instances = country
        /\ taken = cfg
        /\ todo = {}
        /\ pick = NoPick
        /\ stopping = "idle"

-----------------------------------------------------------------------------

\* Mutant: a daemon that is disabled does not close its channel.
MutFirst == IF cfg.enabled THEN "timer" ELSE "none"

\* The goroutine is started, or done is closed at once.
First == IF cfg.enabled THEN "timer" ELSE "done"

Start ==
  /\ started = "no"
  /\ started' = IF cfg.enabled THEN "enabled" ELSE "disabled"
  /\ pc' = First
  /\ UNCHANGED <<cfg, country, cancelled, instances, taken, todo, pick, stopping>>

\* SIGHUP, also while a cycle runs.  It neither starts nor stops the goroutine.
UpdateConfig ==
  /\ started # "no"
  /\ cfg' \in Configs
  /\ UNCHANGED <<country, started, cancelled, goroutine, stopping>>

-----------------------------------------------------------------------------
(* run and rotateOnce *)

\* The select of run: with both ready either may be taken.
RunCancelled ==
  /\ pc = "timer"
  /\ cancelled
  /\ pc' = "done"
  /\ UNCHANGED <<cfg, country, started, cancelled, instances, taken, todo, pick,
                 stopping>>

RunTimer ==
  /\ pc = "timer"
  /\ instances' = country
  /\ pc' = "config"
  /\ UNCHANGED <<cfg, country, started, cancelled, taken, todo, pick, stopping>>

\* Mutants: the number asked for is ignored; the clamp is off by one.
MutBudget(c) == Cardinality(Instances)
MutBudgetLess(c) == IF c.total >= Cardinality(Instances)
                    THEN Cardinality(Instances) - 1 ELSE c.total

\* The configuration is copied under the lock; the indices are shuffled.
Budget(c) == IF c.total > Cardinality(Instances) THEN Cardinality(Instances)
                                                 ELSE c.total

TakeConfig ==
  /\ pc = "config"
  /\ taken' = cfg
  /\ IF cfg.total <= 0
     THEN /\ pc' = "timer"
          /\ UNCHANGED todo
     ELSE /\ pc' = "next"
          /\ \E S \in SUBSET Instances : /\ Cardinality(S) = Budget(cfg)
                                         /\ todo' = S
  /\ UNCHANGED <<cfg, country, started, cancelled, instances, pick, stopping>>

\* One turn of the loop: no alternative country, or a random one.
PickNext ==
  /\ pc = "next"
  /\ \E i \in todo :
       /\ todo' = todo \ {i}
       /\ IF Candidates(instances[i], taken) = {}
          THEN UNCHANGED <<pc, pick>>
          ELSE /\ \E c \in Candidates(instances[i], taken) :
                    pick' = [id |-> i, to |-> c]
               /\ pc' = "stopped"
  /\ UNCHANGED <<cfg, country, started, cancelled, instances, taken, stopping>>

\* RotateInstance: the process is stopped, the country is set, and the new
\* process is started or not; the loop goes on in both cases.
RotateInstance ==
  /\ pc = "stopped"
  /\ country' = [country EXCEPT ![pick.id] = pick.to]
  /\ pick' = NoPick
  /\ pc' = "next"
  /\ UNCHANGED <<cfg, started, cancelled, instances, taken, todo, stopping>>

CycleEnd ==
  /\ pc = "next"
  /\ todo = {}
  /\ pc' = "timer"
  /\ UNCHANGED <<cfg, country, started, cancelled, instances, taken, todo, pick,
                 stopping>>

-----------------------------------------------------------------------------
(* Stop *)

\* run.go calls it only after Start; without a goroutine there is no cancelFunc.
StopBegin ==
  /\ started # "no" /\ stopping = "idle"
  /\ stopping' = "waiting"
  /\ cancelled' = (cancelled \/ started = "enabled")
  /\ UNCHANGED <<cfg, country, started, goroutine>>

\* Mutant: Stop returns once it has cancelled.
MutClosed == started # "no"

Closed == pc = "done"

StopReturn ==
  /\ stopping = "waiting"
  /\ Closed
  /\ stopping' = "returned"
  /\ UNCHANGED <<cfg, country, started, cancelled, goroutine>>

\* The context of run.go, the parent of the daemon's, is done.
Interrupt ==
  /\ started = "enabled" /\ ~cancelled
  /\ cancelled' = TRUE
  /\ UNCHANGED <<cfg, country, started, goroutine, stopping>>

-----------------------------------------------------------------------------

RunNext == \/ RunCancelled \/ RunTimer \/ TakeConfig \/ PickNext
           \/ RotateInstance \/ CycleEnd

Next == \/ Start \/ UpdateConfig \/ RunNext \/ StopBegin \/ StopReturn
        \/ Interrupt

Spec == Init /\ [][Next]_vars

(* The goroutine runs.  Its select, with the timer and the context both    *)
(* ready, picks either at random, so that the context is taken in the end: *)
(* strong fairness.                                                        *)
Fairness == WF_vars(RunNext) /\ SF_vars(RunCancelled) /\ WF_vars(StopReturn)

FairSpec == Spec /\ Fairness

-----------------------------------------------------------------------------
(* Properties *)

\* The variables range over the values of the code's fields and positions.
TypeOK ==
  /\ cfg \in Configs /\ taken \in Configs
  /\ country \in [Instances -> Countries]
  /\ instances \in [Instances -> Countries]
  /\ started \in {"no", "enabled", "disabled"}
  /\ cancelled \in BOOLEAN
  /\ pc \in {"none", "timer", "config", "next", "stopped", "done"}
  /\ todo \in SUBSET Instances
  /\ pick \in [id : Instances, to : Countries] \cup {NoPick}
  /\ stopping \in {"idle", "waiting", "returned"}

\* A rotation really changes the country, to one that the configuration of
\* its cycle allows, though the decision was taken on a copy of the instances
\* made before other rotations of the cycle.
RotationMoves ==
  pc = "stopped" => /\ pick.to # country[pick.id]
                    /\ pick.to \in Allowed(taken)

\* A cycle changes at most total_to_change countries, even if a reload lowers
\* or raises the number meanwhile.
BudgetKept ==
  pc \in {"next", "stopped"} =>
    Cardinality({i \in Instances : country[i] # instances[i]}) <= taken.total

\* When a cycle that covers every instance ends, each instance is in a country
\* the cycle's configuration allows, unless it offers no alternative to the
\* one the instance was in.
FullCycleClears ==
  pc = "next" /\ todo = {} /\ taken.total >= Cardinality(Instances) =>
    \A i \in Instances : \/ country[i] \in Allowed(taken)
                         \/ Candidates(instances[i], taken) = {}

\* After Stop has returned no instance is moved any more.
StopJoins == [][stopping = "returned" => UNCHANGED country]_vars

\* Stop returns, also in the middle of a cycle.
StopTerminates == stopping = "waiting" ~> stopping = "returned"
=============================================================================
