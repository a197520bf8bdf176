------------------------- MODULE ConfigReloadProofs -------------------------
(***************************************************************************)
(* Proofs about ConfigReload: whatever the operator edits, whenever the    *)
(* signals arrive and whichever steps of a reload fail, the daemon works   *)
(* with appCfg's country section and HAProxy follows appCfg as well, until *)
(* one of its own steps fails.                                             *)
(***************************************************************************)
EXTENDS ConfigReload, TLAPS

\* The daemon and appCfg agree but between the two assignments of handleReload
\* (UpdateConfig and cfg.Country), where the daemon is already at the new
\* configuration.
Daemon ==
  /\ pc # "assign" => daemon.country = cfg.country /\ daemon.enabled = cfg.enabled
  /\ pc = "assign" => /\ daemon.own /\ reading # "appCfg"
                      /\ daemon.country = fresh.country
                      /\ daemon.enabled = fresh.enabled

\* What the file says, and who has read it or will.
Written ==
  /\ pc = "spawn" => conf = cfg.proxy
  /\ ~failures /\ pc \notin {"create", "fill", "spawn", "exit"} => Served

IInv == TypeOK /\ Daemon /\ Written

\* AtStart, the flag laid over the file, yields a configuration.
LEMMA AtStartIsSettings ==
  ASSUME NEW f \in Settings PROVE AtStart(f) \in Settings
  BY ReloadAssumption DEF AtStart, Settings

LEMMA Initial == Init => IInv
<1> SUFFICES ASSUME Init PROVE IInv
  OBVIOUS
<1>1. cfg \in Settings
  BY AtStartIsSettings DEF Init
<1>2. TypeOK
  <2>1. cfg.country \in Lists /\ cfg.enabled \in BOOLEAN /\ cfg.proxy \in Proxies
    BY <1>1 DEF Settings
  <2>2. daemon \in [country : Lists, enabled : BOOLEAN, own : BOOLEAN]
    BY <2>1 DEF Init
  <2>3. file \in Settings /\ edits \in 0 .. MaxEdits
    BY ReloadAssumption DEF Init
  <2>4. fresh \in Settings /\ rotating \in BOOLEAN /\ conf \in Proxies
        /\ starting \in Nat /\ servers \in SUBSET Proxies
    BY <1>1, <2>1 DEF Init
  <2> QED
    BY <1>1, <2>2, <2>3, <2>4 DEF Init, TypeOK
<1>3. Daemon /\ Written
  BY DEF Init, Daemon, Written, Served
<1> QED
  BY <1>2, <1>3 DEF IInv

\* Each action keeps the types, the daemon's agreement and HAProxy's.
LEMMA Inductive == IInv /\ [Next]_vars => IInv'
<1> SUFFICES ASSUME IInv, [Next]_vars PROVE IInv'
  OBVIOUS
<1> USE DEF IInv
<1>1. CASE Edit
  BY <1>1, ReloadAssumption DEF Edit, haproxy, TypeOK, Daemon, Written, Served
<1>2. CASE Hup
  BY <1>2 DEF Hup, haproxy, TypeOK, Daemon, Written, Served
<1>3. CASE Interrupt
  BY <1>3 DEF Interrupt, haproxy, TypeOK, Daemon, Written, Served
<1>4. CASE ReloadBegin
  BY <1>4 DEF ReloadBegin, haproxy, TypeOK, Daemon, Written, Served
<1>5. CASE ReloadLoad
  BY <1>5 DEF ReloadLoad, Finish, haproxy, TypeOK, Daemon, Written, Served
<1>6. CASE ReloadDaemon
  <2>1. CASE CountryListChanged(cfg, fresh) \/ RotationChanged(cfg, fresh)
    <3>1. daemon' = Handed /\ pc' = "assign"
      BY <1>6, <2>1 DEF ReloadDaemon
    <3>2. TypeOK'
      BY <1>6, <3>1 DEF ReloadDaemon, DaemonUnlocked, Handed, haproxy, TypeOK, Settings
    <3>3. Daemon' /\ Written'
      BY <1>6, <3>1 DEF ReloadDaemon, DaemonUnlocked, Handed, haproxy, Daemon, Written, Served
    <3> QED
      BY <3>2, <3>3
  <2>2. CASE ~(CountryListChanged(cfg, fresh) \/ RotationChanged(cfg, fresh))
    BY <1>6, <2>2 DEF ReloadDaemon, haproxy, TypeOK, Daemon, Written, Served
  <2> QED
    BY <2>1, <2>2
<1>7. CASE ReloadCountry
  <2>1. cfg' \in Settings /\ cfg'.country = fresh.country
        /\ cfg'.enabled = fresh.enabled /\ cfg'.proxy = cfg.proxy
    BY <1>7 DEF ReloadCountry, Adopted, TypeOK, Settings
  <2> QED
    BY <1>7, <2>1 DEF ReloadCountry, haproxy, TypeOK, Daemon, Written, Served
<1>8. CASE ReloadProxy
  <2>1. CASE HAProxyChanged(cfg, fresh)
    <3>1. cfg' \in Settings /\ cfg'.country = cfg.country
          /\ cfg'.enabled = cfg.enabled
      BY <1>8, <2>1 DEF ReloadProxy, TypeOK, Settings
    <3> QED
      BY <1>8, <2>1, <3>1 DEF ReloadProxy, haproxy, TypeOK, Daemon, Written, Served
  <2>2. CASE ~HAProxyChanged(cfg, fresh)
    BY <1>8, <2>2 DEF ReloadProxy, Finish, haproxy, TypeOK, Daemon, Written, Served
  <2> QED
    BY <2>1, <2>2
<1>9. CASE GenerateCreate \/ GenerateFill
  <2>1. cfg.proxy \in Proxies
    BY DEF TypeOK, Settings
  <2> QED
    BY <1>9, <2>1 DEF GenerateCreate, GenerateFill, Finish, TypeOK, Daemon, Written
<1>10. CASE HAProxyReload
  <2>1. /\ starting' \in Nat /\ failures' \in BOOLEAN
        /\ outcome' \in {"none", "reloaded", "failed"} /\ pc' = "select"
    <3>1. /\ starting' \in {starting, starting + 1} /\ failures' \in {failures, TRUE}
          /\ outcome' \in {"reloaded", "failed"} /\ pc' = "select"
      BY <1>10 DEF HAProxyReload, Finish
    <3>2. starting \in Nat /\ failures \in BOOLEAN
      BY DEF TypeOK
    <3>3. starting' \in Nat
      BY <3>1, <3>2
    <3>4. failures' \in BOOLEAN
      BY <3>1, <3>2, Zenon
    <3> QED
      BY <3>1, <3>3, <3>4
  <2>2. conf = cfg.proxy
    BY <1>10 DEF HAProxyReload, Written
  <2>4. ~failures' => starting' > 0
    <3>1. ~failures' => starting' = starting + 1
      BY <1>10 DEF HAProxyReload
    <3>2. starting \in Nat
      BY DEF TypeOK
    <3> QED
      BY <3>1, <3>2
  <2>3. TypeOK'
    BY <1>10, <2>1 DEF HAProxyReload, TypeOK
  <2> QED
    BY <1>10, <2>1, <2>2, <2>3, <2>4 DEF HAProxyReload, Daemon, Written, Served
<1>11. CASE Shutdown
  BY <1>11 DEF Shutdown, haproxy, TypeOK, Daemon, Written, Served
<1>12. CASE HAProxyServes
  <2>1. conf \in Proxies \cup {"partial"} /\ starting' \in Nat
    BY <1>12 DEF HAProxyServes, TypeOK
  <2>2. servers \subseteq servers' /\ servers' \in SUBSET Proxies
    BY <1>12, <2>1 DEF HAProxyServes, TypeOK
  <2>3. ~failures /\ pc \notin {"create", "fill", "spawn", "exit"} => cfg.proxy \in servers'
    <3>1. cfg.proxy # "partial"
      BY ReloadAssumption DEF TypeOK, Settings
    <3> QED
      BY <1>12, <3>1 DEF HAProxyServes, Written, Served
  <2> QED
    BY <1>12, <2>1, <2>2, <2>3 DEF HAProxyServes, TypeOK, Daemon, Written, Served
<1>14. CASE DaemonNext
  BY <1>14 DEF DaemonNext, CycleLock, CycleUnlock, haproxy, TypeOK, Daemon, Written, Served
<1>13. CASE UNCHANGED vars
  BY <1>13 DEF vars, haproxy, TypeOK, Daemon, Written, Served
<1> QED
  BY <1>1, <1>2, <1>3, <1>4, <1>5, <1>6, <1>7, <1>8, <1>9, <1>10, <1>11, <1>12, <1>13,
     <1>14
     DEF Next, MainNext

\* The invariant holds after every step of the main loop (run.go:126-148), of an
\* edit, of a signal and of the HAProxy processes.
THEOREM Invariance == Spec => []IInv
  BY Initial, Inductive, PTL DEF Spec

\* The variables keep their types, however the file is edited.
THEOREM TypeCorrect == Spec => []TypeOK
  BY Invariance, PTL DEF IInv

\* Between two reloads the daemon rotates with the country section appCfg
\* holds: UpdateConfig and the assignment of cfg.Country are never apart there.
THEOREM DaemonAgrees == Spec => []DaemonFollows
<1>1. IInv => DaemonFollows
  BY DEF IInv, Daemon, DaemonFollows
<1> QED
  BY Invariance, <1>1, PTL

\* UpdateConfig waits for the cycle that is copying appCfg and hands over another
\* object (daemon.go:164): when main then writes appCfg.Country (run.go:224) nobody
\* reads it, whenever cycles begin and however many reloads there are.
THEOREM NeverTorn == Spec => []NoTornRead
<1>1. IInv => NoTornRead
  BY DEF IInv, Daemon, NoTornRead
<1> QED
  BY Invariance, <1>1, PTL

\* HAProxy serves what appCfg says between two reloads, or will once it has read
\* the file, as long as no step of a reload has failed.
THEOREM ProxyServed == Spec => []ProxyFollows
<1>1. IInv => ProxyFollows
  BY DEF IInv, Written, ProxyFollows
<1> QED
  BY Invariance, <1>1, PTL

-----------------------------------------------------------------------------
(* What a reload adopts *)

\* reload.go compares and assigns field by field: after each section cfg agrees
\* with what was loaded, whether that section was found changed or not.
Adoption ==
  /\ pc \in {"haproxy", "create", "fill", "spawn"} =>
       cfg.country = fresh.country /\ cfg.enabled = fresh.enabled
  /\ pc \in {"create", "fill", "spawn"} => cfg.proxy = fresh.proxy
  /\ pc = "select" /\ outcome = "reloaded" =>
       /\ cfg.country = fresh.country /\ cfg.enabled = fresh.enabled
       /\ cfg.proxy = fresh.proxy

\* A reload that reports success has adopted all it loaded but the Tor settings.
TakesAll ==
  pc = "select" /\ outcome = "reloaded" => cfg = [fresh EXCEPT !.tor = cfg.tor]

LEMMA AdoptionStep == TypeOK /\ Adoption /\ [Next]_vars => Adoption'
<1> SUFFICES ASSUME TypeOK, Adoption, [Next]_vars PROVE Adoption'
  OBVIOUS
<1> USE DEF Adoption
<1>1. CASE Edit \/ Hup \/ Interrupt \/ DaemonNext \/ HAProxyServes \/ UNCHANGED vars
  BY <1>1 DEF Edit, Hup, Interrupt, DaemonNext, CycleLock, CycleUnlock, HAProxyServes, vars
<1>2. CASE ReloadBegin \/ ReloadLoad \/ Shutdown
  BY <1>2 DEF ReloadBegin, ReloadLoad, Finish, Shutdown
<1>3. CASE ReloadDaemon
  BY <1>3 DEF ReloadDaemon, CountryListChanged, RotationChanged
<1>4. CASE ReloadCountry
  BY <1>4 DEF ReloadCountry, Adopted, TypeOK, Settings
<1>5. CASE ReloadProxy
  <2>1. CASE HAProxyChanged(cfg, fresh)
    BY <1>5, <2>1 DEF ReloadProxy, TypeOK, Settings
  <2>2. CASE ~HAProxyChanged(cfg, fresh)
    BY <1>5, <2>2 DEF ReloadProxy, HAProxyChanged, Finish
  <2> QED
    BY <2>1, <2>2
<1>6. CASE GenerateCreate \/ GenerateFill \/ HAProxyReload
  BY <1>6 DEF GenerateCreate, GenerateFill, HAProxyReload, Finish
<1> QED
  BY <1>1, <1>2, <1>3, <1>4, <1>5, <1>6 DEF Next, MainNext

\* handleReload (run.go:221-232) decides section by section on a comparison made
\* before the first assignment: a reload that reports success ends with the
\* sections it has loaded, whichever it found changed.
THEOREM SuccessTakesAll == Spec => []TakesAll
<1>1. Init => Adoption
  BY DEF Init, Adoption
<1>2. TypeOK /\ Adoption => TakesAll
  <2> SUFFICES ASSUME TypeOK, Adoption, pc = "select", outcome = "reloaded"
               PROVE  cfg = [fresh EXCEPT !.tor = cfg.tor]
    BY DEF TakesAll
  <2> QED
    BY DEF TypeOK, Settings, Adoption
<1> QED
  BY <1>1, <1>2, AdoptionStep, TypeCorrect, PTL DEF Spec
=============================================================================
