---------------------------- MODULE ConfigReload ----------------------------
(***************************************************************************)
(* cmd: the main loop of splitter run, its SIGHUP handler handleReload     *)
(* with diffConfig, and internal/haproxy, the manager that writes HAProxy's *)
(* configuration, starts HAProxy and replaces it.  The operator edits the  *)
(* configuration file and sends SIGHUP at any time.                        *)
(*                                                                         *)
(* A configuration has three parts: country (lists, interval and number of *)
(* rotations, with enabled apart), proxy (all that diffConfig compares for *)
(* HAProxy) and tor (all that needs a restart).                            *)
(*                                                                         *)
(* The template makes HAProxy a daemon: the process the manager spawns     *)
(* reads the file some time after Spawn has returned, forks the one that   *)
(* serves and ends; the pid -sf and Stop know is the one that has ended.   *)
(***************************************************************************)
EXTENDS Integers

CONSTANTS Lists,     \* values of the country section
          Proxies,   \* values of the HAProxy settings
          Tors,      \* values of the Tor settings
          Flag,      \* the HAProxy setting forced on the command line, or
          NoFlag,    \* this value if there is none
          MaxEdits   \* bound on the edits of the file

ASSUME ReloadAssumption ==
  /\ Flag \in Proxies \cup {NoFlag} /\ NoFlag \notin Proxies
  /\ "partial" \notin Proxies
  /\ MaxEdits \in Nat

Settings == [country : Lists, enabled : BOOLEAN, proxy : Proxies, tor : Tors]

VARIABLES
  file,      \* what configs/default.yaml says
  edits,     \* how often it was edited
  cfg,       \* appCfg, shared by the managers
  fresh,     \* handleReload: newCfg
  daemon,    \* the country daemon: its cfg, and whether that is the
             \* object appCfg or one of an earlier reload
  rotating,  \* the daemon's goroutine runs
  reading,   \* it holds the daemon's mutex and reads that object
  conf,      \* the HAProxy configuration file
  starting,  \* how many HAProxy processes were spawned and have not read it
  servers,   \* the configurations HAProxy serves with
  hup,       \* a SIGHUP waits in sighupCh
  cancelled, \* the context of run.go
  pc,        \* where the main goroutine is
  outcome,   \* how the last reload ended
  failures   \* some HAProxy step of a reload has failed

haproxy == <<conf, starting, servers>>
vars == <<file, edits, cfg, fresh, daemon, rotating, reading, haproxy, hup, cancelled,
          pc, outcome, failures>>

\* config.Load at the start: the command line wins over the file.
AtStart(f) == [f EXCEPT !.proxy = IF Flag = NoFlag THEN @ ELSE Flag]

\* The startup has succeeded: HAProxy was spawned, the daemon started.
Init == /\ file \in Settings
        /\ edits = 0
        /\ cfg = AtStart(file)
        /\ fresh = cfg
        /\ daemon = [country |-> cfg.country, enabled |-> cfg.enabled, own |-> FALSE]
        /\ rotating = cfg.enabled /\ reading = "nothing"
        /\ conf = cfg.proxy
        /\ starting = 1 /\ servers = {}
        /\ hup = FALSE
        /\ cancelled = FALSE
        /\ pc = "select"
        /\ outcome = "none"
        /\ failures = FALSE

-----------------------------------------------------------------------------
(* Outside *)

Edit == /\ edits < MaxEdits
        /\ edits' = edits + 1
        /\ file' \in Settings \ {file}
        /\ UNCHANGED <<cfg, fresh, daemon, rotating, reading, haproxy, hup, cancelled, pc,
                       outcome, failures>>

\* sighupCh holds one signal: one that finds it full is dropped.
Hup == /\ pc # "exit" /\ ~hup
       /\ hup' = TRUE
       /\ UNCHANGED <<file, edits, cfg, fresh, daemon, rotating, reading, haproxy, cancelled,
                      pc, outcome, failures>>

Interrupt == /\ pc # "exit" /\ ~cancelled
             /\ cancelled' = TRUE
             /\ UNCHANGED <<file, edits, cfg, fresh, daemon, rotating, reading, haproxy, hup,
                            pc, outcome, failures>>

-----------------------------------------------------------------------------
(* The goroutine of the daemon: each cycle copies the country section of the *)
(* configuration the daemon has, with the mutex held.                        *)

CycleLock ==
  /\ rotating /\ reading = "nothing"
  /\ reading' = IF daemon.own THEN "own" ELSE "appCfg"
  /\ UNCHANGED <<file, edits, cfg, fresh, daemon, rotating, haproxy, hup, cancelled, pc,
                 outcome, failures>>

CycleUnlock ==
  /\ reading # "nothing"
  /\ reading' = "nothing"
  /\ UNCHANGED <<file, edits, cfg, fresh, daemon, rotating, haproxy, hup, cancelled, pc,
                 outcome, failures>>

-----------------------------------------------------------------------------
(* diffConfig *)

CountryListChanged(old, new) == old.country # new.country
\* Mutant: enabled is not compared.
MutRotationChanged(old, new) == old.country # new.country

RotationChanged(old, new) == \/ old.country # new.country
                             \/ old.enabled # new.enabled
HAProxyChanged(old, new) == old.proxy # new.proxy

-----------------------------------------------------------------------------
(* The main loop and handleReload, all in the main goroutine.              *)

\* The select of run.go; the shutdown is taken only here.
ReloadBegin ==
  /\ pc = "select" /\ hup
  /\ hup' = FALSE
  /\ pc' = "load" /\ outcome' = "none"
  /\ UNCHANGED <<file, edits, cfg, fresh, daemon, rotating, reading, haproxy, cancelled,
                 failures>>

Finish(how) == pc' = "select" /\ outcome' = how

\* config.Load, without the command line's flags; an unreadable or invalid
\* file ends the reload.
ReloadLoad ==
  /\ pc = "load"
  /\ \/ fresh' = file /\ pc' = "country" /\ UNCHANGED outcome
     \/ Finish("failed") /\ UNCHANGED fresh
  /\ UNCHANGED <<file, edits, cfg, daemon, rotating, reading, haproxy, hup, cancelled,
                 failures>>

\* Mutant: UpdateConfig replaces the configuration without the mutex.
MutDaemonUnlocked == TRUE

\* The mutex that UpdateConfig takes is free.
DaemonUnlocked == reading = "nothing"

\* countryDaemon.UpdateConfig: the daemon now reads newCfg.
Handed == [country |-> fresh.country, enabled |-> fresh.enabled, own |-> TRUE]

ReloadDaemon ==
  /\ pc = "country"
  /\ IF CountryListChanged(cfg, fresh) \/ RotationChanged(cfg, fresh)
     THEN /\ DaemonUnlocked
          /\ daemon' = Handed
          /\ pc' = "assign"
     ELSE pc' = "haproxy" /\ UNCHANGED daemon
  /\ UNCHANGED <<file, edits, cfg, fresh, rotating, reading, haproxy, hup, cancelled, outcome,
                 failures>>

\* Mutant: all of the new configuration is adopted at once.
MutAdoptedAll == fresh

\* Mutant: the rotation section is left out.
MutAdopted == [cfg EXCEPT !.country = fresh.country]

\* cfg.Country = newCfg.Country, with no lock held.
Adopted == [cfg EXCEPT !.country = fresh.country, !.enabled = fresh.enabled]

ReloadCountry ==
  /\ pc = "assign"
  /\ cfg' = Adopted
  /\ pc' = "haproxy"
  /\ UNCHANGED <<file, edits, fresh, daemon, rotating, reading, haproxy, hup, cancelled,
                 outcome, failures>>

\* The Tor settings are compared only for a warning.
ReloadProxy ==
  /\ pc = "haproxy"
  /\ IF HAProxyChanged(cfg, fresh)
     THEN /\ cfg' = [cfg EXCEPT !.proxy = fresh.proxy]
          /\ pc' = "create"
          /\ UNCHANGED outcome
     ELSE Finish("reloaded") /\ UNCHANGED cfg
  /\ UNCHANGED <<file, edits, fresh, daemon, rotating, reading, haproxy, hup, cancelled,
                 failures>>

\* GenerateConfig truncates the file, or fails before that, ...
GenerateCreate ==
  /\ pc = "create"
  /\ \/ conf' = "partial" /\ pc' = "fill" /\ UNCHANGED <<outcome, failures>>
     \/ Finish("failed") /\ failures' = TRUE /\ UNCHANGED conf
  /\ UNCHANGED <<file, edits, cfg, fresh, daemon, rotating, reading, starting, servers, hup,
                 cancelled>>

\* ... and fills it, if nothing goes wrong.
GenerateFill ==
  /\ pc = "fill"
  /\ \/ conf' = cfg.proxy /\ pc' = "spawn" /\ UNCHANGED <<outcome, failures>>
     \/ Finish("failed") /\ failures' = TRUE /\ UNCHANGED conf
  /\ UNCHANGED <<file, edits, cfg, fresh, daemon, rotating, reading, starting, servers, hup,
                 cancelled>>

\* HAProxyManager.Reload spawns another process, or the Spawn fails, as it does
\* once the context is done.
HAProxyReload ==
  /\ pc = "spawn"
  /\ \/ /\ ~cancelled /\ starting' = starting + 1
        /\ Finish("reloaded") /\ UNCHANGED failures
     \/ Finish("failed") /\ failures' = TRUE /\ UNCHANGED starting
  /\ UNCHANGED <<file, edits, cfg, fresh, daemon, rotating, reading, conf, servers, hup,
                 cancelled>>

\* Mutant: a waiting SIGHUP is served before the context.
MutStopping == cancelled /\ ~hup

\* The case ctx.Done() of the select.
Stopping == cancelled

\* countryDaemon.Stop, haproxyMgr.Stop and the rest of the shutdown: what serves
\* is no child of the program.
Shutdown ==
  /\ pc = "select" /\ Stopping
  /\ pc' = "exit"
  /\ rotating' = FALSE /\ reading' = "nothing"
  /\ starting' = 0
  /\ UNCHANGED <<file, edits, cfg, fresh, daemon, conf, servers, hup, cancelled,
                 outcome, failures>>

-----------------------------------------------------------------------------
(* HAProxy                                                                  *)

\* A process that was spawned reads the file (a whole one is
\* taken to be good enough for HAProxy); half a file ends it.  -sf names
\* the one spawned before it, which is ended if it has not forked yet.
HAProxyServes ==
  /\ starting > 0
  /\ starting' \in {starting - 1} \cup {n \in {starting - 2} : n >= 0}
  /\ servers' = servers \cup ({conf} \ {"partial"})
  /\ UNCHANGED <<file, edits, cfg, fresh, daemon, rotating, reading, conf, hup, cancelled, pc,
                 outcome, failures>>

-----------------------------------------------------------------------------

MainNext == \/ ReloadBegin \/ ReloadLoad \/ ReloadDaemon \/ ReloadCountry
            \/ ReloadProxy \/ GenerateCreate \/ GenerateFill
            \/ HAProxyReload \/ Shutdown

DaemonNext == CycleLock \/ CycleUnlock

Next == Edit \/ Hup \/ Interrupt \/ MainNext \/ DaemonNext \/ HAProxyServes

Spec == Init /\ [][Next]_vars

\* The main goroutine and the daemon's run; a select picks at random between a
\* SIGHUP and a context that are both there; a mutex is given to who waits for it.
Fairness == /\ WF_vars(MainNext) /\ WF_vars(CycleUnlock)
            /\ SF_vars(Shutdown) /\ SF_vars(ReloadDaemon)

FairSpec == Spec /\ Fairness

-----------------------------------------------------------------------------
(* Properties *)

\* The variables range over the values of the code's fields and positions.
TypeOK ==
  /\ file \in Settings /\ cfg \in Settings /\ fresh \in Settings
  /\ edits \in 0 .. MaxEdits
  /\ daemon \in [country : Lists, enabled : BOOLEAN, own : BOOLEAN]
  /\ reading \in {"nothing", "appCfg", "own"}
  /\ rotating \in BOOLEAN /\ hup \in BOOLEAN /\ cancelled \in BOOLEAN
  /\ conf \in Proxies \cup {"partial"}
  /\ starting \in Nat /\ servers \in SUBSET Proxies
  /\ pc \in {"select", "load", "country", "assign", "haproxy", "create", "fill",
             "spawn", "exit"}
  /\ outcome \in {"none", "reloaded", "failed"}
  /\ failures \in BOOLEAN

\* Between two reloads, also after one that failed half-way, the rotation
\* daemon works with the country section appCfg holds.
DaemonFollows ==
  pc = "select" => daemon.country = cfg.country /\ daemon.enabled = cfg.enabled

\* handleReload writes appCfg.Country with no lock, and until the first reload
\* appCfg is what the daemon reads: the copy a cycle makes is over before the
\* write begins, whenever the cycle began, and no later one reads that object.
NoTornRead == pc = "assign" => reading # "appCfg"

\* HAProxy serves what appCfg says, or the process that will has not read the
\* file, which says it too.
Served == cfg.proxy \in servers \/ (starting > 0 /\ conf = cfg.proxy)

\* Between two reloads that holds, whenever the processes of earlier ones read
\* the file, also while the next reload truncates it: if nothing has failed.
ProxyFollows == pc = "select" /\ ~failures => Served

\* ROADMAP 3.3.5: "On reload: update country lists, rotation intervals, and
\* HAProxy config": the same after an earlier failure was repaired.
ReloadAppliesProxy == pc = "select" /\ outcome = "reloaded" => Served

\* ROADMAP 3.2.2: "Start/stop/reload process": with -sf, the
\* configuration before a reload is no longer served once the new one is.
OldOneReplaced == cfg.proxy \in servers => servers = {cfg.proxy}

\* ROADMAP 3.1.4: "Kill all children on exit": no HAProxy serves any longer.
NoneServesAfterExit == pc = "exit" => servers = {}

\* ROADMAP 3.3.3: "Priority: CLI flag > env var > config file > default".
FlagWins == Flag # NoFlag => cfg.proxy = Flag

\* cmd/reload.go:26: a changed rotation.enabled is part of what a reload
\* applies, so that the daemon rotates when the configuration says so.
RotationFollowsConfig ==
  pc = "select" /\ outcome = "reloaded" => rotating = cfg.enabled

\* No edit is lost between two signals: a SIGHUP leads to a reload, or the
\* shutdown overtakes it, and a reload begun after the last edit takes the
\* file's country section or fails.
LastEditTaken ==
  /\ hup ~> pc \in {"load", "exit"}
  /\ (pc = "load" /\ edits = MaxEdits) ~>
       \/ cfg.country = file.country /\ cfg.enabled = file.enabled
       \/ outcome = "failed"

\* An interrupted program leaves its main loop, whatever signals arrive.
InterruptEnds == cancelled ~> pc = "exit"
=============================================================================
