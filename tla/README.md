# SPLITTER: specification and verification

SPLITTER (`splitter run`) starts a number of Tor instances, keeps them alive,
moves them between countries, renews their circuits and puts HAProxy in front
of them. This directory models the parts of it that run concurrently or that
decide something from several sources, checks them with TLC on small
instances, and proves with TLAPS what holds of them for every instance.

## 1. The system

### Components, their state and their operations

| Component | Source | State | Operations |
|---|---|---|---|
| Process manager | `internal/process` | `Process.state`, `.wait`, `.done`; `Manager.processes` | `Spawn` (leaves a reaper goroutine), `Stop`, `StopAll`, `Wait`, `List` |
| Tor instance | `internal/tor/instance.go`, `restart.go` | `state` (locked), `proc`, `cancelFunc`, `Country` (not locked) | `Start`, `Stop`, `Wait`, `RunWithRestart` |
| Tor fleet | `internal/tor/manager.go` | `instances` under one mutex | `DetectAndCreate`, `StartAllWithRestart`, `StopAll`, `RotateInstance` |
| Country rotation | `internal/country/daemon.go`, `selector.go` | `cfg`, `started`, `cancelFunc`, `done` | `Start`, `Stop`, `run`, `rotateOnce`, `UpdateConfig` |
| Circuit renewal | `internal/circuit` | a connection per instance; `doneCh`, `done` | `Start`, `Stop`, `runInstance`, `reconnect`, `runAll` |
| HAProxy | `internal/haproxy`, its template | configuration file, tracked process, the processes that serve | `BuildConfigData`, `GenerateConfig`, `Start`, `Stop`, `Reload` |
| Main loop and reload | `cmd/run.go`, `reload.go` | `appCfg`, the context, `sighupCh` | startup, `handleReload`, shutdown |
| Configuration loading | `internal/config`, `internal/cli` | none (a computation in layers) | `Load`, `Validate` |
| Startup | `internal/health/check.go`, `internal/country/selector.go`, `internal/tor` | the version of Tor, the countries, the instances with their ports | `CheckDependencies`, `SelectRandom`, `DetectAndCreate`, `buildInstanceConfig` |
| DNS leak checker | `internal/health/dnsleak.go` | `cancelFunc`, `done`, `results` | `Start`, `Stop`, the goroutine, `Results` |
| Exit reputation, country list | `internal/health/reputation.go`, `internal/country/metrics.go` | a cache file each | `Check`, `FetchCountries` |
| Status | `internal/health/status.go`, `cmd/status.go` | none (reads the fleet and the processes) | `CollectStatus` |
| Port allocator, legacy proxy, metrics, versions, bridges, command line | the remaining packages | see `PROJECT.json` | |

### Interaction

`run` wires everything by direct calls. The process manager is below both the
Tor instances and HAProxy. One Tor instance is driven by three goroutines at
once: its supervisor (`RunWithRestart`), the rotation daemon through
`TorManager.RotateInstance`, and the main goroutine during the shutdown. The
renewer meets the instances only over their control ports. One `*Config`,
`appCfg`, is shared by the main loop, the HAProxy manager and, until the first
reload, the rotation daemon. The list of instances is shared by the fleet's
callers under one mutex, which a rotation holds while it waits for an old Tor.
HAProxy makes itself a daemon: the process the manager tracks reads the
configuration file when it gets to run, forks the one that serves and ends. SIGINT and SIGTERM cancel the context all of them
watch; SIGHUP is a channel of capacity one read by the main loop.

### What is hard

Shared fields without a lock (`inst.proc`, `inst.cancelFunc`), two owners of the
life of an instance, a child that exits while it is being stopped, lists copied
before they are complete, reloads that fail half-way, goroutines that have to be
joined wherever they are, processes that read a file some time after they were
spawned, and settings that four layers may give and four components must agree on. The hazards
are listed with their lines in `PROJECT.json`. What makes each component correct
is stated by the properties of its module, section 3.

## 2. The modules

Every VARIABLE names the field or position it stands for at its declaration, and
`PROJECT.json` maps every definition to its lines. Where an action has the name
of a Go function it is that whole function; where a function can be interrupted
(a blocking call, an unlock, a write of a field another goroutine reads) it is
split into actions named after it (`StopEnter`, `StopTerm`, ...). A section under
a mutex that contains no blocking call is one action.

| Module | Models | Abstracts |
|---|---|---|
| `ProcessManager` | `Spawn`, the reaper, `Stop`, `StopAll`, the child and its signals | process ids and their reuse |
| `ProcessContract` | what a caller of the manager may rely on: verdict, exit, Stop | everything else; implemented by `ProcessManager` |
| `TorSupervisor` | one instance under supervisor, rotation and shutdown | durations; a process is what `ProcessContract` leaves of it |
| `TorFleet` | all instances: the startup that counts them, the mutex and everyone who waits for it, the shutdown | of one instance only the progress of its supervisor; `TorSupervisor` implements the fleet of one |
| `CountryRotation` | the daemon, its cycles, reloads in between | the rotation of one instance is its effect and its success |
| `ConfigReload` | main loop, `handleReload`, `diffConfig`, the daemon's reading of `appCfg` under its own mutex, HAProxy's file, the processes that read it late, fork and end | a configuration is four fields: country, enabled, proxy, tor |
| `CircuitRenewer` | workers, collector, `Stop`, control connections | the text of the control protocol |
| `ConfigLoad` | the layers of `Load`, `Validate` | settings that behave alike are represented by one |
| `Startup` | dependencies, countries, instances, ports, torrc, backends, after `ConfigLoad` | the parsing of version strings; the order of a shuffled list of servers |
| `PeriodicChecker` | `Start`, `Stop`, called as one likes, the goroutine, the results | the DNS test is an outcome, which need not come |
| `ReputationCache` | `Check` and its cache file; with one key `FetchCountries` | an answer is the time it was fetched |

`TorSupervisor` builds on the contract rather than on the code of the process
manager: a Stop claims the child at most once, returns when the child is gone,
and the verdict is final. That is what `ImplementsContract` checks and
`ContractHolds` proves of `ProcessManager`. `TorFleet` in turn keeps of an instance
when its supervisor reports it ready, which ends of a process it retries, and where
a rotation or the shutdown waits for it: `ImplementsFleet` checks and `FleetHolds`
proves that `TorSupervisor` does just that. `CountryRotation` reduces
`RotateInstance`, whose steps are in `TorSupervisor`, and `Startup` extends
`ConfigLoad` and goes on from the configuration that `Load` returns.

Modules named `MC...` give the constants their values for TLC; definitions named
`Mut...` are slightly wrong versions of the definition that follows them, kept to
show that each property depends on the code it is about.

## 3. What is checked

Runs that pass:

| Run | Instance | Shows |
|---|---|---|
| `process` | 2 children, 1 Stop caller and StopAll, whose goroutines stop them too | Stop returns only after the exit; one signaller; failed means unasked; StopAll reaps its snapshot; StopAll and its Stops return, also against a child that ignores SIGTERM; `ProcessContract` is implemented |
| `tor` | one instance, with and without rotation, 3 processes in all | without rotation one Tor at a time, every crash retried, and no supervisor that gives up before the shutdown or a clean exit; with it, too, the shutdown ends and leaves no Tor but that of a Spawn that was under way when StopAll copied its list; `TorFleet` is implemented |
| `fleet` | 2 instances, 1 status request | every instance is counted once, the startup ends when all were ready, and it does end; whoever waits for the mutex gets it |
| `country_rotation` | 2 instances, 3 countries, 4 configurations | rotations move, to allowed countries, within the budget of one snapshot of the configuration; Stop joins |
| `reload` | 2 lists, 2 proxy settings, 2 edits | daemon and HAProxy follow `appCfg`, although HAProxy reads its file late; the write of `cfg.Country`, which holds no lock, meets no cycle that reads it; no lost edit; an interruption ends the loop |
| `renewer` | 2 instances, 2 lives of each Tor | NEWNYM only on authenticated connections; one connection at a time, and none left open, also when it is replaced; Stop returns; workers end |
| `startup` | 373,248 inputs: 4 layers, 2 modes, 2 blacklists; 3 versions of Tor | priorities; logging is on exactly if a highest layer that mentions one of its two names says so; SOCKS ports fit; every instance asked for is served, at ports its torrc opens, by options its Tor knows |
| `checker` | 2 callers, 3 Starts, no tick after 3 tests, 2 results kept | as long as no Stop has cleared the `cancelFunc` of a later Start: one goroutine, no channel closed twice, no result after Stop; and Stop returns unless a test hangs or other calls overtook it |
| `reputation` | 2 countries, lifetime 2, time up to 5 | answers never go back or get lost while the file can be written |

Runs that TLC must find violated. Each is a disagreement between the code and a
line of its documentation, quoted under `findings` in `PROJECT.json`:

| Run | Property | What happens |
|---|---|---|
| `tor_lost` | `LiveIsSupervised` | the process a rotation stops ends without error, the supervisor returns, and the process the rotation starts has none |
| `reload_retry` | `ReloadAppliesProxy` | a reload after a failed one sees no difference left to apply |
| `renewer_lost` | `RenewedWhileUp` | a worker that is logged in fails to send NEWNYM because its Tor is restarting, and so does the one new dial it makes: it ends, and the instance is not renewed again though Tor listens. A first dial that is refused ends it the same way |

### Bounds

* Two children, a Stop caller and the goroutines of StopAll give every pairwise
  race of the process manager (Stop against Stop, against the reaper, against
  Spawn); the theorems hold for any number.
* `MaxChildren = 3` lets an instance start, be rotated and be restarted in one
  behaviour. From then on `cmd.Start` fails, which the code handles, so the
  bound adds no behaviour of its own.
* `MCConfigs` has a short list, a blacklist that leaves one country, a list
  without the current countries, a budget of zero and one above the number of
  instances: the cases `rotateOnce` distinguishes.
* `Rotations = {FALSE, TRUE}` checks both settings in one run; the properties that
  hold only without rotation say so.
* Two instances make one wait for the other, one ready while the other crashes, and
  a cycle of two rotations, between which the mutex is free; one status request and
  a reload compete for it there.
* `MaxEdits = 2` gives an edit during a reload and one after it; the channel of
  SIGHUP holds one signal in the code too.
* `MaxLife = 2`: every Tor may be replaced once behind its worker's back, which
  is what separates the reconnection from the first connection.
* `MCFiles`, `MCEnvironments`, `MCFlags`: every layer absent or present, with
  values that do not parse, that do not fit, and that differ between layers; LOG and
  LOGGING_ENABLED alone, together and contradicting each other. Two countries and the ports 5 to 13 leave room for exactly four instances a country.
* `MCVersions`: a release before every feature, the one that brings the last, and one
  whose later component is the smaller one; `MCBlacklists`: enough countries
  left, and too few.
* Two callers of the checker overlap in every pair of Start and Stop. `MaxStarts = 3`
  gives three generations of the goroutine, which is what it takes to close a channel
  twice (section 4); `MaxTests = 3` and `Keep = 2` more tests than results kept.
* `CacheTTL = 2`, `MaxTime = 5`: expiry, renewal and expiry again.

### Fairness

Weak fairness of a goroutine means that Go schedules it. Where a `select` has two
ready arms the runtime picks one at random, so an arm that is ready again and
again is taken: strong fairness of the arm on the context (`RunCancelled`,
`Shutdown`, `SleepCancelled`). A child exits only if it was sent SIGKILL
(`ProcessManager`) or asked to stop (`TorSupervisor`, which uses the contract).
Who waits for the fleet's mutex gets it between two rotations (strong fairness of
`MainGetInstances` and `CollectStatus`): Go's RWMutex lets the readers that wait in
before the next writer. Nothing is assumed of callers, signals, edits, requests,
rotations, crashes and answers of a proxy: those may never happen. In particular a DNS
test need not end, since its context has no deadline (dnsleak.go:101), and
`StopTerminates` of the checker names that case. In `ConfigReload` a cycle's section
under the daemon's mutex contains no blocking call, so it ends (`CycleUnlock`), and a
reload that waits for that mutex gets it between two cycles (`ReloadDaemon`, strong):
Go's Mutex hands itself to a goroutine that has waited long.
`StartupEnds` needs `TorSettles`: an instance that is started again and again is up
at some time for its grace period. That is an assumption on Tor, and is stated apart
from `Fairness`.

Deadlock is not checked where the system really stops: every call has returned, the
shutdown is over, or a bound is reached. `ReputationCache` never stops and is checked.

## 4. Where the code departs from its documents

Besides the three runs above, the modules state properties the code does not
have. They belong to no run; putting the property into the configuration named
makes TLC show the behaviour.

| Property, module | Set | What the document says | What happens |
|---|---|---|---|
| `ChildrenKilledOnExit`, `ProcessManager` | `SPECIFICATION ShutdownSpec` | ROADMAP 3.1.4: "Kill all children on exit" | a Spawn past its context check adds its child after StopAll copied the list; `TorSupervisor` shows the same of a whole instance (the child `OnlyLateSpawnIsLeft` leaves out) |
| `SingleTor`, `TorSupervisor` | `Rotations = {TRUE}` | ROADMAP 3.2.4: "restarts the affected instances" | rotation and restart overlap: two Tors on the same ports |
| `CrashIsRetried`, `TorSupervisor` | `Rotations = {TRUE}` | ROADMAP 3.2.1: "if a Tor process exits unexpectedly, the goroutine restarts it with backoff" | a rotation whose Start failed has set the state to failed; the supervisor takes that for its own and returns |
| `ExitIsSupervised`, `TorSupervisor` | | ROADMAP 3.2.1, as above | one that exits with status 0 is not restarted |
| `ExitLeavesNone`, `TorSupervisor` | | ROADMAP 3.1.4, as above | a failure or interruption during the startup stops nothing |
| `RotatedBecomesReady`, `TorSupervisor` | `Rotations = {TRUE}` | ROADMAP 3.2.1: "Track state" | without its supervisor an instance never becomes ready again |
| `StartupAlwaysEnds`, `TorFleet` | | ROADMAP 3.2.1, as above | an instance that exits with status 0 before it was ready is never counted, and the startup waits for it until it is interrupted |
| `OldOneReplaced`, `ConfigReload` | | ROADMAP 3.2.2: "Start/stop/reload process" | `-sf` names the process that forked and ended, so the old configuration is served on |
| `NoneServesAfterExit`, `ConfigReload` | | ROADMAP 3.1.4, as above | the process that serves under `daemon` is no child of the program |
| `FlagWins`, `ConfigReload` | `Flag = "leastconn"` | ROADMAP 3.3.3: "Priority: CLI flag > env var > config file > default" | a reload loads without the command line |
| `RotationFollowsConfig`, `ConfigReload` | | `cmd/reload_test.go:60` counts a change of `rotation.enabled` | the daemon's goroutine neither starts nor stops |
| `ControlPortsFit`, `Startup` | | ROADMAP 3.1.2: "Validate all values (..., port ranges)" | only the range of the SOCKS ports is validated |
| `HttpServed`, `Startup` | | ROADMAP 3.2.3: "legacy generates Privoxy configs" | `run` starts no Privoxy, and a Tor before 0.4.8 opens no HTTP tunnel: nobody listens behind the HTTP frontend |
| `ProfileTakesEffect`, `ConfigLoad` | in `Startup.cfg` | README.md:227: `SPLITTER_PROFILE` | it is read after the profile was applied |
| `FlagSilences`, `ConfigLoad` | in `Startup.cfg` | ROADMAP 3.3.3, as above | `--log=false` leaves `logging.enabled` as the environment set it |
| `OneCheckerAlways`, `PeriodicChecker` | | dnsleak.go:239: "checker already running" | two Stops overlap; the later one clears the `cancelFunc` of a Start in between, so the next Start makes a second goroutine |
| `NeverPanics`, `PeriodicChecker` | | the same | the next Start also replaces `pc.done` before the goroutine of the one before has begun: both close the new channel, and the second close ends the program |
| `StopReturns`, `PeriodicChecker` | | ROADMAP 7.3.7: "Run at startup and periodically" | a proxy that does not answer holds the test, and Stop waits for it (dnsleak.go:260), also with one caller; with two, Stop may wait for the channel of a Start it did not cancel |
| `TestedPeriodically`, `PeriodicChecker` | | ROADMAP 7.3.7, as above | a proxy that does not answer holds the checker for ever |
| `FreshAnswers`, `ReputationCache` | | ROADMAP.md:263: "Cache TTL: 12h" | a fetch for one country stamps the entries of all, and the stamp is taken when the file is written, not when the answer came |

## 5. What is proved

Hardly a property below is inductive as it stands: each proof module defines the invariant that is (`Inv`, `IInv`), as a conjunction of named parts, shows that the
initial states have it and that every action keeps it, and derives the properties.
Invariants and action properties are proved under `Spec` (`CacheSpec` in
`ReputationCache`), without fairness.

`ProcessManagerProofs` (318 obligations) proves, for any sets `Procs` and
`Stoppers`, that `ProcessManager` keeps its safety properties and implements
`ProcessContract`. The only assumption is `SweeperAssumption`: the caller that
stands for StopAll is none of the others.

`StopJoinsExit`, for example, speaks of the kernel's view of a child, but what makes
a Stop return is the channel `done`. The inductive invariant `Inv` connects them:

* `SpawnShape`: how far Spawn got tells whether the child, its state, its entry in
  the list and its reaper exist;
* `ReaperShape`: the reaper reaps, then records, then closes `done`, and only its
  record says failed;
* `SignalShape`, `StopShape`: whoever signals has marked the process stopped and is
  alone in that, and a Stop that returned has seen `done` closed;
* `SweepShape`: a StopAll that returned has joined its Stop of every child of the
  snapshot.

`TypeStep`, `ChildStep`, `StopStep` and `SweepStep` each carry one part through
every action; `Invariance` combines them. `VerdictsFinal` adds one fact about two
consecutive states (`VerdictStep`), and `ContractHolds` maps every step to a step of
the contract or to a stutter (`ContractInit`, `ContractStep`).

`CountryRotationProofs` (311 obligations) proves `RotationMoves`, `BudgetKept`,
`FullCycleClears` and `StopJoins` for any finite set of instances, any countries and any
configurations (`RotationAssumption`). A cycle decides on copies of the instances and
of the configuration. `Copy` says that the first is exact for every instance whose
turn is still to come, although others have moved since; `Decision` that the rotation
under way was decided on it and that its instance has no second turn. For the budget,
the instances moved and those that may still be moved are counted together
(`Within`): a step of the loop only makes that set smaller, also when a reload has
meanwhile replaced the configuration (`StaysWithin`). `Cleared` says of a cycle that
covers every instance that those whose turn is past are where its configuration
allows, or had no other country to go to. `Stopped` ties Stop to the
channel it waits for.

`TorSupervisorProofs` (1093 obligations) proves `TypeOK`, `SingleTorAlone`,
`SupervisedAlone`, `OnlyLateSpawnIsLeft` and `ImplementsFleet` for any number of
processes (`SupervisorAssumption`). `Alone` says, without rotation, at which positions
of the supervisor no process is up, and that no other is up than the one it holds.
`Supervision` says, without rotation, that the waiter waits for the process in
`inst.proc` and has reported what became of it, that nobody asks a process to stop
before the shutdown, and that the state is never "failed" while a process is watched, so
that no crash is mistaken for one that was dealt with. `Swept` is what the shutdown
rests on: every process that was started is on the manager's list or about to be
added to it, the rotations are past before StopAll copies the list, and from the signal
on no Spawn goes past its look at the context, so that besides the copy there is at
most the process the supervisor holds. The
refinement needs `FleetInv`: during the startup nobody but the supervisor writes the
state, so the branches `TorFleet` leaves open only later are not taken before. There
is one lemma for each goroutine.

`TorFleetProofs` (279 obligations) proves `CountedOnce` and `ReadyMeansAll` for any
finite set of instances and any requests (`FleetAssumption`). `Loop` says how many the
startup has counted before and after it ends; the lemma `Room`, that an instance which
has not reported leaves a place in `readyCh`, is why no message is dropped.
`MutexAndShutdown` states what the liveness of the waiters rests on: who holds the
mutex is stopping or starting an instance and waits for nobody who wants it
(`HolderGoesOn`), and when the shutdown stops the first instance the rotations are past
(`ShutdownInOrder`).

`ConfigReloadProofs` (200 obligations) proves `DaemonFollows`, `NoTornRead` and
`ProxyFollows` for any settings, with or without a flag and for any number of edits
(`ReloadAssumption`). `Daemon` says that daemon and `appCfg` differ only between
UpdateConfig and the assignment that follows it, where the daemon has left the object
that is written and no cycle is still copying from it, since UpdateConfig waited for
the mutex under which a cycle copies; `Written`, that what a reload has adopted is in the file when it
spawns a process, and served, or about to be, from then on until a step fails. `Adoption` follows the sections
a reload takes over one by one: one that reports success has taken all but that of Tor
(`SuccessTakesAll`).

`CircuitRenewerProofs` (191 obligations) proves `NewnymAuthenticated` and
`NoneLeaked` for any finite set of instances and any number of lives of each Tor
(`RenewerAssumption`). `Connection` says what the connection of a worker is worth at
each of its positions, and that the connections it has opened and not closed are the
one it holds: `reconnect` closes the old one before it dials, and every return closes
the last. `EndsWithAll` adds that the collector counts each end of a worker
once (`Collected`): a renewer that is done and was not stopped has no worker left, and
none is started again.

`HealthProofs` (578 obligations) proves of `PeriodicChecker` `OneChecker`, `ClosedOnce`
and `QuietWhenStopped` for any number of callers, Starts, tests and results kept. All
three hold until some Stop clears the `cancelFunc` of a Start that came after it read
its own; the history variable `late` records that, and beyond it they fail
(section 4). So the invariant is `late \/ IInv`: the one step that breaks the
whole of the protocol is named, and it is the only one. `Latest` says that only the
goroutine of the last Start can be alive, `OwnChannel` that the channel it closes is
the one its Start made, and `StopShape` which Start a Stop cancels, whose channel it
waits for, and that nothing runs when it clears the `cancelFunc` of the last Start.
`OldestIsDropped` shows of the
list that it holds the last results, at most `Keep`, each once and in the order of the
tests, with the same proviso; `Ordered` adds that a running test is newer than all of them, and the lemma
`LastIsTail` what is left of a list that is cut.

The same module proves of `ReputationCache` `NeverOlder` and `KnownIsAnswered` for any countries, any lifetime and any time. `FileCurrent` says that the file holds the
newest answer of every country as long as no write was lost, `ReadCurrent` the same of
the copy a Check has read, and `FetchedLast` that what it fetched is no older.

`StartupProofs` (561 obligations) proves `PriorityKept`, `LoggingDecided`,
`SocksPortsFit` and `EveryInstanceServes` for any layers and profiles, any number of
countries, any ports and any releases. `LoadAssumption` gives the types of what a layer
may say, that it names one profile and gives one value of log at most, and that the name for "none" is no profile;
`StartupAssumption` says that a version has four parts and that ports are natural numbers. Of
`EveryInstanceServes` the theorem has the hypothesis `HttpStart > 0`: `Validate`
accepts 0 as `tor.start_http_port` (validate.go:69-71), the first instance then gets the HTTP
port 0, and 0 is what stands for no port in `buildInstanceConfig` and `BuildConfigData`.

`Layers` says what the number of instances may be once each layer is read, as one set
laid over the other; `Logging` the same of `log` and `logging.enabled`, which come down
side by side until the last step makes one of them; `Accept`, that what is started has passed `Validate`. The ports rest
on one operator, `Number`, by which `DetectAndCreate` counts the instances: it stays
below the product of countries and instances per country (`NumberRange`) and gives no number
twice (`NumberInjective`), which makes the ports of all instances, and so the
servers of HAProxy, as many as were asked for (`KeysCounted`, `OneEach`). `StartInv` says
of each step of the startup what it made of the one before. `ReleaseOrder` connects the
comparison of versions in the code with the order of the releases.

Each module proves on the way the types its invariant needs. Model-checked only: every
liveness property, since the prover covers neither ENABLED nor fairness, and, on small
instances, that the properties of section 4 fail. No module uses recursion.

## 6. What is not modelled

* The templates of Privoxy and the rest of torrc and haproxy.cfg, the parsing of
  version strings, OpenSSL detection, bridges, the DNS and SOCKS protocols, the score
  of an exit, the contents of a status answer, output and logging: data and format
  without control.
* `internal/proxy`, `internal/network` and `internal/metrics`: no other package
  imports them, so `run` never reaches their code. `StartAll` and `SetBridgesForAll`
  of the fleet have no caller in it either.
* The reuse of a process id between the exit of a child and the signal.
* Go data races as such: the fields without a lock (`proc`, `cancelFunc`, `pc.done`)
  are words, so that a racing read sees the old or the new one; that is what the
  models do, step by step.

## 7. What is left

The parts that `run` reaches and that decide something concurrently are modelled. What
could be added is of less weight:

1. `Filter` and the score of an exit in `reputation.go`, and `AdaptiveInterval` of the
   renewal: tables over data, better tested than modelled.
2. The port allocator and the proxies, once `run` uses them: partial failure while one
   Privoxy per instance is started.
3. A status answer as two readings of each state (`status.go:59`): it may contradict
   itself for a moment, and nothing but the display depends on it.
