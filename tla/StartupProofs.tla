---------------------------- MODULE StartupProofs ----------------------------
(***************************************************************************)
(* Proofs about ConfigLoad and Startup, for any layers of configuration,   *)
(* any number of countries and of instances in each, any ports and any     *)
(* releases of Tor: which layer decides, when logging is on, and that      *)
(* every instance asked for is served at a port of its own.                *)
(***************************************************************************)
EXTENDS Startup, FiniteSetTheorems, FunctionTheorems, TLAPS

LoadSteps    == {"yaml", "profile", "env", "flags", "derive", "validate"}
StartupSteps == {"loaded", "checked", "selected", "created", "started", "serving"}

\* cfg has the fields of the configuration; the inputs are those of the layers.
LoadTypes ==
  /\ file \in Files /\ env \in Environments /\ flags \in Flags
  /\ pc \in LoadSteps \cup StartupSteps \cup {"failed"}
  /\ cfg.perCountry \in Int /\ cfg.log \in BOOLEAN /\ cfg.enabled \in BOOLEAN
  /\ cfg = [perCountry |-> cfg.perCountry, log |-> cfg.log, enabled |-> cfg.enabled,
            profile |-> cfg.profile]

-----------------------------------------------------------------------------
(* The layers of Load *)

\* What instances.per_country may be once a layer and those below it are read.
FromFile    == Above(file.perCountry, {DefaultPerCountry})
FromProfile == Above(ProfileSays, FromFile)
FromEnv     == Above(env.perCountry, FromProfile)
FromFlags   == Above(flags.perCountry, FromEnv)

\* The same of log, which a profile does not have, and of logging.enabled, which
\* the command line does not have.
LogFile  == Above(file.log, {FALSE})
LogEnv   == Above(env.log, LogFile)
LogFlags == Above(flags.log, LogEnv)
EnabledFile    == Above(file.enabled, {FALSE})
EnabledProfile == Above(ProfileEnables, EnabledFile)
EnabledEnv     == Above(env.log \cup env.enabled, EnabledProfile)

Layers ==
  /\ pc = "yaml" => cfg = Defaults
  /\ pc = "profile" => /\ cfg.perCountry \in FromFile
                       /\ cfg.profile \in Over(NoProfile, file.profile)
  /\ pc = "env" => cfg.perCountry \in FromProfile
  /\ pc = "flags" => cfg.perCountry \in FromEnv
  /\ pc \in {"derive", "validate"} \cup StartupSteps => cfg.perCountry \in FromFlags

\* The two booleans come down the layers side by side, until the last step makes
\* one of them.
Logging ==
  /\ pc = "profile" => cfg.log \in LogFile /\ cfg.enabled \in EnabledFile
  /\ pc = "env" => cfg.log \in LogFile /\ cfg.enabled \in EnabledProfile
  /\ pc = "flags" => cfg.log \in LogEnv /\ cfg.enabled \in EnabledEnv
  /\ pc = "derive" => cfg.log \in LogFlags /\ cfg.enabled \in EnabledEnv
  /\ pc \in {"validate"} \cup StartupSteps =>
       \E log \in LogFlags, enabled \in EnabledEnv : cfg.enabled = (log \/ enabled)

\* Only what Validate has accepted is started.
Accept == pc \in StartupSteps => Valid(cfg)

LoadInv == LoadTypes /\ Layers /\ Logging /\ Accept

\* A layer is laid over a value of some type and leaves one of that type.
LEMMA OverType ==
  ASSUME NEW T, NEW old \in T, NEW layer, layer \subseteq T, NEW new \in Over(old, layer)
  PROVE  new \in T
  BY DEF Over

\* What it leaves is of the set that stands above what could be there before.
LEMMA OverAbove ==
  ASSUME NEW below, NEW old \in below, NEW layer, NEW new \in Over(old, layer)
  PROVE  new \in Above(layer, below)
  BY DEF Over, Above

LEMMA LayerTypes ==
  ASSUME LoadTypes
  PROVE  /\ file.perCountry \subseteq Int /\ file.log \subseteq BOOLEAN
         /\ file.enabled \subseteq BOOLEAN
         /\ env.perCountry \subseteq Int /\ env.log \subseteq BOOLEAN
         /\ env.enabled \subseteq BOOLEAN
         /\ flags.perCountry \subseteq Int /\ flags.log \subseteq BOOLEAN
         /\ \A p, q \in file.profile : p = q
         /\ \A p, q \in flags.profile : p = q
  BY LoadAssumption DEF LoadTypes

\* The name ApplyProfile looks up is the one that ProfileSays speaks of.
LEMMA ProfileNamed ==
  ASSUME LoadTypes, cfg.profile \in Over(NoProfile, file.profile),
         NEW name \in Over(cfg.profile, flags.profile)
  PROVE  /\ name \in DOMAIN Profiles => /\ ProfileSays = Profiles[name].perCountry
                                       /\ ProfileEnables = Profiles[name].enabled
         /\ name = NoProfile => ProfileSays = {} /\ ProfileEnables = {}
<1>1. name \in DOMAIN Profiles => Named \cap DOMAIN Profiles = {name}
  BY LayerTypes, LoadAssumption DEF Over, Named
<1>2. name = NoProfile => Named \cap DOMAIN Profiles = {}
  BY LayerTypes, LoadAssumption DEF Over, Named
<1> QED
  BY <1>1, <1>2 DEF ProfileSays, ProfileEnables

LEMMA LoadInitial == StartInit => LoadInv
<1> SUFFICES ASSUME StartInit PROVE LoadInv
  OBVIOUS
<1> USE DEF StartInit, Init, Defaults, DefaultPerCountry
<1>1. LoadTypes
  BY DEF LoadTypes, LoadSteps
<1>2. Layers /\ Logging /\ Accept
  BY DEF Layers, Logging, Accept, StartupSteps
<1> QED
  BY <1>1, <1>2 DEF LoadInv

\* The steps of run after Load leave the configuration and its layers alone.
Begun == \/ CheckDependencies \/ SelectRandom \/ DetectAndCreate \/ StartAll
         \/ BuildConfigData

LEMMA BegunLeavesLoad ==
  ASSUME Begun
  PROVE  /\ UNCHANGED <<inputs, cfg, settings>>
         /\ pc \in StartupSteps /\ pc' \in StartupSteps \cup {"failed"}
  BY DEF Begun, CheckDependencies, SelectRandom, DetectAndCreate, StartAll,
         BuildConfigData, StartupSteps

\* The layers of a run stay what they are, and so do the sets made of them.
LEMMA SameLayers ==
  ASSUME UNCHANGED inputs
  PROVE  /\ FromFile' = FromFile /\ FromProfile' = FromProfile
         /\ FromEnv' = FromEnv /\ FromFlags' = FromFlags
         /\ LogFile' = LogFile /\ LogEnv' = LogEnv /\ LogFlags' = LogFlags
         /\ EnabledFile' = EnabledFile /\ EnabledProfile' = EnabledProfile
         /\ EnabledEnv' = EnabledEnv
  BY DEF inputs, FromFile, FromProfile, FromEnv, FromFlags, LogFile, LogEnv, LogFlags,
         EnabledFile, EnabledProfile, EnabledEnv, ProfileSays, ProfileEnables, Named

\* A load that fails promises nothing more of the configuration.
LEMMA FailKeeps ==
  ASSUME LoadInv, pc' = "failed", UNCHANGED <<inputs, cfg>>
  PROVE  LoadInv'
  BY DEF LoadInv, LoadTypes, Layers, Logging, Accept, inputs, LoadSteps, StartupSteps

LEMMA LoadYAMLKeeps == LoadInv /\ LoadYAML => LoadInv'
<1> SUFFICES ASSUME LoadInv, LoadYAML PROVE LoadInv'
  OBVIOUS
<1>f. CASE pc' = "failed" /\ UNCHANGED cfg
  BY <1>f, FailKeeps DEF LoadYAML
<1>s. CASE /\ \E n \in Over(cfg.perCountry, file.perCountry),
                 l \in Over(cfg.log, file.log), e \in Over(cfg.enabled, file.enabled),
                 p \in Over(cfg.profile, file.profile) :
                cfg' = [perCountry |-> n, log |-> l, enabled |-> e, profile |-> p]
           /\ pc' = After("yaml")
  <2>1. PICK n \in Over(cfg.perCountry, file.perCountry), l \in Over(cfg.log, file.log),
             e \in Over(cfg.enabled, file.enabled), p \in Over(cfg.profile, file.profile) :
          cfg' = [perCountry |-> n, log |-> l, enabled |-> e, profile |-> p]
    BY <1>s
  <2>2. /\ cfg = Defaults /\ pc' = "profile" /\ UNCHANGED inputs
    BY <1>s DEF LoadInv, Layers, LoadYAML, After
  <2>3. n \in Int /\ l \in BOOLEAN /\ e \in BOOLEAN
    BY LayerTypes DEF Over, LoadInv, LoadTypes
  <2>4. LoadTypes'
    BY <2>1, <2>2, <2>3 DEF LoadInv, LoadTypes, inputs, LoadSteps
  <2>5. n \in FromFile /\ l \in LogFile /\ e \in EnabledFile
    BY <2>2 DEF Over, Above, Defaults, FromFile, LogFile, EnabledFile
  <2>6. cfg'.profile \in Over(NoProfile, file.profile)
    BY <2>1, <2>2 DEF Defaults
  <2>7. Layers' /\ Logging'
    BY <2>1, <2>2, <2>5, <2>6, SameLayers DEF Layers, Logging, inputs, StartupSteps
  <2> QED
    BY <2>2, <2>4, <2>7 DEF LoadInv, Accept, StartupSteps
<1> QED
  BY <1>f, <1>s DEF LoadYAML

LEMMA ApplyProfileKeeps == LoadInv /\ ApplyProfile => LoadInv'
<1> SUFFICES ASSUME LoadInv, ApplyProfile PROVE LoadInv'
  OBVIOUS
<1>t. LoadTypes /\ Layers /\ Logging
  BY DEF LoadInv
<1>u. UNCHANGED inputs /\ pc = "profile"
  BY DEF ApplyProfile
<1>p. PICK name \in Over(cfg.profile, flags.profile) :
       \/ /\ name = NoProfile
          /\ cfg' = [cfg EXCEPT !.profile = name]
          /\ pc' = After("profile")
       \/ /\ name \in DOMAIN Profiles
          /\ \E n \in Over(cfg.perCountry, Profiles[name].perCountry),
                e \in Over(cfg.enabled, Profiles[name].enabled) :
               cfg' = [cfg EXCEPT !.profile = name, !.perCountry = n, !.enabled = e]
          /\ pc' = After("profile")
       \/ /\ name # NoProfile
          /\ pc' = "failed"
          /\ UNCHANGED cfg
  BY DEF ApplyProfile
<1>n. /\ cfg.perCountry \in FromFile /\ cfg.profile \in Over(NoProfile, file.profile)
      /\ cfg.log \in LogFile /\ cfg.enabled \in EnabledFile
  BY <1>t, <1>u DEF Layers, Logging
<1>1. CASE /\ name = NoProfile
           /\ cfg' = [cfg EXCEPT !.profile = name]
           /\ pc' = After("profile")
  <2>1. cfg' = [perCountry |-> cfg.perCountry, log |-> cfg.log,
                enabled |-> cfg.enabled, profile |-> name]
    BY <1>1, <1>t DEF LoadTypes
  <2>2. LoadTypes' /\ pc' = "env"
    BY <1>1, <2>1, <1>t, <1>u DEF LoadTypes, LoadSteps, inputs, After
  <2>3. FromProfile = FromFile /\ EnabledProfile = EnabledFile
    BY <1>1, <1>n, <1>t, ProfileNamed DEF FromProfile, EnabledProfile, Above
  <2>4. Layers' /\ Logging'
    BY <2>1, <2>2, <2>3, <1>n, <1>u, SameLayers DEF Layers, Logging, StartupSteps
  <2> QED
    BY <2>2, <2>4 DEF LoadInv, Accept, StartupSteps
<1>2. CASE /\ name \in DOMAIN Profiles
           /\ \E n \in Over(cfg.perCountry, Profiles[name].perCountry),
                 e \in Over(cfg.enabled, Profiles[name].enabled) :
                cfg' = [cfg EXCEPT !.profile = name, !.perCountry = n, !.enabled = e]
           /\ pc' = After("profile")
  <2>1. PICK n \in Over(cfg.perCountry, Profiles[name].perCountry),
             e \in Over(cfg.enabled, Profiles[name].enabled) :
          cfg' = [cfg EXCEPT !.profile = name, !.perCountry = n, !.enabled = e]
    BY <1>2
  <2>2. cfg' = [perCountry |-> n, log |-> cfg.log, enabled |-> e, profile |-> name]
    BY <2>1, <1>t DEF LoadTypes
  <2>3. n \in Int /\ e \in BOOLEAN
    BY <1>2, <1>t, LoadAssumption DEF Over, LoadTypes
  <2>4. LoadTypes' /\ pc' = "env"
    BY <1>2, <2>2, <2>3, <1>t, <1>u DEF LoadTypes, LoadSteps, inputs, After
  <2>5. n \in FromProfile /\ e \in EnabledProfile
    BY <1>2, <1>n, <1>t, ProfileNamed, OverAbove DEF FromProfile, EnabledProfile
  <2>6. Layers' /\ Logging'
    BY <2>2, <2>4, <2>5, <1>n, <1>u, SameLayers DEF Layers, Logging, StartupSteps
  <2> QED
    BY <2>4, <2>6 DEF LoadInv, Accept, StartupSteps
<1>3. CASE pc' = "failed" /\ UNCHANGED cfg
  BY <1>3, <1>u, FailKeeps
<1> QED
  BY <1>p, <1>1, <1>2, <1>3

LEMMA ApplyEnvKeeps == LoadInv /\ ApplyEnv => LoadInv'
<1> SUFFICES ASSUME LoadInv, ApplyEnv PROVE LoadInv'
  OBVIOUS
<1>1. PICK n \in Over(cfg.perCountry, env.perCountry), l \in Over(cfg.log, env.log),
           e \in Over(cfg.enabled, env.log \cup env.enabled),
           p \in Over(cfg.profile, env.profile) :
        cfg' = [perCountry |-> n, log |-> l, enabled |-> e, profile |-> p]
  BY DEF ApplyEnv
<1>2. /\ pc' = "flags" /\ UNCHANGED inputs
      /\ cfg.perCountry \in FromProfile
      /\ cfg.log \in LogFile /\ cfg.enabled \in EnabledProfile
  BY DEF LoadInv, Layers, Logging, ApplyEnv, After
<1>3. n \in Int /\ l \in BOOLEAN /\ e \in BOOLEAN
  BY LayerTypes DEF Over, LoadInv, LoadTypes
<1>4. LoadTypes'
  BY <1>1, <1>2, <1>3 DEF LoadInv, LoadTypes, inputs, LoadSteps
<1>5. n \in FromEnv /\ l \in LogEnv /\ e \in EnabledEnv
  BY <1>2, OverAbove DEF FromEnv, LogEnv, EnabledEnv
<1>6. Layers' /\ Logging'
  BY <1>1, <1>2, <1>5, SameLayers DEF Layers, Logging, StartupSteps
<1> QED
  BY <1>2, <1>4, <1>6 DEF LoadInv, Accept, StartupSteps

LEMMA ApplyFlagsKeeps == LoadInv /\ ApplyFlags => LoadInv'
<1> SUFFICES ASSUME LoadInv, ApplyFlags PROVE LoadInv'
  OBVIOUS
<1>1. PICK n \in Over(cfg.perCountry, flags.perCountry), l \in Over(cfg.log, flags.log),
           p \in Over(cfg.profile, flags.profile) :
        cfg' = [cfg EXCEPT !.perCountry = n, !.log = l, !.profile = p]
  BY DEF ApplyFlags
<1>2. /\ pc' = "derive" /\ UNCHANGED inputs /\ LoadTypes
      /\ cfg.perCountry \in FromEnv
      /\ cfg.log \in LogEnv /\ cfg.enabled \in EnabledEnv
  BY DEF LoadInv, Layers, Logging, ApplyFlags, After
<1>3. n \in Int /\ l \in BOOLEAN
  BY <1>2, LayerTypes DEF Over, LoadTypes
<1>4. cfg' = [perCountry |-> n, log |-> l, enabled |-> cfg.enabled, profile |-> p]
  BY <1>1, <1>2 DEF LoadTypes
<1>5. LoadTypes'
  BY <1>2, <1>3, <1>4 DEF LoadTypes, inputs, LoadSteps
<1>6. n \in FromFlags /\ l \in LogFlags
  BY <1>2, OverAbove DEF FromFlags, LogFlags
<1>7. Layers' /\ Logging'
  BY <1>2, <1>4, <1>6, SameLayers DEF Layers, Logging, StartupSteps
<1> QED
  BY <1>2, <1>5, <1>7 DEF LoadInv, Accept, StartupSteps

LEMMA DeriveKeeps == LoadInv /\ Derive => LoadInv'
<1> SUFFICES ASSUME LoadInv, Derive PROVE LoadInv'
  OBVIOUS
<1>1. /\ pc = "derive" /\ pc' = "validate" /\ UNCHANGED inputs
      /\ LoadTypes /\ cfg.perCountry \in FromFlags
      /\ cfg.log \in LogFlags /\ cfg.enabled \in EnabledEnv
  BY DEF LoadInv, Layers, Logging, Derive
<1>2. cfg' = [perCountry |-> cfg.perCountry, log |-> cfg.log,
              enabled |-> cfg.enabled \/ cfg.log, profile |-> cfg.profile]
  BY <1>1 DEF Derive, Derived, LoadTypes
<1>3. LoadTypes'
  BY <1>1, <1>2 DEF LoadTypes, inputs, LoadSteps
<1>4. cfg'.enabled = (cfg.log \/ cfg.enabled)
  BY <1>1, <1>2 DEF LoadTypes
<1> QED
  BY <1>1, <1>2, <1>3, <1>4, SameLayers DEF LoadInv, Layers, Logging, Accept, StartupSteps

LEMMA ValidateKeeps == LoadInv /\ Validate => LoadInv'
  BY SameLayers DEF LoadInv, LoadTypes, Layers, Logging, Accept, Validate, inputs,
     LoadSteps, StartupSteps, Valid

LEMMA BegunKeeps == LoadInv /\ Begun => LoadInv'
  BY BegunLeavesLoad, SameLayers
     DEF LoadInv, LoadTypes, Layers, Logging, Accept, inputs, LoadSteps, StartupSteps, Valid

LEMMA LoadInvariance == Spec => []LoadInv
<1>1. LoadInv /\ [Next]_vars => LoadInv'
  <2> SUFFICES ASSUME LoadInv, [Next]_vars PROVE LoadInv'
    OBVIOUS
  <2>1. CASE Load
    BY <2>1, LoadYAMLKeeps, ApplyProfileKeeps, ApplyEnvKeeps, ApplyFlagsKeeps,
       DeriveKeeps, ValidateKeeps DEF Load
  <2>2. CASE Begun
    BY <2>2, BegunKeeps
  <2>3. CASE UNCHANGED vars
    BY <2>3, SameLayers
       DEF vars, loadVars, inputs, LoadInv, LoadTypes, Layers, Logging, Accept, Valid
  <2> QED
    BY <2>1, <2>2, <2>3 DEF Next, Begun
<1> QED
  BY <1>1, LoadInitial, PTL DEF Spec

\* config_test.go:204: the highest layer that mentions the number of instances
\* decides it, for whatever the layers say.
THEOREM FlagOverEnvOverProfileOverFile == Spec => []PriorityKept
<1>1. LoadInv => PriorityKept
  <2> SUFFICES ASSUME LoadInv, Loaded PROVE PriorityKept
    BY DEF PriorityKept
  <2>1. cfg.perCountry \in FromFlags
    BY DEF LoadInv, LoadTypes, Layers, Loaded, LoadSteps
  <2> QED
    BY <2>1 DEF PriorityKept, FromFlags, FromEnv, FromProfile, FromFile
<1> QED
  BY <1>1, LoadInvariance, PTL

\* Logging is on exactly if the highest layer that mentions log (LOG sets it) or
\* the highest that mentions logging.enabled (LOG and LOGGING_ENABLED set it) says
\* so, in whatever order those two stand in the environment (env.go:99-101,
\* loader.go:67): no overridden layer, and no profile but the named one, counts.
THEOREM LoggingIsDecided == Spec => []LoggingDecided
<1>1. LoadInv => LoggingDecided
  <2> SUFFICES ASSUME LoadInv, Loaded PROVE LoggingDecided
    BY DEF LoggingDecided
  <2>1. \E log \in LogFlags, enabled \in EnabledEnv : cfg.enabled = (log \/ enabled)
    BY DEF LoadInv, LoadTypes, Logging, Loaded, LoadSteps
  <2> QED
    BY <2>1 DEF LoggingDecided, LogFlags, LogEnv, LogFile, EnabledEnv, EnabledProfile,
       EnabledFile
<1> QED
  BY <1>1, LoadInvariance, PTL

-----------------------------------------------------------------------------
(* Numbers, releases and sets of servers *)

\* Instance i of country c has a number below that of all instances ...
LEMMA NumberRange ==
  ASSUME NEW C \in Nat, NEW n \in Nat, NEW c \in 1 .. C, NEW i \in 1 .. n
  PROVE  (c - 1) * n + i - 1 \in 0 .. C * n - 1
<1>1. (C - c) * n \in Nat /\ (c - 1) * n \in Nat
  OBVIOUS
<1>2. C * n = (C - c) * n + (c - 1) * n + n
  OBVIOUS
<1> QED
  BY <1>1, <1>2

\* ... and of its own.
LEMMA NumberInjective ==
  ASSUME NEW n \in Nat, NEW k \in Nat \X (1 .. n), NEW l \in Nat \X (1 .. n),
         (k[1] - 1) * n + k[2] - 1 = (l[1] - 1) * n + l[2] - 1
  PROVE  k = l
<1>1. ASSUME NEW a \in Nat, NEW b \in Nat, a < b
      PROVE  (b - 1) * n >= (a - 1) * n + n
  <2>1. (b - a - 1) * n \in Nat
    BY <1>1
  <2>2. (b - 1) * n = (b - a - 1) * n + (a - 1) * n + n
    OBVIOUS
  <2> QED
    BY <2>1, <2>2
<1>2. /\ k[1] \in Nat /\ k[2] \in 1 .. n /\ l[1] \in Nat /\ l[2] \in 1 .. n
      /\ (k[1] - 1) * n \in Int /\ (l[1] - 1) * n \in Int
  OBVIOUS
<1>3. ~ (k[1] < l[1])
  BY <1>1, <1>2
<1>4. ~ (l[1] < k[1])
  BY <1>1, <1>2
<1>5. k[1] = l[1] /\ k[2] = l[2]
  <2>1. k[1] = l[1]
    BY <1>2, <1>3, <1>4
  <2> QED
    BY <1>2, <2>1
<1> QED
  BY <1>5

\* The comparison of the code, component by component, is the order of releases.
LEMMA ReleaseOrder ==
  ASSUME NEW v \in [1 .. 4 -> Nat], NEW w \in [1 .. 4 -> Nat]
  PROVE  AtLeast(v, w) <=> NoEarlier(v, w)
<1>1. AtLeast(v, w) => NoEarlier(v, w)
  <2> SUFFICES ASSUME AtLeast(v, w), v # w PROVE NoEarlier(v, w)
    BY DEF NoEarlier
  <2>1. \/ v[1] # w[1]
        \/ v[1] = w[1] /\ v[2] # w[2]
        \/ v[1] = w[1] /\ v[2] = w[2] /\ v[3] # w[3]
        \/ v[1] = w[1] /\ v[2] = w[2] /\ v[3] = w[3] /\ v[4] # w[4]
    OBVIOUS
  <2>2. PICK i \in 1 .. 4 : v[i] # w[i] /\ \A j \in 1 .. i - 1 : v[j] = w[j]
    BY <2>1
  <2>3. v[i] > w[i]
    BY <2>2 DEF AtLeast
  <2> QED
    BY <2>2, <2>3 DEF NoEarlier
<1>2. NoEarlier(v, w) => AtLeast(v, w)
  BY DEF NoEarlier, AtLeast
<1> QED
  BY <1>1, <1>2

\* As many values as there are arguments, if each argument has one of its own.
LEMMA OneEach ==
  ASSUME NEW f, IsFiniteSet(DOMAIN f), f = [x \in DOMAIN f |-> f[x]],
         \A x, y \in DOMAIN f : f[x] = f[y] => x = y
  PROVE  Cardinality({f[x] : x \in DOMAIN f}) = Cardinality(DOMAIN f)
<1> DEFINE T == {f[x] : x \in DOMAIN f}
<1>1. f \in [DOMAIN f -> T]
  OBVIOUS
<1>2. f \in Bijection(DOMAIN f, T)
  BY <1>1, Fun_IsBij
<1> QED
  BY <1>2, FS_Bijection DEF ExistsBijection

-----------------------------------------------------------------------------
(* What each step of the startup has made *)

Keys == (1 .. Countries) \X (1 .. cfg.perCountry)

\* Countries allowed ones, each once.
Chosen == /\ countries \in [1 .. Countries -> Available]
          /\ \A i, j \in 1 .. Countries : countries[i] = countries[j] => i = j

Created ==
  /\ DOMAIN instances = Keys
  /\ \A k \in Keys :
       LET id == Number(k[1], k[2]) IN
       /\ instances[k].id = id /\ instances[k].country = countries[k[1]]
       /\ instances[k].socks = SocksStart + id
       /\ instances[k].http = IF Supports(version, "http_tunnel") THEN HttpStart + id ELSE 0

Configured ==
  /\ DOMAIN torrcs = Keys
  /\ \A k \in Keys :
       /\ torrcs[k].socks = instances[k].socks /\ torrcs[k].http = instances[k].http
       /\ torrcs[k].options = {f \in DOMAIN Since \ {"http_tunnel"} : Supports(version, f)}

Served == backends = [socks |-> {instances[k].socks : k \in DOMAIN instances},
                      http |-> HttpBackends]

StartInv ==
  /\ pc \in StartupSteps \ {"loaded"} => version \in Versions
  /\ pc \in {"selected", "created", "started", "serving"} => Chosen
  /\ pc \in {"created", "started", "serving"} => Created
  /\ pc \notin {"created", "started", "serving"} => instances = <<>>
  /\ pc \in {"started", "serving"} => Configured
  /\ pc = "serving" => Served

StartupInv == LoadInv /\ StartInv

\* What Validate has accepted: a number of instances, and ports for them all.
LEMMA Accepts ==
  ASSUME LoadInv, pc \in StartupSteps
  PROVE  /\ cfg.perCountry \in Nat \ {0} /\ Countries \in Nat \ {0}
         /\ SocksStart + cfg.perCountry * Countries <= MaxPort
  BY LoadAssumption DEF LoadInv, LoadTypes, Accept, Valid

LEMMA StartInitial == StartInit => StartInv
  BY DEF StartInit, Init, StartInv, StartupSteps

LEMMA LoadKeepsStart ==
  StartupInv /\ Load /\ UNCHANGED <<settings, version, madeVars>> => StartInv'
<1> SUFFICES ASSUME StartupInv, Load, UNCHANGED <<settings, version, madeVars>>
             PROVE  StartInv'
  OBVIOUS
<1>1. pc \in LoadSteps /\ pc' \in LoadSteps \cup {"loaded", "failed"}
  BY DEF Load, LoadYAML, ApplyProfile, ApplyEnv, ApplyFlags, Derive, Validate, After,
         LoadSteps
<1> QED
  BY <1>1 DEF StartupInv, StartInv, LoadSteps, StartupSteps, madeVars

LEMMA BegunKeepsStart == StartupInv /\ Begun => StartInv'
<1> SUFFICES ASSUME StartupInv, Begun PROVE StartInv'
  OBVIOUS
<1>t. StartInv /\ UNCHANGED <<cfg, mode, blacklisted>> /\ Keys' = Keys /\ Available' = Available
  BY BegunLeavesLoad DEF StartupInv, settings, Keys, Available
<1>n. \A c, i : Number(c, i)' = Number(c, i)
  BY <1>t DEF Number
<1>1. CASE CheckDependencies
  BY <1>1, <1>t DEF CheckDependencies, StartInv, StartupSteps, madeVars
<1>2. CASE SelectRandom
  BY <1>2, <1>t DEF SelectRandom, StartInv, StartupSteps, Chosen
<1>3. CASE DetectAndCreate
  <2>1. pc = "selected" /\ pc' = "created" /\ Chosen
        /\ UNCHANGED <<version, countries, torrcs, backends>>
    BY <1>3, <1>t DEF DetectAndCreate, StartInv
  <2>2. Len(countries) = Countries
    BY <2>1, Accepts DEF Chosen, StartupInv, StartupSteps
  <2>3. Created'
    BY <1>3, <1>t, <1>n, <2>1, <2>2 DEF DetectAndCreate, Created, Keys, Supports
  <2> QED
    BY <1>t, <2>1, <2>3 DEF StartInv, StartupSteps, Chosen
<1>4. CASE StartAll
  <2>1. pc = "created" /\ pc' = "started" /\ Chosen /\ Created
        /\ UNCHANGED <<version, countries, instances, backends>>
    BY <1>4, <1>t DEF StartAll, StartInv
  <2>2. Configured'
    BY <1>4, <1>t, <2>1 DEF StartAll, Created, Configured, Supports
  <2>3. Created' /\ Chosen'
    BY <1>t, <1>n, <2>1 DEF Created, Chosen, Supports
  <2> QED
    BY <1>t, <2>1, <2>2, <2>3 DEF StartInv, StartupSteps
<1>5. CASE BuildConfigData
  <2>1. pc = "started" /\ pc' = "serving" /\ Chosen /\ Created /\ Configured
        /\ UNCHANGED <<version, countries, instances, torrcs>>
    BY <1>5, <1>t DEF BuildConfigData, StartInv
  <2>2. Served'
    BY <1>5, <1>t, <2>1 DEF BuildConfigData, Served, HttpBackends
  <2>3. Created' /\ Chosen' /\ Configured'
    BY <1>t, <1>n, <2>1 DEF Created, Chosen, Configured, Supports
  <2> QED
    BY <1>t, <2>1, <2>2, <2>3 DEF StartInv, StartupSteps
<1> QED
  BY <1>1, <1>2, <1>3, <1>4, <1>5 DEF Begun

LEMMA StartupInvariance == Spec => []StartupInv
<1>1. StartupInv /\ LoadInv' /\ [Next]_vars => StartInv'
  <2>1. CASE UNCHANGED vars
    BY <2>1 DEF vars, loadVars, settings, madeVars, StartupInv, StartInv, Chosen, Available,
       Created, Configured, Served, Keys, Number, HttpBackends
  <2> QED
    BY <2>1, LoadKeepsStart, BegunKeepsStart DEF Next, Begun
<1> QED
  BY <1>1, StartInitial, LoadInvariance, PTL DEF Spec, StartupInv

-----------------------------------------------------------------------------
(* The instances have their ports *)

\* Each instance has a number of its own, below the number of instances.
LEMMA Numbered ==
  ASSUME LoadInv, pc \in StartupSteps
  PROVE  /\ \A k \in Keys : Number(k[1], k[2]) \in 0 .. Countries * cfg.perCountry - 1
         /\ \A k, l \in Keys : Number(k[1], k[2]) = Number(l[1], l[2]) => k = l
<1>t. cfg.perCountry \in Nat /\ Countries \in Nat
  BY Accepts
<1>1. ASSUME NEW k \in Keys
      PROVE  Number(k[1], k[2]) \in 0 .. Countries * cfg.perCountry - 1
  <2>1. k[1] \in 1 .. Countries /\ k[2] \in 1 .. cfg.perCountry
    BY DEF Keys
  <2> QED
    BY <1>t, <2>1, NumberRange DEF Number
<1>2. ASSUME NEW k \in Keys, NEW l \in Keys, Number(k[1], k[2]) = Number(l[1], l[2])
      PROVE  k = l
  <2>1. k \in Nat \X (1 .. cfg.perCountry) /\ l \in Nat \X (1 .. cfg.perCountry)
    BY <1>t DEF Keys
  <2>2. (k[1] - 1) * cfg.perCountry + k[2] - 1 = (l[1] - 1) * cfg.perCountry + l[2] - 1
    BY <1>2 DEF Number
  <2> QED
    BY <1>t, <2>1, <2>2, NumberInjective, Zenon
<1> QED
  BY <1>1, <1>2

\* The bound Validate checks is the one DetectAndCreate needs.
THEOREM EveryInstanceHasItsPort == Spec => []SocksPortsFit
<1>1. StartupInv => SocksPortsFit
  <2> SUFFICES ASSUME StartupInv, NEW k \in DOMAIN instances
               PROVE  instances[k].socks \in SocksStart .. MaxPort
    BY DEF SocksPortsFit
  <2>1. pc \in {"created", "started", "serving"} /\ LoadInv /\ Created
    BY DEF StartupInv, StartInv
  <2>2. /\ Number(k[1], k[2]) \in 0 .. Countries * cfg.perCountry - 1
        /\ instances[k].socks = SocksStart + Number(k[1], k[2])
    BY <2>1, Numbered DEF Created, StartupSteps
  <2>3. /\ cfg.perCountry \in Nat /\ Countries \in Nat
        /\ SocksStart + cfg.perCountry * Countries <= MaxPort
    BY <2>1, Accepts DEF StartupSteps
  <2>4. cfg.perCountry * Countries = Countries * cfg.perCountry
        /\ Countries * cfg.perCountry \in Nat
    BY <2>3
  <2> QED
    BY <2>2, <2>3, <2>4, LoadAssumption
<1> QED
  BY <1>1, StartupInvariance, PTL

LEMMA IntervalCounted ==
  ASSUME NEW n \in Nat \ {0}
  PROVE  IsFiniteSet(1 .. n) /\ Cardinality(1 .. n) = n
  BY FS_Interval

\* There are as many instances as were asked for.
LEMMA KeysCounted ==
  ASSUME LoadInv, pc \in StartupSteps
  PROVE  IsFiniteSet(Keys) /\ Cardinality(Keys) = Countries * cfg.perCountry
<1>1. cfg.perCountry \in Nat \ {0} /\ Countries \in Nat \ {0}
  BY Accepts
<1>2. IsFiniteSet(1 .. Countries) /\ Cardinality(1 .. Countries) = Countries
  BY <1>1, IntervalCounted, Zenon
<1>3. /\ IsFiniteSet(1 .. cfg.perCountry)
      /\ Cardinality(1 .. cfg.perCountry) = cfg.perCountry
  BY <1>1, IntervalCounted, Zenon
<1>4. /\ IsFiniteSet(Keys)
      /\ Cardinality(Keys) = Cardinality(1 .. Countries) * Cardinality(1 .. cfg.perCountry)
  BY <1>2, <1>3, FS_Product, Zenon DEF Keys
<1> QED
  BY <1>2, <1>3, <1>4, Zenon

\* A server for each instance, if their ports follow the instances' numbers.
LEMMA ServersCounted ==
  ASSUME LoadInv, pc \in StartupSteps, NEW port, NEW start \in Int,
         port = [k \in Keys |-> start + Number(k[1], k[2])]
  PROVE  Cardinality({port[k] : k \in Keys}) = Countries * cfg.perCountry
<1>1. ASSUME NEW k \in Keys, NEW l \in Keys, port[k] = port[l]
      PROVE  k = l
  <2>1. Number(k[1], k[2]) \in Int /\ Number(l[1], l[2]) \in Int
    BY Numbered
  <2>2. port[k] = start + Number(k[1], k[2]) /\ port[l] = start + Number(l[1], l[2])
    OBVIOUS
  <2>3. start + Number(k[1], k[2]) = start + Number(l[1], l[2])
    BY <1>1, <2>2, Zenon
  <2>4. \A a, b \in Int : start + a = start + b => a = b
    OBVIOUS
  <2>5. Number(k[1], k[2]) = Number(l[1], l[2])
    BY <2>1, <2>3, <2>4, Zenon
  <2> QED
    BY <2>5, Numbered
<1>2. DOMAIN port = Keys
  OBVIOUS
<1> QED
  BY <1>1, <1>2, OneEach, KeysCounted

\* The countries of the instances are the ones chosen: as many as asked for.
LEMMA CountriesCounted ==
  ASSUME StartupInv, pc = "serving"
  PROVE  /\ {instances[k].country : k \in Keys} = {countries[c] : c \in 1 .. Countries}
         /\ Cardinality({countries[c] : c \in 1 .. Countries}) = Countries
         /\ {countries[c] : c \in 1 .. Countries} \cap blacklisted = {}
<1>1. Chosen /\ Created /\ cfg.perCountry \in Nat \ {0} /\ Countries \in Nat \ {0}
  BY Accepts DEF StartupInv, StartInv, StartupSteps
<1>2. ASSUME NEW c \in 1 .. Countries
      PROVE  \E k \in Keys : instances[k].country = countries[c]
  <2>1. <<c, 1>> \in Keys
    BY <1>1 DEF Keys
  <2> QED
    BY <1>1, <2>1 DEF Created
<1>3. \A k \in Keys : k[1] \in 1 .. Countries /\ instances[k].country = countries[k[1]]
  BY <1>1 DEF Created, Keys
<1>4. {instances[k].country : k \in Keys} = {countries[c] : c \in 1 .. Countries}
  BY <1>2, <1>3
<1>5. IsFiniteSet(1 .. Countries) /\ Cardinality(1 .. Countries) = Countries
  BY <1>1, IntervalCounted, Zenon
<1>6. Cardinality({countries[c] : c \in 1 .. Countries}) = Countries
  <2>1. DOMAIN countries = 1 .. Countries /\ countries = [c \in 1 .. Countries |-> countries[c]]
    BY <1>1 DEF Chosen
  <2> QED
    BY <1>1, <1>5, <2>1, OneEach DEF Chosen
<1>7. {countries[c] : c \in 1 .. Countries} \cap blacklisted = {}
  <2>1. \A c \in 1 .. Countries : countries[c] \in Accepted \ blacklisted
    BY <1>1 DEF Chosen, Available
  <2> QED
    BY <2>1
<1> QED
  BY <1>4, <1>6, <1>7

\* The releases of the table are releases.
LEMMA SinceTypes ==
  /\ DOMAIN Since = {"http_tunnel", "conflux", "congestion_control", "sandbox"}
  /\ \A f \in DOMAIN Since : Since[f] \in [1 .. 4 -> Nat]
  /\ Since["http_tunnel"] = <<0, 4, 8, 0>>
  BY DEF Since

\* The HTTP servers in native mode: of the instances that have an HTTP port.
LEMMA HttpServers ==
  ASSUME StartupInv, pc = "serving", mode = "native"
  PROVE  /\ backends.http \subseteq {torrcs[k].http : k \in DOMAIN torrcs} \ {0}
         /\ HttpStart > 0 /\ Supports(version, "http_tunnel") =>
              Cardinality(backends.http) = Countries * cfg.perCountry
<1>1. LoadInv /\ Created /\ Configured /\ Served
  BY DEF StartupInv, StartInv
<1>2. backends.http = {instances[k].http : k \in {l \in Keys : instances[l].http > 0}}
  BY <1>1 DEF Served, HttpBackends, Created
<1>3. backends.http \subseteq {torrcs[k].http : k \in DOMAIN torrcs} \ {0}
  BY <1>1, <1>2 DEF Configured
<1>4. ASSUME HttpStart > 0, Supports(version, "http_tunnel")
      PROVE  Cardinality(backends.http) = Countries * cfg.perCountry
  <2> DEFINE port == [k \in Keys |-> HttpStart + Number(k[1], k[2])]
  <2>1. \A k \in Keys : Number(k[1], k[2]) \in Nat
    BY <1>1, Numbered DEF StartupSteps
  <2>2. \A k \in Keys : instances[k].http = HttpStart + Number(k[1], k[2])
    BY <1>1, <1>4 DEF Created
  <2>3. \A k \in Keys : instances[k].http > 0
    BY <1>4, <2>1, <2>2, StartupAssumption
  <2>4. backends.http = {port[k] : k \in Keys}
    BY <1>2, <2>2, <2>3
  <2>5. Cardinality({port[k] : k \in Keys}) = Countries * cfg.perCountry
    <3>1. HttpStart \in Int /\ pc \in StartupSteps
      BY StartupAssumption DEF StartupSteps
    <3> HIDE DEF port
    <3>2. port = [k \in Keys |-> HttpStart + Number(k[1], k[2])]
      BY DEF port
    <3> QED
      BY <1>1, <3>1, <3>2, ServersCounted
  <2> QED
    BY <2>4, <2>5
<1> QED
  BY <1>3, <1>4

\* The SOCKS servers: one for each instance, at the port its torrc opens.
LEMMA SocksServers ==
  ASSUME StartupInv, pc = "serving"
  PROVE  /\ Cardinality(backends.socks) = Countries * cfg.perCountry
         /\ backends.socks = {torrcs[k].socks : k \in DOMAIN torrcs}
<1>1. LoadInv /\ Created /\ Configured /\ Served
  BY DEF StartupInv, StartInv
<1>2. backends.socks = {instances[k].socks : k \in Keys}
  BY <1>1 DEF Served, Created
<1> DEFINE port == [k \in Keys |-> SocksStart + Number(k[1], k[2])]
<1>3. backends.socks = {port[k] : k \in Keys}
  BY <1>1, <1>2 DEF Created
<1>4. Cardinality({port[k] : k \in Keys}) = Countries * cfg.perCountry
  <2>1. SocksStart \in Int /\ pc \in StartupSteps
    BY LoadAssumption DEF StartupSteps
  <2> HIDE DEF port
  <2>2. port = [k \in Keys |-> SocksStart + Number(k[1], k[2])]
    BY DEF port
  <2> QED
    BY <1>1, <2>1, <2>2, ServersCounted
<1>5. backends.socks = {torrcs[k].socks : k \in DOMAIN torrcs}
  BY <1>1, <1>2 DEF Configured
<1> QED
  BY <1>3, <1>4, <1>5

\* version.go:97-125: once HAProxy serves, each instance asked for is behind
\* servers of its own at the ports its torrc opens, in an allowed country, with
\* no option its Tor does not know; for every valid configuration whose first
\* HTTP port is not 0, the number that stands for no port.
THEOREM AllInstancesServe == HttpStart > 0 => (Spec => []EveryInstanceServes)
<1> SUFFICES ASSUME HttpStart > 0 PROVE Spec => []EveryInstanceServes
  OBVIOUS
<1>1. StartupInv => EveryInstanceServes
  <2> SUFFICES ASSUME StartupInv, pc = "serving" PROVE EveryInstanceServes
    BY DEF EveryInstanceServes
  <2>1. LoadInv /\ Created /\ Configured /\ version \in [1 .. 4 -> Nat]
    BY StartupAssumption DEF StartupInv, StartInv, StartupSteps
  <2>2. Cardinality({instances[k].country : k \in DOMAIN torrcs} \ blacklisted) = Countries
    <3>1. {instances[k].country : k \in Keys} \ blacklisted = {countries[c] : c \in 1 .. Countries}
      BY CountriesCounted
    <3> QED
      BY <2>1, <3>1, CountriesCounted DEF Configured
  <2>3. \A f \in DOMAIN Since : Supports(version, f) <=> NoEarlier(version, Since[f])
    BY <2>1, SinceTypes, ReleaseOrder DEF Supports
  <2>4. \A k \in DOMAIN torrcs : \A f \in torrcs[k].options : NoEarlier(version, Since[f])
    BY <2>1, <2>3 DEF Configured
  <2>5. NoEarlier(version, <<0, 4, 8, 0>>) => Supports(version, "http_tunnel")
    BY <2>3, SinceTypes
  <2> QED
    BY <2>2, <2>4, <2>5, SocksServers, HttpServers DEF EveryInstanceServes
<1> QED
  BY <1>1, StartupInvariance, PTL
=============================================================================
