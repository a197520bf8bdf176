----------------------------- MODULE ConfigLoad -----------------------------
(***************************************************************************)
(* internal/config: Load, which lays the configuration file, the profile,  *)
(* the environment and the command line over the defaults, and Validate.   *)
(*                                                                         *)
(* Of some two hundred settings the model keeps those whose layers         *)
(* interact: the profile's name, which chooses a layer; the two booleans   *)
(* that enable logging; instances.per_country, which all four layers may   *)
(* give, for every setting that has one field; and the ports computed from *)
(* it.  What a layer says of a setting is a set: {} if it does not mention *)
(* it, else its value, or its values under the names of the environment    *)
(* that are synonyms (INSTANCES, INSTANCES_PER_COUNTRY).                   *)
(***************************************************************************)
EXTENDS Integers

CONSTANTS Files,       \* [perCountry, log, enabled, profile, control]
          Profiles,    \* the profile each name has, [perCountry, enabled]
          Environments,\* [perCountry, log, enabled, profile]
          Flags,       \* [perCountry, log, profile]
          Countries,   \* instances.countries
          SocksStart,  \* tor.start_socks_port
          MaxPort      \* 65535

NoProfile == "none"

\* A layer names at most one profile, none of them the empty name, and says one
\* thing of log at most.
ASSUME LoadAssumption ==
  /\ Countries \in Int /\ SocksStart \in Nat /\ MaxPort \in Nat
  /\ \A layer \in Files \cup Environments \cup Flags :
       /\ layer.perCountry \subseteq Int /\ layer.log \subseteq BOOLEAN
       /\ \A p, q \in layer.profile : p = q
       /\ \A p, q \in layer.log : p = q
  /\ \A layer \in Files \cup Environments : layer.enabled \subseteq BOOLEAN
  /\ \A f \in Files : f.control \in 0 .. MaxPort
  /\ NoProfile \notin DOMAIN Profiles
  /\ \A name \in DOMAIN Profiles :
       /\ Profiles[name].perCountry \subseteq Int
       /\ Profiles[name].enabled \subseteq BOOLEAN

VARIABLES file, env, flags,  \* the layers of this run
          cfg,               \* cfg of Load
          pc                 \* the next step of Load

inputs == <<file, env, flags>>
loadVars == <<inputs, cfg, pc>>

DefaultPerCountry == 2
Defaults == [perCountry |-> DefaultPerCountry, log |-> FALSE, enabled |-> FALSE,
             profile |-> NoProfile]

Init == /\ file \in Files /\ env \in Environments /\ flags \in Flags
        /\ cfg = Defaults
        /\ pc = "yaml"

\* The values a setting may have after a layer was laid over it.
Over(old, layer) == IF layer = {} THEN {old} ELSE layer

\* Mutant: the command line is read before the environment.
MutAfter(stage) == CASE stage = "yaml" -> "profile" [] stage = "profile" -> "flags"
                     [] stage = "flags" -> "env"    [] stage = "env" -> "derive"

After(stage) == CASE stage = "yaml" -> "profile" [] stage = "profile" -> "env"
                  [] stage = "env" -> "flags"    [] stage = "flags" -> "derive"

-----------------------------------------------------------------------------
(* Load, step by step *)

\* No file is an empty layer; one that cannot be read or parsed is an error.
LoadYAML ==
  /\ pc = "yaml"
  /\ \/ /\ \E n \in Over(cfg.perCountry, file.perCountry),
              l \in Over(cfg.log, file.log), e \in Over(cfg.enabled, file.enabled),
              p \in Over(cfg.profile, file.profile) :
             cfg' = [perCountry |-> n, log |-> l, enabled |-> e, profile |-> p]
        /\ pc' = After("yaml")
     \/ /\ pc' = "failed"
        /\ UNCHANGED cfg
  /\ UNCHANGED inputs

\* The name the command line or the file gives; an unknown one is an error, and
\* so is, for any name, a file of profiles that cannot be read or parsed.
ApplyProfile ==
  /\ pc = "profile"
  /\ \E name \in Over(cfg.profile, flags.profile) :
       \/ /\ name = NoProfile
          /\ cfg' = [cfg EXCEPT !.profile = name]
          /\ pc' = After("profile")
       \/ /\ name \in DOMAIN Profiles
          /\ \E n \in Over(cfg.perCountry, Profiles[name].perCountry),
                e \in Over(cfg.enabled, Profiles[name].enabled) :
               cfg' = [cfg EXCEPT !.profile = name, !.perCountry = n, !.enabled = e]
          /\ pc' = After("profile")
       \/ /\ name # NoProfile
          /\ pc' = "failed"
          /\ UNCHANGED cfg
  /\ UNCHANGED inputs

\* LOG sets both booleans, LOGGING_ENABLED one of them: the later of the two in
\* the environment decides that one.  A number that does not parse counts as 0.
ApplyEnv ==
  /\ pc = "env"
  /\ \E n \in Over(cfg.perCountry, env.perCountry), l \in Over(cfg.log, env.log),
        e \in Over(cfg.enabled, env.log \cup env.enabled),
        p \in Over(cfg.profile, env.profile) :
       cfg' = [perCountry |-> n, log |-> l, enabled |-> e, profile |-> p]
  /\ pc' = After("env")
  /\ UNCHANGED inputs

ApplyFlags ==
  /\ pc = "flags"
  /\ \E n \in Over(cfg.perCountry, flags.perCountry), l \in Over(cfg.log, flags.log),
        p \in Over(cfg.profile, flags.profile) :
       cfg' = [cfg EXCEPT !.perCountry = n, !.log = l, !.profile = p]
  /\ pc' = After("flags")
  /\ UNCHANGED inputs

\* Mutant: log decides alone.
MutDerived == [cfg EXCEPT !.enabled = cfg.log]

\* log: true enables logging.enabled.
Derived == [cfg EXCEPT !.enabled = cfg.enabled \/ cfg.log]

Derive ==
  /\ pc = "derive"
  /\ cfg' = Derived
  /\ pc' = "validate"
  /\ UNCHANGED inputs

\* Mutant: the countries are left out of the sum.
MutValid(c) == /\ c.perCountry > 0
               /\ c.profile \in DOMAIN Profiles \cup {NoProfile}
               /\ SocksStart + c.perCountry <= MaxPort

Valid(c) == /\ c.perCountry > 0 /\ Countries > 0
            /\ c.profile \in DOMAIN Profiles \cup {NoProfile}
            /\ SocksStart + c.perCountry * Countries <= MaxPort

Validate ==
  /\ pc = "validate"
  /\ pc' = IF Valid(cfg) THEN "loaded" ELSE "failed"
  /\ UNCHANGED <<inputs, cfg>>

Load == \/ LoadYAML \/ ApplyProfile \/ ApplyEnv \/ ApplyFlags \/ Derive
        \/ Validate

-----------------------------------------------------------------------------
(* Properties *)

Loaded == pc \notin {"yaml", "profile", "env", "flags", "derive", "validate", "failed"}

\* The layer the profile adds: of the name the flag, else the file, gives.
Named == IF flags.profile # {} THEN flags.profile ELSE file.profile
ProfileSays == UNION {Profiles[name].perCountry : name \in Named \cap DOMAIN Profiles}
ProfileEnables == UNION {Profiles[name].enabled : name \in Named \cap DOMAIN Profiles}

\* What a layer says, or if it does not mention the setting, those below it.
Above(layer, below) == IF layer # {} THEN layer ELSE below

\* config_test.go:204: "flag > env > yaml", with the profile between the last
\* two and the defaults below: the highest layer that mentions the number of
\* instances decides it, whatever the others say.
PriorityKept ==
  Loaded => cfg.perCountry \in
    Above(flags.perCountry, Above(env.perCountry,
      Above(ProfileSays, Above(file.perCountry, {DefaultPerCountry}))))

\* Logging is off by default (ROADMAP 3.1.3) and has two names.  It is on exactly
\* if the highest layer that mentions log, or the highest that mentions
\* logging.enabled, which LOG mentions too, says so: what the others say of either
\* is forgotten (loader.go:67).
LoggingDecided ==
  Loaded => \E log \in Above(flags.log, Above(env.log, Above(file.log, {FALSE}))),
              enabled \in Above(env.log \cup env.enabled,
                            Above(ProfileEnables, Above(file.enabled, {FALSE}))) :
              cfg.enabled = (log \/ enabled)

\* README.md:227: SPLITTER_PROFILE selects the configuration profile: a profile
\* that the result names has decided what no higher layer mentions.
ProfileTakesEffect ==
  Loaded /\ cfg.profile # NoProfile /\ Profiles[cfg.profile].perCountry # {}
         /\ flags.perCountry \cup env.perCountry = {}
    => cfg.perCountry \in Profiles[cfg.profile].perCountry

\* ROADMAP 3.3.3: "Priority: CLI flag > env var > config file > default": so a
\* --log=false keeps logging off whatever the environment says.
FlagSilences == Loaded /\ flags.log = {FALSE} => ~cfg.enabled
=============================================================================
