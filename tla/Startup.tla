------------------------------ MODULE Startup ------------------------------
(***************************************************************************)
(* What splitter run makes of the configuration it has loaded, in the      *)
(* order of cmd/run.go: the checks of internal/health, the choice of the   *)
(* countries (internal/country), the instances with their ports and their  *)
(* torrc (internal/tor), and the backends of HAProxy (internal/haproxy).   *)
(***************************************************************************)
EXTENDS ConfigLoad, FiniteSets, Sequences

CONSTANTS Accepted,      \* country.accepted
          Blacklists,    \* values of country.blacklisted
          Versions,      \* what tor --version may say, <<0, 4, 8, 17>>
          HttpStart,     \* tor.start_http_port
          PrivoxyStart   \* privoxy.start_port

ASSUME StartupAssumption == /\ Versions \subseteq [1 .. 4 -> Nat]
                            /\ HttpStart \in Nat /\ PrivoxyStart \in Nat

VARIABLES mode, blacklisted,  \* proxy_mode, country.blacklisted
          version,            \* the version of Tor that was detected
          countries,          \* those SelectRandom has chosen, in its order
          instances,          \* TorManager.instances, by country and number in it
          torrcs,             \* what each was started with
          backends            \* the servers of HAProxy's two backends

settings == <<mode, blacklisted>>
madeVars == <<countries, instances, torrcs, backends>>
vars == <<loadVars, settings, version, madeVars>>

NoVersion == <<0, 0, 0, 0>>

StartInit == /\ Init
             /\ mode \in {"native", "legacy"} /\ blacklisted \in Blacklists
             /\ version = NoVersion
             /\ countries = <<>> /\ instances = <<>> /\ torrcs = <<>>
             /\ backends = [socks |-> {}, http |-> {}]

-----------------------------------------------------------------------------
(* Versions                                                                *)

\* The first component that differs decides.
AtLeast(v, w) == \A i \in 1 .. 4 : (\A j \in 1 .. i - 1 : v[j] = w[j]) => v[i] >= w[i]

\* The release that introduced what a torrc or the instances depend on.
Since == [http_tunnel |-> <<0, 4, 8, 0>>, conflux |-> <<0, 4, 8, 0>>,
          congestion_control |-> <<0, 4, 7, 0>>, sandbox |-> <<0, 4, 7, 0>>]

Supports(v, feature) == AtLeast(v, Since[feature])

-----------------------------------------------------------------------------

\* CheckDependencies: a missing program or an answer without a version ends run.
CheckDependencies ==
  /\ pc = "loaded"
  /\ \/ version' \in Versions /\ pc' = "checked"
     \/ pc' = "failed" /\ UNCHANGED version
  /\ UNCHANGED <<inputs, cfg, settings, madeVars>>

\* filterBlacklisted
Available == Accepted \ blacklisted

\* The first ones of a shuffled list.
SelectRandom ==
  /\ pc = "checked"
  /\ IF Countries > Cardinality(Available)
     THEN pc' = "failed" /\ UNCHANGED countries
     ELSE /\ pc' = "selected"
          /\ countries' \in {s \in [1 .. Countries -> Available] :
                               \A i, j \in 1 .. Countries : s[i] = s[j] => i = j}
  /\ UNCHANGED <<inputs, cfg, settings, version, instances, torrcs, backends>>

\* Mutant: the numbers begin again in each country.
MutNumber(c, i) == i - 1

\* instanceID counts through all countries.
Number(c, i) == (c - 1) * cfg.perCountry + i - 1

\* 0 is no port.
DetectAndCreate ==
  /\ pc = "selected"
  /\ pc' = "created"
  /\ instances' =
       [k \in (1 .. Len(countries)) \X (1 .. cfg.perCountry) |->
          LET id == Number(k[1], k[2]) IN
          [id |-> id, country |-> countries[k[1]],
           socks |-> SocksStart + id, control |-> file.control + id,
           http |-> IF Supports(version, "http_tunnel") THEN HttpStart + id ELSE 0]]
  /\ UNCHANGED <<inputs, cfg, settings, version, countries, torrcs, backends>>

\* buildInstanceConfig and the template, for each of the instances, when the
\* configuration asks for all options.
StartAll ==
  /\ pc = "created"
  /\ pc' = "started"
  /\ torrcs' = [k \in DOMAIN instances |->
                  [socks |-> instances[k].socks, control |-> instances[k].control,
                   http |-> instances[k].http,
                   options |-> {f \in DOMAIN Since \ {"http_tunnel"} :
                                  Supports(version, f)}]]
  /\ UNCHANGED <<inputs, cfg, settings, version, countries, instances, backends>>

\* In legacy mode the port Privoxy would have for the instance.
HttpBackends ==
  IF mode = "native"
  THEN {instances[k].http : k \in {l \in DOMAIN instances : instances[l].http > 0}}
  ELSE {PrivoxyStart + instances[k].id : k \in DOMAIN instances}

\* BuildConfigData; the shuffled order is left out.
BuildConfigData ==
  /\ pc = "started"
  /\ pc' = "serving"
  /\ backends' = [socks |-> {instances[k].socks : k \in DOMAIN instances},
                  http |-> HttpBackends]
  /\ UNCHANGED <<inputs, cfg, settings, version, countries, instances, torrcs>>

Next == \/ Load /\ UNCHANGED <<settings, version, madeVars>>
        \/ CheckDependencies \/ SelectRandom \/ DetectAndCreate \/ StartAll
        \/ BuildConfigData

Spec == StartInit /\ [][Next]_vars

-----------------------------------------------------------------------------
(* Properties *)

\* A configuration that was accepted gives every instance a SOCKS port: the
\* bound Validate checks is the one DetectAndCreate needs.
SocksPortsFit ==
  \A k \in DOMAIN instances : instances[k].socks \in SocksStart .. MaxPort

\* In the history of Tor v is w or comes after it.
NoEarlier(v, w) ==
  v = w \/ \E i \in 1 .. 4 : v[i] > w[i] /\ \A j \in 1 .. i - 1 : v[j] = w[j]

\* Once HAProxy serves, each of the instances asked for is behind a SOCKS server
\* of its own, and in native mode, from Tor 0.4.8 on, behind an HTTP server of
\* its own, at ports their torrc opens; all in allowed countries, and no torrc with an
\* option Tor's release does not know (version.go:97-125, its comments).
EveryInstanceServes ==
  pc = "serving" =>
    LET asked == Countries * cfg.perCountry IN
    /\ Cardinality({instances[k].country : k \in DOMAIN torrcs} \ blacklisted)
         = Countries
    /\ Cardinality(backends.socks) = asked
    /\ backends.socks = {torrcs[k].socks : k \in DOMAIN torrcs}
    /\ mode = "native" =>
         /\ backends.http \subseteq {torrcs[k].http : k \in DOMAIN torrcs} \ {0}
         /\ NoEarlier(version, <<0, 4, 8, 0>>) =>
              Cardinality(backends.http) = asked
    /\ \A k \in DOMAIN torrcs : \A f \in torrcs[k].options :
         NoEarlier(version, Since[f])

\* ROADMAP 3.1.2: "Validate all values (instances > 0, ..., port ranges)": nor
\* can an accepted configuration run out of control ports.
ControlPortsFit == \A k \in DOMAIN instances : instances[k].control <= MaxPort

\* ROADMAP 3.2.3: "In native mode, HAProxy backends point directly at Tor
\* HTTPTunnelPort listeners", "legacy generates Privoxy configs": so that in
\* either mode somebody listens behind the HTTP frontend.
HttpServed ==
  pc = "serving" => \E k \in DOMAIN torrcs : torrcs[k].http \in backends.http \ {0}
=============================================================================
