----------------------------- MODULE MCStartup -----------------------------
EXTENDS Startup

Says(S) == {{}} \cup {{v} : v \in S}

\* With two countries, 4 instances per country fit the SOCKS ports of 5 .. 13
\* and not the control ports; 0 is a number that did not parse.
MCFiles == [perCountry : Says({1}), log : Says({TRUE}), enabled : Says({TRUE}),
            profile : Says({"stealth", "bogus"}), control : {8}]

MCProfiles == [stealth  |-> [perCountry |-> {4}, enabled |-> {FALSE}],
               balanced |-> [perCountry |-> {}, enabled |-> {}]]

MCEnvironments == [perCountry : Says({0, 3}) \cup {{3, 5}}, log : Says(BOOLEAN),
                   enabled : Says(BOOLEAN), profile : Says({"stealth", "bogus"})]

MCFlags == [perCountry : Says({0, 2, 6}), log : Says(BOOLEAN),
            profile : Says({"balanced", "stealth"})]

\* Before and after the releases that matter, and one in which a later component
\* is the smaller one.
MCVersions == {<<0, 4, 6, 10>>, <<0, 4, 8, 0>>, <<0, 5, 1, 2>>}

MCBlacklists == {{"fr"}, {"fr", "de"}}
=============================================================================
