--------------------------- MODULE ReputationCache ---------------------------
(***************************************************************************)
(* internal/health/reputation.go: ReputationChecker.Check and the file in  *)
(* which it keeps what the Onionoo service answered, per country, for      *)
(* cacheTTL.                                                               *)
(*                                                                         *)
(* An answer is the time at which it was fetched: everything else of it is *)
(* data.  The file has one fetched_at for the entries of all countries.    *)
(* os.WriteFile truncates the file and then writes it: an error, or the    *)
(* end of the program, in between leaves a file that does not parse.       *)
(*                                                                         *)
(* internal/country/metrics.go keeps the list of countries in the same     *)
(* way, with a single entry and so a single age.                           *)
(***************************************************************************)
EXTENDS Integers

CONSTANTS Countries,   \* the keys of the cache
          CacheTTL,    \* 12 hours
          MaxTime      \* bound: the clock stops there

ASSUME CacheAssumption == CacheTTL \in Nat \ {0} /\ MaxTime \in Nat

VARIABLES now,      \* the clock
          file,     \* the cache file
          pc,       \* the next step of Check
          country,  \* its argument
          cached,   \* cached of Check, NoCache for nil
          fetched,  \* the time of the relays it fetched
          answer,   \* what the last Check that returned has answered
          newest,   \* history: the newest answer for each country, or Never
          lost      \* history: a write of the cache failed or was cut short

cacheVars == <<now, file, pc, country, cached, fetched, answer, newest, lost>>
call == <<country, cached, fetched>>
returned == <<answer, newest>>

Never == -1
Absent == [kind |-> "absent"]
Torn   == [kind |-> "torn"]
Cache(at, entries) == [kind |-> "cache", fetchedAt |-> at, entries |-> entries]

NoCache == Cache(0, << >>)

CacheInit == /\ now = 0
             /\ file = Absent
             /\ pc = "idle"
             /\ country \in Countries /\ cached = NoCache /\ fetched = 0
             /\ answer = [kind |-> "none", of |-> country, age |-> 0, at |-> Never]
             /\ newest = [c \in Countries |-> Never]
             /\ lost = FALSE

Has(cache, c) == c \in DOMAIN cache.entries

Return(kind, at) ==
  /\ answer' = [kind |-> kind, of |-> country, age |-> now - at, at |-> at]
  /\ newest' = [newest EXCEPT ![country] = IF at > @ THEN at ELSE @]
  /\ pc' = "idle"

-----------------------------------------------------------------------------
(* Check *)

\* readCache: a file that is missing or does not parse gives no cache.
CheckRead ==
  /\ pc = "idle"
  /\ country' \in Countries
  /\ cached' = IF file.kind = "cache" THEN file ELSE NoCache
  /\ pc' = "age"
  /\ UNCHANGED <<now, file, fetched, returned, lost>>

IsFresh == Has(cached, country) /\ now - cached.fetchedAt < CacheTTL

CheckFresh ==
  /\ pc = "age"
  /\ IsFresh
  /\ Return("fresh", cached.entries[country])
  /\ UNCHANGED <<now, file, call, lost>>

CheckExpired ==
  /\ pc = "age"
  /\ ~IsFresh
  /\ pc' = "fetch"
  /\ UNCHANGED <<now, file, call, returned, lost>>

\* Mutant: a failed fetch does not fall back on the cache.
MutFallback == FALSE

Fallback == Has(cached, country)

\* The fetch fails, or the service answers with no relays.
FetchFails ==
  /\ pc = "fetch"
  /\ IF Fallback THEN Return("stale", cached.entries[country])
                 ELSE Return("error", Never)
  /\ UNCHANGED <<now, file, call, lost>>

FetchSucceeds ==
  /\ pc = "fetch"
  /\ fetched' = now
  /\ pc' = "truncate"
  /\ UNCHANGED <<now, file, country, cached, returned, lost>>

\* writeCache: making the directory or opening the file may fail.  Check logs
\* that and returns what it fetched.
WriteTruncate ==
  /\ pc = "truncate"
  /\ \/ file' = Torn /\ pc' = "write"
        /\ UNCHANGED <<returned, lost>>
     \/ Return("fetched", fetched) /\ lost' = TRUE
        /\ UNCHANGED file
  /\ UNCHANGED <<now, call>>

\* Mutant: an entry that was read wins over the new one.
MutEntries == [c \in DOMAIN cached.entries \cup {country} |->
                 IF Has(cached, c) THEN cached.entries[c] ELSE fetched]

Entries == [c \in DOMAIN cached.entries \cup {country} |->
              IF c = country THEN fetched ELSE cached.entries[c]]

\* The time stamp of the file is taken after the fetch, before the write.
WriteCache ==
  /\ pc = "write"
  /\ \/ /\ \E stamp \in fetched .. now : file' = Cache(stamp, Entries)
        /\ lost' = lost
     \/ lost' = TRUE /\ UNCHANGED file
  /\ Return("fetched", fetched)
  /\ UNCHANGED <<now, call>>

\* The program ends in the middle of a Check and is started again.
Restart ==
  /\ pc # "idle"
  /\ pc' = "idle"
  /\ lost' = (lost \/ pc = "write")
  /\ UNCHANGED <<now, file, call, returned>>

Tick ==
  /\ now < MaxTime
  /\ now' = now + 1
  /\ UNCHANGED <<file, pc, call, returned, lost>>

CacheNext == \/ CheckRead \/ CheckFresh \/ CheckExpired \/ FetchFails \/ FetchSucceeds
             \/ WriteTruncate \/ WriteCache \/ Restart \/ Tick

CacheSpec == CacheInit /\ [][CacheNext]_cacheVars

-----------------------------------------------------------------------------
(* Properties *)

\* The variables range over the values of the code's fields and positions.
TypeOK ==
  /\ now \in 0 .. MaxTime /\ fetched \in 0 .. now
  /\ file.kind \in {"absent", "torn", "cache"}
  /\ pc \in {"idle", "age", "fetch", "truncate", "write"}
  /\ country \in Countries
  /\ \A c \in DOMAIN cached.entries : c \in Countries /\ cached.entries[c] \in 0 .. now
  /\ answer.kind \in {"none", "fresh", "stale", "fetched", "error"}
  /\ newest \in [Countries -> Never .. now]
  /\ lost \in BOOLEAN

\* As long as every write of the cache succeeded, no Check answers with older
\* relays than a Check before it, whatever other countries were asked in
\* between and whichever fetches failed.
NeverOlder ==
  ~lost /\ answer.kind \in {"fresh", "stale", "fetched"}
    => answer.at = newest[answer.of]

\* reputation_test.go:188 (StaleCacheOnFetchError): what was answered once is
\* answered again when the service fails, unless the cache could not be kept.
KnownIsAnswered == ~lost /\ answer.kind = "error" => newest[answer.of] = Never

\* ROADMAP.md:263: "Cache TTL: 12h for Tor Metrics country lists and Onionoo
\* exit reputation": an answer that counts as fresh is not older.
FreshAnswers == answer.kind = "fresh" => answer.age < CacheTTL
=============================================================================
