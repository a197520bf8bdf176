---------------------------- MODULE HealthProofs ----------------------------
(***************************************************************************)
(* Proofs about internal/health.                                           *)
(*                                                                         *)
(* PeriodicChecker, for any callers and any number of Starts, tests and    *)
(* results kept: until a Stop clears the cancelFunc of a Start later than  *)
(* the one it cancelled, there is one goroutine at a time, each channel is *)
(* closed once, no result follows a Stop, and the results are in the order *)
(* of their tests.  A single caller never gets there.                      *)
(*                                                                         *)
(* ReputationCache, for any set of countries, any lifetime of the cache    *)
(* and any bound on the clock: while every write of the file succeeds, the *)
(* file holds for each country what Check answered last.                   *)
(***************************************************************************)
EXTENDS PeriodicChecker, ReputationCache, FiniteSetTheorems, SequenceTheorems, TLAPS

-----------------------------------------------------------------------------
(* PeriodicChecker *)

RunSteps == {"none", "new", "first", "select", "test", "close", "over"}

Types ==
  /\ starts \in 0 .. MaxStarts
  /\ run \in [Goroutines -> [pc : RunSteps, chan : Nat, test : Nat]]
  /\ tests \in Nat
  /\ at \in [Callers -> {"idle", "cancel", "await", "blocked", "clear"}]
  /\ cancel \in [Callers -> Nat] /\ wait \in [Callers -> Nat]
  /\ late \in BOOLEAN

\* Only the goroutine of the last Start may be active.
Latest == \A g \in Goroutines :
  /\ g < starts => run[g].pc = "over"
  /\ g > starts => run[g].pc = "none"
  /\ g = starts => run[g].pc # "none"

\* The fields of the checker are those of the last Start.
Fields == done = starts /\ cancelFunc \in {0, starts}

\* A goroutine that has begun closes its own channel, and ends with that.
OwnChannel == \A g \in Goroutines :
  /\ run[g].pc \notin {"none", "new"} => run[g].chan = g
  /\ g \in closed <=> run[g].pc = "over"

NoneActive == \A g \in Goroutines : run[g].pc \in {"none", "over"}

\* A Stop awaits the channel of the Start it cancels or of a later one: if there is
\* no later one, nothing runs when it has been closed.
StopShape == \A c \in Callers :
  /\ cancel[c] <= starts
  /\ at[c] # "idle" => cancel[c] > 0
  /\ at[c] = "blocked" => cancel[c] <= wait[c] /\ wait[c] <= starts
  /\ at[c] = "clear" /\ cancel[c] = starts => NoneActive

Idle == cancelFunc = 0 => NoneActive

\* What holds until a Stop is late.
IInv == /\ Types /\ Latest /\ Fields /\ OwnChannel /\ StopShape /\ Idle
        /\ NeverPanics

LEMMA Initial == Init => IInv
<1> SUFFICES ASSUME Init PROVE IInv
  OBVIOUS
<1>1. Types
  <2>1. run \in [Goroutines -> [pc : RunSteps, chan : Nat, test : Nat]]
    BY DEF Init, NotStarted, RunSteps
  <2>2. 0 \in 0 .. MaxStarts
    BY CheckerAssumption
  <2>3. /\ at \in [Callers -> {"idle", "cancel", "await", "blocked", "clear"}]
        /\ cancel \in [Callers -> Nat] /\ wait \in [Callers -> Nat]
    BY DEF Init
  <2> QED
    BY <2>1, <2>2, <2>3 DEF Init, Types
<1>2. Latest /\ Fields /\ OwnChannel
  BY DEF Init, Latest, Fields, OwnChannel, NotStarted, Goroutines
<1>3. StopShape /\ Idle /\ NeverPanics
  BY DEF Init, StopShape, Idle, NeverPanics, NoneActive, NotStarted
<1> QED
  BY <1>1, <1>2, <1>3 DEF IInv

\* The goroutine that is active is that of the last Start.
LEMMA ActiveIsLatest ==
  ASSUME IInv, NEW g \in Goroutines, run[g].pc \notin {"none", "over"}
  PROVE  /\ g = starts /\ cancelFunc = starts /\ cancelFunc # 0
         /\ \A h \in Goroutines : h # g => run[h].pc \in {"none", "over"}
         /\ \A c \in Callers : at[c] = "clear" => cancel[c] # starts
  BY DEF IInv, Types, Latest, Fields, Idle, StopShape, NoneActive, Goroutines

\* A step of one goroutine that does not end it.
LEMMA RunStep ==
  ASSUME IInv, NEW g \in Goroutines, run[g].pc \notin {"none", "over"},
         NEW r \in [pc : RunSteps \ {"none", "new", "over"}, chan : Nat, test : Nat],
         run' = [run EXCEPT ![g] = r], r.chan = g, tests' \in Nat,
         UNCHANGED <<starts, checker, closed, panicked, stops>>
  PROVE  IInv'
<1>1. /\ g = starts /\ cancelFunc = starts /\ cancelFunc # 0
      /\ \A h \in Goroutines : h # g => run[h].pc \in {"none", "over"}
      /\ \A c \in Callers : at[c] = "clear" => cancel[c] # starts
  BY ActiveIsLatest
<1>2. /\ run'[g] = r
      /\ \A h \in Goroutines : h # g => run'[h] = run[h]
  BY DEF IInv, Types
<1>3. Types'
  BY DEF IInv, Types, stops
<1>4. Latest' /\ Fields' /\ OwnChannel'
  BY <1>1, <1>2 DEF IInv, Latest, Fields, OwnChannel, checker, RunSteps
<1>5. StopShape' /\ Idle' /\ NeverPanics'
  BY <1>1, <1>2 DEF IInv, StopShape, Idle, NoneActive, NeverPanics, checker, stops
<1> QED
  BY <1>3, <1>4, <1>5 DEF IInv

\* A step that touches neither the goroutines nor the channels nor pc.done.
LEMMA CallerStep ==
  ASSUME IInv, UNCHANGED <<starts, done, closed, panicked, runs>>,
         Types', StopShape', cancelFunc' \in {0, cancelFunc}, Idle'
  PROVE  IInv'
<1>1. Latest' /\ Fields' /\ OwnChannel' /\ NeverPanics'
  BY DEF IInv, Latest, Fields, OwnChannel, NeverPanics, runs
<1> QED
  BY <1>1 DEF IInv

LEMMA StartStep ==
  ASSUME IInv, NEW c \in Callers, Start(c)
  PROVE  IInv'
<1> DEFINE g == starts + 1
<1>1. g \in Goroutines /\ NoneActive /\ cancelFunc = 0
  BY CheckerAssumption DEF IInv, Types, Start, MayStart, Idle, Goroutines
<1>2. /\ run' = [run EXCEPT ![g].pc = "new"]
      /\ run'[g].pc = "new" /\ \A h \in Goroutines : h # g => run'[h] = run[h]
  BY <1>1 DEF IInv, Types, Start
<1>s. UNCHANGED <<at, cancel, wait, late, tests, closed, panicked>>
  BY DEF Start, stops, channels
<1>3. Types'
  <2>1. run' \in [Goroutines -> [pc : RunSteps, chan : Nat, test : Nat]]
    BY <1>1, <1>2 DEF IInv, Types, RunSteps
  <2>2. starts' \in 0 .. MaxStarts
    BY <1>1 DEF Start, Goroutines
  <2> QED
    BY <1>s, <2>1, <2>2 DEF IInv, Types
<1>4. run[g].pc = "none"
  BY <1>1 DEF IInv, Types, Latest
<1>5. Latest'
  BY <1>1, <1>2 DEF IInv, Types, Latest, NoneActive, Start, Goroutines
<1>6. Fields' /\ NeverPanics'
  BY <1>s DEF IInv, Fields, NeverPanics, Start, NewDone
<1>7. OwnChannel'
  BY <1>2, <1>4 DEF IInv, OwnChannel, Start, channels
<1>8. StopShape' /\ Idle'
  BY <1>1, <1>s DEF IInv, Types, StopShape, Idle, Start, Goroutines
<1> QED
  BY <1>3, <1>5, <1>6, <1>7, <1>8 DEF IInv

LEMMA StopStep ==
  ASSUME IInv, ~late', NEW c \in Callers, StopNext(c)
  PROVE  IInv'
<1> USE DEF IInv, Types, StopShape, Idle, NoneActive, runs, checker, channels
<1>1. CASE StopRead(c)
  <2>1. Types' /\ StopShape' /\ Idle'
    BY <1>1 DEF StopRead, Fields
  <2> QED
    BY <1>1, <2>1, CallerStep DEF StopRead
<1>2. CASE StopCancel(c)
  <2>1. Types' /\ StopShape' /\ Idle'
    BY <1>2 DEF StopCancel
  <2> QED
    BY <1>2, <2>1, CallerStep DEF StopCancel
<1>3. CASE StopAwait(c)
  <2>1. Types' /\ StopShape' /\ Idle'
    BY <1>3 DEF StopAwait, Fields
  <2> QED
    BY <1>3, <2>1, CallerStep DEF StopAwait
<1>4. CASE StopJoined(c)
  <2>1. cancel[c] = starts => starts \in closed /\ starts \in Goroutines
    BY <1>4 DEF StopJoined, Joined, Goroutines
  <2>2. cancel[c] = starts => NoneActive
    BY <2>1 DEF OwnChannel, Latest, Goroutines
  <2>3. \A d \in Callers : d # c => at'[d] = at[d]
    BY <1>4 DEF StopJoined
  <2>4. Types' /\ StopShape' /\ Idle'
    BY <1>4, <2>2, <2>3 DEF StopJoined
  <2> QED
    BY <1>4, <2>4, CallerStep DEF StopJoined
<1>5. CASE StopClear(c)
  <2>1. NoneActive
    BY <1>5 DEF StopClear, Fields
  <2>2. Types' /\ StopShape' /\ Idle'
    BY <1>5, <2>1 DEF StopClear
  <2> QED
    BY <1>5, <2>2, CallerStep DEF StopClear
<1> QED
  BY <1>1, <1>2, <1>3, <1>4, <1>5 DEF StopNext

LEMMA GoroutineStep ==
  ASSUME IInv, NEW g \in Goroutines, RunNext(g)
  PROVE  IInv'
<1> USE DEF runs, checker, channels
<1>1. run[g] \in [pc : RunSteps, chan : Nat, test : Nat] /\ tests \in Nat
  BY DEF IInv, Types
<1>2. run[g].pc \notin {"none", "new"} => run[g].chan = g
  BY DEF IInv, OwnChannel
<1>3. CASE RunBegin(g)
  <2>1. done = g /\ done \in Nat
    BY <1>3, ActiveIsLatest DEF RunBegin, IInv, Fields, Types
  <2> DEFINE r == [pc |-> "first", chan |-> done, test |-> Begun]
  <2>2. r \in [pc : RunSteps \ {"none", "new", "over"}, chan : Nat, test : Nat]
    BY <1>1, <2>1 DEF Begun, RunSteps
  <2>3. run' = [run EXCEPT ![g] = r] /\ r.chan = g /\ tests' \in Nat
    BY <1>1, <1>3, <2>1 DEF RunBegin, Begun
  <2> QED
    BY <1>3, <2>2, <2>3, RunStep DEF RunBegin
<1>4. CASE RunResult(g) \/ RunError(g) \/ RunDone(g)
  <2>1. PICK l \in {"select", "close"} : run' = [run EXCEPT ![g].pc = l]
    BY <1>4 DEF RunResult, RunError, RunDone
  <2> DEFINE r == [run[g] EXCEPT !.pc = l]
  <2>2. r \in [pc : RunSteps \ {"none", "new", "over"}, chan : Nat, test : Nat]
    BY <1>1 DEF RunSteps
  <2>3. run[g].pc \in {"first", "test", "select"}
    BY <1>4 DEF RunResult, RunError, RunDone
  <2>4. run' = [run EXCEPT ![g] = r] /\ r.chan = g
    BY <1>1, <1>2, <2>1, <2>3
  <2>5. UNCHANGED <<starts, checker, closed, panicked, stops, tests>>
    BY <1>4 DEF RunResult, RunError, RunDone
  <2> QED
    BY <1>1, <2>2, <2>3, <2>4, <2>5, RunStep
<1>5. CASE RunTick(g)
  <2> DEFINE r == [pc |-> "test", chan |-> g, test |-> Begun]
  <2>1. r \in [pc : RunSteps \ {"none", "new", "over"}, chan : Nat, test : Nat]
    BY <1>1 DEF RunSteps, Begun, Goroutines
  <2>2. run[g].chan = g /\ tests' \in Nat
    BY <1>1, <1>2, <1>5 DEF RunTick, Begun
  <2>3. run' = [run EXCEPT ![g] = r]
    BY <1>5, <2>2 DEF RunTick
  <2> QED
    BY <1>5, <2>1, <2>2, <2>3, RunStep DEF RunTick
<1>6. CASE RunClose(g)
  <2>1. /\ g = starts /\ cancelFunc = starts /\ cancelFunc # 0
        /\ \A h \in Goroutines : h # g => run[h].pc \in {"none", "over"}
        /\ \A c \in Callers : at[c] = "clear" => cancel[c] # starts
    BY <1>6, ActiveIsLatest DEF RunClose
  <2>2. /\ run'[g].pc = "over" /\ run'[g].chan = g
        /\ run'[g] \in [pc : RunSteps, chan : Nat, test : Nat]
        /\ \A h \in Goroutines : h # g => run'[h] = run[h]
    BY <1>1, <1>2, <1>6 DEF RunClose, IInv, Types, RunSteps
  <2>3. closed' = closed \cup {g} /\ g \notin closed
    BY <1>2, <1>6 DEF RunClose, IInv, OwnChannel
  <2>4. NeverPanics'
    BY <1>2, <1>6, <2>3 DEF RunClose, IInv, NeverPanics
  <2>5. Types'
    BY <1>6, <2>2 DEF RunClose, IInv, Types, stops
  <2>6. Latest' /\ Fields'
    BY <1>6, <2>1, <2>2 DEF RunClose, IInv, Latest, Fields
  <2>7. OwnChannel'
    BY <2>2, <2>3 DEF IInv, OwnChannel
  <2>8. StopShape' /\ Idle'
    BY <1>6, <2>1 DEF RunClose, IInv, StopShape, Idle, stops
  <2> QED
    BY <2>4, <2>5, <2>6, <2>7, <2>8 DEF IInv
<1> QED
  BY <1>3, <1>4, <1>5, <1>6 DEF RunNext

LEMMA Step == IInv /\ [Next]_vars /\ ~late' => IInv'
<1> SUFFICES ASSUME IInv, [Next]_vars, ~late' PROVE IInv'
  OBVIOUS
<1>1. CASE CallerDone \/ UNCHANGED vars
  BY <1>1 DEF CallerDone, vars, runs, checker, channels, stops, IInv, Types, Latest, Fields,
     OwnChannel, StopShape, Idle, NoneActive, NeverPanics
<1> QED
  BY <1>1, StartStep, StopStep, GoroutineStep DEF Next

\* What was late stays so.
LEMMA LateStays == late /\ [Next]_vars => late'
  BY DEF Next, vars, stops, Start, StopNext, StopRead, StopCancel, StopAwait, StopJoined,
         StopClear, RunNext, RunBegin, RunResult, RunError, RunTick, RunDone, RunClose,
         CallerDone

LEMMA Invariance == Spec => [](late \/ IInv)
  BY Initial, Step, LateStays, PTL DEF Spec

LEMMA AtMostOne == IInv => Cardinality(Active) <= 1
<1> SUFFICES ASSUME IInv PROVE Cardinality(Active) <= 1
  OBVIOUS
<1>1. Active \subseteq {starts}
  BY DEF IInv, Types, Latest, Active, Goroutines
<1>2. IsFiniteSet({starts}) /\ Cardinality({starts}) = 1
  BY FS_Singleton
<1>3. Cardinality(Active) <= Cardinality({starts})
  BY <1>1, <1>2, FS_Subset
<1> QED
  BY <1>2, <1>3

\* However many callers mix Start and Stop and however long a test takes, the only
\* way to a second goroutine is a Stop that clears the cancelFunc of a Start later
\* than the one it read (dnsleak.go:252, 263).
THEOREM NeverTwo == Spec => []OneChecker
<1>1. late \/ IInv => OneChecker
  BY AtMostOne DEF OneChecker
<1> QED
  BY <1>1, Invariance, PTL

\* That is also the only way to a goroutine that closes the channel of another
\* (dnsleak.go:288), which ends the program.
THEOREM NoPanic == Spec => []ClosedOnce
<1>1. late \/ IInv => ClosedOnce
  BY DEF IInv, NeverPanics, ClosedOnce
<1> QED
  BY <1>1, Invariance, PTL

\* And the only way to a result between a Stop and the next Start (dnsleak.go:318).
THEOREM QuietAfterStop == Spec => QuietWhenStopped
<1>1. (late \/ IInv) /\ [Next]_vars => [results' # results => cancelFunc # 0 \/ late]_vars
  <2> SUFFICES ASSUME IInv, Next, results' # results PROVE cancelFunc # 0
    BY DEF vars
  <2>1. PICK g \in Goroutines : RunResult(g)
    BY DEF Next, Start, StopNext, StopRead, StopCancel, StopAwait, StopJoined, StopClear,
       RunNext, RunBegin, RunError, RunTick, RunDone, RunClose, CallerDone, runs
  <2> QED
    BY <2>1, ActiveIsLatest DEF RunResult
<1> QED
  BY Invariance, <1>1, PTL DEF Spec, QuietWhenStopped

(* The list of results *)

\* What Results may answer: the last tests that gave a result, in their order.
ResultsInOrder ==
  /\ Len(results) <= Keep
  /\ \A i, j \in DOMAIN results : i < j => results[i] < results[j]

\* No result is of a test to come, and a running test is newer than them all.
Ordered ==
  /\ results \in Seq(Nat)
  /\ ResultsInOrder
  /\ \A i \in DOMAIN results : results[i] <= tests
  /\ \A g \in Goroutines : run[g].pc \in {"first", "test"} =>
       run[g].test = tests /\ \A i \in DOMAIN results : results[i] < tests

\* What remains of a sequence when its head is cut off.
LEMMA LastIsTail ==
  ASSUME NEW s \in Seq(Nat), NEW n \in Nat, n > 0, Len(s) > 0
  PROVE  /\ Last(s, n) \in Seq(Nat)
         /\ Len(Last(s, n)) <= n
         /\ \E d \in Nat : \A i \in DOMAIN Last(s, n) :
              i + d \in DOMAIN s /\ Last(s, n)[i] = s[i + d]
<1> DEFINE a == IF Len(s) > n THEN Len(s) - n + 1 ELSE 1
           l == Len(s)
<1>1. l \in Nat /\ a \in 1 .. l /\ l - a + 1 <= n /\ DOMAIN s = 1 .. l
  BY LenProperties
<1>2. Last(s, n) = SubSeq(s, a, l)
  BY DEF Last
<1> HIDE DEF a, l
<1>3. /\ SubSeq(s, a, l) \in Seq(Nat)
      /\ Len(SubSeq(s, a, l)) = l - a + 1
      /\ \A i \in 1 .. l - a + 1 : SubSeq(s, a, l)[i] = s[a + i - 1]
  <2>1. \A i \in a .. l : s[i] \in Nat
    BY <1>1, ElementOfSeq DEF l
  <2>2. a \in Int /\ l \in Int /\ a <= l
    BY <1>1
  <2> QED
    BY <2>1, <2>2, SubSeqProperties
<1>4. DOMAIN SubSeq(s, a, l) = 1 .. l - a + 1
  BY <1>3, LenProperties
<1>5. \A i \in 1 .. l - a + 1 :
        i + (a - 1) \in 1 .. l /\ SubSeq(s, a, l)[i] = s[i + (a - 1)]
  BY <1>1, <1>3
<1>6. a - 1 \in Nat
  BY <1>1
<1> QED
  BY <1>1, <1>2, <1>3, <1>4, <1>5, <1>6

LEMMA OrderedBegins ==
  ASSUME IInv, Ordered, NEW g \in Goroutines, RunBegin(g) \/ RunTick(g)
  PROVE  Ordered'
<1>1. /\ tests \in Nat /\ tests' = tests + 1 /\ results' = results
      /\ run'[g].test = tests' /\ \A h \in Goroutines : h # g => run'[h] = run[h]
  BY DEF RunBegin, RunTick, Begun, IInv, Types
<1>2. \A h \in Goroutines : h # g => run[h].pc \in {"none", "over"}
  BY ActiveIsLatest DEF RunBegin, RunTick
<1>3. \A i \in DOMAIN results : results[i] \in Nat /\ results[i] < tests'
  BY <1>1, ElementOfSeq, LenProperties DEF Ordered
<1> QED
  BY <1>1, <1>2, <1>3 DEF Ordered, ResultsInOrder

LEMMA OrderedResult ==
  ASSUME IInv, Ordered, NEW g \in Goroutines, RunResult(g)
  PROVE  Ordered'
<1> DEFINE t == run[g].test
           s == Append(results, t)
<1>1. /\ tests \in Nat /\ tests' = tests /\ run'[g].pc = "select" /\ t = tests
      /\ \A h \in Goroutines : h # g => run'[h] = run[h]
      /\ \A h \in Goroutines : h # g => run[h].pc \in {"none", "over"}
  BY ActiveIsLatest DEF RunResult, IInv, Types, Ordered
<1>2. \A i \in DOMAIN results : results[i] < tests
  BY DEF RunResult, Ordered
<1>3. /\ s \in Seq(Nat) /\ Len(s) = Len(results) + 1 /\ Len(results) \in Nat
      /\ DOMAIN s = 1 .. Len(results) + 1 /\ DOMAIN results = 1 .. Len(results)
      /\ s[Len(results) + 1] = tests
      /\ \A i \in 1 .. Len(results) : s[i] = results[i] /\ results[i] \in Nat
  BY <1>1, AppendProperties, LenProperties, ElementOfSeq DEF Ordered
<1>4. \A i, j \in DOMAIN s : (i < j => s[i] < s[j]) /\ s[i] <= tests
  BY <1>1, <1>2, <1>3 DEF Ordered, ResultsInOrder
<1>5. results' = Last(s, Keep) /\ Keep \in Nat /\ Keep > 0
  BY CheckerAssumption DEF RunResult
<1> HIDE DEF s
<1>6. /\ results' \in Seq(Nat) /\ Len(results') <= Keep
      /\ \E d \in Nat : \A i \in DOMAIN results' :
           i + d \in DOMAIN s /\ results'[i] = s[i + d]
  <2>1. s \in Seq(Nat) /\ Len(s) > 0
    BY <1>3
  <2>2. /\ Last(s, Keep) \in Seq(Nat) /\ Len(Last(s, Keep)) <= Keep
        /\ \E d \in Nat : \A i \in DOMAIN Last(s, Keep) :
             i + d \in DOMAIN s /\ Last(s, Keep)[i] = s[i + d]
    BY <1>5, <2>1, LastIsTail
  <2> QED
    BY <1>5, <2>2
<1>7. PICK d \in Nat : \A i \in DOMAIN results' :
                         i + d \in DOMAIN s /\ results'[i] = s[i + d]
  BY <1>6
<1>8. \A i \in DOMAIN results' : i \in Int
  BY <1>6, LenProperties
<1>9. /\ \A i, j \in DOMAIN results' : i < j => results'[i] < results'[j]
      /\ \A i \in DOMAIN results' : results'[i] <= tests
  BY <1>4, <1>7, <1>8
<1> QED
  BY <1>1, <1>6, <1>9 DEF Ordered, ResultsInOrder

LEMMA OrderedStep == IInv /\ Ordered /\ [Next]_vars => Ordered'
<1> SUFFICES ASSUME IInv, Ordered, [Next]_vars PROVE Ordered'
  OBVIOUS
<1>1. CASE UNCHANGED runs
  BY <1>1 DEF Ordered, ResultsInOrder, runs
<1>2. ASSUME NEW c \in Callers, Start(c) PROVE Ordered'
  <2>1. \A g \in Goroutines : run'[g].pc \in {"first", "test"} => run'[g] = run[g]
    BY <1>2 DEF Start, IInv, Types
  <2> QED
    BY <1>2, <2>1 DEF Start, Ordered, ResultsInOrder
<1>3. ASSUME NEW g \in Goroutines, RunError(g) \/ RunDone(g) \/ RunClose(g)
      PROVE  Ordered'
  <2>1. \A h \in Goroutines : run'[h].pc \in {"first", "test"} => run'[h] = run[h]
    BY <1>3 DEF RunError, RunDone, RunClose, IInv, Types
  <2> QED
    BY <1>3, <2>1 DEF RunError, RunDone, RunClose, Ordered, ResultsInOrder
<1> QED
  BY <1>1, <1>2, <1>3, OrderedBegins, OrderedResult
     DEF Next, StopNext, StopRead, StopCancel, StopAwait, StopJoined, StopClear,
         RunNext, CallerDone, vars

\* However long tests take and however Start and Stop come in between, Results
\* lists no more than the last Keep tests, none twice, in the order they were
\* begun (dnsleak.go:321), unless a Stop was late.
THEOREM OldestIsDropped == Spec => [](late \/ ResultsInOrder)
<1>1. Init => Ordered
  <2> SUFFICES ASSUME Init PROVE Ordered
    OBVIOUS
  <2>1. results = << >> /\ Len(results) = 0 /\ DOMAIN results = {} /\ results \in Seq(Nat)
    BY EmptySeq DEF Init
  <2>2. \A g \in Goroutines : run[g].pc = "none"
    BY DEF Init, NotStarted
  <2> QED
    BY <2>1, <2>2, CheckerAssumption DEF Ordered, ResultsInOrder
<1>2. Ordered => ResultsInOrder
  BY DEF Ordered
<1>3. (late \/ IInv) /\ (late \/ Ordered) /\ [Next]_vars => (late \/ Ordered)'
  BY OrderedStep, LateStays
<1> QED
  BY <1>1, <1>2, <1>3, Invariance, PTL DEF Spec

-----------------------------------------------------------------------------
(* ReputationCache *)

\* Entries are times that have been.
Ranged(entries) ==
  \A c \in DOMAIN entries : c \in Countries /\ entries[c] \in Nat /\ entries[c] <= now

CacheTypes ==
  /\ now \in Nat
  /\ country \in Countries
  /\ newest \in [Countries -> Int]
  /\ \A c \in Countries : Never <= newest[c] /\ newest[c] <= now
  /\ Ranged(cached.entries) /\ (file.kind = "cache" => Ranged(file.entries))

\* A set of entries has the newest answer for each country that has one.
Current(entries) ==
  \A c \in Countries : IF c \in DOMAIN entries THEN entries[c] = newest[c]
                                               ELSE newest[c] = Never

\* What readCache would make of the file.
Readable == IF file.kind = "cache" THEN file.entries ELSE << >>

\* The file is torn only while a Check writes it.
FileCurrent == pc # "write" => Current(Readable)

\* What a Check has read stays true: there is one Check at a time.
ReadCurrent == pc # "idle" => Current(cached.entries)

\* What a Check has fetched is no older than any answer before it.
FetchedLast ==
  pc \in {"truncate", "write"} =>
    /\ fetched \in Nat /\ newest[country] <= fetched /\ fetched <= now

Answered == answer.kind # "none" => answer.of \in Countries

\* A write that was lost is the end of all promises but those of the types.
Kept == FileCurrent /\ ReadCurrent /\ NeverOlder /\ KnownIsAnswered
CacheInv == CacheTypes /\ FetchedLast /\ Answered /\ (~lost => Kept)

LEMMA CacheInitial == CacheInit => CacheInv
<1> SUFFICES ASSUME CacheInit PROVE CacheInv
  OBVIOUS
<1>1. CacheTypes
  BY DEF CacheInit, CacheTypes, Never, Absent, NoCache, Cache, Ranged
<1>2. FetchedLast /\ Answered
  BY DEF CacheInit, FetchedLast, Answered
<1>3. FileCurrent /\ ReadCurrent
  BY DEF CacheInit, FileCurrent, ReadCurrent, Current, Readable, Absent
<1>4. NeverOlder /\ KnownIsAnswered
  BY DEF CacheInit, NeverOlder, KnownIsAnswered
<1> QED
  BY <1>1, <1>2, <1>3, <1>4 DEF CacheInv, Kept

\* Recording an answer touches the history of its country alone.
LEMMA Recorded ==
  ASSUME CacheInv, NEW kind, NEW t \in Int, Return(kind, t), Never <= t, t <= now
  PROVE  /\ newest' \in [Countries -> Int]
         /\ \A c \in Countries : Never <= newest'[c] /\ newest'[c] <= now
         /\ \A c \in Countries : c # country => newest'[c] = newest[c]
         /\ newest[country] <= t => newest'[country] = t
         /\ t <= newest[country] => newest'[country] = newest[country]
         /\ answer'.kind = kind /\ answer'.of = country /\ answer'.at = t
         /\ pc' = "idle"
  BY DEF CacheInv, CacheTypes, Return

LEMMA CacheTypeStep ==
  CacheInv /\ [CacheNext]_cacheVars => CacheTypes' /\ FetchedLast' /\ Answered'
<1> SUFFICES ASSUME CacheInv, [CacheNext]_cacheVars
             PROVE  CacheTypes' /\ FetchedLast' /\ Answered'
  OBVIOUS
<1> USE DEF CacheInv, CacheTypes, FetchedLast, Answered
<1>1. CASE CheckRead
  <2>1. Ranged(cached.entries)'
    BY <1>1 DEF CheckRead, Ranged, NoCache, Cache
  <2> QED
    BY <1>1, <2>1 DEF CheckRead, returned, Ranged
<1>2. CASE CheckFresh
  <2>1. /\ cached.entries[country] \in Int
        /\ Never <= cached.entries[country] /\ cached.entries[country] <= now
    BY <1>2 DEF CheckFresh, IsFresh, Has, Ranged, Never
  <2> QED
    BY <1>2, <2>1, Recorded DEF CheckFresh, call, Ranged
<1>3. CASE CheckExpired
  BY <1>3 DEF CheckExpired, call, returned, Ranged
<1>4. CASE FetchFails
  <2>1. Fallback => /\ cached.entries[country] \in Int
                       /\ Never <= cached.entries[country]
                       /\ cached.entries[country] <= now
    BY DEF Fallback, Has, Ranged, Never
  <2>2. Never \in Int /\ Never <= now
    BY DEF Never
  <2>3. PICK kind : \E t \in Int : Return(kind, t) /\ Never <= t /\ t <= now
    BY <1>4, <2>1, <2>2 DEF FetchFails
  <2>4. UNCHANGED <<now, file, call, lost>>
    BY <1>4 DEF FetchFails
  <2> QED
    BY <2>3, <2>4, Recorded DEF call, Ranged
<1>5. CASE FetchSucceeds
  BY <1>5 DEF FetchSucceeds, returned, Ranged
<1>6. CASE WriteTruncate
  <2>1. CASE file' = Torn /\ pc' = "write" /\ UNCHANGED <<returned, lost>>
    BY <1>6, <2>1 DEF WriteTruncate, Torn, call, returned, Ranged
  <2>2. CASE Return("fetched", fetched) /\ file' = file
    <3>1. fetched \in Int /\ Never <= fetched /\ fetched <= now
      BY <1>6 DEF WriteTruncate, Never
    <3> QED
      BY <1>6, <2>2, <3>1, Recorded DEF WriteTruncate, call, Ranged
  <2> QED
    BY <1>6, <2>1, <2>2 DEF WriteTruncate
<1>7. CASE WriteCache
  <2>1. fetched \in Nat /\ Never <= fetched /\ fetched <= now
    BY <1>7 DEF WriteCache, Never
  <2>2. Ranged(Entries)
    BY <2>1 DEF Entries, Ranged
  <2>3. file'.kind = "cache" => Ranged(file'.entries)
    BY <1>7, <2>2 DEF WriteCache, Cache
  <2> QED
    BY <1>7, <2>1, <2>3, Recorded DEF WriteCache, call, Ranged
<1>8. CASE Restart
  BY <1>8 DEF Restart, call, returned, Ranged
<1>9. CASE Tick
  BY <1>9 DEF Tick, call, returned, Ranged
<1>10. CASE UNCHANGED cacheVars
  BY <1>10 DEF cacheVars, call, returned, Ranged
<1> QED
  BY <1>1, <1>2, <1>3, <1>4, <1>5, <1>6, <1>7, <1>8, <1>9, <1>10 DEF CacheNext

\* Losing nothing: every step keeps the file and what was read of it current.
LEMMA KeptStep == CacheInv /\ [CacheNext]_cacheVars => (~lost' => Kept')
<1> SUFFICES ASSUME CacheInv, [CacheNext]_cacheVars, ~lost' PROVE Kept'
  OBVIOUS
<1> USE DEF CacheInv, Kept
<1>1. ~lost
  BY DEF CacheNext, CheckRead, CheckFresh, CheckExpired, FetchFails,
     FetchSucceeds, WriteTruncate, WriteCache, Restart, Tick,
     cacheVars
<1>2. /\ FileCurrent /\ ReadCurrent /\ NeverOlder /\ KnownIsAnswered
      /\ FetchedLast /\ Answered /\ CacheTypes
  BY <1>1
\* A step that answers nothing and leaves the file alone.
<1>3. ASSUME UNCHANGED <<returned, file>>, pc' # "write",
             pc # "write", pc' # "idle" => Current(cached.entries)'
      PROVE  Kept'
  BY <1>1, <1>2, <1>3
     DEF returned, FileCurrent, ReadCurrent, NeverOlder, KnownIsAnswered,
         Current, Readable
\* An answer that is the newest one already.
<1>4. ASSUME NEW kind, Return(kind, newest[country]),
             UNCHANGED <<now, file, call>>,
             pc # "write", kind = "error" => newest[country] = Never
      PROVE  Kept'
  <2>1. newest' = newest
    BY <1>2, <1>4, Recorded DEF CacheTypes, Return
  <2>2. answer'.kind = kind /\ answer'.of = country /\ answer'.at = newest[country]
    BY <1>4 DEF Return
  <2>3. pc' = "idle"
    BY <1>4 DEF Return
  <2> QED
    BY <1>1, <1>2, <1>4, <2>1, <2>2, <2>3
       DEF FileCurrent, ReadCurrent, NeverOlder, KnownIsAnswered, Current, Readable
<1>5. CASE CheckRead
  BY <1>2, <1>3, <1>5
     DEF CheckRead, Readable, FileCurrent, NoCache, Cache, returned, Current
<1>6. CASE CheckFresh
  <2>1. cached.entries[country] = newest[country]
    BY <1>2, <1>6
       DEF CheckFresh, IsFresh, Has, ReadCurrent, Current, CacheTypes
  <2> QED
    BY <1>2, <1>4, <1>6, <2>1 DEF CheckFresh
<1>7. CASE CheckExpired
  BY <1>2, <1>3, <1>7 DEF CheckExpired, ReadCurrent, Current, call, returned
<1>8. CASE FetchFails
  <2>1. CASE Fallback
    <3>1. cached.entries[country] = newest[country]
      BY <1>2, <1>8, <2>1
         DEF FetchFails, Fallback, Has, ReadCurrent, Current, CacheTypes
    <3> QED
      BY <1>2, <1>4, <1>8, <2>1, <3>1 DEF FetchFails
  <2>2. CASE ~Fallback
    <3>1. newest[country] = Never
      BY <1>2, <1>8, <2>2
         DEF FetchFails, Fallback, Has, ReadCurrent, Current, CacheTypes
    <3> QED
      BY <1>2, <1>4, <1>8, <2>2, <3>1 DEF FetchFails
  <2> QED
    BY <2>1, <2>2
<1>9. CASE FetchSucceeds
  BY <1>2, <1>3, <1>9 DEF FetchSucceeds, ReadCurrent, Current, returned
<1>10. CASE WriteTruncate
  <2>1. /\ pc = "truncate" /\ file' = Torn /\ pc' = "write"
        /\ UNCHANGED <<now, call, returned>>
    BY <1>1, <1>10 DEF WriteTruncate
  <2> QED
    BY <1>1, <1>2, <2>1 DEF FileCurrent, ReadCurrent, NeverOlder, KnownIsAnswered,
       Current, call, returned
<1>11. CASE WriteCache
  <2>1. /\ \E stamp : file' = Cache(stamp, Entries)
        /\ Return("fetched", fetched)
    BY <1>1, <1>11 DEF WriteCache
  <2>2. /\ fetched \in Nat /\ Never <= fetched /\ fetched <= now
        /\ newest[country] <= fetched
    BY <1>2, <1>11 DEF WriteCache, FetchedLast, Never, CacheTypes
  <2>3. /\ newest'[country] = fetched /\ country \in Countries
        /\ \A c \in Countries : c # country => newest'[c] = newest[c]
        /\ answer'.kind = "fetched" /\ answer'.of = country /\ answer'.at = fetched
        /\ pc' = "idle"
    BY <2>1, <2>2, Recorded DEF CacheTypes
  <2>4. Current(cached.entries)
    BY <1>2, <1>11 DEF WriteCache, ReadCurrent
  <2>5. \A c \in Countries :
          IF c \in DOMAIN Entries THEN Entries[c] = newest'[c]
                                     ELSE newest'[c] = Never
    BY <2>3, <2>4 DEF Current, Entries
  <2>6. Readable' = Entries
    BY <2>1 DEF Readable, Cache
  <2> QED
    BY <2>3, <2>5, <2>6
       DEF FileCurrent, ReadCurrent, NeverOlder, KnownIsAnswered, Current
<1>12. CASE Restart
  <2>1. pc # "write" /\ pc' = "idle"
    BY <1>12 DEF Restart
  <2> QED
    BY <1>2, <1>3, <1>12, <2>1
       DEF Restart, ReadCurrent, Current, call, returned
<1>13. CASE Tick
  BY <1>2, <1>3, <1>13 DEF Tick, call, returned,
     FileCurrent, ReadCurrent, NeverOlder, KnownIsAnswered, Current, Readable
<1>14. CASE UNCHANGED cacheVars
  BY <1>2, <1>14 DEF cacheVars, call, returned,
     FileCurrent, ReadCurrent, NeverOlder, KnownIsAnswered, Current, Readable
<1> QED
  BY <1>5, <1>6, <1>7, <1>8, <1>9, <1>10, <1>11, <1>12, <1>13, <1>14 DEF CacheNext

LEMMA CacheInvariance == CacheSpec => []CacheInv
<1>1. CacheInv /\ [CacheNext]_cacheVars => CacheInv'
  BY CacheTypeStep, KeptStep DEF CacheInv
<1> QED
  BY CacheInitial, <1>1, PTL DEF CacheSpec

\* What Check answers never goes back in time, for any countries asked in any
\* order and any fetches that fail, while the file can be written
\* (reputation.go:265: the entries of the other countries are carried over).
THEOREM AnswersAdvance == CacheSpec => []NeverOlder
<1>1. CacheInv => NeverOlder
  BY DEF CacheInv, Kept, NeverOlder
<1> QED
  BY CacheInvariance, <1>1, PTL

\* A country that was answered once is never answered with an error, while the
\* file can be written (reputation.go:75, the fallback on a stale cache).
THEOREM OnceKnown == CacheSpec => []KnownIsAnswered
<1>1. CacheInv => KnownIsAnswered
  BY DEF CacheInv, Kept, KnownIsAnswered
<1> QED
  BY CacheInvariance, <1>1, PTL
=============================================================================
