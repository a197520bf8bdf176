--------------------------- MODULE PeriodicChecker ---------------------------
(***************************************************************************)
(* internal/health/dnsleak.go: the PeriodicChecker, a goroutine that runs  *)
(* the DNS leak test at once and then at every tick, and the Start and     *)
(* Stop its callers give it.                                               *)
(*                                                                         *)
(* The n-th successful Start makes the n-th context, channel pc.done and   *)
(* goroutine; the number stands for all three.  Stop holds pc.mu when it   *)
(* reads and when it clears pc.cancelFunc and not in between, and the      *)
(* goroutine evaluates pc.done, for its deferred close, when it begins.    *)
(* The test itself is an outcome: a result or an error, at any time.       *)
(***************************************************************************)
EXTENDS Naturals, Sequences, FiniteSets

CONSTANTS Callers,     \* the goroutines that call Start and Stop
          Keep,        \* how many results are kept (100)
          MaxStarts,   \* bound: successful Starts
          MaxTests     \* bound: no tick begins another test after so many

ASSUME CheckerAssumption == {Keep, MaxStarts, MaxTests} \subseteq Nat /\ Keep > 0

VARIABLES ended,       \* the context the callers pass is done
          starts,      \* successful Starts so far
          cancelFunc,  \* pc.cancelFunc: whose context it cancels, 0 for nil
          done,        \* pc.done: whose channel, 0 for that of the constructor
          cancelled,   \* the contexts that were cancelled
          closed,      \* the channels that were closed
          panicked,    \* a closed channel was closed again
          run,         \* position of each goroutine, its channel, its test
          tests,       \* tests begun so far
          results,     \* pc.results, the tests by their number
          at,          \* Stop of each caller: its position,
          cancel,      \* its local cancel: the Start whose cancelFunc it read,
          wait,        \* and the channel it awaits
          late         \* history: a Stop cleared the cancelFunc of a later Start

checker == <<cancelFunc, done>>
channels == <<closed, panicked>>
runs == <<run, tests, results>>
stops == <<at, cancel, wait, late>>
vars == <<ended, starts, checker, cancelled, channels, runs, stops>>

Goroutines == 1 .. MaxStarts
NotStarted == [pc |-> "none", chan |-> 0, test |-> 0]

Init == /\ ended = FALSE /\ starts = 0
        /\ cancelFunc = 0 /\ done = 0
        /\ cancelled = {} /\ closed = {} /\ panicked = FALSE
        /\ run = [g \in Goroutines |-> NotStarted]
        /\ tests = 0 /\ results = <<>>
        /\ at = [c \in Callers |-> "idle"]
        /\ cancel = [c \in Callers |-> 0] /\ wait = [c \in Callers |-> 0]
        /\ late = FALSE

-----------------------------------------------------------------------------
(* Start and Stop *)

\* Mutant: Start does not look whether the checker runs.
MutMayStart == TRUE

MayStart == cancelFunc = 0

\* Mutant: the channel is made by the constructor alone.
MutNewDone == done

NewDone == starts + 1

Start(c) ==
  /\ at[c] = "idle" /\ starts < MaxStarts
  /\ MayStart
  /\ starts' = starts + 1
  /\ cancelFunc' = starts' /\ done' = NewDone
  /\ run' = [run EXCEPT ![starts'].pc = "new"]
  /\ UNCHANGED <<ended, cancelled, channels, tests, results, stops>>

\* Without a cancelFunc Stop returns an error.
StopRead(c) ==
  /\ at[c] = "idle"
  /\ cancelFunc # 0
  /\ at' = [at EXCEPT ![c] = "cancel"]
  /\ cancel' = [cancel EXCEPT ![c] = cancelFunc]
  /\ UNCHANGED <<ended, starts, checker, cancelled, channels, runs, wait, late>>

StopCancel(c) ==
  /\ at[c] = "cancel"
  /\ cancelled' = cancelled \cup {cancel[c]}
  /\ at' = [at EXCEPT ![c] = "await"]
  /\ UNCHANGED <<ended, starts, checker, channels, runs, cancel, wait, late>>

\* pc.done is read without the lock: it may be that of a later Start.
StopAwait(c) ==
  /\ at[c] = "await"
  /\ wait' = [wait EXCEPT ![c] = done]
  /\ at' = [at EXCEPT ![c] = "blocked"]
  /\ UNCHANGED <<ended, starts, checker, cancelled, channels, runs, cancel, late>>

\* Mutant: Stop does not wait.
MutJoined(c) == TRUE

Joined(c) == wait[c] \in closed

StopJoined(c) ==
  /\ at[c] = "blocked"
  /\ Joined(c)
  /\ at' = [at EXCEPT ![c] = "clear"]
  /\ UNCHANGED <<ended, starts, checker, cancelled, channels, runs>>
  /\ UNCHANGED <<cancel, wait, late>>

\* Whatever is there now is cleared.
StopClear(c) ==
  /\ at[c] = "clear"
  /\ cancelFunc' = 0
  /\ late' = (late \/ cancelFunc \notin {0, cancel[c]})
  /\ at' = [at EXCEPT ![c] = "idle"]
  /\ UNCHANGED <<ended, starts, done, cancelled, channels, runs, cancel, wait>>

-----------------------------------------------------------------------------
(* The goroutine *)

Begun == tests + 1

\* The deferred close takes the channel; the first test begins.
RunBegin(g) ==
  /\ run[g].pc = "new"
  /\ run' = [run EXCEPT ![g] = [pc |-> "first", chan |-> done, test |-> Begun]]
  /\ tests' = Begun
  /\ UNCHANGED <<ended, starts, checker, cancelled, channels, results, stops>>

Last(s, n) == SubSeq(s, IF Len(s) > n THEN Len(s) - n + 1 ELSE 1, Len(s))

RunResult(g) ==
  /\ run[g].pc \in {"first", "test"}
  /\ results' = Last(Append(results, run[g].test), Keep)
  /\ run' = [run EXCEPT ![g].pc = "select"]
  /\ UNCHANGED <<ended, starts, checker, cancelled, channels, tests, stops>>

CtxDone(g) == g \in cancelled \/ ended

\* Only the tests of the loop look at the context after an error.
RunError(g) ==
  /\ run[g].pc \in {"first", "test"}
  /\ run' = [run EXCEPT ![g].pc = IF run[g].pc = "test" /\ CtxDone(g) THEN "close"
                                                                      ELSE "select"]
  /\ UNCHANGED <<ended, starts, checker, cancelled, channels, tests, results, stops>>

\* When the context is done and the ticker fired, either is chosen.
RunTick(g) ==
  /\ run[g].pc = "select" /\ tests < MaxTests
  /\ run' = [run EXCEPT ![g] = [pc |-> "test", chan |-> @.chan, test |-> Begun]]
  /\ tests' = Begun
  /\ UNCHANGED <<ended, starts, checker, cancelled, channels, results, stops>>

\* Mutant: the loop only ends with the context of the callers.
MutSeesDone(g) == ended

SeesDone(g) == CtxDone(g)

RunDone(g) ==
  /\ run[g].pc = "select"
  /\ SeesDone(g)
  /\ run' = [run EXCEPT ![g].pc = "close"]
  /\ UNCHANGED <<ended, starts, checker, cancelled, channels, tests, results, stops>>

RunClose(g) ==
  /\ run[g].pc = "close"
  /\ closed' = closed \cup {run[g].chan}
  /\ panicked' = (panicked \/ run[g].chan \in closed)
  /\ run' = [run EXCEPT ![g].pc = "over"]
  /\ UNCHANGED <<ended, starts, checker, cancelled, tests, results, stops>>

CallerDone ==
  /\ ~ended /\ ended' = TRUE
  /\ UNCHANGED <<starts, checker, cancelled, channels, runs, stops>>

-----------------------------------------------------------------------------

StopNext(c) == \/ StopRead(c) \/ StopCancel(c) \/ StopAwait(c)
               \/ StopJoined(c) \/ StopClear(c)
RunNext(g) == \/ RunBegin(g) \/ RunResult(g) \/ RunError(g) \/ RunTick(g)
              \/ RunDone(g) \/ RunClose(g)

\* A panic ends the program.
Next == /\ ~panicked
        /\ \/ \E c \in Callers : Start(c) \/ StopNext(c)
           \/ \E g \in Goroutines : RunNext(g)
           \/ CallerDone

Spec == Init /\ [][Next]_vars

(* Goroutines are scheduled.  A test need not end: the context of a checker *)
(* has no deadline and its end closes no connection.  Of two ready arms    *)
(* select takes one at random; the bound on the ticks stands for its not   *)
(* passing over a done context for ever.                                   *)
Testing(g) == run[g].pc \in {"first", "test"}
StopProgress(c) == StopCancel(c) \/ StopAwait(c) \/ StopJoined(c) \/ StopClear(c)

Fairness ==
  /\ \A c \in Callers : WF_vars(~panicked /\ StopProgress(c))
  /\ \A g \in Goroutines : WF_vars(~panicked /\ ~Testing(g) /\ RunNext(g))

FairSpec == Spec /\ Fairness

-----------------------------------------------------------------------------
(* Properties *)

Active == {g \in Goroutines : run[g].pc \notin {"none", "over"}}

\* dnsleak.go:239: "Start: checker already running".  Callers may overlap in Start
\* and Stop as they like: as long as no Stop has cleared the cancelFunc of a Start
\* that came after it read its own (line 263), there is one goroutine at most.
OneChecker == late \/ Cardinality(Active) <= 1

\* Nor is, that far, a channel closed twice, which would end the whole program:
\* every goroutine finds the channel of its own Start when it begins (line 288).
ClosedOnce == late \/ ~panicked

\* Nor does what Results returns after a Stop change until the next Start: no late
\* result of a test that was running.
QuietWhenStopped == [][results' # results => cancelFunc # 0 \/ late]_vars

\* A Stop that waits for a test that does not end; and one that waits for a
\* goroutine it did not cancel: another Stop, and a Start, came between.
HeldByTest(c) ==
  at[c] = "blocked" /\ \E g \in Goroutines : Testing(g) /\ run[g].chan = wait[c]
Overtaken(c) == at[c] = "blocked" /\ wait[c] # cancel[c]

\* Stop returns, also in the middle of a test and beside other Stops: nothing can
\* hold it but a test that never ends, or other callers in the two ways named above.
StopTerminates ==
  \A c \in Callers :
    at[c] = "cancel" ~> at[c] = "idle" \/ []HeldByTest(c) \/ Overtaken(c) \/ late

\* The same without the exceptions: TLC refutes the first two with two callers and
\* the third with one, whose test hangs.
OneCheckerAlways == Cardinality(Active) <= 1
NeverPanics == ~panicked
StopReturns == \A c \in Callers : at[c] = "cancel" ~> at[c] = "idle"

\* ROADMAP 7.3.7: "Run at startup and periodically": a running checker comes
\* back from every test to wait for the next tick or to end.
TestedPeriodically ==
  \A g \in Goroutines : run[g].pc = "first" ~> run[g].pc \in {"select", "over"}
=============================================================================
