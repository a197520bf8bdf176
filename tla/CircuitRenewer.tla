--------------------------- MODULE CircuitRenewer ---------------------------
(***************************************************************************)
(* internal/circuit: the renewer, one worker goroutine per Tor instance    *)
(* that keeps a connection to the instance's control port and sends SIGNAL *)
(* NEWNYM on it at random intervals, and the collector runAll, whose       *)
(* return lets Stop return.  At the other end of each connection is a Tor  *)
(* that the rotation and the supervisor kill and start again; every life   *)
(* of it has connections and an authentication of its own.                 *)
(***************************************************************************)
EXTENDS Integers, FiniteSets

CONSTANTS Instances,  \* the Tor instances
          MaxLife     \* bound on the lives of each Tor

ASSUME RenewerAssumption ==
  IsFiniteSet(Instances) /\ Instances # {} /\ MaxLife \in Nat \ {0}

VARIABLES
  life,       \* the number of the Tor process of each instance
  up,         \* the instances whose Tor listens on its control port
  stuck,      \* those whose Tor accepts commands but does not answer
  conn,       \* Client.conn of each worker: the life it leads to, 0 if nil
  open,       \* how many connections of each worker are open: dialled, not closed
  auth,       \* the life that accepted the AUTHENTICATE of that connection
  worker,     \* where each worker is
  collected,  \* how many values runAll received from doneCh
  done,       \* runAll has returned: channel done closed
  cancelled,  \* the context of the renewer
  stopping    \* where Stop is

tor  == <<life, up, stuck>>
link == <<conn, open, auth>>
ctl  == <<collected, done, cancelled, stopping>>
vars == <<tor, link, worker, ctl>>

\* Start, called when every instance has been ready.
Init == /\ life = [i \in Instances |-> 1]
        /\ up = Instances
        /\ stuck = {}
        /\ conn = [i \in Instances |-> 0]
        /\ open = [i \in Instances |-> 0]
        /\ auth = [i \in Instances |-> 0]
        /\ worker = [i \in Instances |-> "connect"]
        /\ collected = 0
        /\ done = FALSE
        /\ cancelled = FALSE
        /\ stopping = "idle"

-----------------------------------------------------------------------------
(* The Tor processes *)

TorDown(i) ==
  /\ i \in up
  /\ up' = up \ {i} /\ stuck' = stuck \ {i}
  /\ UNCHANGED <<life, link, worker, ctl>>

TorUp(i) ==
  /\ i \notin up /\ life[i] < MaxLife
  /\ up' = up \cup {i}
  /\ life' = [life EXCEPT ![i] = @ + 1]
  /\ UNCHANGED <<stuck, link, worker, ctl>>

TorHang(i) ==
  /\ i \in up \ stuck
  /\ stuck' = stuck \cup {i}
  /\ UNCHANGED <<life, up, link, worker, ctl>>

\* The connection still leads to a Tor; and that Tor answers.
Linked(i)   == i \in up /\ conn[i] = life[i]
Answered(i) == Linked(i) /\ i \notin stuck

-----------------------------------------------------------------------------
(* runInstance.  Reads have no deadline: one from a stuck Tor does not end. *)

Goto(i, l) == worker' = [worker EXCEPT ![i] = l]

\* Client.Close does nothing the second time.
Close(i) == /\ conn' = [conn EXCEPT ![i] = 0]
            /\ open' = [open EXCEPT ![i] = IF conn[i] = 0 THEN @ ELSE @ - 1]

\* The worker returns, and its deferred Close runs; doneCh is sent to.
Return(i) == Goto(i, "ended") /\ Close(i)

\* Mutant: a reconnected client is taken to be authenticated.
MutConnected(i) == IF worker[i] = "connect" THEN "auth" ELSE "sleep"

Connected(i) == IF worker[i] = "connect" THEN "auth" ELSE "reauth"

\* A successful dial replaces the connection the client had, if any.
Connect(i) ==
  /\ worker[i] \in {"connect", "reconnect"}
  /\ \/ /\ i \in up /\ ~cancelled
        /\ conn' = [conn EXCEPT ![i] = life[i]]
        /\ open' = [open EXCEPT ![i] = @ + 1]
        /\ auth' = [auth EXCEPT ![i] = 0]
        /\ Goto(i, Connected(i))
     \/ /\ i \notin up \/ cancelled
        /\ Return(i)
        /\ UNCHANGED auth
  /\ UNCHANGED <<tor, ctl>>

\* It fails on a broken connection, and on a cookie file that is still that
\* of the previous life.
Authenticate(i) ==
  /\ worker[i] \in {"auth", "reauth"}
  /\ \/ /\ Answered(i)
        /\ auth' = [auth EXCEPT ![i] = conn[i]]
        /\ Goto(i, "sleep")
        /\ UNCHANGED <<conn, open>>
     \/ /\ ~Linked(i) \/ (Answered(i) /\ life[i] > 1)
        /\ Return(i)
        /\ UNCHANGED auth
  /\ UNCHANGED <<tor, ctl>>

Timer(i) ==
  /\ worker[i] = "sleep"
  /\ Goto(i, "newnym")
  /\ UNCHANGED <<tor, link, ctl>>

\* Mutant: the select does not look at the context.
MutSleepCancelled(i) == FALSE

SleepCancelled(i) ==
  /\ worker[i] = "sleep" /\ cancelled
  /\ Return(i)
  /\ UNCHANGED <<tor, auth, ctl>>

\* Mutant: the connection is not closed before the next is dialled.
MutReconnect(i) == Goto(i, "reconnect") /\ UNCHANGED <<conn, open>>

Reconnect(i) == Goto(i, "reconnect") /\ Close(i)

\* SignalNewnym does not look at the context.  A broken connection, or an answer
\* other than 250, leads to one reconnection.
Newnym(i) ==
  /\ worker[i] = "newnym"
  /\ \/ /\ Answered(i)
        /\ Goto(i, "sleep")
        /\ UNCHANGED <<conn, open>>
     \/ /\ ~Linked(i) \/ Answered(i)
        /\ Reconnect(i)
  /\ UNCHANGED <<tor, auth, ctl>>

-----------------------------------------------------------------------------
(* runAll and Stop *)

Ended == {i \in Instances : worker[i] = "ended"}

Enough(n) == n = Cardinality(Instances)

Collect ==
  /\ ~done
  /\ collected < Cardinality(Ended)
  /\ collected' = collected + 1
  /\ done' = Enough(collected + 1)
  /\ UNCHANGED <<tor, link, worker, cancelled, stopping>>

\* Mutant: runAll waits for its workers whatever happens.
MutCollectCancelled == FALSE

CollectCancelled ==
  /\ ~done /\ cancelled
  /\ done' = TRUE
  /\ UNCHANGED <<tor, link, worker, collected, cancelled, stopping>>

StopBegin ==
  /\ stopping = "idle"
  /\ stopping' = "waiting" /\ cancelled' = TRUE
  /\ UNCHANGED <<tor, link, worker, collected, done>>

StopReturn ==
  /\ stopping = "waiting" /\ done
  /\ stopping' = "returned"
  /\ UNCHANGED <<tor, link, worker, collected, done, cancelled>>

-----------------------------------------------------------------------------

WorkerNext(i) == \/ Connect(i) \/ Authenticate(i) \/ Timer(i)
                 \/ SleepCancelled(i) \/ Newnym(i)

Next == \/ \E i \in Instances : \/ WorkerNext(i)
                                \/ TorDown(i) \/ TorUp(i) \/ TorHang(i)
        \/ Collect \/ CollectCancelled \/ StopBegin \/ StopReturn

Spec == Init /\ [][Next]_vars

\* Goroutines run; of a worker's timer and context, both there, the select
\* takes the context in the end.  Tor owes nothing.
Fairness ==
  /\ \A i \in Instances : WF_vars(WorkerNext(i)) /\ SF_vars(SleepCancelled(i))
  /\ WF_vars(Collect \/ CollectCancelled) /\ WF_vars(StopReturn)

FairSpec == Spec /\ Fairness

-----------------------------------------------------------------------------
(* Properties *)

\* The variables range over the values of the code's fields and positions.
TypeOK ==
  /\ life \in [Instances -> 1 .. MaxLife]
  /\ up \in SUBSET Instances /\ stuck \in SUBSET up
  /\ conn \in [Instances -> 0 .. MaxLife]
  /\ open \in [Instances -> Nat]
  /\ auth \in [Instances -> 0 .. MaxLife]
  /\ worker \in [Instances -> {"connect", "auth", "sleep", "newnym", "reconnect",
                               "reauth", "ended"}]
  /\ collected \in 0 .. Cardinality(Instances)
  /\ done \in BOOLEAN /\ cancelled \in BOOLEAN
  /\ stopping \in {"idle", "waiting", "returned"}

\* SIGNAL NEWNYM is sent only on a connection that was authenticated, also
\* after Tor was replaced behind the worker's back and it reconnected.
NewnymAuthenticated ==
  \A i \in Instances : worker[i] = "newnym" => auth[i] = conn[i] /\ conn[i] # 0

\* However often a worker loses Tor and dials again it has one control connection
\* open at most, and none once it has ended, on any of the ways it can end.
NoneLeaked ==
  \A i \in Instances : open[i] <= 1 /\ (worker[i] = "ended" => open[i] = 0)

\* Stop returns though a worker may be blocked reading from a Tor that hangs.
StopTerminates == stopping = "waiting" ~> stopping = "returned"

\* Once stopped, every worker ends whose Tor does not hang for ever.
WorkersEnd ==
  \A i \in Instances : cancelled ~> worker[i] = "ended" \/ i \in stuck

\* ROADMAP 3.2.5: "Connect to Tor control port, authenticate, ... send SIGNAL
\* NEWNYM ... Randomized renewal intervals per instance": an instance that was
\* renewed (its worker was logged in, and has not dialled with success since) has a
\* worker when its Tor listens again.
RenewedWhileUp ==
  \A i \in Instances :
    i \in up /\ auth[i] # 0 => worker[i] # "ended" \/ cancelled
=============================================================================
