------------------------ MODULE CircuitRenewerProofs ------------------------
(***************************************************************************)
(* Proofs about CircuitRenewer, for any finite set of instances: however   *)
(* often each Tor dies, hangs and returns, NEWNYM goes out only on an      *)
(* authenticated connection, and no worker leaves a connection open.       *)
(***************************************************************************)
EXTENDS CircuitRenewer, FiniteSetTheorems, TLAPS

\* Where a worker stands tells what its connection is worth: from the login on
\* there is one, from the sleep on it is authenticated, before a dial and at the
\* end there is none; and the client knows of every connection that is open.
Connection ==
  \A i \in Instances :
    /\ open[i] = IF conn[i] = 0 THEN 0 ELSE 1
    /\ worker[i] \in {"connect", "reconnect"} => conn[i] = 0
    /\ worker[i] \in {"auth", "reauth", "sleep", "newnym"} => conn[i] # 0
    /\ worker[i] \in {"sleep", "newnym"} => auth[i] = conn[i]
    /\ worker[i] = "ended" => conn[i] = 0

IInv == TypeOK /\ Connection

\* The workers that have ended are finitely many, and no more than all.
LEMMA EndedBound == Cardinality(Ended) \in Nat
                    /\ Cardinality(Instances) \in Nat
                    /\ Cardinality(Ended) <= Cardinality(Instances)
<1>1. Ended \subseteq Instances
  BY DEF Ended
<1>2. IsFiniteSet(Ended) /\ Cardinality(Ended) <= Cardinality(Instances)
  BY <1>1, FS_Subset, RenewerAssumption
<1> QED
  BY <1>2, FS_CardinalityType, RenewerAssumption

LEMMA Initial == Init => IInv
<1> SUFFICES ASSUME Init PROVE IInv
  OBVIOUS
<1>1. 0 \in 0 .. Cardinality(Instances) /\ 1 \in 1 .. MaxLife
      /\ 0 \in 0 .. MaxLife
  BY EndedBound, RenewerAssumption
<1> QED
  BY <1>1 DEF Init, IInv, TypeOK, Connection

\* A step of one Tor process changes no connection and no worker.
LEMMA TorStep ==
  ASSUME NEW i \in Instances, IInv, TorDown(i) \/ TorUp(i) \/ TorHang(i)
  PROVE  IInv'
<1>1. CASE TorDown(i)
  BY <1>1 DEF TorDown, link, ctl, IInv, TypeOK, Connection
<1>2. CASE TorUp(i)
  <2>1. life[i] + 1 \in 1 .. MaxLife
    BY <1>2, RenewerAssumption DEF TorUp, IInv, TypeOK
  <2> QED
    BY <1>2, <2>1 DEF TorUp, link, ctl, IInv, TypeOK, Connection
<1>3. CASE TorHang(i)
  BY <1>3 DEF TorHang, link, ctl, IInv, TypeOK, Connection
<1> QED
  BY <1>1, <1>2, <1>3

\* A step of one worker.
LEMMA WorkerStep ==
  ASSUME NEW i \in Instances, IInv, WorkerNext(i)
  PROVE  IInv'
<1> USE DEF IInv, TypeOK, Connection, tor, ctl
<1>0. /\ 0 \in 0 .. MaxLife
      /\ \A l \in 1 .. MaxLife : l \in 0 .. MaxLife /\ l # 0
  BY RenewerAssumption
<1>1. CASE Connect(i)
  <2>1. CASE Return(i) /\ UNCHANGED auth
    BY <1>0, <1>1, <2>1 DEF Connect, Return, Close, Goto
  <2>2. CASE /\ conn' = [conn EXCEPT ![i] = life[i]]
             /\ open' = [open EXCEPT ![i] = @ + 1]
             /\ auth' = [auth EXCEPT ![i] = 0]
             /\ Goto(i, Connected(i))
    <3>1. Connected(i) \in {"auth", "reauth"}
      BY DEF Connected
    <3>2. open[i] = 0 /\ life[i] # 0
      BY <1>0, <1>1 DEF Connect
    <3> QED
      BY <1>0, <1>1, <2>2, <3>1, <3>2 DEF Connect, Goto
  <2> QED
    BY <1>1, <2>1, <2>2 DEF Connect
<1>2. CASE Authenticate(i)
  <2>1. CASE Return(i) /\ UNCHANGED auth
    BY <1>0, <1>2, <2>1 DEF Authenticate, Return, Close, Goto
  <2>2. CASE /\ auth' = [auth EXCEPT ![i] = conn[i]]
             /\ Goto(i, "sleep")
             /\ UNCHANGED <<conn, open>>
    BY <1>2, <2>2 DEF Authenticate, Goto
  <2> QED
    BY <1>2, <2>1, <2>2 DEF Authenticate
<1>3. CASE Timer(i)
  BY <1>3 DEF Timer, Goto, link
<1>4. CASE SleepCancelled(i)
  BY <1>0, <1>4 DEF SleepCancelled, Return, Close, Goto
<1>5. CASE Newnym(i)
  <2>1. CASE Reconnect(i)
    BY <1>0, <1>5, <2>1 DEF Newnym, Reconnect, Close, Goto
  <2>2. CASE Goto(i, "sleep") /\ UNCHANGED <<conn, open>>
    BY <1>0, <1>5, <2>2 DEF Newnym, Goto
  <2> QED
    BY <1>5, <2>1, <2>2 DEF Newnym
<1> QED
  BY <1>1, <1>2, <1>3, <1>4, <1>5 DEF WorkerNext

LEMMA Inductive == IInv /\ [Next]_vars => IInv'
<1> SUFFICES ASSUME IInv, [Next]_vars PROVE IInv'
  OBVIOUS
<1>1. CASE \E i \in Instances : WorkerNext(i)
  BY <1>1, WorkerStep
<1>2. CASE \E i \in Instances : TorDown(i) \/ TorUp(i) \/ TorHang(i)
  BY <1>2, TorStep
<1>3. CASE Collect
  <2>1. collected + 1 \in 0 .. Cardinality(Instances)
    BY <1>3, EndedBound DEF Collect, IInv, TypeOK
  <2>2. done' \in BOOLEAN
    BY <1>3 DEF Collect, Enough
  <2> QED
    BY <1>3, <2>1, <2>2 DEF Collect, tor, link, IInv, TypeOK, Connection
<1>4. CASE CollectCancelled
  BY <1>4 DEF CollectCancelled, tor, link, IInv, TypeOK, Connection
<1>5. CASE StopBegin
  BY <1>5 DEF StopBegin, tor, link, IInv, TypeOK, Connection
<1>6. CASE StopReturn
  BY <1>6 DEF StopReturn, tor, link, IInv, TypeOK, Connection
<1>7. CASE UNCHANGED vars
  BY <1>7 DEF vars, tor, link, ctl, IInv, TypeOK, Connection
<1> QED
  BY <1>1, <1>2, <1>3, <1>4, <1>5, <1>6, <1>7 DEF Next

\* What Connection says of each worker's connection holds after every step of the
\* workers, the collector, Stop and Tor itself (renewer.go:104-181).
THEOREM Invariance == Spec => []IInv
  BY Initial, Inductive, PTL DEF Spec

\* The variables keep their types, however many lives each Tor has.
THEOREM TypeCorrect == Spec => []TypeOK
  BY Invariance, PTL DEF IInv

\* A worker signals NEWNYM only on a connection whose login Tor accepted, after
\* a reconnection too.
THEOREM AlwaysAuthenticated == Spec => []NewnymAuthenticated
<1>1. IInv => NewnymAuthenticated
  BY DEF IInv, Connection, NewnymAuthenticated
<1> QED
  BY Invariance, <1>1, PTL

\* client.go:80-88, renewer.go:118, 154: through any number of lost Tors and new
\* dials a worker never has two connections open, and none when it has ended: no
\* dial overwrites a connection that was not closed.
THEOREM NeverLeaks == Spec => []NoneLeaked
<1>1. IInv => NoneLeaked
  BY DEF IInv, TypeOK, Connection, NoneLeaked
<1> QED
  BY Invariance, <1>1, PTL

-----------------------------------------------------------------------------
(* The collector *)

\* runAll has received no more than was sent, and unless it was cancelled it
\* returns only with all of it.
Collected ==
  /\ collected <= Cardinality(Ended)
  /\ done /\ ~cancelled => collected = Cardinality(Instances)

\* A renewer that is done without having been stopped has no worker left.
DoneMeansAll == done => cancelled \/ Ended = Instances

\* A worker that has ended stays so: nobody starts another for its instance.
EndedStays == Ended \subseteq Ended'

LEMMA WorkersStay == TypeOK /\ [Next]_vars => EndedStays
<1> SUFFICES ASSUME TypeOK, [Next]_vars, NEW j \in Instances, worker[j] = "ended"
             PROVE  worker'[j] = "ended"
  BY DEF EndedStays, Ended
<1>1. CASE \E i \in Instances : WorkerNext(i)
  BY <1>1 DEF WorkerNext, Connect, Authenticate, Timer, SleepCancelled, Newnym, Return, Reconnect,
     Goto, TypeOK
<1>2. CASE ~ \E i \in Instances : WorkerNext(i)
  BY <1>2 DEF Next, vars, TorDown, TorUp, TorHang, Collect, CollectCancelled, StopBegin,
     StopReturn
<1> QED
  BY <1>1, <1>2

LEMMA CollectedStep == TypeOK /\ Collected /\ [Next]_vars => Collected'
<1> SUFFICES ASSUME TypeOK, Collected, [Next]_vars PROVE Collected'
  OBVIOUS
<1>1. Cardinality(Ended) <= Cardinality(Ended') /\ Cardinality(Ended') \in Nat
  <2>1. IsFiniteSet(Ended')
    BY RenewerAssumption, FS_Subset DEF Ended
  <2> QED
    BY <2>1, WorkersStay, FS_Subset, FS_CardinalityType DEF EndedStays
<1>2. collected \in Nat /\ Cardinality(Ended) \in Nat
  BY EndedBound DEF TypeOK
<1>3. CASE Collect
  <2>1. /\ Cardinality(Ended') = Cardinality(Ended)
        /\ collected' = collected + 1 /\ collected < Cardinality(Ended)
    BY <1>3 DEF Collect, Ended
  <2>2. done' => collected' = Cardinality(Instances)
    BY <1>3 DEF Collect, Enough
  <2>3. collected' <= Cardinality(Ended')
    BY <1>2, <2>1
  <2> QED
    BY <2>2, <2>3 DEF Collected
<1>4. CASE CollectCancelled \/ StopBegin
  <2>1. Ended' = Ended /\ collected' = collected /\ cancelled'
    BY <1>4 DEF CollectCancelled, StopBegin, Ended
  <2> QED
    BY <2>1 DEF Collected
<1>5. CASE ~(Collect \/ CollectCancelled \/ StopBegin)
  <2>1. UNCHANGED <<collected, done, cancelled>>
    BY <1>5 DEF Next, vars, ctl, WorkerNext, Connect, Authenticate, Timer, SleepCancelled,
       Newnym, TorDown, TorUp, TorHang, StopReturn
  <2> QED
    BY <1>1, <1>2, <2>1 DEF Collected
<1> QED
  BY <1>3, <1>4, <1>5

\* renewer.go:105: a renewer that ends by itself has waited for every one of its
\* workers; and what a worker's end has once meant for its instance stays so
\* (renewer.go:154).
THEOREM EndsWithAll == Spec => []DoneMeansAll /\ [][EndedStays]_vars
<1>1. Init => Collected
  BY EndedBound DEF Init, Collected
<1>2. TypeOK /\ Collected => DoneMeansAll
  <2> SUFFICES ASSUME TypeOK, Collected, done, ~cancelled PROVE Ended = Instances
    BY DEF DoneMeansAll
  <2>1. Cardinality(Ended) = Cardinality(Instances)
    BY EndedBound DEF Collected, TypeOK
  <2> QED
    BY <2>1, FS_Subset, RenewerAssumption DEF Ended
<1> QED
  BY <1>1, <1>2, CollectedStep, WorkersStay, TypeCorrect, PTL DEF Spec
=============================================================================
