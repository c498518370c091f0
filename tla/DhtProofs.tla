----------------------------- MODULE DhtProofs -----------------------------
(* Proofs about DhtBehaviour, for any requests, peers, refusals and bounds. *)
EXTENDS DhtBehaviour, Integers, SequenceTheorems, TLAPS

-----------------------------------------------------------------------------
(* Type correctness *)

(* put_record leaves well-typed queries behind, whatever the queue it is   *)
(* given.                                                                  *)
LEMMA PutTypeOK ==
    ASSUME NEW p \in Puts, NEW queue \in Seq(Puts), inPut \subseteq Puts,
           waiting \subseteq Puts, put_record(p, queue)
    PROVE  putQ' \in Seq(Puts) /\ waiting' \subseteq Puts /\ inPut' \subseteq Puts
<1>1. Append(queue, p) \in Seq(Puts)
      BY AppendProperties
<1> QED BY <1>1 DEF put_record

(* get_record leaves well-typed counters behind. *)
LEMMA GetTypeOK ==
    ASSUME NEW g \in Gets, NEW n \in Nat, inGet \subseteq Gets,
           retry_count \in [Gets -> Nat], issued \in [Gets -> Nat],
           get_record(g, n)
    PROVE  /\ inGet' \subseteq Gets
           /\ retry_count' \in [Gets -> Nat] /\ issued' \in [Gets -> Nat]
<1>1. CASE n = 0
      BY <1>1 DEF get_record
<1>2. CASE n # 0
  <2>1. n - 1 \in Nat /\ issued[g] + 1 \in Nat
        BY <1>2
  <2> QED BY <1>2, <2>1 DEF get_record
<1> QED BY <1>1, <1>2

(* The commands keep the types. *)
LEMMA CommandTypeOK == TypeOK /\ Command => TypeOK'
<1> SUFFICES ASSUME TypeOK, Command PROVE TypeOK'
    OBVIOUS
<1> USE DEF TypeOK, bootVars, putVars, getVars
<1>1. CASE BeginBootstrap
      BY <1>1 DEF BeginBootstrap
<1>2. ASSUME NEW n \in Nodes, AddKnownPeer(n) \/ AddBootNode(n) PROVE TypeOK'
      BY <1>2 DEF AddKnownPeer, AddBootNode
<1>3. ASSUME NEW p \in Puts, PutRecord(p) PROVE TypeOK'
  <2>1. put_record(p, putQ)
        BY <1>3 DEF PutRecord
  <2>2. putQ' \in Seq(Puts) /\ waiting' \subseteq Puts /\ inPut' \subseteq Puts
        BY <2>1, PutTypeOK
  <2> QED BY <1>3, <2>2 DEF PutRecord
<1>4. ASSUME NEW g \in Gets, NEW n \in 1..MaxRetry, GetRecord(g, n) PROVE TypeOK'
  <2>1. n \in Nat
        BY DhtAssumption DEF DhtAssumption
  <2>2. get_record(g, n)
        BY <1>4 DEF GetRecord
  <2>3. /\ inGet' \subseteq Gets
        /\ retry_count' \in [Gets -> Nat] /\ issued' \in [Gets -> Nat]
        BY <2>1, <2>2, GetTypeOK
  <2>4. wanted' \in [Gets -> Nat]
        BY <1>4, <2>1 DEF GetRecord
  <2> QED BY <1>4, <2>3, <2>4 DEF GetRecord
<1> QED BY <1>1, <1>2, <1>3, <1>4 DEF Command

(* The steps of poll keep the types. *)
LEMMA PollTypeOK == TypeOK /\ Poll => TypeOK'
<1> SUFFICES ASSUME TypeOK, Poll PROVE TypeOK'
    OBVIOUS
<1> USE DEF TypeOK, bootVars, putVars, getVars
<1>1. CASE PollStart
      BY <1>1 DEF PollStart, StartBootstrap
<1>2. CASE PutStep
  <2>1. Head(putQ) \in Puts /\ Tail(putQ) \in Seq(Puts)
        BY <1>2, HeadTailProperties DEF PutStep
  <2>2. CASE Head(putQ) \in waiting
    <3>1. Append(Tail(putQ), Head(putQ)) \in Seq(Puts)
          BY <2>1, AppendProperties
    <3> QED BY <1>2, <2>2, <3>1 DEF PutStep
  <2>3. CASE Head(putQ) \notin waiting
    <3>1. put_record(Head(putQ), Tail(putQ))
          BY <1>2, <2>3 DEF PutStep
    <3>2. /\ putQ' \in Seq(Puts) /\ waiting' \subseteq Puts
          /\ inPut' \subseteq Puts
          BY <2>1, <3>1, PutTypeOK
    <3> QED BY <1>2, <3>2 DEF PutStep
  <2> QED BY <2>2, <2>3
<1>3. CASE PutsDone \/ PollReturns
      BY <1>3 DEF PutsDone, PollReturns
<1> QED BY <1>1, <1>2, <1>3 DEF Poll

(* The events of kad keep the types. *)
LEMMA KadTypeOK == TypeOK /\ Kad => TypeOK'
<1> SUFFICES ASSUME TypeOK, Kad PROVE TypeOK'
    OBVIOUS
<1> USE DEF TypeOK, bootVars, putVars, getVars
<1>1. ASSUME NEW p \in Puts, NEW ok \in BOOLEAN, KadPut(p, ok) PROVE TypeOK'
  <2>1. Append(putQ, p) \in Seq(Puts)
        BY AppendProperties
  <2>2. putQ' \in Seq(Puts) /\ waiting' \subseteq Puts /\ done' \subseteq Puts
        BY <1>1, <2>1 DEF KadPut
  <2> QED BY <1>1, <2>2 DEF KadPut
<1>2. ASSUME NEW g \in Gets, KadGetLast(g) PROVE TypeOK'
  <2>1. retry_count[g] \in Nat /\ get_record(g, retry_count[g])
        BY <1>2 DEF KadGetLast
  <2>2. /\ inGet' \subseteq Gets
        /\ retry_count' \in [Gets -> Nat] /\ issued' \in [Gets -> Nat]
        BY <2>1, GetTypeOK
  <2> QED BY <1>2, <2>2 DEF KadGetLast
<1>3. CASE KadBootstrapGoesOn
      BY <1>3 DEF KadBootstrapGoesOn
<1>4. CASE KadBootstrapLast
  <2>1. first' \in Nat /\ walk' \in Nat
    <3>1. CASE first > 0 /\ first' = first - 1 /\ walk' = walk
          BY <3>1
    <3>2. CASE walk > 0 /\ walk' = walk - 1 /\ first' = first
          BY <3>2
    <3> QED BY <1>4, <3>1, <3>2 DEF KadBootstrapLast
  <2>2. /\ phase' = "idle" /\ boot' = "Finished" /\ begin_bootstrap' = FALSE
        /\ UNCHANGED <<bootWaiting, table, bootnodes, begun, putVars, getVars>>
        BY <1>4 DEF KadBootstrapLast
  <2> QED BY <2>1, <2>2
<1>5. ASSUME NEW more \in BOOLEAN, KadBootstrapErr(more) PROVE TypeOK'
  <2>1. first' \in Nat /\ walk' \in Nat /\ table' \subseteq Nodes
    <3>1. CASE first > 0 /\ first' = first - 1 /\ table' = table \cup bootnodes
                        /\ walk' = walk
          BY <3>1
    <3>2. CASE walk > 0 /\ walk' = (IF more THEN walk ELSE walk - 1)
                       /\ first' = first /\ table' = table
          BY <3>2
    <3> QED BY <1>5, <3>1, <3>2 DEF KadBootstrapErr
  <2>2. /\ boot' = "NotStarted" /\ bootWaiting' = TRUE
        /\ UNCHANGED <<phase, begin_bootstrap, bootnodes, begun, putVars, getVars>>
        BY <1>5 DEF KadBootstrapErr
  <2> QED BY <2>1, <2>2
<1>6. ASSUME NEW n \in Nodes, KadEvict(n) PROVE TypeOK'
      BY <1>6 DEF KadEvict
<1> QED BY <1>1, <1>2, <1>3, <1>4, <1>5, <1>6 DEF Kad

(* Every variable of the DHT behaviour keeps its type, so no retry count   *)
(* wraps below zero.                                                       *)
THEOREM TypeCorrect == Spec => []TypeOK
<1>1. Init => TypeOK
  <2> SUFFICES ASSUME Init PROVE TypeOK
      OBVIOUS
  <2>1. putQ \in Seq(Puts)
        BY EmptySeq DEF Init
  <2>2. table \subseteq Nodes /\ bootnodes \subseteq Nodes
        BY DhtAssumption DEF Init, DhtAssumption
  <2> QED BY <2>1, <2>2 DEF Init, TypeOK
<1>2. TypeOK /\ [Next]_vars => TypeOK'
  <2> SUFFICES ASSUME TypeOK, [Next]_vars PROVE TypeOK'
      OBVIOUS
  <2>1. CASE Time
        BY <2>1 DEF Time, BootBackoffExpires, PutBackoffExpires, TypeOK, bootVars,
                    putVars, getVars
  <2>2. CASE UNCHANGED vars
        BY <2>2 DEF vars, TypeOK, bootVars, putVars, getVars
  <2> QED BY <2>1, <2>2, CommandTypeOK, PollTypeOK, KadTypeOK DEF Next
<1> QED BY <1>1, <1>2, PTL DEF Spec
-----------------------------------------------------------------------------
(* The bootstrap *)

(* Something can only be wanted, or going on, after a begin_bootstrap, and *)
(* what the first one asked for is no longer wanted when a bootstrap ends. *)
BootInv ==
    /\ begin_bootstrap \/ boot # "NotStarted" \/ first + walk > 0 => begun > 0
    /\ begun <= 1 => ~(begin_bootstrap /\ boot = "Finished")

(* Each step keeps both. *)
LEMMA BootStep ==
    TypeOK /\ BootInv /\ BootstrapInFlight /\ [Next]_vars =>
        BootInv' /\ BootstrapInFlight'
<1> SUFFICES ASSUME TypeOK, BootInv, BootstrapInFlight, [Next]_vars
             PROVE  BootInv' /\ BootstrapInFlight'
    OBVIOUS
<1>0. /\ first \in Nat /\ walk \in Nat /\ begun \in Nat
      /\ begin_bootstrap \in BOOLEAN
      BY DEF TypeOK
<1> USE DEF BootInv, BootstrapInFlight
<1>1. CASE BeginBootstrap
      BY <1>0, <1>1 DEF BeginBootstrap
<1>2. CASE PollStart
      BY <1>0, <1>2 DEF PollStart, StartBootstrap
<1>3. CASE KadBootstrapGoesOn
      BY <1>0, <1>3 DEF KadBootstrapGoesOn
<1>4. CASE KadBootstrapLast
      BY <1>0, <1>4 DEF KadBootstrapLast
<1>5. ASSUME NEW more \in BOOLEAN, KadBootstrapErr(more)
      PROVE  BootInv' /\ BootstrapInFlight'
  <2>1. first + walk > 0 /\ boot' = "NotStarted" /\ begun' = begun
        BY <1>0, <1>5 DEF KadBootstrapErr
  <2> QED BY <1>0, <2>1
<1>6. CASE UNCHANGED <<begin_bootstrap, boot, first, walk, begun>>
      BY <1>6
<1>7. ASSUME NEW p \in Puts, NEW ok \in BOOLEAN,
             PutRecord(p) \/ KadPut(p, ok) \/ PutBackoffExpires(p)
      PROVE  UNCHANGED <<begin_bootstrap, boot, first, walk, begun>>
      BY <1>7 DEF PutRecord, KadPut, PutBackoffExpires, bootVars
<1>8. ASSUME NEW g \in Gets, NEW n \in 1..MaxRetry, GetRecord(g, n)
      PROVE  UNCHANGED <<begin_bootstrap, boot, first, walk, begun>>
      BY <1>8 DEF GetRecord, bootVars
<1>9. ASSUME NEW n \in Nodes, AddKnownPeer(n) \/ AddBootNode(n) \/ KadEvict(n)
      PROVE  UNCHANGED <<begin_bootstrap, boot, first, walk, begun>>
      BY <1>9 DEF AddKnownPeer, AddBootNode, KadEvict
<1>10. CASE PutStep \/ PutsDone \/ PollReturns \/ BootBackoffExpires
       BY <1>6, <1>10 DEF PutStep, PutsDone, PollReturns, BootBackoffExpires, bootVars
<1>11. CASE UNCHANGED vars
       BY <1>6, <1>11 DEF vars, bootVars
<1>12. ASSUME NEW g \in Gets, KadGetLast(g)
       PROVE  UNCHANGED <<begin_bootstrap, boot, first, walk, begun>>
       BY <1>12 DEF KadGetLast, bootVars
<1> QED BY <1>1, <1>2, <1>3, <1>4, <1>5, <1>6, <1>7, <1>8, <1>9, <1>10, <1>11, <1>12
        DEF Next, Command, Poll, Kad, Time

(* BootInv holds throughout. *)
LEMMA BootAlways == Spec => [](BootInv /\ BootstrapInFlight)
<1>1. Init => BootInv /\ BootstrapInFlight
      BY DEF Init, BootInv, BootstrapInFlight
<1> QED BY <1>1, TypeCorrect, BootStep, PTL DEF Spec

(* The behaviour never waits for a bootstrap that kad is not running. *)
THEOREM BootstrapIsRun == Spec => []BootstrapInFlight
  BY BootAlways, PTL

(* One request for a bootstrap never ends up pending on a finished one. *)
THEOREM OneRequestIsServed == Spec => []RequestNotWedged
<1>1. BootInv => RequestNotWedged
      BY DEF BootInv, RequestNotWedged
<1> QED BY <1>1, BootAlways, PTL

-----------------------------------------------------------------------------
(* The retry budget *)

(* Queries made and queries left of one get. *)
Budget(g) == issued[g] + (IF g \in inGet THEN retry_count[g] ELSE 0)

(* get_record turns a budget of n queries left into one of the same size,  *)
(* and leaves other gets alone.                                            *)
LEMMA GetBudget ==
    ASSUME TypeOK, NEW g \in Gets, NEW n \in Nat, get_record(g, n)
    PROVE  /\ Budget(g)' = issued[g] + n
           /\ \A h \in Gets \ {g} : Budget(h)' = Budget(h)
<1>1. CASE n = 0
  <2>1. inGet' = inGet \ {g} /\ issued' = issued /\ retry_count' = retry_count
        BY <1>1 DEF get_record
  <2> QED BY <1>1, <2>1 DEF Budget, TypeOK
<1>2. CASE n # 0
  <2>1. /\ inGet' = inGet \cup {g}
        /\ issued' = [issued EXCEPT ![g] = issued[g] + 1]
        /\ retry_count' = [retry_count EXCEPT ![g] = n - 1]
        BY <1>2 DEF get_record
  <2>2. issued[g] \in Nat /\ issued'[g] = issued[g] + 1 /\ retry_count'[g] = n - 1
        BY <2>1 DEF TypeOK
  <2>3. \A h \in Gets \ {g} :
            issued'[h] = issued[h] /\ retry_count'[h] = retry_count[h]
        BY <2>1 DEF TypeOK
  <2> QED BY <2>1, <2>2, <2>3 DEF Budget
<1> QED BY <1>1, <1>2

(* A get makes the queries its caller asked for, no more and no fewer. *)
THEOREM BudgetKept == Spec => []RetryBudget
<1>1. Init => RetryBudget
      BY DEF Init, RetryBudget
<1>2. TypeOK /\ RetryBudget /\ [Next]_vars => RetryBudget'
  <2> SUFFICES ASSUME TypeOK, RetryBudget, [Next]_vars PROVE RetryBudget'
      OBVIOUS
  <2>1. \A g \in Gets : Budget(g) = wanted[g]
        BY DEF RetryBudget, Budget
  <2>2. ASSUME NEW g \in Gets, NEW n \in 1..MaxRetry, GetRecord(g, n)
        PROVE  RetryBudget'
    <3>1. n \in Nat /\ get_record(g, n) /\ wanted' = [wanted EXCEPT ![g] = n]
          BY <2>2, DhtAssumption DEF GetRecord, DhtAssumption
    <3>2. issued[g] = 0
      <4>1. /\ issued[g] \in Nat /\ retry_count[g] \in Nat /\ wanted[g] = 0
            /\ Budget(g) = 0
            BY <2>1, <2>2 DEF GetRecord, TypeOK
      <4> QED BY <4>1 DEF Budget
    <3>3. \A h \in Gets : Budget(h)' = wanted'[h]
          BY <2>1, <3>1, <3>2, GetBudget DEF TypeOK
    <3> QED BY <3>3 DEF RetryBudget, Budget
  <2>3. ASSUME NEW g \in Gets, KadGetLast(g) PROVE RetryBudget'
    <3>1. /\ retry_count[g] \in Nat /\ get_record(g, retry_count[g])
          /\ wanted' = wanted /\ Budget(g) = issued[g] + retry_count[g]
          BY <2>3 DEF KadGetLast, TypeOK, Budget
    <3>2. \A h \in Gets : Budget(h)' = wanted'[h]
          BY <2>1, <3>1, GetBudget
    <3> QED BY <3>2 DEF RetryBudget, Budget
  <2>4. CASE UNCHANGED getVars
        BY <2>4 DEF getVars, RetryBudget
  <2>5. CASE UNCHANGED vars
        BY <2>4, <2>5 DEF vars
  <2>6. CASE BeginBootstrap \/ Poll \/ BootBackoffExpires
        BY <2>4, <2>6 DEF BeginBootstrap, Poll, PollStart, PutStep, PutsDone,
                          PollReturns, BootBackoffExpires
  <2>7. ASSUME NEW n \in Nodes, AddKnownPeer(n) \/ AddBootNode(n) \/ KadEvict(n)
        PROVE  RetryBudget'
        BY <2>4, <2>7 DEF AddKnownPeer, AddBootNode, KadEvict
  <2>8. ASSUME NEW p \in Puts, NEW ok \in BOOLEAN,
               PutRecord(p) \/ KadPut(p, ok) \/ PutBackoffExpires(p)
        PROVE  RetryBudget'
        BY <2>4, <2>8 DEF PutRecord, KadPut, PutBackoffExpires
  <2>9. ASSUME NEW more \in BOOLEAN,
               KadBootstrapGoesOn \/ KadBootstrapLast \/ KadBootstrapErr(more)
        PROVE  RetryBudget'
        BY <2>4, <2>9 DEF KadBootstrapGoesOn, KadBootstrapLast, KadBootstrapErr
  <2> QED BY <2>2, <2>3, <2>5, <2>6, <2>7, <2>8, <2>9 DEF Next, Command, Kad, Time
<1> QED BY <1>1, <1>2, TypeCorrect, PTL DEF Spec

-----------------------------------------------------------------------------
(* The puts *)

(* Appending what is not there adds one element and keeps doubles out. *)
LEMMA Appended ==
    ASSUME NEW S, NEW s \in Seq(S), NEW n \in S, Distinct(s), n \notin Elems(s)
    PROVE  Elems(Append(s, n)) = Elems(s) \cup {n} /\ Distinct(Append(s, n))
  BY AppendProperties DEF Distinct, Elems

(* The tail of a queue without doubles has none, nor its head. *)
LEMMA Taken ==
    ASSUME NEW S, NEW s \in Seq(S), s # <<>>, Distinct(s)
    PROVE  /\ Head(s) \in S /\ Tail(s) \in Seq(S)
           /\ Elems(s) = {Head(s)} \cup Elems(Tail(s))
           /\ Distinct(Tail(s)) /\ Head(s) \notin Elems(Tail(s))
<1>1. Head(s) \in S /\ Tail(s) \in Seq(S)
      BY HeadTailProperties
<1>2. Elems(s) = {Head(s)} \cup Elems(Tail(s))
      BY HeadTailProperties, EmptySeq DEF Elems
<1>3. Distinct(Tail(s)) /\ Head(s) \notin Elems(Tail(s))
      BY HeadTailProperties, EmptySeq DEF Distinct, Elems
<1> QED BY <1>1, <1>2, <1>3

(* Moving the head to the end keeps the elements and doubles none. *)
LEMMA Rotation ==
    ASSUME NEW S, NEW s \in Seq(S), s # <<>>, Distinct(s)
    PROVE  /\ Elems(Append(Tail(s), Head(s))) = Elems(s)
           /\ Distinct(Append(Tail(s), Head(s)))
<1> DEFINE h == Head(s)
           t == Tail(s)
<1>1. /\ h \in S /\ t \in Seq(S) /\ Elems(s) = {h} \cup Elems(t)
      /\ Distinct(t) /\ h \notin Elems(t)
      BY Taken
<1> HIDE DEF h, t
<1>2. Elems(Append(t, h)) = Elems(t) \cup {h} /\ Distinct(Append(t, h))
      BY <1>1, Appended
<1> QED BY <1>1, <1>2 DEF h, t

(* put_record leaves a put that was nowhere in one place, the queue or     *)
(* kad, and moves no other.                                                *)
LEMMA PutPlaced ==
    ASSUME NEW p \in Puts, NEW queue \in Seq(Puts), Distinct(queue),
           p \notin Elems(queue), p \notin inPut, Elems(queue) \cap inPut = {},
           put_record(p, queue)
    PROVE  /\ Distinct(putQ')
           /\ Elems(putQ') \cup inPut' = Elems(queue) \cup inPut \cup {p}
           /\ Elems(putQ') \cap inPut' = {}
<1>1. Elems(Append(queue, p)) = Elems(queue) \cup {p} /\ Distinct(Append(queue, p))
      BY Appended
<1>2. CASE putQ' = Append(queue, p) /\ inPut' = inPut
      BY <1>1, <1>2
<1>3. CASE putQ' = queue /\ inPut' = inPut \cup {p}
      BY <1>3
<1> QED BY <1>2, <1>3 DEF put_record

(* No put is lost or doubled between the queue, kad and the queue again.   *)
THEOREM NoPutLost == Spec => []PutAccounted
<1>1. Init => PutAccounted
      BY DEF Init, PutAccounted, Elems, Distinct
<1>2. TypeOK /\ PutAccounted /\ [Next]_vars => PutAccounted'
  <2> SUFFICES ASSUME TypeOK, PutAccounted, [Next]_vars PROVE PutAccounted'
      OBVIOUS
  <2>0. putQ \in Seq(Puts)
        BY DEF TypeOK
  <2>1. ASSUME NEW p \in Puts, PutRecord(p) PROVE PutAccounted'
    <3>1. /\ p \notin asked /\ asked' = asked \cup {p} /\ done' = done
          /\ put_record(p, putQ)
          BY <2>1 DEF PutRecord
    <3>2. p \notin Elems(putQ) /\ p \notin inPut /\ p \notin done
          BY <3>1 DEF PutAccounted
    <3>3. /\ Distinct(putQ')
          /\ Elems(putQ') \cup inPut' = Elems(putQ) \cup inPut \cup {p}
          /\ Elems(putQ') \cap inPut' = {}
          BY <2>0, <3>1, <3>2, PutPlaced DEF PutAccounted
    <3> QED BY <3>1, <3>2, <3>3 DEF PutAccounted
  <2>2. CASE PutStep
    <3>1. putQ # <<>> /\ Distinct(putQ) /\ asked' = asked /\ done' = done
          BY <2>2 DEF PutStep, PutAccounted
    <3>2. CASE Head(putQ) \in waiting
      <4>1. putQ' = Append(Tail(putQ), Head(putQ)) /\ inPut' = inPut
            BY <2>2, <3>2 DEF PutStep
      <4>2. Elems(putQ') = Elems(putQ) /\ Distinct(putQ')
            BY <2>0, <3>1, <4>1, Rotation
      <4> QED BY <3>1, <4>1, <4>2 DEF PutAccounted
    <3>3. CASE Head(putQ) \notin waiting
      <4>1. put_record(Head(putQ), Tail(putQ))
            BY <2>2, <3>3 DEF PutStep
      <4>2. Head(putQ) \in Puts /\ Tail(putQ) \in Seq(Puts)
            BY <2>0, <3>1, HeadTailProperties
      <4>3. /\ Elems(putQ) = {Head(putQ)} \cup Elems(Tail(putQ))
            /\ Distinct(Tail(putQ)) /\ Head(putQ) \notin Elems(Tail(putQ))
            BY <2>0, <3>1, Taken
      <4>4. Head(putQ) \notin inPut /\ Elems(Tail(putQ)) \cap inPut = {}
            BY <4>3 DEF PutAccounted
      <4>5. /\ Distinct(putQ')
            /\ Elems(putQ') \cup inPut' =
                   Elems(Tail(putQ)) \cup inPut \cup {Head(putQ)}
            /\ Elems(putQ') \cap inPut' = {}
            BY <4>1, <4>2, <4>3, <4>4, PutPlaced
      <4>6. Elems(putQ') \cup inPut' = Elems(putQ) \cup inPut
            BY <4>3, <4>5
      <4> QED BY <3>1, <4>5, <4>6 DEF PutAccounted
    <3> QED BY <3>2, <3>3
  <2>3. ASSUME NEW p \in Puts, NEW ok \in BOOLEAN, KadPut(p, ok)
        PROVE  PutAccounted'
    <3>1. p \in inPut /\ inPut' = inPut \ {p} /\ asked' = asked
          BY <2>3 DEF KadPut
    <3>2. CASE ok
          BY <2>3, <3>1, <3>2 DEF KadPut, PutAccounted
    <3>3. CASE ~ok
      <4>1. putQ' = Append(putQ, p) /\ done' = done
            BY <2>3, <3>3 DEF KadPut
      <4>2. Distinct(putQ) /\ p \notin Elems(putQ)
            BY <3>1 DEF PutAccounted
      <4>3. Elems(putQ') = Elems(putQ) \cup {p} /\ Distinct(putQ')
            BY <2>0, <4>1, <4>2, Appended
      <4> QED BY <3>1, <4>1, <4>3 DEF PutAccounted
    <3> QED BY <3>2, <3>3
  <2>4. CASE UNCHANGED <<putQ, inPut, asked, done>>
        BY <2>4 DEF PutAccounted
  <2>5. CASE UNCHANGED vars
        BY <2>4, <2>5 DEF vars, putVars
  <2>6. CASE BeginBootstrap \/ PollStart \/ PutsDone \/ PollReturns
              \/ BootBackoffExpires
        BY <2>4, <2>6 DEF BeginBootstrap, PollStart, PutsDone, PollReturns,
                          BootBackoffExpires, putVars
  <2>7. ASSUME NEW n \in Nodes, AddKnownPeer(n) \/ AddBootNode(n) \/ KadEvict(n)
        PROVE  PutAccounted'
        BY <2>4, <2>7 DEF AddKnownPeer, AddBootNode, KadEvict, putVars
  <2>8. ASSUME NEW g \in Gets, NEW n \in 1..MaxRetry, GetRecord(g, n)
        PROVE  PutAccounted'
        BY <2>4, <2>8 DEF GetRecord, putVars
  <2>9. ASSUME NEW g \in Gets, KadGetLast(g) PROVE PutAccounted'
        BY <2>4, <2>9 DEF KadGetLast, putVars
  <2>10. ASSUME NEW more \in BOOLEAN,
                KadBootstrapGoesOn \/ KadBootstrapLast \/ KadBootstrapErr(more)
         PROVE  PutAccounted'
         BY <2>4, <2>10 DEF KadBootstrapGoesOn, KadBootstrapLast,
                            KadBootstrapErr, putVars
  <2>11. ASSUME NEW p \in Puts, PutBackoffExpires(p) PROVE PutAccounted'
         BY <2>4, <2>11 DEF PutBackoffExpires
  <2> QED BY <2>1, <2>2, <2>3, <2>5, <2>6, <2>7, <2>8, <2>9, <2>10, <2>11
          DEF Next, Command, Poll, Kad, Time
<1> QED BY <1>1, <1>2, TypeCorrect, PTL DEF Spec
-----------------------------------------------------------------------------
(* The puts as an Outbox *)

(* A put counts as answered once when it becomes one of those done.        *)
LEMMA PutAnswered ==
    ASSUME NEW S \in SUBSET Puts, NEW p \in Puts, p \notin S
    PROVE  [q \in Puts |-> IF q \in S \cup {p} THEN 1 ELSE 0] =
               [[q \in Puts |-> IF q \in S THEN 1 ELSE 0] EXCEPT ![p] = @ + 1]
<1> DEFINE Count == [q \in Puts |-> IF q \in S THEN 1 ELSE 0]
<1>1. Count[p] + 1 = 1
      OBVIOUS
<1>2. [Count EXCEPT ![p] = @ + 1] = [Count EXCEPT ![p] = 1]
      BY <1>1
<1>3. [q \in Puts |-> IF q \in S \cup {p} THEN 1 ELSE 0] = [Count EXCEPT ![p] = 1]
      OBVIOUS
<1> QED BY <1>2, <1>3

(* What is pending are the puts that were requested and are not done, by   *)
(* PutAccounted before and after a step; so a step is known by what it     *)
(* does to these two sets.  Whatever the loops of poll and kad do, a put   *)
(* is pending from its request to its one success.                         *)
THEOREM ImplementsOutbox == Spec => IsOutbox
<1>1. Init => Out!Init
      BY DEF Init, Out!Init, Elems
<1>2. TypeOK /\ PutAccounted /\ PutAccounted' /\ [Next]_vars =>
          [Out!Next]_<<TRUE, asked, Elems(putQ) \cup inPut,
                       [p \in Puts |-> IF p \in done THEN 1 ELSE 0]>>
  <2> SUFFICES ASSUME TypeOK, PutAccounted, PutAccounted', [Next]_vars
               PROVE  \/ Out!Next
                      \/ /\ asked' = asked /\ done' = done
                         /\ (Elems(putQ) \cup inPut)' = Elems(putQ) \cup inPut
      OBVIOUS
  <2>0. /\ Elems(putQ) \cup inPut = asked \ done
        /\ (Elems(putQ) \cup inPut)' = asked' \ done'
        /\ done \in SUBSET Puts
        BY DEF TypeOK, PutAccounted
  <2>1. CASE asked' = asked /\ done' = done
        BY <2>0, <2>1
  <2>2. ASSUME NEW p \in Puts, PutRecord(p) PROVE Out!Next
    <3>1. p \notin asked /\ asked' = asked \cup {p} /\ done' = done
          BY <2>2 DEF PutRecord
    <3>2. p \notin done
          BY <3>1 DEF PutAccounted
    <3>3. Out!AskAndWait(p)
          BY <2>0, <3>1, <3>2 DEF Out!AskAndWait, Out!Asked
    <3> QED BY <3>3 DEF Out!Next
  <2>3. ASSUME NEW p \in Puts, KadPut(p, TRUE) PROVE Out!Next
    <3>1. p \in inPut /\ asked' = asked /\ done' = done \cup {p}
          BY <2>3 DEF KadPut
    <3>2. p \notin done
          BY <3>1 DEF PutAccounted
    <3>3. Out!Answered(p)
          BY <2>0, <3>1, <3>2, PutAnswered DEF Out!Answered
    <3>4. Out!Answer(p)
          BY <2>0, <3>1, <3>3 DEF Out!Answer
    <3> QED BY <3>4 DEF Out!Next
  <2>4. ASSUME NEW p \in Puts, KadPut(p, FALSE) \/ PutBackoffExpires(p)
        PROVE  asked' = asked /\ done' = done
        BY <2>4 DEF KadPut, PutBackoffExpires
  <2>5. CASE PutStep \/ UNCHANGED vars
        BY <2>1, <2>5 DEF PutStep, vars, putVars
  <2>6. CASE BeginBootstrap \/ PollStart \/ PutsDone \/ PollReturns
              \/ BootBackoffExpires
        BY <2>1, <2>6 DEF BeginBootstrap, PollStart, PutsDone, PollReturns,
                          BootBackoffExpires, putVars
  <2>7. ASSUME NEW n \in Nodes, AddKnownPeer(n) \/ AddBootNode(n) \/ KadEvict(n)
        PROVE  asked' = asked /\ done' = done
        BY <2>7 DEF AddKnownPeer, AddBootNode, KadEvict, putVars
  <2>8. ASSUME NEW g \in Gets, NEW n \in 1..MaxRetry, GetRecord(g, n)
        PROVE  asked' = asked /\ done' = done
        BY <2>8 DEF GetRecord, putVars
  <2>9. ASSUME NEW more \in BOOLEAN,
               KadBootstrapGoesOn \/ KadBootstrapLast \/ KadBootstrapErr(more)
        PROVE  asked' = asked /\ done' = done
        BY <2>9 DEF KadBootstrapGoesOn, KadBootstrapLast, KadBootstrapErr, putVars
  <2>10. ASSUME NEW g \in Gets, KadGetLast(g)
         PROVE  asked' = asked /\ done' = done
         BY <2>10 DEF KadGetLast, putVars
  <2> QED BY <2>1, <2>2, <2>3, <2>4, <2>5, <2>6, <2>7, <2>8, <2>9, <2>10
          DEF Next, Command, Poll, Kad, Time
<1> QED BY <1>1, <1>2, TypeCorrect, NoPutLost, PTL DEF Spec, IsOutbox, Out!Spec

-----------------------------------------------------------------------------
(* What does not end *)

(* Elements of a queue, with one appended and with its head taken. *)
LEMMA QueueElems ==
    ASSUME NEW S, NEW s \in Seq(S), NEW n \in S
    PROVE  /\ Append(s, n) \in Seq(S) /\ Append(s, n) # <<>>
           /\ Elems(Append(s, n)) = Elems(s) \cup {n}
           /\ s # <<>> => /\ Head(s) \in S /\ Tail(s) \in Seq(S)
                          /\ Elems(s) = {Head(s)} \cup Elems(Tail(s))
<1>1. /\ Append(s, n) \in Seq(S) /\ Append(s, n) # <<>>
      /\ Elems(Append(s, n)) = Elems(s) \cup {n}
      BY AppendProperties, EmptySeq DEF Elems
<1>2. s # <<>> => /\ Head(s) \in S /\ Tail(s) \in Seq(S)
                  /\ Elems(s) = {Head(s)} \cup Elems(Tail(s))
      BY HeadTailProperties, EmptySeq DEF Elems
<1> QED BY <1>1, <1>2

(* A round of the loop ends with a put in the queue, if a bootstrap is     *)
(* wanted or kad's store refuses a put that was there.                     *)
LEMMA PutStepSpins == TypeOK /\ Spinning /\ PutStep => Spinning'
<1> SUFFICES ASSUME TypeOK, Spinning, PutStep PROVE Spinning'
    OBVIOUS
<1> DEFINE p == Head(putQ)
           rest == Tail(putQ)
<1>1. putQ \in Seq(Puts) /\ putQ # <<>>
      BY DEF TypeOK, PutStep
<1>2. p \in Puts /\ rest \in Seq(Puts) /\ Elems(putQ) = {p} \cup Elems(rest)
      BY <1>1, QueueElems
<1>3. \A q \in Seq(Puts), r \in Puts :
         Append(q, r) # <<>> /\ Elems(Append(q, r)) = Elems(q) \cup {r}
      BY QueueElems
<1>4. phase' = "puts" /\ begin_bootstrap' = begin_bootstrap
      BY DEF PutStep, Spinning, bootVars
<1>5. \/ putQ' = Append(rest, p)
      \/ /\ ~begin_bootstrap /\ p \notin Rejected
         /\ putQ' = rest
      BY DEF PutStep, put_record
<1> HIDE DEF p, rest
<1>6. CASE putQ' = Append(rest, p)
  <2>1. putQ' # <<>> /\ Elems(putQ') = Elems(putQ)
        BY <1>2, <1>3, <1>6
  <2> QED BY <1>4, <2>1 DEF Spinning
<1>7. CASE ~begin_bootstrap /\ p \notin Rejected /\ putQ' = rest
  <2>1. Elems(rest) \cap Rejected # {}
        BY <1>2, <1>7 DEF Spinning
  <2>2. rest # <<>>
        BY <2>1 DEF Elems
  <2> QED BY <1>4, <1>7, <2>1, <2>2 DEF Spinning
<1> QED BY <1>5, <1>6, <1>7

(* poll's loop over the puts, once it spins on a wanted bootstrap or a put *)
(* that kad refuses, is never left.                                        *)
THEOREM PutLoopSpins == Spec => SpinsForGood
<1>1. TypeOK /\ [Next]_vars /\ Spinning => Spinning'
  <2> SUFFICES ASSUME TypeOK, [Next]_vars, Spinning PROVE Spinning'
      OBVIOUS
  <2>1. CASE PutStep
        BY <2>1, PutStepSpins
  <2>2. CASE UNCHANGED <<phase, begin_bootstrap, putQ>>
        BY <2>2 DEF Spinning
  <2>3. CASE Time
        BY <2>2, <2>3 DEF Time, BootBackoffExpires, PutBackoffExpires, bootVars, putVars
  <2>4. CASE UNCHANGED vars
        BY <2>2, <2>4 DEF vars, bootVars, putVars
  <2>5. ~Command /\ ~Kad
    <3>1. phase = "puts"
          BY DEF Spinning
    <3>2. ~Command
          BY <3>1 DEF Command, BeginBootstrap, AddKnownPeer, AddBootNode, PutRecord,
                      GetRecord
    <3>3. ~Kad
          BY <3>1 DEF Kad, KadPut, KadGetLast, KadBootstrapGoesOn, KadBootstrapLast,
                      KadBootstrapErr, KadEvict
    <3> QED BY <3>2, <3>3
  <2>6. ~PollStart /\ ~PutsDone /\ ~PollReturns
        BY DEF Spinning, PollStart, PutsDone, PollReturns
  <2> QED BY <2>1, <2>3, <2>4, <2>5, <2>6 DEF Next, Poll
<1> QED BY <1>1, TypeCorrect, PTL DEF Spec, SpinsForGood

(* So a poll that meets such a put is the last one: no command is handled, *)
(* no event of kad is taken, and nothing ends it.                          *)
THEOREM PutLoopNeverEnds == Spec => [](Spinning => [](phase = "puts"))
<1>1. Spinning => phase = "puts"
      BY DEF Spinning
<1>2. [Spinning => Spinning']_vars /\ Spinning => Spinning'
  <2>1. UNCHANGED vars => Spinning' = Spinning
        BY DEF vars, bootVars, putVars, Spinning
  <2> QED BY <2>1
<1> QED BY <1>1, <1>2, PutLoopSpins, PTL DEF SpinsForGood

(* A wedged request for a bootstrap stays wedged, and holds back all puts. *)
THEOREM WedgedRequestStays == Spec => WedgedForGood
<1>1. TypeOK /\ [Next]_vars /\ Wedged => Wedged' /\ inPut' \subseteq inPut
  <2> SUFFICES ASSUME TypeOK, [Next]_vars, Wedged
               PROVE  Wedged' /\ inPut' \subseteq inPut
      OBVIOUS
  <2>0. begin_bootstrap /\ boot = "Finished" /\ first = 0 /\ walk = 0
        BY DEF Wedged, TypeOK
  <2>1. CASE UNCHANGED <<boot, first, walk>> /\ begin_bootstrap' /\ inPut' \subseteq inPut
        BY <2>1 DEF Wedged
  <2>2. CASE BeginBootstrap
        BY <2>1, <2>2 DEF BeginBootstrap, putVars
  <2>3. ASSUME NEW n \in Nodes, AddKnownPeer(n) \/ AddBootNode(n) \/ KadEvict(n)
        PROVE  Wedged' /\ inPut' \subseteq inPut
        BY <2>0, <2>1, <2>3 DEF AddKnownPeer, AddBootNode, KadEvict, putVars
  <2>4. ASSUME NEW p \in Puts, NEW ok \in BOOLEAN,
               PutRecord(p) \/ KadPut(p, ok) \/ PutBackoffExpires(p)
        PROVE  Wedged' /\ inPut' \subseteq inPut
        BY <2>0, <2>1, <2>4 DEF PutRecord, put_record, KadPut, PutBackoffExpires, bootVars
  <2>5. CASE PutStep
        BY <2>0, <2>1, <2>5 DEF PutStep, put_record, bootVars
  <2>6. CASE PollStart
        BY <2>0, <2>1, <2>6 DEF PollStart, StartBootstrap, putVars
  <2>7. CASE PutsDone \/ PollReturns \/ BootBackoffExpires
        BY <2>0, <2>1, <2>7 DEF PutsDone, PollReturns, BootBackoffExpires, bootVars, putVars
  <2>8. ASSUME NEW g \in Gets,
               KadGetLast(g) \/ \E n \in 1..MaxRetry : GetRecord(g, n)
        PROVE  Wedged' /\ inPut' \subseteq inPut
        BY <2>0, <2>1, <2>8 DEF GetRecord, KadGetLast, bootVars, putVars
  <2>9. ASSUME NEW more \in BOOLEAN
        PROVE  ~KadBootstrapGoesOn /\ ~KadBootstrapLast /\ ~KadBootstrapErr(more)
        BY <2>0 DEF KadBootstrapGoesOn, KadBootstrapLast, KadBootstrapErr
  <2>10. CASE UNCHANGED vars
         BY <2>0, <2>1, <2>10 DEF vars, bootVars, putVars
  <2> QED BY <2>2, <2>3, <2>4, <2>5, <2>6, <2>7, <2>8, <2>9, <2>10
          DEF Next, Command, Poll, Kad, Time
<1> QED BY <1>1, TypeCorrect, PTL DEF Spec, WedgedForGood
=============================================================================
