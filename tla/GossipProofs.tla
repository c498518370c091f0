---------------------------- MODULE GossipProofs ----------------------------
(* Proofs about GossipBehaviour, for any requests, contents and topics.    *)
EXTENDS GossipBehaviour, Integers, SequenceTheorems, TLAPS

-----------------------------------------------------------------------------
(* Type correctness *)

(* A transmission keeps the types of what it changes. *)
LEMMA TransmitTypeOK ==
    ASSUME TypeOK, NEW m \in Msgs, Transmit(m)
    PROVE  sent' \in [Msgs -> Nat] /\ seen' \subseteq Contents
<1>1. Content[m] \in Contents /\ sent[m] + 1 \in Nat
      BY GossipAssumption DEF GossipAssumption, TypeOK
<1> QED BY <1>1 DEF Transmit, TypeOK

(* Every variable of the gossip behaviour keeps its type. *)
THEOREM TypeCorrect == Spec => []TypeOK
<1>1. Init => TypeOK
  <2> SUFFICES ASSUME Init PROVE TypeOK
      OBVIOUS
  <2>1. in_progress \in Seq(Msgs) /\ event_queue \in Seq(Nat) /\ emitted \in Seq(Nat)
        BY EmptySeq DEF Init
  <2> QED BY <2>1 DEF Init, TypeOK
<1>2. TypeOK /\ [Next]_vars => TypeOK'
  <2> SUFFICES ASSUME TypeOK, [Next]_vars PROVE TypeOK'
      OBVIOUS
  <2> USE DEF TypeOK, outVars, netVars, inVars
  <2>1. ASSUME NEW m \in Msgs, Publish(m) PROVE TypeOK'
    <3>1. Append(in_progress, m) \in Seq(Msgs)
          BY AppendProperties
    <3>2. in_progress' \in Seq(Msgs)
          BY <2>1, <3>1 DEF Publish
    <3>3. sent' \in [Msgs -> Nat] /\ seen' \subseteq Contents
          BY <2>1, TransmitTypeOK DEF Publish
    <3> QED BY <2>1, <3>2, <3>3 DEF Publish
  <2>2. ASSUME NEW t \in Topics, Subscribe(t) \/ Unsubscribe(t) PROVE TypeOK'
        BY <2>2 DEF Subscribe, Unsubscribe
  <2>3. CASE PollStart \/ DrainDone \/ ReturnEarly
        BY <2>3 DEF PollStart, DrainDone, ReturnEarly
  <2>4. CASE DrainStep
    <3>1. Head(in_progress) \in Msgs /\ Tail(in_progress) \in Seq(Msgs)
          BY <2>4, HeadTailProperties DEF DrainStep
    <3>2. Append(Tail(in_progress), Head(in_progress)) \in Seq(Msgs)
          BY <3>1, AppendProperties
    <3>3. sent' \in [Msgs -> Nat] /\ seen' \subseteq Contents
          BY <2>4, <3>1, TransmitTypeOK DEF DrainStep
    <3>4. /\ in_progress' \in Seq(Msgs) /\ phase' \in {"idle", "drain", "events"}
          /\ waiting' \in BOOLEAN
          BY <2>4, <3>1, <3>2 DEF DrainStep
    <3> QED BY <2>4, <3>3, <3>4 DEF DrainStep
  <2>5. ASSUME NEW d \in Contents, Receive(d) PROVE TypeOK'
    <3>1. received' \in Nat /\ event_queue' = Append(event_queue, received')
          BY <2>5 DEF Receive
    <3>2. event_queue' \in Seq(Nat)
          BY <3>1, AppendProperties
    <3> QED BY <2>5, <3>1, <3>2 DEF Receive
  <2>6. CASE ReturnEvent
    <3>1. Head(event_queue) \in Nat /\ Tail(event_queue) \in Seq(Nat)
          BY <2>6, HeadTailProperties DEF ReturnEvent
    <3>2. Append(emitted, Head(event_queue)) \in Seq(Nat)
          BY <3>1, AppendProperties
    <3> QED BY <2>6, <3>1, <3>2 DEF ReturnEvent
  <2>7. CASE Environment
        BY <2>7 DEF Environment, BackoffExpires, PeersChange, Forget
  <2>8. CASE UNCHANGED vars
        BY <2>8 DEF vars
  <2> QED BY <2>1, <2>2, <2>3, <2>4, <2>5, <2>6, <2>7, <2>8 DEF Next, Command, Poll
<1> QED BY <1>1, <1>2, PTL DEF Spec

-----------------------------------------------------------------------------
(* Outgoing messages *)

(* What has been transmitted has been requested: so a new request has not  *)
(* been transmitted yet, and the queue only holds requests that were not.  *)
OnceInv == OnceOrQueued /\ \A m \in Msgs : sent[m] > 0 => m \in asked

(* A step that touches neither the queue nor the histories keeps OnceInv. *)
LEMMA OnceFrame ==
    ASSUME OnceInv, UNCHANGED <<enable_republish, in_progress, asked, sent>>
    PROVE  OnceInv'
  BY DEF OnceInv, OnceOrQueued

(* A transmission counts once for its message. *)
LEMMA TransmitCounts ==
    ASSUME TypeOK, NEW m \in Msgs, Transmit(m)
    PROVE  /\ sent'[m] = sent[m] + 1
           /\ \A n \in Msgs \ {m} : sent'[n] = sent[n]
  BY DEF Transmit, TypeOK

(* Appending what is not there adds one element and keeps doubles out. *)
LEMMA Appended ==
    ASSUME NEW S, NEW s \in Seq(S), NEW n \in S, Distinct(s), n \notin Elems(s)
    PROVE  Elems(Append(s, n)) = Elems(s) \cup {n} /\ Distinct(Append(s, n))
  BY AppendProperties DEF Distinct, Elems

(* The tail of a queue without doubles has none, nor its head. *)
LEMMA Taken ==
    ASSUME NEW S, NEW s \in Seq(S), s # <<>>, Distinct(s)
    PROVE  /\ Head(s) \in S /\ Tail(s) \in Seq(S)
           /\ Elems(s) = {Head(s)} \cup Elems(Tail(s))
           /\ Distinct(Tail(s)) /\ Head(s) \notin Elems(Tail(s))
<1>1. Head(s) \in S /\ Tail(s) \in Seq(S)
      BY HeadTailProperties
<1>2. Elems(s) = {Head(s)} \cup Elems(Tail(s))
      BY HeadTailProperties, EmptySeq DEF Elems
<1>3. Distinct(Tail(s)) /\ Head(s) \notin Elems(Tail(s))
      BY HeadTailProperties, EmptySeq DEF Distinct, Elems
<1> QED BY <1>1, <1>2, <1>3

(* Moving the head to the end keeps the elements and doubles none. *)
LEMMA Rotation ==
    ASSUME NEW S, NEW s \in Seq(S), s # <<>>, Distinct(s)
    PROVE  /\ Elems(Append(Tail(s), Head(s))) = Elems(s)
           /\ Distinct(Append(Tail(s), Head(s)))
<1> DEFINE h == Head(s)
           t == Tail(s)
<1>1. /\ h \in S /\ t \in Seq(S) /\ Elems(s) = {h} \cup Elems(t)
      /\ Distinct(t) /\ h \notin Elems(t)
      BY Taken
<1> HIDE DEF h, t
<1>2. Elems(Append(t, h)) = Elems(t) \cup {h} /\ Distinct(Append(t, h))
      BY <1>1, Appended
<1> QED BY <1>1, <1>2 DEF h, t

(* A new request is transmitted or, with republishing, queued. *)
LEMMA PublishKeepsOnce ==
    ASSUME TypeOK, OnceInv, NEW m \in Msgs, Publish(m) PROVE OnceInv'
<1>1. /\ m \notin asked /\ asked' = asked \cup {m}
      /\ enable_republish' = enable_republish /\ enable_republish \in BOOLEAN
      /\ in_progress \in Seq(Msgs)
      /\ \A n \in Msgs : sent[n] \in Nat
      BY DEF Publish, TypeOK
<1>2. sent[m] = 0 /\ m \notin Elems(in_progress)
      BY <1>1 DEF OnceInv, OnceOrQueued
<1>3. CASE Transmit(m) /\ in_progress' = in_progress
  <2>1. sent'[m] = 1 /\ \A n \in Msgs \ {m} : sent'[n] = sent[n]
        BY <1>2, <1>3, TransmitCounts
  <2> QED BY <1>1, <1>2, <1>3, <2>1 DEF OnceInv, OnceOrQueued
<1>4. CASE enable_republish /\ in_progress' = Append(in_progress, m) /\ sent' = sent
  <2>1. Elems(in_progress') = Elems(in_progress) \cup {m} /\ Distinct(in_progress')
        BY <1>1, <1>2, <1>4, Appended DEF OnceInv, OnceOrQueued
  <2> QED BY <1>1, <1>2, <1>4, <2>1 DEF OnceInv, OnceOrQueued
<1>5. CASE ~enable_republish /\ in_progress' = in_progress /\ sent' = sent
      BY <1>1, <1>2, <1>5 DEF OnceInv, OnceOrQueued
<1> QED BY <1>3, <1>4, <1>5 DEF Publish

(* Draining takes from the queue what it transmits, and nothing else. *)
LEMMA DrainKeepsOnce ==
    ASSUME TypeOK, OnceInv, DrainStep PROVE OnceInv'
<1> DEFINE m == Head(in_progress)
<1>1. /\ in_progress \in Seq(Msgs) /\ in_progress # <<>>
      /\ enable_republish' = enable_republish /\ asked' = asked
      /\ \A n \in Msgs : sent[n] \in Nat
      BY DEF DrainStep, TypeOK
<1>2. /\ m \in Msgs /\ Tail(in_progress) \in Seq(Msgs)
      /\ Elems(in_progress) = {m} \cup Elems(Tail(in_progress))
      BY <1>1, Taken DEF OnceInv, OnceOrQueued
<1>3. /\ Distinct(Tail(in_progress)) /\ m \notin Elems(Tail(in_progress))
      /\ enable_republish
      BY <1>1, Taken DEF OnceInv, OnceOrQueued
<1>4. sent[m] = 0 /\ m \in asked
      BY <1>2 DEF OnceInv, OnceOrQueued
<1>5. CASE Transmit(m) /\ in_progress' = Tail(in_progress)
  <2>1. sent'[m] = 1 /\ \A n \in Msgs \ {m} : sent'[n] = sent[n]
        BY <1>2, <1>4, <1>5, TransmitCounts
  <2> HIDE DEF m
  <2> QED BY <1>1, <1>2, <1>3, <1>4, <1>5, <2>1 DEF OnceInv, OnceOrQueued
<1>6. CASE in_progress' = Append(Tail(in_progress), m) /\ sent' = sent
  <2>1. Elems(in_progress') = Elems(in_progress) /\ Distinct(in_progress')
        BY <1>1, <1>6, Rotation DEF OnceInv, OnceOrQueued
  <2> QED BY <1>1, <1>3, <1>6, <2>1 DEF OnceInv, OnceOrQueued
<1> QED BY <1>5, <1>6 DEF DrainStep

(* Each step keeps OnceInv. *)
LEMMA OnceStep == TypeOK /\ OnceInv /\ [Next]_vars => OnceInv'
<1> SUFFICES ASSUME TypeOK, OnceInv, [Next]_vars PROVE OnceInv'
    OBVIOUS
<1>1. CASE PollStart \/ DrainDone \/ ReturnEarly \/ ReturnEvent
      BY <1>1, OnceFrame DEF PollStart, DrainDone, ReturnEarly, ReturnEvent, outVars
<1>2. ASSUME NEW t \in Topics, Subscribe(t) \/ Unsubscribe(t) PROVE OnceInv'
      BY <1>2, OnceFrame DEF Subscribe, Unsubscribe, outVars
<1>3. ASSUME NEW d \in Contents, Receive(d) PROVE OnceInv'
      BY <1>3, OnceFrame DEF Receive, outVars
<1>4. CASE Environment
      BY <1>4, OnceFrame DEF Environment, BackoffExpires, PeersChange, Forget, outVars
<1>5. CASE UNCHANGED vars
      BY <1>5, OnceFrame DEF vars, outVars
<1> QED BY <1>1, <1>2, <1>3, <1>4, <1>5, PublishKeepsOnce, DrainKeepsOnce
        DEF Next, Command, Poll

(* OnceInv holds throughout. *)
LEMMA OnceAlways == Spec => [](TypeOK /\ OnceInv)
<1>1. Init => OnceInv
      BY DEF Init, OnceInv, OnceOrQueued, Elems, Distinct
<1> QED BY <1>1, OnceStep, TypeCorrect, PTL DEF Spec

(* A request is transmitted at most once; with republishing it is          *)
(* transmitted or queued, once, and without it nothing is queued.          *)
THEOREM PublishedOnce == Spec => []OnceOrQueued
<1>1. OnceInv => OnceOrQueued
      BY DEF OnceInv
<1> QED BY <1>1, OnceAlways, PTL

-----------------------------------------------------------------------------
(* The queue as an Outbox *)

(* A new request is transmitted, queued, or given up where nothing is kept. *)
LEMMA PublishAsks ==
    ASSUME TypeOK, OnceInv, NEW m \in Msgs, Publish(m) PROVE Out!Next
<1>1. Out!Asked(m) /\ in_progress \in Seq(Msgs) /\ sent \in [Msgs -> Nat]
      BY DEF Publish, Out!Asked, TypeOK
<1>2. m \notin Elems(in_progress)
      BY DEF Publish, OnceInv, OnceOrQueued
<1>3. CASE Transmit(m) /\ in_progress' = in_progress
  <2>1. Out!AskAndAnswer(m)
        BY <1>1, <1>3 DEF Out!AskAndAnswer, Out!Answered, Transmit
  <2> QED BY <2>1 DEF Out!Next
<1>4. CASE enable_republish /\ in_progress' = Append(in_progress, m) /\ sent' = sent
  <2>1. Elems(in_progress') = Elems(in_progress) \cup {m}
        BY <1>1, <1>2, <1>4, Appended DEF OnceInv, OnceOrQueued
  <2>2. Out!AskAndWait(m)
        BY <1>1, <1>4, <2>1 DEF Out!AskAndWait
  <2> QED BY <2>2 DEF Out!Next
<1>5. CASE ~enable_republish /\ in_progress' = in_progress /\ sent' = sent
  <2>1. Out!GiveUp(m)
        BY <1>1, <1>5 DEF Out!GiveUp
  <2> QED BY <2>1 DEF Out!Next
<1> QED BY <1>3, <1>4, <1>5 DEF Publish

(* Draining answers the request it transmits and leaves all others pending. *)
LEMMA DrainAnswers ==
    ASSUME TypeOK, OnceInv, DrainStep
    PROVE  Out!Next \/ UNCHANGED <<enable_republish, asked, Elems(in_progress), sent>>
<1> DEFINE m == Head(in_progress)
           t == Tail(in_progress)
<1>1. /\ in_progress \in Seq(Msgs) /\ in_progress # <<>> /\ Distinct(in_progress)
      /\ enable_republish' = enable_republish /\ asked' = asked
      /\ sent \in [Msgs -> Nat]
      BY DEF DrainStep, TypeOK, OnceInv, OnceOrQueued
<1>2. /\ m \in Msgs /\ Elems(in_progress) = {m} \cup Elems(t) /\ m \notin Elems(t)
      BY <1>1, Taken
<1>3. CASE Transmit(m) /\ in_progress' = t
  <2>1. sent' = [sent EXCEPT ![m] = @ + 1]
        BY <1>3 DEF Transmit
  <2> HIDE DEF m, t
  <2>2. Elems(in_progress') = Elems(in_progress) \ {m}
        BY <1>2, <1>3
  <2>3. Out!Answer(m)
        BY <1>1, <1>2, <2>1, <2>2 DEF Out!Answer, Out!Answered
  <2> QED BY <1>2, <2>3 DEF Out!Next
<1>4. CASE in_progress' = Append(t, m) /\ sent' = sent
  <2>1. Elems(in_progress') = Elems(in_progress)
        BY <1>1, <1>4, Rotation
  <2> QED BY <1>1, <1>4, <2>1
<1> QED BY <1>3, <1>4 DEF DrainStep

(* In all its rounds the queue gives nothing up that it has kept, and      *)
(* answers each request at most once.                                      *)
THEOREM ImplementsOutbox == Spec => IsOutbox
<1>1. Init => Out!Init
      BY DEF Init, Out!Init, Elems
<1>2. TypeOK /\ OnceInv /\ [Next]_vars =>
          [Out!Next]_<<enable_republish, asked, Elems(in_progress), sent>>
  <2> SUFFICES ASSUME TypeOK, OnceInv, [Next]_vars
               PROVE  \/ Out!Next
                      \/ UNCHANGED <<enable_republish, asked, Elems(in_progress), sent>>
      OBVIOUS
  <2>1. CASE UNCHANGED <<enable_republish, in_progress, asked, sent>>
        BY <2>1
  <2>2. CASE PollStart \/ DrainDone \/ ReturnEarly \/ ReturnEvent
        BY <2>1, <2>2 DEF PollStart, DrainDone, ReturnEarly, ReturnEvent, outVars
  <2>3. ASSUME NEW t \in Topics, Subscribe(t) \/ Unsubscribe(t)
        PROVE  UNCHANGED <<enable_republish, in_progress, asked, sent>>
        BY <2>3 DEF Subscribe, Unsubscribe, outVars
  <2>4. ASSUME NEW d \in Contents, Receive(d)
        PROVE  UNCHANGED <<enable_republish, in_progress, asked, sent>>
        BY <2>4 DEF Receive, outVars
  <2>5. CASE Environment
        BY <2>1, <2>5 DEF Environment, BackoffExpires, PeersChange, Forget, outVars
  <2>6. CASE UNCHANGED vars
        BY <2>1, <2>6 DEF vars, outVars
  <2> QED BY <2>1, <2>2, <2>3, <2>4, <2>5, <2>6, PublishAsks, DrainAnswers
          DEF Next, Command, Poll
<1> QED BY <1>1, <1>2, OnceAlways, PTL DEF Spec, IsOutbox, Out!Spec

-----------------------------------------------------------------------------
(* Incoming messages *)

(* Appending the next number extends the numbers received. *)
LEMMA NextNumber ==
    ASSUME NEW n \in Nat
    PROVE  Append([i \in 1..n |-> i], n + 1) = [i \in 1..n + 1 |-> i]
<1> DEFINE s == [i \in 1..n |-> i]
           t == [i \in 1..n + 1 |-> i]
<1>1. s \in Seq(Nat) /\ Len(s) = n /\ t \in Seq(Nat) /\ Len(t) = n + 1
      OBVIOUS
<1>2. /\ Append(s, n + 1) \in Seq(Nat) /\ Len(Append(s, n + 1)) = n + 1
      /\ Append(s, n + 1)[n + 1] = n + 1
      /\ \A i \in 1..n : Append(s, n + 1)[i] = s[i]
      BY <1>1, AppendProperties
<1>3. \A i \in 1..n + 1 : Append(s, n + 1)[i] = t[i]
      BY <1>2
<1> QED BY <1>1, <1>2, <1>3, SeqEqual

(* Received messages reach the swarm in order, each once. *)
THEOREM OrderKept == Spec => []ReceivedInOrder
<1>1. Init => ReceivedInOrder
  <2> SUFFICES ASSUME Init PROVE ReceivedInOrder
      OBVIOUS
  <2>1. emitted \o event_queue = <<>>
        BY ConcatEmptySeq, EmptySeq DEF Init
  <2>2. [i \in 1..received |-> i] = <<>>
        BY DEF Init
  <2> QED BY <2>1, <2>2 DEF ReceivedInOrder
<1>2. TypeOK /\ ReceivedInOrder /\ [Next]_vars => ReceivedInOrder'
  <2> SUFFICES ASSUME TypeOK, ReceivedInOrder, [Next]_vars PROVE ReceivedInOrder'
      OBVIOUS
  <2>0. event_queue \in Seq(Nat) /\ emitted \in Seq(Nat) /\ received \in Nat
        BY DEF TypeOK
  <2>1. ASSUME NEW d \in Contents, Receive(d) PROVE ReceivedInOrder'
    <3>1. /\ received' = received + 1 /\ received + 1 \in Nat
          /\ event_queue' = Append(event_queue, received + 1) /\ emitted' = emitted
          BY <2>0, <2>1 DEF Receive
    <3>2. emitted' \o event_queue' = Append(emitted \o event_queue, received + 1)
          BY <2>0, <3>1
    <3> QED BY <2>0, <3>1, <3>2, NextNumber DEF ReceivedInOrder
  <2>2. CASE ReturnEvent
    <3>1. /\ event_queue # <<>> /\ received' = received
          /\ emitted' = Append(emitted, Head(event_queue))
          /\ event_queue' = Tail(event_queue)
          BY <2>2 DEF ReturnEvent
    <3>2. emitted' \o event_queue' = emitted \o event_queue
          BY <2>0, <3>1
    <3> QED BY <3>1, <3>2 DEF ReceivedInOrder
  <2>3. CASE UNCHANGED <<event_queue, received, emitted>>
        BY <2>3 DEF ReceivedInOrder
  <2>4. CASE Poll \/ ReturnEarly \/ Environment \/ UNCHANGED vars
        BY <2>3, <2>4 DEF Poll, PollStart, DrainStep, DrainDone, ReturnEarly, Environment,
                          BackoffExpires, PeersChange, Forget, vars, inVars
  <2>5. ASSUME NEW t \in Topics, Subscribe(t) \/ Unsubscribe(t)
        PROVE  ReceivedInOrder'
        BY <2>3, <2>5 DEF Subscribe, Unsubscribe
  <2>6. ASSUME NEW m \in Msgs, Publish(m) PROVE ReceivedInOrder'
        BY <2>3, <2>6 DEF Publish, inVars
  <2> QED BY <2>1, <2>2, <2>4, <2>5, <2>6 DEF Next, Command
<1> QED BY <1>1, <1>2, TypeCorrect, PTL DEF Spec
=============================================================================
