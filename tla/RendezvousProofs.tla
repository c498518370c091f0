-------------------------- MODULE RendezvousProofs --------------------------
(* Proofs about RendezvousBehaviour, for any points, namespaces and peers. *)
EXTENDS RendezvousBehaviour, Integers, SequenceTheorems, TLAPS

-----------------------------------------------------------------------------
(* Type correctness *)

(* Requests by peer id, and those for the peer that answered at an         *)
(* address, ask points for namespaces.                                     *)
LEMMA RequestsTyped ==
    ASSUME NEW pairs \in SUBSET Pairs
    PROVE  /\ ByPeerId(pairs) \subseteq Requests
           /\ \A a \in Addresses, p \in Points : AtAddress(pairs, a, p) \subseteq Requests
<1>1. \A w \in pairs : w[2] \in Namespaces
      BY DEF Pairs
<1> QED BY <1>1 DEF ByPeerId, AtAddress, Ends, Requests

(* Pushing an event yields sequences of events. *)
LEMMA PushTypeOK ==
    ASSUME TypeOK, NEW e \in Event, Push(e)
    PROVE  event_queue' \in Seq(Event) /\ reported' \in Seq(Event)
<1>1. Append(event_queue, e) \in Seq(Event) /\ Append(reported, e) \in Seq(Event)
      BY AppendProperties DEF TypeOK
<1> QED BY <1>1 DEF Push

(* The events of handle_event. *)
LEMMA EventsTyped ==
    ASSUME NEW peers \in SUBSET (Others \cup {Self})
    PROVE  /\ [kind |-> "Registered", peers |-> {}] \in Event
           /\ [kind |-> "Discovered", peers |-> WithoutSelf(peers)] \in Event
  BY DEF Event, WithoutSelf

(* Every variable of the rendezvous behaviour keeps its type. *)
THEOREM TypeCorrect == Spec => []TypeOK
<1>1. Init => TypeOK
  <2> SUFFICES ASSUME Init PROVE TypeOK
      OBVIOUS
  <2>1. event_queue \in Seq(Event) /\ emitted \in Seq(Event) /\ reported \in Seq(Event)
        BY EmptySeq DEF Init
  <2> QED BY <2>1 DEF Init, TypeOK
<1>2. TypeOK /\ [Next]_vars => TypeOK'
  <2> SUFFICES ASSUME TypeOK, [Next]_vars PROVE TypeOK'
      OBVIOUS
  <2> USE DEF ownVars, clientVars, reqVars, worldVars, history
  <2>1. ASSUME NEW w \in Wishes, register(w) PROVE TypeOK'
    <3>1. w \in Pairs
          BY RendezvousAssumption DEF RendezvousAssumption, Pairs
    <3>2. ByPeerId({w}) \subseteq Requests
          BY <3>1, RequestsTyped
    <3> QED BY <2>1, <3>1, <3>2 DEF register, TypeOK
  <2>2. ASSUME NEW n \in Namespaces, unregister(n) PROVE TypeOK'
    <3>1. {w \in registrations : w[2] = n} \in SUBSET Pairs
          BY DEF TypeOK
    <3>2. ByPeerId({w \in registrations : w[2] = n}) \subseteq Requests
          BY <3>1, RequestsTyped
    <3> QED BY <2>2, <3>2 DEF unregister, TypeOK
  <2>3. ASSUME NEW s \in Searches, discover(s) PROVE TypeOK'
        BY <2>3, RendezvousAssumption DEF RendezvousAssumption, discover, TypeOK, Pairs
  <2>4. CASE NewListener
    <3>1. registering' \subseteq Requests
          BY <2>4, RequestsTyped DEF NewListener, RefreshAll, Register, TypeOK
    <3> QED BY <2>4, <3>1 DEF NewListener, TypeOK
  <2>5. ASSUME NEW a \in Addresses, NEW p \in Points, ConnectionEstablished(a, p)
        PROVE  TypeOK'
    <3>1. registering' \subseteq Requests
          BY <2>5, RequestsTyped DEF ConnectionEstablished, Register, TypeOK
    <3>2. discovering' \subseteq Requests \X (Namespaces \cup {None})
      <4>1. AtAddress(discovery, a, p) \subseteq Requests
            BY RequestsTyped DEF TypeOK
      <4> QED BY <2>5, <4>1 DEF ConnectionEstablished, TypeOK
    <3>3. answered' \subseteq Addresses \X Points
          BY <2>5 DEF ConnectionEstablished, TypeOK
    <3> QED BY <2>5, <3>1, <3>2, <3>3 DEF ConnectionEstablished, TypeOK
  <2>6. CASE PollStart
    <3>1. registering' \subseteq Requests
          BY <2>6, RequestsTyped DEF PollStart, RefreshAll, Register, TypeOK
    <3> QED BY <2>6, <3>1 DEF PollStart, TypeOK
  <2>7. ASSUME NEW n \in Namespaces, HandleRegistered(n) PROVE TypeOK'
    <3>1. [kind |-> "Registered", peers |-> {}] \in Event
          BY EventsTyped
    <3>2. event_queue' \in Seq(Event) /\ reported' \in Seq(Event)
          BY <2>7, <3>1, PushTypeOK DEF HandleRegistered
    <3> QED BY <2>7, <3>2 DEF HandleRegistered, TypeOK
  <2>8. ASSUME NEW d \in discovering, NEW peers \in SUBSET (Others \cup {Self}),
               HandleDiscovered(d, peers)
        PROVE  TypeOK'
    <3>1. d[1][2] \in Namespaces
          BY DEF TypeOK, Requests
    <3>2. [kind |-> "Discovered", peers |-> WithoutSelf(peers)] \in Event
          BY EventsTyped
    <3>3. CASE Push([kind |-> "Discovered", peers |-> WithoutSelf(peers)])
      <4>1. event_queue' \in Seq(Event) /\ reported' \in Seq(Event)
            BY <3>2, <3>3, PushTypeOK
      <4>2. cookie' \in Namespaces \cup {None}
            BY <2>8, <3>1 DEF HandleDiscovered, CookieFrom, TypeOK
      <4> QED BY <2>8, <4>1, <4>2 DEF HandleDiscovered, TypeOK
    <3>4. CASE UNCHANGED <<cookie, event_queue, reported>>
          BY <2>8, <3>4 DEF HandleDiscovered, TypeOK
    <3> QED BY <2>8, <3>3, <3>4 DEF HandleDiscovered
  <2>9. CASE ReturnEarly
        BY <2>9 DEF ReturnEarly, TypeOK
  <2>10. CASE ReturnEvent
    <3>1. Head(event_queue) \in Event /\ Tail(event_queue) \in Seq(Event)
          BY <2>10, HeadTailProperties DEF ReturnEvent, TypeOK
    <3>2. Append(emitted, Head(event_queue)) \in Seq(Event)
          BY <3>1, AppendProperties DEF TypeOK
    <3> QED BY <2>10, <3>1, <3>2 DEF ReturnEvent, TypeOK
  <2>11. ASSUME NEW w \in registering, PointRegisters(w) PROVE TypeOK'
        BY <2>11 DEF PointRegisters, TypeOK, Requests
  <2>12. ASSUME NEW w \in unregistering, PointUnregisters(w) PROVE TypeOK'
        BY <2>12 DEF PointUnregisters, TypeOK
  <2>13. ASSUME NEW p \in Points, RequestsFail(p) \/ PointLost(p) \/ PointFound(p)
         PROVE  TypeOK'
        BY <2>13 DEF RequestsFail, PointLost, PointFound, TypeOK
  <2>14. ASSUME NEW n \in Namespaces, ConfirmationLost(n) PROVE TypeOK'
        BY <2>14 DEF ConfirmationLost, TypeOK
  <2>15. ASSUME NEW w \in Requests, RunsOut(w) PROVE TypeOK'
        BY <2>15 DEF RunsOut, TypeOK
  <2>16. CASE ExternalAddress \/ TimerExpires
        BY <2>16 DEF ExternalAddress, TimerExpires, TypeOK
  <2>17. CASE UNCHANGED vars
        BY <2>17 DEF vars, TypeOK
  <2>18. Command => TypeOK'
        BY <2>1, <2>2, <2>3 DEF Command
  <2>19. SwarmEvent => TypeOK'
        BY <2>4, <2>5 DEF SwarmEvent
  <2>20. Poll => TypeOK'
        BY <2>6, <2>7, <2>8, <2>9, <2>10 DEF Poll, HandleEvent
  <2>21. Network => TypeOK'
        BY <2>11, <2>12, <2>13, <2>14, <2>15, <2>16 DEF Network
  <2> QED BY <2>17, <2>18, <2>19, <2>20, <2>21 DEF Next
<1> QED BY <1>1, <1>2, PTL DEF Spec

-----------------------------------------------------------------------------
(* Registrations *)

(* Requests by peer id are for peers that the addresses of pairs mean. *)
LEMMA ByPeerIdMeant ==
    ASSUME NEW pairs, NEW q \in ByPeerId(pairs)
    PROVE  \E w \in pairs : Ends(w[1]) /\ Means(w[1], q[1]) /\ w[2] = q[2]
  BY DEF ByPeerId, Means

(* Who answers at an address that clients asked something for is a peer    *)
(* they mean by it.                                                        *)
LEMMA AtAddressMeant ==
    ASSUME NEW a \in Addresses, NEW p \in Points, ConnectionEstablished(a, p),
           NEW pairs \in SUBSET (registrations \cup discovery),
           NEW q \in AtAddress(pairs, a, p)
    PROVE  \E w \in pairs : Means(w[1], q[1])' /\ w[2] = q[2]
<1>1. PICK w \in pairs : w[1] = a /\ q = <<p, w[2]>>
      BY DEF AtAddress
<1>2. CASE Ends(a)
      BY <1>1, <1>2 DEF ConnectionEstablished, Means
<1>3. CASE ~Ends(a)
  <2>1. <<w[1], p>> \in answered'
        BY <1>1, <1>3 DEF ConnectionEstablished
  <2> QED BY <1>1, <1>3, <2>1 DEF Means
<1> QED BY <1>2, <1>3

(* A step keeps the registrations, the searches and who has answered.      *)
LEMMA MeaningLasts ==
    ASSUME [Next]_vars
    PROVE  /\ registrations \subseteq registrations' /\ discovery \subseteq discovery'
           /\ \A a, p : Means(a, p) => Means(a, p)'
<1> USE DEF ownVars, clientVars, reqVars, worldVars, history
<1>1. /\ registrations \subseteq registrations' /\ discovery \subseteq discovery'
      /\ answered \subseteq answered'
  <2>1. CASE Command
        BY <2>1 DEF Command, register, unregister, discover
  <2>2. CASE SwarmEvent \/ PollStart
        BY <2>2 DEF SwarmEvent, NewListener, ConnectionEstablished, PollStart
  <2>3. CASE HandleEvent \/ ReturnEarly \/ ReturnEvent
        BY <2>3 DEF HandleEvent, HandleRegistered, HandleDiscovered, ReturnEarly, ReturnEvent
  <2>4. CASE Network
        BY <2>4 DEF Network, PointRegisters, PointUnregisters, RequestsFail, PointLost,
                    PointFound, ConfirmationLost, RunsOut, ExternalAddress, TimerExpires
  <2>5. CASE UNCHANGED vars
        BY <2>5 DEF vars
  <2> QED BY <2>1, <2>2, <2>3, <2>4, <2>5 DEF Next, Poll
<1> QED BY <1>1 DEF Means

(* A peer holds, and is asked for, only what clients wanted at an address  *)
(* by which they mean that peer.  The property is inductive: a request     *)
(* goes to the peer an address ends in, or to the one that has answered at *)
(* it, and what was meant once stays so, since registrations and searches  *)
(* are never dropped.                                                      *)
THEOREM RightPoint == Spec => []OnlyAsked
<1> DEFINE Held(q) == \E w \in registrations : Means(w[1], q[1]) /\ w[2] = q[2]
           Named(q) == \E w \in registrations :
                          Ends(w[1]) /\ Means(w[1], q[1]) /\ w[2] = q[2]
           Sought(d) == \E s \in discovery : Means(s[1], d[1][1]) /\ s[2] = d[1][2]
<1>1. Init => OnlyAsked
  BY DEF Init, OnlyAsked
<1>2. OnlyAsked /\ [Next]_vars => OnlyAsked'
  <2> SUFFICES ASSUME OnlyAsked, [Next]_vars PROVE OnlyAsked'
      OBVIOUS
  <2> USE DEF ownVars, clientVars, reqVars, worldVars, history
  <2>1. /\ \A q \in registered \cup registering : Held(q)'
        /\ \A q \in unregistering : Named(q)'
        /\ \A d \in discovering : Sought(d)'
        BY MeaningLasts DEF OnlyAsked
  <2>2. SUFFICES /\ \A q \in (registered' \cup registering') \ (registered \cup registering) :
                       Held(q)'
                 /\ \A q \in unregistering' \ unregistering : Named(q)'
                 /\ \A d \in discovering' \ discovering : Sought(d)'
        BY <2>1 DEF OnlyAsked
  <2>3. \A q \in ByPeerId(registrations) : Held(q)'
        BY ByPeerIdMeant, MeaningLasts
  <2>4. CASE Command
    <3>1. ASSUME NEW n \in Namespaces, unregister(n),
                 NEW q \in unregistering' \ unregistering
          PROVE  Named(q)'
      <4>1. q \in ByPeerId({w \in registrations : w[2] = n})
            BY <3>1 DEF unregister
      <4>2. Named(q)
            BY <4>1, ByPeerIdMeant
      <4> QED BY <4>2, MeaningLasts
    <3> QED BY <2>4, <3>1 DEF Command, register, unregister, discover
  <2>5. CASE NewListener \/ PollStart
        BY <2>3, <2>5 DEF NewListener, PollStart, RefreshAll, Register
  <2>6. ASSUME NEW a \in Addresses, NEW p \in Points, ConnectionEstablished(a, p)
        PROVE  /\ \A q \in (registered' \cup registering') \ (registered \cup registering) :
                     Held(q)'
               /\ \A q \in unregistering' \ unregistering : Named(q)'
               /\ \A d \in discovering' \ discovering : Sought(d)'
    <3>1. \A q \in AtAddress(registrations, a, p) : Held(q)'
          BY <2>6, AtAddressMeant, MeaningLasts
    <3>2. ASSUME NEW d \in discovering' \ discovering PROVE Sought(d)'
      <4>1. d[1] \in AtAddress(discovery, a, p)
            BY <2>6, <3>2 DEF ConnectionEstablished
      <4> QED BY <2>6, <4>1, AtAddressMeant, MeaningLasts
    <3> QED BY <2>6, <3>1, <3>2 DEF ConnectionEstablished, Register
  <2>7. CASE HandleEvent \/ ReturnEarly \/ ReturnEvent
        BY <2>7 DEF HandleEvent, HandleRegistered, HandleDiscovered, ReturnEarly, ReturnEvent
  <2>8. CASE Network
        BY <2>8 DEF Network, PointRegisters, PointUnregisters, RequestsFail, PointLost,
                    PointFound, ConfirmationLost, RunsOut, ExternalAddress, TimerExpires
  <2>9. CASE UNCHANGED vars
        BY <2>9 DEF vars
  <2> QED BY <2>4, <2>5, <2>6, <2>7, <2>8, <2>9 DEF Next, SwarmEvent, Poll
<1> QED BY <1>1, <1>2, PTL DEF Spec

-----------------------------------------------------------------------------
(* Events for the swarm *)

(* No event for the swarm names this node. *)
Foreign(e) == Self \notin e.peers

(* A step handles an answer, hands over an event, or leaves both alone. *)
LEMMA EventSteps ==
    ASSUME TypeOK, [Next]_vars
    PROVE  \/ \E e \in Event : Push(e) /\ Foreign(e) /\ UNCHANGED emitted
           \/ ReturnEvent
           \/ UNCHANGED <<event_queue, emitted, reported>>
<1> USE DEF ownVars, clientVars, reqVars, worldVars, history
<1>1. ASSUME NEW n \in Namespaces, HandleRegistered(n)
      PROVE  \E e \in Event : Push(e) /\ Foreign(e) /\ UNCHANGED emitted
  <2>1. [kind |-> "Registered", peers |-> {}] \in Event
        BY EventsTyped
  <2> QED BY <1>1, <2>1 DEF HandleRegistered, Foreign
<1>2. ASSUME NEW d \in discovering, NEW peers \in SUBSET (Others \cup {Self}),
             HandleDiscovered(d, peers)
      PROVE  \/ \E e \in Event : Push(e) /\ Foreign(e) /\ UNCHANGED emitted
             \/ UNCHANGED <<event_queue, emitted, reported>>
  <2>1. /\ [kind |-> "Discovered", peers |-> WithoutSelf(peers)] \in Event
        /\ Foreign([kind |-> "Discovered", peers |-> WithoutSelf(peers)])
        BY EventsTyped DEF Foreign, WithoutSelf
  <2> QED BY <1>2, <2>1 DEF HandleDiscovered
<1>3. CASE Command
      BY <1>3 DEF Command, register, unregister, discover
<1>4. CASE SwarmEvent
      BY <1>4 DEF SwarmEvent, NewListener, ConnectionEstablished
<1>5. CASE PollStart \/ ReturnEarly
      BY <1>5 DEF PollStart, ReturnEarly
<1>6. CASE Network
      BY <1>6 DEF Network, PointRegisters, PointUnregisters, RequestsFail, PointLost,
                  PointFound, ConfirmationLost, RunsOut, ExternalAddress, TimerExpires
<1>7. CASE UNCHANGED vars
      BY <1>7 DEF vars
<1> QED BY <1>1, <1>2, <1>3, <1>4, <1>5, <1>6, <1>7 DEF Next, Poll, HandleEvent

(* Answers reach the swarm in the order they came in, each once. *)
THEOREM ReportsOrdered == Spec => []ReportsInOrder
<1>1. Init => ReportsInOrder
  <2>1. <<>> \in Seq(Event)
        BY EmptySeq
  <2>2. <<>> \o <<>> = <<>>
        BY <2>1, ConcatEmptySeq
  <2> QED BY <2>2 DEF Init, ReportsInOrder
<1>2. TypeOK /\ ReportsInOrder /\ [Next]_vars => ReportsInOrder'
  <2> SUFFICES ASSUME TypeOK, ReportsInOrder, [Next]_vars PROVE ReportsInOrder'
      OBVIOUS
  <2>1. ASSUME NEW e \in Event, Push(e), UNCHANGED emitted PROVE ReportsInOrder'
    <3>1. emitted \o Append(event_queue, e) = Append(emitted \o event_queue, e)
          BY DEF TypeOK
    <3> QED BY <2>1, <3>1 DEF Push, ReportsInOrder
  <2>2. CASE ReturnEvent
    <3>1. Append(emitted, Head(event_queue)) \o Tail(event_queue)
             = emitted \o event_queue
          BY <2>2 DEF ReturnEvent, TypeOK
    <3> QED BY <2>2, <3>1 DEF ReturnEvent, ReportsInOrder, history
  <2>3. CASE UNCHANGED <<event_queue, emitted, reported>>
        BY <2>3 DEF ReportsInOrder
  <2> QED BY <2>1, <2>2, <2>3, EventSteps
<1> QED BY <1>1, <1>2, TypeCorrect, PTL DEF Spec

(* The node is never told to dial itself. *)
THEOREM NoSelfDial == Spec => []NeverSelf
<1>1. Init => NeverSelf
  <2>1. DOMAIN <<>> = {}
        OBVIOUS
  <2> QED BY <2>1 DEF Init, NeverSelf
<1>2. TypeOK /\ NeverSelf /\ [Next]_vars => NeverSelf'
  <2> SUFFICES ASSUME TypeOK, NeverSelf, [Next]_vars PROVE NeverSelf'
      OBVIOUS
  <2>1. ASSUME NEW e \in Event, Push(e), Foreign(e) PROVE NeverSelf'
    <3>1. reported' = Append(reported, e) /\ reported \in Seq(Event)
          BY <2>1 DEF Push, TypeOK
    <3>2. /\ Len(reported) \in Nat /\ reported'[Len(reported) + 1] = e
          /\ DOMAIN reported = 1..Len(reported)
          /\ DOMAIN reported' = 1..Len(reported) + 1
          /\ \A i \in 1..Len(reported) : reported'[i] = reported[i]
          BY <3>1, AppendProperties, LenProperties
    <3>3. \A i \in 1..Len(reported) + 1 : i \in 1..Len(reported) \/ i = Len(reported) + 1
          BY <3>2
    <3> QED BY <2>1, <3>2, <3>3 DEF NeverSelf, Foreign
  <2>2. CASE ReturnEvent
        BY <2>2 DEF ReturnEvent, NeverSelf, history
  <2>3. CASE UNCHANGED <<event_queue, emitted, reported>>
        BY <2>3 DEF NeverSelf
  <2> QED BY <2>1, <2>2, <2>3, EventSteps
<1> QED BY <1>1, <1>2, TypeCorrect, PTL DEF Spec

-----------------------------------------------------------------------------
(* The cookie *)

(* Once the cookie of a namespace has got into all requests, the searches  *)
(* of other namespaces are never answered again.                           *)
THEOREM OneNamespaceIsServed == Spec => OthersStarve
<1> DEFINE Step(n) == /\ Settled(n)'
                      /\ \A d \in discovering \ discovering' :
                            d[1][2] # n => reported' = reported
<1>1. ASSUME Next, NEW n \in Namespaces, Settled(n) PROVE Step(n)
  <2> USE DEF ownVars, clientVars, reqVars, worldVars, history
  <2>1. ASSUME cookie' = cookie, discovering' \subseteq discovering, reported' = reported
        PROVE  Step(n)
        BY <1>1, <2>1 DEF Settled
  <2>2. CASE Command \/ NewListener \/ PollStart \/ ReturnEarly \/ ReturnEvent
        BY <2>1, <2>2 DEF Command, register, unregister, discover, NewListener,
                          PollStart, ReturnEarly, ReturnEvent
  <2>3. CASE Network
        BY <2>1, <2>3 DEF Network, PointRegisters, PointUnregisters, RequestsFail,
                          PointLost, PointFound, ConfirmationLost, RunsOut,
                          ExternalAddress, TimerExpires
  <2>4. ASSUME NEW a \in Addresses, NEW p \in Points, ConnectionEstablished(a, p)
        PROVE  Step(n)
    <3>1. cookie' = n /\ discovering \subseteq discovering'
          BY <1>1, <2>4 DEF ConnectionEstablished, Settled
    <3>2. \A d \in discovering' : d[2] = n
          BY <1>1, <2>4 DEF ConnectionEstablished, Settled
    <3> QED BY <3>1, <3>2 DEF Settled
  <2>5. ASSUME NEW m \in Namespaces, HandleRegistered(m) PROVE Step(n)
    <3>1. cookie' = cookie /\ discovering' = discovering
          BY <2>5 DEF HandleRegistered
    <3> QED BY <1>1, <3>1 DEF Settled
  <2>6. ASSUME NEW d \in discovering, NEW peers \in SUBSET (Others \cup {Self}),
               HandleDiscovered(d, peers)
        PROVE  Step(n)
    <3>1. discovering' = discovering \ {d} /\ d[2] = n /\ n # None
          BY <1>1, <2>6, RendezvousAssumption
          DEF HandleDiscovered, Settled, RendezvousAssumption
    <3>2. CASE d[1][2] = n
      <4>1. cookie' = n
            BY <2>6, <3>1, <3>2 DEF HandleDiscovered, CookieFrom
      <4> QED BY <1>1, <3>1, <3>2, <4>1 DEF Settled
    <3>3. CASE d[1][2] # n
      <4>1. cookie' = cookie /\ reported' = reported
            BY <2>6, <3>1, <3>3 DEF HandleDiscovered
      <4> QED BY <2>1, <3>1, <4>1
    <3> QED BY <3>2, <3>3
  <2> QED BY <1>1, <2>2, <2>3, <2>4, <2>5, <2>6 DEF Next, SwarmEvent, Poll, HandleEvent
<1>2. [Next]_vars => [\A n \in Namespaces : Settled(n) => Step(n)]_vars
      BY <1>1
<1> QED BY <1>2, PTL DEF Spec, OthersStarve
=============================================================================
