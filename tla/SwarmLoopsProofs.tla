--------------------------- MODULE SwarmLoopsProofs ---------------------------
(* Proofs about SwarmLoops, for any relays, peers and addresses. *)
EXTENDS SwarmLoops, Integers, SequenceTheorems, TLAPS

USE SwarmLoopsAssumption DEF SwarmLoopsAssumption

-----------------------------------------------------------------------------
(* Type correctness *)

LEMMA TypeInit == Init => TypeOK
<1> SUFFICES ASSUME Init PROVE TypeOK
    OBVIOUS
<1>1. commands \in Seq(Relays)
      BY EmptySeq DEF Init
<1> QED BY <1>1 DEF Init, TypeOK

LEMMA IdentifyTyped ==
    ASSUME TypeOK, NEW p \in Peers, NEW half \in Half, NEW a \in Addresses,
           NEW listens \in BOOLEAN, Identify(p, half, a, listens)
    PROVE  TypeOK'
<1>1. exchanged' \in SUBSET (Peers \X Half)
      BY DEF Identify, TypeOK
<1>2. told_relay_observed_addr' \in BOOLEAN /\ learned_observed_addr' \in BOOLEAN
      BY DEF Identify, TypeOK
<1>3. observed' \in SUBSET Addresses /\ external' \in SUBSET (Addresses \cup Relays)
      BY DEF Identify, TypeOK
<1>4. \/ loop' = "main" /\ relay' = {} /\ due' = FALSE
      \/ loop' = "relay" /\ UNCHANGED <<relay, due>>
      BY DEF Identify
<1> QED BY <1>1, <1>2, <1>3, <1>4 DEF Identify, TypeOK

LEMMA TypeNext == TypeOK /\ [Next]_vars => TypeOK'
<1> SUFFICES ASSUME TypeOK, [Next]_vars PROVE TypeOK'
    OBVIOUS
<1> USE DEF loopVars, unheard, history
<1>1. CASE StartupOver \/ Elapse
      BY <1>1 DEF StartupOver, Elapse, TypeOK
<1>2. CASE Dial
  <2>1. Head(commands) \in Relays /\ commands' \in Seq(Relays)
        BY <1>2, HeadTailProperties DEF Dial, TypeOK
  <2> QED BY <1>2, <2>1 DEF Dial, Forget, TypeOK
<1>3. CASE Timeout
      BY <1>3 DEF Timeout, TypeOK
<1>4. ASSUME NEW a \in Addresses, NewListenAddr(a) PROVE TypeOK'
      BY <1>4 DEF NewListenAddr, Announce, Heard, TypeOK
<1>5. ASSUME NEW nodes \in SUBSET Nodes, Discovered(nodes) PROVE TypeOK'
  <2>1. PeersOf(nodes) \subseteq Others
        BY DEF PeersOf, Nodes
  <2> QED BY <1>5, <2>1 DEF Discovered, Heard, TypeOK
<1>6. ASSUME NEW nodes \in SUBSET Nodes, Expired(nodes) PROVE TypeOK'
      BY <1>6 DEF Expired, IgnoreExpired, Heard, TypeOK
<1>7. ASSUME NEW p \in Others, Upgraded(p) PROVE TypeOK'
      BY <1>7 DEF Upgraded, TypeOK
<1>8. CASE Unheeded
      BY <1>8 DEF Unheeded, Heard, TypeOK
<1>9. ASSUME NEW r \in Relays, ConnectionEstablished(r) PROVE TypeOK'
      BY <1>9 DEF ConnectionEstablished, TypeOK
<1>10. ASSUME NEW r \in Relays, ListenViaRelay(r) PROVE TypeOK'
  <2>1. commands' \in Seq(Relays)
        BY <1>10, AppendProperties DEF ListenViaRelay, TypeOK
  <2> QED BY <1>10, <2>1 DEF ListenViaRelay, TypeOK
<1>11. CASE UNCHANGED vars
      BY <1>11 DEF vars, TypeOK
<1> QED BY <1>1, <1>2, <1>3, <1>4, <1>5, <1>6, <1>7, <1>8, <1>9, <1>10, <1>11,
           IdentifyTyped DEF Next, Loops, SwarmEvents

(* Every variable of the loops keeps its type. *)
THEOREM TypeCorrect == Spec => []TypeOK
  BY TypeInit, TypeNext, PTL DEF Spec

-----------------------------------------------------------------------------
(* What the events leave behind *)

LEMMA HeededNext == TypeOK /\ HeededLasts /\ [Next]_vars => HeededLasts'
<1> SUFFICES ASSUME TypeOK, HeededLasts, [Next]_vars PROVE HeededLasts'
    OBVIOUS
<1> USE DEF loopVars, unheard, history
<1>1. ASSUME UNCHANGED <<known, missed, listening>>,
             explicit \subseteq explicit', external \subseteq external'
      PROVE  HeededLasts'
      BY <1>1 DEF HeededLasts, PeersOf
<1>2. CASE StartupOver \/ Elapse \/ Dial \/ Timeout \/ Unheeded
      BY <1>1, <1>2 DEF StartupOver, Elapse, Dial, Timeout, Unheeded
<1>3. ASSUME NEW a \in Addresses, NewListenAddr(a) PROVE HeededLasts'
  <2>1. known \ missed' = known \ missed
        BY <1>3 DEF NewListenAddr, TypeOK
  <2>2. listening' \ (missed' \cup Loopback) \subseteq external'
        BY <1>3 DEF NewListenAddr, Announce, HeededLasts
  <2> QED BY <1>3, <2>1, <2>2 DEF NewListenAddr, HeededLasts
<1>4. ASSUME NEW nodes \in SUBSET Nodes, Discovered(nodes) PROVE HeededLasts'
  <2>1. listening \ missed' = listening \ missed
        BY <1>4 DEF Discovered, TypeOK
  <2>2. PeersOf(known' \ missed') \subseteq explicit'
        BY <1>4 DEF Discovered, PeersOf, HeededLasts
  <2> QED BY <1>4, <2>1, <2>2 DEF Discovered, HeededLasts
<1>5. ASSUME NEW nodes \in SUBSET Nodes, Expired(nodes) PROVE HeededLasts'
      BY <1>5 DEF Expired, IgnoreExpired, PeersOf, HeededLasts
<1>6. ASSUME NEW p \in Others, Upgraded(p) PROVE HeededLasts'
      BY <1>1, <1>6 DEF Upgraded
<1>7. ASSUME NEW p \in Peers, NEW half \in Half, NEW a \in Addresses,
             NEW listens \in BOOLEAN, Identify(p, half, a, listens)
      PROVE  HeededLasts'
      BY <1>1, <1>7 DEF Identify
<1>8. ASSUME NEW r \in Relays, ConnectionEstablished(r) \/ ListenViaRelay(r)
      PROVE  HeededLasts'
      BY <1>1, <1>8 DEF ConnectionEstablished, ListenViaRelay
<1>9. CASE UNCHANGED vars
      BY <1>1, <1>9 DEF vars
<1> QED BY <1>2, <1>3, <1>4, <1>5, <1>6, <1>7, <1>8, <1>9
        DEF Next, Loops, SwarmEvents

(* Whoever was reported to a loop that heeds it stays an explicit peer,    *)
(* and a listening address stays announced, whatever loop runs later.      *)
THEOREM HeededEventsLast == Spec => []HeededLasts
<1>1. Init => HeededLasts
      BY DEF Init, HeededLasts, PeersOf
<1> QED BY <1>1, TypeInit, TypeNext, HeededNext, PTL DEF Spec

LEMMA LoopbackNext == TypeOK /\ LoopbackObserved /\ [Next]_vars => LoopbackObserved'
<1> SUFFICES ASSUME TypeOK, LoopbackObserved, [Next]_vars PROVE LoopbackObserved'
    OBVIOUS
<1> USE DEF loopVars, unheard, history
<1>1. ASSUME UNCHANGED <<external, observed>> PROVE LoopbackObserved'
      BY <1>1 DEF LoopbackObserved
<1>2. CASE StartupOver \/ Elapse \/ Dial \/ Timeout \/ Unheeded
      BY <1>1, <1>2 DEF StartupOver, Elapse, Dial, Timeout, Unheeded
<1>3. ASSUME NEW a \in Addresses, NewListenAddr(a) PROVE LoopbackObserved'
      BY <1>3 DEF NewListenAddr, Announce, LoopbackObserved
<1>4. ASSUME NEW nodes \in SUBSET Nodes, Discovered(nodes) \/ Expired(nodes)
      PROVE  LoopbackObserved'
      BY <1>1, <1>4 DEF Discovered, Expired
<1>5. ASSUME NEW p \in Others, Upgraded(p) PROVE LoopbackObserved'
      BY <1>1, <1>5 DEF Upgraded
<1>6. ASSUME NEW p \in Peers, NEW half \in Half, NEW a \in Addresses,
             NEW listens \in BOOLEAN, Identify(p, half, a, listens)
      PROVE  LoopbackObserved'
  <2>1. relay \cap Loopback = {}
        BY DEF TypeOK
  <2> QED BY <1>6, <2>1 DEF Identify, LoopbackObserved
<1>7. ASSUME NEW r \in Relays, ConnectionEstablished(r) \/ ListenViaRelay(r)
      PROVE  LoopbackObserved'
      BY <1>1, <1>7 DEF ConnectionEstablished, ListenViaRelay
<1>8. CASE UNCHANGED vars
      BY <1>1, <1>8 DEF vars
<1> QED BY <1>2, <1>3, <1>4, <1>5, <1>6, <1>7, <1>8 DEF Next, Loops, SwarmEvents

(* Only what a peer observed can make a loopback address external.         *)
THEOREM OnlyObservedLoopback == Spec => []LoopbackObserved
<1>1. Init => LoopbackObserved
      BY DEF Init, LoopbackObserved
<1> QED BY <1>1, TypeInit, TypeNext, LoopbackNext, PTL DEF Spec

-----------------------------------------------------------------------------
(* Circuits: in a relay's loop the flags say no more than what was         *)
(* exchanged since the relay was dialed.                                   *)

HandshakeInv ==
    loop = "relay" =>
       /\ \E r \in Relays : relay = {r}
       /\ told_relay_observed_addr => \E e \in exchanged : e[2] = "sent"
       /\ learned_observed_addr => \E e \in exchanged : e[2] = "received"

(* A half that is exchanged sets its flag, and is remembered. *)
LEMMA IdentifyHandshake ==
    ASSUME TypeOK, HandshakeInv, NEW p \in Peers, NEW half \in Half,
           NEW a \in Addresses, NEW listens \in BOOLEAN,
           Identify(p, half, a, listens)
    PROVE  /\ told_relay_observed_addr' => \E e \in exchanged' : e[2] = "sent"
           /\ learned_observed_addr' => \E e \in exchanged' : e[2] = "received"
           /\ \E r \in Relays : relay = {r}
<1>1. exchanged \subseteq exchanged' /\ <<p, half>> \in exchanged'
      BY DEF Identify
<1>2. <<p, half>>[2] = half
      OBVIOUS
<1> QED BY <1>1, <1>2 DEF Identify, HandshakeInv, Half

LEMMA HandshakeNext == TypeOK /\ HandshakeInv /\ [Next]_vars => HandshakeInv'
<1> SUFFICES ASSUME TypeOK, HandshakeInv, [Next]_vars PROVE HandshakeInv'
    OBVIOUS
<1> USE DEF loopVars, unheard, history
<1>1. ASSUME UNCHANGED <<loop, relay, told_relay_observed_addr, learned_observed_addr,
                         exchanged>>
      PROVE  HandshakeInv'
      BY <1>1 DEF HandshakeInv
<1>2. CASE StartupOver \/ Timeout
      BY <1>2 DEF StartupOver, Timeout, HandshakeInv
<1>3. CASE Elapse \/ Unheeded
      BY <1>1, <1>3 DEF Elapse, Unheeded
<1>4. CASE Dial
  <2>1. Head(commands) \in Relays
        BY <1>4, HeadTailProperties DEF Dial, TypeOK
  <2> QED BY <1>4, <2>1 DEF Dial, Forget, HandshakeInv
<1>5. ASSUME NEW a \in Addresses, NewListenAddr(a) PROVE HandshakeInv'
      BY <1>1, <1>5 DEF NewListenAddr
<1>6. ASSUME NEW nodes \in SUBSET Nodes, Discovered(nodes) \/ Expired(nodes)
      PROVE  HandshakeInv'
      BY <1>1, <1>6 DEF Discovered, Expired
<1>7. ASSUME NEW p \in Others, Upgraded(p) PROVE HandshakeInv'
      BY <1>1, <1>7 DEF Upgraded
<1>8. ASSUME NEW p \in Peers, NEW half \in Half, NEW a \in Addresses,
             NEW listens \in BOOLEAN, Identify(p, half, a, listens)
      PROVE  HandshakeInv'
  <2>1. loop' = "relay" => relay' = relay
        BY <1>8 DEF Identify
  <2> QED BY <1>8, <2>1, IdentifyHandshake DEF HandshakeInv
<1>9. ASSUME NEW r \in Relays, ConnectionEstablished(r) \/ ListenViaRelay(r)
      PROVE  HandshakeInv'
      BY <1>1, <1>9 DEF ConnectionEstablished, ListenViaRelay
<1>10. CASE UNCHANGED vars
      BY <1>1, <1>10 DEF vars
<1> QED BY <1>2, <1>3, <1>4, <1>5, <1>6, <1>7, <1>8, <1>9, <1>10
        DEF Next, Loops, SwarmEvents

Announced ==
    \A r \in Circuits' \ Circuits :
       /\ relay = {r}
       /\ Half \subseteq {e[2] : e \in exchanged'}

LEMMA CircuitStep == TypeOK /\ HandshakeInv /\ [Next]_vars => [Announced]_vars
<1> SUFFICES ASSUME TypeOK, HandshakeInv, Next PROVE Announced
    OBVIOUS
<1> USE DEF loopVars, unheard, history
<1>1. ASSUME UNCHANGED external PROVE Announced
      BY <1>1 DEF Announced, Circuits
<1>2. CASE Loops \/ Elapse \/ Unheeded
      BY <1>1, <1>2 DEF Loops, StartupOver, Dial, Timeout, Elapse, Unheeded
<1>3. ASSUME NEW a \in Addresses, NewListenAddr(a) PROVE Announced
  <2>1. external' \subseteq external \cup {a}
        BY <1>3 DEF NewListenAddr, Announce
  <2> QED BY <2>1 DEF Announced, Circuits
<1>4. ASSUME NEW nodes \in SUBSET Nodes, Discovered(nodes) \/ Expired(nodes)
      PROVE  Announced
      BY <1>1, <1>4 DEF Discovered, Expired
<1>5. ASSUME NEW p \in Others, Upgraded(p) PROVE Announced
      BY <1>1, <1>5 DEF Upgraded
<1>6. ASSUME NEW p \in Peers, NEW half \in Half, NEW a \in Addresses,
             NEW listens \in BOOLEAN, Identify(p, half, a, listens)
      PROVE  Announced
  <2> SUFFICES ASSUME NEW r \in Circuits' \ Circuits
               PROVE  relay = {r} /\ Half \subseteq {e[2] : e \in exchanged'}
      BY DEF Announced
  <2>1. r \in external' /\ r \notin external /\ r \in Relays /\ r # a
        BY DEF Circuits
  <2>2. told_relay_observed_addr' /\ learned_observed_addr' /\ r \in relay
        BY <1>6, <2>1 DEF Identify
  <2> QED BY <1>6, <2>2, IdentifyHandshake DEF Half
<1>7. ASSUME NEW r \in Relays, ConnectionEstablished(r) \/ ListenViaRelay(r)
      PROVE  Announced
      BY <1>1, <1>7 DEF ConnectionEstablished, ListenViaRelay
<1> QED BY <1>2, <1>3, <1>4, <1>5, <1>6, <1>7 DEF Next, SwarmEvents

(* A circuit is announced only in its relay's handshake, with both halves  *)
(* exchanged since that relay was dialed.                                  *)
THEOREM CircuitsExchanged == Spec => CircuitExchanged
<1>1. Init => HandshakeInv
      BY DEF Init, HandshakeInv
<1> QED BY <1>1, TypeInit, TypeNext, HandshakeNext, CircuitStep, PTL
        DEF Spec, CircuitExchanged, Announced
=============================================================================
