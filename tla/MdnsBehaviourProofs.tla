------------------------- MODULE MdnsBehaviourProofs -------------------------
(* Proofs about MdnsBehaviour, for any interfaces and nodes. *)
EXTENDS MdnsBehaviour, Integers, SequenceTheorems, TLAPS

-----------------------------------------------------------------------------
(* Type correctness *)

LEMMA ExpiryTyped ==
    ASSUME NEW s \in Nat, NEW t \in Instants
    PROVE  Expiry(s, t) \in Nat /\ Expiry(s, t) # 0 /\ Later(s, t) \in Nat
  BY MdnsBehaviourAssumption DEF Expiry, Later, Instants, MdnsBehaviourAssumption

LEMMA PushTyped ==
    ASSUME NEW q \in Seq(Event), NEW kind \in {"Discovered", "Expired"},
           NEW nodes \in SUBSET Nodes
    PROVE  Push(q, kind, nodes) \in Seq(Event)
<1>1. CASE nodes = {}
      BY <1>1 DEF Push
<1>2. CASE nodes # {}
  <2>1. [kind |-> kind, nodes |-> nodes] \in Event
        BY <1>2 DEF Event
  <2> QED BY <1>2, <2>1, AppendProperties DEF Push
<1> QED BY <1>1, <1>2

LEMMA QueueTyped == TypeOK => Queue \in Seq(Event)
<1> SUFFICES ASSUME TypeOK PROVE Queue \in Seq(Event)
    OBVIOUS
<1>1. discovered \in SUBSET Nodes /\ Expired \in SUBSET Nodes
      BY DEF TypeOK, present, Expired
<1>2. event_queue \in Seq(Event)
      BY DEF TypeOK
<1>3. Push(event_queue, "Discovered", discovered) \in Seq(Event)
      BY <1>1, <1>2, PushTyped
<1> QED BY <1>1, <1>3, PushTyped DEF Queue

(* What a node that is taken from the channel changes. *)
LEMMA TakeNodeStep ==
    ASSUME TypeOK, TakeNode
    PROVE  \E n \in Nodes, t \in Instants :
              /\ discovered_nodes' =
                    [discovered_nodes EXCEPT ![n] = Expiry(discovered_nodes[n], t)]
              /\ discovered' = IF discovered_nodes[n] = 0 THEN discovered \cup {n}
                                                          ELSE discovered
              /\ heard' = [heard EXCEPT ![n] = Later(@, t)]
              /\ query_response' \in Seq([node : Nodes, expires : Instants])
              /\ present' = present \cup {n}
<1> DEFINE h == Head(query_response)
<1>1. h \in [node : Nodes, expires : Instants]
         /\ query_response' \in Seq([node : Nodes, expires : Instants])
      BY HeadTailProperties DEF TypeOK, TakeNode
<1>2. h.node \in Nodes /\ h.expires \in Instants
      BY <1>1
<1>3. /\ discovered_nodes' = [discovered_nodes EXCEPT
                                 ![h.node] = Expiry(discovered_nodes[h.node], h.expires)]
      /\ discovered' = IF discovered_nodes[h.node] = 0 THEN discovered \cup {h.node}
                                                       ELSE discovered
      /\ heard' = [heard EXCEPT ![h.node] = Later(@, h.expires)]
      BY DEF TakeNode
<1> HIDE DEF h
<1>4. discovered_nodes[h.node] \in Nat
      BY <1>2 DEF TypeOK
<1>5. Expiry(discovered_nodes[h.node], h.expires) # 0
      BY <1>2, <1>4, ExpiryTyped
<1>6. present' = present \cup {h.node}
      BY <1>2, <1>3, <1>5 DEF present, TypeOK
<1> QED BY <1>1, <1>2, <1>3, <1>6

LEMMA TypeNext == TypeOK /\ [Next]_vars => TypeOK'
<1> SUFFICES ASSUME TypeOK, [Next]_vars PROVE TypeOK'
    OBVIOUS
<1> USE DEF bhvVars, envVars, history, toldVars
<1>1. CASE PollStart \/ WatchDone
      BY <1>1 DEF PollStart, WatchDone, TypeOK, present
<1>2. ASSUME NEW i \in Interfaces, IfUp(i) \/ IfDown(i) PROVE TypeOK'
  <2>1. if_events' \in Seq([kind : {"up", "down"}, addr : Interfaces])
    <3>1. if_events # <<>> /\ if_events' = Tail(if_events)
          BY <1>2 DEF IfUp, IfDown, TakeWatched
    <3> QED BY <3>1, HeadTailProperties DEF TypeOK
  <2>2. CASE IfUp(i)
        BY <2>1, <2>2 DEF IfUp, TakeWatched, TypeOK, present
  <2>3. CASE IfDown(i)
        BY <2>1, <2>3 DEF IfDown, TakeWatched, TypeOK, present
  <2> QED BY <1>2, <2>2, <2>3
<1>3. CASE TakeNode
  <2>1. PICK n \in Nodes, t \in Instants :
              /\ discovered_nodes' =
                    [discovered_nodes EXCEPT ![n] = Expiry(discovered_nodes[n], t)]
              /\ discovered' = IF discovered_nodes[n] = 0 THEN discovered \cup {n}
                                                          ELSE discovered
              /\ heard' = [heard EXCEPT ![n] = Later(@, t)]
              /\ query_response' \in Seq([node : Nodes, expires : Instants])
              /\ present' = present \cup {n}
        BY <1>3, TakeNodeStep
  <2>2. discovered_nodes[n] \in Nat /\ heard[n] \in Nat
        BY DEF TypeOK
  <2>3. Expiry(discovered_nodes[n], t) \in Nat /\ Later(heard[n], t) \in Nat
        BY <2>2, ExpiryTyped
  <2>4. discovered_nodes' \in [Nodes -> Nat] /\ heard' \in [Nodes -> Nat]
        BY <2>1, <2>3 DEF TypeOK
  <2>5. discovered' \subseteq present'
        BY <2>1 DEF TypeOK
  <2> QED BY <1>3, <2>1, <2>4, <2>5 DEF TakeNode, TypeOK
<1>4. CASE PollEnd
  <2>1. Queue \in Seq(Event)
        BY QueueTyped
  <2>2. event_queue' \in Seq(Event) /\ told' \in Seq(Event) /\ known' \in SUBSET Nodes
    <3>1. CASE Queue = <<>>
          BY <1>4, <3>1 DEF PollEnd, TypeOK
    <3>2. CASE Queue # <<>>
      <4>1. Head(Queue) \in Event /\ Tail(Queue) \in Seq(Event)
            BY <2>1, <3>2, HeadTailProperties
      <4>2. Append(told, Head(Queue)) \in Seq(Event)
            BY <4>1, AppendProperties DEF TypeOK
      <4>3. Head(Queue).nodes \in SUBSET Nodes
            BY <4>1 DEF Event
      <4> QED BY <1>4, <3>2, <4>1, <4>2, <4>3 DEF PollEnd, Tell, TypeOK
    <3> QED BY <3>1, <3>2
  <2>3. discovered_nodes' \in [Nodes -> Nat]
        BY <1>4 DEF PollEnd, TypeOK
  <2> QED BY <1>4, <2>2, <2>3 DEF PollEnd, TypeOK
<1>5. ASSUME NEW i \in Interfaces, Changed(i) PROVE TypeOK'
  <2>1. [kind |-> IF i \in up THEN "down" ELSE "up", addr |-> i]
           \in [kind : {"up", "down"}, addr : Interfaces]
        OBVIOUS
  <2>2. if_events' \in Seq([kind : {"up", "down"}, addr : Interfaces])
        BY <1>5, <2>1, AppendProperties DEF Changed, TypeOK
  <2> QED BY <1>5, <2>2 DEF Changed, TypeOK, present
<1>6. ASSUME NEW n \in Nodes, NEW t \in Instants, Answer(n, t) PROVE TypeOK'
  <2>1. query_response' \in Seq([node : Nodes, expires : Instants])
        BY <1>6, AppendProperties DEF Answer, TypeOK
  <2> QED BY <1>6, <2>1 DEF Answer, TypeOK, present
<1>7. ASSUME NEW i \in Interfaces, TaskEnds(i) PROVE TypeOK'
      BY <1>7 DEF TaskEnds, TypeOK, present
<1>8. CASE Tick
      BY <1>8 DEF Tick, TypeOK, present
<1>9. CASE UNCHANGED vars
      BY <1>9 DEF vars, TypeOK, present
<1> QED BY <1>1, <1>2, <1>3, <1>4, <1>5, <1>6, <1>7, <1>8, <1>9
        DEF Next, Poll, Environment

LEMMA TypeInit == Init => TypeOK
<1> SUFFICES ASSUME Init PROVE TypeOK
    OBVIOUS
<1>1. /\ event_queue \in Seq(Event) /\ told \in Seq(Event)
      /\ if_events \in Seq([kind : {"up", "down"}, addr : Interfaces])
      /\ query_response \in Seq([node : Nodes, expires : Instants])
      BY EmptySeq DEF Init
<1> QED BY <1>1 DEF Init, TypeOK, present

(* Every variable of the mDNS behaviour keeps its type. *)
THEOREM TypeCorrect == Spec => []TypeOK
  BY TypeInit, TypeNext, PTL DEF Spec

-----------------------------------------------------------------------------
(* A node lasts as long as any answer said: what is kept of it is no less  *)
(* than what was heard, unless that is past.                               *)

KeptLong == \A n \in Nodes : heard[n] <= discovered_nodes[n] \/ heard[n] <= now

LEMMA KeptLongNext == TypeOK /\ KeptLong /\ [Next]_vars => KeptLong'
<1> SUFFICES ASSUME TypeOK, KeptLong, [Next]_vars PROVE KeptLong'
    OBVIOUS
<1> USE DEF bhvVars, envVars, history, toldVars
<1>1. ASSUME UNCHANGED <<heard, discovered_nodes, now>> PROVE KeptLong'
      BY <1>1 DEF KeptLong
<1>2. CASE TakeNode
  <2>1. PICK n \in Nodes, t \in Instants :
              /\ discovered_nodes' =
                    [discovered_nodes EXCEPT ![n] = Expiry(discovered_nodes[n], t)]
              /\ discovered' = IF discovered_nodes[n] = 0 THEN discovered \cup {n}
                                                          ELSE discovered
              /\ heard' = [heard EXCEPT ![n] = Later(@, t)]
              /\ query_response' \in Seq([node : Nodes, expires : Instants])
              /\ present' = present \cup {n}
        BY <1>2, TakeNodeStep
  <2>2. SUFFICES ASSUME NEW m \in Nodes
                 PROVE  heard'[m] <= discovered_nodes'[m] \/ heard'[m] <= now'
        BY DEF KeptLong
  <2>3. now' = now /\ now \in Nat /\ t \in Nat
        BY <1>2 DEF TakeNode, TypeOK, Instants
  <2>4. discovered_nodes[m] \in Nat /\ heard[m] \in Nat
        BY DEF TypeOK
  <2>5. heard[m] <= discovered_nodes[m] \/ heard[m] <= now
        BY DEF KeptLong
  <2>6. CASE m = n
    <3>1. discovered_nodes'[m] = Later(discovered_nodes[m], t)
             /\ heard'[m] = Later(heard[m], t)
          BY <2>1, <2>6 DEF TypeOK, Expiry
    <3> QED BY <2>3, <2>4, <2>5, <3>1 DEF Later
  <2>7. CASE m # n
        BY <2>1, <2>3, <2>5, <2>7 DEF TypeOK
  <2> QED BY <2>6, <2>7
<1>3. CASE PollEnd
  <2> SUFFICES ASSUME NEW n \in Nodes
               PROVE  heard'[n] <= discovered_nodes'[n] \/ heard'[n] <= now'
      BY DEF KeptLong
  <2>1. heard[n] <= discovered_nodes[n] \/ heard[n] <= now
        BY DEF KeptLong
  <2>2. discovered_nodes[n] \in Nat /\ heard[n] \in Nat /\ now \in Nat
        BY DEF TypeOK
  <2>3. /\ heard' = heard /\ now' = now
        /\ discovered_nodes'[n] = IF n \in Expired THEN 0 ELSE discovered_nodes[n]
        BY <1>3 DEF PollEnd
  <2> QED BY <2>1, <2>2, <2>3 DEF Expired
<1>4. CASE Tick
      BY <1>4 DEF Tick, KeptLong, TypeOK
<1>5. CASE PollStart \/ WatchDone \/ \E i \in Interfaces : IfUp(i) \/ IfDown(i)
      BY <1>1, <1>5 DEF PollStart, WatchDone, IfUp, IfDown, TakeWatched
<1>6. CASE \/ \E i \in Interfaces : Changed(i) \/ TaskEnds(i)
           \/ \E n \in Nodes, t \in Instants : Answer(n, t)
      BY <1>1, <1>6 DEF Changed, TaskEnds, Answer
<1>7. CASE UNCHANGED vars
      BY <1>1, <1>7 DEF vars
<1> QED BY <1>2, <1>3, <1>4, <1>5, <1>6, <1>7 DEF Next, Poll, Environment

(* A node is present for as long as any answer said, whatever the others.  *)
THEOREM FreshNodesStay == Spec => []StaysWhileFresh
<1>1. Init => KeptLong
      BY DEF Init, KeptLong
<1>2. TypeOK /\ KeptLong => StaysWhileFresh
  <2> SUFFICES ASSUME TypeOK, KeptLong, NEW n \in Nodes, heard[n] > now
               PROVE  n \in present
      BY DEF StaysWhileFresh
  <2>1. heard[n] \in Nat /\ now \in Nat /\ discovered_nodes[n] \in Nat
        BY DEF TypeOK
  <2>2. heard[n] <= discovered_nodes[n] \/ heard[n] <= now
        BY DEF KeptLong
  <2>3. discovered_nodes[n] # 0
        BY <2>1, <2>2
  <2> QED BY <2>3 DEF present
<1> QED BY <1>1, <1>2, TypeInit, TypeNext, KeptLongNext, PTL DEF Spec

-----------------------------------------------------------------------------
(* Queues as paths *)

(* The elements of s, taken as steps in their order, lead from a to b.     *)
(* R has the steps <<element, before, after>>.                             *)
Path(R, T, s, a, b) ==
    \E f \in [0..Len(s) -> T] :
       /\ f[0] = a /\ f[Len(s)] = b
       /\ \A i \in 1..Len(s) : <<s[i], f[i - 1], f[i]>> \in R

(* Without elements there is no step. *)
LEMMA PathEmpty ==
    ASSUME NEW R, NEW T, NEW a \in T
    PROVE  /\ Path(R, T, <<>>, a, a)
           /\ \A b \in T : Path(R, T, <<>>, a, b) => a = b
<1>1. Len(<<>>) = 0
      BY EmptySeq
<1>2. Path(R, T, <<>>, a, a)
  <2> DEFINE f == [i \in 0..0 |-> a]
  <2>1. f \in [0..0 -> T] /\ f[0] = a
        OBVIOUS
  <2>2. \A i \in 1..0 : <<(<<>>)[i], f[i - 1], f[i]>> \in R
        OBVIOUS
  <2> HIDE DEF f
  <2>3. \E h \in [0..0 -> T] :
           /\ h[0] = a /\ h[0] = a
           /\ \A i \in 1..0 : <<(<<>>)[i], h[i - 1], h[i]>> \in R
        BY <2>1, <2>2
  <2> QED BY <1>1, <2>3 DEF Path
<1>3. ASSUME NEW b \in T, Path(R, T, <<>>, a, b) PROVE a = b
      BY <1>1, <1>3 DEF Path
<1> QED BY <1>2, <1>3

(* One more element, one more step. *)
LEMMA PathAppend ==
    ASSUME NEW S, NEW R, NEW T, NEW s \in Seq(S), NEW e \in S,
           NEW a \in T, NEW b \in T, NEW c \in T,
           Path(R, T, s, a, b), <<e, b, c>> \in R
    PROVE  Path(R, T, Append(s, e), a, c)
<1> DEFINE n == Len(s)
<1> DEFINE t == Append(s, e)
<1>1. /\ t \in Seq(S) /\ Len(t) = n + 1 /\ t[n + 1] = e
      /\ \A i \in 1..n : t[i] = s[i]
      /\ n \in Nat
      BY AppendProperties, LenProperties
<1>2. PICK f \in [0..n -> T] :
         /\ f[0] = a /\ f[n] = b
         /\ \A i \in 1..n : <<s[i], f[i - 1], f[i]>> \in R
      BY DEF Path
<1> DEFINE g == [i \in 0..n + 1 |-> IF i = n + 1 THEN c ELSE f[i]]
<1> HIDE DEF n, t
<1>3. g \in [0..n + 1 -> T]
  <2> SUFFICES ASSUME NEW i \in 0..n + 1, i # n + 1 PROVE f[i] \in T
      OBVIOUS
  <2>1. i \in 0..n
        BY <1>1
  <2> QED BY <2>1
<1>4. g[0] = a /\ g[n + 1] = c /\ g[n] = b
      BY <1>1, <1>2
<1>5. ASSUME NEW i \in 1..n + 1 PROVE <<t[i], g[i - 1], g[i]>> \in R
  <2>1. CASE i = n + 1
    <3>1. i - 1 = n
          BY <1>1, <2>1
    <3> QED BY <1>1, <1>4, <2>1, <3>1
  <2>2. CASE i # n + 1
    <3>1. i \in 1..n /\ i \in 0..n + 1 /\ i - 1 \in 0..n + 1 /\ i - 1 # n + 1
          BY <1>1, <2>2
    <3>2. g[i] = f[i] /\ g[i - 1] = f[i - 1]
          BY <2>2, <3>1
    <3>3. t[i] = s[i] /\ <<s[i], f[i - 1], f[i]>> \in R
          BY <1>1, <1>2, <3>1
    <3> HIDE DEF g
    <3> QED BY <3>2, <3>3
  <2> QED BY <2>1, <2>2
<1> HIDE DEF g
<1> QED BY <1>1, <1>3, <1>4, <1>5 DEF Path, t

(* The first element is the first step. *)
LEMMA PathHeadTail ==
    ASSUME NEW S, NEW R, NEW T, NEW s \in Seq(S), s # <<>>,
           NEW a \in T, NEW b \in T, Path(R, T, s, a, b)
    PROVE  \E c \in T : <<Head(s), a, c>> \in R /\ Path(R, T, Tail(s), c, b)
<1> DEFINE n == Len(s)
<1> DEFINE t == Tail(s)
<1>1. /\ t \in Seq(S) /\ Len(t) = n - 1 /\ Head(s) = s[1]
      /\ \A i \in 1..Len(t) : t[i] = s[i + 1]
      /\ n \in Nat \ {0}
      BY HeadTailProperties, EmptySeq, LenProperties
<1>2. PICK f \in [0..n -> T] :
         /\ f[0] = a /\ f[n] = b
         /\ \A i \in 1..n : <<s[i], f[i - 1], f[i]>> \in R
      BY DEF Path
<1> DEFINE g == [i \in 0..n - 1 |-> f[i + 1]]
<1> HIDE DEF n, t
<1>3. g \in [0..n - 1 -> T]
  <2> SUFFICES ASSUME NEW i \in 0..n - 1 PROVE f[i + 1] \in T
      OBVIOUS
  <2>1. i + 1 \in 0..n
        BY <1>1
  <2> QED BY <2>1
<1>4. g[0] = f[1] /\ g[n - 1] = b
      BY <1>1, <1>2
<1>5. ASSUME NEW i \in 1..n - 1 PROVE <<t[i], g[i - 1], g[i]>> \in R
  <2>1. i + 1 \in 1..n /\ i \in 0..n - 1 /\ i - 1 \in 0..n - 1
        BY <1>1
  <2>2. g[i] = f[i + 1] /\ g[i - 1] = f[i]
        BY <1>1, <2>1
  <2>3. t[i] = s[i + 1] /\ <<s[i + 1], f[i + 1 - 1], f[i + 1]>> \in R
        BY <1>1, <1>2, <2>1
  <2>4. i + 1 - 1 = i
        BY <1>1
  <2> HIDE DEF g
  <2> QED BY <2>2, <2>3, <2>4
<1>6. 1 \in 0..n /\ 1 \in 1..n /\ 1 - 1 = 0
      BY <1>1
<1>7. f[1] \in T /\ <<Head(s), a, f[1]>> \in R
      BY <1>1, <1>2, <1>6
<1> HIDE DEF g
<1>8. Path(R, T, t, f[1], b)
      BY <1>1, <1>3, <1>4, <1>5 DEF Path
<1> QED BY <1>7, <1>8 DEF t

-----------------------------------------------------------------------------
(* The tasks follow the interfaces: some interfaces have been seen up, the *)
(* tasks are theirs, and what the watcher has yet to tell leads from them  *)
(* to those that are up.                                                   *)

IfEvent == [kind : {"up", "down"}, addr : Interfaces]

IfStep ==
    {s \in IfEvent \X (SUBSET Interfaces) \X (SUBSET Interfaces) :
       IF s[1].kind = "up"
          THEN s[1].addr \notin s[2] /\ s[3] = s[2] \cup {s[1].addr}
          ELSE s[1].addr \in s[2] /\ s[3] = s[2] \ {s[1].addr}}

TasksOf(seen) == if_tasks = (seen \ Unfit) \ refused

Watched(seen) == TasksOf(seen) /\ Path(IfStep, SUBSET Interfaces, if_events, seen, up)

TasksInv == running \subseteq if_tasks /\ \E seen \in SUBSET Interfaces : Watched(seen)

(* One event is taken: what it tells is seen. *)
LEMMA TakeWatchedStep ==
    ASSUME TypeOK, TasksInv, NEW i \in Interfaces, NEW kind \in {"up", "down"},
           TakeWatched(kind, i)
    PROVE  \E seen, next \in SUBSET Interfaces :
              /\ TasksOf(seen)
              /\ <<[kind |-> kind, addr |-> i], seen, next>> \in IfStep
              /\ Path(IfStep, SUBSET Interfaces, if_events', next, up')
<1>1. PICK seen \in SUBSET Interfaces : Watched(seen)
      BY DEF TasksInv
<1>2. if_events \in Seq(IfEvent) /\ if_events # <<>> /\ up \in SUBSET Interfaces
      BY DEF TypeOK, IfEvent, TakeWatched
<1>3. PICK next \in SUBSET Interfaces :
         /\ <<Head(if_events), seen, next>> \in IfStep
         /\ Path(IfStep, SUBSET Interfaces, Tail(if_events), next, up)
      BY <1>1, <1>2, PathHeadTail DEF Watched
<1> QED BY <1>1, <1>3 DEF Watched, TakeWatched

LEMMA TasksNext == TypeOK /\ TasksInv /\ [Next]_vars => TasksInv'
<1> SUFFICES ASSUME TypeOK, TasksInv, [Next]_vars PROVE TasksInv'
    OBVIOUS
<1> USE DEF bhvVars, envVars, history, toldVars
<1>1. ASSUME UNCHANGED <<if_tasks, if_events, up, refused>>, running' \subseteq running
      PROVE  TasksInv'
      BY <1>1 DEF TasksInv, Watched, TasksOf
<1>2. ASSUME NEW i \in Interfaces, IfUp(i) PROVE TasksInv'
  <2>1. PICK seen, next \in SUBSET Interfaces :
              /\ TasksOf(seen)
              /\ <<[kind |-> "up", addr |-> i], seen, next>> \in IfStep
              /\ Path(IfStep, SUBSET Interfaces, if_events', next, up')
        BY <1>2, TakeWatchedStep DEF IfUp
  <2>2. i \notin seen /\ next = seen \cup {i}
        BY <2>1 DEF IfStep
  <2>3. TasksOf(next)' /\ running' \subseteq if_tasks'
        BY <1>2, <2>1, <2>2 DEF IfUp, TasksOf, TasksInv
  <2> QED BY <2>1, <2>3 DEF TasksInv, Watched
<1>3. ASSUME NEW i \in Interfaces, IfDown(i) PROVE TasksInv'
  <2>1. PICK seen, next \in SUBSET Interfaces :
              /\ TasksOf(seen)
              /\ <<[kind |-> "down", addr |-> i], seen, next>> \in IfStep
              /\ Path(IfStep, SUBSET Interfaces, if_events', next, up')
        BY <1>3, TakeWatchedStep DEF IfDown
  <2>2. i \in seen /\ next = seen \ {i}
        BY <2>1 DEF IfStep
  <2>3. TasksOf(next)' /\ running' \subseteq if_tasks'
        BY <1>3, <2>1, <2>2 DEF IfDown, TasksOf, TasksInv
  <2> QED BY <2>1, <2>3 DEF TasksInv, Watched
<1>4. ASSUME NEW i \in Interfaces, Changed(i) PROVE TasksInv'
  <2>1. PICK seen \in SUBSET Interfaces : Watched(seen)
        BY DEF TasksInv
  <2> DEFINE e == [kind |-> IF i \in up THEN "down" ELSE "up", addr |-> i]
  <2>2. e \in IfEvent /\ if_events \in Seq(IfEvent)
        BY DEF IfEvent, TypeOK
  <2>3. up \in SUBSET Interfaces /\ up' \in SUBSET Interfaces
        BY <1>4 DEF Changed, TypeOK
  <2>4. <<e, up, up'>> \in IfStep
    <3>1. <<e, up, up'>> \in IfEvent \X (SUBSET Interfaces) \X (SUBSET Interfaces)
          BY <2>2, <2>3
    <3>2. IF e.kind = "up" THEN e.addr \notin up /\ up' = up \cup {e.addr}
                           ELSE e.addr \in up /\ up' = up \ {e.addr}
          BY <1>4 DEF Changed
    <3> HIDE DEF e
    <3> QED BY <3>1, <3>2 DEF IfStep
  <2>5. if_events' = Append(if_events, e)
        BY <1>4 DEF Changed
  <2> HIDE DEF e
  <2>6. Path(IfStep, SUBSET Interfaces, if_events, seen, up)
        BY <2>1 DEF Watched
  <2>7. Path(IfStep, SUBSET Interfaces, if_events', seen, up')
        BY <2>2, <2>3, <2>4, <2>5, <2>6, PathAppend
  <2> QED BY <1>4, <2>1, <2>7 DEF Changed, TasksInv, Watched, TasksOf
<1>5. ASSUME NEW i \in Interfaces, TaskEnds(i) PROVE TasksInv'
      BY <1>1, <1>5 DEF TaskEnds
<1>6. CASE \/ PollStart \/ WatchDone \/ TakeNode \/ PollEnd \/ Tick
           \/ \E n \in Nodes, t \in Instants : Answer(n, t)
      BY <1>1, <1>6 DEF PollStart, WatchDone, TakeNode, PollEnd, Tick, Answer
<1>7. CASE UNCHANGED vars
      BY <1>1, <1>7 DEF vars
<1> QED BY <1>2, <1>3, <1>4, <1>5, <1>6, <1>7 DEF Next, Poll, Environment

(* No task runs that the behaviour could not abort, and once all changes   *)
(* are told the tasks are those of the fit interfaces that are up.         *)
THEOREM TasksFollowInterfaces == Spec => []TasksFollow
<1>1. Init => TasksInv
  <2> SUFFICES ASSUME Init PROVE TasksInv
      OBVIOUS
  <2>1. Path(IfStep, SUBSET Interfaces, <<>>, {}, {})
        BY PathEmpty
  <2> QED BY <2>1 DEF Init, TasksInv, Watched, TasksOf
<1>2. TypeOK /\ TasksInv => TasksFollow
  <2> SUFFICES ASSUME TypeOK, TasksInv, if_events = <<>>
               PROVE  if_tasks = (up \ Unfit) \ refused
      BY DEF TasksInv, TasksFollow
  <2>1. PICK seen \in SUBSET Interfaces : Watched(seen)
        BY DEF TasksInv
  <2>2. Path(IfStep, SUBSET Interfaces, <<>>, seen, up) /\ up \in SUBSET Interfaces
        BY <2>1 DEF Watched, TypeOK
  <2>3. seen = up
        BY <2>2, PathEmpty
  <2> QED BY <2>1, <2>3 DEF Watched, TasksOf
<1> QED BY <1>1, <1>2, TypeInit, TypeNext, TasksNext, PTL DEF Spec

-----------------------------------------------------------------------------
(* The events implement PeerPresence: those in the queue lead from what    *)
(* the swarm knows to what is present, but for what this poll has found.   *)

PresenceStep ==
    {s \in Event \X (SUBSET Nodes) \X (SUBSET Nodes) :
       IF s[1].kind = "Discovered"
          THEN s[1].nodes \cap s[2] = {} /\ s[3] = s[2] \cup s[1].nodes
          ELSE s[1].nodes \subseteq s[2] /\ s[3] = s[2] \ s[1].nodes}

Leads(q, a, b) == Path(PresenceStep, SUBSET Nodes, q, a, b)

QueueInv == Leads(event_queue, known, present \ discovered)

(* Pushing nodes that appear or disappear. *)
LEMMA PushLeads ==
    ASSUME NEW q \in Seq(Event), NEW kind \in {"Discovered", "Expired"},
           NEW nodes \in SUBSET Nodes,
           NEW a \in SUBSET Nodes, NEW b \in SUBSET Nodes, NEW c \in SUBSET Nodes,
           Leads(q, a, b),
           IF kind = "Discovered" THEN nodes \cap b = {} /\ c = b \cup nodes
                                  ELSE nodes \subseteq b /\ c = b \ nodes
    PROVE  Leads(Push(q, kind, nodes), a, c)
<1>1. CASE nodes = {}
      BY <1>1 DEF Push
<1>2. CASE nodes # {}
  <2> DEFINE e == [kind |-> kind, nodes |-> nodes]
  <2>1. e \in Event
        BY <1>2 DEF Event
  <2>2. <<e, b, c>> \in PresenceStep
    <3>1. IF e.kind = "Discovered" THEN e.nodes \cap b = {} /\ c = b \cup e.nodes
                                   ELSE e.nodes \subseteq b /\ c = b \ e.nodes
          OBVIOUS
    <3> HIDE DEF e
    <3>2. <<e, b, c>> \in Event \X (SUBSET Nodes) \X (SUBSET Nodes)
          BY <2>1
    <3> QED BY <3>1, <3>2 DEF PresenceStep
  <2> HIDE DEF e
  <2>3. Leads(Append(q, e), a, c)
        BY <2>1, <2>2, PathAppend DEF Leads
  <2> QED BY <1>2, <2>3 DEF Push, e
<1> QED BY <1>1, <1>2

(* At the end of a poll what is queued leads to what is present then. *)
LEMMA QueueLeads ==
    ASSUME TypeOK, QueueInv, PollEnd
    PROVE  Leads(Queue, known, present') /\ present' = present \ Expired
<1>1. /\ discovered \in SUBSET Nodes /\ discovered \subseteq present
      /\ Expired \in SUBSET Nodes /\ Expired \subseteq present
      /\ present \in SUBSET Nodes /\ known \in SUBSET Nodes
      /\ event_queue \in Seq(Event)
      BY DEF TypeOK, present, Expired
<1>2. Leads(Push(event_queue, "Discovered", discovered), known, present)
  <2>1. (present \ discovered) \cup discovered = present
        BY <1>1
  <2> QED BY <1>1, <2>1, PushLeads DEF QueueInv
<1>3. Push(event_queue, "Discovered", discovered) \in Seq(Event)
      BY <1>1, PushTyped
<1>4. Leads(Queue, known, present \ Expired)
      BY <1>1, <1>2, <1>3, PushLeads DEF Queue
<1>5. present' = present \ Expired
      BY DEF PollEnd, TypeOK, present
<1> QED BY <1>4, <1>5

(* The event that a poll returns is a step of PeerPresence. *)
LEMMA PollEndPresents ==
    ASSUME TypeOK, QueueInv, PollEnd
    PROVE  QueueInv' /\ (Presence!Next \/ UNCHANGED <<known, told>>)
<1>1. Leads(Queue, known, present') /\ present' \in SUBSET Nodes
      BY QueueLeads DEF present
<1>2. discovered' = {} /\ known \in SUBSET Nodes
      BY DEF PollEnd, TypeOK
<1>3. CASE Queue = <<>>
  <2>1. event_queue' = event_queue /\ UNCHANGED <<known, told>>
        BY <1>3 DEF PollEnd, toldVars
  <2>2. known = present'
        BY <1>1, <1>2, <1>3, PathEmpty DEF Leads
  <2>3. event_queue = <<>>
    <3>1. event_queue \in Seq(Event)
          BY DEF TypeOK
    <3>2. \A q \in Seq(Event), e \in Event : Append(q, e) # <<>>
          BY AppendProperties, EmptySeq
    <3>3. ASSUME NEW q \in Seq(Event), NEW kind \in {"Discovered", "Expired"},
                 NEW nodes \in SUBSET Nodes, Push(q, kind, nodes) = <<>>
          PROVE  q = <<>>
      <4>1. CASE nodes = {}
            BY <3>3, <4>1 DEF Push
      <4>2. CASE nodes # {}
        <5>1. [kind |-> kind, nodes |-> nodes] \in Event
              BY <4>2 DEF Event
        <5> QED BY <3>2, <3>3, <4>2, <5>1 DEF Push
      <4> QED BY <4>1, <4>2
    <3>4. discovered \in SUBSET Nodes /\ Expired \in SUBSET Nodes
          BY DEF TypeOK, present, Expired
    <3>5. Push(event_queue, "Discovered", discovered) = <<>>
          BY <1>3, <3>1, <3>3, <3>4, PushTyped DEF Queue
    <3> QED BY <3>1, <3>3, <3>4, <3>5
  <2>4. present' \ {} = present'
        OBVIOUS
  <2>5. Leads(<<>>, known', present')
        BY <1>1, <1>3, <2>1
  <2> QED BY <1>2, <2>1, <2>3, <2>4, <2>5 DEF QueueInv
<1>4. CASE Queue # <<>>
  <2> DEFINE e == Head(Queue)
  <2>1. Queue \in Seq(Event) /\ e \in Event
        BY <1>4, QueueTyped, HeadTailProperties
  <2>2. PICK c \in SUBSET Nodes :
           <<e, known, c>> \in PresenceStep /\ Leads(Tail(Queue), c, present')
        BY <1>1, <1>2, <1>4, <2>1, PathHeadTail DEF Leads
  <2>3. event_queue' = Tail(Queue) /\ Tell(e)
        BY <1>4 DEF PollEnd
  <2> HIDE DEF e
  <2>4. /\ e.nodes \in SUBSET Nodes /\ e.nodes # {}
        /\ e.kind \in {"Discovered", "Expired"}
        /\ e = [kind |-> e.kind, nodes |-> e.nodes]
        BY <2>1 DEF Event
  <2>5. known' = c
        BY <2>2, <2>3 DEF Tell, PresenceStep
  <2>6. QueueInv'
        BY <1>2, <2>2, <2>3, <2>5 DEF QueueInv
  <2>7. CASE e.kind = "Discovered"
    <3>1. e.nodes \cap known = {} /\ known' = known \cup e.nodes
          BY <2>2, <2>5, <2>7 DEF PresenceStep
    <3>2. told' = Append(told, [kind |-> "Discovered", nodes |-> e.nodes])
          BY <2>3, <2>4, <2>7 DEF Tell
    <3>3. Presence!Discover(e.nodes)
          BY <2>4, <3>1, <3>2 DEF Presence!Discover
    <3> QED BY <2>4, <2>6, <3>3 DEF Presence!Next
  <2>8. CASE e.kind = "Expired"
    <3>1. e.nodes \subseteq known /\ known' = known \ e.nodes
          BY <2>2, <2>5, <2>8 DEF PresenceStep
    <3>2. told' = Append(told, [kind |-> "Expired", nodes |-> e.nodes])
          BY <2>3, <2>4, <2>8 DEF Tell
    <3>3. Presence!Expire(e.nodes)
          BY <2>4, <3>1, <3>2 DEF Presence!Expire
    <3> QED BY <2>4, <2>6, <3>3 DEF Presence!Next
  <2> QED BY <2>4, <2>7, <2>8
<1> QED BY <1>3, <1>4

LEMMA PresenceNext ==
    TypeOK /\ QueueInv /\ [Next]_vars
        => QueueInv' /\ (Presence!Next \/ UNCHANGED <<known, told>>)
<1> SUFFICES ASSUME TypeOK, QueueInv, [Next]_vars
             PROVE  QueueInv' /\ (Presence!Next \/ UNCHANGED <<known, told>>)
    OBVIOUS
<1> USE DEF bhvVars, envVars, history, toldVars
<1>1. ASSUME UNCHANGED <<known, told, event_queue, discovered_nodes, discovered>>
      PROVE  QueueInv' /\ UNCHANGED <<known, told>>
      BY <1>1 DEF QueueInv, present
<1>2. CASE TakeNode
  <2>1. PICK n \in Nodes, t \in Instants :
              /\ discovered_nodes' =
                    [discovered_nodes EXCEPT ![n] = Expiry(discovered_nodes[n], t)]
              /\ discovered' = IF discovered_nodes[n] = 0 THEN discovered \cup {n}
                                                          ELSE discovered
              /\ heard' = [heard EXCEPT ![n] = Later(@, t)]
              /\ query_response' \in Seq([node : Nodes, expires : Instants])
              /\ present' = present \cup {n}
        BY <1>2, TakeNodeStep
  <2>2. n \in present <=> discovered_nodes[n] # 0
        BY DEF present
  <2>3. present' \ discovered' = present \ discovered
        BY <2>1, <2>2 DEF TypeOK
  <2> QED BY <1>2, <2>3 DEF TakeNode, QueueInv
<1>3. CASE PollEnd
      BY <1>3, PollEndPresents
<1>4. CASE PollStart \/ WatchDone \/ \E i \in Interfaces : IfUp(i) \/ IfDown(i)
      BY <1>1, <1>4 DEF PollStart, WatchDone, IfUp, IfDown, TakeWatched
<1>5. CASE \/ \E i \in Interfaces : Changed(i) \/ TaskEnds(i)
           \/ \E n \in Nodes, t \in Instants : Answer(n, t)
           \/ Tick
      BY <1>1, <1>5 DEF Changed, TaskEnds, Answer, Tick
<1>6. CASE UNCHANGED vars
      BY <1>1, <1>6 DEF vars
<1> QED BY <1>2, <1>3, <1>4, <1>5, <1>6 DEF Next, Poll, Environment

(* The queue leads from what the swarm knows to what is present. *)
LEMMA QueueAlways == Spec => [](TypeOK /\ QueueInv)
<1>1. Init => QueueInv
  <2> SUFFICES ASSUME Init PROVE QueueInv
      OBVIOUS
  <2>1. present \ discovered = {}
        BY DEF Init, present
  <2>2. Leads(<<>>, {}, {})
        BY PathEmpty DEF Leads
  <2> QED BY <2>1, <2>2 DEF Init, QueueInv
<1> QED BY <1>1, TypeInit, TypeNext, PresenceNext, PTL DEF Spec

(* With no event waiting, the swarm knows the nodes that are present.      *)
THEOREM SwarmKnowsAtRest == Spec => []KnownAtRest
<1>1. TypeOK /\ QueueInv => KnownAtRest
  <2> SUFFICES ASSUME TypeOK, QueueInv, event_queue = <<>>
               PROVE  known = present \ discovered
      BY DEF KnownAtRest
  <2>1. known \in SUBSET Nodes /\ present \ discovered \in SUBSET Nodes
        BY DEF TypeOK, present
  <2>2. Leads(<<>>, known, present \ discovered)
        BY DEF QueueInv
  <2>3. \A b \in SUBSET Nodes : Leads(<<>>, known, b) => known = b
        BY <2>1, PathEmpty DEF Leads
  <2> QED BY <2>1, <2>2, <2>3
<1> QED BY <1>1, QueueAlways, PTL

(* The events of the mDNS behaviour are those of PeerPresence: no known    *)
(* node is discovered and no unknown one expires.                          *)
THEOREM ImplementsPeerPresence == Spec => IsPeerPresence
<1>1. Init => Presence!Init
      BY DEF Init, Presence!Init
<1>2. TypeOK /\ QueueInv /\ [Next]_vars => [Presence!Next]_<<known, told>>
      BY PresenceNext
<1> QED BY <1>1, <1>2, QueueAlways, PTL DEF Spec, IsPeerPresence, Presence!Spec
=============================================================================
