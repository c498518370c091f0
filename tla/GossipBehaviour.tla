--------------------------- MODULE GossipBehaviour ---------------------------
(***************************************************************************)
(* The gossipsub wrapper of src/src/behaviours/gossip_bhv.rs: it keeps the *)
(* messages that gossipsub refuses to publish and tries them again, round  *)
(* robin, with a backoff between the rounds; it records subscriptions; and *)
(* it hands received messages to the swarm one per poll.                   *)
(*                                                                         *)
(* Commands reach it between two polls (phase "idle").  `poll` drains the  *)
(* queue (phase "drain"), then listens to gossipsub (phase "events").      *)
(* gossipsub is external: whether somebody can be reached, which contents  *)
(* it remembers as seen, and what it receives are the environment's doing. *)
(***************************************************************************)
EXTENDS Naturals, Sequences, Queues

CONSTANTS Msgs,        (* the publish requests clients may make               *)
          Contents,    (* message contents                                    *)
          Content,     (* function: the contents of each request              *)
          Oversized,   (* requests gossipsub refuses for good                 *)
          Topics,      (* topics clients subscribe to                         *)
          MaxReceived  (* bound on the messages received from peers           *)

ASSUME GossipAssumption ==
    /\ Content \in [Msgs -> Contents]
    /\ Oversized \subseteq Msgs
    /\ MaxReceived \in Nat

VARIABLES
    phase,             (* "idle", "drain" or "events"                         *)
    enable_republish,  (* from the configuration                              *)
    in_progress,       (* in_progress_messages                                *)
    waiting,           (* the backoff has not expired                         *)
    asked, sent        (* history: requests made, times each was transmitted  *)
outVars == <<in_progress, waiting, asked, sent>>

VARIABLES
    reach,             (* gossipsub: is any peer there to publish to?         *)
    seen               (* gossipsub: contents in its duplicate cache          *)
netVars == <<reach, seen>>

VARIABLES
    subscriptions,     (* Behaviour::subsriptions, and gossipsub's own        *)
    event_queue,       (* numbers of messages to hand to the swarm            *)
    received,          (* messages gossipsub has handed over so far           *)
    emitted            (* history: messages handed to the swarm               *)
inVars == <<subscriptions, event_queue, received, emitted>>

vars == <<phase, enable_republish, outVars, netVars, inVars>>

Init ==
    /\ phase = "idle" /\ enable_republish \in BOOLEAN
    /\ in_progress = <<>> /\ waiting = FALSE
    /\ asked = {} /\ sent = [m \in Msgs |-> 0]
    /\ reach = FALSE /\ seen = {}
    /\ subscriptions = {}
    /\ event_queue = <<>> /\ received = 0 /\ emitted = <<>>

-----------------------------------------------------------------------------
(* gossipsub.publish: refuses a message too large, one whose id it has seen *)
(* and any message while nobody is there to receive it.  The id configured  *)
(* in build_swarm is a hash of the data alone.                              *)
Accepts(m) == reach /\ m \notin Oversized /\ Content[m] \notin seen

Transmit(m) ==
    /\ Accepts(m)
    /\ sent' = [sent EXCEPT ![m] = sent[m] + 1]
    /\ seen' = seen \cup {Content[m]}

-----------------------------------------------------------------------------
(* Commands of the swarm task *)

Publish(m) ==
    /\ phase = "idle" /\ m \notin asked
    /\ asked' = asked \cup {m}
    /\ \/ Transmit(m) /\ UNCHANGED in_progress
       \/ /\ ~Accepts(m)
          /\ in_progress' = IF enable_republish THEN Append(in_progress, m)
                                                ELSE in_progress
          /\ UNCHANGED <<sent, seen>>
    /\ UNCHANGED <<phase, enable_republish, waiting, reach, inVars>>

Subscribe(t) ==
    /\ phase = "idle" /\ t \notin subscriptions
    /\ subscriptions' = subscriptions \cup {t}
    /\ UNCHANGED <<phase, enable_republish, outVars, netVars, event_queue,
                   received, emitted>>

Unsubscribe(t) ==
    /\ phase = "idle" /\ t \in subscriptions
    /\ subscriptions' = subscriptions \ {t}
    /\ UNCHANGED <<phase, enable_republish, outVars, netVars, event_queue,
                   received, emitted>>

-----------------------------------------------------------------------------
(* poll *)

PollStart ==
    /\ phase = "idle"
    /\ phase' = IF enable_republish /\ ~waiting THEN "drain" ELSE "events"
    /\ UNCHANGED <<enable_republish, outVars, netVars, inVars>>

(* Mutations of DrainStep: the refused message is dropped; it goes back to *)
(* the front.                                                              *)
DrainStepDrops ==
    /\ phase = "drain" /\ in_progress # <<>>
    /\ in_progress' = Tail(in_progress)
    /\ \/ Transmit(Head(in_progress)) /\ UNCHANGED <<phase, waiting>>
       \/ /\ ~Accepts(Head(in_progress))
          /\ phase' = "events" /\ waiting' = TRUE
          /\ UNCHANGED <<sent, seen>>
    /\ UNCHANGED <<enable_republish, asked, reach, inVars>>
DrainStepToFront ==
    /\ phase = "drain" /\ in_progress # <<>>
    /\ \/ /\ Transmit(Head(in_progress))
          /\ in_progress' = Tail(in_progress)
          /\ UNCHANGED <<phase, waiting>>
       \/ /\ ~Accepts(Head(in_progress))
          /\ phase' = "events" /\ waiting' = TRUE
          /\ UNCHANGED <<in_progress, sent, seen>>
    /\ UNCHANGED <<enable_republish, asked, reach, inVars>>

(* drain_publish: publish from the front until the queue is empty or a     *)
(* message is refused; that one goes to the back and ends the round.       *)
(* Either way the backoff starts, reset or doubled.                        *)
DrainStep ==
    /\ phase = "drain" /\ in_progress # <<>>
    /\ LET m == Head(in_progress) IN
       \/ /\ Transmit(m)
          /\ in_progress' = Tail(in_progress)
          /\ UNCHANGED <<phase, waiting>>
       \/ /\ ~Accepts(m)
          /\ in_progress' = Append(Tail(in_progress), m)
          /\ phase' = "events" /\ waiting' = TRUE
          /\ UNCHANGED <<sent, seen>>
    /\ UNCHANGED <<enable_republish, asked, reach, inVars>>

DrainDone ==
    /\ phase = "drain" /\ in_progress = <<>>
    /\ phase' = "events" /\ waiting' = TRUE
    /\ UNCHANGED <<enable_republish, in_progress, asked, sent, netVars, inVars>>

(* gossipsub reports a message of a topic it is subscribed to, with        *)
(* contents it had not seen.                                               *)
Receive(d) ==
    /\ phase = "events" /\ subscriptions # {} /\ d \notin seen /\ received < MaxReceived
    /\ seen' = seen \cup {d}
    /\ received' = received + 1
    /\ event_queue' = Append(event_queue, received')
    /\ UNCHANGED <<phase, enable_republish, outVars, reach, subscriptions,
                   emitted>>

(* gossipsub has something for the swarm: poll returns it at once, before  *)
(* the messages of event_queue.                                            *)
ReturnEarly ==
    /\ phase = "events"
    /\ phase' = "idle"
    /\ UNCHANGED <<enable_republish, outVars, netVars, inVars>>

(* Mutation of ReturnEvent: pop() for remove(0). *)
ReturnNewestEvent ==
    /\ phase = "events" /\ event_queue # <<>>
    /\ phase' = "idle"
    /\ emitted' = Append(emitted, event_queue[Len(event_queue)])
    /\ event_queue' = SubSeq(event_queue, 1, Len(event_queue) - 1)
    /\ UNCHANGED <<enable_republish, outVars, netVars, subscriptions, received>>
(* gossipsub is pending: one message, if any, is handed to the swarm. *)
ReturnEvent ==
    /\ phase = "events" /\ event_queue # <<>>
    /\ phase' = "idle"
    /\ emitted' = Append(emitted, Head(event_queue))
    /\ event_queue' = Tail(event_queue)
    /\ UNCHANGED <<enable_republish, outVars, netVars, subscriptions, received>>

-----------------------------------------------------------------------------
(* The environment *)

BackoffExpires ==
    /\ waiting /\ waiting' = FALSE
    /\ UNCHANGED <<phase, enable_republish, in_progress, asked, sent, netVars, inVars>>

(* Peers come and go between two polls. *)
PeersChange ==
    /\ phase = "idle" /\ reach' = ~reach
    /\ UNCHANGED <<phase, enable_republish, outVars, seen, inVars>>

(* An entry of the duplicate cache gets too old. *)
Forget(d) ==
    /\ d \in seen /\ seen' = seen \ {d}
    /\ UNCHANGED <<phase, enable_republish, outVars, reach, inVars>>

-----------------------------------------------------------------------------
Command == \/ \E m \in Msgs : Publish(m)
           \/ \E t \in Topics : Subscribe(t) \/ Unsubscribe(t)

Poll == PollStart \/ DrainStep \/ DrainDone

Environment == BackoffExpires \/ PeersChange \/ \E d \in Contents : Forget(d)

Next == \/ Command \/ Poll \/ Environment
        \/ \E d \in Contents : Receive(d)
        \/ ReturnEarly \/ ReturnEvent

Spec == Init /\ [][Next]_vars

(* The swarm polls again and again and each poll ends; the backoff and the *)
(* cache entries expire.                                                   *)
Fairness ==
    /\ WF_vars(Poll)
    /\ WF_vars(ReturnEarly)
    /\ WF_vars(BackoffExpires)
    /\ \A d \in Contents : WF_vars(Forget(d))

FairSpec == Spec /\ Fairness

-----------------------------------------------------------------------------
(* Properties *)

(* Every variable keeps its type. *)
TypeOK ==
    /\ phase \in {"idle", "drain", "events"}
    /\ enable_republish \in BOOLEAN
    /\ in_progress \in Seq(Msgs) /\ waiting \in BOOLEAN
    /\ asked \subseteq Msgs /\ sent \in [Msgs -> Nat]
    /\ reach \in BOOLEAN /\ seen \subseteq Contents
    /\ subscriptions \subseteq Topics
    /\ event_queue \in Seq(Nat) /\ received \in Nat /\ emitted \in Seq(Nat)

(* A request is transmitted at most once, and with republishing enabled it *)
(* is transmitted or waits in the queue, once: rounds that end halfway,    *)
(* refusals and rotations neither lose nor double it.  Without it nothing  *)
(* is kept that a later poll could send late.                              *)
OnceOrQueued ==
    /\ ~enable_republish => in_progress = <<>>
    /\ Distinct(in_progress)
    /\ \A m \in Msgs :
          /\ sent[m] <= 1
          /\ m \in Elems(in_progress) => sent[m] = 0 /\ m \in asked
          /\ enable_republish /\ m \in asked /\ sent[m] = 0 =>
                m \in Elems(in_progress)

(* Round by round the queue is an Outbox: a request that was refused is    *)
(* pending, never forgotten once it is kept nor kept when it should not    *)
(* be, until the one step that transmits it.                               *)
Out == INSTANCE Outbox WITH
           Requests <- Msgs, keeps <- enable_republish,
           pending <- Elems(in_progress), answers <- sent
IsOutbox == Out!Spec

(* Messages reach the swarm in the order gossipsub reported them, none     *)
(* lost and none twice, although one poll may report several and return    *)
(* before the queue is looked at.                                          *)
ReceivedInOrder == emitted \o event_queue = [i \in 1..received |-> i]

(* Once there is somebody to publish to for good, every queued message     *)
(* gets out in the end, though messages that never will stay in the queue  *)
(* with it and others of the same contents are sent.                       *)
Republished ==
    <>[]reach => \A m \in Msgs \ Oversized :
                    m \in Elems(in_progress) ~> m \notin Elems(in_progress)
=============================================================================
