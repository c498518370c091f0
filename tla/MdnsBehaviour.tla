---------------------------- MODULE MdnsBehaviour ----------------------------
(***************************************************************************)
(* The mDNS behaviour of src/src/behaviours/mdns_bhv.rs: it runs one task  *)
(* per network interface, takes from a channel what the tasks discover,    *)
(* keeps each node until it expires, and hands out one event per poll.     *)
(*                                                                         *)
(* A node is a peer with one of its addresses.  The tasks (MdnsInterface)  *)
(* run beside it and put nodes into the channel at any time; the expiry is *)
(* computed when a packet comes in and may be past when the node is taken. *)
(* The watcher of interfaces is external; it knows one network for each    *)
(* address.                                                                *)
(***************************************************************************)
EXTENDS Naturals, Sequences

CONSTANTS Interfaces,      (* addresses of interfaces                        *)
          Unfit,           (* loopback, or of the other IP version           *)
          Nodes,
          MaxTime,         (* bound on the clock; instants are 1 .. MaxTime  *)
          MaxChanges,      (* bound on the changes of interfaces             *)
          MaxAnswers       (* bound on the nodes the tasks discover          *)

ASSUME MdnsBehaviourAssumption ==
    Unfit \subseteq Interfaces /\ MaxTime \in Nat /\ MaxChanges \in Nat
        /\ MaxAnswers \in Nat

VARIABLES
    phase,             (* "idle", or where in poll: "watch", "drain"         *)
    if_tasks,
    discovered_nodes,  (* the instant each node expires, 0 for no such node  *)
    discovered,        (* those poll has found new                           *)
    event_queue
bhvVars == <<phase, if_tasks, discovered_nodes, discovered, event_queue>>

VARIABLES
    if_events,         (* what the watcher has not reported yet              *)
    running,           (* tasks that are neither aborted nor ended           *)
    aborted,           (* tasks that may still be at work when aborted       *)
    query_response,    (* the channel                                        *)
    now
envVars == <<if_events, running, aborted, query_response, now>>

VARIABLES
    up, refused,       (* history: interfaces that are up; those whose       *)
                       (* sockets could not be made                          *)
    changes, answers,  (* history: changes of interfaces, nodes discovered   *)
    heard,             (* history: the last instant a node was said to last  *)
    known, told        (* history: nodes the swarm knows by the events, and  *)
                       (* the events it was told, in order                   *)
toldVars == <<known, told>>
history == <<up, refused, changes, answers, heard, toldVars>>

vars == <<bhvVars, envVars, history>>

Instants == 1 .. MaxTime

Event == [kind : {"Discovered", "Expired"}, nodes : (SUBSET Nodes) \ {{}}]

Init ==
    /\ phase = "idle" /\ if_tasks = {}
    /\ discovered_nodes = [n \in Nodes |-> 0]
    /\ discovered = {} /\ event_queue = <<>>
    /\ if_events = <<>> /\ running = {} /\ aborted = {}
    /\ query_response = <<>> /\ now = 1
    /\ up = {} /\ refused = {} /\ changes = 0 /\ answers = 0
    /\ heard = [n \in Nodes |-> 0] /\ known = {} /\ told = <<>>

Later(s, t) == IF s < t THEN t ELSE s

present == {n \in Nodes : discovered_nodes[n] # 0}

-----------------------------------------------------------------------------
(* poll *)

PollStart ==
    /\ phase = "idle" /\ phase' = "watch"
    /\ UNCHANGED <<if_tasks, discovered_nodes, discovered, event_queue, envVars,
                   history>>

TakeWatched(kind, i) ==
    /\ phase = "watch" /\ if_events # <<>>
    /\ Head(if_events) = [kind |-> kind, addr |-> i]
    /\ if_events' = Tail(if_events)
    /\ UNCHANGED <<phase, discovered_nodes, discovered, event_queue,
                   query_response, now, up, changes, answers, heard,
                   toldVars>>

(* An interface that comes up gets a task, unless it has one or is unfit;  *)
(* when its sockets cannot be made, that is logged.                        *)
IfUp(i) ==
    /\ TakeWatched("up", i)
    /\ \/ /\ i \notin Unfit /\ i \notin if_tasks
          /\ if_tasks' = if_tasks \cup {i} /\ running' = running \cup {i}
          /\ refused' = refused \ {i}
       \/ /\ i \notin Unfit /\ i \notin if_tasks
          /\ refused' = refused \cup {i}
          /\ UNCHANGED <<if_tasks, running>>
       \/ /\ i \in Unfit \cup if_tasks
          /\ UNCHANGED <<if_tasks, running, refused>>
    /\ UNCHANGED aborted

(* Mutation of IfDown: the handle is dropped, the task goes on. *)
IfDownDetached(i) ==
    /\ TakeWatched("down", i)
    /\ if_tasks' = if_tasks \ {i}
    /\ UNCHANGED <<running, aborted, refused>>

(* The task of an interface that goes down is aborted: it gets to the end  *)
(* of what it is doing.                                                    *)
IfDown(i) ==
    /\ TakeWatched("down", i)
    /\ if_tasks' = if_tasks \ {i}
    /\ running' = running \ {i}
    /\ aborted' = aborted \cup (running \cap {i})
    /\ UNCHANGED refused

WatchDone ==
    /\ phase = "watch" /\ if_events = <<>>
    /\ phase' = "drain"
    /\ UNCHANGED <<if_tasks, discovered_nodes, discovered, event_queue, envVars,
                   history>>

(* Mutation of Expiry: the last answer counts. *)
ExpiryLast(old, new) == new

Expiry(old, new) == Later(old, new)

(* A node is taken from the channel. *)
TakeNode ==
    /\ phase = "drain" /\ query_response # <<>>
    /\ query_response' = Tail(query_response)
    /\ LET n == Head(query_response).node
           t == Head(query_response).expires
       IN /\ discovered_nodes' =
                 [discovered_nodes EXCEPT ![n] = Expiry(discovered_nodes[n], t)]
          /\ discovered' = IF discovered_nodes[n] = 0 THEN discovered \cup {n}
                                                      ELSE discovered
          /\ heard' = [heard EXCEPT ![n] = Later(@, t)]
    /\ UNCHANGED <<phase, if_tasks, event_queue, if_events, running, aborted, now,
                   up, refused, changes, answers, toldVars>>

Expired == {n \in present : discovered_nodes[n] <= now}

(* event_queue.push, but for no nodes. *)
Push(queue, kind, nodes) ==
    IF nodes = {} THEN queue ELSE Append(queue, [kind |-> kind, nodes |-> nodes])

(* Mutation of Queue: what expires is queued before what is discovered. *)
QueueExpiredFirst == Push(Push(event_queue, "Expired", Expired),
                          "Discovered", discovered)

(* Mutation of Queue: a poll that meets expired nodes queues them alone. *)
QueueEither == IF Expired # {} THEN Push(event_queue, "Expired", Expired)
               ELSE Push(event_queue, "Discovered", discovered)

(* Mutation of Queue: a poll that meets new nodes queues them alone. *)
QueueFreshAlone == IF discovered # {} THEN Push(event_queue, "Discovered", discovered)
                   ELSE Push(event_queue, "Expired", Expired)

Queue == Push(Push(event_queue, "Discovered", discovered), "Expired", Expired)

Tell(event) ==
    /\ told' = Append(told, event)
    /\ known' = IF event.kind = "Discovered" THEN known \cup event.nodes
                                             ELSE known \ event.nodes

(* The channel is empty: the events are queued, in the order in which      *)
(* things happened, and the first one is returned.                         *)
PollEnd ==
    /\ phase = "drain" /\ query_response = <<>>
    /\ phase' = "idle" /\ discovered' = {}
    /\ discovered_nodes' =
           [n \in Nodes |-> IF n \in Expired THEN 0 ELSE discovered_nodes[n]]
    /\ IF Queue = <<>>
          THEN UNCHANGED <<event_queue, toldVars>>
          ELSE event_queue' = Tail(Queue) /\ Tell(Head(Queue))
    /\ UNCHANGED <<if_tasks, envVars, up, refused, changes, answers, heard>>

-----------------------------------------------------------------------------
(* The watcher, the tasks and time *)

Changed(i) ==
    /\ changes < MaxChanges /\ changes' = changes + 1
    /\ up' = IF i \in up THEN up \ {i} ELSE up \cup {i}
    /\ if_events' = Append(if_events,
           [kind |-> IF i \in up THEN "down" ELSE "up", addr |-> i])
    /\ UNCHANGED <<bhvVars, running, aborted, query_response, now, refused,
                   answers, heard, toldVars>>

(* A task, perhaps one that is being aborted, sends a node. *)
Answer(n, t) ==
    /\ running \cup aborted # {}
    /\ answers < MaxAnswers /\ answers' = answers + 1
    /\ query_response' = Append(query_response, [node |-> n, expires |-> t])
    /\ UNCHANGED <<bhvVars, if_events, running, aborted, now, up, refused, changes,
                   heard, toldVars>>

(* A task fails, or has been aborted at last. *)
TaskEnds(i) ==
    /\ \/ i \in running /\ running' = running \ {i} /\ UNCHANGED aborted
       \/ i \in aborted /\ aborted' = aborted \ {i} /\ UNCHANGED running
    /\ UNCHANGED <<bhvVars, if_events, query_response, now, history>>

Tick ==
    /\ now < MaxTime /\ now' = now + 1
    /\ UNCHANGED <<bhvVars, if_events, running, aborted, query_response, history>>

-----------------------------------------------------------------------------
Poll == \/ PollStart \/ WatchDone \/ TakeNode \/ PollEnd
        \/ \E i \in Interfaces : IfUp(i) \/ IfDown(i)

Environment ==
    \/ \E i \in Interfaces : Changed(i) \/ TaskEnds(i)
    \/ \E n \in Nodes, t \in Instants : Answer(n, t)
    \/ Tick

Next == Poll \/ Environment

Spec == Init /\ [][Next]_vars

(* The swarm polls the behaviour again and again, and time passes. *)
FairSpec == Spec /\ WF_vars(Poll) /\ WF_vars(Tick)

-----------------------------------------------------------------------------
(* Properties *)

(* Every variable keeps its type. *)
TypeOK ==
    /\ phase \in {"idle", "watch", "drain"} /\ if_tasks \subseteq Interfaces
    /\ discovered_nodes \in [Nodes -> Nat] /\ discovered \subseteq present
    /\ event_queue \in Seq(Event)
    /\ if_events \in Seq([kind : {"up", "down"}, addr : Interfaces])
    /\ running \subseteq Interfaces /\ aborted \subseteq Interfaces
    /\ query_response \in Seq([node : Nodes, expires : Instants])
    /\ now \in Nat /\ changes \in Nat /\ answers \in Nat
    /\ up \subseteq Interfaces /\ refused \subseteq Interfaces
    /\ heard \in [Nodes -> Nat] /\ known \subseteq Nodes /\ told \in Seq(Event)

(* What runs has an entry by which it can be aborted; and when the watcher *)
(* has nothing more to say the entries are those of the fit interfaces     *)
(* that are up and let their sockets be made.                              *)
TasksFollow ==
    /\ running \subseteq if_tasks
    /\ if_events = <<>> => if_tasks = (up \ Unfit) \ refused

(* A node stays as long as any answer said, also when a later answer said  *)
(* less, on another interface or with another ttl.                         *)
StaysWhileFresh == \A n \in Nodes : heard[n] > now => n \in present

(* The events, queued over several polls and handed out one by one, never  *)
(* report a known node as discovered or an unknown one as expired.         *)
Presence == INSTANCE PeerPresence
IsPeerPresence == Presence!Spec

(* While no event waits the swarm knows just the nodes that are present,   *)
(* but for those that the poll at hand has found: of all that was found    *)
(* and that expired, in any number of polls, no part was left out.         *)
KnownAtRest == event_queue = <<>> => known = present \ discovered

(* Whatever is discovered is reported, however soon it expires. *)
DiscoveryReported == \A n \in Nodes : n \in present ~> n \in known

(* A node that nobody announces any more is forgotten by the swarm. *)
ExpiryReported == \A n \in Nodes : <>[](heard[n] <= now) => <>[](n \notin known)
=============================================================================
