# A formal model of p2pa

p2pa is a Rust library that wraps a libp2p swarm into a node: a handle that any number of
tasks share, a swarm task that owns the network, and an executor task that runs the user's
callback on each message. This directory holds TLA+ modules translated from the source, the
TLC configurations that check them and the proofs TLAPS checks. `PROJECT.json` maps each
definition to the lines it models.

## The system

| component | source | state | operations | interacts with |
|---|---|---|---|---|
| Node handle | `node.rs:46-318`, `commands.rs` | `receiver_spawned`, `is_killed`, the two halves of the kill oneshot, the command sender, the event receiver | one wrapper per command, two requests that await a oneshot, `execute`, `shutdown`, `is_down` | sends to the swarm task, signals the executor |
| Swarm task | `node.rs:321-609` | the swarm, `dialing_relays`, external addresses | `start_listen`, `spawn_listeners`, `handle_command`, `handle_event`, `handle_listen_via_relay` | reads commands, calls the behaviours, sends events |
| Executor | `node.rs:114-142` | the two futures of its `select` | read an event, call back, be killed | reads events, the kill signal |
| DHT behaviour | `dht_bhv.rs` | `begin_bootstrap`, `bootstrap.state` and backoff, queued and running puts and gets, boot nodes | `put_record`, `get_record`, `begin_bootstrap`, `add_*`, `handle_event`, `poll` | kad; called by the swarm task |
| Gossip behaviour | `gossip_bhv.rs` | `in_progress_messages`, `backoff`, `event_queue`, `subsriptions` | `publish`, `subscribe`, `unsubscribe`, `drain_publish`, `handle_event`, `poll` | gossipsub; called by the swarm task |
| Rendezvous behaviour | `rendezvous_bhv.rs` | registrations, discoveries, cookie, timer | `register`, `unregister`, `discover`, `poll` | rendezvous client, connections |
| mDNS behaviour | `mdns_bhv.rs` | a task per interface, `discovered_nodes`, expiry timer | `poll`, `handle_pending_outbound_connection` | channel from the interfaces |
| mDNS interface | `mdns_bhv/iface.rs` | send buffer, discovered, probe state, timer | `poll` | sockets, channel to the behaviour |
| mDNS packets | `mdns_bhv/iface/{dns,query}.rs` | none | build and parse packets | the interface |
| Utilities | `utils.rs` | backoff, unbounded channel, `SubscribableMutex` | `start_next`, `is_expired`, `send`, `recv`, `modify` | everything |
| Configuration | `config.rs`, `build_swarm` | constants | builder | read at start |

What is hard, and what correctness means:

* **Node.** Three kinds of tasks and four kinds of channels; any of the tasks may end first.
  Nobody may wait for a task that has ended, an event may not be lost without a reason,
  doubled or reordered, a shutdown must end everything, and "down" must be final.
* **DHT.** A put or get wanders between a queue, kad and a backoff; kad's bootstrap goes on
  after a failure that the behaviour answers with a second one. Nothing may be lost or
  doubled, and the state may not wait for a query that nobody runs.
* **Gossip.** A queue with messages that may never be sent in it must not starve the others.
* **Rendezvous.** What is registered with a point has to be what the user last asked for.
* **Swarm task.** Three loops take the swarm's events one after the other and each heeds
  other ones. What one of them has heeded must last, a handshake must end, and what it
  learned must be about the relay.
* **mDNS.** A hand-written future has to leave a waker behind for the work there is, with a
  timer, two sockets and a bounded channel; tasks have to follow interfaces that come and go;
  a node must be reported new and expired in turns; an answer has to survive its way through
  packets of limited size that are lost, repeated, reordered and looped back.

`PROJECT.json` lists the hazards at their lines, with the properties that cover them.

## Modules

| module | what it is |
|---|---|
| `Node` | handle, swarm task, executor and channels |
| `EventFeed` | abstract specification: what the user of the callback is promised |
| `DhtBehaviour` | the Kademlia wrapper |
| `GossipBehaviour` | the gossipsub wrapper |
| `RendezvousBehaviour` | the rendezvous wrapper |
| `SwarmLoops` | the three event loops of the swarm task: start, main loop, relay handshake |
| `MdnsInterface` | the task of one network interface, as a waker protocol |
| `MdnsBehaviour` | interface tasks, discovered nodes, expiry, events |
| `PeerPresence` | abstract specification: what the events of the mDNS behaviour promise |
| `MdnsPackets` | answers, packets, the network, and what a receiver finds |
| `Outbox` | abstract specification: what becomes of a request to publish or to put |
| `Queues` | what the specifications say of their queues |
| `MCNode`, `MCGossip`, `MCRendezvous` | constants for TLC |
| `NodeProofs`, `DhtProofs`, `GossipProofs`, `RendezvousProofs`, `SwarmLoopsProofs`, `MdnsInterfaceProofs`, `MdnsBehaviourProofs`, `MdnsPacketsProofs` | theorems about the modules they are named after |

### Node

`cmdQ` is the command channel, with the oneshots inside the two request commands; `reply[c]`
is the receiving end client `c` awaits. `evtQ` is the event channel. Commands are abstracted
to their kind: those a behaviour handles are read (`CmdDelegated`), those with something to
parse or to dial may fail (`CmdFails`), and a failure is the `?` that ends the whole task.
`StopSwarm` is that end: it drops the receiver, hence every queued command, hence its
oneshot. `ListenViaRelay` enters the nested loop (`via`), where no command is read and every
event but the two identify events is discarded.

The executor's `select` polls the event channel (`ExecEvent`, `ExecClosed`, `ExecPending`)
and only then the kill signal (`ExecKill`, `ExecPark`), each poll an action of its own, since
other tasks run in between; once parked, any of the three sources wakes it. `shutdown` is two
actions for the same reason. `delivered` and `lost` are history variables.

The handle counts as dropped (`held`) when no client and no executor uses it.

### DhtBehaviour

Commands reach the behaviour between two polls. `poll` is cut at the only places where its
loops take a decision: the bootstrap check (`PollStart`), one pop of the queue of puts
(`PutStep`), one event of kad (`Kad...`). kad is external: its put and get queries end when
they like; a bootstrap query is in its first lookup (`first`) or a later one (`walk`), and
the two differ in what a failure means. The expiry of a backoff is an action. A get counts
the queries it has caused (`issued`) against those wanted.

### GossipBehaviour

`Accepts` stands for gossipsub's answer to a publish: it refuses without a peer, refuses
what is too large for good, and refuses contents in its duplicate cache, because the message
id configured in `build_swarm` is a hash of the data alone. A failed request goes to
`in_progress` when republishing is on; `drain_publish` is a `DrainStep` per message. Messages
of peers wait in `event_queue`, across polls if `poll` returns early.

`Outbox` is the abstract specification of what becomes of a request: it is answered at most
once and pending until then, and may be given up only as it is made, where nothing is kept.
Here `keeps` is `enable_republish`, what is pending the queue, and an answer a transmission;
for the puts of `DhtBehaviour`, which are always kept, what is pending is with the queue or
with kad, and the answer kad's success.

### RendezvousBehaviour

What a client registers or discovers is a pair of an address and a namespace; what the
rendezvous client asks for is a pair of a peer and a namespace, and the behaviour turns the
one into the other in three ways. Addresses are sequences of protocols. `ByPeerId` is the way
of the timer, a new listener and `unregister`: the last protocol of an address is popped, and
is the peer if it is a peer id; an address that ends in something else is passed over.
`register()` and `discover()` of the node always append a peer id, a `Command` sent by hand
need not. `AtAddress` is the way of a connection: the pairs with the very address that was
dialed go to the peer that is connected, which is the one the address ends in, if it ends in
one, because the swarm checks that. A circuit address has the relay's id in it as well. The
rendezvous client is external: its requests are in flight (`registering`, `unregistering`,
`discovering`, the last with the cookie they carry), arrive in any order, and may fail while
the point is out of reach (`up`). `PollStart` is the timer loop of `poll`, `HandleRegistered`
and `HandleDiscovered` the two cases of `handle_event` that do something. `wanted`,
`answered` and `reported` are history variables. Requests and confirmations are kept as sets:
a second equal one in flight is not told apart, since a point that gets it does what it did
for the first. A cookie is known by the namespace it is for: a point refuses it for another
one.

`probe_state` is left out: the interval it holds is the same in all its values; so is
`connected_rdvzs`, which nothing reads.

### SwarmLoops

`loop` says which of `start_listen`, the loop of `spawn_listeners` and the loop of
`handle_listen_via_relay` reads the next event. `NewListenAddr`, `Discovered`, `Expired` and
`Identify` are the events whose effect depends on it; `Upgraded` (DCUtR) and
`ConnectionEstablished` matter in the main loop only, and `Unheeded` is everything else.
`due` is the timer of the loop at hand: `start_listen` makes a new sleep in each round, so
`Heard` resets it there, while the timeout of a handshake is made once. `Dial`, `Identify`
and `Timeout` are the handshake; its two flags are variables of the function (`Forget`).
`external` has a relay for its circuit address. Node models the channels and the end of the
same task, and there a handshake is only what holds up the commands.

mDNS reports nodes in the way `PeerPresence` says: `known` is its variable of that name, so
the two modules meet at this interface, and `MdnsBehaviourProofs` proves what `SwarmLoops`
assumes of the events. `exchanged`, `observed`, `listening` and `missed` are history.

### MdnsInterface

One action per priority of `poll`'s loop and outcome (`PollTimeout`, `PollSend`,
`PollReturn`, `Read...`), with the sources able to act between them. A source that answers
`Pending` keeps the waker (`Wait`), and a poll is due (`woken`) when it fires (`Wake`);
`reset_timer` drops the timer with its waker, and the new one has none until it is polled.
`chan`, `full` and `closed` are `mpsc::channel`: `try_send` accepts one element more than the
buffer holds per sender, after which the sender is parked. A message is the set of its
questions, which is what `MdnsPacket::new_from_bytes` decides by. `Abort` and `Close` are the
behaviour aborting the task, and the behaviour being dropped.

### MdnsBehaviour and PeerPresence

`poll` is cut where it takes something: an event of the watcher (`IfUp`, `IfDown`), a node
from the channel (`TakeNode`), and the end (`PollEnd`), which queues what is new and what has
expired and returns one event. A node is a peer with an address; its entry is the instant it
lasts to. Whether the sockets of an interface can be made is a choice in `IfUp`. An aborted
task may still send (`aborted`), as `JoinHandle::abort` takes effect at its next await.
`PeerPresence` is the abstract specification over `known` and `told`: a node is reported as
discovered only while unknown and as expired only while known, and no event is empty.

### MdnsPackets

`building` holds the answers that `build_query_response` is at work on. Each `Encode` is one
round of its loop: an address is taken, written into a record or excluded (`Pushed`), and a
packet is closed when it is full (`Encoded`); `Finish` is what follows the loop, with the
last packet (`Closed`). A record and a packet are known by their sizes, whose terms are those
of `append_txt_record` and `query_response_packet`; the limit of 65535 addresses is
`MaxAddresses`. `Peers` and `Extracted` are `MdnsPeer::new` and `extract_discovered`. The
network is a set of packets on their way to each node, the sender included, each of which may
be lost or received again and in any order.

## Runs

Deadlock is checked in `swarm_loops` and `swarm_circuit`. It is not in the other runs:
clients may stop calling and the network may be silent, and a node that is shut down, or a
task that is aborted, has really stopped.

| run | bounds | shows |
|---|---|---|
| `node` | 2 clients, 3 calls, 2 messages, 1 relay; a command of every way of handling; fair | `NoWaiterStranded`, `EventsInOrder`, `DownMeansStopping`, `ExecutorStarts`, refinement of `EventFeed`, `ShutdownStops`, `RequestReturns`, `ExecutorEnds` |
| `node_down` | 1 client that shuts down, 1 message; fair | **violated**: `ShutdownReported` |
| `dht` | 3 puts, one refused by the store; 1 get of up to 2 queries; 1 node; 1 begin_bootstrap; 2 overlapping bootstraps; fair | `PutAccounted`, `RetryBudget`, `BootstrapInFlight`, `RequestNotWedged`, `PutRetriedOtherwise`, `GetEnds`, `BootstrapFinishes` |
| `dht_put_retried` | 1 put, 1 node; fair | **violated**: `PutRetried` |
| `gossip` | 3 requests, two of them of the same contents and one too large; 2 messages received; fair | `ReceivedInOrder`, refinement of `Outbox`, `Republished` |
| `rendezvous` | a point behind a relay, registered with by a circuit address and by one without a peer id, either peer answering there; 2 namespaces to discover; 1 event; fair | `OnlyAsked`, `RegisteredAtLast` |
| `rendezvous_unregister` | 1 point, 1 registration; fair | **violated**: `UnregisterLasts` |
| `swarm_loops` | 1 relay, 1 other peer, an address and a loopback address, 2 relay commands; fair | `HeededLasts`, `CircuitExchanged`, `HandshakeEnds` |
| `swarm_circuit` | 1 relay, 1 other peer, 1 address, 1 relay command | **violated**: `CircuitOfRelay` |
| `mdns_interface` | every kind of message, 3 of them; a channel of one; 2 packets unsent when the timer fires; fair | `HandedInOrder`, `SleepsArmed`, `EverythingRead`, `AnswersSent`, `HandedOver`, `TaskEnds` |
| `mdns_behaviour` | a fit and an unfit interface, 3 changes, 2 nodes, 3 answers, 3 instants; fair | `TasksFollow`, `StaysWhileFresh`, `KnownAtRest`, refinement of `PeerPresence`, `DiscoveryReported`, `ExpiryReported` |
| `mdns_packets` | 2 nodes, addresses of 254 to 256 bytes at either host, the shortest and the longest peer name, packets of two records, 4 of up to 6 addresses, 1 answer | `RecordsOnce`, `PacketsFit`, `FoundOthers`, `EachTells` |

The runs leave out what a theorem says of every instance and what is plain enough not to be
repeated: the type invariants, `ReportsInOrder` and `NeverSelf` of `RendezvousBehaviour`,
`LoopbackObserved` of `SwarmLoops`, `OnceOrQueued` of `GossipBehaviour`, whose content
`IsOutbox` has as steps, and `IsOutbox` of `DhtBehaviour`, where `PutAccounted` says more.
What says that a state lasts is proved and in no run either: `SpinsForGood` and
`WedgedForGood` (DHT), `EndIsFinal` (node), `OthersStarve` (rendezvous), and with them
`NoStandoff` (mDNS interface). TLC found no error in any of these on the instances of the
runs, for `WedgedForGood` with a second `begin_bootstrap` and one bootstrap at a time.

Why the bounds are enough: two clients are needed for two shutdowns, or a shutdown and a
request, to overlap, and three calls let a relay, a request and a shutdown queue up behind
each other. Two messages are needed for an order. Two puts that kad takes are needed for the
queue to rotate, two bootstraps for the end of one to be taken for the end of the other; a
failed lookup starts the second, so that one `begin_bootstrap` is enough. More of them are left
to the theorems, which bound nothing.
Three gossip requests are the fewest with one refused for good in front of a duplicate.
With rendezvous, the relay is there to be mistaken for the point, whose address has both, and
to answer in its place at the address without a peer id; two namespaces are there for one
cookie to be refused. The commands in `AllHandlers` stand for all commands that the
model treats alike.

Two relay commands are needed for a handshake that follows one that timed out half way; two
addresses for a peer that is still present by one of them, one of which is loopback. Of three
messages of an interface one comes behind a message that is not handled, and one behind that;
the buffer of ten is scaled to one place (`Buffer = 0`, and one for the sender) so that it
fills up. Three answers are needed for a node that is said to last longer, then shorter, or
that expires while an event about another waits; the three changes bring an interface up,
down and up again within one poll or over several. In `mdns_packets` the maximum packet size
is scaled to 765 bytes, two records, and the receive buffer to 680, such that a packet may
fill up, be followed by another, and exceed either limit: one of two full records and the
longest name has 766; up to six addresses fill more than one packet, and four of them are the
limit of an answer, so that it bites. Answers do not interact with each other, since a packet
is understood by itself, so one at a time is enough; the other node's part in `FoundOthers`
is that either may be the one that answers.

### Findings

1. **`is_down()` may never become true.** `shutdown()` sends the command first and the kill
   signal after an await, and nothing orders the signal before the end of the swarm task. In
   whichever order they come, the executor polls the event channel first; if it finds that
   closed (`node.rs:126-128`) it returns without setting `is_killed`, even if the signal has
   been sent. `examples/test.rs:44-45` spins on `is_down()` after `shutdown()`.
   `node_down` shows it, and `NeverDown` proves that
   such a node's `is_down()` stays false for ever; `DownMeansStopping` says that the converse holds:
   whenever `is_down()` is true, the node is down or about to be.
2. **`poll` may never leave its loop over queued puts** (`dht_bhv.rs:402`). It pops until the
   queue is empty and pushes back what it cannot try. While a bootstrap is wanted every put
   is pushed back, and the flag is cleared only by an event that is handled after the loop.
   `dht_put_retried` shows it, and `PutLoopNeverEnds` proves it of every such poll,
   whatever kad, time and the queue do. Backoffs alone only make the loop busy: they expire.
   A put that kad's store refuses at once is pushed back by `put_record` and spins as well.
   `PutLoopEnds` is the condition under which the rest of the DHT's progress holds.
3. **`unregister` does not last** (`rendezvous_bhv.rs:67-78`). The points are asked to forget
   the namespace, but the pair stays in `registrations`, and the next tick of the refresh
   timer, the next listener or the next connection registers it again.
   `rendezvous_unregister` shows it going on for ever.
4. **A circuit may be announced through a relay that has not answered** (`node.rs:578-589`).
   The loop of `handle_listen_via_relay` counts the identify events of any peer as the
   relay's; its log says "told relay its public address". `swarm_circuit` shows an exchange
   with another peer that makes the node announce the circuit. `CircuitExchanged` is what
   does hold: two halves were exchanged with somebody since this relay was dialed.

Two observations are by design of the properties, not findings: `RequestNotWedged` is stated
for a node that asks for one bootstrap, because a second `begin_bootstrap` after the first
has finished sets the flag that nothing will clear (`WedgedRequestStays` proves it, and that
no put reaches kad from then on); and the two `get_connected_peers*` requests always return
an error, since their handlers drop the oneshot.

Further observations on rendezvous, recorded as hazards: a discovery is asked only when a
connection to its point is made, so one requested afterwards is never sent; all namespaces
and points share one cookie, so after one namespace has been discovered a point refuses the
next (`OneNamespaceIsServed` proves that no other one is reported any more); and a
registration at an address without a peer id is asked when that address is dialed, and
neither refreshed nor unregistered ever.

Observations on the swarm task and mDNS, recorded as hazards: a node that mDNS reports while
`start_listen` or a handshake runs, and an address that is listened on during a handshake,
are missed (`missed` in `SwarmLoops`); external addresses and explicit peers are never
removed; after a packet it does not handle, an interface sleeps on what is behind it in the
socket until its timer fires (`EverythingRead` holds because it does); the interval of a
probe never grows, so that with a query interval above twice the probe interval and nobody
to answer the probing does not end; a record is presumed to have 300 bytes and may have 331
(`PacketsFit` says by how much a packet may then exceed the maximum); a sender may fill 8932
bytes and a receiver reads 4096; `start_listen` makes a new sleep after each event, so that
the node does not start as long as events keep coming within a second of each other (nothing
in the code bounds that, and no property is stated).

### Fairness

* `Node`: Tokio runs every task that is ready (`ExecNext`, `CmdNext`), the relay's timeout
  fires, a client continues a call it has begun. Weak fairness of `CmdNext` holds although
  events compete with commands, because `select!` picks among ready branches at random.
  The callback is taken to return. Nothing is assumed of calls and network events.
* `DhtBehaviour`: `poll` is called again and again: the whole swarm is polled when anything
  wakes it, and gossipsub's heartbeat does so every second. kad ends every query it has
  started (queries time out), which it can only report while `poll` listens, hence strong
  fairness. `BootstrapFinishes` also assumes that of infinitely many bootstraps one succeeds.
* `GossipBehaviour`: the same for `poll`, and each poll ends. The backoff and cache entries
  expire (`duplicate_cache_time`).
* `RendezvousBehaviour`: each poll ends and another follows, the timer fires, and a point that
  is within reach again and again gets a registration that is in flight there. Only peers
  that an address ends in are promised anything. Nothing is assumed of discoveries,
  listeners, connections and confirmations. For `rendezvous_unregister`, where a violation
  should not be the points' fault, a point also gets what is unregistered, and registrations
  run out (`ForgetfulSpec`).
* `SwarmLoops`: a handshake's four seconds pass and its timeout is polled: `tokio::time::timeout`
  makes one timer, and polls it even when events use up the task's budget. Nothing is assumed
  of the start.
* `MdnsInterface`: the executor runs a task that is woken, and a poll goes on; the timer
  fires, the socket becomes writable, the behaviour is polled and takes from the channel.
  Nothing is assumed of arriving packets.
* `MdnsBehaviour`: `poll` as above, and time passes.

## Proofs

Each module's theorems hold for any sets of clients, requests, peers, contents and topics and
for any bounds, and rest on the assumption the module states of its constants
(`NodeAssumption`, `DhtAssumption`, `GossipAssumption`, `RendezvousAssumption`,
`SwarmLoopsAssumption`, `MdnsInterfaceAssumption`, `MdnsBehaviourAssumption`,
`MdnsPacketsAssumption`) and nothing else. The last one asks for finitely many addresses.

| module | theorem | says |
|---|---|---|
| `NodeProofs` | `TypeCorrect` | `Spec => []TypeOK` |
| | `NobodyStranded` | `Spec => []NoWaiterStranded` |
| | `DownIsFinal` | `Spec => []DownMeansStopping` |
| | `ExecutorHasKillResp` | `Spec => []ExecutorStarts` |
| | `OrderedDelivery` | `Spec => []EventsInOrder` |
| | `ImplementsEventFeed` | `Spec => IsEventFeed` |
| | `EndsOnce` | `Spec => EndIsFinal`, an action property |
| | `DeliversBeforeEnd` | `Spec => EndsDelivered`, the action property in `ExecutorEnds` |
| | `NeverDown` | an executor that ended by the closed channel: `is_killed` is false for ever |
| `DhtProofs` | `TypeCorrect` | `Spec => []TypeOK` |
| | `NoPutLost` | `Spec => []PutAccounted` |
| | `BudgetKept` | `Spec => []RetryBudget` |
| | `BootstrapIsRun` | `Spec => []BootstrapInFlight` |
| | `OneRequestIsServed` | `Spec => []RequestNotWedged` |
| | `ImplementsOutbox` | `Spec => IsOutbox` |
| | `PutLoopSpins` | `Spec => SpinsForGood`, an action property |
| | `PutLoopNeverEnds` | `Spec => [](Spinning => [](phase = "puts"))` |
| | `WedgedRequestStays` | `Spec => WedgedForGood`, an action property |
| `GossipProofs` | `TypeCorrect` | `Spec => []TypeOK` |
| | `PublishedOnce` | `Spec => []OnceOrQueued` |
| | `ImplementsOutbox` | `Spec => IsOutbox` |
| | `OrderKept` | `Spec => []ReceivedInOrder` |
| `RendezvousProofs` | `TypeCorrect` | `Spec => []TypeOK` |
| | `RightPoint` | `Spec => []OnlyAsked` |
| | `ReportsOrdered` | `Spec => []ReportsInOrder` |
| | `NoSelfDial` | `Spec => []NeverSelf` |
| | `OneNamespaceIsServed` | `Spec => OthersStarve`, an action property |
| `SwarmLoopsProofs` | `TypeCorrect` | `Spec => []TypeOK` |
| | `HeededEventsLast` | `Spec => []HeededLasts` |
| | `OnlyObservedLoopback` | `Spec => []LoopbackObserved` |
| | `CircuitsExchanged` | `Spec => CircuitExchanged`, an action property |
| `MdnsInterfaceProofs` | `TypeCorrect` | `Spec => []TypeOK` |
| | `NodesHandedInOrder` | `Spec => []HandedInOrder` |
| | `SleeperArmed` | `Spec => []SleepsArmed` |
| | `NeitherWaitsOnTheOther` | `Spec => []NoStandoff` |
| `MdnsBehaviourProofs` | `TypeCorrect` | `Spec => []TypeOK` |
| | `FreshNodesStay` | `Spec => []StaysWhileFresh` |
| | `TasksFollowInterfaces` | `Spec => []TasksFollow` |
| | `SwarmKnowsAtRest` | `Spec => []KnownAtRest` |
| | `ImplementsPeerPresence` | `Spec => IsPeerPresence` |
| `MdnsPacketsProofs` | `TypeCorrect` | `Spec => []TypeOK` |
| | `AnswersTellOnce` | `Spec => []RecordsOnce` |
| | `PacketsBounded` | `Spec => []PacketsFit` |
| | `FindsOthers` | `Spec => []FoundOthers` |
| | `EachPacketTells` | `Spec => []EachTells` |

The arguments:

* `NoWaiterStranded` is not inductive: it says that a pending request is in the queue of a
  *running* task, and nothing in it rules out a stopped task with a queue. `WaiterInv` adds
  that a stopped task has an empty queue. Then each step either keeps the request in the
  queue (`AppendHolds`, `TailHolds`), answers it, or stops the task (`StopWaiters`).
* `DownInv` strengthens `DownMeansStopping` with the protocol of `execute`: before
  `receiver_spawned` is set there is no executor and the receiver is in the mutex. It says of
  every shutdown that has sent its command that the command is queued or the task has
  stopped; the relay loop and the other commands keep the queue's tail (`DownFrame`).
* `EventsInOrder` is inductive with the types. The proof works on `delivered \o evtQ`, which
  reading leaves alone, sending extends with a number larger than all (`GossipKeepsOrder`,
  `IncreasingAppend`) and dropping the handle cuts (`DropKeepsOrder`, `IncreasingFront`).
* For the refinement, `last` is the last delivered number and `over` the executor's end. The
  order proved before gives that the head of the channel comes after the last one delivered
  and is one that has arrived (`HeadIsNext`); `DownInv` gives that no second executor starts.
* `EndsDelivered` says of a step that ends the executor that it is killed, fails, or has read all
  there is: by `EventsInOrder`, what came and is not lost has been delivered when the channel is
  empty, and by `ExecutorStarts` no executor ends as it starts.
* `PutAccounted` is inductive with the types: a put is popped from a queue without doubles
  (`Taken`), and is placed again by `put_record` (`PutPlaced`), rotated (`Rotation`) or
  moved by a failed query. `RetryBudget` is inductive too: one `get_record` turns the budget
  of its get into the number it was called with and leaves the others alone (`GetBudget`).
* `BootstrapInFlight` needs no help; `RequestNotWedged` needs `BootInv`: nothing is wanted or
  going on before the first `begin_bootstrap`, so the first finds no bootstrap finished.
* `OnceOrQueued` lacks that what was transmitted had been requested, without which a new
  request might be a second transmission: `OnceInv` adds it.
* For `Outbox`, what is pending is the queue of a `GossipBehaviour`: a new request is answered,
  kept or given up (`PublishAsks`), and a round of `drain_publish` answers its head or turns
  the queue (`DrainAnswers`). Of a `DhtBehaviour` it is the queue and what kad has at hand.
  `PutAccounted` before and after a step makes that `asked \ done` before and after it, so
  that only the two actions that change these sets are steps of `Outbox`.
* `ReceivedInOrder` follows the sequence `emitted \o event_queue` as above.
* `OnlyAsked` is inductive with the types. A request made by peer id goes to the peer that its
  address ends in (`ByPeerIdMeant`), one made at a connection to that peer or, without one, to
  the peer that is noted as having answered there (`AtAddressMeant`); and what was meant once
  stays so, as registrations, discoveries and `answered` only grow (`MeaningLasts`).
  `ReportsInOrder` and `NeverSelf` rest on a case split (`EventSteps`): a step pushes an event
  that does not name this node, hands one over, or leaves the events alone.

* `HeededLasts` and `LoopbackObserved` are inductive with the types. `CircuitExchanged` rests
  on `HandshakeInv`: in a relay's loop one relay is at hand, and each flag that is set has its
  half among those exchanged since the dial; the step that announces sets the last flag.
* The type of the channel, one element above its buffer, rests on `FullInTime`: a sender that
  need not wait finds the channel within its buffer. `HandedInOrder` follows the sequence
  `taken \o chan \o discovered`, which only grows at its end (`AppendJoined`, `HandOver`).
* `SleepsArmed` speaks of a sleeping task; `ArmedInv` says of every place in the loop what
  has been waited for so far, unless a poll is due anyway: after the first priority the timer
  holds a waker, or it is new and there is a packet that makes the loop come round again.
* `StaysWhileFresh` needs `KeptLong`: a node's entry lasts as long as heard, or that instant
  is past.
* `TasksFollow` speaks of a watcher with nothing more to say; `TasksInv` says of any queue of
  changes that it leads (`Path`) from the interfaces the behaviour has seen to those that are
  up. `ImplementsPeerPresence` is the same idea: `QueueInv` says that the events in
  `event_queue` are steps of `PeerPresence` that lead from what the swarm knows to what the
  behaviour knows. `PathAppend` and `PathHeadTail` serve both.
  With an empty queue the path has no step, which is `KnownAtRest`.
* `NoStandoff` rests on `ArmedInv`, by which a sleeping task with nodes to return waits for
  room in a full channel, and on `WaitsForRoom`: a full channel is neither empty nor closed.
* `RecordsOnce` speaks of an answer that is complete. `LoopInv` says of one being built what
  a loop invariant does: no address is at two places or still to be taken, what was taken and
  is short enough is in a packet or among the records to come, the packets are not empty, and
  the records to come are fewer than a packet holds. `RoundInv` shows it of one round,
  `EndTold` and its neighbours that the end of the loop makes an answer of it. Sizes are
  bounded record by record: the longest one has 266 bytes and the peer's name (`Longest`), and
  as many as a packet takes have 300 bytes each (`RecordsFit`). What a longer name adds to
  that is `PacketsFit`.
* `FoundOthers` and `EachTells` follow packets: each one on the wire or lost is of an answer,
  and each of an answer is on the wire, lost, or read into what its receiver has found.
* `SpinsForGood`, `WedgedForGood`, `EndIsFinal` and `OthersStarve` say of a state that each step
  keeps it. What they need of reachable states is the types, and `DownInv` for the end of the
  node. `PutLoopNeverEnds` and `NeverDown` follow from them in temporal logic.

Only model-checked: liveness, which needs ENABLED, and the four violations. Every invariant,
every refinement and every other action property of a passing run is proved. No module that
is proved about declares a RECURSIVE operator; `MdnsPackets` builds an answer round by round,
as its loop does, for the same reason: what a fold computes would need induction over data.

## Not modelled

* `start_listen` before its first event, and a `listen_on` that fails: then there is no node.
* The busy loop of the swarm task once the handle is gone: commands can no longer come.
* The dial after a relayed connection is closed: its result is ignored.
* `lookup_peer`'s query, the random walk, `queued_get_record_queries` and the counts in
  `KadGetQuery::records`: nothing in the crate feeds or reads them.
* Durations: a backoff has expired or has not, a timer is due or is not. With them goes the
  arithmetic of `ExponentialBackoff`, which doubles a timeout until it would overflow.
* `SubscribableMutex`: it never has a subscriber.
* The bytes of mDNS packets and their parser, which the unit tests of `dns.rs` and `query.rs`
  cover, and the setting up of sockets.
* The listen addresses that `mdns_bhv::Behaviour::on_swarm_event` keeps: each answer of
  `MdnsPackets` chooses them anew.
* `Config` and `build_swarm`, but for what the behaviours depend on: a builder without state.
* libp2p: kad, gossipsub, identify, relay and the swarm are external actions.

## Plan

Done: all components with state, and the proofs of the safety invariants and refinements of
all of them. Left, in this order:

1. The composition of `MdnsInterface` and `MdnsBehaviour` over one channel, in place of the
   two actions (`Take`, `Answer`) by which each now stands in for the other; listen addresses
   that change between two answers.
2. `Backoff`: the arithmetic of `ExponentialBackoff` with its width.
3. The composition of `Node` with the behaviours' phases where their interaction matters
   (commands queued behind a poll).
