-------------------------------- MODULE Node --------------------------------
(***************************************************************************)
(* The node of src/src/node.rs: a handle shared by client tasks, the swarm *)
(* task that `spawn_listeners` spawns, and the executor task that          *)
(* `execute` spawns.  They share nothing but channels:                     *)
(*                                                                         *)
(*   clients --cmdQ--> swarm task --evtQ--> executor --> user callback     *)
(*   clients --kill--> executor              swarm task --reply--> client  *)
(*                                                                         *)
(* The swarm (libp2p) is external: its events are actions that may happen  *)
(* whenever the swarm task polls it.  The arguments of a command are       *)
(* abstracted to what its handler can do with them.                        *)
(***************************************************************************)
EXTENDS Naturals, Sequences, Queues

CONSTANTS Clients,       (* tasks that hold the node's handle                 *)
          Kinds,         (* the command variants the clients use              *)
          Relays,        (* relay addresses                                   *)
          MaxCalls,      (* bound on the calls clients make                   *)
          MaxMsgs,       (* bound on the gossip messages that arrive          *)
          CallbackErrs   (* may the user's callback return an error?          *)

Requests  == {"GetConnectedPeers", "GetConnectedPeersLen"}
Fallible  == {"Dial", "AddKnownPeer", "AddBootNode", "ListenViaRelay",
              "Register", "Unregister", "Discover"}
Delegated == {"Dial", "BeginBootstrap", "LookupPeer", "AddKnownPeer",
              "AddBootNode", "PutRecord", "GetRecord", "Register",
              "Unregister", "Discover", "Publish", "Subscribe", "Unsubscribe"}
AllKinds  == Requests \cup Fallible \cup Delegated \cup {"Shutdown"}

ASSUME NodeAssumption ==
    /\ Kinds \subseteq AllKinds
    /\ MaxCalls \in Nat
    /\ MaxMsgs \in Nat
    /\ CallbackErrs \in BOOLEAN

VARIABLES
    cmdQ,        (* command channel, a sequence of [kind, from]               *)
    swarm,       (* "running" or "stopped": has the swarm task returned?      *)
    via,         (* relay whose handshake the swarm task waits for, or {}     *)
    heard        (* halves of that handshake seen so far                      *)
swarmVars == <<via, heard>>

VARIABLES
    evtQ,        (* event channel to the executor: numbers of messages        *)
    arrived,     (* messages the swarm has reported so far                    *)
    delivered,   (* history: messages given to the callback                   *)
    lost         (* history: messages that will never be given to it          *)
evtVars == <<evtQ, arrived, delivered, lost>>

VARIABLES
    receiver_spawned, is_killed,
    kill_resp,   (* is the receiving half still in the mutex?                 *)
    kill,        (* "held" in the mutex or "sent": kill_req                   *)
    exec         (* where the executor task stands                            *)
execVars == <<receiver_spawned, is_killed, kill_resp, exec>>

VARIABLES
    pc,          (* where each client stands in the call it makes             *)
    reply,       (* the oneshot a client's request waits on                   *)
    calls,       (* calls made so far                                         *)
    held         (* is some handle (Arc<Node>) alive?                         *)
clientVars == <<pc, reply, calls, held>>

vars == <<cmdQ, swarm, swarmVars, evtVars, execVars, kill, clientVars>>

Running  == swarm = "running" /\ via = {}
Relaying == swarm = "running" /\ via # {}

Command == [kind : Kinds, from : Clients]
IsIn(kinds, c) == \E i \in 1..Len(cmdQ) : /\ cmdQ[i].kind \in kinds
                                          /\ cmdQ[i].from = c

(* `Node::init`: the swarm task runs when the handle is built. *)
Init ==
    /\ cmdQ = <<>> /\ swarm = "running"
    /\ via = {} /\ heard = {}
    /\ evtQ = <<>> /\ arrived = 0 /\ delivered = <<>> /\ lost = {}
    /\ receiver_spawned = FALSE /\ is_killed = FALSE
    /\ kill_resp = TRUE /\ kill = "held" /\ exec = "none"
    /\ pc = [c \in Clients |-> "idle"]
    /\ reply = [c \in Clients |-> "none"]
    /\ calls = 0 /\ held = TRUE

-----------------------------------------------------------------------------
(* The clients *)

(* Every wrapper but `shutdown` is a send on the command channel; it fails *)
(* once the swarm task has dropped the receiver.  A request then awaits    *)
(* its oneshot.                                                            *)
Call(c, k) ==
    /\ pc[c] = "idle" /\ held /\ calls < MaxCalls /\ k # "Shutdown"
    /\ calls' = calls + 1
    /\ IF swarm = "stopped"
       THEN UNCHANGED <<cmdQ, pc, reply>>
       ELSE /\ cmdQ' = Append(cmdQ, [kind |-> k, from |-> c])
            /\ IF k \in Requests
               THEN /\ pc' = [pc EXCEPT ![c] = "awaiting"]
                    /\ reply' = [reply EXCEPT ![c] = "pending"]
               ELSE UNCHANGED <<pc, reply>>
    /\ UNCHANGED <<swarm, swarmVars, evtVars, execVars, kill, held>>

(* `r.await?`: the sender was dropped, the request returns an error. *)
AwaitReturns(c) ==
    /\ pc[c] = "awaiting" /\ reply[c] = "dropped"
    /\ pc' = [pc EXCEPT ![c] = "idle"]
    /\ reply' = [reply EXCEPT ![c] = "none"]
    /\ UNCHANGED <<cmdQ, swarm, swarmVars, evtVars, execVars, kill, calls, held>>

(* `shutdown`: the command first, an error if nobody will read it ... *)
ShutdownSend(c) ==
    /\ pc[c] = "idle" /\ held /\ calls < MaxCalls
    /\ calls' = calls + 1
    /\ IF swarm = "stopped"
       THEN UNCHANGED <<cmdQ, pc>>
       ELSE /\ cmdQ' = Append(cmdQ, [kind |-> "Shutdown", from |-> c])
            /\ pc' = [pc EXCEPT ![c] = "shutting"]
    /\ UNCHANGED <<swarm, swarmVars, evtVars, execVars, kill, reply, held>>

(* ... then, after an await, the kill signal, if no call has sent it yet. *)
ShutdownKill(c) ==
    /\ pc[c] = "shutting"
    /\ pc' = [pc EXCEPT ![c] = "idle"]
    /\ kill' = "sent"
    /\ UNCHANGED <<cmdQ, swarm, swarmVars, evtVars, execVars, reply, calls, held>>

(* Mutation of Execute: the assertion on receiver_spawned is gone. *)
ExecuteTwice(c) ==
    /\ pc[c] = "idle" /\ held
    /\ receiver_spawned' = TRUE /\ exec' = "starting"
    /\ UNCHANGED <<cmdQ, swarm, swarmVars, evtVars, is_killed, kill_resp, kill,
                   clientVars>>

(* `execute`: the swap of receiver_spawned lets one call through; any other *)
(* panics.                                                                  *)
Execute(c) ==
    /\ pc[c] = "idle" /\ held
    /\ receiver_spawned' = TRUE
    /\ IF receiver_spawned
       THEN /\ pc' = [pc EXCEPT ![c] = "panicked"]
            /\ UNCHANGED exec
       ELSE /\ exec' = "starting"
            /\ UNCHANGED pc
    /\ UNCHANGED <<cmdQ, swarm, swarmVars, evtVars, is_killed, kill_resp, kill,
                   reply, calls, held>>

(* The last handle goes away.  The executor and a pending call each hold   *)
(* one.  The command sender and the event receiver go with it.             *)
DropHandle ==
    /\ held /\ exec \in {"none", "ended"}
    /\ \A c \in Clients : pc[c] \in {"idle", "panicked"}
    /\ held' = FALSE
    /\ evtQ' = <<>>
    /\ lost' = lost \cup Elems(evtQ)
    /\ UNCHANGED <<cmdQ, swarm, swarmVars, arrived, delivered, execVars, kill,
                   pc, reply, calls>>

-----------------------------------------------------------------------------
(* The executor task *)

ExecStart ==
    /\ exec = "starting"
    /\ exec' = IF kill_resp THEN "select" ELSE "ended"
    /\ kill_resp' = FALSE
    /\ UNCHANGED <<cmdQ, swarm, swarmVars, evtVars, receiver_spawned, is_killed,
                   kill, clientVars>>

(* Mutations of ExecEvent: the event is read without being removed; the    *)
(* newest event is taken.                                                  *)
ExecPeek ==
    /\ exec = "select" /\ evtQ # <<>>
    /\ delivered' = Append(delivered, Head(evtQ))
    /\ exec' = "callback"
    /\ UNCHANGED <<cmdQ, swarm, swarmVars, evtQ, arrived, lost, receiver_spawned,
                   is_killed, kill_resp, kill, clientVars>>
ExecNewest ==
    /\ exec = "select" /\ evtQ # <<>>
    /\ delivered' = Append(delivered, evtQ[Len(evtQ)])
    /\ evtQ' = SubSeq(evtQ, 1, Len(evtQ) - 1)
    /\ exec' = "callback"
    /\ UNCHANGED <<cmdQ, swarm, swarmVars, arrived, lost, receiver_spawned,
                   is_killed, kill_resp, kill, clientVars>>

(* `select` polls the event channel first: an event, ... *)
ExecEvent ==
    /\ exec = "select" /\ evtQ # <<>>
    /\ delivered' = Append(delivered, Head(evtQ))
    /\ evtQ' = Tail(evtQ)
    /\ exec' = "callback"
    /\ UNCHANGED <<cmdQ, swarm, swarmVars, arrived, lost, receiver_spawned,
                   is_killed, kill_resp, kill, clientVars>>

(* Mutation of ExecClosed: the end of the channel overtakes what is in it. *)
ExecClosedEarly ==
    /\ exec = "select" /\ swarm = "stopped"
    /\ exec' = "ended"
    /\ UNCHANGED <<cmdQ, swarm, swarmVars, evtVars, receiver_spawned, is_killed,
                   kill_resp, kill, clientVars>>

(* ... or its end: the swarm task is gone and nothing is left to read, ... *)
ExecClosed ==
    /\ exec = "select" /\ evtQ = <<>> /\ swarm = "stopped"
    /\ exec' = "ended"
    /\ UNCHANGED <<cmdQ, swarm, swarmVars, evtVars, receiver_spawned, is_killed,
                   kill_resp, kill, clientVars>>

(* ... or nothing yet, and then the kill signal is polled. *)
ExecPending ==
    /\ exec = "select" /\ evtQ = <<>> /\ swarm = "running"
    /\ exec' = "pollkill"
    /\ UNCHANGED <<cmdQ, swarm, swarmVars, evtVars, receiver_spawned, is_killed,
                   kill_resp, kill, clientVars>>

ExecKill ==
    /\ exec = "pollkill" /\ kill = "sent"
    /\ is_killed' = TRUE
    /\ exec' = "ended"
    /\ UNCHANGED <<cmdQ, swarm, swarmVars, evtVars, receiver_spawned, kill_resp,
                   kill, clientVars>>

ExecPark ==
    /\ exec = "pollkill" /\ kill = "held"
    /\ exec' = "parked"
    /\ UNCHANGED <<cmdQ, swarm, swarmVars, evtVars, receiver_spawned, is_killed,
                   kill_resp, kill, clientVars>>

(* Mutation of ExecWake: the end of the event channel wakes nobody. *)
ExecWakeLost ==
    /\ exec = "parked"
    /\ evtQ # <<>> \/ kill = "sent"
    /\ exec' = "select"
    /\ UNCHANGED <<cmdQ, swarm, swarmVars, evtVars, receiver_spawned, is_killed,
                   kill_resp, kill, clientVars>>

(* Both wakers are registered by then: any of the three wakes the task. *)
ExecWake ==
    /\ exec = "parked"
    /\ evtQ # <<>> \/ swarm = "stopped" \/ kill = "sent"
    /\ exec' = "select"
    /\ UNCHANGED <<cmdQ, swarm, swarmVars, evtVars, receiver_spawned, is_killed,
                   kill_resp, kill, clientVars>>

(* The user's callback returns; an error ends the executor. *)
Callback(ok) ==
    /\ exec = "callback"
    /\ ok \/ CallbackErrs
    /\ exec' = IF ok THEN "select" ELSE "ended"
    /\ UNCHANGED <<cmdQ, swarm, swarmVars, evtVars, receiver_spawned, is_killed,
                   kill_resp, kill, clientVars>>

-----------------------------------------------------------------------------
(* The swarm task: commands *)

(* Mutation of StopSwarm: the queued commands leak with their oneshots. *)
StopSwarmLeaks == swarm' = "stopped" /\ cmdQ' = <<>> /\ UNCHANGED reply

(* The task returns: the channels' ends it owns are dropped, and with the  *)
(* commands left in the queue the oneshots inside them.                    *)
StopSwarm ==
    /\ swarm' = "stopped"
    /\ cmdQ' = <<>>
    /\ reply' = [c \in Clients |-> IF IsIn(Requests, c) THEN "dropped" ELSE reply[c]]

(* The commands handed to a behaviour (or to swarm.dial).  What they do    *)
(* there is in the behaviours' modules; here they are read.                *)
CmdDelegated ==
    /\ Running /\ cmdQ # <<>> /\ Head(cmdQ).kind \in Delegated
    /\ cmdQ' = Tail(cmdQ)
    /\ UNCHANGED <<swarm, swarmVars, evtVars, execVars, kill, clientVars>>

(* An address, a peer id or a namespace does not parse, or dial refuses    *)
(* it: `?` ends the whole task.                                            *)
CmdFails ==
    /\ Running /\ cmdQ # <<>> /\ Head(cmdQ).kind \in Fallible
    /\ StopSwarm
    /\ UNCHANGED <<swarmVars, evtVars, execVars, kill, pc, calls, held>>

(* Mutation of CmdRequest: the sender is kept and never answered. *)
CmdRequestKept ==
    /\ Running /\ cmdQ # <<>> /\ Head(cmdQ).kind \in Requests
    /\ cmdQ' = Tail(cmdQ)
    /\ UNCHANGED <<swarm, swarmVars, evtVars, execVars, kill, clientVars>>

(* The oneshot sender is dropped unused. *)
CmdRequest ==
    /\ Running /\ cmdQ # <<>> /\ Head(cmdQ).kind \in Requests
    /\ cmdQ' = Tail(cmdQ)
    /\ reply' = [reply EXCEPT ![Head(cmdQ).from] = "dropped"]
    /\ UNCHANGED <<swarm, swarmVars, evtVars, execVars, kill, pc, calls, held>>

(* Mutation of CmdShutdown: the handler's Ok(true) is read as Ok(false). *)
CmdShutdownIgnored ==
    /\ Running /\ cmdQ # <<>> /\ Head(cmdQ).kind = "Shutdown"
    /\ cmdQ' = Tail(cmdQ)
    /\ UNCHANGED <<swarm, swarmVars, evtVars, execVars, kill, clientVars>>

CmdShutdown ==
    /\ Running /\ cmdQ # <<>> /\ Head(cmdQ).kind = "Shutdown"
    /\ StopSwarm
    /\ UNCHANGED <<swarmVars, evtVars, execVars, kill, pc, calls, held>>

(* `handle_listen_via_relay`: dial, and if the dial starts, wait for the   *)
(* identify exchange in a nested event loop.  A failed dial is logged.     *)
CmdRelay(r, dialed) ==
    /\ Running /\ cmdQ # <<>> /\ Head(cmdQ).kind = "ListenViaRelay"
    /\ cmdQ' = Tail(cmdQ)
    /\ via' = IF dialed THEN {r} ELSE {}
    /\ heard' = {}
    /\ UNCHANGED <<swarm, evtVars, execVars, kill, clientVars>>

(* An identify event, from any peer, inside the nested loop.  The second   *)
(* half ends it.                                                           *)
RelayIdentify(half) ==
    /\ Relaying
    /\ LET both == heard \cup {half} = {"told", "learned"}
       IN  /\ heard' = IF both THEN {} ELSE heard \cup {half}
           /\ via' = IF both THEN {} ELSE via
    /\ UNCHANGED <<cmdQ, swarm, evtVars, execVars, kill, clientVars>>

(* Mutation of RelayTimeout: the commands that queued up are given up too. *)
RelayTimeoutClears ==
    /\ Relaying
    /\ via' = {} /\ heard' = {} /\ cmdQ' = <<>>
    /\ UNCHANGED <<swarm, evtVars, execVars, kill, clientVars>>

(* Four seconds have passed. *)
RelayTimeout ==
    /\ Relaying
    /\ via' = {} /\ heard' = {}
    /\ UNCHANGED <<cmdQ, swarm, evtVars, execVars, kill, clientVars>>

-----------------------------------------------------------------------------
(* The swarm task: events *)

(* A gossip message.  The nested loop throws it away; the main loop sends  *)
(* it on, and ends the task if the receiver is gone with the handle.       *)
EvtGossip ==
    /\ swarm = "running" /\ arrived < MaxMsgs
    /\ arrived' = arrived + 1
    /\ IF Running /\ held
       THEN evtQ' = Append(evtQ, arrived') /\ UNCHANGED lost
       ELSE lost' = lost \cup {arrived'} /\ UNCHANGED evtQ
    /\ IF Running /\ ~held THEN StopSwarm ELSE UNCHANGED <<cmdQ, swarm, reply>>
    /\ UNCHANGED <<swarmVars, delivered, execVars, kill, pc, calls, held>>

(* Rendezvous discovered peers and one of the dials is refused. *)
EvtRdvzDialFails ==
    /\ Running /\ "Discover" \in Kinds
    /\ StopSwarm
    /\ UNCHANGED <<swarmVars, evtVars, execVars, kill, pc, calls, held>>

-----------------------------------------------------------------------------
ClientNext ==
    \/ \E c \in Clients, k \in Kinds : Call(c, k)
    \/ \E c \in Clients : AwaitReturns(c)
    \/ \E c \in Clients : "Shutdown" \in Kinds /\ ShutdownSend(c)
    \/ \E c \in Clients : ShutdownKill(c)
    \/ \E c \in Clients : Execute(c)
    \/ DropHandle

ExecNext ==
    \/ ExecStart \/ ExecEvent \/ ExecClosed \/ ExecPending
    \/ ExecKill \/ ExecPark \/ ExecWake
    \/ \E ok \in BOOLEAN : Callback(ok)

CmdNext ==
    \/ CmdDelegated \/ CmdFails \/ CmdRequest \/ CmdShutdown
    \/ \E r \in Relays, dialed \in BOOLEAN : CmdRelay(r, dialed)

RelayNext ==
    \/ \E half \in {"told", "learned"} : RelayIdentify(half)
    \/ RelayTimeout

EvtNext == EvtGossip \/ EvtRdvzDialFails

Next == ClientNext \/ ExecNext \/ CmdNext \/ RelayNext \/ EvtNext

Spec == Init /\ [][Next]_vars

(* Tokio runs every spawned task, `select!` picks among ready branches at  *)
(* random so a queued command is read in the end, the relay's timeout      *)
(* expires, the user's callback returns, and a client that entered a call  *)
(* goes on with it.  Calls and network events are not promised.            *)
Fairness ==
    /\ WF_vars(ExecNext)
    /\ WF_vars(CmdNext)
    /\ WF_vars(RelayTimeout)
    /\ \A c \in Clients : WF_vars(AwaitReturns(c)) /\ WF_vars(ShutdownKill(c))

FairSpec == Spec /\ Fairness

-----------------------------------------------------------------------------
(* Properties *)

(* Every variable keeps its type. *)
TypeOK ==
    /\ cmdQ \in Seq(Command)
    /\ swarm \in {"running", "stopped"}
    /\ via \subseteq Relays /\ heard \subseteq {"told", "learned"}
    /\ evtQ \in Seq(Nat) /\ arrived \in Nat
    /\ delivered \in Seq(Nat) /\ lost \subseteq Nat
    /\ receiver_spawned \in BOOLEAN /\ is_killed \in BOOLEAN
    /\ kill_resp \in BOOLEAN /\ kill \in {"held", "sent"}
    /\ exec \in {"none", "starting", "select", "pollkill", "parked", "callback",
                 "ended"}
    /\ pc \in [Clients -> {"idle", "awaiting", "shutting", "panicked"}]
    /\ reply \in [Clients -> {"none", "pending", "dropped"}]
    /\ calls \in Nat /\ held \in BOOLEAN

(* get_connected_peers never waits on a oneshot nobody holds: while the    *)
(* reply is pending, the request that owns the sender is in the queue of a *)
(* running swarm task, whatever ended or interrupted that task.            *)
NoWaiterStranded ==
    \A c \in Clients :
        /\ reply[c] = "pending" => IsIn(Requests, c) /\ swarm = "running"
        /\ pc[c] = "awaiting" => reply[c] # "none"

(* The callback sees the messages in the order they arrived, none twice    *)
(* and none made up, and a message that is neither delivered nor queued    *)
(* was thrown away by the nested loop or with the handle.                  *)
EventsInOrder ==
    /\ Increasing(delivered \o evtQ)
    /\ Elems(delivered \o evtQ) \cap lost = {}
    /\ Elems(delivered \o evtQ) \cup lost = 1..arrived

(* is_down() is not true of a node that may go on: the executor has ended  *)
(* and the swarm task has stopped or has the Shutdown command before it.   *)
DownMeansStopping ==
    /\ is_killed => exec = "ended" /\ kill = "sent"
    /\ kill = "sent" \/ (\E c \in Clients : pc[c] = "shutting") =>
          \/ swarm = "stopped"
          \/ \E i \in 1..Len(cmdQ) : cmdQ[i].kind = "Shutdown"

(* A node ends only once: an executor that has ended is not followed by    *)
(* another, and is_down() stays what it was then, false for good if the    *)
(* executor did not get to the kill signal; and the swarm task is not      *)
(* started anew.                                                           *)
EndIsFinal ==
    [][/\ exec = "ended" => exec' = "ended" /\ is_killed' = is_killed
       /\ swarm = "stopped" => swarm' = "stopped" /\ arrived' = arrived]_vars

(* The executor never finds its kill receiver taken, the case its log      *)
(* calls "`execute` has been called on an already down node".              *)
ExecutorStarts == exec = "starting" => kill_resp

(* Hidden channels and tasks aside, the node is an EventFeed: at most once, *)
(* in order, nothing after the executor has ended.                          *)
Feed == INSTANCE EventFeed WITH
            last <- IF delivered = <<>> THEN 0 ELSE delivered[Len(delivered)],
            over <- exec = "ended"
IsEventFeed == Feed!Spec

(* shutdown() always ends the swarm task, even one waiting for a relay     *)
(* or with a queue of other commands in front.                             *)
ShutdownStops == \A c \in Clients : pc[c] = "shutting" ~> swarm = "stopped"

(* Every request returns. *)
RequestReturns == \A c \in Clients : pc[c] = "awaiting" ~> pc[c] = "idle"

(* An executor whose callback does not fail, and which is not killed, ends *)
(* only after the swarm task, and has then delivered all that came, but    *)
(* for what the nested loop threw away.                                    *)
EndsDelivered ==
    [][exec # "ended" /\ exec' = "ended" =>
         \/ exec = "callback" \/ is_killed'
         \/ swarm = "stopped" /\ Elems(delivered) \cup lost = 1..arrived]_vars

(* An executor does not outlive the swarm task, and does not end before it *)
(* has delivered all that came, unless its callback fails or it is killed. *)
ExecutorEnds ==
    /\ (swarm = "stopped" /\ exec # "none") ~> exec = "ended"
    /\ EndsDelivered

(* examples/test.rs: `node.shutdown().await?; while !node.is_down() {}`:   *)
(* a shutdown() that gets past its send, of a node whose executor is at    *)
(* work, ends with is_down() true.                                         *)
ShutdownReported ==
    \A c \in Clients :
        (pc[c] = "shutting" /\ exec \notin {"none", "ended"}) ~> is_killed
=============================================================================
