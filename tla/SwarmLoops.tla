------------------------------ MODULE SwarmLoops ------------------------------
(***************************************************************************)
(* The three loops of src/src/node.rs that read the events of the swarm,   *)
(* one after the other: start_listen before the handle exists, the loop of *)
(* spawn_listeners, and within it the loop of handle_listen_via_relay.     *)
(* Each takes the next event whatever it is, and each heeds other ones, so *)
(* what an event does to the node's addresses and to gossipsub's explicit  *)
(* peers depends on the loop that happens to read it.                      *)
(*                                                                         *)
(* Node has the channels and the end of the same task.  The swarm and its  *)
(* behaviours are external; mDNS reports nodes as PeerPresence says.       *)
(***************************************************************************)
EXTENDS Naturals, Sequences

CONSTANTS Relays, Others,     (* peers, the first by their addresses too     *)
          Addresses, Loopback,
          MaxCommands         (* bound on commands to listen via a relay     *)

Peers == Relays \cup Others
Nodes == Others \X Addresses      (* as mDNS reports them *)

ASSUME SwarmLoopsAssumption ==
    /\ Relays \cap Others = {} /\ Relays \cap Addresses = {}
    /\ Nodes \cap Addresses = {}
    /\ Loopback \subseteq Addresses /\ MaxCommands \in Nat

VARIABLES
    loop,            (* "startup", "main" or "relay"                         *)
    commands,        (* relays that clients want to listen through           *)
    relay,           (* the one at hand, or {}                               *)
    told_relay_observed_addr, learned_observed_addr,
    dialing_relays,
    due,             (* the sleep or timeout of the loop at hand is over     *)
    external,        (* external addresses, and relays for their circuits    *)
    explicit         (* explicit peers                                       *)
loopVars == <<loop, commands, relay, told_relay_observed_addr,
              learned_observed_addr, dialing_relays, due>>

VARIABLES
    asked,           (* history: commands so far                             *)
    exchanged,       (* history: halves of identify exchanges, by peer,      *)
                     (* since the relay at hand was dialed                   *)
    listening,       (* history: addresses the swarm told it listens on      *)
    observed,        (* history: addresses peers told in a relay's loop      *)
    known,           (* history: nodes mDNS has reported, see PeerPresence   *)
    missed           (* history: nodes and addresses that were reported to a *)
                     (* loop that heeds no such event                        *)
history == <<asked, exchanged, listening, observed, known, missed>>

vars == <<loopVars, external, explicit, history>>

Half == {"sent", "received"}

Init ==
    /\ loop = "startup" /\ commands = <<>> /\ relay = {}
    /\ told_relay_observed_addr = FALSE /\ learned_observed_addr = FALSE
    /\ dialing_relays = {} /\ due = FALSE /\ external = {} /\ explicit = {}
    /\ asked = 0 /\ exchanged = {} /\ listening = {} /\ observed = {}
    /\ known = {} /\ missed = {}

PeersOf(nodes) == {n[1] : n \in nodes}

-----------------------------------------------------------------------------
(* Mutation of Heard: any event restarts the timer of the loop at hand. *)
HeardAlways == due' = FALSE

(* start_listen makes a new sleep after each event.  The timeout of a      *)
(* relay's handshake was made once, and the main loop has no timer.        *)
Heard == due' = (due /\ loop # "startup")

Elapse ==
    /\ loop # "main" /\ ~due /\ due' = TRUE
    /\ UNCHANGED <<loop, commands, relay, told_relay_observed_addr,
                   learned_observed_addr, dialing_relays, external, explicit,
                   history>>

(* start_listen: a second has passed since the last event. *)
StartupOver ==
    /\ loop = "startup" /\ due
    /\ loop' = "main" /\ due' = FALSE
    /\ UNCHANGED <<commands, relay, told_relay_observed_addr,
                   learned_observed_addr, dialing_relays, external, explicit,
                   history>>

unheard == <<loop, commands, relay, told_relay_observed_addr,
             learned_observed_addr, dialing_relays>>

(* Loopback addresses are kept out of the rendezvous records. *)
Announce(a) == external' = external \cup ({a} \ Loopback)

(* NewListenAddr: the relay's loop ignores it. *)
NewListenAddr(a) ==
    /\ Heard /\ listening' = listening \cup {a}
    /\ \/ loop # "relay" /\ Announce(a) /\ missed' = missed \ {a}
       \/ /\ loop = "relay" /\ UNCHANGED external
          /\ missed' = missed \cup ({a} \ listening)
    /\ UNCHANGED <<unheard, explicit, asked, exchanged, observed, known>>

-----------------------------------------------------------------------------
(* mDNS and DCUtR: only the main loop heeds them *)

Discovered(nodes) ==
    /\ nodes # {} /\ nodes \cap known = {}
    /\ Heard /\ known' = known \cup nodes
    /\ \/ /\ loop = "main"
          /\ explicit' = explicit \cup PeersOf(nodes)
          /\ missed' = missed \ nodes
       \/ loop # "main" /\ missed' = missed \cup nodes /\ UNCHANGED explicit
    /\ UNCHANGED <<unheard, external, asked, exchanged, listening, observed>>

(* Mutation of IgnoreExpired: the peers of expired nodes are removed,      *)
(* although they may be known by another address.                          *)
RemoveExpired(nodes) == explicit' = explicit \ PeersOf(nodes)

(* handle_event: the event is not handled. *)
IgnoreExpired(nodes) == UNCHANGED explicit

Expired(nodes) ==
    /\ nodes # {} /\ nodes \subseteq known
    /\ Heard /\ known' = known \ nodes
    /\ IgnoreExpired(nodes)
    /\ UNCHANGED <<unheard, external, asked, exchanged, listening, observed, missed>>

(* A direct connection upgrade succeeded. *)
Upgraded(p) ==
    /\ loop = "main" /\ explicit' = explicit \cup {p}
    /\ UNCHANGED <<loopVars, external, history>>

(* An event that this loop does not heed. *)
Unheeded == Heard /\ UNCHANGED <<unheard, external, explicit, history>>

-----------------------------------------------------------------------------
(* connect_relay of a handle, which exists once the node has started. *)
ListenViaRelay(r) ==
    /\ loop # "startup" /\ asked < MaxCommands
    /\ asked' = asked + 1 /\ commands' = Append(commands, r)
    /\ UNCHANGED <<loop, relay, told_relay_observed_addr, learned_observed_addr,
                   dialing_relays, due, external, explicit, exchanged,
                   listening, observed, known, missed>>

(* Mutation of Forget: the flags outlive a handshake that failed. *)
ForgetNothing == UNCHANGED <<told_relay_observed_addr, learned_observed_addr>>

(* The flags are variables of handle_listen_via_relay. *)
Forget == told_relay_observed_addr' = FALSE /\ learned_observed_addr' = FALSE

(* handle_listen_via_relay: a dial that is refused is logged. *)
Dial ==
    /\ loop = "main" /\ commands # <<>>
    /\ commands' = Tail(commands) /\ exchanged' = {}
    /\ \/ loop' = "relay" /\ relay' = {Head(commands)} /\ Forget
       \/ UNCHANGED <<loop, relay, told_relay_observed_addr, learned_observed_addr>>
    /\ UNCHANGED <<dialing_relays, due, external, explicit, asked, listening,
                   observed, known, missed>>

(* One half of an identify exchange with some peer, in the relay's loop:   *)
(* it counts as the relay's, and the address observed is added as it is.   *)
(* With both halves, or what passes for them, the circuit is listened on   *)
(* and announced, unless listen_on refuses.                                *)
Identify(p, half, a, listens) ==
    /\ loop = "relay"
    /\ LET told    == told_relay_observed_addr \/ half = "sent"
           learned == learned_observed_addr \/ half = "received"
           seen    == IF half = "received" THEN {a} ELSE {}
       IN /\ told_relay_observed_addr' = told
          /\ learned_observed_addr' = learned
          /\ observed' = observed \cup seen
          /\ \/ /\ told /\ learned
                /\ loop' = "main" /\ relay' = {} /\ due' = FALSE
                /\ external' = external \cup seen
                                   \cup (IF listens THEN relay ELSE {})
             \/ /\ ~(told /\ learned)
                /\ external' = external \cup seen /\ UNCHANGED <<loop, relay, due>>
    /\ exchanged' = exchanged \cup {<<p, half>>}
    /\ UNCHANGED <<commands, dialing_relays, explicit, asked, listening, known, missed>>

(* Four seconds have passed. *)
Timeout ==
    /\ loop = "relay" /\ due
    /\ loop' = "main" /\ relay' = {} /\ due' = FALSE
    /\ dialing_relays' = dialing_relays \cup relay
    /\ UNCHANGED <<commands, told_relay_observed_addr, learned_observed_addr,
                   external, explicit, history>>

(* An outgoing connection: a relay that had timed out is forgotten. *)
ConnectionEstablished(r) ==
    /\ loop = "main" /\ r \in dialing_relays
    /\ dialing_relays' = dialing_relays \ {r}
    /\ UNCHANGED <<loop, commands, relay, told_relay_observed_addr,
                   learned_observed_addr, due, external, explicit, history>>

-----------------------------------------------------------------------------
Loops == StartupOver \/ Dial \/ Timeout

SwarmEvents ==
    \/ \E a \in Addresses : NewListenAddr(a)
    \/ \E nodes \in SUBSET Nodes : Discovered(nodes) \/ Expired(nodes)
    \/ \E p \in Others : Upgraded(p)
    \/ Unheeded
    \/ \E p \in Peers, half \in Half, a \in Addresses, listens \in BOOLEAN :
          Identify(p, half, a, listens)
    \/ \E r \in Relays : ConnectionEstablished(r)

Next == Loops \/ SwarmEvents \/ Elapse \/ \E r \in Relays : ListenViaRelay(r)

Spec == Init /\ [][Next]_vars

(* A handshake's four seconds pass, whatever happens, and tokio polls a    *)
(* timer that is over.  A second without an event may never come, so the   *)
(* startup is not promised to end.                                         *)
FairSpec == Spec /\ WF_vars(Elapse /\ loop = "relay") /\ WF_vars(Timeout)

-----------------------------------------------------------------------------
(* The type of each variable.  A relay is at hand exactly in its loop, and *)
(* the main loop has no timer.                                             *)
TypeOK ==
    /\ loop \in {"startup", "main", "relay"} /\ commands \in Seq(Relays)
    /\ relay \in SUBSET Relays /\ (relay # {} <=> loop = "relay")
    /\ told_relay_observed_addr \in BOOLEAN /\ learned_observed_addr \in BOOLEAN
    /\ dialing_relays \in SUBSET Relays /\ due \in BOOLEAN
    /\ (loop = "main" => ~due)
    /\ external \in SUBSET (Addresses \cup Relays) /\ explicit \in SUBSET Others
    /\ asked \in Nat /\ exchanged \in SUBSET (Peers \X Half)
    /\ listening \in SUBSET Addresses /\ observed \in SUBSET Addresses
    /\ known \in SUBSET Nodes /\ missed \in SUBSET (Nodes \cup Addresses)

(* However many loops read the swarm's events, a node that mDNS still      *)
(* counts as present is an explicit peer of gossipsub, and an address that *)
(* is listened on is announced, unless the event came to a loop that does  *)
(* not heed it; other addresses of a peer may expire meanwhile.            *)
HeededLasts ==
    /\ PeersOf(known \ missed) \subseteq explicit
    /\ listening \ (missed \cup Loopback) \subseteq external

(* A loopback address is announced only if a peer observed it: what the    *)
(* node listens on never gets it into the rendezvous records, in any loop. *)
LoopbackObserved == external \cap Loopback \subseteq observed

Circuits == external \cap Relays

(* A circuit is announced only in the handshake of its relay, after both   *)
(* halves of identify exchanges since that relay was dialed: nothing that  *)
(* an earlier handshake learned before it timed out is counted.            *)
CircuitExchanged ==
    [][\A r \in Circuits' \ Circuits :
          /\ relay = {r}
          /\ Half \subseteq {e[2] : e \in exchanged'}]_vars

(* However many events keep coming, a handshake with a relay ends, and the *)
(* node heeds its commands again: the timeout is made once.                *)
HandshakeEnds == loop = "relay" ~> loop = "main"

(* Violated: what handle_listen_via_relay logs, told relay its public      *)
(* address and relay told us our public address, is so when it announces a *)
(* circuit.                                                                *)
CircuitOfRelay ==
    [][\A r \in Circuits' \ Circuits : {r} \X Half \subseteq exchanged']_vars
=============================================================================
