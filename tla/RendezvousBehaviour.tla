------------------------- MODULE RendezvousBehaviour -------------------------
(***************************************************************************)
(* The rendezvous wrapper of src/src/behaviours/rendezvous_bhv.rs: it      *)
(* remembers what clients want registered and discovered at which points,  *)
(* asks a point when a connection to it is made, asks all of them again on *)
(* a timer, and hands the answers to the swarm one per poll.               *)
(*                                                                         *)
(* Clients give addresses, the rendezvous client wants peers.  An address  *)
(* may end in the peer id of the point, perhaps after that of a relay, or  *)
(* name no peer at all: whoever answers there is the point then.           *)
(*                                                                         *)
(* The libp2p rendezvous client and the points are external: requests to   *)
(* one point are unordered and, while the point is out of reach, may be    *)
(* lost; registrations run out; whom a point knows is the environment's    *)
(* doing.  Two equal requests or confirmations in flight count as one.     *)
(***************************************************************************)
EXTENDS Naturals, Sequences

CONSTANTS Points,      (* peers, rendezvous points perhaps                     *)
          Addresses,   (* sequences of protocols, peer ids among them          *)
          Namespaces,
          Wishes,      (* address and namespace clients may register           *)
          Searches,    (* address and namespace clients may discover           *)
          Self,        (* current_id                                           *)
          Others,      (* peers registered at the points                       *)
          None,        (* no cookie                                            *)
          MaxReports   (* bound on the events for the swarm                    *)

ASSUME RendezvousAssumption ==
    /\ \A a \in Addresses : Len(a) \in Nat \ {0}
    /\ Wishes \subseteq Addresses \X Namespaces
    /\ Searches \subseteq Addresses \X Namespaces
    /\ Self \notin Others /\ None \notin Namespaces
    /\ MaxReports \in Nat

VARIABLES
    phase,           (* "idle", or "events": poll listens to the client        *)
    registrations, discovery,
    cookie,          (* the last cookie, known by the namespace it belongs to  *)
    due,             (* the timer has fired                                    *)
    event_queue,
    emitted          (* history: events handed to the swarm                    *)
ownVars == <<phase, registrations, discovery, cookie, due, event_queue, emitted>>

VARIABLES
    ext,             (* client: is an external address known?                  *)
    registering, unregistering,   (* client: requests in flight                *)
    discovering,     (* client: requests in flight, each with its cookie       *)
    confirmed        (* client: answered registrations it will report          *)
reqVars == <<registering, unregistering, discovering>>
clientVars == <<ext, reqVars, confirmed>>

VARIABLES
    up,              (* points that are connected or can be dialed             *)
    registered,      (* what the points hold of this node                      *)
    wanted,          (* history: what is registered by the peer id that an     *)
                     (* address ends in, and not unregistered since            *)
    answered,        (* history: who answered at addresses without a peer id,  *)
                     (* once clients had asked for something there             *)
    reported         (* history: events of the client, in order                *)
worldVars == <<up, registered>>
history == <<wanted, answered, reported>>

vars == <<ownVars, clientVars, worldVars, history>>

Pairs == Addresses \X Namespaces     (* what clients ask for   *)
Requests == Points \X Namespaces     (* what the client may ask of the points *)
Event == [kind : {"Registered", "Discovered"}, peers : SUBSET (Others \cup {Self})]

Init ==
    /\ phase = "idle" /\ registrations = {} /\ discovery = {}
    /\ cookie = None /\ due = TRUE
    /\ event_queue = <<>> /\ emitted = <<>>
    /\ ext = FALSE /\ registering = {} /\ unregistering = {}
    /\ discovering = {} /\ confirmed = {}
    /\ up = {} /\ registered = {} /\ wanted = {} /\ answered = {} /\ reported = <<>>

(* Multiaddr::pop: the last protocol of an address, a peer id or not. *)
Popped(a) == a[Len(a)]

Ends(a) == Popped(a) \in Points

(* Requests for all pairs whose address ends in a peer id, to that peer.   *)
ByPeerId(pairs) == {<<Popped(w[1]), w[2]>> : w \in {v \in pairs : Ends(v[1])}}

-----------------------------------------------------------------------------
(* Commands of the swarm task *)

register(w) ==
    /\ phase = "idle"
    /\ registrations' = registrations \cup {w}
    /\ wanted' = wanted \cup ByPeerId({w})
    /\ UNCHANGED <<phase, discovery, cookie, due, event_queue, emitted,
                   clientVars, worldVars, answered, reported>>

(* unregister asks the points but keeps the registrations. *)
unregister(n) ==
    /\ phase = "idle"
    /\ wanted' = {q \in wanted : q[2] # n}
    /\ unregistering' = unregistering \cup ByPeerId({w \in registrations : w[2] = n})
    /\ UNCHANGED <<ownVars, ext, registering, discovering, confirmed, worldVars,
                   answered, reported>>

discover(s) ==
    /\ phase = "idle"
    /\ discovery' = discovery \cup {s}
    /\ UNCHANGED <<phase, registrations, cookie, due, event_queue, emitted,
                   clientVars, worldVars, history>>

-----------------------------------------------------------------------------
(* rdvz.register refuses while no external address is known; the error is  *)
(* only logged.                                                            *)
Register(ws) == registering' = IF ext THEN registering \cup ws ELSE registering

(* Mutation of RefreshAll: the first peer id in an address is taken for    *)
(* the point's, which is the relay's if there is one.                      *)
FirstPeer(a) == CHOOSE p \in Points :
    \E i \in DOMAIN a : a[i] = p /\ \A j \in 1..i-1 : a[j] \notin Points
RefreshAllFirst ==
    Register({<<FirstPeer(w[1]), w[2]>> : w \in {v \in registrations : Ends(v[1])}})

RefreshAll == Register(ByPeerId(registrations))

(* Mutation of AtAddress: all that is wanted is asked of the new peer. *)
AtAnyAddress(pairs, a, p) == {<<p, w[2]>> : w \in pairs}

(* Requests for the pairs with the address a, to the peer that is there. *)
AtAddress(pairs, a, p) == {<<p, w[2]>> : w \in {v \in pairs : v[1] = a}}

(* A peer has been dialed, and has proved to be the one the address ends   *)
(* in, if it ends in one: registrations and discoveries with the very      *)
(* address that was dialed are asked of that peer.                         *)
ConnectionEstablished(a, p) ==
    /\ phase = "idle"
    /\ Ends(a) => p = Popped(a)
    /\ up' = up \cup {p}
    /\ Register(AtAddress(registrations, a, p))
    /\ discovering' = discovering \cup
                        {<<s, cookie>> : s \in AtAddress(discovery, a, p)}
    /\ answered' = answered \cup {<<w[1], p>> : w \in
                        {v \in registrations \cup discovery : v[1] = a /\ ~Ends(a)}}
    /\ UNCHANGED <<ownVars, ext, unregistering, confirmed, registered, wanted,
                   reported>>

NewListener ==
    /\ phase = "idle"
    /\ RefreshAll
    /\ UNCHANGED <<ownVars, ext, unregistering, discovering, confirmed, worldVars,
                   history>>

-----------------------------------------------------------------------------
(* poll *)

(* The timer loop: one round, since the interval starts anew after it. *)
PollStart ==
    /\ phase = "idle" /\ phase' = "events"
    /\ due' = FALSE
    /\ IF due THEN RefreshAll ELSE UNCHANGED registering
    /\ UNCHANGED <<registrations, discovery, cookie, event_queue, emitted, ext,
                   unregistering, discovering, confirmed, worldVars, history>>

WithoutSelf(peers) == peers \ {Self}

(* The cookie a point sends with the answer to a search is one for the     *)
(* namespace searched.                                                     *)
CookieFrom(s) == s[2]

(* event_queue.push *)
Push(e) ==
    /\ Len(reported) < MaxReports
    /\ event_queue' = Append(event_queue, e)
    /\ reported' = Append(reported, e)

(* handle_event: a point has confirmed a registration. *)
HandleRegistered(n) ==
    /\ phase = "events" /\ n \in confirmed
    /\ confirmed' = confirmed \ {n}
    /\ Push([kind |-> "Registered", peers |-> {}])
    /\ UNCHANGED <<phase, registrations, discovery, cookie, due, emitted, ext,
                   reqVars, worldVars, wanted, answered>>

(* handle_event: a discovery is answered with the peers a point knows,     *)
(* this node perhaps among them; a point refuses a cookie of another       *)
(* namespace, and the client does not hear of that.                        *)
HandleDiscovered(d, peers) ==
    /\ phase = "events" /\ d \in discovering
    /\ discovering' = discovering \ {d}
    /\ \/ /\ d[2] \in {None, d[1][2]}
          /\ cookie' = CookieFrom(d[1])
          /\ Push([kind |-> "Discovered", peers |-> WithoutSelf(peers)])
       \/ /\ d[2] \notin {None, d[1][2]}
          /\ UNCHANGED <<cookie, event_queue, reported>>
    /\ UNCHANGED <<phase, registrations, discovery, due, emitted, ext,
                   registering, unregistering, confirmed, worldVars, wanted,
                   answered>>

(* The client has a request or a dial for the swarm, or nothing is queued. *)
ReturnEarly ==
    /\ phase = "events" /\ phase' = "idle"
    /\ UNCHANGED <<registrations, discovery, cookie, due, event_queue, emitted,
                   clientVars, worldVars, history>>

ReturnEvent ==
    /\ phase = "events" /\ event_queue # <<>>
    /\ phase' = "idle"
    /\ emitted' = Append(emitted, Head(event_queue))
    /\ event_queue' = Tail(event_queue)
    /\ UNCHANGED <<registrations, discovery, cookie, due, clientVars,
                   worldVars, history>>

-----------------------------------------------------------------------------
(* The rendezvous client and the points *)

(* A point gets a registration and confirms it; the client will report it. *)
PointRegisters(w) ==
    /\ w \in registering /\ w[1] \in up
    /\ registering' = registering \ {w}
    /\ registered' = registered \cup {w}
    /\ confirmed' = confirmed \cup {w[2]}
    /\ UNCHANGED <<ownVars, ext, unregistering, discovering, up, history>>

PointUnregisters(w) ==
    /\ w \in unregistering /\ w[1] \in up
    /\ unregistering' = unregistering \ {w}
    /\ registered' = registered \ {w}
    /\ UNCHANGED <<ownVars, ext, registering, discovering, confirmed, up, history>>

(* Requests to a point out of reach fail. *)
RequestsFail(p) ==
    /\ p \notin up
    /\ registering' = {w \in registering : w[1] # p}
    /\ unregistering' = {w \in unregistering : w[1] # p}
    /\ discovering' = {d \in discovering : d[1][1] # p}
    /\ UNCHANGED <<ownVars, ext, confirmed, worldVars, history>>

(* A confirmation gets lost on its way back. *)
ConfirmationLost(n) ==
    /\ n \in confirmed /\ confirmed' = confirmed \ {n}
    /\ UNCHANGED <<ownVars, ext, reqVars, worldVars, history>>

(* A connection closes and no other behaviour knows the address. *)
PointLost(p) ==
    /\ up' = up \ {p}
    /\ UNCHANGED <<ownVars, clientVars, registered, history>>

(* The point connects to this node, or its address gets known otherwise:   *)
(* the behaviour is told nothing that it acts upon.                        *)
PointFound(p) ==
    /\ up' = up \cup {p}
    /\ UNCHANGED <<ownVars, clientVars, registered, history>>

(* The ttl of a registration is over. *)
RunsOut(w) ==
    /\ w \in registered /\ registered' = registered \ {w}
    /\ UNCHANGED <<ownVars, clientVars, up, history>>

(* External addresses are confirmed and expire, between two polls. *)
ExternalAddress ==
    /\ phase = "idle" /\ ext' = ~ext
    /\ UNCHANGED <<ownVars, reqVars, confirmed, worldVars, history>>

TimerExpires ==
    /\ ~due /\ due' = TRUE
    /\ UNCHANGED <<phase, registrations, discovery, cookie, event_queue, emitted,
                   clientVars, worldVars, history>>

-----------------------------------------------------------------------------
Command == \/ \E w \in Wishes : register(w)
           \/ \E n \in Namespaces : unregister(n)
           \/ \E s \in Searches : discover(s)

SwarmEvent ==
    NewListener \/ \E a \in Addresses, p \in Points : ConnectionEstablished(a, p)

HandleEvent ==
    \/ \E n \in Namespaces : HandleRegistered(n)
    \/ \E d \in discovering, peers \in SUBSET (Others \cup {Self}) :
          HandleDiscovered(d, peers)

Poll == PollStart \/ HandleEvent \/ ReturnEarly \/ ReturnEvent

Network ==
    \/ \E w \in registering : PointRegisters(w)
    \/ \E w \in unregistering : PointUnregisters(w)
    \/ \E p \in Points : RequestsFail(p) \/ PointLost(p) \/ PointFound(p)
    \/ \E n \in Namespaces : ConfirmationLost(n)
    \/ \E w \in Requests : RunsOut(w)
    \/ ExternalAddress \/ TimerExpires

Next == Command \/ SwarmEvent \/ Poll \/ Network

Spec == Init /\ [][Next]_vars

(* The swarm polls again and again, each poll ends, and the timer fires; a *)
(* point within reach gets what is registered with it.  A peer that no     *)
(* address ends in is promised nothing.                                    *)
Fairness ==
    /\ WF_vars(PollStart) /\ WF_vars(ReturnEarly) /\ WF_vars(TimerExpires)
    /\ \A q \in ByPeerId(Wishes) : SF_vars(PointRegisters(q))

FairSpec == Spec /\ Fairness

(* Moreover a point gets what is unregistered, and registrations run out. *)
ForgetfulSpec ==
    FairSpec /\ \A q \in ByPeerId(Wishes) :
                   SF_vars(PointUnregisters(q)) /\ WF_vars(RunsOut(q))

-----------------------------------------------------------------------------
(* Properties *)

(* Every variable keeps its type. *)
TypeOK ==
    /\ phase \in {"idle", "events"}
    /\ registrations \subseteq Pairs /\ discovery \subseteq Pairs
    /\ cookie \in Namespaces \cup {None} /\ due \in BOOLEAN
    /\ event_queue \in Seq(Event) /\ emitted \in Seq(Event)
    /\ ext \in BOOLEAN
    /\ registering \subseteq Requests /\ unregistering \subseteq Requests
    /\ discovering \subseteq Requests \X (Namespaces \cup {None})
    /\ confirmed \subseteq Namespaces
    /\ up \subseteq Points /\ registered \subseteq Requests
    /\ wanted \subseteq Requests /\ answered \subseteq Addresses \X Points
    /\ reported \in Seq(Event)

(* The peers a client means by an address: the one it ends in, however it  *)
(* is reached, and otherwise those that have answered at it.               *)
Means(a, p) == IF Ends(a) THEN p = Popped(a) ELSE <<a, p>> \in answered

(* A peer holds, and is asked for, only what clients wanted at an address  *)
(* by which they mean that peer: requests are matched to it by the dialed  *)
(* address, by the connection and by the peer id at the end, and none of   *)
(* these turns to a relay on the way, to another peer with the same        *)
(* namespace, or to one that has answered elsewhere.  Only what is named   *)
(* by a peer id is ever unregistered.                                      *)
OnlyAsked ==
    /\ \A q \in registered \cup registering :
          \E w \in registrations : Means(w[1], q[1]) /\ w[2] = q[2]
    /\ \A q \in unregistering :
          \E w \in registrations : Ends(w[1]) /\ Means(w[1], q[1]) /\ w[2] = q[2]
    /\ \A d \in discovering :
          \E s \in discovery : Means(s[1], d[1][1]) /\ s[2] = d[1][2]

(* Answers reach the swarm in the order they came in, none lost and none   *)
(* twice, although one poll may take several and hand over none.           *)
ReportsInOrder == emitted \o event_queue = reported

(* The node is never told to dial itself, though it is registered with the *)
(* very points it asks for others.                                         *)
NeverSelf == \A i \in DOMAIN reported : Self \notin reported[i].peers

(* All namespaces share one cookie: when it belongs to one of them, and so *)
(* does each one under way, that stays so, and no search of another        *)
(* namespace is answered any more, whatever the points and the connections *)
(* do.                                                                     *)
Settled(n) == cookie = n /\ \A d \in discovering : d[2] = n

OthersStarve ==
    [][\A n \in Namespaces : Settled(n) =>
          /\ Settled(n)'
          /\ \A d \in discovering \ discovering' :
                d[1][2] # n => reported' = reported]_vars

(* What is wanted at an address that ends in a peer id gets to that peer,  *)
(* once it stays within reach and an external address is known, whatever   *)
(* went wrong on the first attempt: no external address was known, the     *)
(* point was out of reach, the registration ran out.                       *)
RegisteredAtLast ==
    \A q \in ByPeerId(Wishes) :
        <>[](ext /\ q[1] \in up) => (q \in wanted ~> q \in registered)

(* A registration by peer id that is unregistered and never wanted again   *)
(* disappears from the point, once that stays within reach.                *)
UnregisterLasts ==
    \A q \in ByPeerId(Wishes) :
        <>[](q \notin wanted /\ q[1] \in up) => <>[](q \notin registered)
=============================================================================
