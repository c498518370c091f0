---------------------------- MODULE DhtBehaviour ----------------------------
(***************************************************************************)
(* The Kademlia wrapper of src/src/behaviours/dht_bhv.rs: it holds puts    *)
(* back while a bootstrap is wanted, retries puts that fail, repeats gets, *)
(* and restarts a bootstrap that fails.                                    *)
(*                                                                         *)
(* The swarm task is one thread: commands reach the behaviour between two  *)
(* polls (phase "idle"); `poll` first starts a bootstrap, then goes        *)
(* through the queue of puts (phase "puts"), then through the events of    *)
(* libp2p's kad (phase "kad").  kad itself is external: its queries end    *)
(* whenever it says so.  Time is the action BackoffExpires.                *)
(***************************************************************************)
EXTENDS Naturals, Sequences, Queues

CONSTANTS Puts,        (* the put requests clients may make                   *)
          Rejected,    (* those kad's record store refuses (e.g. too large)   *)
          Gets,        (* the get requests clients may make                   *)
          MaxRetry,    (* bound on the retry count of a get (a u8)            *)
          Nodes,       (* peers the routing table may hold                    *)
          ConfigNodes, (* bootstrap_nodes of the configuration                *)
          MaxBegin,    (* bound on the begin_bootstrap commands               *)
          MaxOverlap   (* bound on kad bootstrap queries active at once       *)

ASSUME DhtAssumption ==
    /\ Rejected \subseteq Puts
    /\ MaxRetry \in Nat
    /\ ConfigNodes \subseteq Nodes
    /\ MaxBegin \in Nat
    /\ MaxOverlap \in Nat \ {0}

VARIABLES
    phase,          (* "idle", "puts" or "kad"                                *)
    begin_bootstrap,
    boot,           (* bootstrap.state                                        *)
    bootWaiting,    (* bootstrap.backoff has not expired                      *)
    first, walk,    (* kad's bootstrap queries: in their first lookup, later  *)
    table,          (* kad's routing table                                    *)
    bootnodes,      (* Behaviour::bootnodes                                   *)
    begun           (* begin_bootstrap commands so far                        *)
bootVars == <<begin_bootstrap, boot, bootWaiting, first, walk, table, bootnodes, begun>>

VARIABLES
    putQ,           (* queued_put_record_queries                              *)
    waiting,        (* puts whose backoff has not expired                     *)
    inPut,          (* in_progress_put_record_queries                         *)
    asked, done     (* history: puts requested, puts that succeeded           *)
putVars == <<putQ, waiting, inPut, asked, done>>

VARIABLES
    inGet,          (* in_progress_get_record_queries                         *)
    retry_count,    (* retries left to each of them                           *)
    wanted, issued  (* history: queries requested, queries made               *)
getVars == <<inGet, retry_count, wanted, issued>>

vars == <<phase, bootVars, putVars, getVars>>

(* `Behaviour::new` and the loop over bootstrap_nodes in build_swarm. *)
Init ==
    /\ phase = "idle"
    /\ begin_bootstrap = FALSE /\ boot = "NotStarted" /\ bootWaiting = FALSE
    /\ first = 0 /\ walk = 0
    /\ table = ConfigNodes /\ bootnodes = ConfigNodes /\ begun = 0
    /\ putQ = <<>> /\ waiting = {} /\ inPut = {} /\ asked = {} /\ done = {}
    /\ inGet = {}
    /\ retry_count = [g \in Gets |-> 0]
    /\ wanted = [g \in Gets |-> 0] /\ issued = [g \in Gets |-> 0]

-----------------------------------------------------------------------------
(* put_record and get_record, called by commands and by poll *)

(* A put, with the queue it would be pushed onto: held back while a        *)
(* bootstrap is wanted, given to kad otherwise; one that kad's store       *)
(* refuses starts its backoff and is queued.                               *)
put_record(p, queue) ==
    \/ /\ begin_bootstrap
       /\ putQ' = Append(queue, p)
       /\ UNCHANGED <<waiting, inPut>>
    \/ /\ ~begin_bootstrap /\ p \notin Rejected
       /\ putQ' = queue
       /\ inPut' = inPut \cup {p}
       /\ UNCHANGED waiting
    \/ /\ ~begin_bootstrap /\ p \in Rejected
       /\ putQ' = Append(queue, p)
       /\ waiting' = waiting \cup {p}
       /\ UNCHANGED inPut

(* Mutation of get_record: no decrement. *)
get_record_undiminished(g, n) ==
    /\ n # 0
    /\ inGet' = inGet \cup {g}
    /\ retry_count' = [retry_count EXCEPT ![g] = n]
    /\ issued' = [issued EXCEPT ![g] = issued[g] + 1]

(* A get with n queries left to make: one is made now, if any. *)
get_record(g, n) ==
    IF n = 0
    THEN /\ inGet' = inGet \ {g}
         /\ UNCHANGED <<retry_count, issued>>
    ELSE /\ inGet' = inGet \cup {g}
         /\ retry_count' = [retry_count EXCEPT ![g] = n - 1]
         /\ issued' = [issued EXCEPT ![g] = issued[g] + 1]

-----------------------------------------------------------------------------
(* Commands of the swarm task *)

BeginBootstrap ==
    /\ phase = "idle" /\ begun < MaxBegin
    /\ begun' = begun + 1
    /\ begin_bootstrap' = TRUE
    /\ UNCHANGED <<phase, boot, bootWaiting, first, walk, table, bootnodes,
                   putVars, getVars>>

AddKnownPeer(n) ==
    /\ phase = "idle" /\ n \notin table
    /\ table' = table \cup {n}
    /\ UNCHANGED <<phase, begin_bootstrap, boot, bootWaiting, first, walk,
                   bootnodes, begun, putVars, getVars>>

AddBootNode(n) ==
    /\ phase = "idle" /\ n \notin bootnodes
    /\ bootnodes' = bootnodes \cup {n}
    /\ UNCHANGED <<phase, begin_bootstrap, boot, bootWaiting, first, walk, table,
                   begun, putVars, getVars>>

PutRecord(p) ==
    /\ phase = "idle" /\ p \notin asked
    /\ asked' = asked \cup {p}
    /\ put_record(p, putQ)
    /\ UNCHANGED <<phase, bootVars, done, getVars>>

GetRecord(g, n) ==
    /\ phase = "idle" /\ wanted[g] = 0
    /\ wanted' = [wanted EXCEPT ![g] = n]
    /\ get_record(g, n)
    /\ UNCHANGED <<phase, bootVars, putVars>>

-----------------------------------------------------------------------------
(* poll *)

(* Mutation of StartBootstrap: without known peers it is just tried again. *)
StartWithoutBootnodes ==
    IF begin_bootstrap /\ boot = "NotStarted" /\ ~bootWaiting /\ table # {}
    THEN boot' = "Started" /\ first' = first + 1 /\ UNCHANGED table
    ELSE UNCHANGED <<boot, first, table>>

(* A wanted bootstrap that is not running is started, unless kad knows no  *)
(* peer: then the bootstrap nodes are added again and the next poll tries. *)
StartBootstrap ==
    IF ~(begin_bootstrap /\ boot = "NotStarted" /\ ~bootWaiting)
    THEN UNCHANGED <<boot, first, table>>
    ELSE IF table = {}
         THEN table' = bootnodes /\ UNCHANGED <<boot, first>>
         ELSE boot' = "Started" /\ first' = first + 1 /\ UNCHANGED table

PollStart ==
    /\ phase = "idle"
    /\ phase' = "puts"
    /\ StartBootstrap
    /\ UNCHANGED <<begin_bootstrap, bootWaiting, walk, bootnodes, begun, putVars,
                   getVars>>

(* Mutation of PutStep: a put whose backoff runs is popped and forgotten. *)
PutStepForgets ==
    /\ phase = "puts" /\ putQ # <<>>
    /\ IF Head(putQ) \in waiting
       THEN putQ' = Tail(putQ) /\ UNCHANGED <<waiting, inPut>>
       ELSE put_record(Head(putQ), Tail(putQ))
    /\ UNCHANGED <<phase, bootVars, asked, done, getVars>>

(* `while let Some(req) = queue.pop_front()`: a put whose backoff runs goes *)
(* back to the end of the queue, any other is tried.  The loop has no other *)
(* way out than an empty queue.                                             *)
PutStep ==
    /\ phase = "puts" /\ putQ # <<>>
    /\ LET p == Head(putQ) IN
       IF p \in waiting
       THEN putQ' = Append(Tail(putQ), p) /\ UNCHANGED <<waiting, inPut>>
       ELSE put_record(p, Tail(putQ))
    /\ UNCHANGED <<phase, bootVars, asked, done, getVars>>

PutsDone ==
    /\ phase = "puts" /\ putQ = <<>>
    /\ phase' = "kad"
    /\ UNCHANGED <<bootVars, putVars, getVars>>

(* kad has nothing more to say, or something for the swarm. *)
PollReturns ==
    /\ phase = "kad"
    /\ phase' = "idle"
    /\ UNCHANGED <<bootVars, putVars, getVars>>

(* Mutation of KadPut: the query is looked up but not removed. *)
KadPutKept(p, ok) ==
    /\ phase = "kad" /\ p \in inPut
    /\ IF ok
       THEN done' = done \cup {p} /\ UNCHANGED <<putQ, waiting>>
       ELSE /\ putQ' = Append(putQ, p)
            /\ waiting' = waiting \cup {p}
            /\ UNCHANGED done
    /\ UNCHANGED <<phase, bootVars, inPut, asked, getVars>>

(* A put ended: a failed one starts its backoff and is queued again. *)
KadPut(p, ok) ==
    /\ phase = "kad" /\ p \in inPut
    /\ inPut' = inPut \ {p}
    /\ IF ok
       THEN done' = done \cup {p} /\ UNCHANGED <<putQ, waiting>>
       ELSE /\ putQ' = Append(putQ, p)
            /\ waiting' = waiting \cup {p}
            /\ UNCHANGED done
    /\ UNCHANGED <<phase, bootVars, asked, getVars>>

(* Mutation of KadGetLast: the step's `last` flag is not looked at. *)
KadGetNotLast(g) ==
    /\ phase = "kad" /\ g \in inGet
    /\ phase' = "idle"
    /\ UNCHANGED <<bootVars, putVars, getVars>>

(* The last answer to a get: the query is made again while retries are     *)
(* left, whatever the answer was.                                          *)
KadGetLast(g) ==
    /\ phase = "kad" /\ g \in inGet
    /\ get_record(g, retry_count[g])
    /\ UNCHANGED <<phase, wanted, bootVars, putVars>>

(* The first lookup of a bootstrap succeeded and others follow: ignored. *)
KadBootstrapGoesOn ==
    /\ phase = "kad" /\ first > 0
    /\ first' = first - 1 /\ walk' = walk + 1
    /\ UNCHANGED <<phase, begin_bootstrap, boot, bootWaiting, table, bootnodes,
                   begun, putVars, getVars>>

(* Mutation of KadBootstrapLast: the request for a bootstrap is kept. *)
KadBootstrapKeepsFlag ==
    /\ phase = "kad" /\ first > 0
    /\ first' = first - 1 /\ boot' = "Finished" /\ phase' = "idle"
    /\ UNCHANGED <<begin_bootstrap, bootWaiting, walk, table, bootnodes, begun,
                   putVars, getVars>>

(* The last lookup of a bootstrap succeeded: finished, and the event for   *)
(* the swarm makes poll return.                                            *)
KadBootstrapLast ==
    /\ phase = "kad"
    /\ \/ first > 0 /\ first' = first - 1 /\ UNCHANGED walk
       \/ walk > 0 /\ walk' = walk - 1 /\ UNCHANGED first
    /\ boot' = "Finished"
    /\ begin_bootstrap' = FALSE
    /\ phase' = "idle"
    /\ UNCHANGED <<bootWaiting, table, bootnodes, begun, putVars, getVars>>

(* Mutation of KadBootstrapErr: the state is reset after later lookups only. *)
KadBootstrapErrIgnored(more) ==
    /\ phase = "kad" /\ ~more /\ first > 0
    /\ first' = first - 1
    /\ table' = table \cup bootnodes
    /\ bootWaiting' = TRUE
    /\ UNCHANGED <<phase, begin_bootstrap, boot, walk, bootnodes, begun, putVars,
                   getVars>>

(* A lookup of a bootstrap timed out.  After the first one, kad gives up   *)
(* and the bootstrap nodes are added again; after a later one, kad goes on *)
(* with the next if there is one.  In each case the behaviour will start   *)
(* another bootstrap.                                                      *)
KadBootstrapErr(more) ==
    /\ phase = "kad"
    /\ \/ /\ ~more /\ first > 0
          /\ first' = first - 1
          /\ table' = table \cup bootnodes
          /\ UNCHANGED walk
       \/ /\ walk > 0
          /\ more => first + walk < MaxOverlap
          /\ walk' = IF more THEN walk ELSE walk - 1
          /\ UNCHANGED <<first, table>>
    /\ boot' = "NotStarted"
    /\ bootWaiting' = TRUE
    /\ UNCHANGED <<phase, begin_bootstrap, bootnodes, begun, putVars, getVars>>

(* kad drops a peer when a query of its fails to reach it. *)
KadEvict(n) ==
    /\ phase = "kad" /\ n \in table
    /\ first + walk > 0 \/ inPut \cup inGet # {}
    /\ table' = table \ {n}
    /\ UNCHANGED <<phase, begin_bootstrap, boot, bootWaiting, first, walk,
                   bootnodes, begun, putVars, getVars>>

-----------------------------------------------------------------------------
(* ExponentialBackoff::is_expired becomes true, at any time. *)
PutBackoffExpires(p) ==
    /\ p \in waiting
    /\ waiting' = waiting \ {p}
    /\ UNCHANGED <<phase, bootVars, putQ, inPut, asked, done, getVars>>

BootBackoffExpires ==
    /\ bootWaiting
    /\ bootWaiting' = FALSE
    /\ UNCHANGED <<phase, begin_bootstrap, boot, first, walk, table, bootnodes,
                   begun, putVars, getVars>>

-----------------------------------------------------------------------------
Command ==
    \/ BeginBootstrap
    \/ \E n \in Nodes : AddKnownPeer(n) \/ AddBootNode(n)
    \/ \E p \in Puts : PutRecord(p)
    \/ \E g \in Gets, n \in 1..MaxRetry : GetRecord(g, n)

Poll == PollStart \/ PutStep \/ PutsDone \/ PollReturns

Kad ==
    \/ \E p \in Puts, ok \in BOOLEAN : KadPut(p, ok)
    \/ \E g \in Gets : KadGetLast(g)
    \/ KadBootstrapGoesOn \/ KadBootstrapLast
    \/ \E more \in BOOLEAN : KadBootstrapErr(more)
    \/ \E n \in Nodes : KadEvict(n)

Time == BootBackoffExpires \/ \E p \in Puts : PutBackoffExpires(p)

Next == Command \/ Poll \/ Kad \/ Time

Spec == Init /\ [][Next]_vars

(* The swarm is polled again and again (gossipsub's heartbeat wakes it each *)
(* second) and poll runs on; backoffs expire; kad ends every query (it has  *)
(* a timeout) and, if asked again and again, bootstraps at last.            *)
Fairness ==
    /\ WF_vars(Poll)
    /\ WF_vars(BootBackoffExpires)
    /\ \A p \in Puts : /\ WF_vars(PutBackoffExpires(p))
                       /\ SF_vars(\E ok \in BOOLEAN : KadPut(p, ok))
    /\ \A g \in Gets : SF_vars(KadGetLast(g))
    /\ SF_vars(KadBootstrapLast)

FairSpec == Spec /\ Fairness

-----------------------------------------------------------------------------
(* Properties *)

(* Every variable keeps its type. *)
TypeOK ==
    /\ phase \in {"idle", "puts", "kad"}
    /\ begin_bootstrap \in BOOLEAN
    /\ boot \in {"NotStarted", "Started", "Finished"}
    /\ bootWaiting \in BOOLEAN
    /\ first \in Nat /\ walk \in Nat /\ begun \in Nat
    /\ table \subseteq Nodes /\ bootnodes \subseteq Nodes
    /\ putQ \in Seq(Puts) /\ waiting \subseteq Puts
    /\ inPut \subseteq Puts /\ asked \subseteq Puts /\ done \subseteq Puts
    /\ inGet \subseteq Gets
    /\ retry_count \in [Gets -> Nat]
    /\ wanted \in [Gets -> Nat] /\ issued \in [Gets -> Nat]

(* No put is lost or doubled on its way between the queue, kad and the     *)
(* queue again: each requested put that has not succeeded is in one place, *)
(* once.                                                                   *)
PutAccounted ==
    /\ Distinct(putQ)
    /\ Elems(putQ) \cup inPut \cup done = asked
    /\ Elems(putQ) \cap inPut = {}
    /\ (Elems(putQ) \cup inPut) \cap done = {}

(* So the puts are an Outbox: one is pending from its request until kad's  *)
(* one success, whichever of queue, backoff and kad it is in, however      *)
(* often it fails and is held back.                                        *)
Out == INSTANCE Outbox WITH
           Requests <- Puts, keeps <- TRUE, pending <- Elems(putQ) \cup inPut,
           answers <- [p \in Puts |-> IF p \in done THEN 1 ELSE 0]
IsOutbox == Out!Spec

(* A get makes exactly as many queries as its caller asked for: those made *)
(* and those left add up, and it ends with none left.                      *)
RetryBudget ==
    \A g \in Gets :
        issued[g] + (IF g \in inGet THEN retry_count[g] ELSE 0) = wanted[g]

(* The state machine never waits for a bootstrap that nobody runs: Started *)
(* means that some bootstrap query of kad is active, however failures,     *)
(* restarts and overlapping queries follow each other.                     *)
BootstrapInFlight == boot = "Started" => first + walk > 0

(* A node that asks for one bootstrap never ends with the request pending  *)
(* and the state Finished, from where no poll starts a bootstrap and every *)
(* put is held back for good.                                              *)
RequestNotWedged ==
    begun <= 1 => ~(begin_bootstrap /\ boot = "Finished")

(* The condition the next three need: poll goes through queued puts only   *)
(* while no bootstrap is wanted and kad takes them.                        *)
PutLoopEnds ==
    [](phase = "puts" /\ putQ # <<>> =>
          ~begin_bootstrap /\ Elems(putQ) \cap Rejected = {})

(* What this condition excludes lasts: a poll that has begun to go through *)
(* the puts while a bootstrap is wanted, or one of them is refused by      *)
(* kad's store, goes on for ever, since nothing but what comes after the   *)
(* loop, or another command, could put an end to either.                   *)
Spinning ==
    /\ phase = "puts" /\ putQ # <<>>
    /\ begin_bootstrap \/ Elems(putQ) \cap Rejected # {}

SpinsForGood == [][Spinning => Spinning']_vars

(* Nor does a request end that is wedged, the one RequestNotWedged rules   *)
(* out for a single begin_bootstrap: no bootstrap is started any more, and *)
(* none of the puts that come then gets to kad.                            *)
Wedged == begin_bootstrap /\ boot = "Finished" /\ first + walk = 0

WedgedForGood == [][Wedged => Wedged' /\ inPut' \subseteq inPut]_vars

(* poll's loop over the puts ends although it spins on running backoffs,   *)
(* and a put that failed is tried again.                                   *)
PutRetriedOtherwise ==
    PutLoopEnds =>
        \A p \in Puts \ Rejected : p \in Elems(putQ) ~> p \in inPut

(* A get stops being asked for. *)
GetEnds == PutLoopEnds => \A g \in Gets : g \in inGet ~> g \notin inGet

(* A bootstrap that is wanted finishes in spite of failed lookups, lost    *)
(* routing tables and restarts, if kad lets one through in the end and     *)
(* there are nodes to start from; a second request may be wedged.          *)
BootstrapFinishes ==
    PutLoopEnds /\ [](begun <= 1) =>
        (begin_bootstrap /\ bootnodes # {} ~> boot = "Finished")

(* The log of handle_put_query: "error performing put: {e}, retrying..": a *)
(* put that failed is tried again.                                         *)
PutRetried == \A p \in Puts : p \in waiting ~> p \in inPut
=============================================================================
