----------------------------- MODULE PeerPresence -----------------------------
(* What a user of the mDNS behaviour may rely on (Event,                   *)
(* src/src/behaviours/mdns_bhv.rs): a node is reported as discovered only  *)
(* while it is unknown, as expired only while it is known, and no event is *)
(* empty.  So whoever keeps the set of known nodes by the events alone     *)
(* never adds one twice and never removes one it does not have.            *)
EXTENDS Sequences

CONSTANT Nodes

VARIABLES known,
          told       (* the events, in order *)

Init == known = {} /\ told = <<>>

Discover(S) ==
    /\ S # {} /\ S \cap known = {}
    /\ known' = known \cup S
    /\ told' = Append(told, [kind |-> "Discovered", nodes |-> S])

Expire(S) ==
    /\ S # {} /\ S \subseteq known
    /\ known' = known \ S
    /\ told' = Append(told, [kind |-> "Expired", nodes |-> S])

Next == \E S \in SUBSET Nodes : Discover(S) \/ Expire(S)

Spec == Init /\ [][Next]_<<known, told>>
=============================================================================
