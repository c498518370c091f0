------------------------------ MODULE MCGossip ------------------------------
(* A small instance of GossipBehaviour for TLC: two requests with the same *)
(* contents, one of them perhaps on another topic, and one too large.      *)
EXTENDS GossipBehaviour, TLC

CONSTANTS m1, m2, m3, d1, d2

SameContents == (m1 :> d1) @@ (m2 :> d1) @@ (m3 :> d2)
=============================================================================
