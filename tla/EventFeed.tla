----------------------------- MODULE EventFeed -----------------------------
(***************************************************************************)
(* What the user of a node is promised about events: the callback sees     *)
(* messages at most once and in the order of their arrival, possibly with  *)
(* gaps, and nothing at all once the feed is over.  Channels, tasks and    *)
(* the ways in which messages get lost are the implementation's business.  *)
(***************************************************************************)
EXTENDS Naturals

VARIABLES arrived,   (* number of messages that have arrived            *)
          last,      (* number of the message delivered last, or 0      *)
          over       (* has the feed ended for good?                    *)
feed == <<arrived, last, over>>

Init == arrived = 0 /\ last = 0 /\ over = FALSE

Arrive == /\ arrived' = arrived + 1
          /\ UNCHANGED <<last, over>>

Deliver == /\ ~over
           /\ last' \in (last + 1)..arrived
           /\ UNCHANGED <<arrived, over>>

Finish == /\ ~over /\ over' = TRUE
          /\ UNCHANGED <<arrived, last>>

Next == Arrive \/ Deliver \/ Finish

Spec == Init /\ [][Next]_feed
=============================================================================
