-------------------------------- MODULE Outbox --------------------------------
(* What somebody who asks for a publish or a put may rely on (publish,     *)
(* src/src/behaviours/gossip_bhv.rs; put_record, dht_bhv.rs): a request    *)
(* is answered at most once, and stays pending until it is, through any    *)
(* number of attempts.  Only where nothing is kept may it be given up, at  *)
(* the moment it is made and never after.                                  *)
EXTENDS Naturals

CONSTANT Requests

VARIABLES keeps,      (* are requests kept that are not answered at once?    *)
          asked,
          pending,
          answers     (* the number of answers to each request               *)

Init ==
    /\ keeps \in BOOLEAN /\ asked = {} /\ pending = {}
    /\ answers = [r \in Requests |-> 0]

Asked(r) == r \notin asked /\ asked' = asked \cup {r} /\ UNCHANGED keeps

Answered(r) == answers' = [answers EXCEPT ![r] = @ + 1]

AskAndWait(r) ==
    keeps /\ Asked(r) /\ pending' = pending \cup {r} /\ UNCHANGED answers

AskAndAnswer(r) == Asked(r) /\ Answered(r) /\ UNCHANGED pending

GiveUp(r) == ~keeps /\ Asked(r) /\ UNCHANGED <<pending, answers>>

Answer(r) ==
    /\ r \in pending /\ pending' = pending \ {r} /\ Answered(r)
    /\ UNCHANGED <<keeps, asked>>

Next ==
    \E r \in Requests : AskAndWait(r) \/ AskAndAnswer(r) \/ GiveUp(r) \/ Answer(r)

Spec == Init /\ [][Next]_<<keeps, asked, pending, answers>>
=============================================================================
