---------------------------- MODULE MdnsInterface ----------------------------
(***************************************************************************)
(* The task of one network interface, src/src/behaviours/mdns_bhv/iface.rs:*)
(* a hand-written future that multiplexes a timer, a socket to send with,  *)
(* the channel to the behaviour and a socket to receive from.              *)
(*                                                                         *)
(* Nothing polls the task but a waker, so a waker is part of the state: a  *)
(* source that answers Pending keeps the waker until it fires, a source    *)
(* that answers Ready keeps none, and a new timer has none.  A poll that   *)
(* is due while the task runs follows it.  Sockets, timer and channel are  *)
(* those of tokio and futures, modelled from their use.                    *)
(***************************************************************************)
EXTENDS Naturals, Sequences

CONSTANTS ProbeInterval, QueryInterval,
          Messages,        (* messages that arrive, by their questions       *)
          AnswerPackets,   (* packets of an answer to a query                *)
          Buffer,          (* mpsc::channel(10) with its one sender          *)
          MaxPackets,      (* bound on the packets that arrive               *)
          MaxSend          (* bound on packets the timer finds unsent        *)

(* Behaviour::new asserts the first. *)
ASSUME MdnsInterfaceAssumption ==
    /\ ProbeInterval \in Nat /\ QueryInterval \in Nat
    /\ ProbeInterval < QueryInterval
    /\ AnswerPackets \in Nat \ {0} /\ Buffer \in Nat
    /\ MaxPackets \in Nat /\ MaxSend \in Nat

VARIABLES
    pc,           (* where in the loop, "parked" between polls, "done", "aborted" *)
    woken,        (* a poll of the task is due                               *)
    wakers,       (* sources that hold the task's waker                      *)
    timer,        (* "new" until the poll that made it ends, "running", "due" *)
    probe_state,
    send_buffer, discovered,
    writable, inbox,        (* the sockets                                   *)
    chan, full, closed,     (* query_response_sender; full: it must wait     *)
    arrived, found, taken   (* history: packets come in, nodes found and     *)
                            (* nodes the behaviour has taken                 *)
taskVars == <<pc, probe_state, send_buffer, discovered, found>>
wakeVars == <<woken, wakers, timer>>
socketVars == <<writable, inbox, arrived>>
chanVars == <<chan, full, closed, taken>>
vars == <<taskVars, wakeVars, socketVars, chanVars>>

Source == {"timer", "write", "chan", "read"}
Packet == {"query", "response", "service"}

(* MdnsPacket::new_from_bytes.  A message is the set of its questions, for *)
(* "service_name", "meta_query_service" or "foreign" names; one that does  *)
(* not parse, or a read that fails, is {"error"}.                          *)
Kind(message) ==
    IF message = {} THEN "response"
    ELSE IF "service_name" \in message THEN "query"
    ELSE IF "meta_query_service" \in message THEN "service" ELSE "other"

Running == {"timeout", "send", "return", "read"}

(* The task is spawned with a timer that is due at once. *)
Init ==
    /\ pc = "parked" /\ woken = TRUE /\ wakers = {} /\ timer = "due"
    /\ probe_state = "probing" /\ send_buffer = <<>> /\ discovered = <<>>
    /\ writable = TRUE /\ inbox = <<>>
    /\ chan = <<>> /\ full = FALSE /\ closed = FALSE
    /\ arrived = 0 /\ found = 0 /\ taken = <<>>

Wait(source) == wakers' = wakers \cup {source}

Wake(source) == woken' = (woken \/ source \in wakers) /\ wakers' = wakers \ {source}

reset_timer == timer' = "new" /\ wakers' = wakers \ {"timer"}

(* return Poll::Pending.  An interval is far longer than a poll: a timer   *)
(* may fire at any time but within the poll that made it.                  *)
Park == pc' = "parked" /\ timer' = IF timer = "due" THEN "due" ELSE "running"

-----------------------------------------------------------------------------
(* The executor polls a task that has been woken. *)
Run ==
    /\ pc = "parked" /\ woken
    /\ pc' = "timeout" /\ woken' = FALSE
    /\ UNCHANGED <<probe_state, send_buffer, discovered, found, wakers, timer,
                   socketVars, chanVars>>

(* Mutation of Queued: queries overtake what is queued. *)
QueryFirst(q) == <<"query">> \o q

Queued(q) == Append(q, "query")

(* 1st priority.  The interval of a probe stays what it is. *)
PollTimeout ==
    /\ pc = "timeout" /\ pc' = "send"
    /\ \/ /\ timer = "due"
          /\ send_buffer' = Queued(send_buffer)
          /\ probe_state' = IF 2 * ProbeInterval >= QueryInterval
                               THEN "finished" ELSE probe_state
          /\ reset_timer
       \/ /\ timer # "due"
          /\ Wait("timer")
          /\ UNCHANGED <<send_buffer, probe_state, timer>>
    /\ UNCHANGED <<discovered, found, woken, socketVars, chanVars>>

(* 2nd priority.  A packet that cannot be sent now stays the first; one    *)
(* that fails is dropped as if it were sent.                               *)
PollSend ==
    /\ pc = "send"
    /\ \/ /\ send_buffer # <<>> /\ writable
          /\ send_buffer' = Tail(send_buffer)
          /\ writable' \in BOOLEAN
          /\ pc' = "timeout" /\ UNCHANGED wakers
       \/ /\ send_buffer # <<>> /\ ~writable
          /\ Wait("write")
          /\ pc' = "return" /\ UNCHANGED <<send_buffer, writable>>
       \/ /\ send_buffer = <<>>
          /\ pc' = "return" /\ UNCHANGED <<send_buffer, writable, wakers>>
    /\ UNCHANGED <<probe_state, discovered, found, woken, timer, inbox, arrived,
                   chanVars>>

(* Mutation of TrySend: the last node found goes first. *)
TrySendNewest ==
    /\ discovered' = SubSeq(discovered, 1, Len(discovered) - 1)
    /\ chan' = Append(chan, discovered[Len(discovered)])
    /\ full' = (Len(chan) >= Buffer)

(* try_send: what exceeds the buffer is sent as well, but nothing after. *)
TrySend ==
    /\ discovered' = Tail(discovered)
    /\ chan' = Append(chan, Head(discovered))
    /\ full' = (Len(chan) >= Buffer)

(* Mutation of Disconnected: like the other errors, pushed back and tried  *)
(* again.                                                                  *)
DisconnectedRetried == pc' = "timeout" /\ UNCHANGED discovered

Disconnected == pc' = "done" /\ discovered' = Tail(discovered)

(* 3rd priority.  A closed channel is ready, and found to be closed only   *)
(* with something to send.                                                 *)
PollReturn ==
    /\ pc = "return"
    /\ \/ /\ full /\ ~closed
          /\ Wait("chan")
          /\ pc' = "read" /\ UNCHANGED <<discovered, chan, full>>
       \/ /\ ~full \/ closed
          /\ discovered = <<>>
          /\ pc' = "read" /\ UNCHANGED <<discovered, chan, full, wakers>>
       \/ /\ closed /\ discovered # <<>>
          /\ Disconnected /\ UNCHANGED <<chan, full, wakers>>
       \/ /\ ~full /\ ~closed /\ discovered # <<>>
          /\ TrySend
          /\ pc' = "timeout" /\ UNCHANGED wakers
    /\ UNCHANGED <<probe_state, send_buffer, found, woken, timer, socketVars,
                   closed, taken>>

-----------------------------------------------------------------------------
(* 4th priority: one datagram is read. *)
Read(kind) ==
    /\ pc = "read" /\ inbox # <<>> /\ Kind(Head(inbox)) = kind
    /\ inbox' = Tail(inbox)
    /\ UNCHANGED <<woken, writable, arrived, chanVars>>

(* A query, or a question about services, is answered. *)
ReadQuery ==
    /\ \/ Read("query") /\ send_buffer' =
             send_buffer \o [i \in 1 .. AnswerPackets |-> "response"]
       \/ Read("service") /\ send_buffer' = Append(send_buffer, "service")
    /\ pc' = "timeout"
    /\ UNCHANGED <<probe_state, discovered, found, wakers, timer>>

(* Nodes that are found end the probing and put off the next query. *)
Found ==
    /\ found' = found + 1
    /\ discovered' = Append(discovered, found + 1)
    /\ probe_state' = "finished"
    /\ reset_timer

(* Mutation of ReadResponse: return Pending in place of continue. *)
ReadResponseReturns ==
    /\ Read("response") /\ discovered = <<>>
    /\ found' = found + 1 /\ discovered' = <<found + 1>>
    /\ probe_state' = "finished"
    /\ pc' = "parked" /\ timer' = "running" /\ wakers' = wakers \ {"timer"}
    /\ UNCHANGED send_buffer

(* A response names a node; one that names several is as good as several.  *)
(* One that names none, or only this node, still ends the probing when     *)
(* nodes are waiting to be returned.                                       *)
ReadResponse ==
    /\ Read("response")
    /\ \/ Found
       \/ /\ discovered = <<>>
          /\ UNCHANGED <<discovered, found, probe_state, timer, wakers>>
       \/ /\ discovered # <<>>
          /\ probe_state' = "finished" /\ reset_timer
          /\ UNCHANGED <<discovered, found>>
    /\ pc' = "timeout" /\ UNCHANGED send_buffer

(* Any other question, a failed read or a packet that does not parse: the  *)
(* poll ends, and the socket has answered Ready, which leaves no waker.    *)
ReadOther ==
    /\ Read("other") /\ Park
    /\ UNCHANGED <<probe_state, send_buffer, discovered, found, wakers>>

ReadNothing ==
    /\ pc = "read" /\ inbox = <<>>
    /\ Wait("read") /\ Park
    /\ UNCHANGED <<probe_state, send_buffer, discovered, found, woken,
                   socketVars, chanVars>>

-----------------------------------------------------------------------------
(* The sources, the behaviour and the executor *)

(* A query takes far less than an interval to send, unless the socket is   *)
(* not writable: the bound cuts off what would pile up then.               *)
TimerFires ==
    /\ timer = "running" /\ Len(send_buffer) < MaxSend
    /\ timer' = "due" /\ Wake("timer")
    /\ UNCHANGED <<taskVars, socketVars, chanVars>>

BecomesWritable ==
    /\ ~writable /\ writable' = TRUE
    /\ Wake("write")
    /\ UNCHANGED <<taskVars, timer, inbox, arrived, chanVars>>

Arrives(message) ==
    /\ arrived < MaxPackets /\ arrived' = arrived + 1
    /\ inbox' = Append(inbox, message)
    /\ Wake("read")
    /\ UNCHANGED <<taskVars, timer, writable, chanVars>>

(* The behaviour takes a node from the channel, which unparks the sender. *)
Take ==
    /\ ~closed /\ chan # <<>>
    /\ taken' = Append(taken, Head(chan)) /\ chan' = Tail(chan)
    /\ full' = FALSE /\ Wake("chan")
    /\ UNCHANGED <<taskVars, timer, socketVars, closed>>

(* The behaviour is dropped, with the receiver and the handles of tasks. *)
Close ==
    /\ ~closed /\ closed' = TRUE
    /\ chan' = <<>> /\ full' = FALSE /\ Wake("chan")
    /\ UNCHANGED <<taskVars, timer, socketVars, taken>>

(* The interface went down: the task is dropped between two polls. *)
Abort ==
    /\ pc = "parked" /\ ~closed
    /\ pc' = "aborted"
    /\ UNCHANGED <<probe_state, send_buffer, discovered, found, wakeVars,
                   socketVars, chanVars>>

-----------------------------------------------------------------------------
Poll == \/ PollTimeout \/ PollSend \/ PollReturn
        \/ ReadQuery \/ ReadResponse \/ ReadOther \/ ReadNothing

Environment ==
    \/ TimerFires \/ BecomesWritable \/ Take \/ Close \/ Abort
    \/ \E message \in Messages : Arrives(message)

Next == Run \/ Poll \/ Environment

Spec == Init /\ [][Next]_vars

(* The executor runs what is woken and a poll goes on to its end; time     *)
(* passes, the socket drains, and the behaviour is polled.                 *)
Fairness == /\ WF_vars(Run \/ Poll)
            /\ WF_vars(TimerFires) /\ WF_vars(BecomesWritable) /\ WF_vars(Take)

FairSpec == Spec /\ Fairness

-----------------------------------------------------------------------------
(* Properties *)

(* Every variable keeps its type; the channel holds one node more than its *)
(* buffer at most.                                                         *)
TypeOK ==
    /\ pc \in Running \cup {"parked", "done", "aborted"}
    /\ woken \in BOOLEAN /\ wakers \subseteq Source
    /\ timer \in {"new", "running", "due"}
    /\ probe_state \in {"probing", "finished"}
    /\ send_buffer \in Seq(Packet) /\ discovered \in Seq(Nat)
    /\ writable \in BOOLEAN /\ inbox \in Seq(Messages)
    /\ chan \in Seq(Nat) /\ Len(chan) <= Buffer + 1
    /\ full \in BOOLEAN /\ closed \in BOOLEAN
    /\ arrived \in Nat /\ found \in Nat /\ taken \in Seq(Nat)

(* The nodes found reach the behaviour in the order they were found, each  *)
(* once, though the channel makes the task wait at any of them.            *)
HandedInOrder ==
    pc # "done" /\ ~closed => taken \o chan \o discovered = [i \in 1 .. found |-> i]

asleep == pc = "parked" /\ ~woken

Armed(source, pending) == source \in wakers /\ pending

(* A task that sleeps will be woken: by the timer or by the socket it      *)
(* waits for; unsent packets by the socket, unreturned nodes by the        *)
(* channel.  A timer that was reset must have been polled again.           *)
SleepsArmed ==
    asleep =>
        /\ Armed("timer", timer = "running") \/ Armed("write", ~writable)
        /\ send_buffer # <<>> => Armed("write", ~writable)
        /\ discovered # <<>> => Armed("chan", full)

(* Task and behaviour do not wait for each other: with nodes left to       *)
(* return, a task sleeps only while the behaviour has a node to take, and  *)
(* is woken when it takes one.                                             *)
NoStandoff ==
    asleep /\ discovered # <<>> => chan # <<>> /\ ~closed /\ "chan" \in wakers

(* Whatever arrives is read, even what came behind a packet that left the  *)
(* task without a waker.                                                   *)
EverythingRead == []<>(inbox = <<>> \/ pc \in {"done", "aborted"})

(* An answer is sent, although every round may put a query in the buffer.  *)
AnswersSent ==
    \A p \in {"response", "service"} :
        []<>(p \notin {send_buffer[i] : i \in DOMAIN send_buffer}
                \/ pc \in {"done", "aborted"})

(* Every node found reaches the behaviour, unless one of them ends. *)
HandedOver ==
    \A n \in 1 .. MaxPackets :
        found >= n ~> (Len(taken) >= n \/ closed \/ pc = "aborted")

(* A task whose behaviour is gone, and that has a node to return, ends. *)
TaskEnds == closed /\ discovered # <<>> ~> pc \in {"done", "aborted"}
=============================================================================
