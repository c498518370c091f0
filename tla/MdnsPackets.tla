------------------------------ MODULE MdnsPackets ------------------------------
(***************************************************************************)
(* The answers of src/src/behaviours/mdns_bhv/iface: a node asked for its  *)
(* addresses writes each into a TXT record and the records into packets    *)
(* (dns.rs), multicasts them, and whoever receives one, itself included,   *)
(* takes the peer and its addresses from it (query.rs).                    *)
(*                                                                         *)
(* An address is a host and the bytes that it takes as the value of a TXT  *)
(* record.  An answer is built round by round, one address at a time; the  *)
(* nodes build theirs independently.  The network, which may lose, repeat  *)
(* and reorder packets, is external; so is the DNS parser, which refuses a *)
(* packet that is cut off.                                                 *)
(***************************************************************************)
EXTENDS Naturals, Sequences, FiniteSets, Functions

CONSTANTS
    Nodes,              (* nodes, and the hosts they run on                  *)
    Texts,              (* bytes of an address as a TXT value                *)
    PeerNames,          (* bytes of a generated peer name, 34 to 65          *)
    ServiceName,        (* bytes of the service's encoded name               *)
    MAX_PACKET_SIZE,    (* 8932                                              *)
    ReceiveBuffer,      (* 4096                                              *)
    MaxAddresses,       (* 65535, the addresses of an answer                 *)
    MaxAnswers          (* bound on the answers of all nodes                 *)

Addresses == [host : Nodes, text : Texts]

ASSUME MdnsPacketsAssumption ==
    /\ Texts \subseteq Nat /\ PeerNames \subseteq 34..65
    /\ ServiceName \in Nat /\ ReceiveBuffer \in Nat
    /\ MaxAddresses \in Nat /\ MaxAnswers \in Nat
    /\ MAX_PACKET_SIZE \in Nat /\ MAX_PACKET_SIZE >= 400
    /\ IsFiniteSet(Addresses)

MAX_TXT_VALUE_LENGTH == 255
MAX_TXT_RECORD_SIZE == MAX_TXT_VALUE_LENGTH + 45

(* Mutation of MAX_RECORDS_PER_PACKET: only the values are counted. *)
ValuesPerPacket == MAX_PACKET_SIZE \div MAX_TXT_VALUE_LENGTH

MAX_RECORDS_PER_PACKET == (MAX_PACKET_SIZE - 100) \div MAX_TXT_RECORD_SIZE

-----------------------------------------------------------------------------
(* An answer: what n listens on, what of it is left to encode, how many    *)
(* addresses have been taken from it, the packets so far, and the records  *)
(* that are in none of them yet, with their bytes.                         *)
NoRecords == [of |-> <<>>, bytes |-> 0]

Begun(n, listen, peer_name) ==
    [node |-> n, listen |-> listen, left |-> listen, taken |-> 0,
     peer_name |-> peer_name, packets |-> <<>>, records |-> NoRecords]

(* query_response_packet: all packets of an answer have the same peer      *)
(* name, and each record names the peer.                                   *)
Packet(b, records) ==
    [peer |-> b.node, peer_name |-> b.peer_name, records |-> records.of,
     bytes |-> 22 + ServiceName + b.peer_name + records.bytes]

RecordSize(b, a) == b.peer_name + 11 + a.text

(* append_txt_record: a longer value is excluded from the answer.  So is    *)
(* one that is not ASCII, and one with a space is quoted, but the          *)
(* addresses that a TCP transport listens on have neither.                 *)
Written(a) == a.text <= MAX_TXT_VALUE_LENGTH

Pushed(b, a) ==
    IF Written(a)
       THEN [of |-> Append(b.records.of, a), bytes |-> b.records.bytes + RecordSize(b, a)]
       ELSE b.records

(* Mutation of Cleared: records goes on to the next packet as well. *)
ClearedNot(records) == records

(* records.clear(). *)
Cleared(records) == NoRecords

(* One round of build_query_response. *)
Encoded(b, a) ==
    LET records == Pushed(b, a)
        full    == Len(records.of) = MAX_RECORDS_PER_PACKET
    IN [b EXCEPT !.left    = @ \ {a},
                 !.taken   = @ + 1,
                 !.packets = IF full THEN Append(@, Packet(b, records)) ELSE @,
                 !.records = IF full THEN Cleared(records) ELSE records]

(* After the last round: a final packet, or an empty one for want of any.  *)
Closed(b) ==
    IF b.records.of # <<>> \/ b.packets = <<>>
       THEN [b EXCEPT !.packets = Append(@, Packet(b, b.records))] ELSE b

-----------------------------------------------------------------------------
VARIABLES
    building,        (* the answers being built                             *)
    wire,            (* packets on their way: <<receiver, packet>>           *)
    found,           (* what each node has found: <<peer, address>>          *)
    answers,         (* history: the answers built                           *)
    lost             (* history: what never arrived                          *)
vars == <<building, wire, found, answers, lost>>

Init ==
    /\ building = {} /\ wire = {} /\ lost = {} /\ answers = {}
    /\ found = [n \in Nodes |-> {}]

(* n reads a query while it listens on some addresses, and some of them    *)
(* are other nodes': those of circuits through them.                       *)
Answer(n, listen, peer_name) ==
    /\ \A b \in building : b.node # n
    /\ Cardinality(answers \cup building) < MaxAnswers
    /\ building' = building \cup {Begun(n, listen, peer_name)}
    /\ UNCHANGED <<wire, found, answers, lost>>

(* The addresses come in any order. *)
Encode(b) ==
    /\ b.taken < MaxAddresses
    /\ \E a \in b.left : building' = (building \ {b}) \cup {Encoded(b, a)}
    /\ UNCHANGED <<wire, found, answers, lost>>

(* The loop is over, and the packets are multicast. *)
Finish(b) ==
    /\ b.left = {} \/ b.taken = MaxAddresses
    /\ building' = building \ {b}
    /\ answers' = answers \cup {Closed(b)}
    /\ wire' = wire \cup (Nodes \X Range(Closed(b).packets))
    /\ UNCHANGED <<found, lost>>

(* address_translation: the host the answer came from. *)
Translated(p, a) == [a EXCEPT !.host = p.peer]

(* Mutation of Peers: the first address of a packet is taken. *)
FirstPeer(p) == IF p.records = <<>> THEN {} ELSE {<<p.peer, Translated(p, p.records[1])>>}

(* MdnsPeer::new: the addresses of a packet, all of one peer, and none     *)
(* without a record to tell its peer.                                      *)
Peers(p) == {<<p.peer, Translated(p, a)>> : a \in Range(p.records)}

(* Mutation of Extracted: a node's own answers count. *)
ExtractedAll(n, p) == Peers(p)

(* extract_discovered: the answers include the node's own. *)
Extracted(n, p) == IF p.peer = n THEN {} ELSE Peers(p)

(* What is longer than the receive buffer is cut off, and not parsed. *)
Cut(p) == p.bytes > ReceiveBuffer

(* n receives p, and may receive it again. *)
Receive(n, p) ==
    /\ <<n, p>> \in wire
    /\ found' = [found EXCEPT ![n] = @ \cup IF Cut(p) THEN {} ELSE Extracted(n, p)]
    /\ \/ wire' = wire \ {<<n, p>>}
       \/ UNCHANGED wire
    /\ UNCHANGED <<building, answers, lost>>

Lose(n, p) ==
    /\ <<n, p>> \in wire
    /\ wire' = wire \ {<<n, p>>} /\ lost' = lost \cup {<<n, p>>}
    /\ UNCHANGED <<building, found, answers>>

Network == \E d \in wire : Receive(d[1], d[2]) \/ Lose(d[1], d[2])

Next ==
    \/ \E n \in Nodes, listen \in SUBSET Addresses, peer_name \in PeerNames :
          Answer(n, listen, peer_name)
    \/ \E b \in building : Encode(b) \/ Finish(b)
    \/ Network

Spec == Init /\ [][Next]_vars

-----------------------------------------------------------------------------
Packets == [peer : Nodes, peer_name : PeerNames, records : Seq(Addresses), bytes : Nat]

Answers ==
    [node : Nodes, listen : SUBSET Addresses, left : SUBSET Addresses,
     taken : 0..MaxAddresses, peer_name : PeerNames, packets : Seq(Packets),
     records : [of : Seq(Addresses), bytes : Nat]]

(* Types.  The length of a value goes into one byte of its record.         *)
TypeOK ==
    /\ building \subseteq Answers /\ answers \subseteq Answers
    /\ wire \cup lost \subseteq Nodes \X Packets
    /\ \A d \in wire \cup lost : \A a \in Range(d[2].records) : a.text \in 0..255
    /\ found \in [Nodes -> SUBSET (Nodes \X Addresses)]

(* The packets of an answer tell every address that is short enough,       *)
(* unless there are too many, and no other; none at two places; no packet  *)
(* is empty unless there is nothing to tell, and then there is one.        *)
ToldOnce(answer) ==
    LET packets == answer.packets
        told    == UNION {Range(p.records) : p \in Range(packets)}
        short   == {a \in answer.listen : a.text <= MAX_TXT_VALUE_LENGTH}
    IN /\ told \subseteq short
       /\ Cardinality(answer.listen) <= MaxAddresses => short \subseteq told
       /\ \A i, k \in DOMAIN packets :
             \A j \in DOMAIN packets[i].records, l \in DOMAIN packets[k].records :
                packets[i].records[j] = packets[k].records[l] => i = k /\ j = l
       /\ packets # <<>> /\ \A p \in Range(packets) : p.records = <<>> => told = {}

(* build_query_response: so it is where the last packet is just full, and  *)
(* whatever is excluded on the way.                                        *)
RecordsOnce == \A answer \in answers : ToldOnce(answer)

(* The constants count a peer name of 34 bytes, the shortest, and 100 bytes *)
(* of header with it, enough for a service's name of 44.  No packet is     *)
(* longer than MAX_PACKET_SIZE by more than the bytes of its name beyond   *)
(* these, once in each record of a full packet and once in the header: a   *)
(* packet with the shortest name fits, and one with a longer name may not. *)
PacketsFit ==
    \A d \in wire \cup lost :
       d[2].bytes + 44 <= MAX_PACKET_SIZE + ServiceName
                            + (d[2].peer_name - 34) * (MAX_RECORDS_PER_PACKET + 1)

(* A node never finds itself, although it receives its own answers, and    *)
(* what it finds of a peer is a port that this peer told, at the host that *)
(* its answer came from.                                                   *)
FoundOthers ==
    \A n \in Nodes : \A f \in found[n] :
       /\ f[1] # n /\ f[2].host = f[1]
       /\ \E answer \in answers :
             answer.node = f[1] /\ \E a \in answer.listen : a.text = f[2].text

(* Each packet stands by itself: one that arrived, and was not cut off,    *)
(* has told all its addresses, whatever else was lost and in any order.    *)
EachTells ==
    \A answer \in answers : \A n \in Nodes \ {answer.node}, p \in Range(answer.packets) :
       <<n, p>> \notin wire \cup lost /\ ~Cut(p)
          => \A a \in Range(p.records) :
                <<answer.node, [host |-> answer.node, text |-> a.text]>> \in found[n]
=============================================================================
