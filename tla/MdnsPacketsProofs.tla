-------------------------- MODULE MdnsPacketsProofs --------------------------
(* Proofs about MdnsPackets, for any nodes, addresses, names and sizes. *)
EXTENDS MdnsPackets, Integers, SequenceTheorems, FiniteSetTheorems, TLAPS

(* The records of an answer in one row of chunks: those of its packets,    *)
(* and last those that are in no packet yet.                               *)
Chunk(b, i) == IF i \in 1..Len(b.packets) THEN b.packets[i].records ELSE b.records.of

Chunks(b) == 1..Len(b.packets) + 1

(* The longest record of an answer. *)
Longest(b) == b.peer_name + 266

(* What the packets of an answer say of it. *)
PacketOf(b, p) ==
    /\ p.peer = b.node /\ p.peer_name = b.peer_name
    /\ Len(p.records) <= MAX_RECORDS_PER_PACKET
    /\ p.bytes <= 22 + ServiceName + b.peer_name + Longest(b) * Len(p.records)

(* The loop invariant of build_query_response: what has been taken and is  *)
(* short enough is in one place of one chunk, and nothing else is in any;  *)
(* packets have records, and there is room for another one.                *)
OfTaken(b) ==
    \A i \in Chunks(b) : \A j \in 1..Len(Chunk(b, i)) :
       Chunk(b, i)[j] \in b.listen \ b.left /\ Written(Chunk(b, i)[j])

AllTaken(b) ==
    \A a \in b.listen \ b.left : Written(a) =>
       \E i \in Chunks(b) : \E j \in 1..Len(Chunk(b, i)) : Chunk(b, i)[j] = a

OncePlaced(b) ==
    \A i, k \in Chunks(b) : \A j \in 1..Len(Chunk(b, i)), l \in 1..Len(Chunk(b, k)) :
       Chunk(b, i)[j] = Chunk(b, k)[l] => i = k /\ j = l

Packed(b) ==
    /\ \A i \in 1..Len(b.packets) : PacketOf(b, b.packets[i]) /\ b.packets[i].records # <<>>
    /\ Len(b.records.of) < MAX_RECORDS_PER_PACKET
    /\ b.records.bytes <= Longest(b) * Len(b.records.of)

LoopInv(b) ==
    /\ b.left \subseteq b.listen
    /\ b.taken = Cardinality(b.listen \ b.left)
    /\ OfTaken(b) /\ AllTaken(b) /\ OncePlaced(b) /\ Packed(b)

AnswersInv ==
    /\ \A b \in building : LoopInv(b)
    /\ RecordsOnce
    /\ \A answer \in answers : \A p \in Range(answer.packets) : PacketOf(answer, p)
    /\ \A d \in wire \cup lost : \E answer \in answers : d[2] \in Range(answer.packets)

-----------------------------------------------------------------------------
(* Types *)

Typed ==
    /\ building \subseteq Answers /\ answers \subseteq Answers
    /\ wire \cup lost \subseteq Nodes \X Packets
    /\ found \in [Nodes -> SUBSET (Nodes \X Addresses)]

RecordRow == [of : Seq(Addresses), bytes : Nat]

(* Names, texts and the service's name have lengths. *)
LEMMA Sizes ==
    /\ \A n \in PeerNames : n \in Nat
    /\ \A a \in Addresses : a.text \in Nat
    /\ ServiceName \in Nat
<1>1. PeerNames \subseteq 34..65 /\ Texts \subseteq Nat /\ ServiceName \in Nat
      BY MdnsPacketsAssumption DEF MdnsPacketsAssumption
<1>2. \A a \in Addresses : a.text \in Texts
      BY DEF Addresses
<1>3. \A n \in PeerNames : n \in 34..65
      BY <1>1
<1>4. \A n \in 34..65 : n \in Nat
      OBVIOUS
<1>5. \A n \in PeerNames : n \in Nat
      BY <1>3, <1>4
<1>6. \A a \in Addresses : a.text \in Nat
      BY <1>1, <1>2
<1> QED BY <1>1, <1>5, <1>6

LEMMA PacketTyped ==
    ASSUME NEW b \in Answers, NEW r \in RecordRow
    PROVE  Packet(b, r) \in Packets
<1>1. b.peer_name \in Nat /\ ServiceName \in Nat /\ r.bytes \in Nat
      BY Sizes DEF Answers, RecordRow
<1>2. 22 + ServiceName + b.peer_name + r.bytes \in Nat
      BY <1>1
<1> QED BY <1>2 DEF Packet, Packets, Answers, RecordRow

LEMMA PushedTyped ==
    ASSUME NEW b \in Answers, NEW a \in Addresses
    PROVE  Pushed(b, a) \in RecordRow
<1>1. b.records \in RecordRow /\ b.peer_name \in Nat /\ a.text \in Nat
      BY Sizes DEF Answers, RecordRow
<1>2. b.records.bytes + RecordSize(b, a) \in Nat
  <2>1. b.records.bytes \in Nat
        BY <1>1 DEF RecordRow
  <2>2. \A x, n, t \in Nat : x + (n + 11 + t) \in Nat
        OBVIOUS
  <2>3. RecordSize(b, a) = b.peer_name + 11 + a.text
        BY DEF RecordSize
  <2> QED BY <1>1, <2>1, <2>2, <2>3
<1>3. Append(b.records.of, a) \in Seq(Addresses)
      BY <1>1, AppendProperties DEF RecordRow
<1> QED BY <1>1, <1>2, <1>3 DEF Pushed, RecordRow

(* A round of the loop, field by field. *)
LEMMA Round ==
    ASSUME NEW b \in Answers, NEW a \in b.left, b.taken < MaxAddresses
    PROVE  LET c    == Encoded(b, a)
               row  == Pushed(b, a)
               full == Len(row.of) = MAX_RECORDS_PER_PACKET
           IN /\ c \in Answers /\ a \in Addresses
              /\ c.node = b.node /\ c.listen = b.listen /\ c.peer_name = b.peer_name
              /\ c.left = b.left \ {a} /\ c.taken = b.taken + 1
              /\ full => /\ c.packets = Append(b.packets, Packet(b, row))
                         /\ c.records = NoRecords
              /\ ~full => c.packets = b.packets /\ c.records = row
<1> DEFINE c    == Encoded(b, a)
           row  == Pushed(b, a)
           full == Len(row.of) = MAX_RECORDS_PER_PACKET
<1>1. a \in Addresses
      BY DEF Answers
<1>2. row \in RecordRow /\ Packet(b, row) \in Packets
      BY <1>1, PushedTyped, PacketTyped
<1>3. NoRecords \in RecordRow
      BY EmptySeq DEF NoRecords, RecordRow
<1>4. Append(b.packets, Packet(b, row)) \in Seq(Packets)
      BY <1>2, AppendProperties DEF Answers
<1>5. b.taken + 1 \in 0..MaxAddresses
      BY MdnsPacketsAssumption DEF Answers, MdnsPacketsAssumption
<1>6. c = [b EXCEPT !.left    = b.left \ {a},
                    !.taken   = b.taken + 1,
                    !.packets = IF full THEN Append(b.packets, Packet(b, row)) ELSE b.packets,
                    !.records = IF full THEN NoRecords ELSE row]
      BY DEF Encoded, Cleared, Answers
<1> HIDE DEF c, row, full
<1>7. /\ c.node = b.node /\ c.listen = b.listen /\ c.peer_name = b.peer_name
      /\ c.left = b.left \ {a} /\ c.taken = b.taken + 1
      /\ c.packets = IF full THEN Append(b.packets, Packet(b, row)) ELSE b.packets
      /\ c.records = IF full THEN NoRecords ELSE row
      BY <1>6 DEF Answers
<1>8. c \in Answers
      BY <1>2, <1>3, <1>4, <1>5, <1>6 DEF Answers, RecordRow
<1> QED BY <1>1, <1>7, <1>8 DEF c, row, full

(* The end of the loop, field by field. *)
LEMMA Ending ==
    ASSUME NEW b \in Answers
    PROVE  LET c == Closed(b)
           IN /\ c \in Answers
              /\ c.node = b.node /\ c.listen = b.listen /\ c.peer_name = b.peer_name
              /\ \/ /\ b.records.of # <<>> \/ b.packets = <<>>
                    /\ c.packets = Append(b.packets, Packet(b, b.records))
                 \/ b.records.of = <<>> /\ b.packets # <<>> /\ c.packets = b.packets
<1> DEFINE last == Append(b.packets, Packet(b, b.records))
<1>1. last \in Seq(Packets)
  <2>1. b.records \in RecordRow /\ b.packets \in Seq(Packets)
        BY DEF Answers, RecordRow
  <2> QED BY <2>1, PacketTyped, AppendProperties
<1>2. CASE b.records.of # <<>> \/ b.packets = <<>>
  <2>1. Closed(b) = [b EXCEPT !.packets = last]
        BY <1>2 DEF Closed, Answers
  <2> HIDE DEF last
  <2>2. Closed(b) \in Answers
        BY <1>1, <2>1 DEF Answers
  <2>3. /\ Closed(b).node = b.node /\ Closed(b).listen = b.listen
        /\ Closed(b).peer_name = b.peer_name /\ Closed(b).packets = last
        BY <2>1 DEF Answers
  <2> QED BY <1>2, <2>2, <2>3 DEF last
<1>3. CASE ~(b.records.of # <<>> \/ b.packets = <<>>)
      BY <1>3 DEF Closed
<1> QED BY <1>2, <1>3

(* Every step keeps the types. *)
LEMMA TypedAlways == Spec => []Typed
<1>1. Init => Typed
      BY DEF Init, Typed
<1>2. Typed /\ [Next]_vars => Typed'
  <2> SUFFICES ASSUME Typed, [Next]_vars PROVE Typed'
      OBVIOUS
  <2>1. ASSUME NEW n \in Nodes, NEW listen \in SUBSET Addresses,
               NEW peer_name \in PeerNames, Answer(n, listen, peer_name)
        PROVE  Typed'
    <3>1. /\ 0 \in 0..MaxAddresses /\ <<>> \in Seq(Packets)
          /\ NoRecords \in [of : Seq(Addresses), bytes : Nat]
          BY MdnsPacketsAssumption, EmptySeq DEF NoRecords, MdnsPacketsAssumption
    <3>2. Begun(n, listen, peer_name) \in Answers
          BY <3>1 DEF Begun, Answers
    <3> QED BY <2>1, <3>2 DEF Answer, Typed
  <2>2. ASSUME NEW b \in building, Encode(b) PROVE Typed'
    <3>1. PICK a \in b.left : building' = (building \ {b}) \cup {Encoded(b, a)}
          BY <2>2 DEF Encode
    <3>2. b \in Answers /\ b.taken < MaxAddresses
          BY <2>2 DEF Encode, Typed
    <3>3. Encoded(b, a) \in Answers
          BY <3>2, Round
    <3> QED BY <2>2, <3>1, <3>3 DEF Encode, Typed
  <2>3. ASSUME NEW b \in building, Finish(b) PROVE Typed'
    <3>1. Closed(b) \in Answers
          BY Ending DEF Typed
    <3>2. Range(Closed(b).packets) \subseteq Packets
      <4>1. Closed(b).packets \in Seq(Packets)
            BY <3>1 DEF Answers
      <4> QED BY <4>1, RangeOfSeq
    <3> QED BY <2>3, <3>1, <3>2 DEF Finish, Typed
  <2>4. ASSUME NEW d \in wire, Receive(d[1], d[2]) PROVE Typed'
    <3>1. d[1] \in Nodes /\ d[2] \in Packets
          BY DEF Typed
    <3>2. Peers(d[2]) \subseteq Nodes \X Addresses
      <4>1. \A a \in Range(d[2].records) : a \in Addresses
            BY <3>1, RangeOfSeq DEF Packets
      <4>2. d[2].peer \in Nodes
            BY <3>1 DEF Packets
      <4>3. \A a \in Addresses : Translated(d[2], a) \in Addresses
            BY <4>2 DEF Translated, Addresses
      <4> QED BY <4>1, <4>2, <4>3 DEF Peers
    <3>3. Extracted(d[1], d[2]) \subseteq Nodes \X Addresses
          BY <3>2 DEF Extracted
    <3>4. found' \in [Nodes -> SUBSET (Nodes \X Addresses)]
          BY <2>4, <3>1, <3>3 DEF Receive, Typed
    <3> QED BY <2>4, <3>4 DEF Receive, Typed
  <2>5. ASSUME NEW d \in wire, Lose(d[1], d[2]) PROVE Typed'
        BY <2>5 DEF Lose, Typed
  <2>6. CASE UNCHANGED vars
        BY <2>6 DEF vars, Typed
  <2> QED BY <2>1, <2>2, <2>3, <2>4, <2>5, <2>6 DEF Next, Network
<1> QED BY <1>1, <1>2, PTL DEF Spec

-----------------------------------------------------------------------------
(* The loop of build_query_response *)

(* A round leaves every record at its place, and adds at most one: that of *)
(* the address, behind the others.                                         *)
LEMMA RoundPlaces ==
    ASSUME NEW b \in Answers, NEW a \in b.left, b.taken < MaxAddresses
    PROVE  LET c == Encoded(b, a)
               n == Len(b.packets) + 1
               m == Len(b.records.of) + 1
           IN /\ \A i \in Chunks(b) :
                    /\ i \in Chunks(c)
                    /\ \A j \in 1..Len(Chunk(b, i)) :
                          j \in 1..Len(Chunk(c, i)) /\ Chunk(c, i)[j] = Chunk(b, i)[j]
              /\ \A i \in Chunks(c) : \A j \in 1..Len(Chunk(c, i)) :
                    \/ i \in Chunks(b) /\ j \in 1..Len(Chunk(b, i))
                    \/ Written(a) /\ i = n /\ j = m
              /\ Written(a) => /\ n \in Chunks(c) /\ m \in 1..Len(Chunk(c, n))
                              /\ Chunk(c, n)[m] = a
<1> DEFINE c    == Encoded(b, a)
           n    == Len(b.packets)
           m    == Len(b.records.of)
           row  == Pushed(b, a)
           full == Len(row.of) = MAX_RECORDS_PER_PACKET
<1>1. b.packets \in Seq(Packets) /\ b.records.of \in Seq(Addresses) /\ a \in Addresses
      BY DEF Answers
<1>2. n \in Nat /\ m \in Nat
      BY <1>1, LenProperties
<1>3. /\ full => c.packets = Append(b.packets, Packet(b, row)) /\ c.records = NoRecords
      /\ ~full => c.packets = b.packets /\ c.records = row
      BY Round
<1>4. Packet(b, row) \in Packets /\ Packet(b, row).records = row.of
      BY <1>1, PushedTyped, PacketTyped DEF Packet
<1>5. /\ Written(a) => row.of = Append(b.records.of, a)
      /\ ~Written(a) => row.of = b.records.of
      BY DEF Pushed
<1>6. /\ \A j \in 1..m : j \in 1..Len(row.of) /\ row.of[j] = b.records.of[j]
      /\ \A j \in 1..Len(row.of) : j \in 1..m \/ (Written(a) /\ j = m + 1)
      /\ Written(a) => m + 1 \in 1..Len(row.of) /\ row.of[m + 1] = a
      BY <1>1, <1>2, <1>5, AppendProperties
<1>7. Chunk(b, n + 1) = b.records.of /\ \A i \in 1..n : Chunk(b, i) = b.packets[i].records
      BY <1>2 DEF Chunk
<1> HIDE DEF c, row
<1>8. /\ \A i \in 1..n : Chunk(c, i) = Chunk(b, i)
      /\ Chunk(c, n + 1) = row.of
      /\ 1..n + 1 \subseteq Chunks(c)
      /\ \A i \in Chunks(c) : i \in 1..n + 1 \/ Chunk(c, i) = <<>>
  <2>1. CASE full
    <3>1. /\ Len(c.packets) = n + 1 /\ c.packets[n + 1] = Packet(b, row)
          /\ \A i \in 1..n : c.packets[i] = b.packets[i]
          BY <1>1, <1>3, <1>4, <2>1, AppendProperties
    <3>2. Chunks(c) = 1..n + 2 /\ \A i \in 1..n + 1 : i \in 1..Len(c.packets)
          BY <1>2, <3>1 DEF Chunks
    <3>3. Chunk(c, n + 2) = <<>>
          BY <1>2, <1>3, <2>1, <3>1 DEF Chunk, NoRecords
    <3>4. Chunk(c, n + 1) = row.of
          BY <1>2, <1>4, <3>1, <3>2 DEF Chunk
    <3>5. \A i \in 1..n : Chunk(c, i) = Chunk(b, i)
          BY <1>2, <1>7, <3>1, <3>2 DEF Chunk
    <3> QED BY <1>2, <3>2, <3>3, <3>4, <3>5
  <2>2. CASE ~full
    <3>1. c.packets = b.packets /\ c.records.of = row.of
          BY <1>3, <2>2
    <3> QED BY <1>2, <1>7, <3>1 DEF Chunk, Chunks
  <2> QED BY <2>1, <2>2
<1>9. Chunks(b) = 1..n + 1
      BY DEF Chunks
<1> HIDE DEF n, m
<1>10. ASSUME NEW i \in Chunks(b)
       PROVE  /\ i \in Chunks(c)
              /\ \A j \in 1..Len(Chunk(b, i)) :
                    j \in 1..Len(Chunk(c, i)) /\ Chunk(c, i)[j] = Chunk(b, i)[j]
  <2>1. i \in Chunks(c)
        BY <1>8, <1>9
  <2>2. CASE i \in 1..n
        BY <1>8, <2>1, <2>2
  <2>3. CASE i = n + 1
        BY <1>6, <1>7, <1>8, <2>1, <2>3 DEF m
  <2> QED BY <1>2, <1>9, <2>2, <2>3
<1>11. ASSUME NEW i \in Chunks(c), NEW j \in 1..Len(Chunk(c, i))
       PROVE  \/ i \in Chunks(b) /\ j \in 1..Len(Chunk(b, i))
              \/ Written(a) /\ i = n + 1 /\ j = m + 1
  <2>1. i \in 1..n + 1
    <3>1. CASE Chunk(c, i) = <<>>
      <4>1. Len(Chunk(c, i)) = 0
            BY <3>1, EmptySeq
      <4> QED BY <4>1
    <3> QED BY <1>8, <3>1
  <2>2. CASE i \in 1..n
        BY <1>8, <1>9, <2>1, <2>2
  <2>3. CASE i = n + 1
        BY <1>6, <1>7, <1>8, <1>9, <2>1, <2>3 DEF m
  <2> QED BY <1>2, <2>1, <2>2, <2>3
<1>12. Written(a) => /\ n + 1 \in Chunks(c) /\ m + 1 \in 1..Len(Chunk(c, n + 1))
                     /\ Chunk(c, n + 1)[m + 1] = a
       BY <1>2, <1>6, <1>8
<1> QED BY <1>10, <1>11, <1>12 DEF c, n, m

LEMMA RecordsFit ==
    /\ MAX_RECORDS_PER_PACKET \in Nat \ {0}
    /\ 300 * MAX_RECORDS_PER_PACKET <= MAX_PACKET_SIZE - 100
<1>1. MAX_PACKET_SIZE \in Nat /\ MAX_PACKET_SIZE >= 400
      BY MdnsPacketsAssumption DEF MdnsPacketsAssumption
<1> QED BY <1>1 DEF MAX_RECORDS_PER_PACKET, MAX_TXT_RECORD_SIZE, MAX_TXT_VALUE_LENGTH

LEMMA ListenFinite ==
    ASSUME NEW b \in Answers
    PROVE  IsFiniteSet(b.listen) /\ \A S \in SUBSET b.listen : IsFiniteSet(S)
<1>1. IsFiniteSet(Addresses) /\ b.listen \subseteq Addresses
      BY MdnsPacketsAssumption DEF MdnsPacketsAssumption, Answers
<1> QED BY <1>1, FS_Subset

(* A round keeps the loop invariant. *)
LEMMA RoundPacked ==
    ASSUME NEW b \in Answers, NEW a \in b.left, b.taken < MaxAddresses, Packed(b)
    PROVE  Packed(Encoded(b, a))
<1> DEFINE c    == Encoded(b, a)
           m    == Len(b.records.of)
           row  == Pushed(b, a)
           full == Len(row.of) = MAX_RECORDS_PER_PACKET
<1>1. /\ c.node = b.node /\ c.peer_name = b.peer_name
      /\ full => c.packets = Append(b.packets, Packet(b, row)) /\ c.records = NoRecords
      /\ ~full => c.packets = b.packets /\ c.records = row
      BY Round
<1>2. /\ b.packets \in Seq(Packets) /\ b.records.of \in Seq(Addresses) /\ a \in Addresses
      /\ b.records.bytes \in Nat /\ b.peer_name \in Nat /\ a.text \in Nat
      /\ ServiceName \in Nat
      BY Sizes DEF Answers
<1>3. row \in RecordRow /\ Packet(b, row) \in Packets
      BY <1>2, PushedTyped, PacketTyped
<1>4. row.of \in Seq(Addresses) /\ Len(row.of) \in Nat /\ row.bytes \in Nat /\ m \in Nat
      BY <1>2, <1>3, LenProperties DEF RecordRow
<1>5. Len(row.of) <= MAX_RECORDS_PER_PACKET
  <2>1. Len(row.of) = m \/ Len(row.of) = m + 1
        BY <1>2, AppendProperties DEF Pushed
  <2> QED BY <1>4, <2>1, RecordsFit DEF Packed
<1>6. row.bytes <= Longest(b) * Len(row.of)
  <2>1. CASE Written(a)
    <3>1. Len(row.of) = m + 1
          BY <1>2, <2>1, AppendProperties DEF Pushed
    <3>2. row.bytes = b.records.bytes + (b.peer_name + 11 + a.text) /\ a.text <= 255
          BY <2>1 DEF Pushed, RecordSize, Written, MAX_TXT_VALUE_LENGTH
    <3>3. b.records.bytes <= Longest(b) * m
          BY DEF Packed
    <3>4. \A n, k, x, y, t \in Nat :
             y <= (n + 266) * k /\ t <= 255 /\ x = y + (n + 11 + t)
                => x <= (n + 266) * (k + 1)
          OBVIOUS
    <3> HIDE DEF row, m
    <3>5. b.records.bytes <= (b.peer_name + 266) * m
          BY <3>3 DEF Longest
    <3>6. row.bytes <= (b.peer_name + 266) * (m + 1)
          BY <1>2, <1>4, <3>2, <3>4, <3>5
    <3> QED BY <3>1, <3>6 DEF Longest
  <2>2. CASE ~Written(a)
        BY <2>2 DEF Pushed, Packed
  <2> QED BY <2>1, <2>2
<1>7. CASE full
  <2>1. row.of # <<>>
        BY <1>4, <1>7, RecordsFit, EmptySeq
  <2>2. PacketOf(b, Packet(b, row)) /\ Packet(b, row).records # <<>>
    <3> HIDE DEF row
    <3>1. 22 + ServiceName + b.peer_name + row.bytes \in Nat
          BY <1>2, <1>4
    <3>2. 22 + ServiceName + b.peer_name + row.bytes
             <= 22 + ServiceName + b.peer_name + Longest(b) * Len(row.of)
      <4>1. Longest(b) * Len(row.of) \in Nat
            BY <1>2, <1>4 DEF Longest
      <4> QED BY <1>2, <1>4, <1>6, <4>1
    <3> QED BY <1>5, <2>1, <3>1, <3>2 DEF PacketOf, Packet
  <2>3. c.packets = Append(b.packets, Packet(b, row)) /\ c.records = NoRecords
        BY <1>1, <1>7
  <2>4. \A i \in 1..Len(c.packets) : \/ i \in 1..Len(b.packets) /\ c.packets[i] = b.packets[i]
                                    \/ c.packets[i] = Packet(b, row)
        BY <1>2, <1>3, <2>3, AppendProperties
  <2>5. Len(NoRecords.of) = 0 /\ NoRecords.bytes = 0
        BY EmptySeq DEF NoRecords
  <2> HIDE DEF c, row
  <2>6. ASSUME NEW i \in 1..Len(c.packets)
        PROVE  PacketOf(c, c.packets[i]) /\ c.packets[i].records # <<>>
    <3>1. PacketOf(b, c.packets[i]) /\ c.packets[i].records # <<>>
      <4>1. CASE i \in 1..Len(b.packets) /\ c.packets[i] = b.packets[i]
            BY <4>1 DEF Packed
      <4>2. CASE c.packets[i] = Packet(b, row)
            BY <2>2, <4>2
      <4> QED BY <2>4, <4>1, <4>2
    <3> QED BY <1>1, <3>1 DEF PacketOf, Longest
  <2>7. Len(c.records.of) < MAX_RECORDS_PER_PACKET
        BY <2>3, <2>5, RecordsFit
  <2>8. c.records.bytes <= Longest(c) * Len(c.records.of)
    <3>1. Longest(c) \in Nat
          BY <1>1, <1>2 DEF Longest
    <3> QED BY <2>3, <2>5, <3>1
  <2> QED BY <2>6, <2>7, <2>8 DEF Packed, c
<1>8. CASE ~full
  <2>1. c.packets = b.packets /\ c.records = row
        BY <1>1, <1>8
  <2>2. Len(row.of) < MAX_RECORDS_PER_PACKET
        BY <1>4, <1>5, <1>8, RecordsFit
  <2> HIDE DEF c, row
  <2>3. \A i \in 1..Len(c.packets) : PacketOf(c, c.packets[i]) /\ c.packets[i].records # <<>>
        BY <1>1, <2>1 DEF Packed, PacketOf, Longest
  <2>4. c.records.bytes <= Longest(c) * Len(c.records.of)
        BY <1>1, <1>6, <2>1 DEF Longest
  <2> QED BY <1>1, <2>1, <2>2, <2>3, <2>4 DEF Packed, c
<1> QED BY <1>7, <1>8

LEMMA RoundInv ==
    ASSUME NEW b \in Answers, NEW a \in b.left, b.taken < MaxAddresses, LoopInv(b)
    PROVE  LoopInv(Encoded(b, a))
<1> DEFINE c == Encoded(b, a)
           n == Len(b.packets) + 1
           m == Len(b.records.of) + 1
<1>1. /\ c.listen = b.listen /\ c.left = b.left \ {a} /\ c.taken = b.taken + 1
      /\ a \in b.listen
      BY Round DEF LoopInv
<1>2. /\ \A i \in Chunks(b) :
            /\ i \in Chunks(c)
            /\ \A j \in 1..Len(Chunk(b, i)) :
                  j \in 1..Len(Chunk(c, i)) /\ Chunk(c, i)[j] = Chunk(b, i)[j]
      /\ \A i \in Chunks(c) : \A j \in 1..Len(Chunk(c, i)) :
            \/ i \in Chunks(b) /\ j \in 1..Len(Chunk(b, i))
            \/ Written(a) /\ i = n /\ j = m
      /\ Written(a) => /\ n \in Chunks(c) /\ m \in 1..Len(Chunk(c, n))
                      /\ Chunk(c, n)[m] = a
      BY RoundPlaces
<1>3. c.left \subseteq c.listen /\ c.listen \ c.left = (b.listen \ b.left) \cup {a}
      BY <1>1 DEF LoopInv
<1>4. c.taken = Cardinality(c.listen \ c.left)
  <2>1. IsFiniteSet(b.listen \ b.left) /\ a \notin b.listen \ b.left
        BY ListenFinite
  <2>2. Cardinality((b.listen \ b.left) \cup {a}) = Cardinality(b.listen \ b.left) + 1
        BY <2>1, FS_AddElement
  <2> QED BY <1>1, <1>3, <2>2 DEF LoopInv
<1>5. Packed(c)
      BY RoundPacked DEF LoopInv
<1> HIDE DEF c, n, m
<1>6. OfTaken(c)
      BY <1>1, <1>2, <1>3 DEF OfTaken, LoopInv
<1>7. AllTaken(c)
  <2> SUFFICES ASSUME NEW x \in c.listen \ c.left, Written(x)
               PROVE  \E i \in Chunks(c) : \E j \in 1..Len(Chunk(c, i)) : Chunk(c, i)[j] = x
      BY DEF AllTaken
  <2>1. CASE x = a
        BY <1>2, <2>1
  <2>2. CASE x # a
    <3>1. PICK i \in Chunks(b) : \E j \in 1..Len(Chunk(b, i)) : Chunk(b, i)[j] = x
          BY <1>3, <2>2 DEF LoopInv, AllTaken
    <3> QED BY <1>2, <3>1
  <2> QED BY <2>1, <2>2
<1>8. OncePlaced(c)
  <2> SUFFICES ASSUME NEW i \in Chunks(c), NEW k \in Chunks(c),
                      NEW j \in 1..Len(Chunk(c, i)), NEW l \in 1..Len(Chunk(c, k)),
                      Chunk(c, i)[j] = Chunk(c, k)[l]
               PROVE  i = k /\ j = l
      BY DEF OncePlaced
  <2>1. ASSUME NEW e \in Chunks(b), NEW f \in 1..Len(Chunk(b, e)) PROVE Chunk(c, e)[f] # a
    <3>1. Chunk(c, e)[f] \in b.listen \ b.left
          BY <1>2 DEF LoopInv, OfTaken
    <3> QED BY <3>1
  <2>2. CASE /\ i \in Chunks(b) /\ j \in 1..Len(Chunk(b, i))
             /\ k \in Chunks(b) /\ l \in 1..Len(Chunk(b, k))
    <3>1. Chunk(b, i)[j] = Chunk(b, k)[l]
          BY <1>2, <2>2
    <3> QED BY <2>2, <3>1 DEF LoopInv, OncePlaced
  <2>3. CASE ~(i \in Chunks(b) /\ j \in 1..Len(Chunk(b, i)))
    <3>1. i = n /\ j = m /\ Chunk(c, i)[j] = a
          BY <1>2, <2>3
    <3>2. ~(k \in Chunks(b) /\ l \in 1..Len(Chunk(b, k)))
          BY <2>1, <3>1
    <3> QED BY <1>2, <3>1, <3>2
  <2>4. CASE ~(k \in Chunks(b) /\ l \in 1..Len(Chunk(b, k)))
    <3>1. k = n /\ l = m /\ Chunk(c, k)[l] = a
          BY <1>2, <2>4
    <3>2. ~(i \in Chunks(b) /\ j \in 1..Len(Chunk(b, i)))
          BY <2>1, <3>1
    <3> QED BY <1>2, <3>1, <3>2
  <2> QED BY <2>2, <2>3, <2>4
<1> QED BY <1>3, <1>4, <1>5, <1>6, <1>7, <1>8 DEF LoopInv, c

(* An answer begins with nothing in its chunks. *)
LEMMA BeginInv ==
    ASSUME NEW n \in Nodes, NEW listen \in SUBSET Addresses, NEW peer_name \in PeerNames
    PROVE  LoopInv(Begun(n, listen, peer_name))
<1> DEFINE b == Begun(n, listen, peer_name)
<1>1. /\ b.left = listen /\ b.listen = listen /\ b.taken = 0
      /\ b.packets = <<>> /\ b.records.of = <<>> /\ b.records.bytes = 0
      BY DEF Begun, NoRecords
<1> HIDE DEF b
<1>2. Len(b.packets) = 0 /\ Len(b.records.of) = 0
      BY <1>1, EmptySeq
<1>3. \A i \in Chunks(b) : Len(Chunk(b, i)) = 0
      BY <1>2 DEF Chunks, Chunk
<1>4. b.listen \ b.left = {} /\ Cardinality({}) = 0
      BY <1>1, FS_EmptySet
<1>5. OfTaken(b) /\ AllTaken(b) /\ OncePlaced(b)
      BY <1>3, <1>4 DEF OfTaken, AllTaken, OncePlaced
<1>6. Packed(b)
  <2>1. b.peer_name \in Nat
        BY Sizes DEF b, Begun
  <2>2. b.records.bytes <= Longest(b) * Len(b.records.of)
        BY <1>1, <1>2, <2>1 DEF Longest
  <2> QED BY <1>1, <1>2, <2>2, RecordsFit DEF Packed
<1> QED BY <1>1, <1>4, <1>5, <1>6 DEF LoopInv, b

(* Closing an answer puts each chunk that is not empty into a packet. *)
LEMMA EndPlaces ==
    ASSUME NEW b \in Answers
    PROVE  LET packets == Closed(b).packets
           IN /\ packets \in Seq(Packets) /\ DOMAIN packets = 1..Len(packets)
              /\ \A i \in DOMAIN packets :
                    i \in Chunks(b) /\ packets[i].records = Chunk(b, i)
              /\ \A i \in Chunks(b) : i \in DOMAIN packets \/ Chunk(b, i) = <<>>
<1> DEFINE packets == Closed(b).packets
           last    == Packet(b, b.records)
           n       == Len(b.packets)
<1>1. packets \in Seq(Packets) /\ DOMAIN packets = 1..Len(packets)
  <2>1. Closed(b) \in Answers
        BY Ending
  <2>2. packets \in Seq(Packets)
        BY <2>1 DEF Answers
  <2> QED BY <2>2, LenProperties
<1>2. b.packets \in Seq(Packets) /\ n \in Nat /\ last \in Packets
  <2>1. b.records \in RecordRow /\ b.packets \in Seq(Packets)
        BY DEF Answers, RecordRow
  <2> QED BY <2>1, PacketTyped, LenProperties
<1>3. last.records = b.records.of /\ Chunk(b, n + 1) = b.records.of
      BY <1>2 DEF Packet, Chunk
<1>4. \/ packets = Append(b.packets, last)
      \/ packets = b.packets /\ b.records.of = <<>>
      BY Ending
<1> HIDE DEF packets, last
<1>5. CASE packets = Append(b.packets, last)
  <2>1. /\ Len(packets) = n + 1 /\ packets[n + 1] = last
        /\ \A i \in 1..n : packets[i] = b.packets[i]
        BY <1>2, <1>5, AppendProperties
  <2>2. \A i \in 1..n + 1 : i \in 1..n \/ i = n + 1
        BY <1>2
  <2> QED BY <1>1, <1>3, <2>1, <2>2 DEF Chunks, Chunk, packets
<1>6. CASE packets = b.packets /\ b.records.of = <<>>
  <2>1. \A i \in 1..n + 1 : i \in 1..n \/ i = n + 1
        BY <1>2
  <2>2. \A i \in 1..n : i \in 1..n + 1
        BY <1>2
  <2> QED BY <1>1, <1>3, <1>6, <2>1, <2>2 DEF Chunks, Chunk, packets
<1> QED BY <1>4, <1>5, <1>6

(* After the last round everything has been taken, unless it was too much. *)
LEMMA EndTaken ==
    ASSUME NEW b \in Answers, LoopInv(b), b.left = {} \/ b.taken = MaxAddresses,
           Cardinality(b.listen) <= MaxAddresses
    PROVE  b.listen \ b.left = b.listen
<1>1. CASE b.left = {}
      BY <1>1
<1>2. CASE b.taken = MaxAddresses
  <2>1. IsFiniteSet(b.listen) /\ b.listen \ b.left \subseteq b.listen
        BY ListenFinite
  <2>2. /\ Cardinality(b.listen \ b.left) <= Cardinality(b.listen)
        /\ Cardinality(b.listen \ b.left) = Cardinality(b.listen)
              => b.listen \ b.left = b.listen
        BY <2>1, FS_Subset
  <2>3. Cardinality(b.listen) \in Nat /\ MaxAddresses \in Nat
        BY <2>1, FS_CardinalityType, MdnsPacketsAssumption DEF MdnsPacketsAssumption
  <2> QED BY <1>2, <2>2, <2>3 DEF LoopInv
<1> QED BY <1>1, <1>2

LEMMA EndPackets ==
    ASSUME NEW b \in Answers, Packed(b), NEW p \in Range(Closed(b).packets)
    PROVE  /\ PacketOf(Closed(b), p)
           /\ p.records = <<>> => Closed(b).packets = Append(<<>>, p)
<1> DEFINE c    == Closed(b)
           last == Packet(b, b.records)
<1>1. /\ c.node = b.node /\ c.peer_name = b.peer_name
      /\ \/ /\ b.records.of # <<>> \/ b.packets = <<>>
            /\ c.packets = Append(b.packets, last)
         \/ c.packets = b.packets
      BY Ending
<1>2. /\ b.packets \in Seq(Packets) /\ last \in Packets /\ b.peer_name \in Nat
      /\ b.records.of \in Seq(Addresses) /\ b.records.bytes \in Nat /\ ServiceName \in Nat
  <2>1. b.records \in RecordRow /\ b.packets \in Seq(Packets) /\ b.peer_name \in PeerNames
        BY DEF Answers, RecordRow
  <2> QED BY <2>1, PacketTyped, Sizes DEF RecordRow
<1>3. p \in Range(b.packets) \/ (p = last /\ c.packets = Append(b.packets, last))
  <2>1. CASE c.packets = Append(b.packets, last)
    <3>1. Range(c.packets) = {c.packets[i] : i \in 1..Len(c.packets)}
      <4>1. c.packets \in Seq(Packets)
            BY <1>2, <2>1, AppendProperties
      <4> QED BY <4>1, RangeEquality
    <3>2. \A i \in 1..Len(c.packets) : \/ i \in 1..Len(b.packets) /\ c.packets[i] = b.packets[i]
                                      \/ c.packets[i] = last
          BY <1>2, <2>1, AppendProperties
    <3>3. Range(b.packets) = {b.packets[i] : i \in 1..Len(b.packets)}
          BY <1>2, RangeEquality
    <3> QED BY <2>1, <3>1, <3>2, <3>3
  <2>2. CASE c.packets = b.packets
        BY <2>2
  <2> QED BY <1>1, <2>1, <2>2
<1>4. CASE p \in Range(b.packets)
  <2>1. PICK i \in 1..Len(b.packets) : p = b.packets[i]
        BY <1>2, <1>4, RangeEquality
  <2>2. PacketOf(b, p) /\ p.records # <<>>
        BY <2>1 DEF Packed
  <2> QED BY <1>1, <2>2 DEF PacketOf, Longest
<1>5. CASE p = last /\ c.packets = Append(b.packets, last)
  <2>1. /\ p.peer = b.node /\ p.peer_name = b.peer_name /\ p.records = b.records.of
        /\ p.bytes = 22 + ServiceName + b.peer_name + b.records.bytes
        BY <1>5 DEF Packet
  <2>2. Len(p.records) \in Nat /\ Len(p.records) < MAX_RECORDS_PER_PACKET
        BY <1>2, <2>1, LenProperties DEF Packed
  <2>3. p.bytes <= 22 + ServiceName + b.peer_name + Longest(b) * Len(p.records)
    <3>1. b.records.bytes <= Longest(b) * Len(p.records)
          BY <2>1 DEF Packed
    <3>2. Longest(b) * Len(p.records) \in Nat
          BY <1>2, <2>2 DEF Longest
    <3> QED BY <1>2, <2>1, <3>1, <3>2
  <2>4. PacketOf(c, p)
        BY <1>1, <2>1, <2>2, <2>3, RecordsFit DEF PacketOf, Longest
  <2>5. ASSUME p.records = <<>> PROVE c.packets = Append(<<>>, p)
    <3>1. b.records.of = <<>>
          BY <2>1, <2>5
    <3>2. b.packets = <<>> \/ c.packets = b.packets
          BY <1>1, <3>1
    <3>3. c.packets # b.packets
      <4>1. Len(Append(b.packets, last)) # Len(b.packets)
            BY <1>2, AppendProperties, LenProperties
      <4> QED BY <1>5, <4>1
    <3> QED BY <1>5, <3>2, <3>3
  <2> QED BY <2>4, <2>5
<1> QED BY <1>3, <1>4, <1>5

(* What the loop leaves behind tells each address once. *)
LEMMA EndTold ==
    ASSUME NEW b \in Answers, LoopInv(b), b.left = {} \/ b.taken = MaxAddresses
    PROVE  ToldOnce(Closed(b))
<1> DEFINE c       == Closed(b)
           packets == c.packets
           told    == UNION {Range(p.records) : p \in Range(packets)}
           short   == {a \in c.listen : a.text <= MAX_TXT_VALUE_LENGTH}
<1>1. c.listen = b.listen /\ packets # <<>>
  <2>1. b.packets \in Seq(Packets) /\ Packet(b, b.records) \in Packets
    <3>1. b.records \in RecordRow /\ b.packets \in Seq(Packets)
          BY DEF Answers, RecordRow
    <3> QED BY <3>1, PacketTyped
  <2> QED BY <2>1, Ending, AppendProperties
<1>2. /\ packets \in Seq(Packets) /\ DOMAIN packets = 1..Len(packets)
      /\ \A i \in DOMAIN packets : i \in Chunks(b) /\ packets[i].records = Chunk(b, i)
      /\ \A i \in Chunks(b) : i \in DOMAIN packets \/ Chunk(b, i) = <<>>
      BY EndPlaces
<1>3. OfTaken(b) /\ AllTaken(b) /\ OncePlaced(b) /\ Packed(b)
      BY DEF LoopInv
<1>4. \A p \in Range(packets) : p.records = <<>> => packets = Append(<<>>, p)
      BY <1>3, EndPackets
<1> HIDE DEF c
<1>5. \A i \in DOMAIN packets :
         /\ packets[i].records \in Seq(Addresses)
         /\ DOMAIN packets[i].records = 1..Len(Chunk(b, i))
  <2> SUFFICES ASSUME NEW i \in DOMAIN packets
               PROVE  /\ packets[i].records \in Seq(Addresses)
                      /\ DOMAIN packets[i].records = 1..Len(Chunk(b, i))
      OBVIOUS
  <2>1. packets[i] \in Packets
        BY <1>2, ElementOfSeq
  <2>2. packets[i].records \in Seq(Addresses)
        BY <2>1 DEF Packets
  <2> QED BY <1>2, <2>2, LenProperties
<1>6. \A x \in told : \E i \in Chunks(b) : \E j \in 1..Len(Chunk(b, i)) : Chunk(b, i)[j] = x
  <2> SUFFICES ASSUME NEW x \in told
               PROVE  \E k \in Chunks(b) : \E j \in 1..Len(Chunk(b, k)) : Chunk(b, k)[j] = x
      OBVIOUS
  <2>1. PICK p \in Range(packets) : x \in Range(p.records)
        OBVIOUS
  <2>2. PICK i \in DOMAIN packets : packets[i] = p
        BY DEF Range
  <2>3. PICK j \in 1..Len(Chunk(b, i)) : packets[i].records[j] = x
        BY <1>5, <2>1, <2>2 DEF Range
  <2> QED BY <1>2, <2>3
<1>7. \A i \in Chunks(b) : \A j \in 1..Len(Chunk(b, i)) : Chunk(b, i)[j] \in told
  <2> SUFFICES ASSUME NEW i \in Chunks(b), NEW j \in 1..Len(Chunk(b, i))
               PROVE  Chunk(b, i)[j] \in told
      OBVIOUS
  <2>1. i \in DOMAIN packets
    <3>1. Chunk(b, i) # <<>>
      <4>1. CASE Chunk(b, i) = <<>>
        <5>1. Len(Chunk(b, i)) = 0
              BY <4>1, EmptySeq
        <5> QED BY <5>1
      <4> QED BY <4>1
    <3> QED BY <1>2, <3>1
  <2>2. Chunk(b, i)[j] \in Range(packets[i].records)
        BY <1>2, <1>5, <2>1 DEF Range
  <2>3. packets[i] \in Range(packets)
        BY <2>1 DEF Range
  <2> QED BY <2>2, <2>3
<1> HIDE DEF told
<1>8. told \subseteq short
  <2> SUFFICES ASSUME NEW x \in told PROVE x \in short
      OBVIOUS
  <2>1. x \in b.listen /\ Written(x)
        BY <1>3, <1>6 DEF OfTaken
  <2> QED BY <1>1, <2>1 DEF Written
<1>9. Cardinality(c.listen) <= MaxAddresses => short \subseteq told
  <2> SUFFICES ASSUME Cardinality(c.listen) <= MaxAddresses, NEW x \in short
               PROVE  x \in told
      OBVIOUS
  <2>1. x \in b.listen \ b.left /\ Written(x)
        BY <1>1, EndTaken DEF Written
  <2> QED BY <1>3, <1>7, <2>1 DEF AllTaken
<1>10. \A i, k \in DOMAIN packets :
          \A j \in DOMAIN packets[i].records, l \in DOMAIN packets[k].records :
             packets[i].records[j] = packets[k].records[l] => i = k /\ j = l
  <2> SUFFICES ASSUME NEW i \in DOMAIN packets, NEW k \in DOMAIN packets,
                      NEW j \in DOMAIN packets[i].records,
                      NEW l \in DOMAIN packets[k].records,
                      packets[i].records[j] = packets[k].records[l]
               PROVE  i = k /\ j = l
      OBVIOUS
  <2>1. /\ i \in Chunks(b) /\ packets[i].records = Chunk(b, i)
        /\ k \in Chunks(b) /\ packets[k].records = Chunk(b, k)
        BY <1>2
  <2>2. j \in 1..Len(Chunk(b, i)) /\ l \in 1..Len(Chunk(b, k))
        BY <1>5
  <2>3. Chunk(b, i)[j] = Chunk(b, k)[l]
        BY <2>1
  <2>4. OncePlaced(b)
        BY <1>3
  <2> HIDE DEF packets
  <2> QED BY <2>1, <2>2, <2>3, <2>4 DEF OncePlaced
<1>11. ASSUME NEW p \in Range(packets), p.records = <<>> PROVE told = {}
  <2>1. packets = Append(<<>>, p)
        BY <1>4, <1>11
  <2>2. Range(packets) = {p}
    <3>1. packets = <<p>>
          BY <2>1
    <3> QED BY <3>1 DEF Range
  <2>3. Range(p.records) = {}
        BY <1>11 DEF Range
  <2> QED BY <2>2, <2>3 DEF told
<1> HIDE DEF packets
<1> QED BY <1>1, <1>8, <1>9, <1>10, <1>11 DEF ToldOnce, packets, c, told

-----------------------------------------------------------------------------
(* What was built, and what is on its way *)

(* Every step keeps the invariant of the answers. *)
LEMMA AnswersStep == Typed /\ AnswersInv /\ [Next]_vars => AnswersInv'
<1> SUFFICES ASSUME Typed, AnswersInv, [Next]_vars PROVE AnswersInv'
    OBVIOUS
<1>1. ASSUME NEW n \in Nodes, NEW listen \in SUBSET Addresses,
             NEW peer_name \in PeerNames, Answer(n, listen, peer_name)
      PROVE  AnswersInv'
  <2>1. LoopInv(Begun(n, listen, peer_name))
        BY BeginInv
  <2> QED BY <1>1, <2>1 DEF Answer, AnswersInv, RecordsOnce
<1>2. ASSUME NEW b \in building, Encode(b) PROVE AnswersInv'
  <2>1. PICK a \in b.left : building' = (building \ {b}) \cup {Encoded(b, a)}
        BY <1>2 DEF Encode
  <2>2. b \in Answers /\ LoopInv(b) /\ b.taken < MaxAddresses
        BY <1>2 DEF Encode, Typed, AnswersInv
  <2>3. LoopInv(Encoded(b, a))
        BY <2>2, RoundInv
  <2> QED BY <1>2, <2>1, <2>3 DEF Encode, AnswersInv, RecordsOnce
<1>3. ASSUME NEW b \in building, Finish(b) PROVE AnswersInv'
  <2>1. /\ b \in Answers /\ LoopInv(b)
        /\ b.left = {} \/ b.taken = MaxAddresses
        /\ building' = building \ {b} /\ answers' = answers \cup {Closed(b)}
        /\ wire' = wire \cup (Nodes \X Range(Closed(b).packets)) /\ lost' = lost
        BY <1>3 DEF Finish, Typed, AnswersInv
  <2>2. ToldOnce(Closed(b))
        BY <2>1, EndTold
  <2>3. \A p \in Range(Closed(b).packets) : PacketOf(Closed(b), p)
        BY <2>1, EndPackets DEF LoopInv
  <2>4. \A d \in wire' \cup lost' : \E answer \in answers' : d[2] \in Range(answer.packets)
        BY <2>1 DEF AnswersInv
  <2>5. RecordsOnce'
        BY <2>1, <2>2 DEF AnswersInv, RecordsOnce
  <2> QED BY <2>1, <2>3, <2>4, <2>5 DEF AnswersInv
<1>4. ASSUME NEW d \in wire, Receive(d[1], d[2]) PROVE AnswersInv'
      BY <1>4 DEF Receive, AnswersInv, RecordsOnce
<1>5. ASSUME NEW d \in wire, Lose(d[1], d[2]) PROVE AnswersInv'
  <2>1. <<d[1], d[2]>> \in wire
        BY <1>5 DEF Lose
  <2>2. wire' \cup lost' \subseteq wire \cup lost
        BY <1>5, <2>1 DEF Lose
  <2> QED BY <1>5, <2>2 DEF Lose, AnswersInv, RecordsOnce
<1>6. CASE UNCHANGED vars
      BY <1>6 DEF vars, AnswersInv, RecordsOnce
<1> QED BY <1>1, <1>2, <1>3, <1>4, <1>5, <1>6 DEF Next, Network

LEMMA AnswersAlways == Spec => []AnswersInv
<1>1. Init => AnswersInv
      BY DEF Init, AnswersInv, RecordsOnce
<1> QED BY <1>1, TypedAlways, AnswersStep, PTL DEF Spec

(* An answer tells each address once, however its rounds fill the packets. *)
THEOREM AnswersTellOnce == Spec => []RecordsOnce
<1>1. AnswersInv => RecordsOnce
      BY DEF AnswersInv
<1> QED BY <1>1, AnswersAlways, PTL

(* The records of a packet, told by its answer, are short addresses of it. *)
LEMMA ToldBy ==
    ASSUME AnswersInv, NEW answer \in answers, NEW p \in Range(answer.packets),
           NEW a \in Range(p.records)
    PROVE  a \in answer.listen /\ a.text <= MAX_TXT_VALUE_LENGTH
<1>1. ToldOnce(answer)
      BY DEF AnswersInv, RecordsOnce
<1>2. a \in UNION {Range(q.records) : q \in Range(answer.packets)}
      OBVIOUS
<1> QED BY <1>1, <1>2 DEF ToldOnce

(* All variables keep their types, and the length of each value that goes  *)
(* over the wire fits into its byte.                                       *)
THEOREM TypeCorrect == Spec => []TypeOK
<1>1. Typed /\ AnswersInv => TypeOK
  <2> SUFFICES ASSUME Typed, AnswersInv, NEW d \in wire \cup lost, NEW a \in Range(d[2].records)
               PROVE  a.text \in 0..255
      BY DEF Typed, TypeOK
  <2>1. PICK answer \in answers : d[2] \in Range(answer.packets)
        BY DEF AnswersInv
  <2>2. a \in answer.listen /\ a.text <= 255
        BY <2>1, ToldBy DEF MAX_TXT_VALUE_LENGTH
  <2>3. a.text \in Nat
        BY <2>2, Sizes DEF Typed, Answers
  <2> QED BY <2>2, <2>3
<1> QED BY <1>1, TypedAlways, AnswersAlways, PTL

(* What a packet is longer than it should be: nothing with one of the      *)
(* shortest names, and at most the rest of a longer one, once for each     *)
(* record and once for the header, for any size of packets and any number  *)
(* of addresses.                                                           *)
THEOREM PacketsBounded == Spec => []PacketsFit
<1>1. Typed /\ AnswersInv => PacketsFit
  <2> SUFFICES ASSUME Typed, AnswersInv, NEW d \in wire \cup lost
               PROVE  d[2].bytes + 44 <= MAX_PACKET_SIZE + ServiceName
                                           + (d[2].peer_name - 34) * (MAX_RECORDS_PER_PACKET + 1)
      BY DEF PacketsFit
  <2> DEFINE k == d[2].peer_name - 34
             l == Len(d[2].records)
             r == MAX_RECORDS_PER_PACKET
  <2>1. PICK answer \in answers : d[2] \in Range(answer.packets)
        BY DEF AnswersInv
  <2>2. PacketOf(answer, d[2])
        BY <2>1 DEF AnswersInv
  <2>3. d[2] \in Packets
        BY DEF Typed
  <2>4. d[2].bytes \in Nat /\ l \in Nat /\ d[2].peer_name \in 34..65
    <3>1. /\ d[2].bytes \in Nat /\ d[2].records \in Seq(Addresses)
          /\ d[2].peer_name \in PeerNames
          BY <2>3 DEF Packets
    <3>2. PeerNames \subseteq 34..65
          BY MdnsPacketsAssumption DEF MdnsPacketsAssumption
    <3> QED BY <3>1, <3>2, LenProperties
  <2>5. k \in Nat /\ d[2].peer_name = k + 34
    <3>1. \A x \in 34..65 : x - 34 \in Nat /\ x = x - 34 + 34
          OBVIOUS
    <3> QED BY <2>4, <3>1
  <2>6. /\ ServiceName \in Nat /\ MAX_PACKET_SIZE \in Nat
        /\ r \in Nat /\ 300 * r <= MAX_PACKET_SIZE - 100
        BY RecordsFit, MdnsPacketsAssumption DEF MdnsPacketsAssumption
  <2>7. /\ d[2].bytes <= 22 + ServiceName + d[2].peer_name + (d[2].peer_name + 266) * l
        /\ l <= r
        BY <2>2 DEF PacketOf, Longest
  <2> HIDE DEF k, l, r
  <2>8. d[2].bytes <= 56 + ServiceName + k + (k + 300) * l
        BY <2>4, <2>5, <2>6, <2>7
  <2>9. (k + 300) * l <= k * r + 300 * r
    <3>1. \A x, y, z \in Nat : y <= z => (x + 300) * y <= (x + 300) * z
          OBVIOUS
    <3>2. \A x, y \in Nat : (x + 300) * y = x * y + 300 * y
          OBVIOUS
    <3>3. (k + 300) * l <= (k + 300) * r
          BY <2>4, <2>5, <2>6, <2>7, <3>1
    <3> QED BY <2>5, <2>6, <3>2, <3>3
  <2>10. k * (r + 1) = k * r + k
    <3>1. \A x, y \in Nat : x * (y + 1) = x * y + x
          OBVIOUS
    <3> QED BY <2>5, <2>6, <3>1
  <2>11. d[2].bytes + 44 <= MAX_PACKET_SIZE + ServiceName + k * (r + 1)
    <3>1. \A bytes, size, s, x, part, full, kr \in Nat :
             bytes <= 56 + s + x + part /\ part <= kr + full /\ full <= size - 100
                => bytes + 44 <= size + s + (kr + x)
          OBVIOUS
    <3>2. (k + 300) * l \in Nat /\ k * r \in Nat /\ 300 * r \in Nat
          BY <2>4, <2>5, <2>6
    <3>3. d[2].bytes + 44 <= MAX_PACKET_SIZE + ServiceName + (k * r + k)
          BY <2>4, <2>5, <2>6, <2>8, <2>9, <3>1, <3>2
    <3> QED BY <2>10, <3>3
  <2> QED BY <2>11 DEF k, r
<1> QED BY <1>1, TypedAlways, AnswersAlways, PTL

-----------------------------------------------------------------------------
(* What the nodes find *)

(* What a received packet adds is its peer's, and no node adds itself.     *)
LEMMA FoundBy ==
    ASSUME Typed, AnswersInv, NEW d \in wire, NEW f \in Extracted(d[1], d[2])
    PROVE  /\ f[1] # d[1] /\ f[2].host = f[1]
           /\ \E answer \in answers :
                 answer.node = f[1] /\ \E a \in answer.listen : a.text = f[2].text
<1>1. PICK answer \in answers : d[2] \in Range(answer.packets)
      BY DEF AnswersInv
<1>2. d[2].peer = answer.node /\ d[2].peer # d[1]
      BY <1>1 DEF AnswersInv, PacketOf, Extracted
<1>3. PICK a \in Range(d[2].records) : f = <<d[2].peer, Translated(d[2], a)>>
      BY DEF Extracted, Peers
<1>4. a \in answer.listen /\ a \in Addresses
  <2>1. a \in answer.listen
        BY <1>1, ToldBy
  <2> QED BY <2>1 DEF Typed, Answers
<1>5. Translated(d[2], a).host = d[2].peer /\ Translated(d[2], a).text = a.text
      BY <1>4 DEF Translated, Addresses
<1> QED BY <1>2, <1>3, <1>4, <1>5

(* A node finds others only, and only what they told.                      *)
THEOREM FindsOthers == Spec => []FoundOthers
<1>1. Init => FoundOthers
      BY DEF Init, FoundOthers
<1>2. Typed /\ AnswersInv /\ FoundOthers /\ [Next]_vars => FoundOthers'
  <2> SUFFICES ASSUME Typed, AnswersInv, FoundOthers, [Next]_vars PROVE FoundOthers'
      OBVIOUS
  <2>1. ASSUME found' = found, answers \subseteq answers' PROVE FoundOthers'
        BY <2>1 DEF FoundOthers
  <2>2. ASSUME NEW d \in wire, Receive(d[1], d[2]) PROVE FoundOthers'
    <3>1. answers' = answers
          BY <2>2 DEF Receive
    <3>2. ASSUME NEW n \in Nodes, NEW f \in found'[n]
          PROVE  f \in found[n] \/ (n = d[1] /\ f \in Extracted(d[1], d[2]))
          BY <2>2, <3>2 DEF Receive, Typed
    <3> QED BY <3>1, <3>2, FoundBy DEF FoundOthers
  <2>3. ASSUME NEW n \in Nodes, NEW listen \in SUBSET Addresses,
               NEW peer_name \in PeerNames, Answer(n, listen, peer_name)
        PROVE  FoundOthers'
        BY <2>1, <2>3 DEF Answer
  <2>4. ASSUME NEW b \in building, Encode(b) \/ Finish(b) PROVE FoundOthers'
        BY <2>1, <2>4 DEF Encode, Finish
  <2>5. ASSUME NEW d \in wire, Lose(d[1], d[2]) PROVE FoundOthers'
        BY <2>1, <2>5 DEF Lose
  <2>6. CASE UNCHANGED vars
        BY <2>1, <2>6 DEF vars
  <2> QED BY <2>2, <2>3, <2>4, <2>5, <2>6 DEF Next, Network
<1> QED BY <1>1, <1>2, TypedAlways, AnswersAlways, PTL DEF Spec

(* Whoever receives a whole packet of another knows all that it tells.     *)
LEMMA ReceivedTells ==
    ASSUME Typed, AnswersInv, NEW d \in wire, Receive(d[1], d[2]), ~Cut(d[2]),
           NEW answer \in answers, d[1] # answer.node, d[2] \in Range(answer.packets),
           NEW a \in Range(d[2].records)
    PROVE  <<answer.node, [host |-> answer.node, text |-> a.text]>> \in found'[d[1]]
<1>1. d[2].peer = answer.node
      BY DEF AnswersInv, PacketOf
<1>2. a \in Addresses
  <2>1. a \in answer.listen
        BY ToldBy
  <2> QED BY <2>1 DEF Typed, Answers
<1>3. Translated(d[2], a) = [host |-> answer.node, text |-> a.text]
      BY <1>1, <1>2 DEF Translated, Addresses
<1>4. <<answer.node, [host |-> answer.node, text |-> a.text]>> \in Extracted(d[1], d[2])
      BY <1>1, <1>3 DEF Extracted, Peers
<1>5. d[1] \in Nodes
      BY DEF Typed
<1> QED BY <1>4, <1>5 DEF Receive, Typed

(* A packet that arrived whole has told its addresses, whatever became of  *)
(* the others.                                                             *)
THEOREM EachPacketTells == Spec => []EachTells
<1>1. Init => EachTells
      BY DEF Init, EachTells
<1>2. Typed /\ AnswersInv /\ EachTells /\ [Next]_vars => EachTells'
  <2> SUFFICES ASSUME Typed, AnswersInv, EachTells, [Next]_vars PROVE EachTells'
      OBVIOUS
  <2>1. ASSUME found' = found, answers' = answers, wire' \cup lost' = wire \cup lost
        PROVE  EachTells'
        BY <2>1 DEF EachTells, Cut
  <2>2. ASSUME NEW d \in wire, Receive(d[1], d[2]) PROVE EachTells'
    <3> SUFFICES ASSUME NEW answer \in answers', NEW n \in Nodes \ {answer.node},
                        NEW p \in Range(answer.packets),
                        <<n, p>> \notin wire' \cup lost', ~Cut(p),
                        NEW a \in Range(p.records)
                 PROVE  <<answer.node, [host |-> answer.node, text |-> a.text]>> \in found'[n]
        BY DEF EachTells, Cut
    <3>1. /\ answers' = answers /\ lost' = lost /\ wire \ {<<d[1], d[2]>>} \subseteq wire'
          /\ found[n] \subseteq found'[n]
          BY <2>2 DEF Receive, Typed
    <3>2. CASE <<n, p>> \in wire
      <4>1. n = d[1] /\ p = d[2]
            BY <3>1, <3>2
      <4> QED BY <2>2, <3>1, <4>1, ReceivedTells
    <3>3. CASE <<n, p>> \notin wire
          BY <3>1, <3>3 DEF EachTells
    <3> QED BY <3>2, <3>3
  <2>3. ASSUME NEW b \in building, Finish(b) PROVE EachTells'
    <3>1. /\ answers' = answers \cup {Closed(b)} /\ lost' = lost /\ found' = found
          /\ wire' = wire \cup (Nodes \X Range(Closed(b).packets))
          BY <2>3 DEF Finish
    <3> QED BY <3>1 DEF EachTells, Cut
  <2>4. ASSUME NEW d \in wire, Lose(d[1], d[2]) PROVE EachTells'
        BY <2>1, <2>4 DEF Lose
  <2>5. ASSUME NEW n \in Nodes, NEW listen \in SUBSET Addresses,
               NEW peer_name \in PeerNames, Answer(n, listen, peer_name)
        PROVE  EachTells'
        BY <2>1, <2>5 DEF Answer
  <2>6. ASSUME NEW b \in building, Encode(b) PROVE EachTells'
        BY <2>1, <2>6 DEF Encode
  <2>7. CASE UNCHANGED vars
        BY <2>1, <2>7 DEF vars
  <2> QED BY <2>2, <2>3, <2>4, <2>5, <2>6, <2>7 DEF Next, Network
<1> QED BY <1>1, <1>2, TypedAlways, AnswersAlways, PTL DEF Spec
=============================================================================
