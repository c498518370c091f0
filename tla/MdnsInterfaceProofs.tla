------------------------- MODULE MdnsInterfaceProofs -------------------------
(* Proofs about MdnsInterface, for any messages, intervals and buffers. *)
EXTENDS MdnsInterface, Integers, SequenceTheorems, TLAPS

-----------------------------------------------------------------------------
(* Type correctness.  That the channel holds no more than its buffer, and  *)
(* one for its sender, rests on when the sender must wait.                 *)

FullInTime == full \/ Len(chan) <= Buffer

TypeInv == TypeOK /\ FullInTime

(* What a poll puts into the buffer, and takes from it. *)
LEMMA SendBufferTyped ==
    ASSUME NEW s \in Seq(Packet), NEW n \in Nat
    PROVE  /\ Append(s, "query") \in Seq(Packet)
           /\ Append(s, "service") \in Seq(Packet)
           /\ s \o [i \in 1 .. n |-> "response"] \in Seq(Packet)
<1>1. [i \in 1 .. n |-> "response"] \in Seq(Packet)
      BY IsASeq DEF Packet
<1> QED BY <1>1, AppendProperties, ConcatProperties DEF Packet

(* The node at the head goes to the channel. *)
LEMMA TrySendTyped ==
    ASSUME TypeInv, discovered # <<>>, ~full, TrySend
    PROVE  /\ discovered' \in Seq(Nat) /\ chan' \in Seq(Nat)
           /\ Len(chan') <= Buffer + 1 /\ full' \in BOOLEAN /\ FullInTime'
<1>1. Head(discovered) \in Nat /\ Tail(discovered) \in Seq(Nat)
      BY HeadTailProperties DEF TypeInv, TypeOK
<1>2. chan' \in Seq(Nat) /\ Len(chan') = Len(chan) + 1
      BY <1>1, AppendProperties DEF TypeInv, TypeOK, TrySend
<1>3. Len(chan) \in Nat /\ Len(chan) <= Buffer
      BY LenProperties DEF TypeInv, TypeOK, FullInTime
<1>4. Buffer \in Nat /\ full' = (Len(chan) >= Buffer)
      BY MdnsInterfaceAssumption DEF TrySend, MdnsInterfaceAssumption
<1>5. full' \in BOOLEAN
      BY DEF TrySend
<1>6. FullInTime'
  <2>1. CASE Len(chan) >= Buffer
        BY <2>1 DEF TrySend, FullInTime
  <2>2. CASE ~(Len(chan) >= Buffer)
    <3>1. Len(chan') <= Buffer
          BY <2>2, <1>2, <1>3, <1>4
    <3> QED BY <3>1 DEF FullInTime
  <2> QED BY <2>1, <2>2
<1>7. Len(chan') <= Buffer + 1
      BY <1>2, <1>3, <1>4
<1> QED BY <1>1, <1>2, <1>5, <1>6, <1>7 DEF TrySend

LEMMA TypeInvInit == Init => TypeInv
<1> SUFFICES ASSUME Init PROVE TypeInv
    OBVIOUS
<1>1. /\ send_buffer \in Seq(Packet) /\ discovered \in Seq(Nat)
      /\ inbox \in Seq(Messages) /\ chan \in Seq(Nat) /\ taken \in Seq(Nat)
      /\ Len(chan) = 0
      BY EmptySeq DEF Init
<1>2. Buffer \in Nat
      BY MdnsInterfaceAssumption DEF MdnsInterfaceAssumption
<1>3. Len(chan) <= Buffer /\ Len(chan) <= Buffer + 1
      BY <1>1, <1>2
<1>4. 0 \in Nat /\ wakers \subseteq Source
      BY DEF Init
<1> QED BY <1>1, <1>3, <1>4 DEF Init, TypeInv, TypeOK, FullInTime, Running

LEMMA TypeInvPoll == TypeInv /\ (Run \/ Poll) => TypeInv'
<1> SUFFICES ASSUME TypeInv, Run \/ Poll PROVE TypeInv'
    OBVIOUS
<1> USE DEF socketVars, chanVars, Wait, Running, Source
<1>1. CASE Run
      BY <1>1 DEF Run, TypeInv, TypeOK, FullInTime
<1>2. CASE PollTimeout
  <2>1. send_buffer' \in Seq(Packet)
        BY <1>2, SendBufferTyped DEF PollTimeout, Queued, TypeInv, TypeOK
  <2>2. wakers' \subseteq Source /\ timer' \in {"new", "running", "due"}
        BY <1>2 DEF PollTimeout, reset_timer, TypeInv, TypeOK
  <2>3. probe_state' \in {"probing", "finished"}
        BY <1>2 DEF PollTimeout, TypeInv, TypeOK
  <2> QED BY <1>2, <2>1, <2>2, <2>3 DEF PollTimeout, TypeInv, TypeOK, FullInTime
<1>3. CASE PollSend
  <2>1. send_buffer' \in Seq(Packet)
        BY <1>3, HeadTailProperties DEF PollSend, TypeInv, TypeOK
  <2> QED BY <1>3, <2>1 DEF PollSend, TypeInv, TypeOK, FullInTime
<1>4. CASE PollReturn
  <2>1. CASE ~full /\ discovered # <<>> /\ TrySend /\ pc' = "timeout" /\ UNCHANGED wakers
        BY <1>4, <2>1, TrySendTyped DEF PollReturn, TypeInv, TypeOK
  <2>2. CASE UNCHANGED <<discovered, chan, full>> /\ pc' = "read"
        BY <1>4, <2>2 DEF PollReturn, TypeInv, TypeOK, FullInTime
  <2>3. CASE discovered # <<>> /\ Disconnected /\ UNCHANGED <<chan, full, wakers>>
    <3>1. discovered' \in Seq(Nat)
          BY <2>3, HeadTailProperties DEF Disconnected, TypeInv, TypeOK
    <3> QED BY <1>4, <2>3, <3>1 DEF PollReturn, Disconnected, TypeInv, TypeOK, FullInTime
  <2> QED BY <1>4, <2>1, <2>2, <2>3 DEF PollReturn
<1>5. ASSUME NEW kind, Read(kind)
      PROVE  /\ inbox' \in Seq(Messages)
             /\ UNCHANGED <<woken, writable, arrived, chan, full, closed, taken>>
      BY <1>5, HeadTailProperties DEF Read, TypeInv, TypeOK
<1>6. CASE ReadQuery
  <2>1. AnswerPackets \in Nat
        BY MdnsInterfaceAssumption DEF MdnsInterfaceAssumption
  <2>2. send_buffer' \in Seq(Packet)
        BY <1>6, <2>1, SendBufferTyped DEF ReadQuery, TypeInv, TypeOK
  <2>3. /\ inbox' \in Seq(Messages)
        /\ UNCHANGED <<woken, writable, arrived, chan, full, closed, taken>>
        BY <1>5, <1>6 DEF ReadQuery
  <2> QED BY <1>6, <2>2, <2>3 DEF ReadQuery, TypeInv, TypeOK, FullInTime
<1>7. CASE ReadResponse
  <2>1. /\ inbox' \in Seq(Messages)
        /\ UNCHANGED <<woken, writable, arrived, chan, full, closed, taken>>
        BY <1>5, <1>7 DEF ReadResponse
  <2>2. CASE Found
    <3>1. found' \in Nat /\ discovered' \in Seq(Nat)
          BY <2>2, AppendProperties DEF Found, TypeInv, TypeOK
    <3> QED BY <1>7, <2>1, <2>2, <3>1
            DEF ReadResponse, Found, reset_timer, TypeInv, TypeOK, FullInTime
  <2>3. CASE ~Found
        BY <1>7, <2>1, <2>3
        DEF ReadResponse, reset_timer, TypeInv, TypeOK, FullInTime
  <2> QED BY <2>2, <2>3
<1>8. CASE ReadOther
  <2>1. /\ inbox' \in Seq(Messages)
        /\ UNCHANGED <<woken, writable, arrived, chan, full, closed, taken>>
        BY <1>5, <1>8 DEF ReadOther
  <2> QED BY <1>8, <2>1 DEF ReadOther, Park, TypeInv, TypeOK, FullInTime
<1>9. CASE ReadNothing
      BY <1>9 DEF ReadNothing, Park, TypeInv, TypeOK, FullInTime
<1> QED BY <1>1, <1>2, <1>3, <1>4, <1>6, <1>7, <1>8, <1>9 DEF Poll

LEMMA TypeInvEnvironment == TypeInv /\ Environment => TypeInv'
<1> SUFFICES ASSUME TypeInv, Environment PROVE TypeInv'
    OBVIOUS
<1> USE DEF taskVars, wakeVars, socketVars, chanVars, Wake, Running, Source
<1>1. CASE TimerFires
      BY <1>1 DEF TimerFires, TypeInv, TypeOK, FullInTime
<1>2. CASE BecomesWritable
      BY <1>2 DEF BecomesWritable, TypeInv, TypeOK, FullInTime
<1>3. ASSUME NEW message \in Messages, Arrives(message) PROVE TypeInv'
  <2>1. inbox' \in Seq(Messages) /\ arrived' \in Nat
        BY <1>3, AppendProperties DEF Arrives, TypeInv, TypeOK
  <2> QED BY <1>3, <2>1 DEF Arrives, TypeInv, TypeOK, FullInTime
<1>4. CASE Take
  <2>1. /\ Head(chan) \in Nat /\ Tail(chan) \in Seq(Nat)
        /\ Len(Tail(chan)) = Len(chan) - 1
        BY <1>4, HeadTailProperties DEF Take, TypeInv, TypeOK
  <2>2. taken' \in Seq(Nat)
        BY <1>4, <2>1, AppendProperties DEF Take, TypeInv, TypeOK
  <2>3. Len(chan) \in Nat /\ Len(chan) <= Buffer + 1 /\ Buffer \in Nat
        BY LenProperties, MdnsInterfaceAssumption
        DEF TypeInv, TypeOK, MdnsInterfaceAssumption
  <2>4. chan' \in Seq(Nat) /\ Len(chan') <= Buffer /\ Len(chan') <= Buffer + 1
        BY <1>4, <2>1, <2>3 DEF Take
  <2> QED BY <1>4, <2>2, <2>4 DEF Take, TypeInv, TypeOK, FullInTime
<1>5. CASE Close
  <2>1. chan' \in Seq(Nat) /\ Len(chan') = 0 /\ Buffer \in Nat
        BY <1>5, EmptySeq, MdnsInterfaceAssumption DEF Close, MdnsInterfaceAssumption
  <2>2. Len(chan') <= Buffer /\ Len(chan') <= Buffer + 1
        BY <2>1
  <2> QED BY <1>5, <2>1, <2>2 DEF Close, TypeInv, TypeOK, FullInTime
<1>6. CASE Abort
      BY <1>6 DEF Abort, TypeInv, TypeOK, FullInTime
<1> QED BY <1>1, <1>2, <1>3, <1>4, <1>5, <1>6 DEF Environment

LEMMA TypeInvNext == TypeInv /\ [Next]_vars => TypeInv'
<1> SUFFICES ASSUME TypeInv, UNCHANGED vars PROVE TypeInv'
    BY TypeInvPoll, TypeInvEnvironment DEF Next
<1> QED BY DEF vars, taskVars, wakeVars, socketVars, chanVars, TypeInv, TypeOK, FullInTime

(* Every variable of an interface's task keeps its type, and the channel   *)
(* never holds more than its buffer and one node of the sender.            *)
THEOREM TypeCorrect == Spec => []TypeOK
<1>1. TypeInv => TypeOK
      BY DEF TypeInv
<1> QED BY <1>1, TypeInvInit, TypeInvNext, PTL DEF Spec

-----------------------------------------------------------------------------
(* The order of the nodes handed to the behaviour *)

Counted(n) == [i \in 1 .. n |-> i]

(* One more node was found. *)
LEMMA CountOne ==
    ASSUME NEW n \in Nat
    PROVE  Append(Counted(n), n + 1) = Counted(n + 1)
<1> DEFINE s == Counted(n)
<1> DEFINE t == Counted(n + 1)
<1>1. s \in Seq(Nat) /\ Len(s) = n /\ \A i \in 1 .. n : s[i] = i
      BY IsASeq, LenProperties DEF Counted
<1>2. t \in Seq(Nat) /\ Len(t) = n + 1 /\ \A i \in 1 .. n + 1 : t[i] = i
      BY IsASeq, LenProperties DEF Counted
<1> DEFINE a == Append(s, n + 1)
<1>3. /\ a \in Seq(Nat) /\ Len(a) = n + 1 /\ a[n + 1] = n + 1
      /\ \A i \in 1 .. n : a[i] = s[i]
      BY <1>1, AppendProperties
<1> HIDE DEF s, t, a
<1>4. \A i \in 1 .. n + 1 : a[i] = t[i]
      BY <1>1, <1>2, <1>3
<1>5. a = t
      BY <1>2, <1>3, <1>4, SeqEqual
<1> QED BY <1>5 DEF a, s, t

OrderInv == TypeInv /\ HandedInOrder

(* Moving the head of one sequence to the end of another leaves both joined. *)
LEMMA HeadMoves ==
    ASSUME NEW s \in Seq(Nat), NEW d \in Seq(Nat), d # <<>>
    PROVE  Append(s, Head(d)) \o Tail(d) = s \o d
<1> DEFINE h == Head(d)
           r == Tail(d)
           a == Append(s, h)
<1>1. /\ h \in Nat /\ r \in Seq(Nat) /\ h = d[1]
      /\ Len(s) \in Nat /\ Len(d) \in Nat /\ Len(d) > 0 /\ Len(r) = Len(d) - 1
      /\ \A i \in 1..Len(r) : r[i] = d[i + 1]
      BY HeadTailProperties, LenProperties, EmptySeq
<1> HIDE DEF h, r
<1>2. /\ a \in Seq(Nat) /\ Len(a) = Len(s) + 1 /\ a[Len(s) + 1] = h
      /\ \A i \in 1..Len(s) : a[i] = s[i]
      BY <1>1, AppendProperties
<1> HIDE DEF a
<1>3. /\ a \o r \in Seq(Nat) /\ Len(a \o r) = Len(a) + Len(r)
      /\ \A i \in 1..Len(a) + Len(r) :
            (a \o r)[i] = IF i <= Len(a) THEN a[i] ELSE r[i - Len(a)]
      BY <1>1, <1>2, ConcatProperties
<1>4. /\ s \o d \in Seq(Nat) /\ Len(s \o d) = Len(s) + Len(d)
      /\ \A i \in 1..Len(s) + Len(d) :
            (s \o d)[i] = IF i <= Len(s) THEN s[i] ELSE d[i - Len(s)]
      BY ConcatProperties
<1>5. Len(a \o r) = Len(s \o d) /\ Len(a) + Len(r) = Len(s) + Len(d)
      BY <1>1, <1>2, <1>3, <1>4
<1>6. ASSUME NEW i \in 1..Len(s) + Len(d) PROVE (a \o r)[i] = (s \o d)[i]
  <2>0. i \in Nat /\ Len(s) \in Nat /\ Len(d) \in Nat
        BY <1>1
  <2>1. CASE i <= Len(s)
        BY <1>1, <1>2, <1>3, <1>4, <1>5, <2>1
  <2>2. CASE i = Len(s) + 1
        BY <1>1, <1>2, <1>3, <1>4, <1>5, <2>2
  <2>3. CASE i > Len(s) + 1
    <3>1. /\ i - Len(a) \in 1..Len(r) /\ (i - Len(a)) + 1 = i - Len(s)
          /\ ~(i <= Len(a)) /\ ~(i <= Len(s)) /\ i \in 1..Len(a) + Len(r)
      <4>1. \A x, y, z \in Nat :
               x \in 1..y + z /\ x > y + 1 =>
                  /\ x - (y + 1) \in 1..z - 1 /\ (x - (y + 1)) + 1 = x - y
                  /\ ~(x <= y + 1) /\ ~(x <= y) /\ x \in 1..(y + 1) + (z - 1)
            OBVIOUS
      <4>2. Len(a) = Len(s) + 1 /\ Len(r) = Len(d) - 1
            BY <1>1, <1>2
      <4> QED BY <2>0, <2>3, <4>1, <4>2
    <3>2. (a \o r)[i] = r[i - Len(a)]
          BY <1>3, <3>1
    <3>3. (s \o d)[i] = d[i - Len(s)]
          BY <1>4, <3>1
    <3>4. r[i - Len(a)] = d[(i - Len(a)) + 1]
          BY <1>1, <3>1
    <3> QED BY <3>1, <3>2, <3>3, <3>4
  <2>4. i <= Len(s) \/ i = Len(s) + 1 \/ i > Len(s) + 1
        BY <2>0
  <2> QED BY <2>1, <2>2, <2>3, <2>4, Zenon
<1>7. a \o r = s \o d
      BY <1>3, <1>4, <1>5, <1>6, SeqEqual
<1> QED BY <1>7 DEF a, h, r

(* Appending to the second of two sequences appends to both joined. *)
LEMMA AppendJoined ==
    ASSUME NEW s \in Seq(Nat), NEW d \in Seq(Nat), NEW n \in Nat
    PROVE  s \o Append(d, n) = Append(s \o d, n)
  OBVIOUS

(* The head of what was found goes to the end of the channel. *)
LEMMA HandOver ==
    ASSUME NEW t \in Seq(Nat), NEW c \in Seq(Nat), NEW d \in Seq(Nat), d # <<>>
    PROVE  t \o Append(c, Head(d)) \o Tail(d) = t \o c \o d
<1>1. Head(d) \in Nat /\ t \o c \in Seq(Nat)
      BY HeadTailProperties, ConcatProperties
<1>2. t \o Append(c, Head(d)) = Append(t \o c, Head(d))
      BY <1>1, AppendJoined
<1>3. Append(t \o c, Head(d)) \o Tail(d) = (t \o c) \o d
      BY <1>1, HeadMoves
<1> QED BY <1>2, <1>3

LEMMA HandedInOrderNext == OrderInv /\ [Next]_vars => HandedInOrder'
<1> SUFFICES ASSUME OrderInv, [Next]_vars PROVE HandedInOrder'
    OBVIOUS
<1> DEFINE handed == taken \o chan \o discovered
<1>1. TypeInv /\ taken \in Seq(Nat) /\ chan \in Seq(Nat) /\ discovered \in Seq(Nat)
         /\ found \in Nat /\ taken \o chan \in Seq(Nat)
      BY ConcatProperties DEF OrderInv, TypeInv, TypeOK
<1>2. ASSUME UNCHANGED <<taken, chan, discovered, found, closed>>, pc # "done"
      PROVE  HandedInOrder'
      BY <1>2 DEF OrderInv, HandedInOrder
<1>3. CASE Run
      BY <1>2, <1>3 DEF Run, chanVars
<1>4. CASE PollTimeout \/ PollSend \/ ReadQuery \/ ReadOther \/ ReadNothing
      BY <1>2, <1>4 DEF PollTimeout, PollSend, ReadQuery, ReadOther, ReadNothing,
                        Read, chanVars
<1>5. CASE PollReturn
  <2>1. CASE ~full /\ ~closed /\ discovered # <<>> /\ TrySend /\ pc' = "timeout"
    <3>1. taken' \o chan' \o discovered' = handed
          BY <1>1, <1>5, <2>1, HandOver DEF PollReturn, TrySend
    <3> QED BY <1>5, <2>1, <3>1 DEF PollReturn, OrderInv, HandedInOrder
  <2>2. CASE Disconnected
        BY <2>2 DEF Disconnected, HandedInOrder
  <2>3. CASE UNCHANGED <<discovered, chan, full>> /\ pc' = "read"
        BY <1>2, <1>5, <2>3 DEF PollReturn
  <2> QED BY <1>5, <2>1, <2>2, <2>3 DEF PollReturn
<1>6. CASE ReadResponse
  <2>1. UNCHANGED <<chan, closed, taken>> /\ pc = "read"
        BY <1>6 DEF ReadResponse, Read, chanVars
  <2>2. CASE Found
    <3>1. found + 1 \in Nat
          BY <1>1
    <3>2. taken \o chan \o Append(discovered, found + 1) = Append(handed, found + 1)
          BY <1>1, <3>1, AppendJoined
    <3>3. ~closed => handed = Counted(found)
          BY <2>1 DEF OrderInv, HandedInOrder, Counted
    <3>4. ~closed => Append(handed, found + 1) = Counted(found + 1)
          BY <1>1, <3>3, CountOne
    <3> HIDE DEF handed
    <3> QED BY <2>1, <2>2, <3>2, <3>4 DEF Found, HandedInOrder, Counted
  <2>3. CASE UNCHANGED <<discovered, found>>
        BY <1>2, <2>1, <2>3
  <2> QED BY <1>6, <2>2, <2>3 DEF ReadResponse
<1>7. CASE Take
  <2>1. Append(taken, Head(chan)) \o Tail(chan) = taken \o chan
        BY <1>1, <1>7, HeadMoves DEF Take
  <2> QED BY <1>7, <2>1 DEF Take, taskVars, OrderInv, HandedInOrder
<1>8. CASE Close
      BY <1>8 DEF Close, HandedInOrder
<1>9. CASE Abort
      BY <1>2, <1>9 DEF Abort, chanVars
<1>10. CASE TimerFires \/ BecomesWritable \/ \E message \in Messages : Arrives(message)
  <2>1. UNCHANGED <<taken, chan, discovered, found, closed, pc>>
        BY <1>10 DEF TimerFires, BecomesWritable, Arrives, taskVars, chanVars
  <2> QED BY <2>1 DEF OrderInv, HandedInOrder
<1>11. CASE UNCHANGED vars
      BY <1>11 DEF vars, taskVars, chanVars, OrderInv, HandedInOrder
<1> QED BY <1>3, <1>4, <1>5, <1>6, <1>7, <1>8, <1>9, <1>10, <1>11
        DEF Next, Poll, Environment

(* Every node found reaches the behaviour once, in the order found.        *)
THEOREM NodesHandedInOrder == Spec => []HandedInOrder
<1>1. Init => OrderInv
  <2> SUFFICES ASSUME Init PROVE OrderInv
      OBVIOUS
  <2>1. [i \in 1 .. 0 |-> i] = <<>>
        BY IsASeq, EmptySeq, LenProperties
  <2>2. <<>> \o <<>> \o <<>> = <<>>
        BY ConcatEmptySeq, EmptySeq
  <2>3. TypeInv
        BY TypeInvInit
  <2> QED BY <2>1, <2>2, <2>3 DEF Init, OrderInv, HandedInOrder
<1>2. OrderInv /\ [Next]_vars => OrderInv'
      BY TypeInvNext, HandedInOrderNext DEF OrderInv
<1>3. OrderInv => HandedInOrder
      BY DEF OrderInv
<1> QED BY <1>1, <1>2, <1>3, PTL DEF Spec

-----------------------------------------------------------------------------
(* The wakers.  Once a poll has passed a source, it will be woken by it or *)
(* come back to it before it sleeps.                                       *)

TimerWaited == "timer" \in wakers /\ timer \in {"new", "running"}

WriteWaited == Armed("write", ~writable)

(* What a poll knows of the timer: only a new one need not be waited for,  *)
(* when there is a packet that will make the poll come back.               *)
TimerArmed ==
    /\ pc \in {"send", "return", "read"} =>
          \/ TimerWaited
          \/ timer = "new" /\ ((pc = "send" /\ send_buffer # <<>>) \/ WriteWaited)
    /\ pc = "parked" => (TimerWaited /\ timer = "running") \/ WriteWaited

SendArmed == pc \in {"return", "read", "parked"} /\ send_buffer # <<>> => WriteWaited

ReturnArmed == pc \in {"read", "parked"} /\ discovered # <<>> => Armed("chan", full)

ArmedInv == ~woken => TimerArmed /\ SendArmed /\ ReturnArmed

LEMMA ArmedPoll == TypeInv /\ ArmedInv /\ (Run \/ Poll) => ArmedInv'
<1> SUFFICES ASSUME TypeInv, ArmedInv, Run \/ Poll, ~woken' PROVE ArmedInv'
    BY DEF ArmedInv
<1> USE DEF socketVars, chanVars, Wait, ArmedInv, TimerArmed, SendArmed, ReturnArmed,
            TimerWaited, WriteWaited, Armed
<1>1. CASE Run
      BY <1>1 DEF Run
<1>2. CASE PollTimeout
  <2>1. CASE timer = "due"
    <3>1. send_buffer' # <<>>
          BY <1>2, <2>1, AppendProperties, EmptySeq
          DEF PollTimeout, Queued, TypeInv, TypeOK
    <3> QED BY <1>2, <2>1, <3>1 DEF PollTimeout, reset_timer
  <2>2. CASE timer # "due"
        BY <1>2, <2>2 DEF PollTimeout, TypeInv, TypeOK
  <2> QED BY <2>1, <2>2
<1>3. CASE PollSend
      BY <1>3 DEF PollSend
<1>4. CASE PollReturn
  <2>1. CASE pc' = "read"
        BY <1>4, <2>1 DEF PollReturn, Disconnected
  <2>2. CASE pc' # "read"
        BY <1>4, <2>2 DEF PollReturn, Disconnected
  <2> QED BY <2>1, <2>2
<1>5. CASE ReadQuery \/ ReadResponse
      BY <1>5 DEF ReadQuery, ReadResponse
<1>6. CASE ReadOther
      BY <1>6 DEF ReadOther, Read, Park, TypeInv, TypeOK
<1>7. CASE ReadNothing
      BY <1>7 DEF ReadNothing, Park, TypeInv, TypeOK
<1> QED BY <1>1, <1>2, <1>3, <1>4, <1>5, <1>6, <1>7 DEF Poll

LEMMA ArmedEnvironment == TypeInv /\ ArmedInv /\ Environment => ArmedInv'
<1> SUFFICES ASSUME TypeInv, ArmedInv, Environment, ~woken' PROVE ArmedInv'
    BY DEF ArmedInv
<1> USE DEF taskVars, wakeVars, socketVars, chanVars, Wake, ArmedInv, TimerArmed,
            SendArmed, ReturnArmed, TimerWaited, WriteWaited, Armed
<1>1. CASE TimerFires
      BY <1>1 DEF TimerFires, TypeInv, TypeOK
<1>2. CASE BecomesWritable
      BY <1>2 DEF BecomesWritable, TypeInv, TypeOK
<1>3. ASSUME NEW message \in Messages, Arrives(message) PROVE ArmedInv'
      BY <1>3 DEF Arrives, TypeInv, TypeOK
<1>4. CASE Take
      BY <1>4 DEF Take, TypeInv, TypeOK
<1>5. CASE Close
      BY <1>5 DEF Close, TypeInv, TypeOK
<1>6. CASE Abort
      BY <1>6 DEF Abort
<1> QED BY <1>1, <1>2, <1>3, <1>4, <1>5, <1>6 DEF Environment

(* ArmedInv holds throughout. *)
LEMMA ArmedAlways == Spec => [](TypeInv /\ ArmedInv)
<1>1. Init => TypeInv /\ ArmedInv
      BY TypeInvInit DEF Init, ArmedInv
<1>2. TypeInv /\ ArmedInv /\ [Next]_vars => (TypeInv /\ ArmedInv)'
  <2> SUFFICES ASSUME TypeInv, ArmedInv, UNCHANGED vars PROVE ArmedInv'
      BY TypeInvNext, ArmedPoll, ArmedEnvironment DEF Next
  <2> QED BY DEF vars, taskVars, wakeVars, socketVars, chanVars, ArmedInv, TimerArmed,
                 SendArmed, ReturnArmed, TimerWaited, WriteWaited, Armed
<1> QED BY <1>1, <1>2, PTL DEF Spec

(* A task that sleeps holds a waker of something that will come, and one   *)
(* of all that it still has to send or to return.                          *)
THEOREM SleeperArmed == Spec => []SleepsArmed
<1>1. TypeInv /\ ArmedInv => SleepsArmed
      BY DEF ArmedInv, TimerArmed, SendArmed, ReturnArmed, TimerWaited, WriteWaited,
             SleepsArmed, asleep, Armed
<1> QED BY <1>1, ArmedAlways, PTL

-----------------------------------------------------------------------------
(* The channel.  Its sender waits only while it really is full: what makes *)
(* room, or closes it, lets the sender go on.                              *)

WaitsForRoom == full => Len(chan) = Buffer + 1 /\ ~closed

LEMMA WaitsForRoomNext == TypeInv /\ WaitsForRoom /\ [Next]_vars => WaitsForRoom'
<1> SUFFICES ASSUME TypeInv, WaitsForRoom, [Next]_vars PROVE WaitsForRoom'
    OBVIOUS
<1>1. CASE UNCHANGED chanVars
      BY <1>1 DEF chanVars, WaitsForRoom
<1>2. CASE PollReturn
  <2>1. CASE ~full /\ ~closed /\ discovered # <<>> /\ TrySend
    <3>1. Head(discovered) \in Nat /\ chan \in Seq(Nat)
          BY <2>1, HeadTailProperties DEF TypeInv, TypeOK
    <3>2. Len(chan') = Len(chan) + 1 /\ Len(chan) \in Nat
          BY <2>1, <3>1, AppendProperties, LenProperties DEF TrySend
    <3>3. Len(chan) <= Buffer /\ Buffer \in Nat
          BY <2>1, MdnsInterfaceAssumption
          DEF TypeInv, FullInTime, MdnsInterfaceAssumption
    <3>4. full' => Len(chan) >= Buffer
          BY <2>1 DEF TrySend
    <3>5. closed' = closed
          BY <1>2 DEF PollReturn
    <3> QED BY <2>1, <3>2, <3>3, <3>4, <3>5 DEF WaitsForRoom
  <2>2. CASE UNCHANGED <<chan, full>>
        BY <1>2, <2>2 DEF PollReturn, WaitsForRoom
  <2> QED BY <1>2, <2>1, <2>2 DEF PollReturn
<1>3. CASE Take \/ Close
      BY <1>3 DEF Take, Close, WaitsForRoom
<1>4. CASE Run \/ PollTimeout \/ PollSend \/ ReadQuery \/ ReadResponse \/ ReadOther
              \/ ReadNothing
      BY <1>1, <1>4 DEF Run, PollTimeout, PollSend, ReadQuery, ReadResponse, ReadOther,
                        ReadNothing, Read
<1>5. ASSUME NEW message \in Messages, Arrives(message) PROVE WaitsForRoom'
      BY <1>1, <1>5 DEF Arrives
<1>6. CASE TimerFires \/ BecomesWritable \/ Abort
      BY <1>1, <1>6 DEF TimerFires, BecomesWritable, Abort
<1>7. CASE UNCHANGED vars
      BY <1>1, <1>7 DEF vars
<1> QED BY <1>2, <1>3, <1>4, <1>5, <1>6, <1>7 DEF Next, Poll, Environment

(* A task that sleeps with nodes to return will be woken by the behaviour, *)
(* which has a node to take.                                               *)
THEOREM NeitherWaitsOnTheOther == Spec => []NoStandoff
<1>1. Init => WaitsForRoom
      BY DEF Init, WaitsForRoom
<1>2. TypeInv /\ ArmedInv /\ WaitsForRoom => NoStandoff
  <2> SUFFICES ASSUME TypeInv, ArmedInv, WaitsForRoom, asleep, discovered # <<>>
               PROVE  chan # <<>> /\ ~closed /\ "chan" \in wakers
      BY DEF NoStandoff
  <2>1. "chan" \in wakers /\ full
        BY DEF ArmedInv, ReturnArmed, Armed, asleep
  <2>2. Len(chan) = Buffer + 1 /\ ~closed /\ Buffer \in Nat
        BY <2>1, MdnsInterfaceAssumption DEF WaitsForRoom, MdnsInterfaceAssumption
  <2>3. chan # <<>>
        BY <2>2, EmptySeq
  <2> QED BY <2>1, <2>2, <2>3
<1> QED BY <1>1, <1>2, ArmedAlways, WaitsForRoomNext, PTL DEF Spec
=============================================================================
