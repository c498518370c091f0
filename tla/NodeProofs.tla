----------------------------- MODULE NodeProofs -----------------------------
(* Proofs about Node, for any clients, commands, relays, peers and bounds. *)
EXTENDS Node, Integers, SequenceTheorems, TLAPS

-----------------------------------------------------------------------------
(* Type correctness *)

(* The initial state has the types of TypeOK. *)
LEMMA InitTypeOK == Init => TypeOK
<1> SUFFICES ASSUME Init PROVE TypeOK
    OBVIOUS
<1>1. cmdQ \in Seq(Command) /\ evtQ \in Seq(Nat) /\ delivered \in Seq(Nat)
      BY EmptySeq DEF Init
<1> QED BY <1>1 DEF Init, TypeOK

(* A stopping swarm task leaves an empty, hence well typed, queue and      *)
(* well-typed oneshots.                                                    *)
LEMMA StopTypeOK ==
    TypeOK /\ StopSwarm => /\ cmdQ' \in Seq(Command)
                           /\ swarm' \in {"running", "stopped"}
                           /\ reply' \in [Clients -> {"none", "pending", "dropped"}]
  BY DEF TypeOK, StopSwarm

(* Each action keeps the types. *)
LEMMA ClientTypeOK == TypeOK /\ ClientNext => TypeOK'
<1> SUFFICES ASSUME TypeOK, ClientNext PROVE TypeOK'
    OBVIOUS
<1> USE DEF TypeOK, swarmVars, evtVars, execVars, clientVars
<1>1. ASSUME NEW c \in Clients, NEW k \in Kinds, Call(c, k) PROVE TypeOK'
  <2>1. Append(cmdQ, [kind |-> k, from |-> c]) \in Seq(Command)
        BY AppendProperties DEF Command
  <2>2. cmdQ' \in Seq(Command)
        BY <1>1, <2>1 DEF Call
  <2>3. /\ pc' \in [Clients -> {"idle", "awaiting", "shutting", "panicked"}]
        /\ reply' \in [Clients -> {"none", "pending", "dropped"}]
        BY <1>1 DEF Call
  <2> QED BY <1>1, <2>2, <2>3 DEF Call
<1>2. ASSUME NEW c \in Clients, AwaitReturns(c) PROVE TypeOK'
      BY <1>2 DEF AwaitReturns
<1>3. ASSUME NEW c \in Clients, "Shutdown" \in Kinds, ShutdownSend(c) PROVE TypeOK'
  <2>1. Append(cmdQ, [kind |-> "Shutdown", from |-> c]) \in Seq(Command)
        BY <1>3, AppendProperties DEF Command
  <2>2. cmdQ' \in Seq(Command)
        BY <1>3, <2>1 DEF ShutdownSend
  <2>3. pc' \in [Clients -> {"idle", "awaiting", "shutting", "panicked"}]
    <3>1. pc' = pc \/ pc' = [pc EXCEPT ![c] = "shutting"]
          BY <1>3 DEF ShutdownSend
    <3> QED BY <3>1
  <2>4. calls' \in Nat
        BY <1>3 DEF ShutdownSend
  <2> QED BY <1>3, <2>2, <2>3, <2>4 DEF ShutdownSend
<1>4. ASSUME NEW c \in Clients, ShutdownKill(c) PROVE TypeOK'
      BY <1>4 DEF ShutdownKill
<1>5. ASSUME NEW c \in Clients, Execute(c) PROVE TypeOK'
      BY <1>5 DEF Execute
<1>6. CASE DropHandle
  <2>1. Elems(evtQ) \subseteq Nat
        BY ElementOfSeq DEF Elems
  <2>2. evtQ' \in Seq(Nat) /\ lost' \subseteq Nat
        BY <1>6, <2>1, EmptySeq DEF DropHandle
  <2> QED BY <1>6, <2>2 DEF DropHandle
<1> QED BY <1>1, <1>2, <1>3, <1>4, <1>5, <1>6 DEF ClientNext

(* The executor. *)
LEMMA ExecTypeOK == TypeOK /\ ExecNext => TypeOK'
<1> SUFFICES ASSUME TypeOK, ExecNext PROVE TypeOK'
    OBVIOUS
<1> USE DEF TypeOK, swarmVars, evtVars, clientVars
<1>1. CASE ExecStart   BY <1>1 DEF ExecStart
<1>2. CASE ExecEvent   BY <1>2 DEF ExecEvent
<1>3. CASE ExecClosed  BY <1>3 DEF ExecClosed
<1>4. CASE ExecPending BY <1>4 DEF ExecPending
<1>5. CASE ExecKill    BY <1>5 DEF ExecKill
<1>6. CASE ExecPark    BY <1>6 DEF ExecPark
<1>7. CASE ExecWake    BY <1>7 DEF ExecWake
<1>8. ASSUME NEW ok \in BOOLEAN, Callback(ok) PROVE TypeOK'
      BY <1>8 DEF Callback
<1> QED BY <1>1, <1>2, <1>3, <1>4, <1>5, <1>6, <1>7, <1>8 DEF ExecNext

(* The swarm task, on commands. *)
LEMMA CmdTypeOK == TypeOK /\ CmdNext => TypeOK'
<1> SUFFICES ASSUME TypeOK, CmdNext PROVE TypeOK'
    OBVIOUS
<1> USE DEF TypeOK, swarmVars, evtVars, execVars, clientVars
<1>1. CASE CmdDelegated BY <1>1 DEF CmdDelegated
<1>2. CASE CmdFails     BY <1>2, StopTypeOK DEF CmdFails
<1>3. CASE CmdRequest
  <2>1. cmdQ' \in Seq(Command)
        BY <1>3, HeadTailProperties DEF CmdRequest
  <2>2. reply' \in [Clients -> {"none", "pending", "dropped"}]
        BY <1>3 DEF CmdRequest
  <2> QED BY <1>3, <2>1, <2>2 DEF CmdRequest
<1>4. CASE CmdShutdown  BY <1>4, StopTypeOK DEF CmdShutdown
<1>5. ASSUME NEW r \in Relays, NEW dialed \in BOOLEAN, CmdRelay(r, dialed)
      PROVE  TypeOK'
      BY <1>5 DEF CmdRelay
<1> QED BY <1>1, <1>2, <1>3, <1>4, <1>5 DEF CmdNext

(* The swarm task, in the nested loop. *)
LEMMA RelayTypeOK == TypeOK /\ RelayNext => TypeOK'
<1> SUFFICES ASSUME TypeOK, RelayNext PROVE TypeOK'
    OBVIOUS
<1> USE DEF TypeOK, evtVars, execVars, clientVars
<1>1. ASSUME NEW half \in {"told", "learned"}, RelayIdentify(half)
      PROVE  TypeOK'
      BY <1>1 DEF RelayIdentify
<1>2. CASE RelayTimeout BY <1>2 DEF RelayTimeout
<1> QED BY <1>1, <1>2 DEF RelayNext

(* The swarm task, on events. *)
LEMMA EvtTypeOK == TypeOK /\ EvtNext => TypeOK'
<1> SUFFICES ASSUME TypeOK, EvtNext PROVE TypeOK'
    OBVIOUS
<1> USE DEF TypeOK, swarmVars, evtVars, execVars, clientVars
<1>1. CASE EvtGossip
  <2>1. arrived' \in Nat /\ Append(evtQ, arrived') \in Seq(Nat)
        BY <1>1, AppendProperties DEF EvtGossip
  <2>2. evtQ' \in Seq(Nat) /\ lost' \subseteq Nat
        BY <1>1, <2>1 DEF EvtGossip
  <2>3. /\ cmdQ' \in Seq(Command) /\ swarm' \in {"running", "stopped"}
        /\ reply' \in [Clients -> {"none", "pending", "dropped"}]
        BY <1>1, StopTypeOK DEF EvtGossip
  <2> QED BY <1>1, <2>1, <2>2, <2>3 DEF EvtGossip
<1>2. CASE EvtRdvzDialFails BY <1>2, StopTypeOK DEF EvtRdvzDialFails
<1> QED BY <1>1, <1>2 DEF EvtNext

(* Every variable of the node keeps its type. *)
THEOREM TypeCorrect == Spec => []TypeOK
<1>1. TypeOK /\ [Next]_vars => TypeOK'
  <2> SUFFICES ASSUME TypeOK, [Next]_vars PROVE TypeOK'
      OBVIOUS
  <2>1. CASE Next
        BY <2>1, ClientTypeOK, ExecTypeOK, CmdTypeOK, RelayTypeOK, EvtTypeOK DEF Next
  <2>2. CASE UNCHANGED vars
        BY <2>2 DEF TypeOK, vars, swarmVars, evtVars, execVars, clientVars
  <2> QED BY <2>1, <2>2
<1> QED BY InitTypeOK, <1>1, PTL DEF Spec

-----------------------------------------------------------------------------
(* The command queue *)

(* Does queue q hold a command of one of the kinds from client c? *)
Holds(q, kinds, c) ==
    \E i \in 1..Len(q) : q[i].kind \in kinds /\ q[i].from = c

(* What the queue holds stays in it when a command is sent. *)
LEMMA AppendHolds ==
    ASSUME NEW q \in Seq(Command), NEW cmd \in Command, NEW kinds, NEW c,
           Holds(q, kinds, c)
    PROVE  Holds(Append(q, cmd), kinds, c)
  BY AppendProperties DEF Holds

(* When a command is read, all but the one read stay. *)
LEMMA TailHolds ==
    ASSUME NEW q \in Seq(Command), q # <<>>, NEW kinds, NEW c,
           Holds(q, kinds, c),
           Head(q).kind \notin kinds \/ Head(q).from # c
    PROVE  Holds(Tail(q), kinds, c)
<1>1. PICK i \in 1..Len(q) : q[i].kind \in kinds /\ q[i].from = c
      BY DEF Holds
<1>2. i # 1
      BY <1>1
<1>3. /\ i - 1 \in 1..Len(Tail(q))
      /\ Tail(q)[i - 1] = q[i]
      BY <1>2, HeadTailProperties
<1> QED BY <1>1, <1>3 DEF Holds

(* The commands that the queue hands on are no requests. *)
LEMMA KindsDisjoint ==
    /\ \A k \in Fallible \cup Delegated : k \notin Requests /\ k # "Shutdown"
    /\ "Shutdown" \notin Requests
  BY DEF Fallible, Delegated, Requests

-----------------------------------------------------------------------------
(* Waiting clients *)

(* A pending oneshot is in the queue, a stopped task has emptied the queue, *)
(* and a client that awaits has a oneshot to await.                         *)
WaiterInv ==
    /\ \A c \in Clients : reply[c] = "pending" => Holds(cmdQ, Requests, c)
    /\ swarm = "stopped" => cmdQ = <<>>
    /\ \A c \in Clients : pc[c] = "awaiting" => reply[c] # "none"

(* Stopping the task leaves nobody waiting. *)
LEMMA StopWaiters ==
    TypeOK /\ WaiterInv /\ StopSwarm /\ pc' = pc => WaiterInv'
<1> SUFFICES ASSUME TypeOK, WaiterInv, StopSwarm, pc' = pc PROVE WaiterInv'
    OBVIOUS
<1>1. \A c \in Clients :
        reply'[c] = IF IsIn(Requests, c) THEN "dropped" ELSE reply[c]
      BY DEF StopSwarm
<1>2. \A c \in Clients : reply'[c] # "pending"
      BY <1>1 DEF WaiterInv, Holds, IsIn
<1>3. \A c \in Clients : pc'[c] = "awaiting" => reply'[c] # "none"
      BY <1>1 DEF WaiterInv
<1> QED BY <1>2, <1>3 DEF WaiterInv, StopSwarm

(* Reading a command that is no request strands nobody. *)
LEMMA TailWaiters ==
    ASSUME TypeOK, WaiterInv, swarm = "running", cmdQ # <<>>,
           Head(cmdQ).kind \notin Requests,
           cmdQ' = Tail(cmdQ), UNCHANGED <<swarm, reply, pc>>
    PROVE  WaiterInv'
<1>1. ASSUME NEW c \in Clients, reply[c] = "pending"
      PROVE  Holds(Tail(cmdQ), Requests, c)
      BY <1>1, TailHolds DEF TypeOK, WaiterInv
<1> QED BY <1>1 DEF WaiterInv

(* Each step keeps WaiterInv. *)
LEMMA WaiterStep == TypeOK /\ WaiterInv /\ [Next]_vars => WaiterInv'
<1> SUFFICES ASSUME TypeOK, WaiterInv, [Next]_vars PROVE WaiterInv'
    OBVIOUS
<1>1. ASSUME NEW c \in Clients, NEW k \in Kinds, Call(c, k) PROVE WaiterInv'
  <2>1. CASE swarm = "stopped"
        BY <1>1, <2>1 DEF Call, WaiterInv
  <2>2. CASE swarm # "stopped"
    <3> DEFINE cmd == [kind |-> k, from |-> c]
    <3>1. cmd \in Command /\ cmdQ' = Append(cmdQ, cmd)
          BY <1>1, <2>2 DEF Call, Command
    <3>2. ASSUME NEW d \in Clients, reply[d] = "pending"
          PROVE  Holds(cmdQ', Requests, d)
          BY <3>1, <3>2, AppendHolds DEF TypeOK, WaiterInv
    <3>3. k \in Requests => Holds(cmdQ', Requests, c)
      <4> HIDE DEF cmd
      <4>1. /\ Len(cmdQ) \in Nat /\ Len(cmdQ') = Len(cmdQ) + 1
            /\ cmdQ'[Len(cmdQ) + 1] = cmd
            BY <3>1, AppendProperties, LenProperties DEF TypeOK
      <4>2. Len(cmdQ) + 1 \in 1..Len(cmdQ')
            BY <4>1
      <4>3. cmd.kind = k /\ cmd.from = c
            BY DEF cmd
      <4> QED BY <4>1, <4>2, <4>3 DEF Holds
    <3>4. \A d \in Clients : reply'[d] = "pending" => Holds(cmdQ', Requests, d)
          BY <1>1, <2>2, <3>2, <3>3 DEF Call, TypeOK
    <3>5. \A d \in Clients : pc'[d] = "awaiting" => reply'[d] # "none"
          BY <1>1, <2>2 DEF Call, TypeOK, WaiterInv
    <3> QED BY <1>1, <2>2, <3>4, <3>5 DEF Call, WaiterInv
  <2> QED BY <2>1, <2>2
<1>2. ASSUME NEW c \in Clients, AwaitReturns(c) PROVE WaiterInv'
      BY <1>2 DEF AwaitReturns, TypeOK, WaiterInv
<1>3. ASSUME NEW c \in Clients, "Shutdown" \in Kinds, ShutdownSend(c)
      PROVE  WaiterInv'
  <2>1. CASE swarm = "stopped"
        BY <1>3, <2>1 DEF ShutdownSend, WaiterInv
  <2>2. CASE swarm # "stopped"
    <3>1. [kind |-> "Shutdown", from |-> c] \in Command
          BY <1>3 DEF Command
    <3>2. cmdQ' = Append(cmdQ, [kind |-> "Shutdown", from |-> c])
          BY <1>3, <2>2 DEF ShutdownSend
    <3>3. \A d \in Clients : reply[d] = "pending" => Holds(cmdQ', Requests, d)
          BY <3>1, <3>2, AppendHolds DEF TypeOK, WaiterInv
    <3> QED BY <1>3, <2>2, <3>3 DEF ShutdownSend, TypeOK, WaiterInv
  <2> QED BY <2>1, <2>2
<1>4. ASSUME NEW c \in Clients, ShutdownKill(c) PROVE WaiterInv'
      BY <1>4 DEF ShutdownKill, TypeOK, WaiterInv
<1>5. ASSUME NEW c \in Clients, Execute(c) PROVE WaiterInv'
      BY <1>5 DEF Execute, TypeOK, WaiterInv
<1>6. CASE DropHandle
      BY <1>6 DEF DropHandle, WaiterInv
<1>7. CASE ExecNext
      BY <1>7 DEF ExecNext, ExecStart, ExecEvent, ExecClosed, ExecPending,
                  ExecKill, ExecPark, ExecWake, Callback, clientVars, WaiterInv
<1>8. CASE CmdDelegated
      BY <1>8, TailWaiters, KindsDisjoint DEF CmdDelegated, Running, clientVars
<1>9. CASE CmdRequest
  <2>1. Head(cmdQ) \in Command
        BY <1>9, HeadTailProperties DEF CmdRequest, TypeOK
  <2>2. ASSUME NEW c \in Clients, reply'[c] = "pending"
        PROVE  Holds(Tail(cmdQ), Requests, c)
        BY <1>9, <2>1, <2>2, TailHolds DEF CmdRequest, TypeOK, WaiterInv
  <2> QED BY <1>9, <2>2 DEF CmdRequest, Running, TypeOK, WaiterInv
<1>10. ASSUME NEW r \in Relays, NEW dialed \in BOOLEAN, CmdRelay(r, dialed)
       PROVE  WaiterInv'
  <2>1. Head(cmdQ).kind \notin Requests
        BY <1>10, KindsDisjoint DEF CmdRelay, Fallible
  <2> QED BY <1>10, <2>1, TailWaiters DEF CmdRelay, Running, clientVars
<1>11. CASE CmdFails \/ CmdShutdown \/ EvtRdvzDialFails
       BY <1>11, StopWaiters DEF CmdFails, CmdShutdown, EvtRdvzDialFails
<1>12. CASE RelayNext
       BY <1>12 DEF RelayNext, RelayIdentify, RelayTimeout, clientVars, WaiterInv
<1>13. CASE EvtGossip
  <2>1. CASE Running /\ ~held
        BY <1>13, <2>1, StopWaiters DEF EvtGossip
  <2>2. CASE ~(Running /\ ~held)
        BY <1>13, <2>2 DEF EvtGossip, WaiterInv
  <2> QED BY <2>1, <2>2
<1>17. CASE UNCHANGED vars
       BY <1>17 DEF vars, clientVars, WaiterInv
<1> QED BY <1>1, <1>2, <1>3, <1>4, <1>5, <1>6, <1>7, <1>8, <1>9, <1>10, <1>11,
           <1>12, <1>13, <1>17
        DEF Next, ClientNext, CmdNext, EvtNext

(* A request's client is never left waiting: get_connected_peers returns   *)
(* or its command is still before a running swarm task.                    *)
THEOREM NobodyStranded == Spec => []NoWaiterStranded
<1>1. Init => WaiterInv
      BY DEF Init, WaiterInv
<1>2. TypeOK /\ WaiterInv => NoWaiterStranded
  <2> SUFFICES ASSUME TypeOK, WaiterInv PROVE NoWaiterStranded
      OBVIOUS
  <2>1. ASSUME NEW c \in Clients, reply[c] = "pending"
        PROVE  IsIn(Requests, c) /\ swarm = "running"
    <3>1. Holds(cmdQ, Requests, c)
          BY <2>1 DEF WaiterInv
    <3>2. cmdQ # <<>>
          BY <3>1 DEF Holds
    <3> QED BY <3>1, <3>2 DEF Holds, IsIn, TypeOK, WaiterInv
  <2> QED BY <2>1 DEF NoWaiterStranded, WaiterInv
<1> QED BY <1>1, <1>2, TypeCorrect, WaiterStep, PTL DEF Spec

-----------------------------------------------------------------------------
(* Shutdown *)

(* Some shutdown() has sent its command. *)
Signalled == kill = "sent" \/ \E c \in Clients : pc[c] = "shutting"

(* The Shutdown command has been carried out or will be, and a node is     *)
(* marked down by an executor that ends.                                   *)
DownInv ==
    /\ ~receiver_spawned => exec = "none" /\ kill_resp
    /\ exec = "starting" => kill_resp
    /\ is_killed => exec = "ended" /\ kill = "sent"
    /\ Signalled => \/ swarm = "stopped"
                    \/ \E c \in Clients : Holds(cmdQ, {"Shutdown"}, c)

(* The swarm task's steps leave the executor's part of DownInv alone. *)
LEMMA DownFrame ==
    ASSUME DownInv, UNCHANGED <<execVars, kill, pc>>,
           \/ swarm' = "stopped"
           \/ /\ swarm' = swarm
              /\ \A c \in Clients : Holds(cmdQ, {"Shutdown"}, c) =>
                                     Holds(cmdQ', {"Shutdown"}, c)
    PROVE  DownInv'
<1>1. Signalled' = Signalled
      BY DEF Signalled
<1> QED BY <1>1 DEF DownInv, execVars

(* Each step keeps DownInv. *)
LEMMA DownStep == TypeOK /\ DownInv /\ [Next]_vars => DownInv'
<1> SUFFICES ASSUME TypeOK, DownInv, [Next]_vars PROVE DownInv'
    OBVIOUS
<1>1. ASSUME NEW c \in Clients, NEW k \in Kinds, Call(c, k) PROVE DownInv'
  <2>1. ASSUME NEW d \in Clients, Holds(cmdQ, {"Shutdown"}, d)
        PROVE  Holds(cmdQ', {"Shutdown"}, d)
    <3>1. [kind |-> k, from |-> c] \in Command
          BY DEF Command
    <3>2. cmdQ' = cmdQ \/ cmdQ' = Append(cmdQ, [kind |-> k, from |-> c])
          BY <1>1 DEF Call
    <3>3. Holds(Append(cmdQ, [kind |-> k, from |-> c]), {"Shutdown"}, d)
          BY <2>1, <3>1, AppendHolds DEF TypeOK
    <3> QED BY <2>1, <3>2, <3>3
  <2>2. Signalled' => Signalled
        BY <1>1 DEF Call, Signalled, TypeOK
  <2> QED BY <1>1, <2>1, <2>2 DEF Call, DownInv, execVars
<1>2. ASSUME NEW c \in Clients, AwaitReturns(c) PROVE DownInv'
  <2>1. Signalled' => Signalled
        BY <1>2 DEF AwaitReturns, Signalled, TypeOK
  <2> QED BY <1>2, <2>1 DEF AwaitReturns, DownInv, execVars
<1>3. ASSUME NEW c \in Clients, "Shutdown" \in Kinds, ShutdownSend(c)
      PROVE  DownInv'
  <2>1. CASE swarm = "stopped"
        BY <1>3, <2>1 DEF ShutdownSend, DownInv, execVars
  <2>2. CASE swarm # "stopped"
    <3>1. [kind |-> "Shutdown", from |-> c] \in Command
          BY <1>3 DEF Command
    <3>2. cmdQ' = Append(cmdQ, [kind |-> "Shutdown", from |-> c])
          BY <1>3, <2>2 DEF ShutdownSend
    <3>3. Holds(cmdQ', {"Shutdown"}, c)
      <4>1. /\ Len(cmdQ') = Len(cmdQ) + 1 /\ Len(cmdQ) \in Nat
            /\ cmdQ'[Len(cmdQ) + 1] = [kind |-> "Shutdown", from |-> c]
            BY <3>1, <3>2, AppendProperties DEF TypeOK
      <4>2. Len(cmdQ) + 1 \in 1..Len(cmdQ')
            BY <4>1
      <4> QED BY <4>1, <4>2 DEF Holds
    <3>4. UNCHANGED <<swarm, execVars, kill>>
          BY <1>3 DEF ShutdownSend
    <3> QED BY <3>3, <3>4 DEF DownInv, execVars
  <2> QED BY <2>1, <2>2
<1>4. ASSUME NEW c \in Clients, ShutdownKill(c) PROVE DownInv'
  <2>1. Signalled
        BY <1>4 DEF ShutdownKill, Signalled
  <2>2. UNCHANGED <<swarm, cmdQ, execVars>> /\ kill' = "sent"
        BY <1>4 DEF ShutdownKill
  <2> QED BY <2>1, <2>2 DEF DownInv, execVars
<1>5. ASSUME NEW c \in Clients, Execute(c) PROVE DownInv'
  <2>1. Signalled' => Signalled
        BY <1>5 DEF Execute, Signalled, TypeOK
  <2> QED BY <1>5, <2>1 DEF Execute, DownInv
<1>6. CASE DropHandle
      BY <1>6, DownFrame DEF DropHandle
<1>7. CASE ExecNext
  <2>1. UNCHANGED <<cmdQ, swarm, kill, pc, receiver_spawned>>
        BY <1>7 DEF ExecNext, ExecStart, ExecEvent, ExecClosed, ExecPending,
                    ExecKill, ExecPark, ExecWake, Callback, clientVars
  <2>2. Signalled' = Signalled
        BY <2>1 DEF Signalled
  <2>3. /\ exec \notin {"none", "ended"}
        /\ exec' \notin {"none", "starting"}
    <3>1. ASSUME NEW ok \in BOOLEAN, Callback(ok)
          PROVE  /\ exec \notin {"none", "ended"}
                 /\ exec' \notin {"none", "starting"}
          BY <3>1 DEF Callback
    <3> QED BY <1>7, <3>1 DEF ExecNext, ExecStart, ExecEvent, ExecClosed,
                              ExecPending, ExecKill, ExecPark, ExecWake
  <2>4. ExecKill \/ is_killed' = is_killed
        BY <1>7 DEF ExecNext, ExecStart, ExecEvent, ExecClosed, ExecPending,
                    ExecPark, ExecWake, Callback
  <2>5. ~receiver_spawned' => exec' = "none" /\ kill_resp'
        BY <2>1, <2>3 DEF DownInv
  <2>6. is_killed' => exec' = "ended" /\ kill' = "sent"
        BY <2>1, <2>3, <2>4 DEF DownInv, ExecKill
  <2> QED BY <2>1, <2>2, <2>3, <2>5, <2>6 DEF DownInv
<1>8. ASSUME cmdQ # <<>>, Head(cmdQ).kind # "Shutdown", cmdQ' = Tail(cmdQ),
             UNCHANGED <<swarm, execVars, kill, pc>>
      PROVE  DownInv'
  <2>1. ASSUME NEW d \in Clients, Holds(cmdQ, {"Shutdown"}, d)
        PROVE  Holds(cmdQ', {"Shutdown"}, d)
        BY <1>8, <2>1, TailHolds DEF TypeOK
  <2> QED BY <1>8, <2>1, DownFrame
<1>9. CASE CmdDelegated
      BY <1>8, <1>9, KindsDisjoint DEF CmdDelegated, clientVars
<1>10. CASE CmdRequest
       BY <1>8, <1>10, KindsDisjoint DEF CmdRequest
<1>11. ASSUME NEW r \in Relays, NEW dialed \in BOOLEAN, CmdRelay(r, dialed)
       PROVE  DownInv'
       BY <1>8, <1>11 DEF CmdRelay, clientVars
<1>12. CASE CmdFails \/ CmdShutdown \/ EvtRdvzDialFails
       BY <1>12, DownFrame DEF CmdFails, CmdShutdown, EvtRdvzDialFails, StopSwarm
<1>13. CASE RelayNext
       BY <1>13, DownFrame DEF RelayNext, RelayIdentify, RelayTimeout, clientVars
<1>14. CASE EvtGossip
       BY <1>14, DownFrame DEF EvtGossip, StopSwarm
<1>18. CASE UNCHANGED vars
       BY <1>18, DownFrame DEF vars, clientVars
<1> QED BY <1>1, <1>2, <1>3, <1>4, <1>5, <1>6, <1>7, <1>9, <1>10, <1>11, <1>12,
           <1>13, <1>14, <1>18
        DEF Next, ClientNext, CmdNext, EvtNext

(* DownInv holds throughout. *)
LEMMA DownAlways == Spec => []DownInv
<1>1. Init => DownInv
      BY DEF Init, DownInv, Signalled
<1> QED BY <1>1, TypeCorrect, DownStep, PTL DEF Spec

(* is_down() is true only of a node whose executor has ended and whose     *)
(* swarm task has stopped or has the Shutdown command in its queue.        *)
THEOREM DownIsFinal == Spec => []DownMeansStopping
<1>1. DownInv => DownMeansStopping
      BY DEF DownInv, DownMeansStopping, Signalled, Holds
<1> QED BY <1>1, DownAlways, PTL

(* Neither the executor nor the swarm task has a second life. *)
THEOREM EndsOnce == Spec => EndIsFinal
<1>1. DownInv /\ [Next]_vars =>
         [/\ exec = "ended" => exec' = "ended" /\ is_killed' = is_killed
          /\ swarm = "stopped" => swarm' = "stopped" /\ arrived' = arrived]_vars
  <2> SUFFICES ASSUME DownInv, Next
               PROVE  /\ exec = "ended" => exec' = "ended" /\ is_killed' = is_killed
                      /\ swarm = "stopped" => swarm' = "stopped" /\ arrived' = arrived
      OBVIOUS
  <2> USE DEF execVars, evtVars
  <2>1. CASE ClientNext
    <3>1. ASSUME NEW c \in Clients, Execute(c)
          PROVE  /\ exec = "ended" => exec' = "ended" /\ is_killed' = is_killed
                 /\ UNCHANGED <<swarm, arrived>>
          BY <3>1 DEF Execute, DownInv
    <3>2. CASE \/ \E c \in Clients, k \in Kinds : Call(c, k)
               \/ \E c \in Clients : AwaitReturns(c) \/ ShutdownSend(c) \/ ShutdownKill(c)
               \/ DropHandle
          BY <3>2 DEF Call, AwaitReturns, ShutdownSend, ShutdownKill, DropHandle
    <3> QED BY <2>1, <3>1, <3>2 DEF ClientNext
  <2>2. CASE ExecNext
        BY <2>2 DEF ExecNext, ExecStart, ExecEvent, ExecClosed, ExecPending, ExecKill,
                    ExecPark, ExecWake, Callback
  <2>3. CASE CmdNext
        BY <2>3 DEF CmdNext, CmdDelegated, CmdFails, CmdRequest, CmdShutdown, CmdRelay,
                    StopSwarm, Running
  <2>4. CASE RelayNext
        BY <2>4 DEF RelayNext, RelayIdentify, RelayTimeout
  <2>5. CASE EvtNext
        BY <2>5 DEF EvtNext, EvtGossip, EvtRdvzDialFails, StopSwarm, Running
  <2> QED BY <2>1, <2>2, <2>3, <2>4, <2>5 DEF Next
<1> QED BY <1>1, DownAlways, PTL DEF Spec, EndIsFinal

(* An executor that ended without reaching the kill signal, as one does    *)
(* that finds the event channel closed: is_down() stays false for ever.    *)
THEOREM NeverDown ==
    Spec => []((exec = "ended" /\ ~is_killed) => [](exec = "ended" /\ ~is_killed))
<1>1. [/\ exec = "ended" => exec' = "ended" /\ is_killed' = is_killed
       /\ swarm = "stopped" => swarm' = "stopped" /\ arrived' = arrived]_vars =>
         (exec = "ended" /\ ~is_killed => (exec = "ended" /\ ~is_killed)')
      BY DEF vars, execVars
<1> QED BY <1>1, EndsOnce, PTL DEF EndIsFinal

(* The executor that `execute` spawns finds the kill receiver in place. *)
THEOREM ExecutorHasKillResp == Spec => []ExecutorStarts
<1>1. DownInv => ExecutorStarts
      BY DEF DownInv, ExecutorStarts
<1> QED BY <1>1, DownAlways, PTL

-----------------------------------------------------------------------------
(* Event delivery *)

Pipe == delivered \o evtQ

(* A sequence stays increasing when a greater number is appended. *)
LEMMA IncreasingAppend ==
    ASSUME NEW s \in Seq(Nat), NEW n \in Nat, Increasing(s),
           \A m \in Elems(s) : m < n
    PROVE  Increasing(Append(s, n))
  BY DEF Elems, Increasing

(* What is appended is an element, and nothing else is added. *)
LEMMA AppendElems ==
    ASSUME NEW S, NEW s \in Seq(S), NEW n \in S
    PROVE  Elems(Append(s, n)) = Elems(s) \cup {n}
<1> DEFINE t == Append(s, n)
<1>1. /\ Len(s) \in Nat /\ Len(t) = Len(s) + 1 /\ t[Len(s) + 1] = n
      /\ \A i \in 1..Len(s) : t[i] = s[i]
      BY AppendProperties, LenProperties
<1>2. 1..Len(t) = (1..Len(s)) \cup {Len(s) + 1}
      BY <1>1
<1> HIDE DEF t
<1>3. {t[i] : i \in 1..Len(t)} = {s[i] : i \in 1..Len(s)} \cup {n}
      BY <1>1, <1>2
<1> QED BY <1>3 DEF Elems, t

(* Dropping the queue leaves the delivered events, which none of the       *)
(* dropped ones equals.                                                    *)
LEMMA IncreasingFront ==
    ASSUME NEW d \in Seq(Nat), NEW q \in Seq(Nat), Increasing(d \o q)
    PROVE  Increasing(d) /\ Elems(d) \cap Elems(q) = {}
<1> DEFINE s == d \o q
<1>1. /\ Len(s) = Len(d) + Len(q) /\ Len(d) \in Nat /\ Len(q) \in Nat
      /\ s \in Seq(Nat)
      /\ \A i \in 1..Len(d) + Len(q) :
            s[i] = IF i <= Len(d) THEN d[i] ELSE q[i - Len(d)]
      BY ConcatProperties, LenProperties
<1>2. \A i \in 1..Len(d) : i \in 1..Len(s) /\ s[i] = d[i]
      BY <1>1
<1>3. \A i \in 1..Len(q) : i + Len(d) \in 1..Len(s) /\ s[i + Len(d)] = q[i]
      BY <1>1
<1>4. Increasing(d)
      BY <1>2 DEF Increasing
<1>5. ASSUME NEW i \in 1..Len(d), NEW j \in 1..Len(q) PROVE d[i] < q[j]
  <2>1. i < j + Len(d)
        BY <1>1
  <2> QED BY <1>2, <1>3, <2>1 DEF Increasing
<1>6. ASSUME NEW i \in 1..Len(d), NEW j \in 1..Len(q) PROVE d[i] # q[j]
  <2>1. d[i] \in Nat /\ q[j] \in Nat
        BY ElementOfSeq
  <2> QED BY <1>5, <2>1
<1> QED BY <1>4, <1>6 DEF Elems

(* The steps that touch neither channel nor histories. *)
LEMMA FeedFrame ==
    ASSUME EventsInOrder, UNCHANGED evtVars
    PROVE  EventsInOrder'
  BY DEF EventsInOrder, evtVars, Elems, Increasing

(* A message that arrives has a number no earlier one has. *)
LEMMA GossipKeepsOrder ==
    ASSUME TypeOK, EventsInOrder, EvtGossip PROVE EventsInOrder'
<1>1. /\ arrived \in Nat /\ arrived' \in Nat /\ arrived' = arrived + 1
      /\ delivered' = delivered
      /\ delivered \in Seq(Nat) /\ evtQ \in Seq(Nat) /\ Pipe \in Seq(Nat)
      BY ConcatProperties DEF EvtGossip, TypeOK, Pipe
<1>2. 1..arrived' = (1..arrived) \cup {arrived'} /\ arrived' \notin 1..arrived
      BY <1>1
<1>3. /\ Increasing(Pipe) /\ Elems(Pipe) \cap lost = {}
      /\ Elems(Pipe) \cup lost = 1..arrived
      BY DEF EventsInOrder, Pipe
<1>4. CASE evtQ' = Append(evtQ, arrived') /\ lost' = lost
  <2>1. Pipe' = Append(Pipe, arrived')
        BY <1>1, <1>4 DEF Pipe
  <2>2. Elems(Pipe') = Elems(Pipe) \cup {arrived'}
        BY <1>1, <2>1, AppendElems
  <2>3. \A m \in Elems(Pipe) : m < arrived'
        BY <1>1, <1>3
  <2>4. Increasing(Pipe')
        BY <1>1, <1>3, <2>1, <2>3, IncreasingAppend
  <2>5. Elems(Pipe') \cap lost' = {} /\ Elems(Pipe') \cup lost' = 1..arrived'
        BY <1>2, <1>3, <1>4, <2>2
  <2> QED BY <2>4, <2>5 DEF EventsInOrder, Pipe
<1>5. CASE evtQ' = evtQ /\ lost' = lost \cup {arrived'}
  <2>1. Pipe' = Pipe
        BY <1>1, <1>5 DEF Pipe
  <2>2. Elems(Pipe') \cap lost' = {} /\ Elems(Pipe') \cup lost' = 1..arrived'
        BY <1>2, <1>3, <1>5, <2>1
  <2> QED BY <1>3, <2>1, <2>2 DEF EventsInOrder, Pipe
<1> QED BY <1>4, <1>5 DEF EvtGossip

(* The handle takes what was queued with it. *)
LEMMA DropKeepsOrder ==
    ASSUME TypeOK, EventsInOrder, DropHandle PROVE EventsInOrder'
<1>1. /\ delivered \in Seq(Nat) /\ evtQ \in Seq(Nat)
      /\ delivered' = delivered /\ evtQ' = <<>> /\ arrived' = arrived
      /\ lost' = lost \cup Elems(evtQ)
      BY DEF DropHandle, TypeOK
<1>2. (delivered \o evtQ)' = delivered
      BY <1>1, ConcatEmptySeq
<1>3. Increasing(delivered) /\ Elems(delivered) \cap Elems(evtQ) = {}
      BY <1>1, IncreasingFront DEF EventsInOrder
<1>4. Elems(delivered \o evtQ) = Elems(delivered) \cup Elems(evtQ)
  <2>1. Range(delivered \o evtQ) = Range(delivered) \cup Range(evtQ)
        BY <1>1, RangeConcatenation
  <2>2. \A s \in Seq(Nat) : Range(s) = Elems(s)
        BY RangeEquality DEF Elems
  <2>3. delivered \o evtQ \in Seq(Nat)
        BY <1>1
  <2> QED BY <1>1, <2>1, <2>2, <2>3, Zenon
<1>5. /\ Elems(delivered) \cap lost' = {}
      /\ Elems(delivered) \cup lost' = 1..arrived'
      BY <1>1, <1>3, <1>4 DEF EventsInOrder
<1> QED BY <1>2, <1>3, <1>5 DEF EventsInOrder

(* Each step keeps EventsInOrder. *)
LEMMA FeedStep == TypeOK /\ EventsInOrder /\ [Next]_vars => EventsInOrder'
<1> SUFFICES ASSUME TypeOK, EventsInOrder, [Next]_vars PROVE EventsInOrder'
    OBVIOUS
<1>1. CASE EvtGossip  BY <1>1, GossipKeepsOrder
<1>2. CASE DropHandle BY <1>2, DropKeepsOrder
<1>3. CASE ExecEvent
  <2>1. (delivered \o evtQ)' = delivered \o evtQ
        BY <1>3 DEF ExecEvent, TypeOK
  <2>2. UNCHANGED <<arrived, lost>>
        BY <1>3 DEF ExecEvent
  <2> QED BY <2>1, <2>2 DEF EventsInOrder
<1>4. CASE ClientNext /\ ~DropHandle
      BY <1>4, FeedFrame DEF ClientNext, Call, AwaitReturns, ShutdownSend,
                             ShutdownKill, Execute
<1>5. CASE ExecNext /\ ~ExecEvent
      BY <1>5, FeedFrame DEF ExecNext, ExecStart, ExecClosed, ExecPending,
                             ExecKill, ExecPark, ExecWake, Callback
<1>6. CASE CmdNext
      BY <1>6, FeedFrame DEF CmdNext, CmdDelegated, CmdFails, CmdRequest,
                             CmdShutdown, CmdRelay
<1>7. CASE RelayNext
      BY <1>7, FeedFrame DEF RelayNext, RelayIdentify, RelayTimeout
<1>8. CASE EvtNext /\ ~EvtGossip
      BY <1>8, FeedFrame DEF EvtNext, EvtRdvzDialFails
<1>9. CASE UNCHANGED vars
      BY <1>9, FeedFrame DEF vars
<1> QED BY <1>1, <1>2, <1>3, <1>4, <1>5, <1>6, <1>7, <1>8, <1>9 DEF Next

(* Messages reach the callback in order and at most once, and each is      *)
(* delivered, queued or accounted for as thrown away.                      *)
THEOREM OrderedDelivery == Spec => []EventsInOrder
<1>1. Init => EventsInOrder
  <2> SUFFICES ASSUME Init PROVE EventsInOrder
      OBVIOUS
  <2>1. delivered \o evtQ = <<>>
        BY ConcatEmptySeq, EmptySeq DEF Init
  <2>2. lost = {} /\ 1..arrived = {}
        BY DEF Init
  <2>3. Elems(<<>>) = {} /\ Increasing(<<>>)
        BY DEF Elems, Increasing
  <2> QED BY <2>1, <2>2, <2>3 DEF EventsInOrder
<1> QED BY <1>1, TypeCorrect, FeedStep, PTL DEF Spec

-----------------------------------------------------------------------------
(* The node implements EventFeed *)

Last(d) == IF d = <<>> THEN 0 ELSE d[Len(d)]

(* The head of the queue comes after all that was delivered. *)
LEMMA HeadIsNext ==
    ASSUME NEW d \in Seq(Nat), NEW q \in Seq(Nat), q # <<>>, NEW n \in Nat,
           Increasing(d \o q), Elems(d \o q) \subseteq 1..n
    PROVE  Last(Append(d, Head(q))) \in (Last(d) + 1)..n
<1> DEFINE s == d \o q
<1>1. /\ Len(s) = Len(d) + Len(q) /\ Len(d) \in Nat /\ Len(q) \in Nat \ {0}
      /\ \A i \in 1..Len(d) + Len(q) :
            s[i] = IF i <= Len(d) THEN d[i] ELSE q[i - Len(d)]
      BY ConcatProperties, LenProperties, EmptySeq
<1>2. Len(d) + 1 \in 1..Len(s) /\ s[Len(d) + 1] = q[1]
      BY <1>1
<1>3. Head(q) = q[1] /\ Head(q) \in Nat
      BY HeadTailProperties
<1>4. Last(Append(d, Head(q))) = q[1]
      BY <1>1, <1>3, AppendProperties DEF Last
<1>5. q[1] \in 1..n
      BY <1>2 DEF Elems
<1>6. CASE d = <<>>
      BY <1>4, <1>5, <1>6 DEF Last
<1>7. CASE d # <<>>
  <2>1. Len(d) \in 1..Len(s) /\ s[Len(d)] = d[Len(d)]
        BY <1>1, <1>7, EmptySeq
  <2>2. s[Len(d)] < s[Len(d) + 1]
        BY <1>1, <1>2, <2>1 DEF Increasing
  <2>3. d[Len(d)] \in Nat
        BY <1>1, <2>1, ElementOfSeq
  <2> QED BY <1>2, <1>4, <1>5, <1>7, <2>1, <2>2, <2>3 DEF Last
<1> QED BY <1>6, <1>7

(* Each step of the node is a step of the feed, or leaves it as it is. *)
LEMMA FeedSimulates ==
    TypeOK /\ DownInv /\ EventsInOrder /\ [Next]_vars => [Feed!Next]_(Feed!feed)
<1> SUFFICES ASSUME TypeOK, DownInv, EventsInOrder, [Next]_vars
             PROVE  [Feed!Next]_(Feed!feed)
    OBVIOUS
<1>1. ASSUME UNCHANGED <<arrived, delivered, exec>>
      PROVE  [Feed!Next]_(Feed!feed)
      BY <1>1 DEF Feed!feed
<1>2. ASSUME UNCHANGED <<arrived, delivered>>, exec # "ended"
      PROVE  [Feed!Next]_(Feed!feed)
  <2>1. CASE exec' = "ended"
        BY <1>2, <2>1 DEF Feed!Next, Feed!Finish
  <2>2. CASE exec' # "ended"
        BY <1>2, <2>2 DEF Feed!feed
  <2> QED BY <2>1, <2>2
<1>3. CASE EvtGossip
  <2>1. Feed!Arrive
        BY <1>3 DEF EvtGossip, execVars, Feed!Arrive
  <2> QED BY <2>1 DEF Feed!Next
<1>4. CASE ExecEvent
  <2>1. /\ exec # "ended" /\ exec' # "ended" /\ arrived' = arrived
        /\ delivered' = Append(delivered, Head(evtQ)) /\ evtQ # <<>>
        BY <1>4 DEF ExecEvent
  <2>2. Last(delivered') \in (Last(delivered) + 1)..arrived
        BY <2>1, HeadIsNext DEF TypeOK, EventsInOrder
  <2>3. Feed!Deliver
        BY <2>1, <2>2 DEF Feed!Deliver, Last
  <2> QED BY <2>3 DEF Feed!Next
<1>5. CASE ExecNext /\ ~ExecEvent
  <2>1. UNCHANGED <<arrived, delivered>> /\ exec # "ended"
        BY <1>5 DEF ExecNext, ExecStart, ExecClosed, ExecPending, ExecKill,
                    ExecPark, ExecWake, Callback, evtVars
  <2> QED BY <1>2, <2>1
<1>6. ASSUME NEW c \in Clients, Execute(c) PROVE [Feed!Next]_(Feed!feed)
  <2>1. UNCHANGED <<arrived, delivered>> /\ (exec # "ended" \/ exec' = exec)
        BY <1>6 DEF Execute, evtVars, DownInv
  <2> QED BY <1>1, <1>2, <2>1
<1>7. CASE DropHandle
      BY <1>1, <1>7 DEF DropHandle, execVars
<1>8. ASSUME NEW c \in Clients,
             \/ \E k \in Kinds : Call(c, k)
             \/ AwaitReturns(c) \/ ShutdownSend(c) \/ ShutdownKill(c)
      PROVE  [Feed!Next]_(Feed!feed)
      BY <1>1, <1>8 DEF Call, AwaitReturns, ShutdownSend, ShutdownKill, evtVars,
                        execVars
<1>9. CASE CmdNext
      BY <1>1, <1>9 DEF CmdNext, CmdDelegated, CmdFails, CmdRequest, CmdShutdown,
                        CmdRelay, evtVars, execVars
<1>10. CASE RelayNext
       BY <1>1, <1>10 DEF RelayNext, RelayIdentify, RelayTimeout, evtVars, execVars
<1>11. CASE EvtNext /\ ~EvtGossip
       BY <1>1, <1>11 DEF EvtNext, EvtRdvzDialFails, evtVars, execVars
<1>12. CASE UNCHANGED vars
       BY <1>1, <1>12 DEF vars, evtVars, execVars
<1> QED BY <1>3, <1>4, <1>5, <1>6, <1>7, <1>8, <1>9, <1>10, <1>11, <1>12
        DEF Next, ClientNext

(* The node implements the feed of events its user is promised: at most    *)
(* once, in order of arrival, and nothing after the executor has ended.    *)
THEOREM ImplementsEventFeed == Spec => IsEventFeed
<1>1. Init => Feed!Init
      BY DEF Init, Feed!Init
<1> QED BY <1>1, TypeCorrect, DownAlways, OrderedDelivery, FeedSimulates, PTL
        DEF Spec, IsEventFeed, Feed!Spec

(* The end of the channel never overtakes what is in it: an executor that  *)
(* neither fails nor is killed has delivered all that came when it ends.   *)
THEOREM DeliversBeforeEnd == Spec => EndsDelivered
<1> DEFINE Done == exec # "ended" /\ exec' = "ended" =>
                     \/ exec = "callback" \/ is_killed'
                     \/ swarm = "stopped" /\ Elems(delivered) \cup lost = 1..arrived
<1>1. TypeOK /\ EventsInOrder /\ ExecutorStarts /\ [Next]_vars => [Done]_vars
  <2> SUFFICES ASSUME TypeOK, EventsInOrder, ExecutorStarts, Next,
                      exec # "ended", exec' = "ended"
               PROVE  \/ exec = "callback" \/ is_killed'
                      \/ swarm = "stopped" /\ Elems(delivered) \cup lost = 1..arrived
      OBVIOUS
  <2>1. ExecNext
    <3>1. ASSUME NEW c \in Clients, Execute(c) PROVE FALSE
          BY <3>1 DEF Execute
    <3>2. CASE \/ \E c \in Clients, k \in Kinds : Call(c, k)
               \/ \E c \in Clients : AwaitReturns(c) \/ ShutdownSend(c) \/ ShutdownKill(c)
               \/ DropHandle
          BY <3>2 DEF Call, AwaitReturns, ShutdownSend, ShutdownKill, DropHandle, execVars
    <3>3. CASE CmdNext
          BY <3>3 DEF CmdNext, CmdDelegated, CmdFails, CmdRequest, CmdShutdown, CmdRelay,
                      execVars
    <3>4. CASE RelayNext
          BY <3>4 DEF RelayNext, RelayIdentify, RelayTimeout, execVars
    <3>5. CASE EvtNext
          BY <3>5 DEF EvtNext, EvtGossip, EvtRdvzDialFails, execVars
    <3> QED BY <3>1, <3>2, <3>3, <3>4, <3>5 DEF Next, ClientNext
  <2>2. ExecClosed \/ ExecKill \/ exec = "callback"
        BY <2>1 DEF ExecNext, ExecutorStarts, ExecStart, ExecEvent, ExecPending, ExecPark,
                    ExecWake, Callback
  <2>3. CASE ExecClosed
    <3>1. swarm = "stopped" /\ evtQ = <<>>
          BY <2>3 DEF ExecClosed
    <3>2. delivered \o evtQ = delivered
          BY <3>1, ConcatEmptySeq DEF TypeOK
    <3> QED BY <3>1, <3>2 DEF EventsInOrder
  <2>4. CASE ExecKill
        BY <2>4 DEF ExecKill
  <2> QED BY <2>2, <2>3, <2>4
<1> QED BY <1>1, TypeCorrect, OrderedDelivery, ExecutorHasKillResp, PTL
        DEF Spec, EndsDelivered
=============================================================================
