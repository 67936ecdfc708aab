----------------------------- MODULE EndProofs ------------------------------
(***************************************************************************)
(* Two more parts about the data-transfer process: the queues of packets   *)
(* (QueueInv), and how the process ends, which rests on them (SoundInv,    *)
(* EndInv).                                                                *)
(***************************************************************************)
EXTENDS DataTransferProofs

-----------------------------------------------------------------------------
(***************************************************************************)
(* The queues of packets.  A socket is polled for input exactly while it   *)
(* has a slot to read into, or a slot that it is reading into; that rests  *)
(* on the count of packets being the number of slots that hold one, which  *)
(* three functions keep apart from the slots.                              *)
(***************************************************************************)

-----------------------------------------------------------------------------
(* Sets of slots.                                                          *)

(* The slots are finitely many, and a set of as many slots is all of them. *)
LEMMA SlotSets ==
  ASSUME NEW S, S \subseteq Slots
  PROVE  /\ IsFiniteSet(S) /\ Cardinality(S) \in Nat
         /\ Cardinality(S) = QueueSize <=> S = Slots
         /\ \A p \in Slots : p \notin S => Cardinality(S \union {p}) = Cardinality(S) + 1
         /\ \A p \in S : Cardinality(S \ {p}) = Cardinality(S) - 1
  <1>1. IsFiniteSet(Slots) /\ Cardinality(Slots) = QueueSize
    BY FS_Interval, Positive DEF Slots
  <1>2. /\ IsFiniteSet(S)
        /\ Cardinality(Slots) = Cardinality(S) => Slots = S
    BY <1>1, FS_Subset
  <1>3. Cardinality(S) \in Nat
    BY <1>2, FS_CardinalityType
  <1>4. \A p \in Slots : p \notin S => Cardinality(S \union {p}) = Cardinality(S) + 1
    BY <1>2, FS_AddElement
  <1>5. \A p \in S : Cardinality(S \ {p}) = Cardinality(S) - 1
    BY <1>2, FS_RemoveElement
  <1> QED BY <1>1, <1>2, <1>3, <1>4, <1>5

-----------------------------------------------------------------------------
(* The poll for input.                                                     *)

(* Only reading a socket stops the poll for input on it, and only a packet *)
(* of its that is with the host starts it; but for sockets that are closed.*)
LEMMA InputPoll ==
  ASSUME IInv, OrderInv, [Next]_vars, Alive', NEW i \in Agents,
         AgentIn(i) => fd_poll'[i] = fd_poll[i],
         ~(SendHost /\ cursor.agent_id = i /\ HostCompletes(i, cursor.packet_index))
  PROVE  ("in" \in fd_poll'[i] <=> "in" \in fd_poll[i]) \/ fd_poll'[i] = CLOSED \/ i \in closed'
  <1> USE DEF poll_vars
  <1>1. /\ fd_poll \in [Fds -> PollStates] /\ Host \in Fds /\ i \in Fds
        /\ i # Host /\ \A j \in Agents : j \in Fds /\ j # Host
    BY TransferAssumption DEF IInv, TypeOK, PollTypes, Fds
  <1>2. \A new \in {FullMask(i), NotFullMask(i), BlockedMask(i), UnblockedMask(i)} :
          "in" \in new <=> "in" \in fd_poll[i]
    BY <1>1 DEF FullMask, NotFullMask, BlockedMask, UnblockedMask, POLLIN, POLLOUT, OFF
  <1>3. ASSUME NEW f \in Fds, f # i, NEW mask, NEW next, SetPoll(f, mask, next)
        PROVE  fd_poll'[i] = fd_poll[i]
    BY <1>1, <1>3 DEF SetPoll, EpollCtl
  <1>4. ASSUME NEW f \in Fds, f # i, NEW mask, NEW shut, Unregister(f, mask, shut)
        PROVE  fd_poll'[i] = fd_poll[i]
    BY <1>1, <1>4 DEF Unregister
  <1>5. ASSUME NEW mask, NEW next, SetPoll(i, mask, next)
        PROVE  fd_poll'[i] = mask
    BY <1>1, <1>5, SetPollSets
  <1>6. CASE CheckClosed
    BY <1>1, <1>6 DEF CheckClosed
  <1>7. CASE HostIn
    <2>1. CASE AllAgentsSocksFull
      <3>1. fd_poll'[i] = FullMask(i)
        BY <1>1, <2>1, EpollCtlSets DEF AllAgentsSocksFull
      <3> QED BY <1>2, <3>1
    <2> QED BY <1>7, <2>1 DEF HostIn, Exit
  <1>8. ASSUME NEW j \in Agents, AgentOut(j)
        PROVE  "in" \in fd_poll'[i] <=> "in" \in fd_poll[i]
    <2>1. CASE NotAllAgentSocksFull
      <3>1. fd_poll'[i] = NotFullMask(i)
        BY <1>1, <2>1, EpollCtlSets DEF NotAllAgentSocksFull
      <3> QED BY <1>2, <3>1
    <2> QED BY <1>8, <2>1 DEF AgentOut
  <1>9. ASSUME NEW j \in Agents, RecvHost(j)
        PROVE  fd_poll'[i] = fd_poll[i]
    BY <1>1, <1>4, <1>9 DEF RecvHost, Exit, IInv, TypeOK, HostTypes, PeerStates
  <1>10. ASSUME NEW j \in Agents, ResumeSend(j)
         PROVE  "in" \in fd_poll'[i] <=> "in" \in fd_poll[i]
    BY <1>1, <1>2, <1>3, <1>5, <1>10 DEF ResumeSend, Exit
  <1>11. ASSUME NEW j \in Agents, SendAgent(j)
         PROVE  ("in" \in fd_poll'[i] <=> "in" \in fd_poll[i]) \/ i \in closed'
    <2>1. CASE AgentSendFails(j) /\ i = j
      BY <2>1 DEF AgentSendFails, Unregister, Exit
    <2>2. CASE AgentSendFails(j) /\ i # j
      BY <1>1, <1>4, <2>2 DEF AgentSendFails, Exit
    <2>3. CASE AgentAccepts(j)
      BY <2>3 DEF AgentAccepts
    <2>4. CASE AgentBlocks(j)
      <3>1. SetPoll(j, BlockedMask(j), "check")
        BY <2>4 DEF AgentBlocks
      <3>2. i = j => fd_poll'[i] = BlockedMask(i)
        BY <1>5, <3>1
      <3>3. i # j => fd_poll'[i] = fd_poll[i]
        BY <1>1, <1>3, <3>1
      <3> QED BY <1>2, <3>2, <3>3
    <2> QED BY <1>11, <2>1, <2>2, <2>3, <2>4 DEF SendAgent
  <1>12. ASSUME NEW j \in Agents, AgentIn(j)
         PROVE  fd_poll'[i] = fd_poll[i]
    BY <1>1, <1>3, <1>4, <1>12 DEF AgentIn, ReadPacket, ReadBlocks, ReadEnds, ReadFails, Exit
  <1>13. CASE HostOut
    BY <1>1, <1>3, <1>13 DEF HostOut
  <1>14. CASE SendHost
    <2>1. cursor.agent_id \in Agents
      BY <1>14 DEF SendHost, IInv, CursorInv
    <2>2. CASE HostCompletes(cursor.agent_id, cursor.packet_index)
      <3>1. cursor.agent_id # i
        BY <1>14, <2>2
      <3> QED BY <1>1, <1>3, <2>1, <2>2, <3>1 DEF HostCompletes
    <2>3. CASE ~HostCompletes(cursor.agent_id, cursor.packet_index)
      BY <1>1, <1>3, <1>4, <1>14, <2>3 DEF SendHost, HostAccepts, HostBlocks, HostSendFails, Exit
    <2> QED BY <2>2, <2>3
  <1>15. HostSide \/ RemoteSide \/ Ended \/ UNCHANGED vars => UNCHANGED poll_vars
    BY DEF HostSide, HostWrites, HostReads, HostCloses, HostResets, RemoteSide, RemoteSends,
           Arrive, Drain, RemoteCloses, RemoteResets, Ended, process_vars, vars
  <1> QED BY <1>6, <1>7, <1>8, <1>9, <1>10, <1>11, <1>12, <1>13, <1>14, <1>15 DEF Next, Outbound, Inbound

-----------------------------------------------------------------------------
(* The invariant.                                                          *)

(* The slots that agent_packet_queue_count counts.                         *)
Counted(i) ==
  {p \in Slots \ FreeSlots(i) : p # agent_packet_index_in[i] \/ agent_needed_header_size[i] = 0}

(* The count is their number.                                              *)
CountExact(i) ==
  pc \notin Fatal /\ i \notin closed => agent_packet_queue_count[i] = Cardinality(Counted(i))

(* The slot that is read into is in use.                                   *)
FillingInUse(i) ==
  pc \notin Fatal /\ fd_poll[i] # CLOSED /\ i \notin closed /\ agent_packet_index_in[i] # EMPTY =>
    buffered_packet[i][agent_packet_index_in[i]].in_use

(* A socket with no slot to read into is not polled for input ...          *)
FullUnpolled(i) ==
  Alive /\ agent_packet_index_in[i] = EMPTY /\ FreeSlots(i) = {} => "in" \notin fd_poll[i]

(* ... and only such a socket is not, of those that are open.              *)
UnpolledFull(i) ==
  Alive /\ fd_poll[i] # CLOSED /\ i \notin closed /\ "in" \notin fd_poll[i] =>
    FreeSlots(i) = {} /\ agent_packet_index_in[i] = EMPTY

QueueOf(i) == CountExact(i) /\ FillingInUse(i) /\ FullUnpolled(i) /\ UnpolledFull(i)

QueueInv == NeverTriggeredInVain /\ \A i \in Agents : QueueOf(i)

(* An agent that a step does not touch keeps what the invariant says of it.*)
LEMMA QueueKept ==
  ASSUME IInv, OrderInv, QueueInv, [Next]_vars, NEW i \in Agents,
         AgentIn(i) => fd_poll'[i] = fd_poll[i],
         ~(SendHost /\ cursor.agent_id = i /\ HostCompletes(i, cursor.packet_index)),
         \A q \in Slots : buffered_packet'[i][q].in_use = buffered_packet[i][q].in_use,
         agent_packet_index_in'[i] = agent_packet_index_in[i],
         agent_needed_header_size'[i] = agent_needed_header_size[i],
         agent_packet_queue_count'[i] = agent_packet_queue_count[i]
  PROVE  QueueOf(i)'
  <1>1. FreeSlots(i)' = FreeSlots(i) /\ Counted(i)' = Counted(i)
    BY DEF FreeSlots, Counted
  <1>2. pc' \notin Fatal /\ i \notin closed' => pc \notin Fatal /\ i \notin closed
    BY PcSteps, ClosedIsFinal DEF OrderInv, Exits
  <1>3. CountExact(i)'
    BY <1>1, <1>2 DEF QueueInv, QueueOf, CountExact
  <1>4. agent_packet_index_in[i] \in Slots \union {EMPTY}
    BY DEF IInv, TypeOK, SlotTypes
  <1>5. FillingInUse(i)'
    BY <1>4, StillRead DEF OrderInv, QueueInv, QueueOf, FillingInUse
  <1>6. ASSUME Alive', agent_packet_index_in'[i] = EMPTY, FreeSlots(i)' = {}, "in" \in fd_poll'[i]
        PROVE  FALSE
    <2>1. Alive
      BY <1>6, RunsOn
    <2>2. "in" \notin fd_poll[i]
      BY <1>1, <1>6, <2>1 DEF QueueInv, QueueOf, FullUnpolled
    <2>3. fd_poll'[i] # CLOSED
      BY <1>6 DEF CLOSED
    <2>4. i \in closed'
      BY <1>6, <2>2, <2>3, InputPoll
    <2>5. epoll'[i] = {} /\ epoll'[i] = fd_poll'[i] \ CLOSED
      BY <1>6, <2>4, NextIInv, NextOrder DEF OrderInv, ClosedUnpolled, IInv, PollMatchesEpoll, Fds
    <2> QED BY <1>6, <2>5 DEF CLOSED
  <1>7. ASSUME Alive', fd_poll'[i] # CLOSED, i \notin closed', "in" \notin fd_poll'[i]
        PROVE  FreeSlots(i)' = {} /\ agent_packet_index_in'[i] = EMPTY
    <2>1. Alive /\ fd_poll[i] # CLOSED /\ i \notin closed
      BY <1>7, RunsOn, ClosedIsFinal DEF OrderInv, Fds
    <2>2. "in" \notin fd_poll[i]
      BY <1>7, InputPoll
    <2> QED BY <1>1, <2>1, <2>2 DEF QueueInv, QueueOf, UnpolledFull
  <1> QED BY <1>3, <1>5, <1>6, <1>7 DEF QueueOf, FullUnpolled, UnpolledFull

(* A packet that is with the host leaves a slot free and one packet less,  *)
(* and its socket is polled for input.                                     *)
LEMMA CompleteKeepsQueue ==
  ASSUME IInv, OrderInv, QueueInv, [Next]_vars, SendHost,
         NEW i, NEW p, i = cursor.agent_id, p = cursor.packet_index, HostCompletes(i, p)
  PROVE  /\ QueueOf(i)'
         /\ \A j \in Agents, q \in Slots : j # i =>
              /\ buffered_packet'[j][q].in_use = buffered_packet[j][q].in_use
              /\ agent_packet_queue_count'[j] = agent_packet_queue_count[j]
  <1>1. /\ i \in Agents /\ p \in Slots /\ Read(i, p)
        /\ buffered_packet \in SlotArray
        /\ agent_packet_queue_count \in [Agents -> Int]
        /\ agent_packet_index_in[i] \in Slots \union {EMPTY}
        /\ fd_poll \in [Fds -> PollStates] /\ i \in Fds
    BY DEF SendHost, OrderInv, SendingNext, IInv, CursorInv, TypeOK, ControlTypes, Cursor, SlotTypes,
           SlotArray, PollTypes, Fds
  <1>2. /\ buffered_packet' = [buffered_packet EXCEPT ![i][p].in_use = FALSE]
        /\ agent_packet_queue_count' = [agent_packet_queue_count EXCEPT ![i] = @ - 1]
        /\ UNCHANGED <<agent_packet_index_in, agent_needed_header_size>>
    BY DEF SendHost, HostCompletes
  <1>0. \E next : SetPoll(i, FreedQueueMask(i), next)
    BY DEF HostCompletes
  <1>3. /\ ~buffered_packet'[i][p].in_use
        /\ \A j \in Agents, q \in Slots : j # i \/ q # p =>
             buffered_packet'[j][q].in_use = buffered_packet[j][q].in_use
    <2> DEFINE s == [buffered_packet[i][p] EXCEPT !.in_use = FALSE]
    <2>1. buffered_packet[i][p] \in SlotState
      BY <1>1 DEF SlotArray
    <2>2. s.in_use = FALSE
      BY <2>1 DEF SlotState
    <2>3. buffered_packet' = [buffered_packet EXCEPT ![i][p] = s]
      BY <1>2
    <2> HIDE DEF s
    <2>4. /\ buffered_packet'[i][p] = s
          /\ \A j \in Agents, q \in Slots : j # i \/ q # p =>
               buffered_packet'[j][q] = buffered_packet[j][q]
      BY <1>1, <2>3 DEF SlotArray
    <2> QED BY <2>2, <2>4
  <1>4. p \in Counted(i) /\ Counted(i)' = Counted(i) \ {p} /\ Counted(i) \subseteq Slots
    BY <1>1, <1>2, <1>3 DEF Counted, FreeSlots, Read
  <1>5. CountExact(i)'
    <2> SUFFICES ASSUME pc' \notin Fatal, i \notin closed'
                 PROVE  agent_packet_queue_count'[i] = Cardinality(Counted(i)')
      BY DEF CountExact
    <2>1. pc \notin Fatal /\ i \notin closed
      BY PcSteps, ClosedIsFinal DEF OrderInv, Exits
    <2>2. agent_packet_queue_count[i] = Cardinality(Counted(i))
      BY <1>1, <2>1 DEF QueueInv, QueueOf, CountExact
    <2>3. Cardinality(Counted(i) \ {p}) = Cardinality(Counted(i)) - 1
      BY <1>4, SlotSets
    <2> QED BY <1>1, <1>2, <1>4, <2>2, <2>3
  <1>6. FillingInUse(i)'
    <2> SUFFICES ASSUME pc' \notin Fatal, fd_poll'[i] # CLOSED, i \notin closed', agent_packet_index_in[i] # EMPTY
                 PROVE  buffered_packet'[i][agent_packet_index_in[i]].in_use
      BY <1>2 DEF FillingInUse
    <2>1. buffered_packet[i][agent_packet_index_in[i]].in_use
      BY <1>1, StillRead DEF OrderInv, QueueInv, QueueOf, FillingInUse
    <2>2. agent_packet_index_in[i] # p /\ agent_packet_index_in[i] \in Slots
      BY <1>1 DEF Read
    <2> QED BY <1>1, <1>3, <2>1, <2>2
  <1>7. FreeSlots(i)' # {}
    BY <1>1, <1>3 DEF FreeSlots
  <1>8. Alive' /\ fd_poll'[i] # CLOSED => "in" \in fd_poll'[i]
    <2> SUFFICES ASSUME Alive', fd_poll'[i] # CLOSED
                 PROVE  "in" \in fd_poll'[i]
      OBVIOUS
    <2>1. fd_poll'[i] = FreedQueueMask(i)
      BY <1>0, <1>1, SetPollSets
    <2> QED BY <1>1, <2>1 DEF FreedQueueMask, PollStates, POLLIN, POLLOUT, OFF, INAndOut, CLOSED
  <1>9. FullUnpolled(i)' /\ UnpolledFull(i)'
    BY <1>7, <1>8 DEF FullUnpolled, UnpolledFull
  <1> QED BY <1>2, <1>3, <1>5, <1>6, <1>9, <1>1 DEF QueueOf

-----------------------------------------------------------------------------
(* Reading a socket.                                                       *)

(* What a read does to the slot of its socket: the slot is counted when    *)
(* the header is complete, as the count is.                                *)
LEMMA SlotAfterRead ==
  ASSUME IInv, NEW i \in Agents, NEW p \in Slots, Filling(i, p), QueueOf(i),
         pc \notin Fatal, fd_poll[i] # CLOSED, i \notin closed,
         PartOfPacket(i, p) \/ WholePacket(i, p), OtherSlotsKept(i, p),
         CountHeader(i), ReadPacket(i, p) \/ ReadBlocks(i, p) \/ ReadEnds(i, p),
         pc' # "weird_false_fire"
  PROVE  agent_packet_queue_count'[i] = Cardinality(Counted(i)')
  <1>1. /\ Progress(i) \in 0 .. PacketLen - 1 /\ Reached(i) \in 0 .. PacketLen
        /\ Progress(i) <= Reached(i) /\ HeaderLen \in Nat \ {0} /\ PacketLen > HeaderLen
    BY ReadableType, Positive DEF IInv
  <1>2. /\ agent_packet_index_in \in [Agents -> Slots \union {EMPTY}] /\ EMPTY \notin Slots
        /\ agent_needed_header_size \in [Agents -> 0 .. HeaderLen - 1]
        /\ buffered_packet \in SlotArray
        /\ agent_packet_queue_count \in [Agents -> Int]
    BY Positive DEF IInv, TypeOK, SlotTypes, SlotArray, Slots, EMPTY
  <1>3. agent_packet_index_in[i] \in {EMPTY, p} /\ agent_packet_index_in'[i] \in {EMPTY, p}
    BY <1>2 DEF Filling, PartOfPacket, WholePacket
  <1>4. p \in Counted(i) <=> Progress(i) >= HeaderLen
    <2>1. CASE agent_packet_index_in[i] = EMPTY
      BY <1>1, <2>1 DEF Filling, FreeSlots, Counted, Progress
    <2>2. CASE agent_packet_index_in[i] # EMPTY
      <3>1. agent_packet_index_in[i] = p /\ buffered_packet[i][p].in_use
        BY <1>3, <2>2 DEF QueueOf, FillingInUse
      <3>2. agent_needed_header_size[i] > 0 => Progress(i) = agent_needed_header_size[i]
        BY <2>2 DEF Progress
      <3>3. agent_needed_header_size[i] = 0 => Progress(i) = HeaderLen + buffered_packet[i][p].host_sent_size
        BY <2>2, <3>1 DEF Progress
      <3>4. buffered_packet[i][p].host_sent_size \in Nat
        BY Positive DEF IInv, TypeOK, SlotTypes, SlotState
      <3>5. agent_needed_header_size[i] \in 0 .. HeaderLen - 1
        BY <1>2
      <3>6. p \in Counted(i) <=> agent_needed_header_size[i] = 0
        BY <3>1 DEF Counted, FreeSlots
      <3> QED BY <1>1, <3>2, <3>3, <3>4, <3>5, <3>6
    <2> QED BY <2>1, <2>2
  <1>5. p \in Counted(i)' <=> Reached(i) >= HeaderLen
    <2>1. CASE ReadPacket(i, p)
      <3>1. Reached(i) = PacketLen /\ agent_packet_index_in'[i] = EMPTY
        BY <1>2, <2>1 DEF ReadPacket
      <3>2. buffered_packet'[i][p].in_use
        BY <1>2, <2>1 DEF ReadPacket, SlotArray, SlotState
      <3> QED BY <1>1, <1>2, <3>1, <3>2 DEF Counted, FreeSlots
    <2>2. CASE ReadBlocks(i, p)
      <3>1. agent_packet_index_in'[i] = p /\ Reached(i) # 0
        BY <1>2, <2>2 DEF ReadBlocks, Exit
      <3>2. agent_needed_header_size'[i] = IF Reached(i) < HeaderLen THEN Reached(i) ELSE 0
        BY <1>2, <2>2 DEF ReadBlocks
      <3>3. buffered_packet'[i][p].in_use
        BY <1>2, <2>2 DEF ReadBlocks, StopAt, SlotArray, SlotState
      <3> QED BY <1>1, <3>1, <3>2, <3>3 DEF Counted, FreeSlots
    <2>3. CASE ReadEnds(i, p)
      <3>1. agent_packet_index_in'[i] = p
        BY <1>2, <2>3 DEF ReadEnds
      <3>2. Reached(i) >= HeaderLen => agent_needed_header_size'[i] = 0
        BY <1>1, <1>2, <2>3 DEF ReadEnds
      <3>3. buffered_packet'[i][p].in_use <=> Reached(i) >= HeaderLen
        <4> DEFINE used == Reached(i) >= HeaderLen
                   s == [buffered_packet[i][p] EXCEPT !.in_use = used]
        <4>1. buffered_packet'[i][p] = s
          BY <1>2, <2>3 DEF ReadEnds, SlotArray
        <4>2. buffered_packet[i][p] \in SlotState
          BY <1>2 DEF SlotArray
        <4> HIDE DEF used
        <4>3. s.in_use = used
          BY <4>2 DEF SlotState
        <4> QED BY <4>1, <4>3 DEF used
      <3> QED BY <1>1, <3>1, <3>2, <3>3 DEF Counted, FreeSlots
    <2> QED BY <2>1, <2>2, <2>3
  <1>6. \A q \in Slots : q # p => (q \in Counted(i)' <=> q \in Counted(i))
    BY <1>2, <1>3 DEF Counted, FreeSlots, OtherSlotsKept
  <1>7. Counted(i) \subseteq Slots /\ Counted(i)' \subseteq Slots
    BY DEF Counted
  <1>8. agent_packet_queue_count[i] = Cardinality(Counted(i))
    BY DEF QueueOf, CountExact
  <1>9. CASE Progress(i) < HeaderLen /\ Reached(i) >= HeaderLen
    <2>1. Counted(i)' = Counted(i) \union {p} /\ p \notin Counted(i)
      BY <1>1, <1>4, <1>5, <1>6, <1>7, <1>9
    <2>2. Cardinality(Counted(i) \union {p}) = Cardinality(Counted(i)) + 1
      BY <1>7, <2>1, SlotSets
    <2>3. agent_packet_queue_count'[i] = agent_packet_queue_count[i] + 1
      BY <1>2, <1>9 DEF CountHeader
    <2> QED BY <1>8, <2>1, <2>2, <2>3
  <1>10. CASE ~(Progress(i) < HeaderLen /\ Reached(i) >= HeaderLen)
    <2>1. Counted(i)' = Counted(i)
      BY <1>1, <1>4, <1>5, <1>6, <1>7, <1>10
    <2>2. agent_packet_queue_count'[i] = agent_packet_queue_count[i]
      BY <1>10 DEF CountHeader
    <2> QED BY <1>8, <2>1, <2>2
  <1> QED BY <1>9, <1>10

(* Once the packet is complete and every slot is taken the poll for input  *)
(* stops, and not before.                                                  *)
LEMMA PollAfterPacket ==
  ASSUME IInv, NEW i \in Agents, NEW p \in Slots, ReadPacket(i, p), Alive',
         agent_packet_queue_count'[i] = Cardinality(Counted(i)'), "in" \in fd_poll[i]
  PROVE  /\ agent_packet_index_in'[i] = EMPTY
         /\ "in" \in fd_poll'[i] <=> FreeSlots(i)' # {}
  <1>1. /\ agent_packet_index_in \in [Agents -> Slots \union {EMPTY}] /\ EMPTY \notin Slots
        /\ fd_poll \in [Fds -> PollStates] /\ i \in Fds
    BY Positive DEF IInv, TypeOK, SlotTypes, Slots, EMPTY, PollTypes, Fds
  <1>2. agent_packet_index_in'[i] = EMPTY
    BY <1>1 DEF ReadPacket
  <1>3. Counted(i)' = Slots \ FreeSlots(i)' /\ FreeSlots(i)' \subseteq Slots
    BY <1>1, <1>2 DEF Counted, FreeSlots
  <1>4. agent_packet_queue_count'[i] = QueueSize <=> FreeSlots(i)' = {}
    <2>1. Cardinality(Counted(i)') = QueueSize <=> Counted(i)' = Slots
      BY <1>3, SlotSets
    <2> QED BY <1>3, <2>1
  <1>5. fd_poll'[i] = FullQueueMask(i, agent_packet_queue_count'[i])
    <2> DEFINE mask == FullQueueMask(i, agent_packet_queue_count'[i])
    <2>1. \E next : SetPoll(i, mask, next)
      BY DEF ReadPacket
    <2> HIDE DEF mask
    <2>2. fd_poll' = [fd_poll EXCEPT ![i] = mask]
      BY <2>1, SetPollSets
    <2> QED BY <1>1, <2>2 DEF mask
  <1>6. "in" \in fd_poll'[i] <=> agent_packet_queue_count'[i] # QueueSize
    BY <1>5 DEF FullQueueMask, POLLIN
  <1> QED BY <1>2, <1>4, <1>6

(* Reading a socket: it had a slot to read into and something to read.     *)
LEMMA AgentInKeepsQueue ==
  ASSUME IInv, OrderInv, QueueInv, [Next]_vars, NEW i \in Agents, AgentIn(i)
  PROVE  QueueInv'
  <1>1. /\ Alive /\ fd_poll[i] # CLOSED /\ i \notin closed /\ pc \notin Fatal /\ QueueOf(i)
        /\ "in" \in fd_poll[i] /\ AgentReadable(i) /\ pc = "wait"
        /\ Progress(i) = taken[i]
    BY AgentInFills DEF OrderInv, AgentIn, IInv, PollMatchesEpoll, Fds, QueueInv, Alive, Running, Fatal
  <1>2. ~(agent_packet_index_in[i] = EMPTY /\ FreeSlots(i) = {})
    BY <1>1 DEF QueueOf, FullUnpolled
  <1>3. PICK p \in Slots :
          /\ Filling(i, p)
          /\ Take(i, Readable(i)) /\ CountHeader(i)
          /\ \/ ReadPacket(i, p)
             \/ /\ ReadBlocks(i, p) \/ ReadEnds(i, p) \/ ReadFails(i, p)
                /\ UNCHANGED <<buffered_packet_table, agent_packet_index_out, cursor>>
    BY <1>2, AgentInFills DEF OrderInv
  <1>4. (PartOfPacket(i, p) \/ WholePacket(i, p)) /\ OtherSlotsKept(i, p)
    BY <1>1, <1>3, PartEffect, WholeEffect
  <1>5. peer[i] = "open" => Reached(i) > 0
    <2>1. Progress(i) \in 0 .. PacketLen - 1 /\ Reached(i) = Progress(i) + Readable(i)
      BY ReadableType DEF IInv
    <2>2. avail[i] \in Nat
      BY Positive DEF IInv, TypeOK, InboundTypes
    <2> QED BY <1>1, <2>1, <2>2, Positive DEF Readable, Lesser, AgentReadable
  <1>6. NeverTriggeredInVain'
    BY <1>3, <1>5 DEF NeverTriggeredInVain, ReadPacket, ReadBlocks, ReadEnds, ReadFails, SetPoll,
                      EpollCtl, Unregister, Exit
  <1>7. ASSUME pc' \notin Fatal, i \notin closed'
        PROVE  ~ReadFails(i, p) /\ agent_packet_queue_count'[i] = Cardinality(Counted(i)')
    <2>1. ~ReadFails(i, p)
      BY <1>7 DEF ReadFails, Unregister, Exit, Fatal
    <2>2. pc' # "weird_false_fire"
      BY <1>6 DEF NeverTriggeredInVain
    <2> QED BY <1>1, <1>3, <1>4, <2>1, <2>2, SlotAfterRead
  <1>8. ASSUME pc' \notin Fatal, i \notin closed', fd_poll'[i] # CLOSED
        PROVE  ReadPacket(i, p) \/ ReadBlocks(i, p)
    <2>1. ~ReadEnds(i, p)
      BY <1>8 DEF ReadEnds, Unregister, Fatal, IInv, TypeOK, PollTypes, Fds
    <2> QED BY <1>3, <1>7, <1>8, <2>1
  <1>9. Alive' => pc' \notin Fatal /\ i \in Fds
    BY DEF Alive, Running, Fatal, Fds
  <1>10. ReadBlocks(i, p) => /\ agent_packet_index_in'[i] = p /\ p # EMPTY
                             /\ buffered_packet'[i][p].in_use /\ fd_poll' = fd_poll
    <2> SUFFICES ASSUME ReadBlocks(i, p)
                 PROVE  /\ agent_packet_index_in'[i] = p /\ p # EMPTY
                        /\ buffered_packet'[i][p].in_use /\ fd_poll' = fd_poll
      OBVIOUS
    <2>1. agent_packet_index_in'[i] = p /\ p # EMPTY /\ fd_poll' = fd_poll
      BY Positive DEF ReadBlocks, Exit, poll_vars, IInv, TypeOK, SlotTypes, Slots, EMPTY
    <2>2. buffered_packet \in SlotArray
      BY DEF IInv, TypeOK, SlotTypes, SlotArray
    <2>3. buffered_packet'[i][p].in_use
      BY <2>2 DEF ReadBlocks, StopAt, SlotArray, SlotState
    <2> QED BY <2>1, <2>3
  <1>11. CountExact(i)'
    BY <1>7 DEF CountExact
  <1>12. FillingInUse(i)'
    <2>1. ReadPacket(i, p) => agent_packet_index_in'[i] = EMPTY
      BY DEF ReadPacket, IInv, TypeOK, SlotTypes
    <2> QED BY <1>8, <1>10, <2>1 DEF FillingInUse
  <1>13. ASSUME Alive', i \notin closed', fd_poll'[i] # CLOSED
         PROVE  FullUnpolled(i)' /\ UnpolledFull(i)'
    <2>1. CASE ReadPacket(i, p)
      BY <1>1, <1>7, <1>9, <1>13, <2>1, PollAfterPacket DEF FullUnpolled, UnpolledFull
    <2>2. CASE ReadBlocks(i, p)
      BY <1>1, <1>10, <2>2 DEF FullUnpolled, UnpolledFull
    <2> QED BY <1>8, <1>9, <1>13, <2>1, <2>2
  <1>14. ASSUME Alive', i \in closed' \/ fd_poll'[i] = CLOSED
         PROVE  FullUnpolled(i)' /\ UnpolledFull(i)'
    <2>1. "in" \notin fd_poll'[i]
      BY <1>9, <1>14, NextIInv, NextOrder DEF OrderInv, ClosedUnpolled, IInv, PollMatchesEpoll, CLOSED
    <2> QED BY <1>14, <2>1 DEF FullUnpolled, UnpolledFull
  <1>15. QueueOf(i)'
    BY <1>11, <1>12, <1>13, <1>14 DEF QueueOf, FullUnpolled, UnpolledFull
  <1>16. ASSUME NEW j \in Agents, j # i
         PROVE  QueueOf(j)'
    <2>1. /\ \A q \in Slots : buffered_packet'[j][q].in_use = buffered_packet[j][q].in_use
          /\ agent_packet_index_in'[j] = agent_packet_index_in[j]
      BY <1>4, <1>16 DEF OtherSlotsKept, PartOfPacket, WholePacket, IInv, TypeOK, SlotTypes
    <2>2. /\ agent_needed_header_size'[j] = agent_needed_header_size[j]
          /\ agent_packet_queue_count'[j] = agent_packet_queue_count[j]
      BY <1>3, <1>16 DEF CountHeader, ReadPacket, ReadBlocks, ReadEnds, ReadFails, IInv, TypeOK, SlotTypes
    <2>3. fd_poll'[j] = fd_poll[j]
      BY <1>3, <1>16 DEF ReadPacket, ReadBlocks, ReadEnds, ReadFails, SetPoll, EpollCtl, Unregister, Exit,
                         poll_vars, IInv, TypeOK, PollTypes, Fds
    <2>4. ~SendHost
      BY <1>1 DEF SendHost
    <2> QED BY <2>1, <2>2, <2>3, <2>4, QueueKept
  <1> QED BY <1>6, <1>15, <1>16 DEF QueueInv

-----------------------------------------------------------------------------
(* Every step keeps the invariant.                                         *)

(* Sending to the host gives slots back and takes none.                    *)
LEMMA SendHostKeepsQueue ==
  ASSUME IInv, OrderInv, QueueInv, [Next]_vars, SendHost
  PROVE  QueueInv'
  <1>1. UNCHANGED <<agent_packet_index_in, agent_needed_header_size>> /\ \A j \in Agents : ~AgentIn(j)
    BY DEF SendHost, AgentIn
  <1>2. NeverTriggeredInVain'
    BY DEF QueueInv, NeverTriggeredInVain, SendHost, HostAccepts, HostCompletes, HostBlocks,
           HostSendFails, SetPoll, EpollCtl, Unregister, Exit
  <1>3. CASE HostCompletes(cursor.agent_id, cursor.packet_index)
    <2>1. PICK i, p : i = cursor.agent_id /\ p = cursor.packet_index
      OBVIOUS
    <2>2. /\ QueueOf(i)'
          /\ \A j \in Agents, q \in Slots : j # i =>
               /\ buffered_packet'[j][q].in_use = buffered_packet[j][q].in_use
               /\ agent_packet_queue_count'[j] = agent_packet_queue_count[j]
      BY <1>3, <2>1, CompleteKeepsQueue
    <2>3. ASSUME NEW j \in Agents, j # i
          PROVE  QueueOf(j)'
      <3>1. 0 \in Slots
        BY Positive DEF Slots
      <3> QED BY <1>1, <2>1, <2>2, <2>3, <3>1, QueueKept
    <2> QED BY <1>2, <2>2, <2>3 DEF QueueInv
  <1>4. CASE ~HostCompletes(cursor.agent_id, cursor.packet_index)
    <2>1. agent_packet_queue_count' = agent_packet_queue_count
      BY <1>4 DEF SendHost, HostAccepts, HostBlocks, HostSendFails
    <2>2. buffered_packet' = buffered_packet
            \/ \E i, p, n : buffered_packet' = StopAt(i, p, n)
      BY <1>4 DEF SendHost, HostAccepts, HostBlocks, HostSendFails
    <2>3. \A j \in Agents, q \in Slots : buffered_packet'[j][q].in_use = buffered_packet[j][q].in_use
      <3>1. buffered_packet \in SlotArray
        BY DEF IInv, TypeOK, SlotTypes, SlotArray
      <3>2. ASSUME NEW i, NEW p, NEW n, NEW j \in Agents, NEW q \in Slots
            PROVE  StopAt(i, p, n)[j][q].in_use = buffered_packet[j][q].in_use
        BY <3>1 DEF StopAt, SlotArray, SlotState
      <3> QED BY <2>2, <3>2
    <2>4. \A j \in Agents : QueueOf(j)'
      BY <1>1, <1>4, <2>1, <2>3, QueueKept
    <2> QED BY <1>2, <2>4 DEF QueueInv
  <1> QED BY <1>3, <1>4

(* QueueInv is kept by every step.                                         *)
LEMMA NextQueue ==
  ASSUME IInv, OrderInv, QueueInv, [Next]_vars
  PROVE  QueueInv'
  <1>1. CASE SendHost
    BY <1>1, SendHostKeepsQueue
  <1>2. CASE \E i \in Agents : AgentIn(i)
    BY <1>2, AgentInKeepsQueue
  <1>3. CASE ~SendHost /\ \A i \in Agents : ~AgentIn(i)
    <2>1. UNCHANGED slot_vars
      <3>1. CASE \E i \in Agents : RemoteSends(i)
        BY <3>1 DEF RemoteSends, process_vars
      <3>2. CASE \A i \in Agents : ~RemoteSends(i)
        BY <1>3, <3>2, QuietSteps DEF queue_vars
      <3> QED BY <3>1, <3>2
    <2>2. \A i \in Agents : QueueOf(i)'
      BY <1>3, <2>1, QueueKept DEF slot_vars
    <2>3. NeverTriggeredInVain'
      <3> USE DEF NeverTriggeredInVain
      <3>1. CheckClosed \/ HostIn \/ HostOut => NeverTriggeredInVain'
        BY DEF CheckClosed, HostIn, HostOut, Exit, AllAgentsSocksFull, SetPoll, EpollCtl
      <3>2. ASSUME NEW i \in Agents
            PROVE  AgentOut(i) \/ RecvHost(i) \/ ResumeSend(i) \/ SendAgent(i) => NeverTriggeredInVain'
        <4>1. AgentOut(i) \/ ResumeSend(i) => NeverTriggeredInVain'
          BY DEF AgentOut, NotAllAgentSocksFull, ResumeSend, SetPoll, EpollCtl, Exit
        <4>2. RecvHost(i) => NeverTriggeredInVain'
          BY DEF RecvHost, Exit, Unregister, IInv, TypeOK, HostTypes, PeerStates
        <4>3. SendAgent(i) => NeverTriggeredInVain'
          BY DEF SendAgent, AgentAccepts, AgentBlocks, AgentSendFails, SetPoll, EpollCtl, Unregister, Exit
        <4> QED BY <4>1, <4>2, <4>3
      <3>3. HostSide \/ RemoteSide \/ Ended \/ UNCHANGED vars => NeverTriggeredInVain'
        BY DEF QueueInv, HostSide, HostWrites, HostReads, HostCloses, HostResets, RemoteSide,
               RemoteSends, Arrive, Drain, RemoteCloses, RemoteResets, Ended, process_vars, vars
      <3> QED BY <1>3, <3>1, <3>2, <3>3 DEF Next, Outbound, Inbound
    <2> QED BY <2>2, <2>3 DEF QueueInv
  <1> QED BY <1>1, <1>2, <1>3

(* QueueInv holds of the state configure_poll leaves: all slots are free.  *)
LEMMA InitQueue ==
  ASSUME Init
  PROVE  QueueInv
  <1>1. NeverTriggeredInVain
    BY DEF Init, NeverTriggeredInVain
  <1>2. ASSUME NEW i \in Agents
        PROVE  QueueOf(i)
    <2>1. FreeSlots(i) = Slots /\ Counted(i) = {} /\ Slots # {}
      <3>1. \A p \in Slots : buffered_packet[i][p].in_use = FALSE
        BY DEF Init
      <3>2. 0 \in Slots
        BY Positive DEF Slots
      <3> QED BY <3>1, <3>2 DEF FreeSlots, Counted
    <2>2. /\ agent_packet_queue_count[i] = 0 /\ agent_packet_index_in[i] = EMPTY
          /\ fd_poll[i] = POLLIN
      BY DEF Init, Fds
    <2>3. Cardinality({}) = 0
      BY FS_EmptySet
    <2> QED BY <2>1, <2>2, <2>3
            DEF QueueOf, CountExact, FillingInUse, FullUnpolled, UnpolledFull, POLLIN
  <1> QED BY <1>1, <1>2 DEF QueueInv

(* The queues are in order in every state of every run.                    *)
THEOREM Queues == Spec => [](IInv /\ OrderInv /\ QueueInv)
  <1>1. Init => IInv /\ OrderInv /\ QueueInv
    BY InitIInv, InitOrder, InitQueue
  <1>2. IInv /\ OrderInv /\ QueueInv /\ [Next]_vars => (IInv /\ OrderInv /\ QueueInv)'
    BY NextIInv, NextOrder, NextQueue
  <1> QED BY <1>1, <1>2, PTL DEF Spec

(* agent_packet_queue_count is the number of slots that hold a packet      *)
(* whose header is complete (network.c:1057, 1156, 1180, 1432-1435).       *)
THEOREM CountIsExact == Spec => []SlotAccounting
  <1>1. QueueInv => SlotAccounting
    BY DEF QueueInv, QueueOf, CountExact, Counted, SlotAccounting
  <1> QED BY <1>1, Queues, PTL

(* A socket whose event is handled has a slot to read into and something   *)
(* to read (network.c:1096-1099, 1123-1128).                               *)
THEOREM NoVainTrigger == Spec => []NeverTriggeredInVain
  <1>1. QueueInv => NeverTriggeredInVain
    BY DEF QueueInv
  <1> QED BY <1>1, Queues, PTL

(* The socket that the next packet is on is polled for input: were it not, *)
(* all its slots would be full of packets that came before the next one,   *)
(* and those are with the host (network.c:1262-1287, 1438-1465).           *)
THEOREM NoLostInput == Spec => []NextPacketPolled
  <1>1. ASSUME IInv, OrderInv, QueueInv, InLoop, NEW i \in Agents,
               inq[i] # <<>>, Head(inq[i]) = recv_seq, fd_poll[i] # CLOSED, i \notin closed,
               "in" \notin epoll[i]
        PROVE  FALSE
    <2>1. Alive /\ i \in Fds
      BY <1>1 DEF InLoop, Alive, Running, Fds
    <2>2. "in" \notin fd_poll[i]
      BY <1>1, <2>1 DEF IInv, PollMatchesEpoll, CLOSED
    <2>3. FreeSlots(i) = {} /\ agent_packet_index_in[i] = EMPTY
      BY <1>1, <2>1, <2>2 DEF QueueInv, QueueOf, UnpolledFull
    <2>4. 0 \in Slots /\ 0 # EMPTY
      BY Positive DEF Slots, EMPTY
    <2>5. Read(i, 0)
      BY <2>3, <2>4 DEF Read, FreeSlots
    <2>6. 1 \in 1 .. Len(inq[i]) /\ inq[i][1] = recv_seq
      BY <1>1 DEF IInv, TypeOK, InboundTypes
    <2>7. recv_seq <= Number(i, 0) /\ Number(i, 0) < inq[i][1]
      BY <1>1, <2>4, <2>5, <2>6 DEF OrderInv, SlotNumbers
    <2>8. recv_seq \in Nat /\ buffered_packet \in SlotArray
      BY <1>1 DEF IInv, TypeOK, OrderTypes, SlotTypes, SlotArray
    <2>9. Number(i, 0) \in Nat
      BY <2>4, <2>8 DEF Number, SlotArray, SlotState
    <2> QED BY <2>6, <2>7, <2>8, <2>9
  <1>2. IInv /\ OrderInv /\ QueueInv => NextPacketPolled
    BY <1>1 DEF NextPacketPolled
  <1> QED BY <1>2, Queues, PTL

-----------------------------------------------------------------------------
(***************************************************************************)
(* How a data-transfer process ends.  As long as no connection was reset   *)
(* or cut inside a packet, every call of epoll_ctl succeeds and no event   *)
(* finds the process unprepared, but for one: the host has shut down its   *)
(* sending side while a packet is pending, and then blocks.  That rests on *)
(* what the masks of the two directions say about each other: who is       *)
(* polled for output has something pending unless the host is not polled   *)
(* for input, and a socket that is not polled any more has nothing to say. *)
(***************************************************************************)

-----------------------------------------------------------------------------
(* Connections that are unharmed were so before.                           *)

(* Reading a socket brings nothing on its way and takes nothing off it.    *)
LEMMA InFlightKept ==
  ASSUME IInv, OrderInv, NEW j \in Agents, AgentIn(j), NEW i \in Agents
  PROVE  InFlight(i)' = InFlight(i)
  <1>1. /\ inq \in [Agents -> Seq(Nat)] /\ taken \in [Agents -> 0 .. PacketLen - 1]
        /\ avail \in [Agents -> 0 .. RcvBuf]
    BY DEF IInv, TypeOK, InboundTypes
  <1>2. CASE UNCHANGED inbound_vars
    BY <1>2 DEF InFlight, inbound_vars
  <1>3. CASE Take(j, Readable(j))
    <2>1. Progress(j) = taken[j]
      BY AgentInFills DEF OrderInv
    <2>2. avail' = [avail EXCEPT ![j] = @ - Readable(j)]
      BY <1>3 DEF Take
    <2>3. /\ Readable(j) \in Nat /\ Reached(j) = taken[j] + Readable(j)
          /\ Reached(j) \in 0 .. PacketLen
      BY <2>1, ReadableType DEF IInv
    <2>4. CASE i # j
      <3>1. taken'[i] = taken[i] /\ inq'[i] = inq[i] /\ avail'[i] = avail[i]
        BY <1>1, <1>3, <2>2, <2>4 DEF Take
      <3> QED BY <3>1 DEF InFlight
    <2>5. CASE i = j
      <3> DEFINE n == Readable(j)
                 t == taken[j]
                 a == avail[j]
                 L == Len(inq[j])
                 w == L * PacketLen
      <3>1. avail'[j] = a - n
        BY <1>1, <2>2
      <3>2. L \in Nat /\ a \in Nat /\ t \in Nat /\ PacketLen \in Nat
        BY <1>1, Positive
      <3>3. w \in Int
        BY <3>2
      <3>4. CASE Reached(j) < PacketLen
        <4>1. inq'[j] = inq[j] /\ taken'[j] = t + n
          BY <1>1, <1>3, <2>1, <2>3, <3>4, TakeMoves
        <4>2. InFlight(j)' = w - (t + n) - (a - n) /\ InFlight(j) = w - t - a
          BY <3>1, <4>1 DEF InFlight
        <4> HIDE DEF n, t, a, L, w
        <4>3. n \in Nat
          BY <2>3 DEF n
        <4> QED BY <2>5, <3>2, <3>3, <4>2, <4>3
      <3>5. CASE Reached(j) = PacketLen
        <4>1. inq[j] # <<>> /\ inq'[j] = Tail(inq[j]) /\ taken'[j] = 0 /\ t + n = PacketLen
          BY <1>1, <1>3, <2>1, <2>3, <3>5, TakeMoves
        <4>2. Len(inq'[j]) = L - 1 /\ inq[j] \in Seq(Nat)
          BY <1>1, <4>1
        <4>3. InFlight(j)' = (L - 1) * PacketLen - 0 - (a - n) /\ InFlight(j) = w - t - a
          BY <3>1, <4>1, <4>2 DEF InFlight
        <4>4. (L - 1) * PacketLen = w - PacketLen
          <5> HIDE DEF L
          <5> QED BY <3>2 DEF w
        <4> HIDE DEF n, t, a, L, w
        <4>5. n \in Nat
          BY <2>3 DEF n
        <4> QED BY <2>5, <3>2, <3>3, <4>1, <4>3, <4>4, <4>5
      <3> QED BY <2>3, <3>4, <3>5, Positive
    <2> QED BY <2>4, <2>5
  <1> QED BY <1>2, <1>3 DEF AgentIn

(* What a peer does to its end is never undone.                            *)
LEMMA PeersMove ==
  ASSUME IInv, [Next]_vars
  PROVE  /\ host' # host =>
              \/ host = "open" /\ host' = "fin"
              \/ host' \in {"rst", "pipe", "gone"}
         /\ \A i \in Agents : peer'[i] # peer[i] =>
              \/ peer[i] = "open" /\ peer'[i] = "fin"
              \/ peer'[i] \in {"rst", "pipe"}
  <1>0. peer \in [Agents -> PeerStates]
    BY DEF IInv, TypeOK
  <1>1. CASE HostSide \/ RemoteSide
    <2>1. ASSUME NEW j \in Agents,
                 RemoteSends(j) \/ Arrive(j) \/ Drain(j) \/ RemoteCloses(j) \/ RemoteResets(j)
          PROVE  host' = host /\ \A i \in Agents : peer'[i] # peer[i] =>
                   \/ peer[i] = "open" /\ peer'[i] = "fin"
                   \/ peer'[i] \in {"rst", "pipe"}
      <3>1. host' = host
        BY <2>1 DEF RemoteSends, Arrive, Drain, RemoteCloses, RemoteResets, host_vars
      <3>2. CASE peer' = peer
        BY <3>1, <3>2
      <3>3. CASE RemoteCloses(j)
        BY <1>0, <3>1, <3>3 DEF RemoteCloses
      <3>4. CASE RemoteResets(j)
        BY <1>0, <3>1, <3>4 DEF RemoteResets
      <3> QED BY <2>1, <3>2, <3>3, <3>4 DEF RemoteSends, Arrive, Drain
    <2>2. CASE HostSide
      BY <2>2 DEF HostSide, HostWrites, HostReads, HostCloses, HostResets
    <2> QED BY <1>1, <2>1, <2>2 DEF RemoteSide
  <1>2. CASE Outbound
    BY <1>2 DEF Outbound, HostIn, AgentOut, RecvHost, ResumeSend, SendAgent, AgentAccepts,
                AgentBlocks, AgentSendFails, host_vars
  <1>3. CASE Inbound
    BY <1>3 DEF Inbound, AgentIn, HostOut, SendHost, host_vars
  <1>4. CASE CheckClosed \/ Ended \/ UNCHANGED vars
    BY <1>4 DEF CheckClosed, Ended, host_vars, vars
  <1> QED BY <1>1, <1>2, <1>3, <1>4 DEF Next

(* Nothing comes on a connection after its end.                            *)
LEMMA NothingFollows ==
  ASSUME IInv, OrderInv, [Next]_vars, NEW i \in Agents, peer[i] # "open"
  PROVE  InFlight(i)' = InFlight(i)
  <1>1. CASE UNCHANGED <<inq[i], taken[i], avail[i]>>
    BY <1>1 DEF InFlight
  <1>2. CASE \E j \in Agents : AgentIn(j)
    BY <1>2, InFlightKept
  <1>3. CASE RemoteSide
    <2>1. PICK j \in Agents : RemoteSends(j) \/ Arrive(j) \/ Drain(j) \/ RemoteCloses(j) \/ RemoteResets(j)
      BY <1>3 DEF RemoteSide
    <2>2. j = i => peer[j] # "open"
      OBVIOUS
    <2>3. UNCHANGED <<inq[i], taken[i], avail[i]>>
      BY <2>1, <2>2 DEF RemoteSends, Arrive, Drain, RemoteCloses, RemoteResets, inbound_vars,
                        IInv, TypeOK, InboundTypes
    <2> QED BY <1>1, <2>3
  <1>4. RemoteSide \/ (\E j \in Agents : AgentIn(j)) \/ UNCHANGED inbound_vars
    BY DEF Next, Outbound, Inbound, HostSide, CheckClosed, HostIn, AgentOut, RecvHost, ResumeSend,
           SendAgent, AgentAccepts, AgentBlocks, AgentSendFails, HostOut, SendHost, HostWrites,
           HostReads, HostCloses, HostResets, Ended, vars
  <1> QED BY <1>1, <1>2, <1>3, <1>4 DEF inbound_vars

(* What is harmed stays so.                                                *)
LEMMA UnharmedBefore ==
  ASSUME IInv, OrderInv, [Next]_vars, Unharmed'
  PROVE  /\ Unharmed
         /\ host' # host => host = "open" /\ host' = "fin"
         /\ \A i \in Agents : peer'[i] # peer[i] => peer[i] = "open" /\ peer'[i] = "fin"
  <1>1. /\ host \in {"open", "fin"} /\ (host' # host => host = "open" /\ host' = "fin")
        /\ \A i \in Agents : /\ peer[i] \in {"open", "fin"}
                             /\ peer'[i] # peer[i] => peer[i] = "open" /\ peer'[i] = "fin"
    BY PeersMove DEF Unharmed
  <1>2. ASSUME NEW i \in Agents, peer[i] = "fin"
        PROVE  InFlight(i) = 0
    <2>1. InFlight(i)' = 0
      BY <1>1, <1>2 DEF Unharmed
    <2> QED BY <1>2, <2>1, NothingFollows
  <1> QED BY <1>1, <1>2 DEF Unharmed

-----------------------------------------------------------------------------
(* The invariant of unharmed connections.                                  *)

(* Only an agent socket whose mask is CLOSED is closed.                    *)
ClosedMasks == \A f \in closed : f # Host /\ fd_poll[f] = CLOSED

(* While the host is polled for input, or is done, an agent socket that is *)
(* polled for output has a packet pending.                                 *)
IdleOutput ==
  fd_poll[Host] \in {OFF, POLLOUT} \/ \A i \in Agents : "out" \in fd_poll[i] => Pending(i)

(* A packet is resumed on a socket that is polled for output, a chunk is   *)
(* read when the host is polled for input.                                 *)
PickedReady ==
  pc = "read_host_send_agent" =>
    IF Pending(cursor.agent_id) THEN "out" \in fd_poll[cursor.agent_id] ELSE "in" \in fd_poll[Host]

(* Nothing is sent on a socket that is polled for output.                  *)
SendingUnpolled == pc = "send_agent" => "out" \notin fd_poll[cursor.agent_id]

(* Once the host has shut down its side the loop goes on for the packets   *)
(* that are pending.                                                       *)
HostGone ==
  fd_poll[Host] = CLOSED =>
    /\ host = "fin"
    /\ pc \in {"wait", "send_data_host"} => \E i \in Agents : Pending(i)

(* Once the remote agent has shut down a connection, what is pending on it *)
(* met a full buffer that nobody empties.                                  *)
SendingOn(i) == pc = "send_agent" /\ cursor.agent_id = i
PeerGone ==
  \A i \in Agents : fd_poll[i] = CLOSED /\ i \notin closed =>
    peer[i] = "fin" /\ (Pending(i) /\ ~SendingOn(i) => room[i] = 0)

Sound ==
  /\ ClosedMasks /\ IdleOutput /\ PickedReady
  /\ SendingUnpolled /\ HostGone /\ PeerGone

(* The branch of send_data_host that NoFatalExit leaves.                   *)
Excused ==
  /\ pc = "host_not_pollable"
  /\ host = "fin" /\ fd_poll[Host] = CLOSED
  /\ \E i \in Agents : Pending(i)

GoesWell == (Alive => Sound) /\ (pc \in Fatal => Excused)
SoundInv == Unharmed => GoesWell

(* What holds before a step of an unharmed process.                        *)
Before ==
  /\ IInv /\ OrderInv /\ QueueInv /\ OutInv
  /\ Unharmed /\ Alive /\ Sound

-----------------------------------------------------------------------------
(* Masks.                                                                  *)

(* epoll_ctl succeeds for a socket that is not done, when it is not to be  *)
(* removed.                                                                *)
LEMMA EpollCtlWorks ==
  ASSUME IInv, Alive, ClosedMasks, NEW new, NEW next, EpollCtl(new, next),
         \A f \in Fds : new[f] # fd_poll[f] => fd_poll[f] # CLOSED /\ new[f] # CLOSED
  PROVE  fd_poll' = new /\ pc' = next
  <1>1. ASSUME NEW f \in Fds, new[f] # fd_poll[f]
        PROVE  CtlSucceeds(f, new[f])
    <2>1. f \notin closed /\ fd_poll[f] \in PollStates /\ epoll[f] = fd_poll[f] \ CLOSED
      BY <1>1 DEF IInv, TypeOK, PollTypes, PollMatchesEpoll, ClosedMasks
    <2>2. fd_poll[f] # OFF => epoll[f] # {}
      BY <1>1, <2>1 DEF PollStates, OFF, POLLIN, POLLOUT, INAndOut, CLOSED
    <2>3. fd_poll[f] = OFF => epoll[f] = {} /\ new[f] \notin {OFF, CLOSED}
      BY <1>1, <2>1 DEF OFF
    <2> QED BY <2>1, <2>2, <2>3 DEF CtlSucceeds
  <1> QED BY <1>1 DEF EpollCtl

(* The same for one mask.                                                  *)
LEMMA SetPollWorks ==
  ASSUME IInv, Alive, ClosedMasks, NEW f \in Fds, NEW mask, NEW next, SetPoll(f, mask, next),
         mask # fd_poll[f] => fd_poll[f] # CLOSED /\ mask # CLOSED
  PROVE  fd_poll' = [fd_poll EXCEPT ![f] = mask] /\ pc' = next
  <1> DEFINE new == [fd_poll EXCEPT ![f] = mask]
  <1>1. \A g \in Fds : new[g] # fd_poll[g] => fd_poll[g] # CLOSED /\ new[g] # CLOSED
    BY DEF IInv, TypeOK, PollTypes
  <1>2. EpollCtl(new, next)
    BY DEF SetPoll
  <1> HIDE DEF new
  <1>3. fd_poll' = new /\ pc' = next
    BY <1>1, <1>2, EpollCtlWorks
  <1> QED BY <1>3 DEF new

(* A socket that is polled can be removed from the interest list.          *)
LEMMA UnregisterWorks ==
  ASSUME IInv, Alive, NEW f \in Fds, NEW mask, NEW shut, Unregister(f, mask, shut),
         "in" \in fd_poll[f] \/ "out" \in fd_poll[f]
  PROVE  /\ fd_poll' = [fd_poll EXCEPT ![f] = mask] /\ pc' = "check"
         /\ closed' = IF shut THEN closed \union {f} ELSE closed
  <1>1. epoll[f] # {}
    BY DEF IInv, TypeOK, PollTypes, PollMatchesEpoll, PollStates, OFF, POLLIN, POLLOUT, INAndOut, CLOSED
  <1> QED BY <1>1 DEF Unregister

(* No handler but those of a closed connection makes a mask CLOSED, or     *)
(* changes one that is; and what each does to the two flags.               *)
LEMMA MaskEffects ==
  ASSUME IInv, NEW f \in Fds
  PROVE  /\ FullMask(f) = CLOSED <=> fd_poll[f] = CLOSED
         /\ NotFullMask(f) = CLOSED <=> fd_poll[f] = CLOSED
         /\ BlockedMask(f) = CLOSED <=> fd_poll[f] = CLOSED
         /\ UnblockedMask(f) = CLOSED <=> fd_poll[f] = CLOSED
         /\ FreedQueueMask(f) = CLOSED <=> fd_poll[f] = CLOSED
         /\ \A n : FullQueueMask(f, n) = CLOSED <=> fd_poll[f] = CLOSED
         /\ "out" \in FreedQueueMask(f) <=> "out" \in fd_poll[f]
         /\ \A n : "out" \in FullQueueMask(f, n) <=> "out" \in fd_poll[f]
         /\ "out" \notin UnblockedMask(f)
         /\ FullMask(f) # fd_poll[f] => fd_poll[f] # CLOSED
         /\ NotFullMask(f) # fd_poll[f] => fd_poll[f] # CLOSED
         /\ BlockedMask(f) # fd_poll[f] => fd_poll[f] # CLOSED
         /\ UnblockedMask(f) # fd_poll[f] => fd_poll[f] # CLOSED
         /\ FreedQueueMask(f) # fd_poll[f] => fd_poll[f] # CLOSED
         /\ \A n : FullQueueMask(f, n) # fd_poll[f] => fd_poll[f] # CLOSED
  <1>1. fd_poll[f] \in PollStates
    BY DEF IInv, TypeOK, PollTypes
  <1> USE DEF PollStates, OFF, POLLIN, POLLOUT, INAndOut, CLOSED
  <1>2. /\ FullMask(f) = CLOSED <=> fd_poll[f] = CLOSED
        /\ FullMask(f) # fd_poll[f] => fd_poll[f] # CLOSED
    BY <1>1 DEF FullMask
  <1>3. /\ NotFullMask(f) = CLOSED <=> fd_poll[f] = CLOSED
        /\ NotFullMask(f) # fd_poll[f] => fd_poll[f] # CLOSED
    BY <1>1 DEF NotFullMask
  <1>4. /\ BlockedMask(f) = CLOSED <=> fd_poll[f] = CLOSED
        /\ BlockedMask(f) # fd_poll[f] => fd_poll[f] # CLOSED
    BY <1>1 DEF BlockedMask
  <1>5. /\ UnblockedMask(f) = CLOSED <=> fd_poll[f] = CLOSED
        /\ "out" \notin UnblockedMask(f)
        /\ UnblockedMask(f) # fd_poll[f] => fd_poll[f] # CLOSED
    BY <1>1 DEF UnblockedMask
  <1>6. /\ FreedQueueMask(f) = CLOSED <=> fd_poll[f] = CLOSED
        /\ "out" \in FreedQueueMask(f) <=> "out" \in fd_poll[f]
        /\ FreedQueueMask(f) # fd_poll[f] => fd_poll[f] # CLOSED
    BY <1>1 DEF FreedQueueMask
  <1>7. \A n : /\ FullQueueMask(f, n) = CLOSED <=> fd_poll[f] = CLOSED
               /\ "out" \in FullQueueMask(f, n) <=> "out" \in fd_poll[f]
               /\ FullQueueMask(f, n) # fd_poll[f] => fd_poll[f] # CLOSED
    BY <1>1 DEF FullQueueMask
  <1> QED BY <1>2, <1>3, <1>4, <1>5, <1>6, <1>7

-----------------------------------------------------------------------------
(* The steps.                                                              *)

(* The sockets are not the host's.                                         *)
LEMMA FdsApart ==
  /\ Host \in Fds /\ Agents \subseteq Fds /\ \A i \in Agents : i # Host
  BY TransferAssumption DEF Fds

(* The host and the remote agent change nothing that the process has.      *)
LEMMA PeersGoWell ==
  ASSUME Before, HostSide \/ RemoteSide, Unharmed',
         host' # host => host = "open",
         \A i \in Agents : peer'[i] # peer[i] => peer[i] = "open"
  PROVE  GoesWell'
  <1>1. /\ UNCHANGED process_vars
        /\ \A i \in Agents : peer[i] = "fin" => room'[i] = room[i]
    <2>1. CASE HostSide
      BY <2>1 DEF HostSide, HostWrites, HostReads, HostCloses, HostResets, outbound_vars
    <2>2. CASE RemoteSide
      <3>1. PICK j \in Agents : RemoteSends(j) \/ Arrive(j) \/ Drain(j) \/ RemoteCloses(j) \/ RemoteResets(j)
        BY <2>2 DEF RemoteSide
      <3>2. UNCHANGED process_vars
        BY <3>1 DEF RemoteSends, Arrive, Drain, RemoteCloses, RemoteResets
      <3>3. CASE room' = room
        BY <3>2, <3>3
      <3>4. CASE Drain(j)
        BY <3>2, <3>4 DEF Drain, Before, IInv, TypeOK, OutboundTypes
      <3> QED BY <3>1, <3>3, <3>4 DEF RemoteSends, Arrive, RemoteCloses, RemoteResets, outbound_vars
    <2> QED BY <2>1, <2>2
  <1>2. /\ UNCHANGED <<pc, cursor, fd_poll, closed, packet>>
        /\ \A i \in Agents : Pending(i)' <=> Pending(i)
        /\ \A i \in Agents : SendingOn(i)' <=> SendingOn(i)
    BY <1>1 DEF process_vars, poll_vars, send_vars, Pending, SendingOn
  <1>3. pc \notin Fatal
    BY DEF Before, Alive, Running, Fatal
  <1>4. ClosedMasks' /\ SendingUnpolled'
    BY <1>2 DEF Before, Sound, ClosedMasks, SendingUnpolled
  <1>5. IdleOutput'
    BY <1>2 DEF Before, Sound, IdleOutput
  <1>6. PickedReady'
    BY <1>2 DEF Before, Sound, PickedReady, Pending
  <1>7. HostGone'
    BY <1>2 DEF Before, Sound, HostGone
  <1>8. PeerGone'
    BY <1>1, <1>2 DEF Before, Sound, PeerGone
  <1> QED BY <1>2, <1>3, <1>4, <1>5, <1>6, <1>7, <1>8 DEF GoesWell, Sound

(* The top of the loop: it goes on while a packet is pending.              *)
LEMMA CheckGoesWell ==
  ASSUME Before, CheckClosed
  PROVE  GoesWell'
  <1>1. pc' \in {"closed", "wait"} /\ UNCHANGED <<cursor, packet, host, peer, room>>
    BY DEF CheckClosed, send_vars, host_vars, outbound_vars
  <1>2. SUFFICES ASSUME pc' = "wait"
                 PROVE  Sound'
    BY <1>1 DEF GoesWell, Alive, Running, Fatal
  <1>3. /\ Closable = {i \in Agents : ~Pending(i)} /\ Host \notin Closable
        /\ \A i \in Agents : Pending(i)' <=> Pending(i)
    BY <1>1, FdsApart DEF Closable, Pending
  <1>4. \/ fd_poll[Host] # CLOSED /\ closed' = closed /\ fd_poll' = [f \in Fds |-> fd_poll[f]]
        \/ /\ fd_poll[Host] = CLOSED /\ closed' = closed \union Closable
           /\ fd_poll' = [f \in Fds |-> IF f \in Closable THEN CLOSED ELSE fd_poll[f]]
           /\ \E i \in Agents \ Closable : fd_poll[i] # CLOSED
    BY <1>2, <1>3 DEF CheckClosed
  <1>5. /\ fd_poll'[Host] = fd_poll[Host]
        /\ \A f \in Fds : \/ fd_poll'[f] = fd_poll[f] /\ (f \in closed' => f \in closed)
                          \/ fd_poll'[f] = CLOSED /\ f \in closed' /\ f # Host
    BY <1>3, <1>4, FdsApart
  <1>6. ClosedMasks'
    BY <1>4, <1>5 DEF Before, Sound, ClosedMasks, IInv, TypeOK, ControlTypes, Closable, Fds
  <1>7. IdleOutput'
    BY <1>3, <1>5, FdsApart DEF Before, Sound, IdleOutput, CLOSED
  <1>8. PickedReady' /\ SendingUnpolled'
    BY <1>2 DEF PickedReady, SendingUnpolled
  <1>9. HostGone'
    BY <1>1, <1>3, <1>4, <1>5 DEF Before, Sound, HostGone
  <1>10. PeerGone'
    <2> SUFFICES ASSUME NEW i \in Agents, fd_poll'[i] = CLOSED, i \notin closed'
                 PROVE  peer'[i] = "fin" /\ (Pending(i)' => room'[i] = 0)
      BY DEF PeerGone
    <2>1. fd_poll[i] = CLOSED /\ i \notin closed
      BY <1>4, <1>5, FdsApart
    <2>2. ~SendingOn(i)
      BY DEF SendingOn, CheckClosed
    <2> QED BY <1>1, <1>3, <2>1, <2>2 DEF Before, Sound, PeerGone
  <1> QED BY <1>6, <1>7, <1>8, <1>9, <1>10 DEF Sound

(* Unharmed, nobody has failed.                                            *)
LEMMA NobodyBroken ==
  ASSUME Unharmed
  PROVE  host \notin Broken /\ \A i \in Agents : peer[i] \notin Broken
  BY DEF Unharmed, Broken

(* A handler that changes no mask, and leaves the loop for another point.  *)
LEMMA SameMasksGoWell ==
  ASSUME Before, UNCHANGED <<fd_poll, closed, host, peer, room>>,
         \A i \in Agents : Pending(i) => Pending(i)',
         \A i \in Agents : Pending(i)' => Pending(i) \/ SendingOn(i)',
         \A i \in Agents : SendingOn(i) /\ ~SendingOn(i)' => ~Pending(i)' \/ room[i] = 0,
         pc' \in {"wait", "send_data_host"} => pc \in {"wait", "send_data_host"},
         pc' \in Running, PickedReady', SendingUnpolled'
  PROVE  GoesWell'
  <1>1. ClosedMasks' /\ IdleOutput'
    BY DEF Before, Sound, ClosedMasks, IdleOutput
  <1>2. HostGone'
    BY DEF Before, Sound, HostGone
  <1>3. PeerGone'
    BY DEF Before, Sound, PeerGone
  <1> QED BY <1>1, <1>2, <1>3 DEF GoesWell, Sound, Running, Fatal

(* The host can be read: a socket is picked, or all are full.              *)
LEMMA HostInGoesWell ==
  ASSUME Before, HostIn
  PROVE  GoesWell'
  <1>1. /\ pc = "wait" /\ "in" \in epoll[Host]
        /\ UNCHANGED <<closed, packet, host, peer, room>>
        /\ \A i \in Agents : (Pending(i)' <=> Pending(i)) /\ ~SendingOn(i)
    BY DEF HostIn, send_vars, host_vars, outbound_vars, Pending, SendingOn
  <1>2. "in" \in fd_poll[Host]
    BY <1>1, FdsApart DEF Before, IInv, PollMatchesEpoll
  <1>3. ASSUME NEW i \in Agents \ closed, AgentWritable(i), Start(i),
               pc' = "read_host_send_agent", UNCHANGED poll_vars
        PROVE  GoesWell'
    <2>1. cursor'.agent_id = i
      BY <1>3 DEF Start, Idle
    <2>2. Pending(i) => "out" \in fd_poll[i]
      <3>1. fd_poll[i] = CLOSED /\ Pending(i) => room[i] = 0
        BY <1>1, <1>3 DEF Before, Sound, PeerGone
      <3>2. room[i] # 0
        <4>1. room[i] \in Nat
          BY Positive DEF Before, IInv, TypeOK, OutboundTypes
        <4> QED BY <1>3, <4>1, NobodyBroken DEF AgentWritable, Before
      <3> QED BY <1>1, <1>3, <3>1, <3>2 DEF Before, IInv, PendingInv, Remembered
    <2>3. PickedReady' /\ SendingUnpolled'
      BY <1>1, <1>2, <1>3, <2>1, <2>2 DEF PickedReady, SendingUnpolled, poll_vars
    <2> QED BY <1>1, <1>3, <2>3, SameMasksGoWell DEF poll_vars, Running
  <1>4. ASSUME AllAgentsSocksFull
        PROVE  GoesWell'
    <2> DEFINE new == [f \in Fds |-> FullMask(f)]
    <2>1. fd_poll' = new /\ pc' = "check"
      <3>1. \A f \in Fds : new[f] # fd_poll[f] => fd_poll[f] # CLOSED /\ new[f] # CLOSED
        BY MaskEffects DEF Before
      <3>2. EpollCtl(new, "check")
        BY <1>4 DEF AllAgentsSocksFull
      <3> HIDE DEF new
      <3> QED BY <3>1, <3>2, EpollCtlWorks DEF Before, Sound
    <2>2. \A f \in Fds : fd_poll'[f] = FullMask(f) /\ (fd_poll'[f] = CLOSED <=> fd_poll[f] = CLOSED)
      BY <2>1, MaskEffects DEF Before
    <2>3. ClosedMasks'
      BY <1>1, <2>2 DEF Before, Sound, ClosedMasks, IInv, TypeOK, ControlTypes
    <2>4. IdleOutput'
      BY <1>2, <2>2, FdsApart DEF FullMask, IdleOutput, Before, IInv, TypeOK, PollTypes,
           PollStates, OFF, POLLIN, POLLOUT, INAndOut, CLOSED
    <2>5. PickedReady' /\ SendingUnpolled'
      BY <2>1 DEF PickedReady, SendingUnpolled
    <2>6. HostGone'
      BY <1>1, <2>1, <2>2, FdsApart DEF Before, Sound, HostGone
    <2>7. PeerGone'
      BY <1>1, <2>2, FdsApart DEF Before, Sound, PeerGone
    <2> QED BY <2>1, <2>3, <2>4, <2>5, <2>6, <2>7 DEF GoesWell, Sound, Fatal
  <1> QED BY <1>3, <1>4, NobodyBroken DEF HostIn, Before

(* An agent socket can be written: its packet is resumed, or the host is   *)
(* polled for input again and read.                                        *)
LEMMA AgentOutGoesWell ==
  ASSUME Before, NEW i \in Agents, AgentOut(i)
  PROVE  GoesWell'
  <1>1. /\ pc = "wait" /\ "out" \in epoll[i]
        /\ UNCHANGED <<closed, packet, host, peer, room>>
        /\ \A j \in Agents : (Pending(j)' <=> Pending(j)) /\ ~SendingOn(j)
        /\ cursor'.agent_id = i
    BY DEF AgentOut, send_vars, host_vars, outbound_vars, Pending, SendingOn, Start, Idle
  <1>2. "out" \in fd_poll[i]
    BY <1>1, FdsApart DEF Before, IInv, PollMatchesEpoll
  <1>3. CASE Pending(i)
    <2>1. pc' = "read_host_send_agent" /\ UNCHANGED poll_vars
      BY <1>3 DEF AgentOut
    <2>2. PickedReady' /\ SendingUnpolled'
      BY <1>1, <1>2, <1>3, <2>1 DEF PickedReady, SendingUnpolled, poll_vars
    <2> QED BY <1>1, <2>1, <2>2, SameMasksGoWell DEF poll_vars, Running
  <1>4. CASE ~Pending(i)
    <2> DEFINE new == [f \in Fds |-> NotFullMask(f)]
    <2>1. fd_poll' = new /\ pc' = "read_host_send_agent"
      <3>1. \A f \in Fds : new[f] # fd_poll[f] => fd_poll[f] # CLOSED /\ new[f] # CLOSED
        BY MaskEffects DEF Before
      <3>2. EpollCtl(new, "read_host_send_agent")
        BY <1>4 DEF AgentOut, NotAllAgentSocksFull
      <3> HIDE DEF new
      <3> QED BY <3>1, <3>2, EpollCtlWorks DEF Before, Sound
    <2>2. \A f \in Fds : fd_poll'[f] = NotFullMask(f) /\ (fd_poll'[f] = CLOSED <=> fd_poll[f] = CLOSED)
      BY <2>1, MaskEffects DEF Before
    <2>3. ClosedMasks'
      BY <1>1, <2>2 DEF Before, Sound, ClosedMasks, IInv, TypeOK, ControlTypes
    <2>4. IdleOutput'
      <3>1. \A j \in Agents : "out" \in fd_poll'[j] => Pending(j)
        BY <2>2, FdsApart DEF NotFullMask, POLLOUT
      <3> QED BY <1>1, <3>1 DEF IdleOutput
    <2>5. PickedReady'
      <3>1. fd_poll[Host] \in {OFF, POLLOUT}
        BY <1>2, <1>4 DEF Before, Sound, IdleOutput
      <3>2. "in" \in fd_poll'[Host]
        BY <2>2, <3>1, FdsApart DEF NotFullMask, POLLIN
      <3> QED BY <1>1, <1>4, <3>2 DEF PickedReady
    <2>6. SendingUnpolled'
      BY <2>1 DEF SendingUnpolled
    <2>7. HostGone'
      BY <1>1, <2>1, <2>2, FdsApart DEF Before, Sound, HostGone
    <2>8. PeerGone'
      BY <1>1, <2>2, FdsApart DEF Before, Sound, PeerGone
    <2> QED BY <2>1, <2>3, <2>4, <2>5, <2>6, <2>7, <2>8 DEF GoesWell, Sound, Fatal
  <1> QED BY <1>3, <1>4

(* A chunk is read from the host, or it has none, or no more.              *)
LEMMA RecvHostGoesWell ==
  ASSUME Before, NEW i \in Agents, RecvHost(i)
  PROVE  GoesWell'
  <1>1. /\ pc = "read_host_send_agent" /\ i = cursor.agent_id /\ ~Pending(i)
        /\ UNCHANGED <<closed, peer, room>>
        /\ \A j \in Agents : ~SendingOn(j)
    BY DEF RecvHost, outbound_vars, SendingOn
  <1>2. "in" \in fd_poll[Host] /\ \A j \in Agents : "out" \in fd_poll[j] => Pending(j)
    BY <1>1 DEF Before, Sound, PickedReady, IdleOutput, OFF, POLLOUT
  <1>3. CASE pc' = "send_agent"
    <2>1. UNCHANGED <<cursor, poll_vars, host>> /\ packet' = [packet EXCEPT ![i].host_packet_size = PacketLen,
                                                                        ![i].seq = send_seq]
      BY <1>1, <1>3 DEF RecvHost, Exit, Unregister, PeerStates, Before, IInv, TypeOK, HostTypes
    <2>2. \A j \in Agents : Pending(j) => Pending(j)'
      BY <2>1, Positive DEF Pending, Before, IInv, TypeOK, SendTypes
    <2>3. \A j \in Agents : Pending(j)' => Pending(j) \/ SendingOn(j)'
      BY <1>1, <1>3, <2>1 DEF Pending, SendingOn, Before, IInv, TypeOK, SendTypes
    <2>4. PickedReady' /\ SendingUnpolled'
      BY <1>1, <1>2, <1>3, <2>1 DEF PickedReady, SendingUnpolled, poll_vars
    <2> QED BY <1>1, <1>3, <2>1, <2>2, <2>3, <2>4, SameMasksGoWell DEF poll_vars, Running
  <1>4. CASE pc' # "send_agent"
    <2>1. /\ packet' = packet /\ host_in = 0 /\ cursor' = Idle /\ host' = host
          /\ host \in {"open", "fin"}
      BY <1>4 DEF RecvHost, send_vars, Before, Unharmed
    <2>2. \A j \in Agents : Pending(j)' <=> Pending(j)
      BY <2>1 DEF Pending
    <2>3. CASE pc' = "check" /\ UNCHANGED poll_vars
      <3>1. PickedReady' /\ SendingUnpolled'
        BY <2>3 DEF PickedReady, SendingUnpolled
      <3> QED BY <1>1, <2>1, <2>2, <2>3, <3>1, SameMasksGoWell DEF poll_vars, Running
    <2>4. CASE host = "fin" /\ Unregister(Host, CLOSED, FALSE)
      <3>1. fd_poll' = [fd_poll EXCEPT ![Host] = CLOSED] /\ pc' = "check"
        BY <1>2, <2>4, FdsApart, UnregisterWorks DEF Before
      <3>2. /\ fd_poll'[Host] = CLOSED
            /\ \A f \in Fds : f # Host => fd_poll'[f] = fd_poll[f]
        BY <3>1, FdsApart DEF Before, IInv, TypeOK, PollTypes
      <3>3. ClosedMasks'
        BY <1>1, <3>2 DEF Before, Sound, ClosedMasks, IInv, TypeOK, ControlTypes
      <3>4. IdleOutput'
        BY <1>2, <2>2, <3>2, FdsApart DEF IdleOutput
      <3>5. PickedReady' /\ SendingUnpolled'
        BY <3>1 DEF PickedReady, SendingUnpolled
      <3>6. HostGone'
        BY <2>1, <2>4, <3>1 DEF HostGone
      <3>7. PeerGone'
        BY <1>1, <2>2, <3>2, FdsApart DEF Before, Sound, PeerGone
      <3> QED BY <3>1, <3>3, <3>4, <3>5, <3>6, <3>7 DEF GoesWell, Sound, Fatal
    <2> QED BY <1>1, <1>4, <2>1, <2>3, <2>4 DEF RecvHost, Exit
  <1> QED BY <1>3, <1>4

(* A pending packet is taken up; its socket is polled for output.          *)
LEMMA ResumeGoesWell ==
  ASSUME Before, NEW i \in Agents, ResumeSend(i)
  PROVE  GoesWell'
  <1>1. /\ pc = "read_host_send_agent" /\ i = cursor.agent_id /\ Pending(i)
        /\ UNCHANGED <<closed, packet, host, peer, room>>
        /\ \A j \in Agents : (Pending(j)' <=> Pending(j)) /\ ~SendingOn(j)
        /\ cursor'.agent_id = i
    BY DEF ResumeSend, outbound_vars, host_vars, send_vars, SendingOn, Pending, Before, IInv, TypeOK,
           ControlTypes, Cursor
  <1>2. "out" \in fd_poll[i]
    BY <1>1 DEF Before, Sound, PickedReady
  <1>3. fd_poll[i] \in {INAndOut, POLLOUT}
    BY <1>2, FdsApart DEF Before, IInv, TypeOK, PollTypes, PollStates, OFF, POLLIN, POLLOUT, INAndOut, CLOSED
  <1>4. fd_poll' = [fd_poll EXCEPT ![i] = UnblockedMask(i)] /\ pc' = "send_agent"
    <2>1. SetPoll(i, UnblockedMask(i), "send_agent")
      BY <1>3 DEF ResumeSend
    <2> QED BY <2>1, FdsApart, MaskEffects, SetPollWorks DEF Before, Sound
  <1>5. /\ fd_poll'[i] = UnblockedMask(i)
        /\ \A f \in Fds : f # i => fd_poll'[f] = fd_poll[f]
    BY <1>4, FdsApart DEF Before, IInv, TypeOK, PollTypes
  <1>6. \A f \in Fds : fd_poll'[f] = CLOSED <=> fd_poll[f] = CLOSED
    BY <1>5, FdsApart, MaskEffects DEF Before
  <1>7. ClosedMasks'
    BY <1>1, <1>6 DEF Before, Sound, ClosedMasks, IInv, TypeOK, ControlTypes
  <1>8. IdleOutput'
    BY <1>1, <1>5, FdsApart, MaskEffects DEF Before, Sound, IdleOutput
  <1>9. PickedReady' /\ SendingUnpolled'
    BY <1>1, <1>4, <1>5, FdsApart, MaskEffects DEF PickedReady, SendingUnpolled, Before
  <1>10. HostGone'
    BY <1>1, <1>4, <1>6, FdsApart DEF Before, Sound, HostGone
  <1>11. PeerGone'
    BY <1>1, <1>6, FdsApart DEF Before, Sound, PeerGone
  <1> QED BY <1>4, <1>7, <1>8, <1>9, <1>10, <1>11 DEF GoesWell, Sound, Fatal

(* One call of send to an agent socket.                                    *)
LEMMA SendAgentGoesWell ==
  ASSUME Before, NEW i \in Agents, SendAgent(i)
  PROVE  GoesWell'
  <1>1. /\ pc = "send_agent" /\ i = cursor.agent_id /\ Pending(i) /\ "out" \notin fd_poll[i]
        /\ \A j \in Agents : SendingOn(j) <=> j = i
        /\ host' = host /\ packet \in [Agents -> PacketState]
    BY DEF SendAgent, host_vars, SendingOn, Before, Sound, SendingUnpolled, IInv, CursorInv, TypeOK, SendTypes
  <1>2. CASE AgentAccepts(i)
    <2>1. /\ UNCHANGED <<fd_poll, closed, peer>>
          /\ \A j \in Agents : j # i => room'[j] = room[j]
      BY <1>2 DEF AgentAccepts, poll_vars, Before, IInv, TypeOK, OutboundTypes
    <2>2. \/ pc' = "send_agent" /\ cursor'.agent_id = i /\ packet' = packet
          \/ pc' = "check" /\ packet' = [packet EXCEPT ![i].host_packet_size = 0]
      BY <1>1, <1>2 DEF AgentAccepts, Before, IInv, TypeOK, ControlTypes, Cursor
    <2>3. \A j \in Agents : j # i => (Pending(j)' <=> Pending(j)) /\ (SendingOn(j)' <=> SendingOn(j))
      BY <1>1, <2>2 DEF Pending, SendingOn
    <2>4. SendingOn(i)' \/ ~Pending(i)'
      BY <1>1, <2>2 DEF Pending, SendingOn, PacketState
    <2>5. ClosedMasks'
      BY <2>1 DEF Before, Sound, ClosedMasks
    <2>6. IdleOutput'
      BY <1>1, <2>1, <2>3 DEF Before, Sound, IdleOutput
    <2>7. PickedReady' /\ SendingUnpolled'
      BY <1>1, <2>1, <2>2 DEF PickedReady, SendingUnpolled
    <2>8. HostGone'
      BY <1>1, <2>1, <2>2 DEF Before, Sound, HostGone
    <2>9. PeerGone'
      BY <1>1, <2>1, <2>3, <2>4 DEF Before, Sound, PeerGone
    <2> QED BY <2>2, <2>5, <2>6, <2>7, <2>8, <2>9 DEF GoesWell, Sound, Fatal
  <1>3. CASE AgentBlocks(i)
    <2>1. UNCHANGED <<closed, peer, room>> /\ room[i] = 0
      BY <1>3 DEF AgentBlocks, outbound_vars
    <2>2. fd_poll' = [fd_poll EXCEPT ![i] = BlockedMask(i)] /\ pc' = "check"
      <3>1. SetPoll(i, BlockedMask(i), "check")
        BY <1>3 DEF AgentBlocks
      <3> QED BY <3>1, FdsApart, MaskEffects, SetPollWorks DEF Before, Sound
    <2>3. \A f \in Fds : /\ f # i => fd_poll'[f] = fd_poll[f]
                         /\ fd_poll'[f] = CLOSED <=> fd_poll[f] = CLOSED
      BY <2>2, FdsApart, MaskEffects DEF Before, IInv, TypeOK, PollTypes
    <2>4. \A j \in Agents : Pending(j)' <=> Pending(j)
      BY <1>1, <1>3 DEF AgentBlocks, BlockedPacket, Pending, PacketState
    <2>5. ClosedMasks'
      BY <2>1, <2>3 DEF Before, Sound, ClosedMasks, IInv, TypeOK, ControlTypes
    <2>6. IdleOutput'
      BY <1>1, <2>3, <2>4, FdsApart DEF Before, Sound, IdleOutput
    <2>7. PickedReady' /\ SendingUnpolled'
      BY <2>2 DEF PickedReady, SendingUnpolled
    <2>8. HostGone'
      BY <1>1, <2>2, <2>3, FdsApart DEF Before, Sound, HostGone
    <2>9. PeerGone'
      BY <1>1, <2>1, <2>3, <2>4, FdsApart DEF Before, Sound, PeerGone
    <2> QED BY <2>2, <2>5, <2>6, <2>7, <2>8, <2>9 DEF GoesWell, Sound, Fatal
  <1>4. ~AgentSendFails(i)
    BY NobodyBroken DEF AgentSendFails, Before
  <1> QED BY <1>2, <1>3, <1>4 DEF SendAgent

(* An agent socket is read: it has a slot, and when its connection was     *)
(* shut down its pending packet, if it has one, met a full buffer.         *)
LEMMA AgentInGoesWell ==
  ASSUME Before, [Next]_vars, NEW i \in Agents, AgentIn(i)
  PROVE  GoesWell'
  <1>1. /\ pc = "wait" /\ "in" \in epoll[i]
        /\ UNCHANGED <<packet, host, peer, room>>
        /\ \A j \in Agents : (Pending(j)' <=> Pending(j)) /\ ~SendingOn(j)
        /\ ~("out" \in epoll[i] /\ AgentWritable(i))
    BY DEF AgentIn, send_vars, host_vars, outbound_vars, Pending, SendingOn
  <1>2. "in" \in fd_poll[i] /\ epoll[i] = fd_poll[i] \ CLOSED
    BY <1>1, FdsApart DEF Before, IInv, PollMatchesEpoll
  <1>3. pc' \notin {"no_free_index", "weird_false_fire"}
    BY NextQueue DEF Before, QueueInv, NeverTriggeredInVain
  <1>4. PICK p \in Slots : ReadPacket(i, p) \/ ReadBlocks(i, p) \/ ReadEnds(i, p) \/ ReadFails(i, p)
    BY <1>3, AgentInFills DEF Before, OrderInv
  <1>5. CASE ReadPacket(i, p)
    <2> DEFINE mask == FullQueueMask(i, agent_packet_queue_count'[i])
               next == IF IsNext(Head(inq[i])) THEN "send_data_host" ELSE "check"
    <2>1. /\ SetPoll(i, mask, next) /\ closed' = closed
          /\ next \in {"send_data_host", "check"}
      BY <1>5 DEF ReadPacket
    <2>2. /\ mask # fd_poll[i] => fd_poll[i] # CLOSED /\ mask # CLOSED
          /\ mask = CLOSED <=> fd_poll[i] = CLOSED
          /\ "out" \in mask <=> "out" \in fd_poll[i]
      BY FdsApart, MaskEffects DEF Before
    <2> HIDE DEF mask, next
    <2>3. fd_poll' = [fd_poll EXCEPT ![i] = mask] /\ pc' = next
      BY <2>1, <2>2, FdsApart, SetPollWorks DEF Before, Sound
    <2>4. \A f \in Fds : /\ f # i => fd_poll'[f] = fd_poll[f]
                         /\ fd_poll'[f] = CLOSED <=> fd_poll[f] = CLOSED
                         /\ "out" \in fd_poll'[f] <=> "out" \in fd_poll[f]
      BY <2>2, <2>3, FdsApart DEF Before, IInv, TypeOK, PollTypes
    <2>5. ClosedMasks'
      BY <2>1, <2>4 DEF Before, Sound, ClosedMasks, IInv, TypeOK, ControlTypes
    <2>6. IdleOutput'
      BY <1>1, <2>4, FdsApart DEF Before, Sound, IdleOutput
    <2>7. PickedReady' /\ SendingUnpolled'
      BY <2>1, <2>3 DEF PickedReady, SendingUnpolled
    <2>8. HostGone'
      BY <1>1, <2>4, FdsApart DEF Before, Sound, HostGone
    <2>9. PeerGone'
      BY <1>1, <2>1, <2>4, FdsApart DEF Before, Sound, PeerGone
    <2> QED BY <2>1, <2>3, <2>5, <2>6, <2>7, <2>8, <2>9 DEF GoesWell, Sound, Fatal
  <1>6. CASE ReadBlocks(i, p)
    <2>1. pc' = "check" /\ UNCHANGED <<poll_vars, closed>>
      BY <1>3, <1>6 DEF ReadBlocks, Exit
    <2>2. PickedReady' /\ SendingUnpolled'
      BY <2>1 DEF PickedReady, SendingUnpolled
    <2> QED BY <1>1, <2>1, <2>2, SameMasksGoWell DEF poll_vars, Running
  <1>7. CASE ReadEnds(i, p)
    <2>1. peer[i] = "fin" /\ Unregister(i, CLOSED, FALSE)
      BY <1>7 DEF ReadEnds
    <2>2. fd_poll' = [fd_poll EXCEPT ![i] = CLOSED] /\ pc' = "check" /\ closed' = closed
      BY <1>2, <2>1, FdsApart, UnregisterWorks DEF Before
    <2>3. fd_poll'[i] = CLOSED /\ \A f \in Fds : f # i => fd_poll'[f] = fd_poll[f]
      BY <2>2, FdsApart DEF Before, IInv, TypeOK, PollTypes
    <2>4. Pending(i) => room[i] = 0
      <3>1. fd_poll[i] # CLOSED /\ i \notin closed
        BY <1>2 DEF Before, Sound, ClosedMasks, CLOSED
      <3>2. Pending(i) => "out" \in fd_poll[i]
        BY <1>1, <3>1 DEF Before, IInv, PendingInv, Remembered
      <3>3. room[i] \in Nat
        BY Positive DEF Before, IInv, TypeOK, OutboundTypes
      <3> QED BY <1>1, <1>2, <3>2, <3>3 DEF AgentWritable, CLOSED
    <2>5. ClosedMasks'
      BY <2>2, <2>3 DEF Before, Sound, ClosedMasks, IInv, TypeOK, ControlTypes
    <2>6. IdleOutput'
      BY <1>1, <2>3, FdsApart DEF Before, Sound, IdleOutput, CLOSED
    <2>7. PickedReady' /\ SendingUnpolled'
      BY <2>2 DEF PickedReady, SendingUnpolled
    <2>8. HostGone'
      BY <1>1, <2>2, <2>3, FdsApart DEF Before, Sound, HostGone
    <2>9. PeerGone'
      BY <1>1, <2>1, <2>2, <2>3, <2>4, FdsApart DEF Before, Sound, PeerGone
    <2> QED BY <2>2, <2>5, <2>6, <2>7, <2>8, <2>9 DEF GoesWell, Sound, Fatal
  <1>8. ~ReadFails(i, p)
    BY NobodyBroken DEF ReadFails, Before
  <1> QED BY <1>4, <1>5, <1>6, <1>7, <1>8

(* The host can be written.                                                *)
LEMMA HostOutGoesWell ==
  ASSUME Before, HostOut
  PROVE  GoesWell'
  <1>1. /\ pc = "wait" /\ "out" \in epoll[Host]
        /\ UNCHANGED <<closed, packet, host, peer, room>>
        /\ \A j \in Agents : (Pending(j)' <=> Pending(j)) /\ ~SendingOn(j)
    BY DEF HostOut, send_vars, host_vars, outbound_vars, Pending, SendingOn
  <1>2. fd_poll[Host] \in {INAndOut, POLLOUT}
    BY <1>1, FdsApart DEF Before, IInv, PollMatchesEpoll, TypeOK, PollTypes,
         PollStates, OFF, POLLIN, POLLOUT, INAndOut, CLOSED
  <1>3. fd_poll' = [fd_poll EXCEPT ![Host] = UnblockedMask(Host)] /\ pc' = "send_data_host"
    <2>1. SetPoll(Host, UnblockedMask(Host), "send_data_host")
      BY DEF HostOut
    <2> QED BY <2>1, FdsApart, MaskEffects, SetPollWorks DEF Before, Sound
  <1>4. /\ fd_poll'[Host] = UnblockedMask(Host) /\ fd_poll'[Host] # CLOSED
        /\ \A f \in Fds : f # Host => fd_poll'[f] = fd_poll[f]
    <2>1. UnblockedMask(Host) # CLOSED
      BY <1>2, FdsApart, MaskEffects DEF Before, INAndOut, POLLOUT, CLOSED
    <2> QED BY <1>3, <2>1, FdsApart DEF Before, IInv, TypeOK, PollTypes
  <1>5. ClosedMasks'
    BY <1>1, <1>4 DEF Before, Sound, ClosedMasks, IInv, TypeOK, ControlTypes
  <1>6. IdleOutput'
    <2>1. CASE fd_poll[Host] = POLLOUT
      BY <1>4, <2>1 DEF IdleOutput, UnblockedMask, OFF
    <2>2. CASE fd_poll[Host] = INAndOut
      <3>1. \A j \in Agents : "out" \in fd_poll[j] => Pending(j)
        BY <2>2 DEF Before, Sound, IdleOutput, OFF, POLLOUT, INAndOut
      <3> QED BY <1>1, <1>4, <3>1, FdsApart DEF IdleOutput
    <2> QED BY <1>2, <2>1, <2>2
  <1>7. PickedReady' /\ SendingUnpolled' /\ HostGone'
    BY <1>3, <1>4 DEF PickedReady, SendingUnpolled, HostGone
  <1>8. PeerGone'
    BY <1>1, <1>3, <1>4, FdsApart DEF Before, Sound, PeerGone
  <1> QED BY <1>3, <1>5, <1>6, <1>7, <1>8 DEF GoesWell, Sound, Fatal

(* One call of send to the host.  When it blocks and the host has shut     *)
(* down its side, the loop was going on for a packet that is pending.      *)
LEMMA SendHostGoesWell ==
  ASSUME Before, SendHost
  PROVE  GoesWell'
  <1> DEFINE i == cursor.agent_id
             p == cursor.packet_index
  <1>1. /\ pc = "send_data_host" /\ i \in Agents
        /\ UNCHANGED <<packet, host, peer, room>>
        /\ \A j \in Agents : (Pending(j)' <=> Pending(j)) /\ ~SendingOn(j)
        /\ "out" \notin fd_poll[Host] /\ Host \notin closed
    BY DEF SendHost, send_vars, outbound_vars, Pending, SendingOn, Before, IInv, CursorInv, OrderInv,
           SendingNext, Sound, ClosedMasks
  <1>2. CASE HostAccepts(i, p)
    <2>1. closed' = closed
      BY <1>2 DEF HostAccepts
    <2>2. CASE pc' = pc /\ UNCHANGED poll_vars
      <3>1. PickedReady' /\ SendingUnpolled'
        BY <1>1, <2>2 DEF PickedReady, SendingUnpolled
      <3> QED BY <1>1, <2>1, <2>2, <3>1, SameMasksGoWell DEF poll_vars, Running
    <2>3. CASE HostCompletes(i, p)
      <3> DEFINE next == IF Early(recv_seq + 1) = {} THEN "check" ELSE "send_data_host"
                 mask == FreedQueueMask(i)
      <3>1. SetPoll(i, mask, next) /\ next \in {"send_data_host", "check"}
        BY <2>3 DEF HostCompletes
      <3>2. /\ mask # fd_poll[i] => fd_poll[i] # CLOSED /\ mask # CLOSED
            /\ mask = CLOSED <=> fd_poll[i] = CLOSED
            /\ "out" \in mask <=> "out" \in fd_poll[i]
        BY <1>1, FdsApart, MaskEffects DEF Before
      <3>3. i \in Agents /\ i \in Fds
        BY <1>1, FdsApart
      <3> HIDE DEF mask, next, i
      <3>4. fd_poll' = [fd_poll EXCEPT ![i] = mask] /\ pc' = next
        BY <3>1, <3>2, <3>3, SetPollWorks DEF Before, Sound
      <3>5. \A f \in Fds : /\ f # i => fd_poll'[f] = fd_poll[f]
                           /\ fd_poll'[f] = CLOSED <=> fd_poll[f] = CLOSED
                           /\ "out" \in fd_poll'[f] <=> "out" \in fd_poll[f]
        BY <3>2, <3>3, <3>4, FdsApart DEF Before, IInv, TypeOK, PollTypes
      <3>6. ClosedMasks'
        BY <2>1, <3>5 DEF Before, Sound, ClosedMasks, IInv, TypeOK, ControlTypes
      <3>7. IdleOutput'
        BY <1>1, <3>3, <3>5, FdsApart DEF Before, Sound, IdleOutput
      <3>8. PickedReady' /\ SendingUnpolled'
        BY <3>1, <3>4 DEF PickedReady, SendingUnpolled
      <3>9. HostGone'
        BY <1>1, <3>5, FdsApart DEF Before, Sound, HostGone
      <3>10. PeerGone'
        BY <1>1, <2>1, <3>5, FdsApart DEF Before, Sound, PeerGone
      <3> QED BY <3>1, <3>4, <3>6, <3>7, <3>8, <3>9, <3>10 DEF GoesWell, Sound, Fatal
    <2> QED BY <1>2, <2>2, <2>3 DEF HostAccepts
  <1>3. CASE HostBlocks(i, p)
    <2>1. closed' = closed
      BY <1>3 DEF HostBlocks
    <2>2. CASE fd_poll[Host] \in {POLLIN, OFF}
      <3>1. fd_poll' = [fd_poll EXCEPT ![Host] = BlockedMask(Host)] /\ pc' = "check"
        <4>1. SetPoll(Host, BlockedMask(Host), "check")
          BY <1>3, <2>2 DEF HostBlocks
        <4> QED BY <4>1, FdsApart, MaskEffects, SetPollWorks DEF Before, Sound
      <3>2. /\ fd_poll'[Host] = BlockedMask(Host) /\ fd_poll'[Host] # CLOSED
            /\ \A f \in Fds : f # Host => fd_poll'[f] = fd_poll[f]
        <4>1. BlockedMask(Host) # CLOSED
          BY <2>2, FdsApart, MaskEffects DEF Before, POLLIN, OFF, CLOSED
        <4> QED BY <3>1, <4>1, FdsApart DEF Before, IInv, TypeOK, PollTypes
      <3>3. ClosedMasks'
        BY <2>1, <3>2 DEF Before, Sound, ClosedMasks, IInv, TypeOK, ControlTypes
      <3>4. IdleOutput'
        <4>1. CASE fd_poll[Host] = OFF
          BY <3>2, <4>1 DEF IdleOutput, BlockedMask, OFF
        <4>2. CASE fd_poll[Host] = POLLIN
          <5>1. \A j \in Agents : "out" \in fd_poll[j] => Pending(j)
            BY <4>2 DEF Before, Sound, IdleOutput, OFF, POLLOUT, POLLIN
          <5> QED BY <1>1, <3>2, <5>1, FdsApart DEF IdleOutput
        <4> QED BY <2>2, <4>1, <4>2
      <3>5. PickedReady' /\ SendingUnpolled' /\ HostGone'
        BY <3>1, <3>2 DEF PickedReady, SendingUnpolled, HostGone
      <3>6. PeerGone'
        BY <1>1, <2>1, <3>1, <3>2, FdsApart DEF Before, Sound, PeerGone
      <3> QED BY <3>1, <3>3, <3>4, <3>5, <3>6 DEF GoesWell, Sound, Fatal
    <2>3. CASE fd_poll[Host] \notin {POLLIN, OFF}
      <3>1. fd_poll[Host] = CLOSED
        BY <1>1, <2>3, FdsApart DEF Before, IInv, TypeOK, PollTypes, PollStates, POLLOUT, INAndOut
      <3>2. pc' = "host_not_pollable" /\ UNCHANGED poll_vars
        BY <1>3, <2>3 DEF HostBlocks, Exit
      <3>3. host = "fin" /\ \E j \in Agents : Pending(j)
        BY <1>1, <3>1 DEF Before, Sound, HostGone
      <3> QED BY <1>1, <3>1, <3>2, <3>3 DEF GoesWell, Excused, Alive, Running, poll_vars
    <2> QED BY <2>2, <2>3
  <1>4. ~HostSendFails
    BY DEF HostSendFails, Before, Unharmed
  <1> QED BY <1>1, <1>2, <1>3, <1>4 DEF SendHost

(* A process that has ended does nothing, and its peers do not close; the  *)
(* remote agent may still write.                                           *)
LEMMA EndedStays ==
  ASSUME [Next]_vars, ~Alive
  PROVE  /\ UNCHANGED <<process_vars, host_vars, peer>>
         /\ UNCHANGED inbound_vars \/ \E i \in Agents : RemoteSends(i)
  <1>1. CheckClosed \/ Outbound \/ Inbound \/ HostSide => Alive
    BY DEF Alive, Running, CheckClosed, Outbound, Inbound, HostSide, HostIn, AgentOut, RecvHost,
           ResumeSend, SendAgent, AgentIn, HostOut, SendHost, HostWrites, HostReads, HostCloses,
           HostResets
  <1>2. ASSUME NEW i \in Agents,
               RemoteSends(i) \/ Arrive(i) \/ Drain(i) \/ RemoteCloses(i) \/ RemoteResets(i)
        PROVE  /\ UNCHANGED <<process_vars, host_vars, peer>>
               /\ UNCHANGED inbound_vars \/ RemoteSends(i)
    BY <1>2 DEF RemoteSends, Arrive, Drain, RemoteCloses, RemoteResets
  <1> QED BY <1>1, <1>2 DEF Next, RemoteSide, Ended, vars, process_vars

(* Every step of an unharmed process goes well.                            *)
LEMMA NextSound ==
  ASSUME IInv, OrderInv, QueueInv, OutInv, SoundInv, [Next]_vars
  PROVE  SoundInv'
  <1> SUFFICES ASSUME Unharmed'
               PROVE  GoesWell'
    BY DEF SoundInv
  <1>1. /\ Unharmed
        /\ host' # host => host = "open"
        /\ \A i \in Agents : peer'[i] # peer[i] => peer[i] = "open"
    BY UnharmedBefore
  <1>2. CASE UNCHANGED vars
    <2>1. GoesWell
      BY <1>1 DEF SoundInv
    <2>2. UNCHANGED <<pc, cursor, fd_poll, closed, packet, host, peer, room>>
      BY <1>2 DEF vars, send_vars, poll_vars, host_vars, outbound_vars
    <2>3. Sound' = Sound
      BY <2>2 DEF Sound, ClosedMasks, IdleOutput, PickedReady, SendingUnpolled, HostGone, PeerGone,
                  SendingOn, Pending
    <2>4. Excused' = Excused
      BY <2>2 DEF Excused, Pending
    <2> QED BY <2>1, <2>2, <2>3, <2>4 DEF GoesWell, Alive
  <1>3. CASE Alive
    <2>1. Before
      BY <1>1, <1>3 DEF Before, SoundInv, GoesWell
    <2>2. CASE CheckClosed
      BY <2>1, <2>2, CheckGoesWell
    <2>3. CASE Outbound
      BY <2>1, <2>3, HostInGoesWell, AgentOutGoesWell, RecvHostGoesWell, ResumeGoesWell,
         SendAgentGoesWell DEF Outbound
    <2>4. CASE Inbound
      BY <2>1, <2>4, AgentInGoesWell, HostOutGoesWell, SendHostGoesWell DEF Inbound
    <2>5. CASE HostSide \/ RemoteSide
      BY <1>1, <2>1, <2>5, PeersGoWell
    <2> QED BY <1>2, <2>2, <2>3, <2>4, <2>5 DEF Next, Ended
  <1>4. CASE ~Alive
    <2>1. UNCHANGED <<pc, fd_poll, packet, host>>
      BY <1>4, EndedStays DEF process_vars, send_vars, poll_vars, host_vars
    <2>2. Excused' = Excused
      BY <2>1 DEF Excused, Pending
    <2> QED BY <1>1, <1>4, <2>1, <2>2 DEF SoundInv, GoesWell, Alive
  <1> QED BY <1>3, <1>4

(* All goes well when the process starts.                                  *)
LEMMA InitSound ==
  ASSUME Init
  PROVE  SoundInv
  <1>1. /\ pc = "check" /\ closed = {} /\ \A f \in Fds : fd_poll[f] = POLLIN
    BY DEF Init
  <1>2. Sound
    BY <1>1, FdsApart DEF Sound, ClosedMasks, IdleOutput, PickedReady, SendingUnpolled, HostGone, PeerGone,
       POLLIN, CLOSED
  <1> QED BY <1>1, <1>2 DEF SoundInv, GoesWell, Fatal

(* Everything that is said of a transfer process holds throughout.         *)
THEOREM Throughout == Spec => [](IInv /\ OrderInv /\ QueueInv /\ OutInv /\ SoundInv)
  <1>1. Init => SoundInv
    BY InitSound
  <1>2. IInv /\ OrderInv /\ QueueInv /\ OutInv /\ SoundInv /\ [Next]_vars => SoundInv'
    BY NextSound
  <1> QED BY <1>1, <1>2, Queues, Outgoing, PTL DEF Spec

(* While no connection was reset or cut inside a packet, the process ends  *)
(* in an error in one case only: the host has shut down its sending side   *)
(* while a packet is pending, and then does not take the next packet whole *)
(* (network.c:849-1491, poll.c:225-569).                                   *)
THEOREM ErrorsExplained == Spec => []NoFatalExit
  <1>1. SoundInv => NoFatalExit
    BY DEF SoundInv, GoesWell, Excused, NoFatalExit
  <1> QED BY <1>1, Throughout, PTL

-----------------------------------------------------------------------------
(* No packet disappears.                                                   *)

(* Every number that is not with the host yet is on a socket or in a slot. *)
OnSocket(n) == \E i \in Agents : \E k \in 1 .. Len(inq[i]) : inq[i][k] = n
InSlot(n) == \E i \in Agents, p \in Slots : Read(i, p) /\ Number(i, p) = n
Covered == \A n \in Nat : recv_seq <= n /\ n < in_seq => OnSocket(n) \/ InSlot(n)

(* Packets that stay where they are.                                       *)
LEMMA KeptIsCovered ==
  ASSUME Covered, UNCHANGED <<recv_seq, in_seq, inq>>,
         \A j \in Agents, q \in Slots : Read(j, q) => Read(j, q)' /\ Number(j, q)' = Number(j, q)
  PROVE  Covered'
  <1> SUFFICES ASSUME NEW n \in Nat, recv_seq' <= n, n < in_seq'
               PROVE  OnSocket(n)' \/ InSlot(n)'
    BY DEF Covered
  <1>1. OnSocket(n) \/ InSlot(n)
    BY DEF Covered
  <1>2. OnSocket(n) => OnSocket(n)'
    BY DEF OnSocket
  <1>3. InSlot(n) => InSlot(n)'
    BY DEF InSlot
  <1> QED BY <1>1, <1>2, <1>3

(* A packet that leaves its socket is in a slot.                           *)
LEMMA WholeIsCovered ==
  ASSUME IInv, Covered, UNCHANGED <<recv_seq, in_seq>>, NEW i \in Agents, NEW p \in Slots,
         Filling(i, p), WholePacket(i, p), OtherSlotsKept(i, p)
  PROVE  Covered'
  <1>1. /\ ~Read(i, p) /\ Read(i, p)' /\ Number(i, p)' = Head(inq[i])
        /\ \A j \in Agents, q \in Slots : j # i \/ q # p =>
             (Read(j, q)' <=> Read(j, q)) /\ (Read(j, q) => Number(j, q)' = Number(j, q))
    BY WholeReads
  <1>2. /\ inq \in [Agents -> Seq(Nat)]
        /\ inq[i] # <<>> /\ inq' = [inq EXCEPT ![i] = Tail(@)]
    BY DEF WholePacket, IInv, TypeOK, InboundTypes
  <1> SUFFICES ASSUME NEW n \in Nat, recv_seq' <= n, n < in_seq'
               PROVE  OnSocket(n)' \/ InSlot(n)'
    BY DEF Covered
  <1>3. OnSocket(n) \/ InSlot(n)
    BY DEF Covered
  <1>4. CASE InSlot(n)
    <2>1. PICK j \in Agents, q \in Slots : Read(j, q) /\ Number(j, q) = n
      BY <1>4 DEF InSlot
    <2>2. Read(j, q)' /\ Number(j, q)' = n
      BY <1>1, <2>1
    <2> QED BY <2>2 DEF InSlot
  <1>5. CASE OnSocket(n)
    <2>1. PICK j \in Agents : \E k \in 1 .. Len(inq[j]) : inq[j][k] = n
      BY <1>5 DEF OnSocket
    <2>2. CASE j # i
      <3>1. inq'[j] = inq[j]
        BY <1>2, <2>2
      <3> QED BY <2>1, <3>1 DEF OnSocket
    <2>3. CASE j = i
      <3>1. PICK k \in 1 .. Len(inq[i]) : inq[i][k] = n
        BY <2>1, <2>3
      <3>2. CASE k = 1
        <4>1. Number(i, p)' = n
          BY <1>1, <1>2, <3>1, <3>2
        <4> QED BY <1>1, <4>1 DEF InSlot
      <3>3. CASE k # 1
        <4>1. inq'[i] = Tail(inq[i]) /\ inq[i] \in Seq(Nat)
          BY <1>2
        <4>2. k - 1 \in 1 .. Len(inq'[i]) /\ inq'[i][k - 1] = inq[i][k]
          BY <1>2, <3>3, <4>1
        <4> QED BY <3>1, <4>2 DEF OnSocket
      <3> QED BY <3>2, <3>3
    <2> QED BY <2>2, <2>3
  <1> QED BY <1>3, <1>4, <1>5

(* Every step keeps every packet, but for the one that is with the host.   *)
LEMMA NextCovered ==
  ASSUME IInv, OrderInv, Covered, [Next]_vars
  PROVE  Covered'
  <1>1. CASE SendHost
    <2> DEFINE i == cursor.agent_id
               p == cursor.packet_index
    <2>1. UNCHANGED <<in_seq, inq, agent_packet_index_in>>
      BY <1>1 DEF SendHost, inbound_vars
    <2>2. CASE HostAccepts(i, p) /\ HostCompletes(i, p)
      <3>1. /\ recv_seq' = recv_seq + 1
            /\ \A j \in Agents, q \in Slots :
                 /\ Read(j, q)' <=> Read(j, q) /\ ~(j = i /\ q = p)
                 /\ Number(j, q)' = Number(j, q)
        BY <1>1, <2>2, CompleteReads
      <3>2. Number(i, p) = recv_seq /\ recv_seq \in Nat
        BY <1>1 DEF SendHost, OrderInv, SendingNext, IInv, TypeOK, OrderTypes
      <3> HIDE DEF i, p
      <3> SUFFICES ASSUME NEW n \in Nat, recv_seq' <= n, n < in_seq'
                   PROVE  OnSocket(n)' \/ InSlot(n)'
        BY DEF Covered
      <3>3. OnSocket(n) \/ InSlot(n)
        BY <2>1, <3>1, <3>2 DEF Covered
      <3>4. OnSocket(n) => OnSocket(n)'
        BY <2>1 DEF OnSocket
      <3>5. n # recv_seq
        BY <3>1, <3>2
      <3>6. InSlot(n) => InSlot(n)'
        BY <3>1, <3>2, <3>5 DEF InSlot
      <3> QED BY <3>3, <3>4, <3>6
    <2>3. CASE ~(HostAccepts(i, p) /\ HostCompletes(i, p))
      <3>1. /\ recv_seq' = recv_seq
            /\ \/ buffered_packet' = buffered_packet
               \/ buffered_packet' = [buffered_packet EXCEPT ![i][p].host_sent_size = cursor.size_count]
        BY <1>1, <2>3 DEF SendHost, HostAccepts, HostBlocks, HostSendFails, StopAt, order_vars
      <3>2. \A j \in Agents, q \in Slots :
              /\ buffered_packet'[j][q].in_use = buffered_packet[j][q].in_use
              /\ buffered_packet'[j][q].seq_num = buffered_packet[j][q].seq_num
        <4>1. i \in Agents /\ p \in Slots /\ buffered_packet \in SlotArray
          BY <1>1 DEF SendHost, IInv, CursorInv, TypeOK, ControlTypes, Cursor, SlotTypes, SlotArray
        <4>2. CASE buffered_packet' = buffered_packet
          BY <4>2
        <4>3. CASE buffered_packet' = [buffered_packet EXCEPT ![i][p].host_sent_size = cursor.size_count]
          BY <4>1, <4>3 DEF SlotArray, SlotState
        <4> QED BY <3>1, <4>2, <4>3
      <3> QED BY <2>1, <3>1, <3>2, KeptIsCovered DEF Read, Number
    <2> QED BY <2>2, <2>3
  <1>2. ASSUME NEW i \in Agents, AgentIn(i)
        PROVE  Covered'
    <2>1. /\ Progress(i) = taken[i] /\ pc = "wait" /\ AgentReadable(i)
          /\ UNCHANGED <<in_seq, recv_seq>>
      BY <1>2, AgentInFills DEF AgentIn, OrderInv
    <2>2. CASE UNCHANGED queue_vars
      BY <2>2, KeptIsCovered DEF queue_vars, slot_vars, order_vars, Read, Number
    <2>3. ASSUME NEW p \in Slots, Filling(i, p), Take(i, Readable(i)), ReadPacket(i, p)
          PROVE  Covered'
      <3>1. WholePacket(i, p) /\ OtherSlotsKept(i, p)
        BY <2>1, <2>3, WholeEffect
      <3> QED BY <2>1, <2>3, <3>1, WholeIsCovered
    <2>4. ASSUME NEW p \in Slots, Filling(i, p), Take(i, Readable(i)),
                 ReadBlocks(i, p) \/ ReadEnds(i, p) \/ ReadFails(i, p),
                 UNCHANGED <<buffered_packet_table, agent_packet_index_out, cursor>>
          PROVE  Covered'
      <3>1. PartOfPacket(i, p) /\ OtherSlotsKept(i, p)
        BY <2>1, <2>4, PartEffect
      <3>2. \A j \in Agents, q \in Slots :
              (Read(j, q)' <=> Read(j, q)) /\ (Read(j, q) => Number(j, q)' = Number(j, q))
        BY <2>4, <3>1, PartReads
      <3> QED BY <2>1, <3>1, <3>2, KeptIsCovered DEF PartOfPacket
    <2> QED BY <1>2, <2>2, <2>3, <2>4, AgentInFills DEF OrderInv
  <1>3. ASSUME NEW i \in Agents, RemoteSends(i)
        PROVE  Covered'
    <2>1. /\ UNCHANGED <<recv_seq, agent_packet_index_in, buffered_packet>>
          /\ in_seq' = in_seq + 1 /\ in_seq \in Nat
          /\ inq \in [Agents -> Seq(Nat)] /\ inq' = [inq EXCEPT ![i] = Append(@, in_seq)]
      BY <1>3 DEF RemoteSends, process_vars, order_vars, slot_vars, IInv, TypeOK, InboundTypes
    <2>2. /\ inq[i] \in Seq(Nat) /\ inq'[i] = Append(inq[i], in_seq)
          /\ \A j \in Agents : j # i => inq'[j] = inq[j]
      BY <2>1
    <2>3. /\ Len(inq[i]) \in Nat /\ Len(inq'[i]) = Len(inq[i]) + 1
          /\ inq'[i][Len(inq[i]) + 1] = in_seq
          /\ \A k \in 1 .. Len(inq[i]) : inq'[i][k] = inq[i][k]
      BY <2>1, <2>2
    <2> SUFFICES ASSUME NEW n \in Nat, recv_seq' <= n, n < in_seq'
                 PROVE  OnSocket(n)' \/ InSlot(n)'
      BY DEF Covered
    <2>4. CASE n = in_seq
      <3>1. Len(inq[i]) + 1 \in 1 .. Len(inq'[i])
        BY <2>3
      <3> QED BY <2>3, <2>4, <3>1 DEF OnSocket
    <2>5. CASE n < in_seq
      <3>1. OnSocket(n) \/ InSlot(n)
        BY <2>1, <2>5 DEF Covered
      <3>2. InSlot(n) => InSlot(n)'
        BY <2>1 DEF InSlot, Read, Number
      <3>3. ASSUME OnSocket(n)
            PROVE  OnSocket(n)'
        <4>1. PICK j \in Agents : \E k \in 1 .. Len(inq[j]) : inq[j][k] = n
          BY <3>3 DEF OnSocket
        <4>2. CASE j # i
          BY <2>2, <4>1, <4>2 DEF OnSocket
        <4>3. CASE j = i
          <5>1. PICK k \in 1 .. Len(inq[i]) : inq[i][k] = n
            BY <4>1, <4>3
          <5>2. k \in 1 .. Len(inq'[i]) /\ inq'[i][k] = n
            BY <2>3, <5>1
          <5> QED BY <5>2 DEF OnSocket
        <4> QED BY <4>2, <4>3
      <3> QED BY <3>1, <3>2, <3>3
    <2> QED BY <2>1, <2>4, <2>5
  <1>4. CASE UNCHANGED queue_vars
    BY <1>4, KeptIsCovered DEF queue_vars, slot_vars, order_vars, Read, Number
  <1> QED BY <1>1, <1>2, <1>3, <1>4, QuietSteps

-----------------------------------------------------------------------------
(* The orderly end.                                                        *)

(* A mask that epoll_ctl changes becomes CLOSED only when it is told so.   *)
LEMMA EpollCtlClosed ==
  ASSUME NEW new, NEW next, EpollCtl(new, next), NEW f \in Fds,
         new[f] = CLOSED <=> fd_poll[f] = CLOSED
  PROVE  fd_poll'[f] = CLOSED <=> fd_poll[f] = CLOSED
  BY DEF EpollCtl, poll_vars

(* The same for one mask.                                                  *)
LEMMA SetPollClosed ==
  ASSUME IInv, NEW g \in Fds, NEW mask, NEW next, SetPoll(g, mask, next), NEW f \in Fds,
         mask = CLOSED <=> fd_poll[g] = CLOSED
  PROVE  fd_poll'[f] = CLOSED <=> fd_poll[f] = CLOSED
  <1> DEFINE new == [fd_poll EXCEPT ![g] = mask]
  <1>1. new[f] = CLOSED <=> fd_poll[f] = CLOSED
    BY DEF IInv, TypeOK, PollTypes
  <1>2. EpollCtl(new, next)
    BY DEF SetPoll
  <1> HIDE DEF new
  <1> QED BY <1>1, <1>2, EpollCtlClosed

(* And when a socket is removed from the interest list.                    *)
LEMMA UnregisterClosed ==
  ASSUME IInv, NEW g \in Fds, NEW mask, NEW shut, Unregister(g, mask, shut), NEW f \in Fds,
         fd_poll'[f] # fd_poll[f]
  PROVE  f = g
  BY DEF Unregister, IInv, TypeOK, PollTypes, poll_vars

(* The host's mask becomes CLOSED when it has been read to its end, or     *)
(* when its connection fails.                                              *)
LEMMA HostBecomesClosed ==
  ASSUME IInv, [Next]_vars, fd_poll[Host] # CLOSED, fd_poll'[Host] = CLOSED
  PROVE  host' # "open" /\ (host' = "fin" => host_in' = 0)
  <1>1. ~CheckClosed
    BY FdsApart DEF CheckClosed
  <1>2. CASE HostIn
    <2>1. \A f \in Fds : FullMask(f) = CLOSED <=> fd_poll[f] = CLOSED
      BY MaskEffects
    <2> DEFINE new == [f \in Fds |-> FullMask(f)]
    <2>2. new[Host] = CLOSED <=> fd_poll[Host] = CLOSED
      BY <2>1, FdsApart
    <2>3. fd_poll' = fd_poll \/ EpollCtl(new, "check")
      BY <1>2 DEF HostIn, AllAgentsSocksFull, Exit, poll_vars
    <2> HIDE DEF new
    <2> QED BY <2>2, <2>3, FdsApart, EpollCtlClosed
  <1>3. ASSUME NEW i \in Agents, AgentOut(i)
        PROVE  FALSE
    <2>1. \A f \in Fds : NotFullMask(f) = CLOSED <=> fd_poll[f] = CLOSED
      BY MaskEffects
    <2> DEFINE new == [f \in Fds |-> NotFullMask(f)]
    <2>2. new[Host] = CLOSED <=> fd_poll[Host] = CLOSED
      BY <2>1, FdsApart
    <2>3. fd_poll' = fd_poll \/ EpollCtl(new, "read_host_send_agent")
      BY <1>3 DEF AgentOut, NotAllAgentSocksFull, poll_vars
    <2> HIDE DEF new
    <2> QED BY <2>2, <2>3, FdsApart, EpollCtlClosed
  <1>4. ASSUME NEW i \in Agents, RecvHost(i)
        PROVE  host' # "open" /\ (host' = "fin" => host_in' = 0)
    BY <1>4 DEF RecvHost, Exit, poll_vars, IInv, TypeOK, HostTypes, PeerStates
  <1>5. ASSUME NEW i \in Agents, ResumeSend(i) \/ SendAgent(i) \/ AgentIn(i)
        PROVE  FALSE
    <2>1. \/ fd_poll' = fd_poll
          \/ \E mask, next : SetPoll(i, mask, next) /\ (mask = CLOSED <=> fd_poll[i] = CLOSED)
          \/ \E mask, shut : Unregister(i, mask, shut)
      <3>1. CASE ResumeSend(i)
        BY <3>1, FdsApart, MaskEffects DEF ResumeSend, Exit, poll_vars
      <3>2. CASE SendAgent(i)
        BY <3>2, FdsApart, MaskEffects
           DEF SendAgent, AgentAccepts, AgentBlocks, AgentSendFails, Exit, poll_vars
      <3>3. CASE AgentIn(i)
        <4>1. ASSUME NEW p, ReadPacket(i, p)
              PROVE  \E mask, next : SetPoll(i, mask, next) /\ (mask = CLOSED <=> fd_poll[i] = CLOSED)
          <5> DEFINE mask == FullQueueMask(i, agent_packet_queue_count'[i])
          <5>1. \E next : SetPoll(i, mask, next)
            BY <4>1 DEF ReadPacket
          <5>2. mask = CLOSED <=> fd_poll[i] = CLOSED
            BY FdsApart, MaskEffects
          <5> HIDE DEF mask
          <5> QED BY <5>1, <5>2
        <4>2. ASSUME NEW p, ReadBlocks(i, p) \/ ReadEnds(i, p) \/ ReadFails(i, p)
              PROVE  fd_poll' = fd_poll \/ \E mask, shut : Unregister(i, mask, shut)
          BY <4>2 DEF ReadBlocks, ReadEnds, ReadFails, Exit, poll_vars
        <4>3. fd_poll' = fd_poll \/ \E p : ReadPacket(i, p) \/ ReadBlocks(i, p) \/ ReadEnds(i, p) \/ ReadFails(i, p)
          BY <3>3 DEF AgentIn, Exit, poll_vars
        <4> QED BY <4>1, <4>2, <4>3
      <3> QED BY <1>5, <3>1, <3>2, <3>3
    <2> QED BY <2>1, FdsApart, SetPollClosed, UnregisterClosed
  <1>6. ~HostOut
    <2>1. HostOut => SetPoll(Host, UnblockedMask(Host), "send_data_host")
      BY DEF HostOut
    <2> QED BY <2>1, FdsApart, MaskEffects, SetPollClosed
  <1>7. CASE SendHost
    <2> DEFINE i == cursor.agent_id
    <2>1. i \in Fds
      BY <1>7, FdsApart DEF SendHost, IInv, CursorInv
    <2>2. \/ fd_poll' = fd_poll
          \/ \E next : SetPoll(i, FreedQueueMask(i), next)
          \/ SetPoll(Host, BlockedMask(Host), "check")
          \/ host = "rst" /\ host' = host
      BY <1>7 DEF SendHost, HostAccepts, HostCompletes, HostBlocks, HostSendFails, Exit, poll_vars
    <2> HIDE DEF i
    <2>3. CASE \E next : SetPoll(i, FreedQueueMask(i), next)
      <3>1. FreedQueueMask(i) = CLOSED <=> fd_poll[i] = CLOSED
        BY <2>1, MaskEffects
      <3> QED BY <2>1, <2>3, <3>1, FdsApart, SetPollClosed
    <2>4. CASE SetPoll(Host, BlockedMask(Host), "check")
      BY <2>4, FdsApart, MaskEffects, SetPollClosed
    <2> QED BY <2>2, <2>3, <2>4
  <1>8. ~HostSide /\ ~RemoteSide /\ ~Ended /\ ~UNCHANGED vars
    BY DEF HostSide, HostWrites, HostReads, HostCloses, HostResets, RemoteSide, RemoteSends,
           Arrive, Drain, RemoteCloses, RemoteResets, Ended, process_vars, poll_vars, vars
  <1> QED BY <1>1, <1>2, <1>3, <1>4, <1>5, <1>6, <1>7, <1>8 DEF Next, Outbound, Inbound

(* An agent socket's mask becomes CLOSED at the top of the loop, once the  *)
(* host is done and nothing is pending, or when it was read to its end.    *)
LEMMA AgentBecomesClosed ==
  ASSUME IInv, OrderInv, [Next]_vars, NEW i \in Agents, fd_poll[i] # CLOSED, fd_poll'[i] = CLOSED
  PROVE  \/ CheckClosed /\ fd_poll[Host] = CLOSED /\ ~Pending(i) /\ i \in closed'
         \/ AgentIn(i) /\ peer[i] # "open" /\ avail'[i] = 0
  <1>0. i \in Fds /\ i # Host
    BY FdsApart
  <1>1. CASE CheckClosed
    BY <1>0, <1>1 DEF CheckClosed, Closable
  <1>2. CASE HostIn
    <2>1. \A f \in Fds : FullMask(f) = CLOSED <=> fd_poll[f] = CLOSED
      BY MaskEffects
    <2> DEFINE new == [f \in Fds |-> FullMask(f)]
    <2>2. new[i] = CLOSED <=> fd_poll[i] = CLOSED
      BY <1>0, <2>1
    <2>3. fd_poll' = fd_poll \/ EpollCtl(new, "check")
      BY <1>2 DEF HostIn, AllAgentsSocksFull, Exit, poll_vars
    <2> HIDE DEF new
    <2> QED BY <1>0, <2>2, <2>3, EpollCtlClosed
  <1>3. ASSUME NEW j \in Agents, AgentOut(j)
        PROVE  FALSE
    <2>1. \A f \in Fds : NotFullMask(f) = CLOSED <=> fd_poll[f] = CLOSED
      BY MaskEffects
    <2> DEFINE new == [f \in Fds |-> NotFullMask(f)]
    <2>2. new[i] = CLOSED <=> fd_poll[i] = CLOSED
      BY <1>0, <2>1
    <2>3. fd_poll' = fd_poll \/ EpollCtl(new, "read_host_send_agent")
      BY <1>3 DEF AgentOut, NotAllAgentSocksFull, poll_vars
    <2> HIDE DEF new
    <2> QED BY <1>0, <2>2, <2>3, EpollCtlClosed
  <1>4. ASSUME NEW j \in Agents, RecvHost(j)
        PROVE  FALSE
    <2>1. fd_poll' = fd_poll \/ Unregister(Host, CLOSED, FALSE)
      BY <1>4 DEF RecvHost, Exit, poll_vars, IInv, TypeOK, HostTypes, PeerStates
    <2> QED BY <1>0, <2>1, FdsApart, UnregisterClosed
  <1>5. ASSUME NEW j \in Agents, ResumeSend(j) \/ SendAgent(j)
        PROVE  FALSE
    <2>1. \/ fd_poll' = fd_poll
          \/ \E mask, next : SetPoll(j, mask, next) /\ (mask = CLOSED <=> fd_poll[j] = CLOSED)
          \/ fd_poll' = [fd_poll EXCEPT ![j] = OFF]
      <3>1. CASE ResumeSend(j)
        BY <3>1, FdsApart, MaskEffects DEF ResumeSend, Exit, poll_vars
      <3>2. CASE SendAgent(j)
        BY <3>2, FdsApart, MaskEffects
           DEF SendAgent, AgentAccepts, AgentBlocks, AgentSendFails, Unregister, Exit, poll_vars
      <3> QED BY <1>5, <3>1, <3>2
    <2>2. fd_poll' # [fd_poll EXCEPT ![j] = OFF]
      BY <1>0 DEF IInv, TypeOK, PollTypes, OFF, CLOSED
    <2> QED BY <1>0, <2>1, <2>2, FdsApart, SetPollClosed
  <1>6. ASSUME NEW j \in Agents, AgentIn(j)
        PROVE  j = i /\ peer[i] # "open" /\ avail'[i] = 0
    <2>1. PICK p : ReadPacket(j, p) \/ ((ReadEnds(j, p) \/ ReadFails(j, p)) /\ Take(j, Readable(j)))
      BY <1>6 DEF AgentIn, ReadBlocks, Exit, poll_vars
    <2>2. ~ReadPacket(j, p)
      <3> DEFINE mask == FullQueueMask(j, agent_packet_queue_count'[j])
      <3>1. ReadPacket(j, p) => \E next : SetPoll(j, mask, next)
        BY DEF ReadPacket
      <3>2. mask = CLOSED <=> fd_poll[j] = CLOSED
        BY FdsApart, MaskEffects
      <3> HIDE DEF mask
      <3> QED BY <1>0, <3>1, <3>2, FdsApart, SetPollClosed
    <2>3. /\ Reached(j) < PacketLen /\ peer[j] # "open" /\ Take(j, Readable(j))
          /\ \E mask, shut : Unregister(j, mask, shut)
      BY <2>1, <2>2 DEF ReadEnds, ReadFails, Broken, Exit, poll_vars
    <2>4. j = i
      BY <1>0, <2>3, FdsApart, UnregisterClosed
    <2>5. avail'[j] = avail[j] - Readable(j) /\ avail[j] \in Nat
      BY <2>3, Positive DEF Take, IInv, TypeOK, InboundTypes
    <2>6. Readable(j) = avail[j]
      <3>1. Progress(j) \in 0 .. PacketLen - 1
        BY ReadableType DEF IInv
      <3> QED BY <2>3, <2>5, <3>1, Positive DEF Readable, Reached, Lesser
    <2> QED BY <2>3, <2>4, <2>5, <2>6
  <1>7. ~HostOut
    <2>1. HostOut => SetPoll(Host, UnblockedMask(Host), "send_data_host")
      BY DEF HostOut
    <2> QED BY <1>0, <2>1, FdsApart, MaskEffects, SetPollClosed
  <1>8. ~SendHost
    <2> SUFFICES ASSUME SendHost PROVE FALSE
      OBVIOUS
    <2> DEFINE j == cursor.agent_id
    <2>1. j \in Fds
      BY FdsApart DEF SendHost, IInv, CursorInv
    <2>2. \/ fd_poll' = fd_poll
          \/ \E next : SetPoll(j, FreedQueueMask(j), next)
          \/ SetPoll(Host, BlockedMask(Host), "check")
          \/ Unregister(Host, CLOSED, TRUE)
      BY DEF SendHost, HostAccepts, HostCompletes, HostBlocks, HostSendFails, Exit, poll_vars
    <2> HIDE DEF j
    <2>3. FreedQueueMask(j) = CLOSED <=> fd_poll[j] = CLOSED
      BY <2>1, MaskEffects
    <2>4. ~Unregister(Host, CLOSED, TRUE)
      BY <1>0, FdsApart, UnregisterClosed
    <2>5. ~SetPoll(Host, BlockedMask(Host), "check")
      <3>1. BlockedMask(Host) = CLOSED <=> fd_poll[Host] = CLOSED
        BY FdsApart, MaskEffects
      <3> QED BY <1>0, <3>1, FdsApart, SetPollClosed
    <2>6. ~\E next : SetPoll(j, FreedQueueMask(j), next)
      BY <1>0, <2>1, <2>3, SetPollClosed
    <2> QED BY <2>2, <2>4, <2>5, <2>6
  <1>9. ~HostSide /\ ~RemoteSide /\ ~Ended /\ ~UNCHANGED vars
    BY DEF HostSide, HostWrites, HostReads, HostCloses, HostResets, RemoteSide, RemoteSends,
           Arrive, Drain, RemoteCloses, RemoteResets, Ended, process_vars, poll_vars, vars
  <1> QED BY <1>1, <1>2, <1>3, <1>4, <1>5, <1>6, <1>7, <1>8, <1>9 DEF Next, Outbound, Inbound

(* An agent socket whose mask is CLOSED while the host is not done has     *)
(* nothing to read, now and later.                                         *)
ReadOut ==
  Alive /\ fd_poll[Host] # CLOSED =>
    \A i \in Agents : fd_poll[i] = CLOSED => avail[i] = 0 /\ peer[i] # "open"

(* A host that is done has written nothing that was not read, unless its   *)
(* connection failed.                                                      *)
HostShut ==
  Alive =>
    /\ Host \in closed => fd_poll[Host] = CLOSED
    /\ fd_poll[Host] = CLOSED => host # "open" /\ (host = "fin" => host_in = 0)

(* A connection that the remote agent did not shut down is closed only     *)
(* when everything was sent on it.                                         *)
ShutAfterSending ==
  Alive => \A i \in Agents : fd_poll[i] = CLOSED /\ peer[i] = "open" => ~Pending(i) /\ i \in closed

(* The process ends in order because the host is done, or because all      *)
(* agent sockets are.                                                      *)
EndReason ==
  pc = "closed" =>
    IF fd_poll[Host] = CLOSED THEN host # "open" ELSE \A i \in Agents : peer[i] # "open"

EndInv == Covered /\ ReadOut /\ HostShut /\ ShutAfterSending /\ EndReason /\ OrderlyEnd

(* ReadOut is kept: only the remote agent, which has shut down the         *)
(* connection, could bring more.                                           *)
LEMMA NextReadOut ==
  ASSUME IInv, OrderInv, ReadOut, [Next]_vars
  PROVE  ReadOut'
  <1> SUFFICES ASSUME Alive', fd_poll'[Host] # CLOSED, NEW i \in Agents, fd_poll'[i] = CLOSED
               PROVE  avail'[i] = 0 /\ peer'[i] # "open"
    BY DEF ReadOut
  <1>1. Alive /\ fd_poll[Host] # CLOSED /\ (peer'[i] = "open" => peer[i] = "open")
    BY RunsOn, ClosedIsFinal, FdsApart, PeersMove DEF OrderInv
  <1>2. CASE fd_poll[i] # CLOSED
    <2>1. AgentIn(i) /\ peer[i] # "open" /\ avail'[i] = 0
      BY <1>1, <1>2, AgentBecomesClosed
    <2> QED BY <1>1, <2>1
  <1>3. CASE fd_poll[i] = CLOSED
    <2>1. avail[i] = 0 /\ peer[i] # "open"
      BY <1>1, <1>3 DEF ReadOut
    <2>2. ~AgentIn(i)
      BY <1>3, AgentInFills DEF OrderInv
    <2>3. avail'[i] = avail[i]
      <3>1. avail \in [Agents -> 0 .. RcvBuf]
        BY DEF IInv, TypeOK, InboundTypes
      <3>2. ASSUME NEW j \in Agents, AgentIn(j)
            PROVE  avail'[i] = avail[i]
        <4>1. j # i
          BY <2>2, <3>2
        <4> QED BY <3>1, <3>2, <4>1 DEF AgentIn, Take, inbound_vars
      <3>3. CASE RemoteSide
        <4>1. PICK j \in Agents : RemoteSends(j) \/ Arrive(j) \/ Drain(j) \/ RemoteCloses(j) \/ RemoteResets(j)
          BY <3>3 DEF RemoteSide
        <4>2. CASE Arrive(j)
          <5>1. j # i
            BY <2>1, <4>2 DEF Arrive
          <5> QED BY <3>1, <4>2, <5>1 DEF Arrive
        <4> QED BY <4>1, <4>2 DEF RemoteSends, Drain, RemoteCloses, RemoteResets, inbound_vars
      <3>4. RemoteSide \/ (\E j \in Agents : AgentIn(j)) \/ UNCHANGED inbound_vars
        BY DEF Next, Outbound, Inbound, HostSide, CheckClosed, HostIn, AgentOut, RecvHost, ResumeSend,
               SendAgent, AgentAccepts, AgentBlocks, AgentSendFails, HostOut, SendHost, HostWrites,
               HostReads, HostCloses, HostResets, Ended, vars
      <3> QED BY <3>2, <3>3, <3>4 DEF inbound_vars
    <2> QED BY <1>1, <2>1, <2>3
  <1> QED BY <1>2, <1>3

(* HostShut is kept: a host that is done writes no more.                   *)
LEMMA NextHostShut ==
  ASSUME IInv, OrderInv, HostShut, [Next]_vars
  PROVE  HostShut'
  <1> SUFFICES ASSUME Alive'
               PROVE  /\ Host \in closed' => fd_poll'[Host] = CLOSED
                      /\ fd_poll'[Host] = CLOSED => host' # "open" /\ (host' = "fin" => host_in' = 0)
    BY DEF HostShut
  <1>1. Alive
    BY RunsOn
  <1>2. ASSUME Host \in closed
        PROVE  fd_poll'[Host] = CLOSED
    BY <1>1, <1>2, ClosedIsFinal, FdsApart DEF OrderInv, HostShut
  <1>3. ASSUME Host \in closed', Host \notin closed
        PROVE  fd_poll'[Host] = CLOSED
    <2>1. ~CheckClosed
      BY <1>3, FdsApart DEF CheckClosed, Closable, Alive, Running
    <2>2. PICK f \in Fds, mask \in {OFF, CLOSED}, shut \in BOOLEAN : Unregister(f, mask, shut)
      BY <1>3, <2>1, PollSteps
    <2>3. f = Host /\ epoll[Host] # {} /\ fd_poll' = [fd_poll EXCEPT ![f] = mask]
      BY <1>3, <2>2 DEF Unregister
    <2>4. ~Outbound
      BY <1>3, FdsApart DEF Outbound, HostIn, AgentOut, RecvHost, ResumeSend, SendAgent, AgentAccepts,
         AgentBlocks, AgentSendFails, Unregister
    <2>5. \A i \in Agents : ~AgentIn(i)
      BY <1>3, FdsApart DEF AgentIn, ReadPacket, ReadBlocks, ReadEnds, ReadFails, Unregister
    <2>6. SendHost
      BY <1>3, <2>1, <2>4, <2>5 DEF Next, Inbound, HostOut, HostSide, HostWrites, HostReads, HostCloses,
         HostResets, RemoteSide, RemoteSends, Arrive, Drain, RemoteCloses, RemoteResets, Ended,
         process_vars, vars
    <2>7. Unregister(Host, CLOSED, TRUE)
      BY <1>3, <2>6 DEF SendHost, HostAccepts, HostBlocks, HostSendFails
    <2> QED BY <2>3, <2>7, FdsApart DEF Unregister, IInv, TypeOK, PollTypes
  <1>4. ASSUME fd_poll'[Host] = CLOSED
        PROVE  host' # "open" /\ (host' = "fin" => host_in' = 0)
    <2>1. CASE fd_poll[Host] # CLOSED
      BY <1>4, <2>1, HostBecomesClosed
    <2>2. CASE fd_poll[Host] = CLOSED
      <3>1. host # "open" /\ (host = "fin" => host_in = 0)
        BY <1>1, <2>2 DEF HostShut
      <3>2. host' # "open" /\ (host' = "fin" => host = "fin")
        BY <3>1, PeersMove
      <3>3. host_in' = host_in \/ host_in > 0
        BY <3>1 DEF Next, Outbound, Inbound, HostSide, RemoteSide, CheckClosed, HostIn, AgentOut, RecvHost,
           ResumeSend, SendAgent, AgentIn, HostOut, SendHost, HostWrites, HostReads, HostCloses,
           HostResets, RemoteSends, Arrive, Drain, RemoteCloses, RemoteResets, Ended, host_vars, vars
      <3> QED BY <3>1, <3>2, <3>3
    <2> QED BY <2>1, <2>2
  <1> QED BY <1>2, <1>3, <1>4

(* ShutAfterSending is kept: no chunk is read for a socket that is closed. *)
LEMMA NextShutAfterSending ==
  ASSUME IInv, OrderInv, OutInv, ShutAfterSending, [Next]_vars
  PROVE  ShutAfterSending'
  <1> SUFFICES ASSUME Alive', NEW i \in Agents, fd_poll'[i] = CLOSED, peer'[i] = "open"
               PROVE  ~Pending(i)' /\ i \in closed'
    BY DEF ShutAfterSending
  <1>1. Alive /\ peer[i] = "open" /\ closed \subseteq closed'
    BY RunsOn, ClosedIsFinal, PeersMove DEF OrderInv
  <1>2. CASE fd_poll[i] = CLOSED
    <2>1. ~Pending(i) /\ i \in closed
      BY <1>1, <1>2 DEF ShutAfterSending
    <2>2. ~Pending(i)'
      <3>1. ASSUME NEW j \in Agents, RecvHost(j)
            PROVE  ~Pending(i)'
        <4>1. j # i
          BY <2>1, <3>1 DEF RecvHost, OutInv, PickedOpen
        <4> QED BY <2>1, <3>1, <4>1 DEF RecvHost, send_vars, Pending, IInv, TypeOK, SendTypes
      <3>2. ASSUME NEW j \in Agents, SendAgent(j)
            PROVE  ~Pending(i)'
        <4>1. packet \in [Agents -> PacketState]
          BY DEF IInv, TypeOK, SendTypes
        <4>2. \/ packet' = packet
              \/ packet' = [packet EXCEPT ![j].host_packet_size = 0]
              \/ packet' = [packet EXCEPT ![j].host_sent_size = cursor.size_count]
          BY <3>2 DEF SendAgent, AgentAccepts, AgentBlocks, AgentSendFails, BlockedPacket
        <4> QED BY <2>1, <4>1, <4>2 DEF Pending, PacketState
      <3>3. CASE packet' = packet
        BY <2>1, <3>3 DEF Pending
      <3>4. packet' = packet \/ \E j \in Agents : RecvHost(j) \/ SendAgent(j)
        BY DEF Next, Outbound, Inbound, HostSide, RemoteSide, CheckClosed, HostIn, AgentOut,
           ResumeSend, AgentIn, HostOut, SendHost, HostWrites, HostReads, HostCloses,
           HostResets, RemoteSends, Arrive, Drain, RemoteCloses, RemoteResets, Ended, process_vars,
           send_vars, vars
      <3> QED BY <3>1, <3>2, <3>3, <3>4
    <2> QED BY <1>1, <2>1, <2>2
  <1>3. CASE fd_poll[i] # CLOSED
    <2>1. CheckClosed /\ ~Pending(i) /\ i \in closed'
      BY <1>1, <1>3, AgentBecomesClosed
    <2> QED BY <2>1 DEF CheckClosed, send_vars, Pending
  <1> QED BY <1>2, <1>3

(* While nothing is on its way and no slot is in use, everything that was  *)
(* numbered is with the host.                                              *)
LEMMA NothingLeft ==
  ASSUME IInv, OrderInv, UnitsInv, EndInv,
         pc = "check", fd_poll[Host] # CLOSED, ~InUse,
         \A i \in Agents : fd_poll[i] = CLOSED /\ InFlight(i) = 0
  PROVE  Len(delivered) = in_seq * PayloadLen
  <1>1. \A i \in Agents, p \in Slots : ~Read(i, p)
    BY DEF InUse, Read
  <1>2. "out" \notin fd_poll[Host]
    <2>1. PollTypes /\ OrderTypes
      BY DEF IInv, TypeOK
    <2> QED BY <1>1, <2>1 DEF OrderInv, BlockedNext, OrderTypes
  <1>3. Alive /\ Host \notin closed
    BY DEF EndInv, HostShut, Alive, Running
  <1>4. Len(delivered) = recv_seq * PayloadLen
    BY <1>1, <1>2, <1>3 DEF UnitsInv, BetweenPackets, WaitingFor
  <1>5. \A i \in Agents : inq[i] = <<>>
    <2> SUFFICES ASSUME NEW i \in Agents, inq[i] # <<>>
                 PROVE  FALSE
      OBVIOUS
    <2> DEFINE L == Len(inq[i])
               t == taken[i]
    <2>1. avail[i] = 0
      BY <1>3 DEF EndInv, ReadOut
    <2>2. L * PacketLen - t - avail[i] = 0
      BY DEF InFlight
    <2>3. L \in Nat \ {0} /\ t \in 0 .. PacketLen - 1
      <3>1. inq[i] \in Seq(Nat) /\ t \in 0 .. PacketLen - 1
        BY DEF IInv, TypeOK, InboundTypes
      <3> QED BY <3>1
    <2> HIDE DEF L, t
    <2>4. PacketLen \in Nat
      BY Positive
    <2>5. 1 * PacketLen <= L * PacketLen
      BY <2>3, <2>4, ProductMonotone
    <2>6. L * PacketLen \in Int
      BY <2>3, <2>4
    <2> QED BY <2>1, <2>2, <2>3, <2>4, <2>5, <2>6
  <1>6. recv_seq = in_seq
    <2>1. recv_seq \in Nat /\ in_seq \in Nat /\ recv_seq <= in_seq
      BY DEF IInv, TypeOK, OrderTypes, InboundTypes, OrderInv, StreamNumbers
    <2>2. ~OnSocket(recv_seq)
      BY <1>5 DEF OnSocket
    <2>3. ~InSlot(recv_seq)
      BY <1>1 DEF InSlot
    <2>4. ~(recv_seq < in_seq)
      BY <2>1, <2>2, <2>3 DEF EndInv, Covered
    <2> QED BY <2>1, <2>4
  <1> QED BY <1>4, <1>6

(* Only the top of the loop ends the process in order.                     *)
LEMMA OnlyCheckEnds ==
  ASSUME IInv, [Next]_vars, Alive, ~CheckClosed
  PROVE  pc' # "closed"
  <1> USE DEF Exit, SetPoll, EpollCtl, Unregister
  <1>1. HostIn => pc' # "closed"
    BY DEF HostIn, AllAgentsSocksFull
  <1>2. ASSUME NEW i \in Agents
        PROVE  AgentOut(i) \/ RecvHost(i) \/ ResumeSend(i) \/ SendAgent(i) \/ AgentIn(i)
                 => pc' # "closed"
    <2>1. RecvHost(i) => pc' # "closed"
      BY DEF RecvHost, IInv, TypeOK, HostTypes, PeerStates
    <2>2. AgentOut(i) \/ ResumeSend(i) => pc' # "closed"
      BY DEF AgentOut, NotAllAgentSocksFull, ResumeSend
    <2>3. SendAgent(i) => pc' # "closed"
      BY DEF SendAgent, AgentAccepts, AgentBlocks, AgentSendFails
    <2>4. AgentIn(i) => pc' # "closed"
      BY DEF AgentIn, ReadPacket, ReadBlocks, ReadEnds, ReadFails
    <2> QED BY <2>1, <2>2, <2>3, <2>4
  <1>3. HostOut => pc' # "closed"
    BY DEF HostOut
  <1>4. SendHost => pc' # "closed"
    BY DEF SendHost, HostAccepts, HostCompletes, HostBlocks, HostSendFails
  <1>5. HostSide \/ RemoteSide \/ Ended \/ UNCHANGED vars => UNCHANGED pc
    BY DEF HostSide, HostWrites, HostReads, HostCloses, HostResets, RemoteSide, RemoteSends,
           Arrive, Drain, RemoteCloses, RemoteResets, Ended, process_vars, vars
  <1> QED BY <1>1, <1>2, <1>3, <1>4, <1>5 DEF Next, Outbound, Inbound, Alive, Running

(* EndReason is kept: only the top of the loop ends the process.           *)
LEMMA NextEndReason ==
  ASSUME IInv, ReadOut, HostShut, EndReason, [Next]_vars
  PROVE  EndReason'
  <1>1. CASE ~Alive
    <2>1. UNCHANGED <<pc, fd_poll, host, peer>>
      BY <1>1, EndedStays DEF process_vars, poll_vars, host_vars
    <2> QED BY <2>1 DEF EndReason
  <1>2. CASE Alive /\ ~CheckClosed
    <2>1. pc' # "closed"
      BY <1>2, OnlyCheckEnds
    <2> QED BY <2>1 DEF EndReason
  <1>3. CASE CheckClosed
    <2>1. Alive /\ fd_poll'[Host] = fd_poll[Host] /\ UNCHANGED <<host, peer>>
      BY <1>3, FdsApart DEF CheckClosed, Alive, Running, host_vars
    <2>2. CASE fd_poll[Host] = CLOSED
      BY <2>1, <2>2 DEF HostShut, EndReason
    <2>3. CASE fd_poll[Host] # CLOSED
      <3>1. pc' = "closed" => \A i \in Agents : fd_poll[i] = CLOSED
        BY <1>3, <2>3 DEF CheckClosed
      <3> QED BY <2>1, <2>3, <3>1 DEF ReadOut, EndReason
    <2> QED BY <2>2, <2>3
  <1> QED BY <1>1, <1>2, <1>3

(* The step that ends the process in order leaves nothing behind.          *)
LEMMA NextOrderlyEnd ==
  ASSUME IInv, OrderInv, UnitsInv, EndInv, [Next]_vars
  PROVE  OrderlyEnd'
  <1>1. CASE ~Alive
    <2>1. UNCHANGED <<pc, fd_poll, delivered, host, host_in, peer, packet>>
      BY <1>1, EndedStays DEF process_vars, send_vars, poll_vars, host_vars
    <2>2. OrderlyEnd /\ \A i \in Agents : Pending(i)' <=> Pending(i)
      BY <2>1 DEF EndInv, Pending
    <2>3. CASE UNCHANGED inbound_vars
      <3>1. in_seq' = in_seq /\ \A i \in Agents : InFlight(i)' = InFlight(i)
        BY <2>3 DEF InFlight, inbound_vars
      <3> QED BY <2>1, <2>2, <3>1 DEF OrderlyEnd
    <2>4. ASSUME NEW i \in Agents, RemoteSends(i)
          PROVE  InFlight(i)' > 0
      <3>1. /\ inq \in [Agents -> Seq(Nat)] /\ taken[i] \in Nat /\ avail[i] \in Nat /\ in_seq \in Nat
            /\ taken[i] + avail[i] <= Len(inq[i]) * PacketLen
        BY DEF IInv, TypeOK, InboundTypes, StreamInv
      <3>2. Len(inq'[i]) = Len(inq[i]) + 1 /\ taken'[i] = taken[i] /\ avail'[i] = avail[i]
        BY <2>4, <3>1 DEF RemoteSends
      <3>3. PacketLen \in Nat \ {0} /\ Len(inq[i]) \in Nat
        BY <3>1, Positive DEF PacketLen
      <3>4. Len(inq'[i]) * PacketLen = Len(inq[i]) * PacketLen + PacketLen /\ Len(inq[i]) * PacketLen \in Nat
        BY <3>2, <3>3, NextProduct
      <3> QED BY <3>1, <3>2, <3>3, <3>4 DEF InFlight
    <2>5. ASSUME NEW i \in Agents, RemoteSends(i)
          PROVE  OrderlyEnd'
      <3>1. ~(\A j \in Agents : InFlight(j)' = 0)
        BY <2>4, <2>5
      <3> QED BY <2>1, <2>2, <3>1 DEF OrderlyEnd
    <2> QED BY <1>1, <2>3, <2>5, EndedStays
  <1>2. CASE Alive /\ ~CheckClosed
    <2>1. pc' # "closed"
      BY <1>2, OnlyCheckEnds
    <2> QED BY <2>1 DEF OrderlyEnd
  <1>3. CASE CheckClosed
    <2>1. /\ pc = "check" /\ fd_poll'[Host] = fd_poll[Host]
          /\ UNCHANGED <<delivered, in_seq, inq, taken, avail, host, host_in, peer, packet>>
      BY <1>3, FdsApart DEF CheckClosed, send_vars, host_vars, inbound_vars
    <2>2. \A i \in Agents : (InFlight(i)' <=> InFlight(i)) /\ (Pending(i)' <=> Pending(i))
      BY <2>1 DEF InFlight, Pending
    <2>3. ASSUME pc' = "closed", fd_poll'[Host] # CLOSED, \A i \in Agents : InFlight(i)' = 0
          PROVE  Len(delivered') = in_seq' * PayloadLen
      <3>1. ~InUse /\ \A i \in Agents : fd_poll[i] = CLOSED
        BY <1>3, <2>1, <2>3 DEF CheckClosed
      <3>2. \A i \in Agents : InFlight(i) = 0
        BY <2>1, <2>3 DEF InFlight
      <3> QED BY <2>1, <2>3, <3>1, <3>2, NothingLeft
    <2>4. ASSUME pc' = "closed", fd_poll'[Host] = CLOSED, host' = "fin",
                 \A i \in Agents : peer'[i] = "open"
          PROVE  host_in' = 0 /\ \A i \in Agents : ~Pending(i)'
      <3>1. Alive /\ fd_poll[Host] = CLOSED
        BY <2>1, <2>4 DEF Alive, Running
      <3>2. host_in = 0
        BY <2>1, <2>4, <3>1 DEF EndInv, HostShut
      <3>3. ASSUME NEW i \in Agents, Pending(i)
            PROVE  FALSE
        <4>1. fd_poll[i] = CLOSED
          BY <1>3, <2>4, <3>1, <3>3 DEF CheckClosed, Closable
        <4> QED BY <2>1, <2>4, <3>1, <3>3, <4>1 DEF EndInv, ShutAfterSending
      <3> QED BY <2>1, <2>2, <3>2, <3>3
    <2> QED BY <2>3, <2>4 DEF OrderlyEnd
  <1> QED BY <1>1, <1>2, <1>3

(* EndInv is inductive, given what holds throughout.                       *)
LEMMA NextEnd ==
  ASSUME IInv, OrderInv, UnitsInv, OutInv, EndInv, [Next]_vars
  PROVE  EndInv'
  BY NextCovered, NextReadOut, NextHostShut, NextShutAfterSending, NextEndReason, NextOrderlyEnd DEF EndInv

(* A process that starts has lost nothing.                                 *)
LEMMA InitEnd ==
  ASSUME Init
  PROVE  EndInv
  <1>1. /\ pc = "check" /\ closed = {} /\ recv_seq = 0 /\ in_seq = 0
        /\ \A f \in Fds : fd_poll[f] = POLLIN
    BY DEF Init
  <1>2. POLLIN # CLOSED
    BY DEF POLLIN, CLOSED
  <1>3. Covered
    BY <1>1 DEF Covered
  <1> QED BY <1>1, <1>2, <1>3, FdsApart DEF EndInv, ReadOut, HostShut, ShutAfterSending, EndReason, OrderlyEnd

(* What the end rests on holds throughout.                                 *)
THEOREM EndsInOrder == Spec => []EndInv
  <1>1. DeliveryInv => IInv /\ OrderInv /\ UnitsInv
    BY DEF DeliveryInv
  <1>2. Init => EndInv
    BY InitEnd
  <1>3. IInv /\ OrderInv /\ UnitsInv /\ OutInv /\ EndInv /\ [Next]_vars => EndInv'
    BY NextEnd
  <1> QED BY <1>1, <1>2, <1>3, Delivery, Outgoing, PTL DEF Spec

(* The orderly end loses nothing: when the remote agent closed first the   *)
(* host has every packet that arrived, when the host closed first and no   *)
(* connection failed every chunk it wrote is on a socket                   *)
(* (poll.c:372-412).                                                       *)
THEOREM NothingLostAtEnd == Spec => []OrderlyEnd
  <1>1. EndInv => OrderlyEnd
    BY DEF EndInv
  <1> QED BY <1>1, EndsInOrder, PTL

-----------------------------------------------------------------------------
(* One branch of send_data_host.                                           *)

(* The host socket is found not pollable only by a process that has a      *)
(* packet for the host.                                                    *)
LEMMA NotPollableAfterPacket ==
  ASSUME IInv, OrderInv, [Next]_vars, in_seq = 0, pc # "host_not_pollable"
  PROVE  pc' # "host_not_pollable"
  <1> USE DEF Exit, SetPoll, EpollCtl, Unregister
  <1>1. CheckClosed \/ HostIn \/ HostOut => pc' # "host_not_pollable"
    BY DEF CheckClosed, HostIn, AllAgentsSocksFull, HostOut
  <1>2. ASSUME NEW i \in Agents
        PROVE  AgentOut(i) \/ RecvHost(i) \/ ResumeSend(i) \/ SendAgent(i) \/ AgentIn(i)
                 => pc' # "host_not_pollable"
    <2>1. RecvHost(i) => pc' # "host_not_pollable"
      BY DEF RecvHost, IInv, TypeOK, HostTypes, PeerStates
    <2>2. AgentOut(i) \/ ResumeSend(i) => pc' # "host_not_pollable"
      BY DEF AgentOut, NotAllAgentSocksFull, ResumeSend
    <2>3. SendAgent(i) => pc' # "host_not_pollable"
      BY DEF SendAgent, AgentAccepts, AgentBlocks, AgentSendFails
    <2>4. AgentIn(i) => pc' # "host_not_pollable"
      BY DEF AgentIn, ReadPacket, ReadBlocks, ReadEnds, ReadFails
    <2> QED BY <2>1, <2>2, <2>3, <2>4
  <1>3. ~SendHost
    <2> SUFFICES ASSUME SendHost
                 PROVE  FALSE
      OBVIOUS
    <2> DEFINE i == cursor.agent_id
               p == cursor.packet_index
    <2>1. i \in Agents /\ p \in Slots
      BY DEF SendHost, IInv, CursorInv, TypeOK, ControlTypes, Cursor
    <2>2. Read(i, p) /\ Number(i, p) = recv_seq
      BY DEF SendHost, OrderInv, SendingNext
    <2>3. Number(i, p) < in_seq
      BY <2>1, <2>2 DEF OrderInv, SlotNumbers
    <2>4. recv_seq \in Nat
      BY DEF IInv, TypeOK, OrderTypes
    <2> QED BY <2>2, <2>3, <2>4
  <1>4. HostSide \/ RemoteSide \/ Ended \/ UNCHANGED vars => UNCHANGED pc
    BY DEF HostSide, HostWrites, HostReads, HostCloses, HostResets, RemoteSide, RemoteSends,
           Arrive, Drain, RemoteCloses, RemoteResets, Ended, process_vars, vars
  <1> QED BY <1>1, <1>2, <1>3, <1>4 DEF Next, Outbound, Inbound

=============================================================================
