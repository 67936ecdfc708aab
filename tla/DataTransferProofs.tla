------------------------- MODULE DataTransferProofs -------------------------
(***************************************************************************)
(* Theorems about the data-transfer process, for every set of agents and   *)
(* every size of packets, queues and buffers.  They come in four parts,    *)
(* each with an invariant that rests on those before it: the types and the *)
(* poll masks (IInv), where the packets of the inbound direction are       *)
(* (OrderInv), what the host gets of them (UnitsInv), and the packets of   *)
(* the outbound direction (OutInv).                                        *)
(*                                                                         *)
(* IInv: the types, the agreement of the masks, and three facts that       *)
(* neither implies but the steps need.  First comes what the steps do to   *)
(* the poll masks, and to the packets whose progress depends on them:      *)
(* EpollCtl, SetPoll and Unregister are the only ways a mask changes, so   *)
(* each gets a lemma, and each handler is the case analysis that finds     *)
(* which of them it calls.                                                 *)
(***************************************************************************)
EXTENDS DataTransfer, WellFoundedInduction, SequenceTheorems, FiniteSetTheorems, TLAPS

-----------------------------------------------------------------------------
(* The cached masks and the interest list.                                 *)

(* They agree in the model because each change goes through the operators  *)
(* below; the steps need it.                                               *)
PollMatchesEpoll == Alive => \A f \in Fds : epoll[f] = fd_poll[f] \ CLOSED

MaskInv == PollTypes /\ PollMatchesEpoll

(* While a send is under way the cursor names the packet it is sending; a  *)
(* host socket polled for output has one to resume.                        *)
CursorInv ==
  /\ pc \in {"send_agent", "send_data_host"} => cursor.agent_id \in Agents
  /\ pc = "send_agent" => Pending(cursor.agent_id)
  /\ pc = "send_data_host" => cursor.size_count <= PayloadLen
  /\ Alive /\ "out" \in fd_poll[Host] => host_side_agent_id \in Agents

(* EpollCtl, the body every mask change of the code shares, sets both to   *)
(* the new masks or ends the process.                                      *)
LEMMA EpollCtlKeepsMasks ==
  ASSUME MaskInv, Alive,
         NEW new \in [Fds -> PollStates], NEW next, EpollCtl(new, next)
  PROVE  MaskInv'
  <1>1. PollTypes'
    BY DEF MaskInv, PollTypes, EpollCtl, PollStates, OFF, POLLIN, POLLOUT, INAndOut, CLOSED, poll_vars
  <1>2. PollMatchesEpoll'
    BY DEF MaskInv, PollTypes, PollMatchesEpoll, EpollCtl, Alive, Running, poll_vars
  <1> QED BY <1>1, <1>2 DEF MaskInv

(* Unregister takes a socket off the interest list and caches a mask that  *)
(* says so.                                                                *)
LEMMA UnregisterKeepsMasks ==
  ASSUME MaskInv, Alive,
         NEW f \in Fds, NEW mask \in {OFF, CLOSED}, NEW shut, Unregister(f, mask, shut)
  PROVE  MaskInv'
  BY DEF MaskInv, PollTypes, PollMatchesEpoll, Unregister, Alive, Running, poll_vars,
         PollStates, OFF, CLOSED

(* A step that leaves both alone, wherever the process goes.               *)
LEMMA UnchangedKeepsMasks ==
  ASSUME MaskInv, Alive, UNCHANGED poll_vars
  PROVE  MaskInv'
  BY DEF MaskInv, PollTypes, PollMatchesEpoll, Alive, poll_vars

(* A change of one mask.                                                   *)
LEMMA SetPollKeepsMasks ==
  ASSUME MaskInv, Alive,
         NEW f \in Fds, NEW mask \in PollStates, NEW next, SetPoll(f, mask, next)
  PROVE  MaskInv'
  <1>1. [fd_poll EXCEPT ![f] = mask] \in [Fds -> PollStates]
    BY DEF MaskInv, PollTypes
  <1>2. EpollCtl([fd_poll EXCEPT ![f] = mask], next)
    BY DEF SetPoll
  <1> QED BY <1>1, <1>2, EpollCtlKeepsMasks

(* Every mask a handler computes is one of the five.                       *)
LEMMA MasksArePollStates ==
  ASSUME PollTypes
  PROVE  /\ \A f \in Fds : FullMask(f) \in PollStates
         /\ \A f \in Fds : NotFullMask(f) \in PollStates
         /\ \A f \in Fds : BlockedMask(f) \in PollStates
         /\ \A f \in Fds : UnblockedMask(f) \in PollStates
         /\ \A f \in Fds : FreedQueueMask(f) \in PollStates
         /\ \A n : \A f \in Fds : FullQueueMask(f, n) \in PollStates
  <1> USE DEF PollTypes, PollStates, OFF, POLLIN, POLLOUT, INAndOut, CLOSED
  <1>1. \A f \in Fds : FullMask(f) \in PollStates
    BY DEF FullMask
  <1>2. \A f \in Fds : NotFullMask(f) \in PollStates
    BY DEF NotFullMask
  <1>3. \A f \in Fds : BlockedMask(f) \in PollStates
    BY DEF BlockedMask
  <1>4. \A f \in Fds : UnblockedMask(f) \in PollStates
    BY DEF UnblockedMask
  <1>5. \A f \in Fds : FreedQueueMask(f) \in PollStates
    BY DEF FreedQueueMask
  <1>6. \A n : \A f \in Fds : FullQueueMask(f, n) \in PollStates
    BY DEF FullQueueMask
  <1> QED BY <1>1, <1>2, <1>3, <1>4, <1>5, <1>6

(* The handlers of the outbound direction keep the masks in agreement.     *)
LEMMA OutboundKeepsMasks ==
  ASSUME MaskInv, TypeOK, Outbound
  PROVE  MaskInv'
  <1> USE DEF MaskInv
  <1>1. CASE HostIn
    <2>1. Alive
      BY <1>1 DEF HostIn, Alive, Running
    <2>2. CASE UNCHANGED poll_vars
      BY <2>1, <2>2, UnchangedKeepsMasks
    <2>3. CASE AllAgentsSocksFull
      <3>1. [f \in Fds |-> FullMask(f)] \in [Fds -> PollStates]
        BY MasksArePollStates
      <3> QED BY <2>1, <2>3, <3>1, EpollCtlKeepsMasks DEF AllAgentsSocksFull
    <2> QED BY <1>1, <2>2, <2>3 DEF HostIn, Exit
  <1>2. CASE \E i \in Agents : AgentOut(i)
    <2>1. Alive
      BY <1>2 DEF AgentOut, Alive, Running
    <2>2. CASE UNCHANGED poll_vars
      BY <2>1, <2>2, UnchangedKeepsMasks
    <2>3. CASE NotAllAgentSocksFull
      <3>1. [f \in Fds |-> NotFullMask(f)] \in [Fds -> PollStates]
        BY MasksArePollStates
      <3> QED BY <2>1, <2>3, <3>1, EpollCtlKeepsMasks DEF NotAllAgentSocksFull
    <2> QED BY <1>2, <2>2, <2>3 DEF AgentOut
  <1>3. CASE \E i \in Agents : RecvHost(i)
    <2>1. Alive
      BY <1>3 DEF RecvHost, Alive, Running
    <2>2. CASE UNCHANGED poll_vars
      BY <2>1, <2>2, UnchangedKeepsMasks
    <2>3. CASE Unregister(Host, CLOSED, FALSE)
      BY <2>1, <2>3, UnregisterKeepsMasks DEF Fds
    <2> QED BY <1>3, <2>2, <2>3 DEF RecvHost, Exit, TypeOK, HostTypes, PeerStates
  <1>4. CASE \E i \in Agents : ResumeSend(i)
    <2> PICK i \in Agents : ResumeSend(i)
      BY <1>4
    <2>1. Alive
      BY DEF ResumeSend, Alive, Running
    <2>2. CASE UNCHANGED poll_vars
      BY <2>1, <2>2, UnchangedKeepsMasks
    <2>3. CASE SetPoll(i, UnblockedMask(i), "send_agent")
      BY <2>1, <2>3, SetPollKeepsMasks, MasksArePollStates DEF Fds
    <2> QED BY <2>2, <2>3 DEF ResumeSend, Exit
  <1>5. CASE \E i \in Agents : SendAgent(i)
    <2> PICK i \in Agents : SendAgent(i)
      BY <1>5
    <2>1. Alive
      BY DEF SendAgent, Alive, Running
    <2>2. CASE UNCHANGED poll_vars
      BY <2>1, <2>2, UnchangedKeepsMasks
    <2>3. CASE SetPoll(i, BlockedMask(i), "check")
      BY <2>1, <2>3, SetPollKeepsMasks, MasksArePollStates DEF Fds
    <2>4. CASE Unregister(i, OFF, TRUE)
      BY <2>1, <2>4, UnregisterKeepsMasks DEF Fds
    <2> QED BY <2>2, <2>3, <2>4 DEF SendAgent, AgentAccepts, AgentBlocks, AgentSendFails, Exit
  <1> QED BY <1>1, <1>2, <1>3, <1>4, <1>5 DEF Outbound

(* So do those of the inbound direction; the socket that HostCompletes     *)
(* polls again is the one the cursor names.                                *)
LEMMA InboundKeepsMasks ==
  ASSUME MaskInv, CursorInv, Inbound
  PROVE  MaskInv'
  <1> USE DEF MaskInv
  <1>1. CASE \E i \in Agents : AgentIn(i)
    <2> PICK i \in Agents : AgentIn(i)
      BY <1>1
    <2>1. Alive
      BY DEF AgentIn, Alive, Running
    <2>2. CASE UNCHANGED poll_vars
      BY <2>1, <2>2, UnchangedKeepsMasks
    <2>3. CASE \E shut \in BOOLEAN : Unregister(i, CLOSED, shut)
      BY <2>1, <2>3, UnregisterKeepsMasks DEF Fds
    <2>4. ASSUME NEW p, ReadPacket(i, p)
          PROVE  MaskInv'
      <3> DEFINE mask == FullQueueMask(i, agent_packet_queue_count'[i])
      <3>1. mask \in PollStates
        BY MasksArePollStates DEF Fds
      <3>2. \E next : SetPoll(i, mask, next)
        BY <2>4 DEF ReadPacket
      <3> HIDE DEF mask
      <3> QED BY <2>1, <3>1, <3>2, SetPollKeepsMasks DEF Fds
    <2> QED BY <2>2, <2>3, <2>4 DEF AgentIn, ReadBlocks, ReadEnds, ReadFails, Exit
  <1>2. CASE HostOut
    <2>1. Alive
      BY <1>2 DEF HostOut, Alive, Running
    <2>2. SetPoll(Host, UnblockedMask(Host), "send_data_host")
      BY <1>2 DEF HostOut
    <2> QED BY <2>1, <2>2, SetPollKeepsMasks, MasksArePollStates DEF Fds
  <1>3. CASE SendHost
    <2> DEFINE i == cursor.agent_id
    <2>1. Alive
      BY <1>3 DEF SendHost, Alive, Running
    <2>2. CASE UNCHANGED poll_vars
      BY <2>1, <2>2, UnchangedKeepsMasks
    <2>3. CASE \E next : SetPoll(i, FreedQueueMask(i), next)
      <3>1. i \in Fds
        BY <1>3 DEF SendHost, CursorInv, Fds
      <3> QED BY <2>1, <2>3, <3>1, SetPollKeepsMasks, MasksArePollStates
    <2>4. CASE SetPoll(Host, BlockedMask(Host), "check")
      BY <2>1, <2>4, SetPollKeepsMasks, MasksArePollStates DEF Fds
    <2>5. CASE Unregister(Host, CLOSED, TRUE)
      BY <2>1, <2>5, UnregisterKeepsMasks DEF Fds
    <2> QED BY <1>3, <2>2, <2>3, <2>4, <2>5
            DEF SendHost, HostAccepts, HostCompletes, HostBlocks, HostSendFails, Exit
  <1> QED BY <1>1, <1>2, <1>3 DEF Inbound

(* One step of the process or of its environment.                          *)
LEMMA NextKeepsMasks ==
  ASSUME MaskInv, TypeOK, CursorInv, [Next]_vars
  PROVE  MaskInv'
  <1>1. CASE CheckClosed
    <2>1. Alive
      BY <1>1 DEF CheckClosed, Alive, Running
    <2>2. PollTypes'
      BY <1>1 DEF CheckClosed, MaskInv, PollTypes, PollStates, CLOSED, Fds, Closable
    <2>3. PollMatchesEpoll'
      BY <1>1, <2>1 DEF CheckClosed, MaskInv, PollTypes, PollMatchesEpoll, Alive, Running, CLOSED, Fds, Closable
    <2> QED BY <2>2, <2>3 DEF MaskInv
  <1>2. CASE Outbound
    BY <1>2, OutboundKeepsMasks
  <1>3. CASE Inbound
    BY <1>3, InboundKeepsMasks
  <1>4. CASE UNCHANGED <<pc, poll_vars>>
    BY <1>4 DEF MaskInv, PollTypes, PollMatchesEpoll, Alive, poll_vars
  <1>5. HostSide \/ RemoteSide \/ Ended \/ UNCHANGED vars => UNCHANGED <<pc, poll_vars>>
    BY DEF HostSide, HostWrites, HostReads, HostCloses, HostResets, RemoteSide, RemoteSends,
           Arrive, Drain, RemoteCloses, RemoteResets, Ended, process_vars, vars
  <1> QED BY <1>1, <1>2, <1>3, <1>4, <1>5 DEF Next

-----------------------------------------------------------------------------
(* Pending packets.                                                        *)

(* A packet that waits on socket i is not forgotten: the socket is polled  *)
(* for output, it is closed, or the handler that runs is sending it.       *)
Remembered(i) ==
  \/ "out" \in fd_poll[i]
  \/ fd_poll[i] = CLOSED
  \/ i \in closed
  \/ pc = "send_agent" /\ cursor.agent_id = i

PendingInv == Alive => \A i \in Agents : Pending(i) => Remembered(i)

(* What a successful change of masks leaves.                               *)
LEMMA EpollCtlSets ==
  ASSUME NEW new, NEW next, EpollCtl(new, next), Alive'
  PROVE  fd_poll' = new /\ pc' = next
  BY DEF EpollCtl, Alive, Running

(* The same for one mask.                                                  *)
LEMMA SetPollSets ==
  ASSUME NEW f, NEW mask, NEW next, SetPoll(f, mask, next), Alive'
  PROVE  fd_poll' = [fd_poll EXCEPT ![f] = mask] /\ pc' = next
  BY EpollCtlSets DEF SetPoll

(* A step that leaves packet j, does not close its socket and does not     *)
(* stop polling it for output, when no send is under way.                  *)
LEMMA StillRemembered ==
  ASSUME PendingInv, Alive, NEW j \in Agents, Pending(j)',
         packet'[j] = packet[j], closed \subseteq closed',
         pc = "send_agent" => cursor.agent_id # j,
         "out" \in fd_poll[j] => "out" \in fd_poll'[j],
         fd_poll[j] = CLOSED => fd_poll'[j] = CLOSED
  PROVE  Remembered(j)'
  BY DEF PendingInv, Pending, Remembered

(* The outbound handlers: the one that drops POLLOUT goes on to send.      *)
LEMMA OutboundKeepsPending ==
  ASSUME TypeOK, CursorInv, PendingInv, Outbound, Alive',
         NEW j \in Agents, Pending(j)'
  PROVE  Remembered(j)'
  <1> j # Host /\ j \in Fds /\ fd_poll[j] \in PollStates
    BY TransferAssumption DEF Fds, TypeOK, PollTypes
  <1>1. CASE HostIn
    <2>1. pc = "wait" /\ packet' = packet /\ closed' = closed
      BY <1>1 DEF HostIn, send_vars
    <2>2. CASE fd_poll' = fd_poll
      BY <2>1, <2>2, StillRemembered DEF Alive, Running
    <2>3. CASE AllAgentsSocksFull
      <3>1. fd_poll'[j] = FullMask(j)
        BY <2>3, EpollCtlSets DEF AllAgentsSocksFull
      <3> QED BY <2>1, <3>1, StillRemembered
              DEF FullMask, Alive, Running, PollStates, OFF, POLLIN, POLLOUT, INAndOut, CLOSED
    <2> QED BY <1>1, <2>2, <2>3 DEF HostIn, Exit, poll_vars
  <1>2. CASE \E i \in Agents : AgentOut(i)
    <2>1. pc = "wait" /\ packet' = packet /\ closed' = closed
      BY <1>2 DEF AgentOut, send_vars
    <2>2. CASE fd_poll' = fd_poll
      BY <2>1, <2>2, StillRemembered DEF Alive, Running
    <2>3. CASE NotAllAgentSocksFull
      <3>1. fd_poll'[j] = NotFullMask(j)
        BY <2>3, EpollCtlSets DEF NotAllAgentSocksFull
      <3>2. fd_poll'[j] = fd_poll[j]
        BY <2>1, <3>1 DEF NotFullMask, Pending
      <3> QED BY <2>1, <3>2, StillRemembered DEF Alive, Running
    <2> QED BY <1>2, <2>2, <2>3 DEF AgentOut, poll_vars
  <1>3. ASSUME NEW i \in Agents, RecvHost(i)
        PROVE  Remembered(j)'
    <2>1. CASE pc' = "send_agent"
      <3>1. closed' = closed /\ fd_poll' = fd_poll /\ cursor' = cursor /\ cursor.agent_id = i
        BY <1>3, <2>1 DEF RecvHost, Exit, Unregister, PeerStates, TypeOK, HostTypes, poll_vars
      <3>2. CASE j = i
        BY <2>1, <3>1, <3>2 DEF Remembered
      <3>3. CASE j # i
        <4>1. packet'[j] = packet[j]
          BY <1>3, <3>3 DEF RecvHost, send_vars, TypeOK, SendTypes
        <4> QED BY <1>3, <3>1, <4>1, StillRemembered DEF RecvHost, Alive, Running
      <3> QED BY <3>2, <3>3
    <2>2. CASE pc' # "send_agent"
      <3>1. packet' = packet /\ closed' = closed /\ pc = "read_host_send_agent"
        BY <1>3, <2>2 DEF RecvHost, send_vars
      <3>2. fd_poll' = fd_poll \/ fd_poll' = [fd_poll EXCEPT ![Host] = CLOSED]
        BY <1>3, <2>2 DEF RecvHost, Exit, Unregister, PeerStates, TypeOK, HostTypes, poll_vars
      <3>3. fd_poll'[j] = fd_poll[j]
        BY <3>2 DEF TypeOK, PollTypes
      <3> QED BY <3>1, <3>3, StillRemembered DEF Alive, Running
    <2> QED BY <2>1, <2>2
  <1>4. ASSUME NEW i \in Agents, ResumeSend(i)
        PROVE  Remembered(j)'
    <2>1. SetPoll(i, UnblockedMask(i), "send_agent")
      BY <1>4 DEF ResumeSend, Exit, Alive, Running
    <2>2. fd_poll' = [fd_poll EXCEPT ![i] = UnblockedMask(i)] /\ pc' = "send_agent"
      BY <2>1, SetPollSets
    <2>3. CASE j = i
      BY <1>4, <2>2, <2>3 DEF ResumeSend, Remembered, TypeOK, ControlTypes, Cursor
    <2>4. CASE j # i
      <3>1. fd_poll'[j] = fd_poll[j]
        BY <2>2, <2>4 DEF TypeOK, PollTypes
      <3> QED BY <1>4, <2>4, <3>1, StillRemembered DEF ResumeSend, send_vars, Alive, Running
    <2> QED BY <2>3, <2>4
  <1>5. ASSUME NEW i \in Agents, SendAgent(i)
        PROVE  Remembered(j)'
    <2>1. pc = "send_agent" /\ cursor.agent_id = i
      BY <1>5 DEF SendAgent
    <2>2. CASE j # i
      <3>1. packet'[j] = packet[j]
        BY <1>5, <2>2 DEF SendAgent, AgentAccepts, AgentBlocks, AgentSendFails, BlockedPacket, TypeOK, SendTypes
      <3>2. closed \subseteq closed' /\ fd_poll'[j] = fd_poll[j]
        <4>1. CASE AgentAccepts(i)
          BY <4>1 DEF AgentAccepts, poll_vars
        <4>2. CASE AgentBlocks(i)
          BY <2>2, <4>2, SetPollSets DEF AgentBlocks, TypeOK, PollTypes
        <4>3. CASE AgentSendFails(i)
          BY <2>2, <4>3 DEF AgentSendFails, Unregister, Exit, poll_vars, TypeOK, PollTypes
        <4> QED BY <1>5, <4>1, <4>2, <4>3 DEF SendAgent
      <3> QED BY <2>1, <2>2, <3>1, <3>2, StillRemembered DEF Alive, Running
    <2>3. CASE j = i /\ AgentAccepts(i)
      <3>1. CASE packet' = [packet EXCEPT ![i].host_packet_size = 0]
        BY <2>3, <3>1 DEF Pending, TypeOK, SendTypes, PacketState
      <3>2. CASE pc' = pc /\ \E n : cursor' = [cursor EXCEPT !.size_count = n]
        BY <2>1, <2>3, <3>2 DEF Remembered, TypeOK, ControlTypes, Cursor
      <3> QED BY <2>3, <3>1, <3>2 DEF AgentAccepts
    <2>4. CASE j = i /\ AgentBlocks(i)
      <3>1. fd_poll'[i] = BlockedMask(i)
        BY <2>4, SetPollSets DEF AgentBlocks, TypeOK, PollTypes, Fds
      <3> QED BY <2>4, <3>1 DEF BlockedMask, Remembered, PollStates, OFF, POLLIN, POLLOUT, INAndOut
    <2>5. CASE j = i /\ AgentSendFails(i)
      BY <2>5 DEF AgentSendFails, Unregister, Exit, Remembered, Alive, Running
    <2> QED BY <1>5, <2>2, <2>3, <2>4, <2>5 DEF SendAgent
  <1> QED BY <1>1, <1>2, <1>3, <1>4, <1>5 DEF Outbound

(* The inbound handlers never touch the output half of an agent's mask,    *)
(* except where they close the socket.                                     *)
LEMMA InboundKeepsPending ==
  ASSUME TypeOK, CursorInv, PendingInv, Inbound, Alive',
         NEW j \in Agents, Pending(j)'
  PROVE  Remembered(j)'
  <1> j # Host /\ j \in Fds /\ fd_poll[j] \in PollStates
    BY TransferAssumption DEF Fds, TypeOK, PollTypes
  <1>1. packet' = packet /\ pc \in {"wait", "send_data_host"}
    BY DEF Inbound, AgentIn, HostOut, SendHost, send_vars
  <1>2. ASSUME closed \subseteq closed', fd_poll'[j] = fd_poll[j]
        PROVE  Remembered(j)'
    BY <1>1, <1>2, StillRemembered DEF Alive, Running
  <1>3. ASSUME NEW i \in Agents, AgentIn(i)
        PROVE  Remembered(j)'
    <2>1. CASE UNCHANGED <<poll_vars, closed>>
      BY <1>2, <2>1 DEF poll_vars
    <2>2. ASSUME NEW p, ReadPacket(i, p)
          PROVE  Remembered(j)'
      <3> DEFINE mask == FullQueueMask(i, agent_packet_queue_count'[i])
      <3>1. \E next : SetPoll(i, mask, next)
        BY <2>2 DEF ReadPacket
      <3>2. fd_poll' = [fd_poll EXCEPT ![i] = mask]
        BY <3>1, SetPollSets
      <3>3. /\ "out" \in fd_poll[j] => "out" \in fd_poll'[j]
            /\ fd_poll[j] = CLOSED => fd_poll'[j] = CLOSED
        BY <3>2 DEF FullQueueMask, TypeOK, PollTypes, CLOSED, POLLIN
      <3> QED BY <1>1, <2>2, <3>3, StillRemembered DEF ReadPacket, Alive, Running
    <2>3. CASE \E shut \in BOOLEAN : Unregister(i, CLOSED, shut)
      <3>1. closed \subseteq closed' /\ fd_poll' = [fd_poll EXCEPT ![i] = CLOSED]
        BY <2>3 DEF Unregister, Alive, Running
      <3>2. fd_poll'[j] = fd_poll[j] \/ fd_poll'[j] = CLOSED
        BY <3>1 DEF TypeOK, PollTypes
      <3> QED BY <1>2, <3>1, <3>2 DEF Remembered
    <2> QED BY <1>3, <2>1, <2>2, <2>3 DEF AgentIn, ReadBlocks, ReadEnds, ReadFails, Exit
  <1>4. CASE HostOut
    <2>1. fd_poll' = [fd_poll EXCEPT ![Host] = UnblockedMask(Host)]
      BY <1>4, SetPollSets DEF HostOut
    <2>2. fd_poll'[j] = fd_poll[j]
      BY <2>1 DEF TypeOK, PollTypes
    <2> QED BY <1>2, <1>4, <2>2 DEF HostOut
  <1>5. CASE SendHost
    <2> DEFINE i == cursor.agent_id
    <2>1. CASE UNCHANGED <<poll_vars, closed>>
      BY <1>2, <2>1 DEF poll_vars
    <2>2. CASE Unregister(Host, CLOSED, TRUE)
      BY <1>2, <2>2 DEF Unregister, Alive, Running, TypeOK, PollTypes
    <2>3. ASSUME NEW next, SetPoll(i, FreedQueueMask(i), next), closed' = closed
          PROVE  Remembered(j)'
      <3>1. fd_poll' = [fd_poll EXCEPT ![i] = FreedQueueMask(i)]
        BY <2>3, SetPollSets
      <3>2. /\ "out" \in fd_poll[j] => "out" \in fd_poll'[j]
            /\ fd_poll[j] = CLOSED => fd_poll'[j] = CLOSED
        BY <3>1 DEF FreedQueueMask, TypeOK, PollTypes, CLOSED, POLLIN, POLLOUT, OFF
      <3> QED BY <1>1, <2>3, <3>2, StillRemembered DEF Alive, Running
    <2>4. CASE SetPoll(Host, BlockedMask(Host), "check") /\ closed' = closed
      <3>1. fd_poll' = [fd_poll EXCEPT ![Host] = BlockedMask(Host)]
        BY <2>4, SetPollSets
      <3> QED BY <1>2, <2>4, <3>1 DEF TypeOK, PollTypes
    <2> QED BY <1>5, <2>1, <2>2, <2>3, <2>4
            DEF SendHost, HostAccepts, HostCompletes, HostBlocks, HostSendFails, Exit
  <1> QED BY <1>3, <1>4, <1>5 DEF Inbound

(* Any step.                                                               *)
LEMMA NextKeepsPending ==
  ASSUME TypeOK, CursorInv, PendingInv, [Next]_vars
  PROVE  PendingInv'
  <1> SUFFICES ASSUME Alive', NEW j \in Agents, Pending(j)'
               PROVE  Remembered(j)'
    BY DEF PendingInv
  <1>1. CASE CheckClosed
    <2> j # Host /\ j \in Fds
      BY TransferAssumption DEF Fds
    <2> QED BY <1>1 DEF CheckClosed, Closable, PendingInv, Remembered, Alive, Running, Pending,
                        CLOSED, TypeOK, PollTypes, send_vars
  <1>2. CASE Outbound
    BY <1>2, OutboundKeepsPending
  <1>3. CASE Inbound
    BY <1>3, InboundKeepsPending
  <1>4. CASE UNCHANGED <<pc, cursor, packet, fd_poll, closed>>
    BY <1>4 DEF PendingInv, Remembered, Alive, Pending
  <1>5. HostSide \/ RemoteSide \/ Ended \/ UNCHANGED vars =>
          UNCHANGED <<pc, cursor, packet, fd_poll, closed>>
    BY DEF HostSide, HostWrites, HostReads, HostCloses, HostResets, RemoteSide, RemoteSends,
           Arrive, Drain, RemoteCloses, RemoteResets, Ended, process_vars, vars, poll_vars, send_vars
  <1> QED BY <1>1, <1>2, <1>3, <1>4, <1>5 DEF Next

-----------------------------------------------------------------------------
(* Arithmetic and sequences.                                               *)

(* The sizes are positive numbers.                                         *)
LEMMA Positive ==
  /\ QueueSize \in Nat \ {0}
  /\ HeaderLen \in Nat \ {0}
  /\ PayloadLen \in Nat \ {0}
  /\ SndBuf \in Nat \ {0}
  /\ RcvBuf \in Nat \ {0}
  /\ HostBuf \in Nat \ {0}
  /\ PacketLen \in Nat \ {0}
  /\ PacketLen = HeaderLen + 1 + PayloadLen
  BY TransferAssumption DEF PacketLen

(* The lesser of two numbers is one, and bounds both.                      *)
LEMMA LesserInt ==
  ASSUME NEW m \in Nat, NEW n \in Nat
  PROVE  /\ Lesser(m, n) \in Nat
         /\ Lesser(m, n) <= m
         /\ Lesser(m, n) <= n
  BY DEF Lesser

(* A chunk is a sequence of units.                                         *)
LEMMA ChunkType ==
  ASSUME NEW seq \in Nat, NEW from \in Nat, NEW n \in Nat
  PROVE  Chunk(seq, from, n) \in Units
  BY DEF Chunk, Units

(* A set of natural numbers that is not empty has a least one.             *)
LEMMA LeastExists ==
  ASSUME NEW S, S \subseteq Nat, S # {}
  PROVE  \E m \in S : \A n \in S : m <= n
  <1> DEFINE less == {ss \in Nat \X Nat : ss[1] < ss[2]}
  <1>1. IsWellFoundedOn(less, Nat)
    BY NatLessThanWellFounded DEF OpToRel
  <1>2. PICK m \in S : \A n \in S : ~(<<n, m>> \in less)
    <2> HIDE DEF less
    <2> QED BY <1>1, WFMin
  <1>3. ASSUME NEW n \in S
        PROVE  m <= n
    <2>1. n \in Nat /\ m \in Nat
      OBVIOUS
    <2>2. ~(<<n, m>> \in less)
      BY <1>2
    <2>3. ~(n < m)
      BY <2>1, <2>2
    <2> QED BY <2>1, <2>3
  <1> QED BY <1>3

(* get_free_packet_index returns a free slot when there is one.            *)
LEMMA FirstFreeIsFree ==
  ASSUME NEW i, FreeSlots(i) # {}
  PROVE  FirstFree(i) \in FreeSlots(i)
  <1> DEFINE Least(r) == \A q \in FreeSlots(i) : r <= q
  <1>1. FreeSlots(i) \subseteq Nat
    BY Positive DEF FreeSlots, Slots
  <1>2. \E r \in FreeSlots(i) : Least(r)
    BY <1>1, LeastExists
  <1>3. (CHOOSE r \in FreeSlots(i) : Least(r)) \in FreeSlots(i)
    <2> HIDE DEF Least
    <2> QED BY <1>2
  <1> QED BY <1>3 DEF FirstFree

(* A step that leaves a tuple alone leaves its types.                      *)
LEMMA UnchangedTypes ==
  ASSUME TypeOK
  PROVE  /\ UNCHANGED <<pc, cursor, closed>> => ControlTypes'
         /\ UNCHANGED poll_vars => PollTypes'
         /\ UNCHANGED send_vars => SendTypes'
         /\ UNCHANGED slot_vars => SlotTypes'
         /\ UNCHANGED order_vars => OrderTypes'
         /\ UNCHANGED host_vars => HostTypes'
         /\ UNCHANGED inbound_vars => InboundTypes'
         /\ UNCHANGED outbound_vars => OutboundTypes'
         /\ UNCHANGED peer => (peer \in [Agents -> PeerStates])'
  BY DEF TypeOK, ControlTypes, PollTypes, SendTypes, SlotTypes, OrderTypes, HostTypes,
         InboundTypes, OutboundTypes, poll_vars, send_vars, slot_vars, order_vars,
         host_vars, inbound_vars, outbound_vars

(* The steps of the host.                                                  *)
LEMMA HostSideTypes ==
  ASSUME TypeOK, HostSide
  PROVE TypeOK'
  <1>1. HostTypes'
    BY Positive DEF HostSide, HostWrites, HostReads, HostCloses, HostResets, PeerStates, TypeOK, HostTypes
  <1>2. UNCHANGED <<process_vars, peer, inbound_vars, outbound_vars>>
    BY DEF HostSide, HostWrites, HostReads, HostCloses, HostResets
  <1> QED BY <1>1, <1>2, UnchangedTypes DEF TypeOK, process_vars

(* The steps of the remote agent and of the network.                       *)
LEMMA RemoteSideTypes ==
  ASSUME TypeOK, RemoteSide
  PROVE TypeOK'
  <1>1. PICK i \in Agents : RemoteSends(i) \/ Arrive(i) \/ Drain(i) \/ RemoteCloses(i) \/ RemoteResets(i)
    BY DEF RemoteSide
  <1>2. UNCHANGED <<process_vars, host_vars>>
    BY <1>1 DEF RemoteSends, Arrive, Drain, RemoteCloses, RemoteResets
  <1>3. InboundTypes'
    <2>1. CASE RemoteSends(i)
      BY <2>1 DEF RemoteSends, TypeOK, InboundTypes
    <2>2. CASE Arrive(i)
      BY <2>2, Positive DEF Arrive, TypeOK, InboundTypes
    <2>3. CASE UNCHANGED inbound_vars
      BY <2>3, UnchangedTypes
    <2> QED BY <1>1, <2>1, <2>2, <2>3 DEF Drain, RemoteCloses, RemoteResets
  <1>4. OutboundTypes'
    BY <1>1, UnchangedTypes, Positive
       DEF RemoteSends, Arrive, Drain, RemoteCloses, RemoteResets, TypeOK, OutboundTypes, outbound_vars
  <1>5. (peer \in [Agents -> PeerStates])'
    BY <1>1 DEF RemoteSends, Arrive, Drain, RemoteCloses, RemoteResets, TypeOK, PeerStates
  <1> QED BY <1>2, <1>3, <1>4, <1>5, UnchangedTypes DEF TypeOK, process_vars

(* Where EpollCtl and its kin leave the process.                           *)
LEMMA NextPc ==
  ASSUME NEW next \in Running \union Exits
  PROVE  /\ \A new : EpollCtl(new, next) => pc' \in Running \union Exits
         /\ \A f, mask : SetPoll(f, mask, next) => pc' \in Running \union Exits
         /\ Exit(next) => pc' \in Running \union Exits
  BY DEF EpollCtl, SetPoll, Exit, Exits, Fatal

(* Unregister goes on or ends the process, and closes only its own socket. *)
LEMMA UnregisterControl ==
  ASSUME TypeOK, NEW f \in Fds, NEW mask, NEW shut \in BOOLEAN, Unregister(f, mask, shut)
  PROVE  pc' \in Running \union Exits /\ closed' \subseteq Fds
  BY DEF Unregister, Running, Exits, Fatal, TypeOK, ControlTypes

(* The cursors that handlers start with.                                   *)
LEMMA IdleType ==
  /\ Idle \in Cursor
  /\ \A i \in Agents : [Idle EXCEPT !.agent_id = i] \in Cursor
  /\ \A i \in Agents, p \in Slots : [Idle EXCEPT !.agent_id = i, !.packet_index = p] \in Cursor
  <1>1. Idle \in Cursor
    BY Positive DEF Idle, Cursor, Slots
  <1>2. ASSUME NEW i \in Agents
        PROVE  [Idle EXCEPT !.agent_id = i] \in Cursor
    BY <1>1 DEF Cursor
  <1>3. ASSUME NEW i \in Agents, NEW p \in Slots
        PROVE  [Idle EXCEPT !.agent_id = i, !.packet_index = p] \in Cursor
    BY <1>1 DEF Cursor
  <1> QED BY <1>1, <1>2, <1>3

(* The outbound handlers.  A send never goes beyond the packet, because    *)
(* only a pending packet is sent.                                          *)
LEMMA OutboundTypesKept ==
  ASSUME TypeOK, PollTypes', CursorInv, Outbound
  PROVE  TypeOK'
  <1>1. CASE HostIn
    <2>1. ControlTypes'
      <3>1. pc' \in Running \union Exits
        BY <1>1, NextPc DEF HostIn, AllAgentsSocksFull, Running, Exits, Fatal, Exit
      <3>2. cursor' \in Cursor
        BY <1>1, Positive DEF HostIn, Start, Idle, Cursor, TypeOK, ControlTypes, Slots
      <3> QED BY <1>1, <3>1, <3>2 DEF HostIn, TypeOK, ControlTypes
    <2> QED BY <1>1, <2>1, UnchangedTypes DEF HostIn, TypeOK
  <1>2. CASE \E i \in Agents : AgentOut(i)
    <2>1. ControlTypes'
      <3>1. pc' \in Running \union Exits
        BY <1>2, NextPc DEF AgentOut, NotAllAgentSocksFull, Running, Exits, Fatal, Exit
      <3>2. cursor' \in Cursor
        BY <1>2, Positive DEF AgentOut, Start, Idle, Cursor, Slots
      <3> QED BY <1>2, <3>1, <3>2 DEF AgentOut, TypeOK, ControlTypes
    <2> QED BY <1>2, <2>1, UnchangedTypes DEF AgentOut, TypeOK
  <1>3. ASSUME NEW i \in Agents, RecvHost(i)
        PROVE  TypeOK'
    <2>1. ControlTypes'
      <3>1. pc' \in Running \union Exits
        BY <1>3 DEF RecvHost, Exit, Unregister, Running, Exits, Fatal, TypeOK, HostTypes, PeerStates
      <3>2. cursor' \in Cursor
        BY <1>3, IdleType DEF RecvHost, TypeOK, ControlTypes
      <3> QED BY <1>3, <3>1, <3>2 DEF RecvHost, TypeOK, ControlTypes
    <2>2. SendTypes'
      <3>1. CASE UNCHANGED send_vars
        BY <3>1, UnchangedTypes
      <3>2. ASSUME packet' = [packet EXCEPT ![i].host_packet_size = PacketLen, ![i].seq = send_seq],
                   send_seq' = send_seq + 1
            PROVE  SendTypes'
        <4> DEFINE new == [packet[i] EXCEPT !.host_packet_size = PacketLen, !.seq = send_seq]
        <4>1. new \in PacketState
          BY Positive DEF TypeOK, SendTypes, PacketState
        <4>2. packet' = [packet EXCEPT ![i] = new]
          BY <3>2 DEF TypeOK, SendTypes
        <4>3. packet' \in [Agents -> PacketState]
          BY <4>1, <4>2 DEF TypeOK, SendTypes
        <4> QED BY <3>2, <4>3 DEF TypeOK, SendTypes
      <3> QED BY <1>3, <3>1, <3>2 DEF RecvHost, send_vars
    <2>3. HostTypes'
      <3>1. host' \in PeerStates
        BY <1>3 DEF RecvHost, TypeOK, HostTypes, PeerStates
      <3>2. host_in' \in Nat
        <4>1. host_in' = host_in \/ (host_in > 0 /\ host_in' = host_in - 1)
          BY <1>3 DEF RecvHost
        <4> QED BY <4>1 DEF TypeOK, HostTypes
      <3> QED BY <1>3, <3>1, <3>2 DEF RecvHost, TypeOK, HostTypes
    <2> QED BY <1>3, <2>1, <2>2, <2>3, UnchangedTypes DEF RecvHost, TypeOK
  <1>4. ASSUME NEW i \in Agents, ResumeSend(i)
        PROVE  TypeOK'
    <2>1. ControlTypes'
      <3>1. pc' \in Running \union Exits
        BY <1>4, NextPc DEF ResumeSend, Running, Exits, Fatal, Exit
      <3>2. cursor' \in Cursor
        BY <1>4 DEF ResumeSend, Cursor, TypeOK, ControlTypes, SendTypes, PacketState
      <3> QED BY <1>4, <3>1, <3>2 DEF ResumeSend, TypeOK, ControlTypes
    <2> QED BY <1>4, <2>1, UnchangedTypes DEF ResumeSend, TypeOK
  <1>5. ASSUME NEW i \in Agents, SendAgent(i)
        PROVE  TypeOK'
    <2>1. /\ packet[i] \in PacketState /\ packet[i].host_packet_size = PacketLen
          /\ cursor.size_count \in 0 .. PacketLen
          /\ room[i] \in 0 .. SndBuf
      BY <1>5 DEF SendAgent, CursorInv, Pending, TypeOK, ControlTypes, SendTypes, OutboundTypes, PacketState, Cursor
    <2>2. CASE AgentAccepts(i)
      <3> DEFINE n == Lesser(room[i], packet[i].host_packet_size - cursor.size_count)
      <3>1. n \in Nat /\ n <= room[i] /\ cursor.size_count + n \in 0 .. PacketLen
        <4>1. packet[i].host_packet_size - cursor.size_count \in Nat /\ room[i] \in Nat
          BY <2>1, Positive
        <4>2. n \in Nat /\ n <= room[i] /\ n <= packet[i].host_packet_size - cursor.size_count
          BY <4>1, LesserInt
        <4> HIDE DEF n
        <4> QED BY <2>1, <4>2, Positive
      <3> HIDE DEF n
      <3>2. SendTypes'
        <4>1. packet' = packet \/ packet' = [packet EXCEPT ![i].host_packet_size = 0]
          BY <2>2 DEF AgentAccepts
        <4>2. packet' \in [Agents -> PacketState]
          BY <4>1 DEF TypeOK, SendTypes, PacketState
        <4> QED BY <1>5, <4>2 DEF SendAgent, TypeOK, SendTypes
      <3>3. ControlTypes'
        <4>1. \/ cursor' = Idle /\ pc' = "check"
              \/ cursor' = [cursor EXCEPT !.size_count = cursor.size_count + n] /\ pc' = pc
          BY <2>2 DEF n, AgentAccepts
        <4>2. cursor' \in Cursor /\ pc' \in Running \union Exits
          BY <3>1, <4>1, IdleType DEF TypeOK, ControlTypes, Cursor, Running
        <4> QED BY <2>2, <4>2 DEF AgentAccepts, TypeOK, ControlTypes
      <3>4. OutboundTypes'
        <4>1. room' \in [Agents -> 0 .. SndBuf]
          <5>1. room[i] - n \in 0 .. SndBuf
            BY <2>1, <3>1, Positive
          <5>2. room' = [room EXCEPT ![i] = @ - n]
            BY <2>2 DEF n, AgentAccepts
          <5> QED BY <5>1, <5>2 DEF TypeOK, OutboundTypes
        <4>2. Chunk(packet[i].seq, cursor.size_count, n) \in Units
          BY <2>1, <3>1, ChunkType DEF PacketState
        <4>3. wire' \in [Agents -> Units]
          BY <2>2, <4>2 DEF n, AgentAccepts, TypeOK, OutboundTypes, Units
        <4> QED BY <4>1, <4>3 DEF OutboundTypes
      <3> QED BY <1>5, <2>2, <3>2, <3>3, <3>4, UnchangedTypes DEF SendAgent, AgentAccepts, TypeOK
    <2>3. CASE AgentBlocks(i)
      <3>1. ControlTypes'
        BY <1>5, <2>3, NextPc, Positive DEF AgentBlocks, TypeOK, ControlTypes, Cursor, Idle, Running, Slots
      <3>2. SendTypes'
        BY <1>5, <2>1, <2>3 DEF SendAgent, AgentBlocks, BlockedPacket, TypeOK, SendTypes, PacketState
      <3> QED BY <1>5, <2>3, <3>1, <3>2, UnchangedTypes DEF SendAgent, AgentBlocks, TypeOK
    <2>4. CASE AgentSendFails(i)
      <3>1. ControlTypes'
        <4>1. pc' \in Running \union Exits /\ closed' \subseteq Fds
          BY <2>4, UnregisterControl, NextPc DEF AgentSendFails, Fds, Exits, Fatal, TypeOK, ControlTypes
        <4> QED BY <2>4, <4>1, Positive DEF AgentSendFails, ControlTypes, Cursor, Idle, Slots
      <3> QED BY <1>5, <2>4, <3>1, UnchangedTypes DEF SendAgent, AgentSendFails, TypeOK, send_vars
    <2> QED BY <1>5, <2>2, <2>3, <2>4 DEF SendAgent
  <1> QED BY <1>1, <1>2, <1>3, <1>4, <1>5 DEF Outbound

(* Nothing is readable on a socket that was not sent.                      *)
StreamInv == \A i \in Agents : taken[i] + avail[i] <= Len(inq[i]) * PacketLen

(* The modulus of Take is a wrap around to the next packet.                *)
LEMMA WrapAround ==
  ASSUME NEW m \in Nat \ {0}, NEW t \in 0 .. m - 1, NEW n \in 0 .. m
  PROVE  /\ (t + n) % m \in 0 .. m - 1
         /\ t + n < m => (t + n) % m = t + n
         /\ t + n >= m => (t + n) % m = t + n - m
  OBVIOUS

(* One call reads no more than has arrived and no more than the packet     *)
(* needs.                                                                  *)
LEMMA ReadableType ==
  ASSUME TypeOK, NEW i \in Agents
  PROVE  /\ Progress(i) \in 0 .. PacketLen - 1
         /\ Readable(i) \in Nat
         /\ Readable(i) <= avail[i]
         /\ Reached(i) \in 0 .. PacketLen
         /\ Reached(i) = Progress(i) + Readable(i)
  <1>1. Progress(i) \in 0 .. PacketLen - 1
    BY Positive DEF Progress, TypeOK, SlotTypes, SlotState
  <1>2. PacketLen - Progress(i) \in Nat /\ avail[i] \in Nat
    BY <1>1, Positive DEF TypeOK, InboundTypes
  <1>3. /\ Readable(i) \in Nat
        /\ Readable(i) <= avail[i]
        /\ Readable(i) <= PacketLen - Progress(i)
    BY <1>2, LesserInt DEF Readable
  <1> QED BY <1>1, <1>3, Positive DEF Reached

(* Reading keeps StreamInv, also over the end of a packet.                 *)
LEMMA TakeKeepsStream ==
  ASSUME TypeOK, StreamInv, NEW i \in Agents, Take(i, Readable(i)), in_seq' = in_seq
  PROVE  InboundTypes' /\ StreamInv'
  <1> DEFINE n == Readable(i)
             L == Len(inq[i])
  <1>1. /\ n \in Nat /\ n <= avail[i] /\ n <= PacketLen
        /\ avail[i] \in 0 .. RcvBuf
        /\ taken[i] \in 0 .. PacketLen - 1
        /\ PacketLen \in Nat \ {0}
        /\ RcvBuf \in Nat
        /\ inq[i] \in Seq(Nat)
        /\ L \in Nat
    BY ReadableType, Positive DEF TypeOK, InboundTypes
  <1>2. taken[i] + avail[i] <= L * PacketLen
    BY DEF StreamInv
  <1>3. /\ avail' = [avail EXCEPT ![i] = @ - n]
        /\ taken' = [taken EXCEPT ![i] = (@ + n) % PacketLen]
        /\ inq' = IF taken[i] + n = PacketLen THEN [inq EXCEPT ![i] = Tail(@)] ELSE inq
    BY DEF Take
  <1> HIDE DEF n
  <1>4. /\ taken'[i] \in 0 .. PacketLen - 1
        /\ taken[i] + n < PacketLen => taken'[i] = taken[i] + n
        /\ taken[i] + n >= PacketLen => taken'[i] = taken[i] + n - PacketLen
        /\ avail'[i] = avail[i] - n
    <2>1. taken'[i] = (taken[i] + n) % PacketLen /\ avail'[i] = avail[i] - n
      BY <1>3 DEF TypeOK, InboundTypes
    <2>2. n \in 0 .. PacketLen
      BY <1>1
    <2> DEFINE t == taken[i]
               m == PacketLen
    <2>3. t \in 0 .. m - 1 /\ m \in Nat \ {0} /\ n \in 0 .. m
      BY <1>1, <2>2
    <2>4. /\ (t + n) % m \in 0 .. m - 1
          /\ t + n < m => (t + n) % m = t + n
          /\ t + n >= m => (t + n) % m = t + n - m
      <3> HIDE DEF t, m
      <3> QED BY <2>3, WrapAround
    <2> QED BY <2>1, <2>4
  <1>5. taken[i] + n = PacketLen => L > 0
    <2> SUFFICES ASSUME taken[i] + n = PacketLen, L = 0
                 PROVE  FALSE
      BY <1>1
    <2>1. L * PacketLen = 0
      BY <1>1
    <2> QED BY <1>1, <1>2, <2>1
  <1>6. InboundTypes'
    <2>1. avail' \in [Agents -> 0 .. RcvBuf]
      BY <1>1, <1>3 DEF TypeOK, InboundTypes
    <2>2. taken' \in [Agents -> 0 .. PacketLen - 1]
      BY <1>1, <1>3, <1>4 DEF TypeOK, InboundTypes
    <2>3. inq' \in [Agents -> Seq(Nat)]
      BY <1>1, <1>3, <1>5 DEF TypeOK, InboundTypes
    <2> QED BY <2>1, <2>2, <2>3 DEF TypeOK, InboundTypes
  <1>7. ASSUME NEW j \in Agents
        PROVE  taken'[j] + avail'[j] <= Len(inq'[j]) * PacketLen
    <2>1. CASE j # i
      BY <1>3, <2>1 DEF StreamInv, TypeOK, InboundTypes
    <2>2. CASE j = i
      <3>2. CASE taken[i] + n = PacketLen
        <4>1. Len(inq'[i]) = L - 1
          BY <1>1, <1>3, <1>5, <3>2 DEF TypeOK, InboundTypes
        <4>2. (L - 1) * PacketLen = L * PacketLen - PacketLen
          BY <1>1
        <4>3. taken'[i] = 0 /\ avail'[i] = taken[i] + avail[i] - PacketLen
          BY <1>1, <1>4, <3>2
        <4>4. L * PacketLen \in Nat
          BY <1>1
        <4>5. taken'[i] + avail'[i] <= L * PacketLen - PacketLen
          <5> HIDE DEF L
          <5> QED BY <1>1, <1>2, <4>3, <4>4
        <4> QED BY <2>2, <4>1, <4>2, <4>5
      <3>3. CASE taken[i] + n # PacketLen
        <4>1. Len(inq'[i]) = L
          BY <1>3, <3>3
        <4>2. L * PacketLen \in Nat
          BY <1>1
        <4> HIDE DEF L
        <4> QED BY <1>1, <1>2, <1>4, <2>2, <3>3, <4>1, <4>2
      <3> QED BY <3>2, <3>3
    <2> QED BY <2>1, <2>2
  <1> QED BY <1>6, <1>7 DEF StreamInv

(* A packet that is complete was on the socket.                            *)
LEMMA HeadIsNumber ==
  ASSUME TypeOK, StreamInv, NEW i \in Agents, Reached(i) = PacketLen
  PROVE  Head(inq[i]) \in Nat
  <1>1. avail[i] > 0 /\ avail[i] \in Nat /\ taken[i] \in Nat /\ PacketLen \in Nat
    BY ReadableType, Positive DEF TypeOK, InboundTypes
  <1>2. inq[i] \in Seq(Nat) /\ Len(inq[i]) \in Nat
    BY DEF TypeOK, InboundTypes
  <1>3. Len(inq[i]) # 0
    <2> SUFFICES ASSUME Len(inq[i]) = 0
                 PROVE  FALSE
      OBVIOUS
    <2>1. Len(inq[i]) * PacketLen = 0
      BY <1>1
    <2>2. taken[i] + avail[i] <= Len(inq[i]) * PacketLen
      BY DEF StreamInv
    <2> QED BY <1>1, <2>1, <2>2
  <1> QED BY <1>2, <1>3

(* Writing to fields of one slot.                                          *)
SlotArray == [Agents -> [Slots -> SlotState]]

(* A slot stays a slot.                                                    *)
LEMMA SlotUpdate ==
  ASSUME NEW slots \in SlotArray, NEW i \in Agents, NEW p \in Slots, NEW used \in BOOLEAN
  PROVE  /\ [slots EXCEPT ![i][p].in_use = used] \in SlotArray
         /\ \A seq \in Nat : [slots EXCEPT ![i][p].in_use = used, ![i][p].seq_num = seq] \in SlotArray
         /\ \A n \in 0 .. PayloadLen : [slots EXCEPT ![i][p].host_sent_size = n] \in SlotArray
  <1>1. ASSUME NEW s \in SlotState
        PROVE  [slots EXCEPT ![i][p] = s] \in SlotArray
    BY <1>1 DEF SlotArray
  <1>2. slots[i][p] \in SlotState
    BY DEF SlotArray
  <1>3. [slots[i][p] EXCEPT !.in_use = used] \in SlotState
    BY <1>2 DEF SlotState
  <1>4. ASSUME NEW seq \in Nat
        PROVE  [slots[i][p] EXCEPT !.in_use = used, !.seq_num = seq] \in SlotState
    BY <1>2 DEF SlotState
  <1>5. ASSUME NEW n \in 0 .. PayloadLen
        PROVE  [slots[i][p] EXCEPT !.host_sent_size = n] \in SlotState
    BY <1>2 DEF SlotState
  <1>6. [slots EXCEPT ![i][p].in_use = used] \in SlotArray
    BY <1>1, <1>3
  <1>7. ASSUME NEW n \in 0 .. PayloadLen
        PROVE  [slots EXCEPT ![i][p].host_sent_size = n] \in SlotArray
    BY <1>1, <1>5
  <1>8. ASSUME NEW seq \in Nat
        PROVE  [slots EXCEPT ![i][p].in_use = used, ![i][p].seq_num = seq] \in SlotArray
    <2> DEFINE s == [slots[i][p] EXCEPT !.in_use = used, !.seq_num = seq]
    <2>1. [slots EXCEPT ![i][p].in_use = used, ![i][p].seq_num = seq] = [slots EXCEPT ![i][p] = s]
      BY DEF SlotArray, SlotState
    <2>2. s \in SlotState
      BY <1>4
    <2> HIDE DEF s
    <2> QED BY <1>1, <2>1, <2>2
  <1> QED BY <1>6, <1>7, <1>8

(* The handler of input on an agent socket, for each way it can end.       *)
LEMMA AgentInTypes ==
  ASSUME TypeOK, PollTypes', StreamInv, NEW i \in Agents, AgentIn(i)
  PROVE  TypeOK' /\ StreamInv'
  <1>1. CASE agent_packet_index_in[i] = EMPTY /\ FreeSlots(i) = {}
    <2>1. UNCHANGED <<slot_vars, order_vars, cursor, closed, inbound_vars, send_vars,
                      host_vars, peer, outbound_vars>> /\ pc' = "no_free_index"
      BY <1>1 DEF AgentIn, Exit
    <2>2. ControlTypes'
      BY <2>1 DEF TypeOK, ControlTypes, Exits, Fatal
    <2> QED BY <2>1, <2>2, UnchangedTypes DEF TypeOK, StreamInv, inbound_vars
  <1>2. CASE ~(agent_packet_index_in[i] = EMPTY /\ FreeSlots(i) = {})
    <2> DEFINE p == IF agent_packet_index_in[i] = EMPTY THEN FirstFree(i)
                    ELSE agent_packet_index_in[i]
               Partial == /\ ReadBlocks(i, p) \/ ReadEnds(i, p) \/ ReadFails(i, p)
                          /\ UNCHANGED <<buffered_packet_table, agent_packet_index_out, cursor>>
    <2>1. p \in Slots
      BY <1>2, FirstFreeIsFree DEF FreeSlots, TypeOK, SlotTypes
    <2>2. /\ Take(i, Readable(i)) /\ CountHeader(i)
          /\ ReadPacket(i, p) \/ Partial
          /\ UNCHANGED <<in_seq, recv_seq, host_side_agent_id, send_vars, host_vars, peer,
                         outbound_vars>>
      BY <1>2 DEF AgentIn
    <2> HIDE DEF p
    <2>3. InboundTypes' /\ StreamInv'
      BY <2>2, TakeKeepsStream
    <2>4. /\ Reached(i) \in 0 .. PacketLen
          /\ PacketLen = HeaderLen + 1 + PayloadLen
          /\ HeaderLen \in Nat \ {0} /\ PayloadLen \in Nat \ {0}
      BY ReadableType, Positive
    <2>5. /\ buffered_packet \in SlotArray
          /\ agent_packet_index_in \in [Agents -> Slots \union {EMPTY}]
          /\ agent_needed_header_size \in [Agents -> 0 .. HeaderLen - 1]
      BY DEF TypeOK, SlotTypes, SlotArray
    <2>6. agent_packet_queue_count' \in [Agents -> Int]
      BY <2>2 DEF CountHeader, TypeOK, SlotTypes
    <2>7. CASE ReadPacket(i, p)
      <3>1. SlotTypes'
        <4>1. buffered_packet' \in SlotArray
          BY <2>1, <2>5, <2>7, SlotUpdate, HeadIsNumber DEF ReadPacket
        <4>2. agent_packet_index_in' \in [Agents -> Slots \union {EMPTY}]
          BY <2>5, <2>7 DEF ReadPacket
        <4>3. agent_needed_header_size' \in [Agents -> 0 .. HeaderLen - 1]
          <5>1. agent_needed_header_size' = [agent_needed_header_size EXCEPT ![i] = 0]
            BY <2>7 DEF ReadPacket
          <5> QED BY <2>4, <2>5, <5>1
        <4> QED BY <2>6, <4>1, <4>2, <4>3 DEF SlotTypes, SlotArray
      <3>2. OrderTypes'
        BY <2>1, <2>2, <2>7 DEF ReadPacket, TypeOK, OrderTypes
      <3>3. ControlTypes'
        <4>1. pc' \in Running \union Exits
          BY <2>7, NextPc DEF ReadPacket, Running
        <4>2. cursor' = cursor \/ cursor' = [Idle EXCEPT !.agent_id = i, !.packet_index = p]
          BY <2>7 DEF ReadPacket
        <4>3. cursor' \in Cursor
          BY <2>1, <4>2, IdleType DEF TypeOK, ControlTypes
        <4> QED BY <2>7, <4>1, <4>3 DEF ReadPacket, TypeOK, ControlTypes
      <3> QED BY <2>2, <2>3, <3>1, <3>2, <3>3, UnchangedTypes DEF TypeOK
    <2>8. CASE Partial
      <3>1. agent_packet_index_in' = [agent_packet_index_in EXCEPT ![i] = p]
        BY <2>8 DEF ReadBlocks, ReadEnds, ReadFails
      <3>2. buffered_packet' \in SlotArray
        <4>1. ASSUME NEW used \in BOOLEAN,
                     buffered_packet' = [buffered_packet EXCEPT ![i][p].in_use = used]
              PROVE  buffered_packet' \in SlotArray
          BY <2>1, <2>5, <4>1, SlotUpdate
        <4>2. ASSUME NEW n \in 0 .. PayloadLen,
                     buffered_packet' = [StopAt(i, p, n) EXCEPT ![i][p].in_use = TRUE]
              PROVE  buffered_packet' \in SlotArray
          <5>1. StopAt(i, p, n) \in SlotArray
            BY <2>1, <2>5, SlotUpdate DEF StopAt
          <5> QED BY <2>1, <4>2, <5>1, SlotUpdate
        <4>3. CASE ReadBlocks(i, p)
          <5>1. CASE Reached(i) < HeaderLen
            BY <4>1, <4>3, <5>1 DEF ReadBlocks
          <5>2. CASE ~(Reached(i) < HeaderLen)
            <6>1. Reached(i) - HeaderLen \in 0 .. PayloadLen
              BY <2>4, <4>3, <5>2 DEF ReadBlocks
            <6> QED BY <4>2, <4>3, <5>2, <6>1 DEF ReadBlocks
          <5> QED BY <5>1, <5>2
        <4>4. CASE ReadEnds(i, p)
          <5>1. (Reached(i) >= HeaderLen) \in BOOLEAN
            OBVIOUS
          <5> QED BY <4>1, <4>4, <5>1 DEF ReadEnds
        <4>5. CASE ReadFails(i, p)
          BY <4>1, <4>5 DEF ReadFails
        <4> QED BY <2>8, <4>3, <4>4, <4>5
      <3>3. agent_needed_header_size' \in [Agents -> 0 .. HeaderLen - 1]
        <4>1. ASSUME NEW n \in 0 .. HeaderLen - 1,
                     agent_needed_header_size' = [agent_needed_header_size EXCEPT ![i] = n]
              PROVE  agent_needed_header_size' \in [Agents -> 0 .. HeaderLen - 1]
          BY <2>5, <4>1
        <4>2. 0 \in 0 .. HeaderLen - 1
          BY <2>4
        <4>3. Reached(i) < HeaderLen => Reached(i) \in 0 .. HeaderLen - 1
          BY <2>4
        <4>4. CASE ReadBlocks(i, p)
          BY <4>1, <4>2, <4>3, <4>4 DEF ReadBlocks
        <4>5. CASE ReadEnds(i, p)
          BY <2>5, <4>1, <4>2, <4>5 DEF ReadEnds
        <4>6. CASE ReadFails(i, p)
          BY <2>5, <4>6 DEF ReadFails
        <4> QED BY <2>8, <4>4, <4>5, <4>6
      <3>4. SlotTypes'
        BY <2>1, <2>5, <2>6, <3>1, <3>2, <3>3 DEF SlotTypes, SlotArray
      <3>5. pc' \in Running \union Exits /\ closed' \subseteq Fds
        <4>1. \/ \E shut \in BOOLEAN : Unregister(i, CLOSED, shut)
              \/ Exit("recv_error") /\ UNCHANGED closed
              \/ ReadBlocks(i, p)
          BY <2>8 DEF ReadEnds, ReadFails
        <4>2. CASE ReadBlocks(i, p)
          BY <4>2 DEF ReadBlocks, Exit, Running, Exits, Fatal, TypeOK, ControlTypes
        <4> QED BY <4>1, <4>2, UnregisterControl DEF Fds, Exit, Exits, Fatal, TypeOK, ControlTypes
      <3>6. ControlTypes'
        BY <2>8, <3>5 DEF TypeOK, ControlTypes
      <3>7. OrderTypes'
        BY <2>2, <2>8 DEF TypeOK, OrderTypes
      <3> QED BY <2>2, <2>3, <3>4, <3>6, <3>7, UnchangedTypes DEF TypeOK
    <2> QED BY <2>2, <2>7, <2>8
  <1> QED BY <1>1, <1>2

(* The handler of output on the host socket: it has a packet to resume.    *)
LEMMA HostOutTypes ==
  ASSUME TypeOK, PollTypes', MaskInv, CursorInv, HostOut
  PROVE  TypeOK' /\ (pc' = "send_data_host" => /\ cursor'.agent_id \in Agents
                                              /\ cursor'.size_count <= PayloadLen)
  <1> DEFINE i == host_side_agent_id
             p == agent_packet_index_out
             n == buffered_packet[i][p].host_sent_size
  <1>1. i \in Agents
    BY DEF HostOut, MaskInv, PollMatchesEpoll, CursorInv, Alive, Running, Fds
  <1>2. p \in Slots /\ n \in 0 .. PayloadLen
    BY <1>1 DEF TypeOK, OrderTypes, SlotTypes, SlotState
  <1>3. cursor' = [agent_id |-> i, packet_index |-> p, size_count |-> n]
    BY DEF HostOut
  <1> HIDE DEF i, p, n
  <1>4. cursor' \in Cursor /\ cursor'.agent_id \in Agents /\ cursor'.size_count <= PayloadLen
    BY <1>1, <1>2, <1>3, Positive DEF Cursor
  <1>5. ControlTypes'
    <2>1. pc' \in Running \union Exits
      BY NextPc DEF HostOut, Running
    <2> QED BY <1>4, <2>1 DEF HostOut, TypeOK, ControlTypes
  <1> QED BY <1>4, <1>5, UnchangedTypes DEF HostOut, TypeOK

(* One send to the host, for each way it can end.                          *)
LEMMA SendHostTypes ==
  ASSUME TypeOK, PollTypes', CursorInv, SendHost
  PROVE  TypeOK' /\ (pc' = "send_data_host" => /\ cursor'.agent_id \in Agents
                                              /\ cursor'.size_count <= PayloadLen)
  <1> DEFINE i == cursor.agent_id
             p == cursor.packet_index
             k == cursor.size_count
  <1>1. /\ i \in Agents /\ p \in Slots /\ k \in 0 .. PayloadLen
        /\ PayloadLen \in Nat \ {0}
        /\ host_room \in 0 .. HostBuf
        /\ HostBuf \in Nat
    BY Positive DEF SendHost, CursorInv, TypeOK, ControlTypes, HostTypes, Cursor
  <1>2. buffered_packet \in SlotArray /\ cursor \in Cursor /\ pc = "send_data_host"
    BY DEF SlotArray, TypeOK, SlotTypes, ControlTypes, SendHost
  <1>3. UNCHANGED <<send_vars, agent_packet_index_in, agent_needed_header_size, host,
                    host_in, peer, inbound_vars, outbound_vars>>
    BY DEF SendHost
  <1>4. ASSUME pc' \in Running \union Exits, closed' \subseteq Fds, cursor' \in Cursor,
               buffered_packet' \in SlotArray,
               agent_packet_queue_count' \in [Agents -> Int],
               OrderTypes', host_room' \in 0 .. HostBuf, delivered' \in Units
        PROVE  TypeOK'
    BY <1>3, <1>4, UnchangedTypes
       DEF TypeOK, ControlTypes, SlotTypes, SlotArray, HostTypes
  <1>5. CASE Host \in closed
    BY <1>2, <1>4, <1>5, UnchangedTypes
       DEF SendHost, Exit, Exits, Fatal, TypeOK, ControlTypes, SlotTypes, HostTypes
  <1>6. CASE HostAccepts(i, p)
    <2> DEFINE n == Lesser(host_room, PayloadLen - k)
    <2>1. n \in Nat /\ n <= host_room /\ k + n \in 0 .. PayloadLen
      <3>1. host_room \in Nat /\ PayloadLen - k \in Nat
        BY <1>1
      <3>2. n \in Nat /\ n <= host_room /\ n <= PayloadLen - k
        BY <3>1, LesserInt
      <3> HIDE DEF n, k
      <3> QED BY <1>1, <3>2
    <2>2. host_room' = host_room - n
      BY <1>6 DEF HostAccepts
    <2>3. delivered' \in Units
      <3>1. buffered_packet[i][p].seq_num \in Nat
        BY <1>1, <1>2 DEF SlotArray, SlotState
      <3>2. Chunk(buffered_packet[i][p].seq_num, k, n) \in Units
        BY <1>1, <2>1, <3>1, ChunkType
      <3>3. delivered' = delivered \o Chunk(buffered_packet[i][p].seq_num, k, n)
        BY <1>6 DEF HostAccepts
      <3> QED BY <3>2, <3>3 DEF Units, TypeOK, HostTypes
    <2>4. closed' \subseteq Fds
      BY <1>6 DEF HostAccepts, TypeOK, ControlTypes
    <2>5. CASE HostCompletes(i, p)
      <3>1. agent_packet_queue_count' \in [Agents -> Int]
        <4>1. agent_packet_queue_count' = [agent_packet_queue_count EXCEPT ![i] = @ - 1]
          BY <2>5 DEF HostCompletes
        <4> QED BY <1>1, <4>1 DEF TypeOK, SlotTypes
      <3>2. buffered_packet' \in SlotArray
        BY <1>1, <1>2, <2>5, SlotUpdate DEF HostCompletes
      <3>3. pc' \in Running \union Exits
        BY <2>5, NextPc DEF HostCompletes, Running
      <3>4. /\ buffered_packet_table' \subseteq buffered_packet_table
            /\ \/ cursor' = Idle /\ pc' # "send_data_host"
               \/ \E e \in Agents \X Slots :
                    cursor' = [agent_id |-> e[1], packet_index |-> e[2], size_count |-> 0]
        <4>1. CASE Early(recv_seq + 1) = {}
          BY <2>5, <4>1 DEF HostCompletes, SetPoll, EpollCtl
        <4>2. CASE Early(recv_seq + 1) # {}
          <5>1. Early(recv_seq + 1) \subseteq Agents \X Slots
            BY DEF Early, TypeOK, OrderTypes
          <5> QED BY <2>5, <4>2, <5>1 DEF HostCompletes
        <4> QED BY <4>1, <4>2
      <3>5. /\ cursor' \in Cursor
            /\ pc' = "send_data_host" =>
                 cursor'.agent_id \in Agents /\ cursor'.size_count <= PayloadLen
        <4>1. CASE cursor' = Idle /\ pc' # "send_data_host"
          BY <4>1, IdleType
        <4>2. ASSUME NEW e \in Agents \X Slots,
                     cursor' = [agent_id |-> e[1], packet_index |-> e[2], size_count |-> 0]
              PROVE  cursor' \in Cursor /\ cursor'.agent_id \in Agents /\ cursor'.size_count <= PayloadLen
          <5>1. e[1] \in Agents /\ e[2] \in Slots /\ 0 \in 0 .. PacketLen /\ 0 <= PayloadLen
            BY Positive
          <5> QED BY <4>2, <5>1 DEF Cursor
        <4> QED BY <3>4, <4>1, <4>2
      <3>6. OrderTypes'
        BY <2>5, <3>4 DEF HostCompletes, TypeOK, OrderTypes
      <3> QED BY <1>1, <1>4, <2>1, <2>2, <2>3, <2>4, <3>1, <3>2, <3>3, <3>5, <3>6
    <2>6. CASE k + n # PayloadLen
      <3>1. /\ cursor' = [cursor EXCEPT !.size_count = k + n]
            /\ UNCHANGED <<pc, poll_vars, buffered_packet, agent_packet_queue_count, order_vars>>
        BY <1>6, <2>6 DEF HostAccepts
      <3>2. /\ cursor' \in Cursor /\ cursor'.agent_id = i /\ cursor'.size_count <= PayloadLen
        <4> HIDE DEF n
        <4> QED BY <1>1, <1>2, <2>1, <3>1, Positive DEF Cursor
      <3>3. host_room' \in 0 .. HostBuf
        <4> HIDE DEF n
        <4> QED BY <1>1, <2>1, <2>2
      <3> QED BY <1>1, <1>2, <1>4, <2>3, <2>4, <3>1, <3>2, <3>3, UnchangedTypes
              DEF TypeOK, ControlTypes, SlotTypes
    <2> QED BY <1>6, <2>5, <2>6 DEF HostAccepts
  <1>7. CASE HostBlocks(i, p)
    <2>1. buffered_packet' \in SlotArray
      <3>1. buffered_packet' = [buffered_packet EXCEPT ![i][p].host_sent_size = k]
        BY <1>7 DEF HostBlocks, StopAt
      <3>2. TRUE \in BOOLEAN
        OBVIOUS
      <3> HIDE DEF i, p, k
      <3> QED BY <1>1, <1>2, <3>1, <3>2, SlotUpdate
    <2>2. pc' \in Running \union Exits /\ pc' # "send_data_host"
      BY <1>7 DEF HostBlocks, SetPoll, EpollCtl, Exit, Running, Exits, Fatal
    <2>3. OrderTypes'
      BY <1>1, <1>7 DEF HostBlocks, TypeOK, OrderTypes
    <2> QED BY <1>4, <1>7, <2>1, <2>2, <2>3, IdleType
            DEF HostBlocks, TypeOK, ControlTypes, SlotTypes, HostTypes
  <1>8. CASE HostSendFails
    <2>1. pc' \in Running \union Exits /\ closed' \subseteq Fds /\ pc' # "send_data_host"
      BY <1>8 DEF HostSendFails, Unregister, Exit, Running, Exits, Fatal, Fds, TypeOK, ControlTypes
    <2> QED BY <1>2, <1>4, <1>8, <2>1, IdleType, UnchangedTypes
            DEF HostSendFails, TypeOK, SlotTypes, HostTypes
  <1> QED BY <1>5, <1>6, <1>7, <1>8 DEF SendHost

(* The top of the loop.                                                    *)
LEMMA CheckClosedTypes ==
  ASSUME TypeOK, PollTypes', CheckClosed
  PROVE  TypeOK' /\ pc' \in {"closed", "wait"}
  <1>1. ControlTypes' /\ pc' \in {"closed", "wait"}
    BY DEF CheckClosed, Closable, TypeOK, ControlTypes, Fds, Running, Exits
  <1> QED BY <1>1, UnchangedTypes DEF CheckClosed, TypeOK

(* A step that does not start polling the host for output keeps the last   *)
(* part of CursorInv, and one that is not in the middle of a send has      *)
(* nothing to keep of the others.                                          *)
LEMMA QuietKeepsCursor ==
  ASSUME CursorInv, Alive, pc' \notin {"send_agent", "send_data_host"},
         host_side_agent_id' = host_side_agent_id,
         Alive' => ("out" \in fd_poll'[Host] => "out" \in fd_poll[Host])
  PROVE  CursorInv'
  BY DEF CursorInv

(* Any step keeps CursorInv: a handler goes on to send only with the       *)
(* cursor on a packet, and the host is polled for output only by           *)
(* HostBlocks.                                                             *)
LEMMA NextKeepsCursor ==
  ASSUME TypeOK, MaskInv, CursorInv, StreamInv, [Next]_vars
  PROVE  CursorInv'
  <1>1. CASE CheckClosed
    <2>1. pc' \notin {"send_agent", "send_data_host"} /\ host_side_agent_id' = host_side_agent_id
      BY <1>1 DEF CheckClosed, order_vars
    <2>2. fd_poll'[Host] = fd_poll[Host]
      BY <1>1 DEF CheckClosed, Fds
    <2> QED BY <1>1, <2>1, <2>2, QuietKeepsCursor DEF CheckClosed, Alive, Running
  <1>2. CASE HostIn
    <2>1. /\ pc' \notin {"send_agent", "send_data_host"}
          /\ host_side_agent_id' = host_side_agent_id
      BY <1>2 DEF HostIn, order_vars, Exit, AllAgentsSocksFull, EpollCtl
    <2>2. Alive' => ("out" \in fd_poll'[Host] => "out" \in fd_poll[Host])
      BY <1>2, EpollCtlSets DEF HostIn, Exit, poll_vars, AllAgentsSocksFull, FullMask, Fds
    <2> QED BY <1>2, <2>1, <2>2, QuietKeepsCursor DEF HostIn, Alive, Running
  <1>3. CASE \E i \in Agents : AgentOut(i)
    <2>1. /\ pc' \notin {"send_agent", "send_data_host"}
          /\ host_side_agent_id' = host_side_agent_id
      BY <1>3 DEF AgentOut, order_vars, NotAllAgentSocksFull, EpollCtl
    <2>2. Alive' => ("out" \in fd_poll'[Host] => "out" \in fd_poll[Host])
      BY <1>3, EpollCtlSets DEF AgentOut, poll_vars, NotAllAgentSocksFull, NotFullMask, Fds, POLLIN
    <2> QED BY <1>3, <2>1, <2>2, QuietKeepsCursor DEF AgentOut, Alive, Running
  <1>4. ASSUME NEW i \in Agents, RecvHost(i)
        PROVE  CursorInv'
    <2>1. host_side_agent_id' = host_side_agent_id
      BY <1>4 DEF RecvHost, order_vars
    <2>2. Alive' => ("out" \in fd_poll'[Host] => "out" \in fd_poll[Host])
      <3>1. UNCHANGED poll_vars \/ Unregister(Host, CLOSED, FALSE)
        BY <1>4 DEF RecvHost, Exit, TypeOK, HostTypes, PeerStates
      <3> QED BY <3>1 DEF poll_vars, Unregister, TypeOK, PollTypes, Fds, CLOSED
    <2>3. CASE pc' = "send_agent"
      <3>1. /\ cursor' = cursor /\ cursor.agent_id = i
            /\ packet' = [packet EXCEPT ![i].host_packet_size = PacketLen, ![i].seq = send_seq]
        BY <1>4, <2>3 DEF RecvHost, Exit, Unregister, TypeOK, HostTypes, PeerStates
      <3>2. Pending(i)'
        BY <3>1, Positive DEF Pending, TypeOK, SendTypes, PacketState
      <3> QED BY <1>4, <2>1, <2>2, <2>3, <3>1, <3>2 DEF CursorInv, RecvHost, Alive, Running, Pending
    <2>4. CASE pc' # "send_agent"
      <3>1. pc' # "send_data_host"
        BY <1>4 DEF RecvHost, Exit, Unregister, TypeOK, HostTypes, PeerStates
      <3> QED BY <1>4, <2>1, <2>2, <2>4, <3>1, QuietKeepsCursor DEF RecvHost, Alive, Running
    <2> QED BY <2>3, <2>4
  <1>5. ASSUME NEW i \in Agents, ResumeSend(i)
        PROVE  CursorInv'
    <2>1. /\ host_side_agent_id' = host_side_agent_id /\ packet' = packet
          /\ cursor'.agent_id = i
          /\ pc' # "send_data_host"
      <3>1. cursor' = [cursor EXCEPT !.size_count = packet[i].host_sent_size] /\ cursor.agent_id = i
        BY <1>5 DEF ResumeSend
      <3>2. cursor'.agent_id = i
        BY <3>1 DEF TypeOK, ControlTypes, Cursor
      <3> QED BY <1>5, <3>2 DEF ResumeSend, order_vars, send_vars, SetPoll, EpollCtl, Exit
    <2>2. Alive' => ("out" \in fd_poll'[Host] => "out" \in fd_poll[Host])
      BY <1>5, SetPollSets, TransferAssumption
         DEF ResumeSend, Exit, poll_vars, TypeOK, PollTypes, Fds
    <2> QED BY <1>5, <2>1, <2>2 DEF CursorInv, ResumeSend, Alive, Running, Pending
  <1>6. ASSUME NEW i \in Agents, SendAgent(i)
        PROVE  CursorInv'
    <2>1. pc = "send_agent" /\ host_side_agent_id' = host_side_agent_id
      BY <1>6 DEF SendAgent, order_vars
    <2>2. CASE AgentAccepts(i)
      <3>1. pc' = "check" \/ (pc' = pc /\ packet' = packet /\ \E n : cursor' = [cursor EXCEPT !.size_count = n])
        BY <2>2 DEF AgentAccepts
      <3>2. pc' = pc => cursor'.agent_id = cursor.agent_id
        BY <2>1, <3>1 DEF TypeOK, ControlTypes, Cursor
      <3>3. fd_poll' = fd_poll
        BY <2>2 DEF AgentAccepts, poll_vars
      <3> QED BY <2>1, <3>1, <3>2, <3>3 DEF CursorInv, Alive, Running, Pending
    <2>3. CASE AgentBlocks(i)
      <3>1. pc' \notin {"send_agent", "send_data_host"}
        BY <2>3 DEF AgentBlocks, SetPoll, EpollCtl
      <3>2. Alive' => ("out" \in fd_poll'[Host] => "out" \in fd_poll[Host])
        BY <2>3, SetPollSets, TransferAssumption DEF AgentBlocks, TypeOK, PollTypes, Fds
      <3> QED BY <2>1, <3>1, <3>2, QuietKeepsCursor DEF Alive, Running
    <2>4. CASE AgentSendFails(i)
      <3>1. pc' \notin {"send_agent", "send_data_host"}
        BY <2>4 DEF AgentSendFails, Unregister, Exit
      <3>2. Alive' => ("out" \in fd_poll'[Host] => "out" \in fd_poll[Host])
        BY <2>4, TransferAssumption DEF AgentSendFails, Unregister, Exit, poll_vars, TypeOK, PollTypes, Fds
      <3> QED BY <2>1, <3>1, <3>2, QuietKeepsCursor DEF Alive, Running
    <2> QED BY <1>6, <2>2, <2>3, <2>4 DEF SendAgent
  <1>7. ASSUME NEW i \in Agents, AgentIn(i)
        PROVE  CursorInv'
    <2>1. pc = "wait" /\ host_side_agent_id' = host_side_agent_id
      BY <1>7 DEF AgentIn, order_vars
    <2>2. Alive' => ("out" \in fd_poll'[Host] => "out" \in fd_poll[Host])
      <3>1. CASE UNCHANGED poll_vars
        BY <3>1 DEF poll_vars
      <3>2. CASE \E mask, next : SetPoll(i, mask, next)
        BY <3>2, SetPollSets, TransferAssumption DEF TypeOK, PollTypes, Fds
      <3>3. CASE \E shut : Unregister(i, CLOSED, shut)
        BY <3>3, TransferAssumption DEF Unregister, Alive, Running, TypeOK, PollTypes, Fds
      <3> QED BY <1>7, <3>1, <3>2, <3>3 DEF AgentIn, ReadPacket, ReadBlocks, ReadEnds, ReadFails, Exit
    <2>3. CASE \E p : ReadPacket(i, p) /\ IsNext(Head(inq[i]))
      <3>1. PICK p : cursor' = [Idle EXCEPT !.agent_id = i, !.packet_index = p]
        BY <2>3 DEF ReadPacket
      <3>2. cursor'.agent_id = i /\ cursor'.size_count = 0
        BY <3>1 DEF Idle
      <3>3. pc' # "send_agent"
        BY <2>3 DEF ReadPacket, SetPoll, EpollCtl
      <3> QED BY <2>1, <2>2, <3>2, <3>3, Positive DEF CursorInv, Alive, Running
    <2>4. CASE ~\E p : ReadPacket(i, p) /\ IsNext(Head(inq[i]))
      <3>1. pc' \notin {"send_agent", "send_data_host"}
        BY <1>7, <2>4 DEF AgentIn, ReadPacket, ReadBlocks, ReadEnds, ReadFails, SetPoll, EpollCtl,
                          Unregister, Exit
      <3> QED BY <2>1, <2>2, <3>1, QuietKeepsCursor DEF Alive, Running
    <2> QED BY <2>3, <2>4
  <1>8. CASE HostOut
    <2>1. pc' # "send_agent" /\ pc = "wait" /\ host_side_agent_id' = host_side_agent_id
      BY <1>8 DEF HostOut, SetPoll, EpollCtl, order_vars
    <2>2. Alive' => "out" \notin fd_poll'[Host]
      BY <1>8, SetPollSets DEF HostOut, UnblockedMask, POLLOUT, TypeOK, PollTypes, Fds
    <2>3. PollTypes'
      BY <1>8, InboundKeepsMasks DEF Inbound, MaskInv
    <2> QED BY <1>8, <2>1, <2>2, <2>3, HostOutTypes DEF CursorInv
  <1>9. CASE SendHost
    <2>1. pc = "send_data_host" /\ cursor.agent_id \in Agents
      BY <1>9 DEF SendHost, CursorInv
    <2>2. pc' # "send_agent"
      BY <1>9 DEF SendHost, HostAccepts, HostCompletes, HostBlocks, HostSendFails, SetPoll, EpollCtl,
                  Unregister, Exit
    <2>3. PollTypes'
      BY <1>9, InboundKeepsMasks DEF Inbound, MaskInv
    <2>4. Alive' /\ "out" \in fd_poll'[Host] => host_side_agent_id' \in Agents
      <3>1. ASSUME host_side_agent_id' = host_side_agent_id,
                   Alive' => fd_poll'[Host] \in {fd_poll[Host], CLOSED}
            PROVE  Alive' /\ "out" \in fd_poll'[Host] => host_side_agent_id' \in Agents
        BY <2>1, <3>1 DEF CursorInv, Alive, Running, CLOSED
      <3>2. CASE UNCHANGED <<poll_vars, order_vars>>
        BY <3>1, <3>2 DEF poll_vars, order_vars
      <3>3. CASE \E p : HostAccepts(cursor.agent_id, p) /\ HostCompletes(cursor.agent_id, p)
        <4>1. \E mask, next : SetPoll(cursor.agent_id, mask, next)
          BY <3>3 DEF HostCompletes
        <4>2. Alive' => fd_poll'[Host] = fd_poll[Host]
          BY <2>1, <4>1, SetPollSets, TransferAssumption DEF TypeOK, PollTypes, Fds
        <4> QED BY <3>1, <3>3, <4>2 DEF HostCompletes
      <3>4. CASE \E p : HostBlocks(cursor.agent_id, p)
        BY <2>1, <3>4 DEF HostBlocks
      <3>5. CASE HostSendFails
        BY <3>1, <3>5 DEF HostSendFails, Unregister, Exit, poll_vars, order_vars, TypeOK, PollTypes, Fds,
                          Alive, Running
      <3> QED BY <1>9, <3>2, <3>3, <3>4, <3>5 DEF SendHost, HostAccepts, Exit
    <2> QED BY <1>9, <2>2, <2>3, <2>4, SendHostTypes DEF CursorInv
  <1>10. CASE HostSide \/ RemoteSide \/ Ended \/ UNCHANGED vars
    <2>1. UNCHANGED <<pc, cursor, packet, fd_poll, host_side_agent_id>>
      BY <1>10 DEF HostSide, HostWrites, HostReads, HostCloses, HostResets, RemoteSide, RemoteSends,
           Arrive, Drain, RemoteCloses, RemoteResets, Ended, process_vars, vars, poll_vars, send_vars,
           order_vars
    <2> QED BY <2>1 DEF CursorInv, Alive, Pending
  <1> QED BY <1>1, <1>2, <1>3, <1>4, <1>5, <1>6, <1>7, <1>8, <1>9, <1>10 DEF Next, Outbound, Inbound

(* Any step keeps StreamInv: only AgentIn, RemoteSends and Arrive matter.  *)
LEMMA StreamKept ==
  ASSUME TypeOK, PollTypes', StreamInv, [Next]_vars
  PROVE  StreamInv'
  <1>1. CASE UNCHANGED inbound_vars
    BY <1>1 DEF StreamInv, inbound_vars
  <1>2. ASSUME NEW i \in Agents, AgentIn(i)
        PROVE  StreamInv'
    BY <1>2, AgentInTypes
  <1>3. ASSUME NEW i \in Agents, RemoteSends(i)
        PROVE  StreamInv'
    <2> SUFFICES ASSUME NEW j \in Agents
                 PROVE  taken'[j] + avail'[j] <= Len(inq'[j]) * PacketLen
      BY DEF StreamInv
    <2>1. taken' = taken /\ avail' = avail /\ inq' = [inq EXCEPT ![i] = Append(@, in_seq)]
      BY <1>3 DEF RemoteSends
    <2>2. CASE j # i
      BY <2>1, <2>2 DEF StreamInv, TypeOK, InboundTypes
    <2>3. CASE j = i
      <3> DEFINE L == Len(inq[i])
      <3>1. L \in Nat /\ Len(inq'[i]) = L + 1
        BY <2>1 DEF TypeOK, InboundTypes
      <3>2. (L + 1) * PacketLen = L * PacketLen + PacketLen /\ L * PacketLen \in Nat
        <4> HIDE DEF L
        <4> QED BY <3>1, Positive
      <3>3. taken[i] + avail[i] <= L * PacketLen
        BY DEF StreamInv
      <3>4. taken[i] \in Nat /\ avail[i] \in Nat
        BY Positive DEF TypeOK, InboundTypes
      <3>5. taken[i] + avail[i] <= L * PacketLen + PacketLen
        <4> HIDE DEF L
        <4> QED BY <3>2, <3>3, <3>4, Positive
      <3> QED BY <2>1, <2>3, <3>1, <3>2, <3>5
    <2> QED BY <2>2, <2>3
  <1>4. ASSUME NEW i \in Agents, Arrive(i)
        PROVE  StreamInv'
    <2> SUFFICES ASSUME NEW j \in Agents
                 PROVE  taken'[j] + avail'[j] <= Len(inq'[j]) * PacketLen
      BY DEF StreamInv
    <2>1. /\ taken' = taken /\ avail' = [avail EXCEPT ![i] = @ + 1] /\ inq' = inq
          /\ InFlight(i) > 0
      BY <1>4 DEF Arrive
    <2>2. CASE j # i
      BY <2>1, <2>2 DEF StreamInv, TypeOK, InboundTypes
    <2>3. CASE j = i
      <3>1. Len(inq[i]) * PacketLen \in Nat
        BY Positive DEF TypeOK, InboundTypes
      <3>2. taken[i] \in Nat /\ avail[i] \in Nat
        BY Positive DEF TypeOK, InboundTypes
      <3> DEFINE total == Len(inq[i]) * PacketLen
      <3>3. total - taken[i] - avail[i] > 0
        BY <2>1, <2>3 DEF InFlight
      <3>4. taken[i] + (avail[i] + 1) <= total
        <4> HIDE DEF total
        <4>1. total \in Nat
          BY <3>1 DEF total
        <4> QED BY <3>2, <3>3, <4>1
      <3> QED BY <2>1, <2>3, <3>4 DEF TypeOK, InboundTypes
    <2> QED BY <2>2, <2>3
  <1> QED
    <2>1. CheckClosed \/ Outbound \/ HostOut \/ SendHost \/ HostSide \/ Ended \/ UNCHANGED vars
            => UNCHANGED inbound_vars
      BY DEF CheckClosed, Outbound, HostIn, AgentOut, RecvHost, ResumeSend, SendAgent, HostOut,
             SendHost, HostSide, HostWrites, HostReads, HostCloses, HostResets, Ended, vars
    <2>2. RemoteSide => UNCHANGED inbound_vars \/ \E i \in Agents : RemoteSends(i) \/ Arrive(i)
      BY DEF RemoteSide, Drain, RemoteCloses, RemoteResets
    <2> QED BY <1>1, <1>2, <1>3, <1>4, <2>1, <2>2 DEF Next, Inbound

(* Any step keeps the types.                                               *)
LEMMA TypesKept ==
  ASSUME TypeOK, MaskInv, CursorInv, StreamInv, [Next]_vars, PollTypes'
  PROVE  TypeOK'
  <1>1. CASE Ended \/ UNCHANGED vars
    BY <1>1, UnchangedTypes DEF Ended, vars, TypeOK
  <1> QED BY <1>1, CheckClosedTypes, OutboundTypesKept, AgentInTypes, HostOutTypes, SendHostTypes,
             HostSideTypes, RemoteSideTypes DEF Next, Inbound

-----------------------------------------------------------------------------
(* The inductive invariant.                                                *)

IInv == TypeOK /\ PollMatchesEpoll /\ CursorInv /\ StreamInv /\ PendingInv

(* IInv holds of the state configure_poll leaves.                          *)
LEMMA InitIInv ==
  ASSUME Init
  PROVE  IInv
  <1>1. PollTypes /\ PollMatchesEpoll
    BY DEF Init, PollTypes, PollMatchesEpoll, PollStates, POLLIN, CLOSED
  <1>2. SlotTypes
    BY Positive DEF Init, SlotTypes, SlotState
  <1>3. ControlTypes
    BY IdleType DEF Init, ControlTypes, Running
  <1>4. SendTypes
    BY Positive DEF Init, SendTypes, PacketState
  <1>5. OrderTypes
    BY Positive DEF Init, OrderTypes, Slots
  <1>6. HostTypes
    BY Positive DEF Init, HostTypes, PeerStates, Units
  <1>7. InboundTypes
    BY Positive DEF Init, InboundTypes
  <1>8. OutboundTypes /\ peer \in [Agents -> PeerStates]
    BY Positive DEF Init, OutboundTypes, Units, PeerStates
  <1>9. CursorInv
    BY DEF Init, CursorInv, POLLIN, Fds
  <1>10. StreamInv
    BY Positive DEF Init, StreamInv
  <1>11. PendingInv
    BY DEF Init, PendingInv, Pending
  <1> QED BY <1>1, <1>2, <1>3, <1>4, <1>5, <1>6, <1>7, <1>8, <1>9, <1>10, <1>11 DEF IInv, TypeOK

(* Every step preserves IInv.                                              *)
LEMMA NextIInv ==
  ASSUME IInv, [Next]_vars
  PROVE  IInv'
  <1> USE DEF IInv
  <1>1. MaskInv
    BY DEF MaskInv, TypeOK
  <1>2. MaskInv'
    BY <1>1, NextKeepsMasks
  <1>3. PollTypes' /\ PollMatchesEpoll'
    BY <1>2 DEF MaskInv
  <1>4. TypeOK'
    BY <1>1, <1>3, TypesKept
  <1>5. CursorInv'
    BY <1>1, NextKeepsCursor
  <1>6. StreamInv'
    BY <1>3, StreamKept
  <1>7. PendingInv'
    BY NextKeepsPending
  <1> QED BY <1>3, <1>4, <1>5, <1>6, <1>7

(* IInv holds throughout: it is what the theorems below follow from.       *)
THEOREM Invariant == Spec => []IInv
  BY InitIInv, NextIInv, PTL DEF Spec

(* Every variable keeps its type: nothing is read or sent beyond a packet  *)
(* or a buffer, and no handler takes a unit that has not arrived.          *)
THEOREM TypeCorrect == Spec => []TypeOK
  <1>1. IInv => TypeOK
    BY DEF IInv
  <1> QED BY <1>1, Invariant, PTL

(* No pending packet is left on a socket that nothing will report.         *)
THEOREM NoLostOutputWakeup == Spec => []PendingPolled
  <1>1. IInv => PendingPolled
    <2> SUFFICES ASSUME IInv, InLoop, NEW i \in Agents, Pending(i)
                 PROVE  "out" \in epoll[i] \/ fd_poll[i] = CLOSED \/ i \in closed
      BY DEF PendingPolled
    <2>1. Alive /\ pc # "send_agent"
      BY DEF InLoop, Alive, Running
    <2>2. Remembered(i)
      BY <2>1 DEF IInv, PendingInv
    <2>3. epoll[i] = fd_poll[i] \ CLOSED
      BY <2>1 DEF IInv, PollMatchesEpoll, Fds
    <2> QED BY <2>1, <2>2, <2>3 DEF Remembered, CLOSED
  <1> QED BY <1>1, Invariant, PTL

-----------------------------------------------------------------------------
(***************************************************************************)
(* Where the packets of the inbound direction are.  A number that the      *)
(* remote agent has used is at one place: on one socket, or in one slot    *)
(* that was read completely; the packet that is due is the one the host    *)
(* socket blocked on or is being given, and all that were read early are   *)
(* in the table.  It is what the order of delivery rests on, and it needs  *)
(* the parser to stay in step with the stream, because a packet leaves the *)
(* socket when its last unit is taken and gets its slot when the code      *)
(* thinks it is complete.                                                  *)
(***************************************************************************)

-----------------------------------------------------------------------------
(* Descriptors that are closed.                                            *)

(* A closed descriptor is not in the interest list.                        *)
ClosedUnpolled == Alive => \A f \in closed : epoll[f] = {}

(* The four things a step may do to the poll masks and to the descriptors. *)
LEMMA PollSteps ==
  ASSUME IInv, [Next]_vars
  PROVE  \/ CheckClosed
         \/ Alive /\ closed' = closed /\ \E new, next : EpollCtl(new, next)
         \/ Alive /\ \E f \in Fds, mask \in {OFF, CLOSED}, shut \in BOOLEAN : Unregister(f, mask, shut)
         \/ UNCHANGED <<poll_vars, closed>>
  <1> USE DEF Alive, Running
  <1> DEFINE Ctl == Alive /\ closed' = closed /\ \E new, next : EpollCtl(new, next)
             Del == Alive /\ \E f \in Fds, mask \in {OFF, CLOSED}, shut \in BOOLEAN : Unregister(f, mask, shut)
             Same == UNCHANGED <<poll_vars, closed>>
  <1>1. HostIn => Ctl \/ Same
    BY DEF HostIn, AllAgentsSocksFull, Exit
  <1>2. ASSUME NEW i \in Agents
        PROVE  /\ AgentOut(i) => Ctl \/ Same
               /\ RecvHost(i) => Del \/ Same
               /\ ResumeSend(i) => Ctl \/ Same
               /\ SendAgent(i) => Ctl \/ Del \/ Same
               /\ AgentIn(i) => Ctl \/ Del \/ Same
    <2>1. AgentOut(i) => Ctl \/ Same
      BY DEF AgentOut, NotAllAgentSocksFull
    <2>2. RecvHost(i) => Del \/ Same
      BY DEF RecvHost, Exit, Fds, IInv, TypeOK, HostTypes, PeerStates
    <2>3. ResumeSend(i) => Ctl \/ Same
      BY DEF ResumeSend, SetPoll, Exit
    <2>4. SendAgent(i) => Ctl \/ Del \/ Same
      BY DEF SendAgent, AgentAccepts, AgentBlocks, AgentSendFails, SetPoll, Exit, Fds
    <2>5. AgentIn(i) => Ctl \/ Del \/ Same
      BY DEF AgentIn, ReadPacket, ReadBlocks, ReadEnds, ReadFails, SetPoll, Exit, Fds
    <2> QED BY <2>1, <2>2, <2>3, <2>4, <2>5
  <1>3. HostOut => Ctl
    BY DEF HostOut, SetPoll
  <1>4. SendHost => Ctl \/ Del \/ Same
    BY DEF SendHost, HostAccepts, HostCompletes, HostBlocks, HostSendFails, SetPoll, Exit, Fds
  <1>5. HostSide \/ RemoteSide \/ Ended \/ UNCHANGED vars => Same
    BY DEF HostSide, HostWrites, HostReads, HostCloses, HostResets, RemoteSide, RemoteSends,
           Arrive, Drain, RemoteCloses, RemoteResets, Ended, process_vars, vars
  <1> QED BY <1>1, <1>2, <1>3, <1>4, <1>5 DEF Next, Outbound, Inbound

(* A descriptor stays closed, and a socket whose cached mask is CLOSED     *)
(* keeps it: whatever mask a handler computes, there is nothing to modify. *)
LEMMA ClosedIsFinal ==
  ASSUME IInv, ClosedUnpolled, [Next]_vars
  PROVE  /\ ClosedUnpolled'
         /\ closed \subseteq closed'
         /\ \A f \in Fds : fd_poll[f] = CLOSED => fd_poll'[f] = CLOSED
  <1> USE DEF ClosedUnpolled
  <1>1. closed \subseteq Fds
    BY DEF IInv, TypeOK, ControlTypes
  <1>2. Alive => \A f \in Fds : fd_poll[f] = CLOSED => epoll[f] = {}
    BY DEF IInv, PollMatchesEpoll
  <1>3. fd_poll \in [Fds -> PollStates] /\ epoll \in [Fds -> SUBSET {"in", "out"}]
    BY DEF IInv, TypeOK, PollTypes
  <1>4. CASE CheckClosed
    <2>1. Alive
      BY <1>4 DEF CheckClosed, Alive, Running
    <2> QED BY <1>1, <1>4, <2>1 DEF CheckClosed, Closable, Fds
  <1>5. ASSUME Alive, closed' = closed, NEW new, NEW next, EpollCtl(new, next)
        PROVE  /\ ClosedUnpolled'
               /\ \A f \in Fds : fd_poll[f] = CLOSED => fd_poll'[f] = CLOSED
    <2>1. CASE UNCHANGED poll_vars
      BY <1>5, <2>1 DEF poll_vars
    <2>2. CASE ~UNCHANGED poll_vars
      <3>1. /\ \A f \in Fds : new[f] # fd_poll[f] => CtlSucceeds(f, new[f])
            /\ fd_poll' = new
            /\ epoll' = [f \in Fds |-> IF new[f] = fd_poll[f] THEN epoll[f] ELSE new[f] \ CLOSED]
        BY <1>5, <2>2 DEF EpollCtl
      <3>2. \A f \in Fds : f \in closed \/ fd_poll[f] = CLOSED => new[f] = fd_poll[f]
        BY <1>2, <1>5, <3>1 DEF CtlSucceeds, OFF, CLOSED
      <3> QED BY <1>1, <1>5, <3>1, <3>2
    <2> QED BY <2>1, <2>2
  <1>6. ASSUME Alive, NEW f \in Fds, NEW mask \in {OFF, CLOSED}, NEW shut \in BOOLEAN,
               Unregister(f, mask, shut)
        PROVE  /\ ClosedUnpolled'
               /\ closed \subseteq closed'
               /\ \A g \in Fds : fd_poll[g] = CLOSED => fd_poll'[g] = CLOSED
    BY <1>1, <1>2, <1>3, <1>6 DEF Unregister, poll_vars
  <1>7. CASE UNCHANGED <<poll_vars, closed>>
    <2>1. Alive' => Alive
      BY DEF Next, Alive, Running, CheckClosed, Outbound, HostIn, AgentOut, RecvHost, ResumeSend,
             SendAgent, Inbound, HostOut, SendHost, AgentIn, HostSide, HostWrites, HostReads,
             HostCloses, HostResets, RemoteSide, RemoteSends, Arrive, Drain, RemoteCloses,
             RemoteResets, Ended, process_vars, vars
    <2> QED BY <1>7, <2>1 DEF poll_vars
  <1> QED BY <1>4, <1>5, <1>6, <1>7, PollSteps

-----------------------------------------------------------------------------
(* The numbers.                                                            *)

Number(i, p) == buffered_packet[i][p].seq_num

(* What is on the sockets is due or still to come; the numbers on a socket *)
(* increase, those on two are different.                                   *)
StreamNumbers ==
  /\ recv_seq <= in_seq
  /\ \A i \in Agents : \A k \in 1 .. Len(inq[i]) : recv_seq <= inq[i][k] /\ inq[i][k] < in_seq
  /\ \A i \in Agents : \A k, l \in 1 .. Len(inq[i]) : k < l => inq[i][k] < inq[i][l]
  /\ \A i, j \in Agents : i # j =>
       \A k \in 1 .. Len(inq[i]), l \in 1 .. Len(inq[j]) : inq[i][k] # inq[j][l]

(* So is what is in slots that were read completely: it was on its socket  *)
(* before what is still there.                                             *)
SlotNumbers ==
  \A i \in Agents, p \in Slots : Read(i, p) =>
    /\ recv_seq <= Number(i, p) /\ Number(i, p) < in_seq
    /\ \A k \in 1 .. Len(inq[i]) : Number(i, p) < inq[i][k]
    /\ \A j \in Agents \ {i} : \A k \in 1 .. Len(inq[j]) : Number(i, p) # inq[j][k]
    /\ \A j \in Agents, q \in Slots :
         Read(j, q) /\ Number(j, q) = Number(i, p) => i = j /\ p = q

(* What the host is being given is the packet that is due, and no other    *)
(* has blocked.                                                            *)
SendingNext ==
  pc = "send_data_host" =>
    /\ Read(cursor.agent_id, cursor.packet_index)
    /\ Number(cursor.agent_id, cursor.packet_index) = recv_seq
    /\ "out" \notin fd_poll[Host]

(* What the host socket blocked on is the packet that is due.              *)
BlockedNext ==
  "out" \in fd_poll[Host] =>
    /\ host_side_agent_id \in Agents
    /\ Read(host_side_agent_id, agent_packet_index_out)
    /\ Number(host_side_agent_id, agent_packet_index_out) = recv_seq

(* The table holds the packets that were read early, and all of them.      *)
TableEarly ==
  /\ \A e \in buffered_packet_table : Read(e[1], e[2]) /\ Number(e[1], e[2]) > recv_seq
  /\ \A i \in Agents, p \in Slots :
       Read(i, p) => Number(i, p) = recv_seq \/ <<i, p>> \in buffered_packet_table

OrderInv ==
  /\ ClosedUnpolled /\ FramingInStep
  /\ StreamNumbers /\ SlotNumbers
  /\ SendingNext /\ BlockedNext /\ TableEarly

-----------------------------------------------------------------------------
(* Steps that move no packet.                                              *)

queue_vars == <<slot_vars, order_vars, in_seq, inq, taken, delivered>>

(* Only three actions move packets of this direction: one reads them, one  *)
(* gives them to the host, one is the remote agent's.                      *)
LEMMA QuietSteps ==
  ASSUME [Next]_vars, ~SendHost,
         \A i \in Agents : ~AgentIn(i) /\ ~RemoteSends(i)
  PROVE  UNCHANGED queue_vars
  <1> USE DEF queue_vars, host_vars, inbound_vars
  <1>1. CheckClosed \/ HostIn \/ HostOut => UNCHANGED queue_vars
    BY DEF CheckClosed, HostIn, HostOut
  <1>2. ASSUME NEW i \in Agents, AgentOut(i) \/ RecvHost(i) \/ ResumeSend(i) \/ SendAgent(i)
        PROVE  UNCHANGED queue_vars
    BY <1>2 DEF AgentOut, RecvHost, ResumeSend, SendAgent
  <1>3. HostSide => UNCHANGED queue_vars
    BY DEF HostSide, HostWrites, HostReads, HostCloses, HostResets, process_vars
  <1>4. ASSUME NEW i \in Agents, Arrive(i) \/ Drain(i) \/ RemoteCloses(i) \/ RemoteResets(i)
        PROVE  UNCHANGED queue_vars
    BY <1>4 DEF Arrive, Drain, RemoteCloses, RemoteResets, process_vars
  <1>5. Ended \/ UNCHANGED vars => UNCHANGED queue_vars
    BY DEF Ended, vars
  <1> QED BY <1>1, <1>2, <1>3, <1>4, <1>5 DEF Next, Outbound, Inbound, RemoteSide

(* A process that has ended does not go on, and only a step that gives     *)
(* something to the host, or one that has found the host writable or the   *)
(* next packet complete, is followed by one that does.                     *)
LEMMA PcSteps ==
  ASSUME IInv, [Next]_vars
  PROVE  /\ pc \in Exits => pc' = pc
         /\ pc' = "send_data_host" =>
              SendHost \/ HostOut \/ (\E i \in Agents : AgentIn(i)) \/ UNCHANGED <<pc, cursor, poll_vars>>
  <1>1. pc \in Exits => Ended \/ RemoteSide \/ UNCHANGED vars
    BY DEF Next, Exits, Fatal, CheckClosed, Outbound, HostIn, AgentOut, RecvHost, ResumeSend,
           SendAgent, Inbound, HostOut, SendHost, AgentIn, HostSide, HostWrites, HostReads,
           HostCloses, HostResets, Alive, Running
  <1>2. CheckClosed \/ HostIn => pc' # "send_data_host"
    BY DEF CheckClosed, HostIn, Exit, AllAgentsSocksFull, EpollCtl
  <1>3. ASSUME NEW i \in Agents
        PROVE  AgentOut(i) \/ RecvHost(i) \/ ResumeSend(i) \/ SendAgent(i) => pc' # "send_data_host"
    <2>1. RecvHost(i) => pc' # "send_data_host"
      BY DEF RecvHost, Exit, Unregister, IInv, TypeOK, HostTypes, PeerStates
    <2>2. AgentOut(i) \/ ResumeSend(i) => pc' # "send_data_host"
      BY DEF AgentOut, NotAllAgentSocksFull, ResumeSend, SetPoll, EpollCtl, Exit
    <2>3. SendAgent(i) => pc' # "send_data_host"
      BY DEF SendAgent, AgentAccepts, AgentBlocks, AgentSendFails, SetPoll, EpollCtl, Unregister, Exit
    <2> QED BY <2>1, <2>2, <2>3
  <1>4. HostSide \/ RemoteSide \/ Ended \/ UNCHANGED vars => UNCHANGED <<pc, cursor, poll_vars>>
    BY DEF HostSide, HostWrites, HostReads, HostCloses, HostResets, RemoteSide, RemoteSends,
           Arrive, Drain, RemoteCloses, RemoteResets, Ended, process_vars, vars
  <1>5. pc \in Exits => pc' = pc
    BY <1>1, <1>4
  <1> QED BY <1>2, <1>3, <1>4, <1>5 DEF Next, Outbound, Inbound

(* Nobody but HostBlocks polls the host socket for output.                 *)
LEMMA HostOutputPoll ==
  ASSUME IInv, [Next]_vars, ~SendHost
  PROVE  "out" \in fd_poll'[Host] => "out" \in fd_poll[Host]
  <1> USE DEF poll_vars
  <1>1. fd_poll \in [Fds -> PollStates] /\ Host \in Fds /\ Host \notin Agents
    BY TransferAssumption DEF IInv, TypeOK, PollTypes, Fds
  <1>2. ASSUME NEW new, NEW next, EpollCtl(new, next)
        PROVE  fd_poll' = fd_poll \/ fd_poll' = new
    BY <1>2 DEF EpollCtl
  <1>3. ASSUME NEW f \in Fds, NEW mask, NEW shut, Unregister(f, mask, shut), "out" \notin mask
        PROVE  "out" \in fd_poll'[Host] => "out" \in fd_poll[Host]
    BY <1>1, <1>3 DEF Unregister
  <1>4. "out" \notin CLOSED /\ "out" \notin OFF
    BY DEF CLOSED, OFF
  <1>5. ASSUME NEW i \in Agents, NEW mask, NEW next, SetPoll(i, mask, next)
        PROVE  fd_poll'[Host] = fd_poll[Host]
    BY <1>1, <1>5 DEF SetPoll, EpollCtl, Fds
  <1>6. CASE CheckClosed
    BY <1>1, <1>6 DEF CheckClosed
  <1>7. CASE HostIn
    BY <1>1, <1>2, <1>7 DEF HostIn, Exit, AllAgentsSocksFull, FullMask
  <1>8. ASSUME NEW i \in Agents, AgentOut(i)
        PROVE  "out" \in fd_poll'[Host] => "out" \in fd_poll[Host]
    BY <1>1, <1>2, <1>8 DEF AgentOut, NotAllAgentSocksFull, NotFullMask, POLLIN
  <1>9. ASSUME NEW i \in Agents, RecvHost(i)
        PROVE  "out" \in fd_poll'[Host] => "out" \in fd_poll[Host]
    BY <1>1, <1>3, <1>4, <1>9 DEF RecvHost, Exit, IInv, TypeOK, HostTypes, PeerStates
  <1>10. ASSUME NEW i \in Agents, ResumeSend(i) \/ SendAgent(i)
         PROVE  "out" \in fd_poll'[Host] => "out" \in fd_poll[Host]
    <2>1. i \in Fds
      BY DEF Fds
    <2> QED BY <1>3, <1>4, <1>5, <1>10, <2>1
            DEF ResumeSend, SendAgent, AgentAccepts, AgentBlocks, AgentSendFails, Exit
  <1>11. ASSUME NEW i \in Agents, AgentIn(i)
         PROVE  "out" \in fd_poll'[Host] => "out" \in fd_poll[Host]
    <2>1. i \in Fds
      BY DEF Fds
    <2> QED BY <1>3, <1>4, <1>5, <1>11, <2>1
            DEF AgentIn, ReadPacket, ReadBlocks, ReadEnds, ReadFails, Exit
  <1>12. CASE HostOut
    BY <1>1, <1>12 DEF HostOut, SetPoll, EpollCtl, UnblockedMask
  <1>13. HostSide \/ RemoteSide \/ Ended \/ UNCHANGED vars => UNCHANGED poll_vars
    BY DEF HostSide, HostWrites, HostReads, HostCloses, HostResets, RemoteSide, RemoteSends,
           Arrive, Drain, RemoteCloses, RemoteResets, Ended, process_vars, vars
  <1> QED BY <1>6, <1>7, <1>8, <1>9, <1>10, <1>11, <1>12, <1>13 DEF Next, Outbound, Inbound

(* A socket that the code still reads was one before the step.             *)
LEMMA StillRead ==
  ASSUME IInv, ClosedUnpolled, [Next]_vars, NEW i \in Agents,
         pc' \notin Fatal, fd_poll'[i] # CLOSED, i \notin closed'
  PROVE  pc \notin Fatal /\ fd_poll[i] # CLOSED /\ i \notin closed
  BY ClosedIsFinal, PcSteps DEF Fds, Exits

(* A step that moves no packet leaves every packet where it was.           *)
LEMMA QuietKeepsOrder ==
  ASSUME IInv, OrderInv, [Next]_vars, UNCHANGED queue_vars, ~SendHost, \A i \in Agents : ~AgentIn(i)
  PROVE  OrderInv'
  <1> USE DEF queue_vars, slot_vars, order_vars
  <1>1. FramingInStep'
    BY StillRead DEF OrderInv, FramingInStep, Progress
  <1>2. StreamNumbers' /\ SlotNumbers' /\ TableEarly'
    BY DEF OrderInv, StreamNumbers, SlotNumbers, TableEarly, Read, Number
  <1>3. BlockedNext'
    BY HostOutputPoll DEF OrderInv, BlockedNext, Read, Number
  <1>4. SendingNext'
    <2>1. CASE HostOut
      <3>1. "out" \in fd_poll[Host]
        BY <2>1 DEF HostOut, IInv, PollMatchesEpoll, Alive, Running, Fds
      <3>2. /\ cursor'.agent_id = host_side_agent_id
            /\ cursor'.packet_index = agent_packet_index_out
            /\ pc' = "send_data_host" => "out" \notin fd_poll'[Host]
        <4>1. pc' = "send_data_host" => fd_poll'[Host] = UnblockedMask(Host)
          BY <2>1, SetPollSets DEF HostOut, Alive, Running, IInv, TypeOK, PollTypes, Fds
        <4> QED BY <2>1, <4>1 DEF HostOut, UnblockedMask, POLLOUT
      <3> QED BY <3>1, <3>2 DEF OrderInv, BlockedNext, SendingNext, Read, Number
    <2>2. CASE ~HostOut
      <3>1. pc' = "send_data_host" => UNCHANGED <<pc, cursor, poll_vars>>
        BY <2>2, PcSteps
      <3> QED BY <3>1 DEF OrderInv, SendingNext, Read, Number, poll_vars
    <2> QED BY <2>1, <2>2
  <1> QED BY <1>1, <1>2, <1>3, <1>4, ClosedIsFinal DEF OrderInv

-----------------------------------------------------------------------------
(* Reading a socket.                                                       *)

(* The slot that is read into: the one of an earlier call, or a free one.  *)
Filling(i, p) ==
  IF agent_packet_index_in[i] = EMPTY THEN p \in FreeSlots(i) ELSE p = agent_packet_index_in[i]

(* The slots other than p of socket i keep what they hold.                 *)
OtherSlotsKept(i, p) ==
  \A j \in Agents, q \in Slots : j # i \/ q # p => buffered_packet'[j][q] = buffered_packet[j][q]

(* What one call leaves when the packet is not complete ...                *)
PartOfPacket(i, p) ==
  /\ Reached(i) < PacketLen
  /\ inq' = inq
  /\ taken' = [taken EXCEPT ![i] = Reached(i)]
  /\ agent_packet_index_in' = [agent_packet_index_in EXCEPT ![i] = p]
  /\ UNCHANGED <<buffered_packet_table, agent_packet_index_out>>
  /\ pc' # "send_data_host"
  /\ pc' \notin Fatal /\ fd_poll'[i] # CLOSED /\ i \notin closed' => Progress(i)' = Reached(i)

(* ... and when it is.                                                     *)
WholePacket(i, p) ==
  /\ inq[i] # <<>>
  /\ inq' = [inq EXCEPT ![i] = Tail(@)]
  /\ taken' = [taken EXCEPT ![i] = 0]
  /\ agent_packet_index_in' = [agent_packet_index_in EXCEPT ![i] = EMPTY]
  /\ buffered_packet'[i][p].in_use
  /\ buffered_packet'[i][p].seq_num = Head(inq[i])
  /\ IF IsNext(Head(inq[i]))
     THEN /\ agent_packet_index_out' = p
          /\ cursor'.agent_id = i /\ cursor'.packet_index = p /\ cursor'.size_count = 0
          /\ UNCHANGED buffered_packet_table
     ELSE /\ buffered_packet_table' = buffered_packet_table \union {<<i, p>>}
          /\ UNCHANGED <<agent_packet_index_out, cursor>>
          /\ pc' # "send_data_host"

(* The event that a socket has, when the parser is in step with it.        *)
LEMMA AgentInFills ==
  ASSUME IInv, ClosedUnpolled, FramingInStep, NEW i \in Agents, AgentIn(i)
  PROVE  /\ Alive /\ fd_poll[i] # CLOSED /\ i \notin closed
         /\ Progress(i) = taken[i]
         /\ UNCHANGED <<in_seq, recv_seq, host_side_agent_id, delivered>>
         /\ \/ /\ pc' = "no_free_index"
               /\ agent_packet_index_in[i] = EMPTY /\ FreeSlots(i) = {}
               /\ UNCHANGED <<queue_vars, poll_vars, cursor, closed>>
            \/ \E p \in Slots :
                 /\ Filling(i, p)
                 /\ Take(i, Readable(i)) /\ CountHeader(i)
                 /\ \/ ReadPacket(i, p)
                    \/ /\ ReadBlocks(i, p) \/ ReadEnds(i, p) \/ ReadFails(i, p)
                       /\ UNCHANGED <<buffered_packet_table, agent_packet_index_out, cursor>>
  <1>1. Alive /\ pc \notin Fatal
    BY DEF AgentIn, Alive, Running, Fatal
  <1>2. fd_poll[i] # CLOSED /\ i \notin closed
    BY <1>1 DEF AgentIn, ClosedUnpolled, IInv, PollMatchesEpoll, CLOSED, Fds
  <1>3. Progress(i) = taken[i]
    BY <1>1, <1>2 DEF FramingInStep
  <1>4. UNCHANGED <<in_seq, recv_seq, host_side_agent_id, delivered>>
    BY DEF AgentIn, order_vars, inbound_vars, host_vars
  <1>5. CASE agent_packet_index_in[i] = EMPTY /\ FreeSlots(i) = {}
    BY <1>1, <1>2, <1>3, <1>4, <1>5
       DEF AgentIn, Exit, queue_vars, slot_vars, order_vars, inbound_vars, host_vars
  <1>6. CASE ~(agent_packet_index_in[i] = EMPTY /\ FreeSlots(i) = {})
    <2> DEFINE p == IF agent_packet_index_in[i] = EMPTY THEN FirstFree(i)
                    ELSE agent_packet_index_in[i]
    <2>1. p \in Slots /\ Filling(i, p)
      BY <1>6, FirstFreeIsFree DEF FreeSlots, Filling, IInv, TypeOK, SlotTypes
    <2>2. /\ Take(i, Readable(i)) /\ CountHeader(i)
          /\ \/ ReadPacket(i, p)
             \/ /\ ReadBlocks(i, p) \/ ReadEnds(i, p) \/ ReadFails(i, p)
                /\ UNCHANGED <<buffered_packet_table, agent_packet_index_out, cursor>>
      BY <1>6 DEF AgentIn
    <2> HIDE DEF p
    <2> QED BY <1>1, <1>2, <1>3, <1>4, <2>1, <2>2
  <1> QED BY <1>5, <1>6

(* The position in the stream moves with what the code thinks it has read. *)
LEMMA TakeMoves ==
  ASSUME IInv, NEW i \in Agents, Progress(i) = taken[i], Take(i, Readable(i))
  PROVE  /\ Reached(i) \in 0 .. PacketLen
         /\ Reached(i) < PacketLen => inq' = inq /\ taken' = [taken EXCEPT ![i] = Reached(i)]
         /\ Reached(i) = PacketLen => /\ inq[i] # <<>>
                                      /\ inq' = [inq EXCEPT ![i] = Tail(@)]
                                      /\ taken' = [taken EXCEPT ![i] = 0]
  <1> DEFINE r == Reached(i)
  <1>1. /\ r \in 0 .. PacketLen /\ r = taken[i] + Readable(i)
        /\ taken[i] \in 0 .. PacketLen - 1 /\ Readable(i) \in 0 .. PacketLen
        /\ PacketLen \in Nat \ {0}
    BY ReadableType, Positive DEF IInv
  <1>2. /\ r < PacketLen => (taken[i] + Readable(i)) % PacketLen = r
        /\ r = PacketLen => (taken[i] + Readable(i)) % PacketLen = 0
    <2> DEFINE m == PacketLen
               t == taken[i]
               n == Readable(i)
    <2> HIDE DEF m, t, n, r
    <2>1. m \in Nat \ {0} /\ t \in 0 .. m - 1 /\ n \in 0 .. m /\ r = t + n
      BY <1>1 DEF m, t, n
    <2>2. /\ t + n < m => (t + n) % m = t + n
          /\ t + n >= m => (t + n) % m = t + n - m
      BY <2>1, WrapAround
    <2>3. /\ r < m => (t + n) % m = r
          /\ r = m => (t + n) % m = 0
      BY <2>1, <2>2
    <2> QED BY <2>3 DEF m, t, n
  <1>3. /\ taken' = [taken EXCEPT ![i] = (taken[i] + Readable(i)) % PacketLen]
        /\ inq' = IF r = PacketLen THEN [inq EXCEPT ![i] = Tail(@)] ELSE inq
    BY <1>1 DEF Take
  <1>4. r = PacketLen => inq[i] # <<>>
    <2> SUFFICES ASSUME r = PacketLen, inq[i] = <<>>
                 PROVE  FALSE
      OBVIOUS
    <2>1. Len(inq[i]) = 0 /\ Len(inq[i]) * PacketLen = 0
      BY Positive
    <2>2. taken[i] + avail[i] <= 0 /\ taken[i] \in Nat /\ avail[i] \in Nat
      BY <2>1, Positive DEF IInv, StreamInv, TypeOK, InboundTypes
    <2>3. Readable(i) <= avail[i]
      BY ReadableType DEF IInv
    <2> QED BY <1>1, <2>2, <2>3
  <1> QED BY <1>1, <1>2, <1>3, <1>4

(* The three ways in which a packet is not complete yet.                   *)
LEMMA PartEffect ==
  ASSUME IInv, NEW i \in Agents, NEW p \in Slots, pc = "wait", AgentReadable(i),
         Progress(i) = taken[i], Filling(i, p), Take(i, Readable(i)),
         ReadBlocks(i, p) \/ ReadEnds(i, p) \/ ReadFails(i, p),
         UNCHANGED <<buffered_packet_table, agent_packet_index_out, cursor>>
  PROVE  PartOfPacket(i, p) /\ OtherSlotsKept(i, p)
  <1>1. Reached(i) < PacketLen
    BY DEF ReadBlocks, ReadEnds, ReadFails
  <1>2. inq' = inq /\ taken' = [taken EXCEPT ![i] = Reached(i)]
    BY <1>1, TakeMoves
  <1>3. agent_packet_index_in' = [agent_packet_index_in EXCEPT ![i] = p]
    BY DEF ReadBlocks, ReadEnds, ReadFails
  <1>4. pc' # "send_data_host"
    BY DEF ReadBlocks, ReadEnds, ReadFails, Exit, Unregister
  <1>5. OtherSlotsKept(i, p)
    <2>1. buffered_packet \in SlotArray
      BY DEF IInv, TypeOK, SlotTypes, SlotArray
    <2>2. ASSUME NEW used, buffered_packet' = [buffered_packet EXCEPT ![i][p].in_use = used]
          PROVE  OtherSlotsKept(i, p)
      BY <2>1, <2>2 DEF OtherSlotsKept, SlotArray
    <2>3. ASSUME NEW n, buffered_packet' = [StopAt(i, p, n) EXCEPT ![i][p].in_use = TRUE]
          PROVE  OtherSlotsKept(i, p)
      <3> DEFINE s == StopAt(i, p, n)
      <3>1. /\ \A j \in Agents, q \in Slots : j # i \/ q # p => s[j][q] = buffered_packet[j][q]
            /\ DOMAIN s = Agents /\ \A j \in Agents : DOMAIN s[j] = Slots
        BY <2>1 DEF StopAt, SlotArray
      <3> HIDE DEF s
      <3>2. \A j \in Agents, q \in Slots : j # i \/ q # p => buffered_packet'[j][q] = s[j][q]
        BY <2>3, <3>1 DEF s
      <3> QED BY <3>1, <3>2 DEF OtherSlotsKept
    <2> QED BY <2>2, <2>3 DEF ReadBlocks, ReadEnds, ReadFails
  <1>6. ASSUME pc' \notin Fatal, fd_poll'[i] # CLOSED, i \notin closed'
        PROVE  Progress(i)' = Reached(i)
    <2>1. ReadBlocks(i, p)
      <3>1. ~Exit("recv_error")
        BY <1>6 DEF Exit, Fatal
      <3>2. \A shut : ~Unregister(i, CLOSED, shut)
        BY <1>6 DEF Unregister, Fatal, IInv, TypeOK, PollTypes, Fds
      <3> QED BY <3>1, <3>2 DEF ReadEnds, ReadFails
    <2>2. Reached(i) # 0 /\ Reached(i) \in 0 .. PacketLen
      BY <1>6, <2>1, ReadableType DEF ReadBlocks, Exit, Fatal, IInv
    <2>3. agent_packet_index_in'[i] = p /\ p # EMPTY
      BY <1>3, Positive DEF IInv, TypeOK, SlotTypes, Slots, EMPTY
    <2>4. CASE Reached(i) < HeaderLen
      <3>1. agent_needed_header_size'[i] = Reached(i)
        BY <2>1, <2>4 DEF ReadBlocks, IInv, TypeOK, SlotTypes
      <3> QED BY <2>2, <2>3, <3>1 DEF Progress
    <2>5. CASE ~(Reached(i) < HeaderLen)
      <3>1. agent_needed_header_size'[i] = 0
        BY <2>1, <2>5 DEF ReadBlocks, IInv, TypeOK, SlotTypes
      <3>2. buffered_packet'[i][p].host_sent_size = Reached(i) - HeaderLen
        BY <2>1, <2>5 DEF ReadBlocks, StopAt, IInv, TypeOK, SlotTypes, SlotState
      <3> QED BY <2>2, <2>3, <3>1, <3>2, Positive DEF Progress
    <2> QED BY <2>4, <2>5
  <1> QED BY <1>1, <1>2, <1>3, <1>4, <1>5, <1>6 DEF PartOfPacket

(* The way in which it is.                                                 *)
LEMMA WholeEffect ==
  ASSUME IInv, NEW i \in Agents, NEW p \in Slots,
         Progress(i) = taken[i], Take(i, Readable(i)), ReadPacket(i, p)
  PROVE  WholePacket(i, p) /\ OtherSlotsKept(i, p)
  <1>1. Reached(i) = PacketLen
    BY DEF ReadPacket
  <1>2. /\ inq[i] # <<>>
        /\ inq' = [inq EXCEPT ![i] = Tail(@)]
        /\ taken' = [taken EXCEPT ![i] = 0]
    BY <1>1, TakeMoves
  <1>3. buffered_packet \in SlotArray
    BY DEF IInv, TypeOK, SlotTypes, SlotArray
  <1>4. /\ OtherSlotsKept(i, p)
        /\ buffered_packet'[i][p].in_use
        /\ buffered_packet'[i][p].seq_num = Head(inq[i])
    BY <1>3 DEF ReadPacket, OtherSlotsKept, SlotArray, SlotState
  <1>5. agent_packet_index_in' = [agent_packet_index_in EXCEPT ![i] = EMPTY]
    BY DEF ReadPacket
  <1>6. CASE IsNext(Head(inq[i]))
    BY <1>2, <1>4, <1>5, <1>6 DEF ReadPacket, WholePacket, Idle
  <1>7. CASE ~IsNext(Head(inq[i]))
    <2>1. pc' # "send_data_host"
      BY <1>7 DEF ReadPacket, SetPoll, EpollCtl
    <2> QED BY <1>2, <1>4, <1>5, <1>7, <2>1 DEF ReadPacket, WholePacket
  <1> QED BY <1>6, <1>7

(* Reading a part of a packet completes no packet and moves none.          *)
LEMMA PartReads ==
  ASSUME IInv, NEW i \in Agents, NEW p \in Slots,
         Filling(i, p), PartOfPacket(i, p), OtherSlotsKept(i, p)
  PROVE  \A j \in Agents, q \in Slots :
           (Read(j, q)' <=> Read(j, q)) /\ (Read(j, q) => Number(j, q)' = Number(j, q))
  <1>1. agent_packet_index_in \in [Agents -> Slots \union {EMPTY}]
    BY DEF IInv, TypeOK, SlotTypes
  <1>2. agent_packet_index_in'[i] = p /\ \A j \in Agents : j # i => agent_packet_index_in'[j] = agent_packet_index_in[j]
    BY <1>1 DEF PartOfPacket
  <1>3. ~Read(i, p) /\ ~Read(i, p)'
    BY <1>2 DEF Read, Filling, FreeSlots
  <1>4. ASSUME NEW j \in Agents, NEW q \in Slots
        PROVE  (Read(j, q)' <=> Read(j, q)) /\ (Read(j, q) => Number(j, q)' = Number(j, q))
    <2>1. CASE j = i /\ q = p
      BY <1>3, <2>1
    <2>2. CASE j = i /\ q # p
      <3>1. agent_packet_index_in[i] # EMPTY => agent_packet_index_in[i] = p
        BY DEF Filling
      <3>2. EMPTY # q
        BY Positive DEF Slots, EMPTY
      <3> QED BY <1>2, <2>2, <3>1, <3>2 DEF Read, Number, OtherSlotsKept
    <2>3. CASE j # i
      BY <1>2, <2>3 DEF Read, Number, OtherSlotsKept
    <2> QED BY <2>1, <2>2, <2>3
  <1> QED BY <1>4

(* So the order stays.                                                     *)
LEMMA PartKeepsOrder ==
  ASSUME IInv, OrderInv, [Next]_vars, NEW i \in Agents, NEW p \in Slots, AgentIn(i),
         Filling(i, p), PartOfPacket(i, p), OtherSlotsKept(i, p),
         UNCHANGED <<in_seq, recv_seq, host_side_agent_id>>
  PROVE  OrderInv'
  <1> USE DEF OrderInv
  <1>1. agent_packet_index_in \in [Agents -> Slots \union {EMPTY}]
    BY DEF IInv, TypeOK, SlotTypes
  <1>2. agent_packet_index_in'[i] = p /\ \A j \in Agents : j # i => agent_packet_index_in'[j] = agent_packet_index_in[j]
    BY <1>1 DEF PartOfPacket
  <1>4. \A j \in Agents, q \in Slots :
          (Read(j, q)' <=> Read(j, q)) /\ (Read(j, q) => Number(j, q)' = Number(j, q))
    BY PartReads
  <1>5. FramingInStep'
    <2> SUFFICES ASSUME NEW j \in Agents, pc' \notin Fatal, fd_poll'[j] # CLOSED, j \notin closed'
                 PROVE  Progress(j)' = taken'[j]
      BY DEF FramingInStep
    <2>1. CASE j = i
      BY <2>1 DEF PartOfPacket, IInv, TypeOK, InboundTypes
    <2>2. CASE j # i
      <3>1. Progress(j) = taken[j]
        BY StillRead DEF FramingInStep
      <3>2. agent_needed_header_size'[j] = agent_needed_header_size[j]
        BY <2>2 DEF AgentIn, ReadPacket, ReadBlocks, ReadEnds, ReadFails, slot_vars, IInv, TypeOK, SlotTypes
      <3>3. Progress(j)' = Progress(j)
        BY <1>1, <1>2, <2>2, <3>2 DEF Progress, OtherSlotsKept
      <3> QED BY <2>2, <3>1, <3>3 DEF PartOfPacket, IInv, TypeOK, InboundTypes
    <2> QED BY <2>1, <2>2
  <1>6. StreamNumbers'
    <2>1. inq' = inq /\ in_seq' = in_seq /\ recv_seq' = recv_seq
      BY DEF PartOfPacket
    <2> QED BY <2>1 DEF StreamNumbers
  <1>7. SlotNumbers'
    BY <1>4 DEF SlotNumbers, PartOfPacket
  <1>8. TableEarly'
    BY <1>4 DEF TableEarly, PartOfPacket, IInv, TypeOK, OrderTypes
  <1>9. BlockedNext'
    BY <1>4, HostOutputPoll DEF AgentIn, SendHost, BlockedNext, PartOfPacket, IInv, TypeOK, OrderTypes
  <1>10. SendingNext'
    BY DEF SendingNext, PartOfPacket
  <1> QED BY <1>5, <1>6, <1>7, <1>8, <1>9, <1>10, ClosedIsFinal

(* Taking the packet at the head of a socket.                              *)
LEMMA HeadTaken ==
  ASSUME IInv, NEW i \in Agents, inq[i] # <<>>, inq' = [inq EXCEPT ![i] = Tail(@)]
  PROVE  /\ Head(inq[i]) \in Nat /\ Head(inq[i]) = inq[i][1]
         /\ Len(inq[i]) \in Nat /\ 1 \in 1 .. Len(inq[i])
         /\ \A j \in Agents : j # i => inq'[j] = inq[j]
         /\ \A k \in 1 .. Len(inq'[i]) :
              /\ k + 1 \in 1 .. Len(inq[i]) /\ 1 < k + 1
              /\ inq'[i][k] = inq[i][k + 1]
  <1>1. inq \in [Agents -> Seq(Nat)]
    BY DEF IInv, TypeOK, InboundTypes
  <1>2. inq[i] \in Seq(Nat) /\ inq'[i] = Tail(inq[i])
    BY <1>1
  <1>3. /\ Head(inq[i]) \in Nat /\ Head(inq[i]) = inq[i][1]
        /\ Len(inq[i]) \in Nat /\ 1 \in 1 .. Len(inq[i])
        /\ Len(Tail(inq[i])) = Len(inq[i]) - 1
        /\ \A k \in 1 .. Len(inq[i]) - 1 : Tail(inq[i])[k] = inq[i][k + 1]
    BY <1>2
  <1> QED BY <1>1, <1>2, <1>3

(* A packet that is complete is in its slot, the others stay in theirs.    *)
LEMMA WholeReads ==
  ASSUME IInv, NEW i \in Agents, NEW p \in Slots,
         Filling(i, p), WholePacket(i, p), OtherSlotsKept(i, p)
  PROVE  /\ ~Read(i, p) /\ Read(i, p)' /\ Number(i, p)' = Head(inq[i])
         /\ \A j \in Agents, q \in Slots : j # i \/ q # p =>
              (Read(j, q)' <=> Read(j, q)) /\ (Read(j, q) => Number(j, q)' = Number(j, q))
  <1>1. agent_packet_index_in \in [Agents -> Slots \union {EMPTY}] /\ EMPTY \notin Slots
    BY Positive DEF IInv, TypeOK, SlotTypes, Slots, EMPTY
  <1>2. ~Read(i, p) /\ Read(i, p)' /\ Number(i, p)' = Head(inq[i])
    BY <1>1 DEF Read, Number, Filling, FreeSlots, WholePacket
  <1>3. ASSUME NEW j \in Agents, NEW q \in Slots, j # i \/ q # p
        PROVE  (Read(j, q)' <=> Read(j, q)) /\ (Read(j, q) => Number(j, q)' = Number(j, q))
    <2>1. buffered_packet'[j][q] = buffered_packet[j][q]
      BY <1>3 DEF OtherSlotsKept
    <2>2. \/ agent_packet_index_in'[j] # q /\ agent_packet_index_in[j] # q
          \/ agent_packet_index_in'[j] = agent_packet_index_in[j]
      BY <1>1, <1>3 DEF WholePacket, Filling
    <2> QED BY <2>1, <2>2 DEF Read, Number
  <1> QED BY <1>2, <1>3

(* It has left its socket, and the order stays.                            *)
LEMMA WholeKeepsOrder ==
  ASSUME IInv, OrderInv, [Next]_vars, NEW i \in Agents, NEW p \in Slots, AgentIn(i),
         Filling(i, p), WholePacket(i, p), OtherSlotsKept(i, p),
         UNCHANGED <<in_seq, recv_seq, host_side_agent_id>>
  PROVE  OrderInv'
  <1> DEFINE n == Head(inq[i])
  <1>1. agent_packet_index_in \in [Agents -> Slots \union {EMPTY}] /\ EMPTY \notin Slots
    BY Positive DEF IInv, TypeOK, SlotTypes, Slots, EMPTY
  <1>2. ~Read(i, p) /\ Read(i, p)' /\ Number(i, p)' = n
    BY WholeReads
  <1>3. \A j \in Agents, q \in Slots : j # i \/ q # p =>
          (Read(j, q)' <=> Read(j, q)) /\ (Read(j, q) => Number(j, q)' = Number(j, q))
    BY WholeReads
  <1>4. /\ n \in Nat /\ n = inq[i][1] /\ 1 \in 1 .. Len(inq[i]) /\ Len(inq[i]) \in Nat
        /\ \A j \in Agents : j # i => inq'[j] = inq[j]
        /\ \A k \in 1 .. Len(inq'[i]) : /\ k + 1 \in 1 .. Len(inq[i]) /\ 1 < k + 1
                                        /\ inq'[i][k] = inq[i][k + 1]
    BY HeadTaken DEF WholePacket
  <1>5. recv_seq <= n /\ n < in_seq
    BY <1>4 DEF OrderInv, StreamNumbers
  <1>6. \A k \in 1 .. Len(inq'[i]) : n < inq'[i][k]
    BY <1>4 DEF OrderInv, StreamNumbers
  <1>7. \A j \in Agents \ {i} : \A k \in 1 .. Len(inq[j]) : n # inq[j][k]
    BY <1>4 DEF OrderInv, StreamNumbers
  <1>8. \A j \in Agents, q \in Slots : Read(j, q) => Number(j, q) # n
    <2> SUFFICES ASSUME NEW j \in Agents, NEW q \in Slots, Read(j, q), Number(j, q) = n
                 PROVE  FALSE
      OBVIOUS
    <2>1. CASE j = i
      <3>1. Number(j, q) < inq[i][1]
        BY <1>4, <2>1 DEF OrderInv, SlotNumbers
      <3> QED BY <1>4, <3>1
    <2>2. CASE j # i
      <3>1. Number(j, q) # inq[i][1]
        BY <1>4, <2>2 DEF OrderInv, SlotNumbers
      <3> QED BY <1>4, <3>1
    <2> QED BY <2>1, <2>2
  <1> HIDE DEF n
  <1>9. StreamNumbers'
    <2>1. \A j \in Agents : \A k \in 1 .. Len(inq'[j]) :
            \E l \in 1 .. Len(inq[j]) : inq'[j][k] = inq[j][l] /\ l = IF j = i THEN k + 1 ELSE k
      BY <1>4
    <2>2. recv_seq <= in_seq
      BY DEF OrderInv, StreamNumbers
    <2>3. ASSUME NEW j \in Agents, NEW k \in 1 .. Len(inq'[j])
          PROVE  recv_seq <= inq'[j][k] /\ inq'[j][k] < in_seq
      <3>1. PICK l \in 1 .. Len(inq[j]) : inq'[j][k] = inq[j][l]
        BY <2>1
      <3>2. recv_seq <= inq[j][l] /\ inq[j][l] < in_seq
        BY DEF OrderInv, StreamNumbers
      <3> QED BY <3>1, <3>2
    <2>4. ASSUME NEW j \in Agents, NEW k \in 1 .. Len(inq'[j]), NEW l \in 1 .. Len(inq'[j]), k < l
          PROVE  inq'[j][k] < inq'[j][l]
      <3>1. CASE j = i
        <4>1. k + 1 < l + 1
          BY <2>4
        <4> QED BY <1>4, <3>1, <4>1 DEF OrderInv, StreamNumbers
      <3>2. CASE j # i
        BY <1>4, <2>4, <3>2 DEF OrderInv, StreamNumbers
      <3> QED BY <3>1, <3>2
    <2>5. ASSUME NEW j \in Agents, NEW m \in Agents, j # m,
                 NEW k \in 1 .. Len(inq'[j]), NEW l \in 1 .. Len(inq'[m])
          PROVE  inq'[j][k] # inq'[m][l]
      <3>1. PICK k1 \in 1 .. Len(inq[j]) : inq'[j][k] = inq[j][k1]
        BY <2>1
      <3>2. PICK l1 \in 1 .. Len(inq[m]) : inq'[m][l] = inq[m][l1]
        BY <2>1
      <3>3. inq[j][k1] # inq[m][l1]
        BY <2>5 DEF OrderInv, StreamNumbers
      <3> QED BY <3>1, <3>2, <3>3
    <2> QED BY <2>2, <2>3, <2>4, <2>5 DEF StreamNumbers
  <1>10. SlotNumbers'
    <2> SUFFICES ASSUME NEW j \in Agents, NEW q \in Slots, Read(j, q)'
                 PROVE  /\ recv_seq' <= Number(j, q)' /\ Number(j, q)' < in_seq'
                        /\ \A k \in 1 .. Len(inq'[j]) : Number(j, q)' < inq'[j][k]
                        /\ \A m \in Agents \ {j} : \A k \in 1 .. Len(inq'[m]) : Number(j, q)' # inq'[m][k]
                        /\ \A m \in Agents, r \in Slots :
                             Read(m, r)' /\ Number(m, r)' = Number(j, q)' => j = m /\ q = r
      BY DEF SlotNumbers
    <2>1. CASE j = i /\ q = p
      <3>1. Number(j, q)' = n
        BY <1>2, <2>1
      <3>2. \A m \in Agents, r \in Slots : Read(m, r)' /\ Number(m, r)' = n => i = m /\ p = r
        BY <1>3, <1>8
      <3> QED BY <1>4, <1>5, <1>6, <1>7, <2>1, <3>1, <3>2
    <2>2. CASE j # i \/ q # p
      <3>1. Read(j, q) /\ Number(j, q)' = Number(j, q)
        BY <1>3, <2>2
      <3>2. recv_seq <= Number(j, q) /\ Number(j, q) < in_seq
        BY <3>1 DEF OrderInv, SlotNumbers
      <3>3. \A k \in 1 .. Len(inq'[j]) : Number(j, q) < inq'[j][k]
        BY <1>4, <3>1 DEF OrderInv, SlotNumbers
      <3>4. \A m \in Agents \ {j} : \A k \in 1 .. Len(inq'[m]) : Number(j, q) # inq'[m][k]
        BY <1>4, <3>1 DEF OrderInv, SlotNumbers
      <3>5. ASSUME NEW m \in Agents, NEW r \in Slots, Read(m, r)', Number(m, r)' = Number(j, q)
            PROVE  j = m /\ q = r
        <4>1. m # i \/ r # p
          BY <1>2, <1>8, <3>1, <3>5
        <4> QED BY <1>3, <3>1, <3>5, <4>1 DEF OrderInv, SlotNumbers
      <3> QED BY <3>1, <3>2, <3>3, <3>4, <3>5
    <2> QED BY <2>1, <2>2
  <1>11. TableEarly'
    <2>1. buffered_packet_table \subseteq Agents \X Slots
      BY DEF IInv, TypeOK, OrderTypes
    <2>2. buffered_packet_table' =
            IF n = recv_seq THEN buffered_packet_table ELSE buffered_packet_table \union {<<i, p>>}
      BY DEF WholePacket, IsNext, n
    <2>3. recv_seq \in Nat
      BY DEF IInv, TypeOK, OrderTypes
    <2>4. ASSUME NEW e \in buffered_packet_table'
          PROVE  Read(e[1], e[2])' /\ Number(e[1], e[2])' > recv_seq
      <3>1. CASE e \in buffered_packet_table
        <4>1. e[1] \in Agents /\ e[2] \in Slots /\ Read(e[1], e[2]) /\ Number(e[1], e[2]) > recv_seq
          BY <2>1, <3>1 DEF OrderInv, TableEarly
        <4> QED BY <1>2, <1>3, <4>1
      <3>2. CASE e = <<i, p>> /\ n # recv_seq
        BY <1>2, <1>4, <1>5, <2>3, <3>2
      <3> QED BY <2>2, <3>1, <3>2
    <2>5. ASSUME NEW j \in Agents, NEW q \in Slots, Read(j, q)'
          PROVE  Number(j, q)' = recv_seq \/ <<j, q>> \in buffered_packet_table'
      <3>1. CASE j = i /\ q = p
        BY <1>2, <2>2, <3>1
      <3>2. CASE j # i \/ q # p
        BY <1>3, <2>2, <2>5, <3>2 DEF OrderInv, TableEarly
      <3> QED BY <3>1, <3>2
    <2> QED BY <2>4, <2>5 DEF TableEarly
  <1>12. "out" \in fd_poll'[Host] =>
           /\ "out" \in fd_poll[Host] /\ n # recv_seq
           /\ host_side_agent_id \in Agents /\ agent_packet_index_out \in Slots
           /\ Read(host_side_agent_id, agent_packet_index_out)
           /\ Number(host_side_agent_id, agent_packet_index_out) = recv_seq
    BY <1>8, HostOutputPoll DEF OrderInv, BlockedNext, IInv, TypeOK, OrderTypes, AgentIn, SendHost
  <1>13. BlockedNext'
    <2> SUFFICES ASSUME "out" \in fd_poll'[Host]
                 PROVE  /\ host_side_agent_id' \in Agents
                        /\ Read(host_side_agent_id, agent_packet_index_out)'
                        /\ Number(host_side_agent_id, agent_packet_index_out)' = recv_seq'
      BY DEF BlockedNext
    <2>1. agent_packet_index_out' = agent_packet_index_out
      BY <1>12 DEF WholePacket, IsNext, n
    <2>2. host_side_agent_id # i \/ agent_packet_index_out # p
      BY <1>2, <1>12
    <2>3. /\ Read(host_side_agent_id, agent_packet_index_out)'
          /\ Number(host_side_agent_id, agent_packet_index_out)' = recv_seq
      <3> DEFINE j == host_side_agent_id
                 q == agent_packet_index_out
      <3>1. buffered_packet'[j][q].in_use /\ agent_packet_index_in'[j] # q /\ buffered_packet'[j][q].seq_num = recv_seq
        BY <1>3, <1>12, <2>2 DEF Read, Number
      <3> QED BY <2>1, <3>1 DEF Read, Number
    <2> QED BY <1>12, <2>1, <2>3
  <1>14. SendingNext'
    <2> SUFFICES ASSUME pc' = "send_data_host"
                 PROVE  /\ Read(cursor.agent_id, cursor.packet_index)'
                        /\ Number(cursor.agent_id, cursor.packet_index)' = recv_seq'
                        /\ "out" \notin fd_poll'[Host]
      BY DEF SendingNext
    <2>1. n = recv_seq /\ cursor'.agent_id = i /\ cursor'.packet_index = p
      BY DEF WholePacket, IsNext, n
    <2> QED BY <1>2, <1>12, <2>1 DEF Read, Number
  <1>15. FramingInStep'
    <2> SUFFICES ASSUME NEW j \in Agents, pc' \notin Fatal, fd_poll'[j] # CLOSED, j \notin closed'
                 PROVE  Progress(j)' = taken'[j]
      BY DEF FramingInStep
    <2>1. taken \in [Agents -> 0 .. PacketLen - 1]
      BY DEF IInv, TypeOK, InboundTypes
    <2>2. CASE j = i
      BY <1>1, <2>1, <2>2 DEF WholePacket, Progress
    <2>3. CASE j # i
      <3>1. Progress(j) = taken[j]
        BY StillRead DEF OrderInv, FramingInStep
      <3>2. agent_needed_header_size'[j] = agent_needed_header_size[j]
        BY <2>3 DEF AgentIn, ReadPacket, ReadBlocks, ReadEnds, ReadFails, slot_vars, IInv, TypeOK, SlotTypes
      <3>3. agent_packet_index_in'[j] = agent_packet_index_in[j]
        BY <1>1, <2>3 DEF WholePacket
      <3>4. Progress(j)' = Progress(j)
        BY <1>1, <2>3, <3>2, <3>3 DEF Progress, OtherSlotsKept
      <3> QED BY <2>1, <2>3, <3>1, <3>4 DEF WholePacket
    <2> QED BY <2>2, <2>3
  <1> QED BY <1>9, <1>10, <1>11, <1>13, <1>14, <1>15, ClosedIsFinal DEF OrderInv

(* Reading keeps every packet where it is or moves one.                    *)
LEMMA AgentInKeepsOrder ==
  ASSUME IInv, OrderInv, [Next]_vars, NEW i \in Agents, AgentIn(i)
  PROVE  OrderInv'
  <1>1. /\ Alive /\ Progress(i) = taken[i]
        /\ UNCHANGED <<in_seq, recv_seq, host_side_agent_id>>
        /\ \/ /\ pc' = "no_free_index"
              /\ UNCHANGED <<queue_vars, poll_vars, cursor, closed>>
           \/ \E p \in Slots :
                /\ Filling(i, p)
                /\ Take(i, Readable(i))
                /\ \/ ReadPacket(i, p)
                   \/ /\ ReadBlocks(i, p) \/ ReadEnds(i, p) \/ ReadFails(i, p)
                      /\ UNCHANGED <<buffered_packet_table, agent_packet_index_out, cursor>>
    BY AgentInFills DEF OrderInv
  <1>2. pc = "wait" /\ AgentReadable(i)
    BY DEF AgentIn
  <1>3. CASE pc' = "no_free_index" /\ UNCHANGED <<queue_vars, poll_vars, cursor, closed>>
    <2> USE DEF queue_vars, poll_vars, slot_vars, order_vars
    <2>1. FramingInStep' /\ SendingNext'
      BY <1>3 DEF FramingInStep, SendingNext, Fatal
    <2>2. StreamNumbers' /\ SlotNumbers' /\ TableEarly' /\ BlockedNext'
      BY <1>3 DEF OrderInv, StreamNumbers, SlotNumbers, TableEarly, BlockedNext, Read, Number
    <2> QED BY <2>1, <2>2, ClosedIsFinal DEF OrderInv
  <1>4. ASSUME NEW p \in Slots, Filling(i, p), Take(i, Readable(i)), ReadPacket(i, p)
        PROVE  OrderInv'
    <2>1. WholePacket(i, p) /\ OtherSlotsKept(i, p)
      BY <1>1, <1>4, WholeEffect
    <2> QED BY <1>1, <1>4, <2>1, WholeKeepsOrder
  <1>5. ASSUME NEW p \in Slots, Filling(i, p), Take(i, Readable(i)),
               ReadBlocks(i, p) \/ ReadEnds(i, p) \/ ReadFails(i, p),
               UNCHANGED <<buffered_packet_table, agent_packet_index_out, cursor>>
        PROVE  OrderInv'
    <2>1. PartOfPacket(i, p) /\ OtherSlotsKept(i, p)
      BY <1>1, <1>2, <1>5, PartEffect
    <2> QED BY <1>1, <1>5, <2>1, PartKeepsOrder
  <1> QED BY <1>1, <1>3, <1>4, <1>5

-----------------------------------------------------------------------------
(* Sending to the host, and the remote agent.                              *)

(* A packet that the remote agent numbers has the greatest number so far.  *)
LEMMA RemoteSendsKeepsOrder ==
  ASSUME IInv, OrderInv, [Next]_vars, NEW i \in Agents, RemoteSends(i)
  PROVE  OrderInv'
  <1>1. /\ inq' = [inq EXCEPT ![i] = Append(@, in_seq)]
        /\ in_seq' = in_seq + 1
        /\ UNCHANGED process_vars /\ taken' = taken
    BY DEF RemoteSends
  <1>2. UNCHANGED <<pc, cursor, slot_vars, order_vars, poll_vars, closed>>
    BY <1>1 DEF process_vars
  <1>3. in_seq \in Nat /\ recv_seq \in Nat /\ inq \in [Agents -> Seq(Nat)]
    BY DEF IInv, TypeOK, InboundTypes, OrderTypes
  <1>4. \A j \in Agents : \A k \in 1 .. Len(inq'[j]) :
          \/ k \in 1 .. Len(inq[j]) /\ inq'[j][k] = inq[j][k]
          \/ j = i /\ k = Len(inq[i]) + 1 /\ inq'[j][k] = in_seq
    BY <1>1, <1>3
  <1>5. \A j \in Agents : \A k \in 1 .. Len(inq[j]) : recv_seq <= inq[j][k] /\ inq[j][k] < in_seq
    BY DEF OrderInv, StreamNumbers
  <1>6. \A j \in Agents : \A k \in 1 .. Len(inq[j]) : inq[j][k] \in Nat
    BY <1>3
  <1>7. recv_seq <= in_seq
    BY DEF OrderInv, StreamNumbers
  <1>8. StreamNumbers'
    <2>1. recv_seq' = recv_seq
      BY <1>2 DEF order_vars
    <2>2. ASSUME NEW j \in Agents, NEW k \in 1 .. Len(inq'[j])
          PROVE  recv_seq <= inq'[j][k] /\ inq'[j][k] < in_seq + 1
      <3>1. CASE k \in 1 .. Len(inq[j]) /\ inq'[j][k] = inq[j][k]
        <4>1. inq[j][k] \in Nat /\ recv_seq <= inq[j][k] /\ inq[j][k] < in_seq
          BY <1>5, <1>6, <3>1
        <4> QED BY <1>3, <3>1, <4>1
      <3>2. CASE inq'[j][k] = in_seq
        BY <1>3, <1>7, <3>2
      <3> QED BY <1>4, <3>1, <3>2
    <2>3. ASSUME NEW j \in Agents, NEW k \in 1 .. Len(inq'[j]), NEW l \in 1 .. Len(inq'[j]), k < l
          PROVE  inq'[j][k] < inq'[j][l]
      <3>1. Len(inq[j]) \in Nat
        BY <1>3
      <3>2. CASE l \in 1 .. Len(inq[j]) /\ inq'[j][l] = inq[j][l]
        BY <1>4, <2>3, <3>1, <3>2 DEF OrderInv, StreamNumbers
      <3>3. CASE j = i /\ l = Len(inq[i]) + 1 /\ inq'[j][l] = in_seq
        BY <1>4, <1>5, <2>3, <3>1, <3>3
      <3> QED BY <1>4, <3>2, <3>3
    <2>4. ASSUME NEW j \in Agents, NEW m \in Agents, j # m,
                 NEW k \in 1 .. Len(inq'[j]), NEW l \in 1 .. Len(inq'[m])
          PROVE  inq'[j][k] # inq'[m][l]
      <3>1. CASE k \in 1 .. Len(inq[j]) /\ l \in 1 .. Len(inq[m])
        BY <1>3, <1>4, <2>4, <3>1 DEF OrderInv, StreamNumbers
      <3>2. CASE ~(k \in 1 .. Len(inq[j]))
        <4>1. j = i /\ inq'[j][k] = in_seq
          BY <1>4, <3>2
        <4>2. inq'[m][l] = inq[m][l] /\ l \in 1 .. Len(inq[m])
          BY <1>4, <2>4, <4>1
        <4>3. inq[m][l] < in_seq /\ inq[m][l] \in Nat
          BY <1>5, <1>6, <4>2
        <4> QED BY <1>3, <4>1, <4>2, <4>3
      <3>3. CASE ~(l \in 1 .. Len(inq[m]))
        <4>1. m = i /\ inq'[m][l] = in_seq
          BY <1>4, <3>3
        <4>2. inq'[j][k] = inq[j][k] /\ k \in 1 .. Len(inq[j])
          BY <1>4, <2>4, <4>1
        <4>3. inq[j][k] < in_seq /\ inq[j][k] \in Nat
          BY <1>5, <1>6, <4>2
        <4> QED BY <1>3, <4>1, <4>2, <4>3
      <3> QED BY <3>1, <3>2, <3>3
    <2>5. recv_seq' <= in_seq' /\ in_seq' = in_seq + 1
      BY <1>1, <1>3, <1>7, <2>1
    <2> QED BY <2>1, <2>2, <2>3, <2>4, <2>5 DEF StreamNumbers
  <1>9. \A j \in Agents, q \in Slots : (Read(j, q)' <=> Read(j, q)) /\ Number(j, q)' = Number(j, q)
    BY <1>2 DEF slot_vars, Read, Number
  <1>10. SlotNumbers'
    <2> SUFFICES ASSUME NEW j \in Agents, NEW q \in Slots, Read(j, q)
                 PROVE  /\ recv_seq <= Number(j, q) /\ Number(j, q) < in_seq + 1
                        /\ \A k \in 1 .. Len(inq'[j]) : Number(j, q) < inq'[j][k]
                        /\ \A m \in Agents \ {j} : \A k \in 1 .. Len(inq'[m]) : Number(j, q) # inq'[m][k]
                        /\ \A m \in Agents, r \in Slots :
                             Read(m, r) /\ Number(m, r) = Number(j, q) => j = m /\ q = r
      BY <1>1, <1>2, <1>9 DEF SlotNumbers, order_vars
    <2>1. Number(j, q) \in Nat
      BY DEF Number, IInv, TypeOK, SlotTypes, SlotState
    <2>2. recv_seq <= Number(j, q) /\ Number(j, q) < in_seq
      BY DEF OrderInv, SlotNumbers
    <2>3. \A m \in Agents, r \in Slots :
            Read(m, r) /\ Number(m, r) = Number(j, q) => j = m /\ q = r
      BY DEF OrderInv, SlotNumbers
    <2>4. \A k \in 1 .. Len(inq[j]) : Number(j, q) < inq[j][k]
      BY DEF OrderInv, SlotNumbers
    <2>5. \A m \in Agents \ {j} : \A k \in 1 .. Len(inq[m]) : Number(j, q) # inq[m][k]
      BY DEF OrderInv, SlotNumbers
    <2>6. Number(j, q) < in_seq + 1
      BY <1>3, <2>1, <2>2
    <2> HIDE DEF Number
    <2>7. \A k \in 1 .. Len(inq'[j]) : Number(j, q) < inq'[j][k]
      BY <1>4, <2>2, <2>4
    <2>8. ASSUME NEW m \in Agents \ {j}, NEW k \in 1 .. Len(inq'[m])
          PROVE  Number(j, q) # inq'[m][k]
      <3>1. Number(j, q) # in_seq
        BY <1>3, <2>1, <2>2
      <3> QED BY <1>4, <2>5, <3>1
    <2> QED BY <2>2, <2>3, <2>6, <2>7, <2>8
  <1>11. TableEarly' /\ SendingNext' /\ BlockedNext'
    BY <1>2 DEF OrderInv, TableEarly, SendingNext, BlockedNext, Read, Number, slot_vars, order_vars, poll_vars
  <1>12. FramingInStep'
    BY <1>1, <1>2 DEF OrderInv, FramingInStep, Progress, slot_vars, poll_vars
  <1> QED BY <1>8, <1>10, <1>11, <1>12, ClosedIsFinal DEF OrderInv

(* A send changes neither what was read of the sockets nor the socket that *)
(* is read, and it takes no slot.                                          *)
LEMMA SendHostKeepsFraming ==
  ASSUME IInv, OrderInv, [Next]_vars, SendHost
  PROVE  FramingInStep'
  <1> DEFINE i == cursor.agent_id
             p == cursor.packet_index
  <1>1. /\ i \in Agents /\ p \in Slots /\ Read(i, p)
        /\ buffered_packet \in SlotArray
        /\ pc = "send_data_host"
    BY DEF SendHost, OrderInv, SendingNext, IInv, TypeOK, SlotTypes, SlotArray, CursorInv, ControlTypes, Cursor
  <1>2. UNCHANGED <<agent_packet_index_in, agent_needed_header_size, taken, inq, in_seq>>
    BY DEF SendHost, inbound_vars
  <1>3. \A j \in Agents, q \in Slots : j # i \/ q # p => buffered_packet'[j][q] = buffered_packet[j][q]
    <2>1. CASE buffered_packet' = buffered_packet
      BY <2>1
    <2>2. CASE buffered_packet' = [buffered_packet EXCEPT ![i][p].in_use = FALSE]
      BY <1>1, <2>2 DEF SlotArray
    <2>3. CASE buffered_packet' = StopAt(i, p, cursor.size_count)
      BY <1>1, <2>3 DEF StopAt, SlotArray
    <2> QED BY <2>1, <2>2, <2>3 DEF SendHost, HostAccepts, HostCompletes, HostBlocks, HostSendFails
  <1> SUFFICES ASSUME NEW j \in Agents, pc' \notin Fatal, fd_poll'[j] # CLOSED, j \notin closed'
               PROVE  Progress(j)' = taken'[j]
    BY DEF FramingInStep
  <1>4. Progress(j) = taken[j]
    BY StillRead DEF OrderInv, FramingInStep
  <1>5. agent_packet_index_in[j] \in Slots \union {EMPTY}
    BY DEF IInv, TypeOK, SlotTypes
  <1>6. agent_packet_index_in[j] # EMPTY =>
          buffered_packet'[j][agent_packet_index_in[j]] = buffered_packet[j][agent_packet_index_in[j]]
    BY <1>1, <1>3, <1>5 DEF Read
  <1> QED BY <1>2, <1>4, <1>6 DEF Progress

(* A send that leaves the packets and their order as they are.             *)
LEMMA SendKeepsPackets ==
  ASSUME IInv, OrderInv, [Next]_vars, SendHost,
         UNCHANGED <<recv_seq, buffered_packet_table>>,
         \A j \in Agents, q \in Slots :
           /\ buffered_packet'[j][q].in_use = buffered_packet[j][q].in_use
           /\ buffered_packet'[j][q].seq_num = buffered_packet[j][q].seq_num,
         pc' = "send_data_host" =>
           /\ cursor'.agent_id = cursor.agent_id /\ cursor'.packet_index = cursor.packet_index
           /\ "out" \notin fd_poll'[Host],
         "out" \in fd_poll'[Host] =>
           host_side_agent_id' = cursor.agent_id /\ agent_packet_index_out' = cursor.packet_index
  PROVE  OrderInv'
  <1>1. UNCHANGED <<agent_packet_index_in, inq, in_seq>>
    BY DEF SendHost, inbound_vars
  <1>2. \A j \in Agents, q \in Slots : (Read(j, q)' <=> Read(j, q)) /\ Number(j, q)' = Number(j, q)
    BY <1>1 DEF Read, Number
  <1>3. StreamNumbers' /\ SlotNumbers'
    BY <1>1, <1>2 DEF OrderInv, StreamNumbers, SlotNumbers
  <1>4. TableEarly'
    BY <1>2 DEF OrderInv, TableEarly, IInv, TypeOK, OrderTypes
  <1>5. /\ cursor.agent_id \in Agents /\ cursor.packet_index \in Slots
        /\ Read(cursor.agent_id, cursor.packet_index)
        /\ Number(cursor.agent_id, cursor.packet_index) = recv_seq
    BY DEF SendHost, OrderInv, SendingNext, IInv, CursorInv, TypeOK, ControlTypes, Cursor
  <1> DEFINE i == cursor.agent_id
             p == cursor.packet_index
  <1>6. /\ buffered_packet'[i][p].in_use /\ agent_packet_index_in'[i] # p
        /\ buffered_packet'[i][p].seq_num = recv_seq'
    BY <1>1, <1>5 DEF Read, Number
  <1>7. SendingNext' /\ BlockedNext'
    BY <1>5, <1>6 DEF SendingNext, BlockedNext, Read, Number
  <1> QED BY <1>3, <1>4, <1>7, SendHostKeepsFraming, ClosedIsFinal DEF OrderInv

(* The slot of a packet that is with the host is free.                     *)
LEMMA CompleteReads ==
  ASSUME IInv, OrderInv, SendHost, HostCompletes(cursor.agent_id, cursor.packet_index)
  PROVE  /\ recv_seq' = recv_seq + 1
         /\ fd_poll'[Host] = fd_poll[Host]
         /\ \A j \in Agents, q \in Slots :
              /\ Read(j, q)' <=> Read(j, q) /\ ~(j = cursor.agent_id /\ q = cursor.packet_index)
              /\ Number(j, q)' = Number(j, q)
  <1> DEFINE i == cursor.agent_id
             p == cursor.packet_index
  <1>1. /\ i \in Agents /\ p \in Slots
        /\ Read(i, p) /\ Number(i, p) = recv_seq
        /\ "out" \notin fd_poll[Host]
        /\ buffered_packet \in SlotArray
        /\ recv_seq \in Nat /\ in_seq \in Nat
        /\ buffered_packet_table \subseteq Agents \X Slots
        /\ i # Host /\ Host \in Fds
    BY TransferAssumption
       DEF SendHost, OrderInv, SendingNext, IInv, CursorInv, TypeOK, ControlTypes, Cursor, SlotTypes,
           SlotArray, OrderTypes, InboundTypes, Fds
  <1>2. UNCHANGED <<agent_packet_index_in, inq, in_seq>>
    BY DEF SendHost, inbound_vars
  <1>3. /\ buffered_packet' = [buffered_packet EXCEPT ![i][p].in_use = FALSE]
        /\ recv_seq' = recv_seq + 1
        /\ fd_poll'[Host] = fd_poll[Host]
    <2>1. \E mask, next : SetPoll(i, mask, next)
      BY DEF HostCompletes
    <2>2. fd_poll'[Host] = fd_poll[Host]
      BY <1>1, <2>1 DEF SetPoll, EpollCtl, poll_vars, IInv, TypeOK, PollTypes
    <2> QED BY <2>2 DEF HostCompletes
  <1>4. \A j \in Agents, q \in Slots :
          (Read(j, q)' <=> Read(j, q) /\ ~(j = i /\ q = p)) /\ Number(j, q)' = Number(j, q)
    BY <1>1, <1>2, <1>3 DEF Read, Number, SlotArray
  <1> QED BY <1>3, <1>4

(* The next packet is due, and it is sent if it was read early.            *)
LEMMA CompleteKeepsOrder ==
  ASSUME IInv, OrderInv, [Next]_vars, SendHost, HostCompletes(cursor.agent_id, cursor.packet_index)
  PROVE  OrderInv'
  <1> DEFINE i == cursor.agent_id
             p == cursor.packet_index
             early == Early(recv_seq + 1)
  <1>1. /\ i \in Agents /\ p \in Slots
        /\ Read(i, p) /\ Number(i, p) = recv_seq
        /\ "out" \notin fd_poll[Host]
        /\ buffered_packet \in SlotArray
        /\ recv_seq \in Nat /\ in_seq \in Nat
        /\ buffered_packet_table \subseteq Agents \X Slots
        /\ i # Host /\ Host \in Fds
    BY TransferAssumption
       DEF SendHost, OrderInv, SendingNext, IInv, CursorInv, TypeOK, ControlTypes, Cursor, SlotTypes,
           SlotArray, OrderTypes, InboundTypes, Fds
  <1>2. UNCHANGED <<agent_packet_index_in, inq, in_seq>>
    BY DEF SendHost, inbound_vars
  <1>3. recv_seq' = recv_seq + 1 /\ fd_poll'[Host] = fd_poll[Host]
    BY CompleteReads
  <1>4. \A j \in Agents, q \in Slots :
          (Read(j, q)' <=> Read(j, q) /\ ~(j = i /\ q = p)) /\ Number(j, q)' = Number(j, q)
    BY CompleteReads
  <1>5. \A j \in Agents, q \in Slots : Number(j, q) \in Nat
    BY <1>1 DEF Number, SlotArray, SlotState
  <1>6. ASSUME NEW j \in Agents, NEW q \in Slots, Read(j, q)'
        PROVE  recv_seq + 1 <= Number(j, q)
    <2>1. Read(j, q) /\ ~(j = i /\ q = p)
      BY <1>4, <1>6
    <2>2. recv_seq <= Number(j, q) /\ Number(j, q) # recv_seq
      BY <1>1, <2>1 DEF OrderInv, SlotNumbers
    <2> QED BY <1>1, <1>5, <2>2
  <1>7. ASSUME NEW j \in Agents, NEW k \in 1 .. Len(inq[j])
        PROVE  recv_seq + 1 <= inq[j][k]
    <2>1. inq[j][k] \in Nat
      BY DEF IInv, TypeOK, InboundTypes
    <2>2. recv_seq <= inq[j][k]
      BY DEF OrderInv, StreamNumbers
    <2>3. recv_seq # inq[j][k]
      <3>1. CASE j = i
        <4>1. Number(i, p) < inq[j][k]
          BY <1>1, <3>1 DEF OrderInv, SlotNumbers
        <4> QED BY <1>1, <2>1, <4>1
      <3>2. CASE j # i
        BY <1>1, <3>2 DEF OrderInv, SlotNumbers
      <3> QED BY <3>1, <3>2
    <2> QED BY <1>1, <2>1, <2>2, <2>3
  <1>8. StreamNumbers'
    <2>1. recv_seq + 1 <= in_seq
      <3>1. Number(i, p) < in_seq
        BY <1>1 DEF OrderInv, SlotNumbers
      <3> QED BY <1>1, <3>1
    <2> QED BY <1>2, <1>3, <1>7, <2>1 DEF OrderInv, StreamNumbers
  <1>9. SlotNumbers'
    <2> SUFFICES ASSUME NEW j \in Agents, NEW q \in Slots, Read(j, q)'
                 PROVE  /\ recv_seq' <= Number(j, q)' /\ Number(j, q)' < in_seq'
                        /\ \A k \in 1 .. Len(inq'[j]) : Number(j, q)' < inq'[j][k]
                        /\ \A m \in Agents \ {j} : \A k \in 1 .. Len(inq'[m]) : Number(j, q)' # inq'[m][k]
                        /\ \A m \in Agents, r \in Slots :
                             Read(m, r)' /\ Number(m, r)' = Number(j, q)' => j = m /\ q = r
      BY DEF SlotNumbers
    <2>1. Read(j, q) /\ Number(j, q)' = Number(j, q)
      BY <1>4
    <2>2. \A m \in Agents, r \in Slots : Read(m, r)' => Read(m, r) /\ Number(m, r)' = Number(m, r)
      BY <1>4
    <2>3. /\ Number(j, q) < in_seq
          /\ \A k \in 1 .. Len(inq[j]) : Number(j, q) < inq[j][k]
          /\ \A m \in Agents \ {j} : \A k \in 1 .. Len(inq[m]) : Number(j, q) # inq[m][k]
          /\ \A m \in Agents, r \in Slots :
               Read(m, r) /\ Number(m, r) = Number(j, q) => j = m /\ q = r
      BY <2>1 DEF OrderInv, SlotNumbers
    <2> QED BY <1>2, <1>3, <1>6, <2>1, <2>2, <2>3
  <1>10. \A e \in buffered_packet_table :
           /\ e[1] \in Agents /\ e[2] \in Slots /\ e = <<e[1], e[2]>>
           /\ Read(e[1], e[2])' /\ Number(e[1], e[2])' = Number(e[1], e[2])
    <2> SUFFICES ASSUME NEW e \in buffered_packet_table
                 PROVE  /\ e[1] \in Agents /\ e[2] \in Slots /\ e = <<e[1], e[2]>>
                        /\ Read(e[1], e[2])' /\ Number(e[1], e[2])' = Number(e[1], e[2])
      OBVIOUS
    <2>1. e[1] \in Agents /\ e[2] \in Slots /\ e = <<e[1], e[2]>>
      BY <1>1
    <2>2. Read(e[1], e[2]) /\ Number(e[1], e[2]) > recv_seq
      BY DEF OrderInv, TableEarly
    <2>3. ~(e[1] = i /\ e[2] = p)
      BY <1>1, <2>2
    <2> QED BY <1>4, <2>1, <2>2, <2>3
  <1>11. /\ early = {} => pc' # "send_data_host" /\ buffered_packet_table' = buffered_packet_table
         /\ early # {} => \E e \in early :
              /\ buffered_packet_table' = buffered_packet_table \ {e}
              /\ cursor' = [agent_id |-> e[1], packet_index |-> e[2], size_count |-> 0]
         /\ \A e : e \in early <=> e \in buffered_packet_table /\ Number(e[1], e[2]) = recv_seq + 1
    BY DEF HostCompletes, SetPoll, EpollCtl, Early, Number
  <1> HIDE DEF early
  <1>12. TableEarly'
    <2>1. ASSUME NEW e \in buffered_packet_table'
          PROVE  Read(e[1], e[2])' /\ Number(e[1], e[2])' > recv_seq + 1
      <3>1. e \in buffered_packet_table /\ e \notin early
        <4>1. CASE early = {}
          BY <1>11, <2>1, <4>1
        <4>2. CASE early # {}
          <5>1. PICK f \in early : buffered_packet_table' = buffered_packet_table \ {f}
            BY <1>11, <4>2
          <5>2. e \in buffered_packet_table /\ e # f /\ f \in buffered_packet_table
            BY <1>11, <2>1, <5>1
          <5>3. ~(e[1] = f[1] /\ e[2] = f[2])
            BY <1>10, <5>2
          <5>4. Read(e[1], e[2]) /\ Read(f[1], f[2])
            BY <5>2 DEF OrderInv, TableEarly
          <5>5. Number(e[1], e[2]) # Number(f[1], f[2])
            BY <1>10, <5>2, <5>3, <5>4 DEF OrderInv, SlotNumbers
          <5> QED BY <1>11, <5>1, <5>2, <5>5
        <4> QED BY <4>1, <4>2
      <3>2. recv_seq + 1 <= Number(e[1], e[2]) /\ Number(e[1], e[2]) # recv_seq + 1
        BY <1>6, <1>10, <1>11, <3>1
      <3> QED BY <1>1, <1>5, <1>10, <3>1, <3>2
    <2>2. ASSUME NEW j \in Agents, NEW q \in Slots, Read(j, q)'
          PROVE  Number(j, q)' = recv_seq + 1 \/ <<j, q>> \in buffered_packet_table'
      <3>1. Read(j, q) /\ Number(j, q)' = Number(j, q) /\ Number(j, q) # recv_seq
        BY <1>1, <1>4, <1>5, <1>6, <2>2
      <3>2. <<j, q>> \in buffered_packet_table
        BY <3>1 DEF OrderInv, TableEarly
      <3>3. Number(j, q) # recv_seq + 1 => <<j, q>> \notin early
        BY <1>11
      <3> QED BY <1>11, <3>1, <3>2, <3>3
    <2> QED BY <1>3, <2>1, <2>2 DEF TableEarly
  <1>13. BlockedNext'
    BY <1>1, <1>3 DEF BlockedNext
  <1>14. SendingNext'
    <2> SUFFICES ASSUME pc' = "send_data_host"
                 PROVE  /\ Read(cursor.agent_id, cursor.packet_index)'
                        /\ Number(cursor.agent_id, cursor.packet_index)' = recv_seq'
                        /\ "out" \notin fd_poll'[Host]
      BY DEF SendingNext
    <2>1. PICK e \in early : cursor' = [agent_id |-> e[1], packet_index |-> e[2], size_count |-> 0]
      BY <1>11
    <2>2. Read(e[1], e[2])' /\ Number(e[1], e[2])' = recv_seq + 1
      BY <1>10, <1>11, <2>1
    <2>3. /\ buffered_packet'[e[1]][e[2]].in_use /\ agent_packet_index_in'[e[1]] # e[2]
          /\ buffered_packet'[e[1]][e[2]].seq_num = recv_seq + 1
      BY <2>2 DEF Read, Number
    <2> QED BY <1>1, <1>3, <2>1, <2>3 DEF Read, Number
  <1> QED BY <1>8, <1>9, <1>12, <1>13, <1>14, SendHostKeepsFraming, ClosedIsFinal DEF OrderInv

(* One call of send to the host.                                           *)
LEMMA SendHostKeepsOrder ==
  ASSUME IInv, OrderInv, [Next]_vars, SendHost
  PROVE  OrderInv'
  <1> DEFINE i == cursor.agent_id
             p == cursor.packet_index
  <1>1. /\ pc = "send_data_host" /\ i \in Agents /\ p \in Slots
        /\ "out" \notin fd_poll[Host]
        /\ buffered_packet \in SlotArray
    BY DEF SendHost, OrderInv, SendingNext, IInv, CursorInv, TypeOK, ControlTypes, Cursor, SlotTypes,
           SlotArray
  <1>2. CASE HostAccepts(i, p) /\ HostCompletes(i, p)
    BY <1>2, CompleteKeepsOrder
  <1>3. CASE \/ Host \in closed /\ Exit("send_error")
                /\ UNCHANGED <<cursor, buffered_packet, order_vars>>
             \/ /\ \E n : cursor' = [cursor EXCEPT !.size_count = n]
                /\ UNCHANGED <<pc, poll_vars, buffered_packet, order_vars>>
    <2>1. UNCHANGED <<poll_vars, buffered_packet, order_vars>>
      BY <1>3 DEF Exit
    <2>2. cursor'.agent_id = cursor.agent_id /\ cursor'.packet_index = cursor.packet_index
      BY <1>3 DEF IInv, TypeOK, ControlTypes, Cursor
    <2>3. "out" \notin fd_poll'[Host]
      BY <1>1, <2>1 DEF poll_vars
    <2> QED BY <2>1, <2>2, <2>3, SendKeepsPackets DEF order_vars
  <1>4. CASE HostBlocks(i, p)
    <2>1. pc' # "send_data_host" /\ host_side_agent_id' = i /\ agent_packet_index_out' = p
      BY <1>4 DEF HostBlocks, SetPoll, EpollCtl, Exit
    <2>2. \A j \in Agents, q \in Slots :
            /\ buffered_packet'[j][q].in_use = buffered_packet[j][q].in_use
            /\ buffered_packet'[j][q].seq_num = buffered_packet[j][q].seq_num
      BY <1>1, <1>4 DEF HostBlocks, StopAt, SlotArray, SlotState
    <2> QED BY <1>4, <2>1, <2>2, SendKeepsPackets DEF HostBlocks
  <1>5. CASE HostSendFails
    <2>1. pc' # "send_data_host" /\ UNCHANGED <<buffered_packet, order_vars>>
      BY <1>5 DEF HostSendFails, Unregister, Exit
    <2>2. "out" \notin fd_poll'[Host]
      BY <1>1, <1>5 DEF HostSendFails, Unregister, Exit, poll_vars, CLOSED, IInv, TypeOK, PollTypes, Fds
    <2> QED BY <2>1, <2>2, SendKeepsPackets DEF order_vars
  <1> QED BY <1>2, <1>3, <1>4, <1>5 DEF SendHost, HostAccepts

-----------------------------------------------------------------------------
(* The order of the packets holds when the process starts.                 *)
LEMMA InitOrder ==
  ASSUME Init
  PROVE  OrderInv
  <1>1. ClosedUnpolled /\ FramingInStep
    BY Positive DEF Init, ClosedUnpolled, FramingInStep, Progress
  <1>2. StreamNumbers
    BY DEF Init, StreamNumbers
  <1>3. \A i \in Agents, p \in Slots : ~Read(i, p)
    BY DEF Init, Read
  <1>4. SlotNumbers /\ TableEarly
    BY <1>3 DEF Init, SlotNumbers, TableEarly
  <1>5. SendingNext /\ BlockedNext
    BY DEF Init, SendingNext, BlockedNext, POLLIN, Fds
  <1> QED BY <1>1, <1>2, <1>4, <1>5 DEF OrderInv

(* Every step preserves it.                                                *)
LEMMA NextOrder ==
  ASSUME IInv, OrderInv, [Next]_vars
  PROVE  OrderInv'
  <1>1. CASE SendHost
    BY <1>1, SendHostKeepsOrder
  <1>2. CASE \E i \in Agents : AgentIn(i)
    BY <1>2, AgentInKeepsOrder
  <1>3. CASE \E i \in Agents : RemoteSends(i)
    BY <1>3, RemoteSendsKeepsOrder
  <1> QED BY <1>1, <1>2, <1>3, QuietSteps, QuietKeepsOrder

(* Every packet that the remote agent numbered is at one place, in order.  *)
THEOREM PacketsInOrder == Spec => [](IInv /\ OrderInv)
  BY InitIInv, NextIInv, InitOrder, NextOrder, PTL DEF Spec

(* The parser stays in step with the stream: it never takes a unit of one  *)
(* packet for a unit of another, on any socket that is still read.         *)
THEOREM ParserInStep == Spec => []FramingInStep
  <1>1. OrderInv => FramingInStep
    BY DEF OrderInv
  <1> QED BY <1>1, PacketsInOrder, PTL

-----------------------------------------------------------------------------
(***************************************************************************)
(* What the host gets.  The packets are in order; here the bytes are: how  *)
(* many units the host has is told by recv_seq and by how far the packet   *)
(* that is due was sent, and that is known at every moment, while a send   *)
(* goes on, while the host socket is blocked, and in between.              *)
(* So the host has a prefix of what the other host wrote, and the transfer *)
(* implements the byte stream of OrderedStream.                            *)
(***************************************************************************)

-----------------------------------------------------------------------------
(* Arithmetic.                                                             *)

(* A number is its quotient times the divisor plus its remainder.          *)
LEMMA DivMod ==
  ASSUME NEW d \in Nat \ {0}, NEW q \in Nat, NEW r \in 0 .. d - 1
  PROVE  (q * d + r) \div d = q /\ (q * d + r) % d = r
  OBVIOUS

(* The same for any number.                                                *)
LEMMA QuotientRemainder ==
  ASSUME NEW d \in Nat \ {0}, NEW x \in Nat
  PROVE  (x \div d) * d + (x % d) = x
  OBVIOUS

(* One packet more is PayloadLen units more.                               *)
LEMMA NextProduct ==
  ASSUME NEW d \in Nat, NEW n \in Nat
  PROVE  (n + 1) * d = n * d + d /\ n * d \in Nat
  OBVIOUS

(* More packets are no fewer units.                                        *)
LEMMA ProductMonotone ==
  ASSUME NEW d \in Nat, NEW m \in Nat, NEW n \in Nat, m <= n
  PROVE  m * d <= n * d
  OBVIOUS

-----------------------------------------------------------------------------
(* How many units the host has.                                            *)

(* While a packet is sent: those before it, and what was sent of it.       *)
SendingAt ==
  pc = "send_data_host" /\ Host \notin closed =>
    /\ Len(delivered) = recv_seq * PayloadLen + cursor.size_count
    /\ cursor.size_count < PayloadLen

(* While the host socket is blocked: the slot tells how far it got.        *)
BlockedAt ==
  "out" \in fd_poll[Host] =>
    LET n == buffered_packet[host_side_agent_id][agent_packet_index_out].host_sent_size
    IN  n < PayloadLen /\ Len(delivered) = recv_seq * PayloadLen + n

(* In between: whole packets, and the one that is due was not read yet,    *)
(* unless the host is gone.                                                *)
WaitingFor == \E i \in Agents, p \in Slots : Read(i, p) /\ Number(i, p) = recv_seq
BetweenPackets ==
  Alive /\ pc # "send_data_host" /\ "out" \notin fd_poll[Host] =>
    \/ ~WaitingFor /\ (Host \notin closed => Len(delivered) = recv_seq * PayloadLen)
    \/ WaitingFor /\ fd_poll[Host] = CLOSED

UnitsInv == SendingAt /\ BlockedAt /\ BetweenPackets

(* The host socket is polled for output until it is reported or closed.    *)
LEMMA HostOutputKept ==
  ASSUME IInv, [Next]_vars, ~HostOut, Alive', "out" \in fd_poll[Host]
  PROVE  "out" \in fd_poll'[Host] \/ fd_poll'[Host] = CLOSED
  <1> USE DEF poll_vars
  <1>1. fd_poll \in [Fds -> PollStates] /\ Host \in Fds /\ Host \notin Agents
    BY TransferAssumption DEF IInv, TypeOK, PollTypes, Fds
  <1>2. "out" \in FullMask(Host) /\ "out" \in NotFullMask(Host) /\ "out" \in BlockedMask(Host)
    BY DEF FullMask, NotFullMask, BlockedMask, POLLIN
  <1>3. ASSUME NEW i \in Agents, NEW mask, NEW next, SetPoll(i, mask, next)
        PROVE  fd_poll'[Host] = fd_poll[Host]
    BY <1>1, <1>3 DEF SetPoll, EpollCtl, Fds
  <1>4. ASSUME NEW f \in Fds, NEW mask, NEW shut, Unregister(f, mask, shut)
        PROVE  fd_poll'[Host] = fd_poll[Host] \/ (f = Host /\ fd_poll'[Host] = mask)
    BY <1>1, <1>4 DEF Unregister
  <1>5. CASE CheckClosed
    BY <1>1, <1>5 DEF CheckClosed
  <1>6. CASE HostIn
    <2>1. CASE AllAgentsSocksFull
      BY <1>1, <1>2, <2>1, EpollCtlSets DEF AllAgentsSocksFull
    <2> QED BY <1>6, <2>1 DEF HostIn, Exit
  <1>7. ASSUME NEW i \in Agents, AgentOut(i)
        PROVE  "out" \in fd_poll'[Host]
    <2>1. CASE NotAllAgentSocksFull
      BY <1>1, <1>2, <2>1, EpollCtlSets DEF NotAllAgentSocksFull
    <2> QED BY <1>7, <2>1 DEF AgentOut
  <1>8. ASSUME NEW i \in Agents, RecvHost(i)
        PROVE  "out" \in fd_poll'[Host] \/ fd_poll'[Host] = CLOSED
    BY <1>1, <1>4, <1>8 DEF RecvHost, Exit, IInv, TypeOK, HostTypes, PeerStates
  <1>9. ASSUME NEW i \in Agents, ResumeSend(i) \/ SendAgent(i) \/ AgentIn(i)
        PROVE  "out" \in fd_poll'[Host]
    <2>1. i \in Fds /\ i # Host
      BY TransferAssumption DEF Fds
    <2>2. SendAgent(i) \/ ResumeSend(i) => "out" \in fd_poll'[Host]
      BY <1>3, <1>4, <2>1 DEF ResumeSend, SendAgent, AgentAccepts, AgentBlocks, AgentSendFails, Exit
    <2>3. AgentIn(i) => "out" \in fd_poll'[Host]
      BY <1>3, <1>4, <2>1 DEF AgentIn, ReadPacket, ReadBlocks, ReadEnds, ReadFails, Exit
    <2> QED BY <1>9, <2>2, <2>3
  <1>10. CASE SendHost
    <2>1. cursor.agent_id \in Agents
      BY <1>10 DEF SendHost, IInv, CursorInv
    <2>2. CASE UNCHANGED poll_vars
      BY <2>2
    <2>3. CASE \E mask, next : SetPoll(cursor.agent_id, mask, next)
      BY <1>3, <2>1, <2>3
    <2>4. CASE SetPoll(Host, BlockedMask(Host), "check")
      BY <1>1, <1>2, <2>4, SetPollSets
    <2>5. CASE Unregister(Host, CLOSED, TRUE)
      BY <1>1, <1>4, <2>5
    <2>6. \/ UNCHANGED poll_vars \/ SetPoll(Host, BlockedMask(Host), "check")
          \/ Unregister(Host, CLOSED, TRUE) \/ \E mask, next : SetPoll(cursor.agent_id, mask, next)
      BY <1>10 DEF SendHost, HostAccepts, HostCompletes, HostBlocks, HostSendFails, Exit
    <2> QED BY <2>2, <2>3, <2>4, <2>5, <2>6
  <1>11. HostSide \/ RemoteSide \/ Ended \/ UNCHANGED vars => UNCHANGED poll_vars
    BY DEF HostSide, HostWrites, HostReads, HostCloses, HostResets, RemoteSide, RemoteSends,
           Arrive, Drain, RemoteCloses, RemoteResets, Ended, process_vars, vars
  <1> QED BY <1>5, <1>6, <1>7, <1>8, <1>9, <1>10, <1>11 DEF Next, Outbound, Inbound

(* A process that runs on did so before, and only a send ends a send.      *)
LEMMA RunsOn ==
  ASSUME [Next]_vars, Alive'
  PROVE  /\ Alive
         /\ pc = "send_data_host" => SendHost \/ UNCHANGED <<pc, poll_vars>>
  <1> USE DEF Alive, Running
  <1>1. CheckClosed \/ HostIn \/ HostOut => pc \in {"check", "wait"}
    BY DEF CheckClosed, HostIn, HostOut
  <1>2. ASSUME NEW i \in Agents
        PROVE  AgentOut(i) \/ RecvHost(i) \/ ResumeSend(i) \/ SendAgent(i) \/ AgentIn(i)
                 => pc \in {"wait", "read_host_send_agent", "send_agent"}
    BY DEF AgentOut, RecvHost, ResumeSend, SendAgent, AgentIn
  <1>3. HostSide \/ RemoteSide \/ Ended \/ UNCHANGED vars => UNCHANGED <<pc, poll_vars>>
    BY DEF HostSide, HostWrites, HostReads, HostCloses, HostResets, RemoteSide, RemoteSends,
           Arrive, Drain, RemoteCloses, RemoteResets, Ended, process_vars, vars
  <1>4. SendHost => pc = "send_data_host"
    BY DEF SendHost
  <1> QED BY <1>1, <1>2, <1>3, <1>4 DEF Next, Outbound, Inbound

(* A step that moves no packet.                                            *)
LEMMA QuietKeepsUnits ==
  ASSUME IInv, OrderInv, UnitsInv, [Next]_vars, UNCHANGED queue_vars, ~SendHost,
         \A i \in Agents : ~AgentIn(i)
  PROVE  UnitsInv'
  <1> USE DEF UnitsInv
  <1>1. UNCHANGED <<buffered_packet, agent_packet_index_in, recv_seq, host_side_agent_id,
                    agent_packet_index_out, delivered>>
    BY DEF queue_vars, slot_vars, order_vars
  <1>2. WaitingFor' <=> WaitingFor
    BY <1>1 DEF WaitingFor, Read, Number
  <1>3. BlockedAt'
    BY <1>1, HostOutputPoll DEF BlockedAt
  <1>4. SendingAt'
    <2> SUFFICES ASSUME pc' = "send_data_host", Host \notin closed'
                 PROVE  /\ Len(delivered) = recv_seq * PayloadLen + cursor'.size_count
                        /\ cursor'.size_count < PayloadLen
      BY <1>1 DEF SendingAt
    <2>1. CASE HostOut
      <3>1. "out" \in fd_poll[Host]
        BY <2>1 DEF HostOut, IInv, PollMatchesEpoll, Alive, Running, Fds
      <3>2. cursor'.size_count = buffered_packet[host_side_agent_id][agent_packet_index_out].host_sent_size
        BY <2>1 DEF HostOut
      <3> QED BY <3>1, <3>2 DEF BlockedAt
    <2>2. CASE ~HostOut
      <3>1. UNCHANGED <<pc, cursor>>
        BY <2>2, PcSteps
      <3> QED BY <3>1, ClosedIsFinal DEF SendingAt, OrderInv
    <2> QED BY <2>1, <2>2
  <1>5. BetweenPackets'
    <2> SUFFICES ASSUME Alive', pc' # "send_data_host", "out" \notin fd_poll'[Host]
                 PROVE  \/ ~WaitingFor /\ (Host \notin closed' => Len(delivered) = recv_seq * PayloadLen)
                        \/ WaitingFor /\ fd_poll'[Host] = CLOSED
      BY <1>1, <1>2 DEF BetweenPackets
    <2>1. Alive /\ pc # "send_data_host"
      BY RunsOn
    <2>2. CASE "out" \in fd_poll[Host]
      <3>1. ~HostOut
        BY SetPollSets DEF HostOut
      <3>2. fd_poll'[Host] = CLOSED
        BY <2>2, <3>1, HostOutputKept
      <3>3. WaitingFor
        BY <2>2 DEF WaitingFor, OrderInv, BlockedNext, IInv, TypeOK, OrderTypes
      <3> QED BY <3>2, <3>3
    <2>3. CASE "out" \notin fd_poll[Host]
      BY <2>1, <2>3, ClosedIsFinal DEF BetweenPackets, OrderInv, Fds
    <2> QED BY <2>2, <2>3
  <1> QED BY <1>3, <1>4, <1>5

(* Reading a socket gives the host nothing; a packet that is due starts to *)
(* be sent from its first unit.                                            *)
LEMMA AgentInKeepsUnits ==
  ASSUME IInv, OrderInv, UnitsInv, [Next]_vars, NEW i \in Agents, AgentIn(i), OrderInv'
  PROVE  UnitsInv'
  <1> USE DEF UnitsInv
  <1>1. /\ Alive /\ pc = "wait" /\ AgentReadable(i) /\ Progress(i) = taken[i]
        /\ UNCHANGED <<recv_seq, host_side_agent_id, delivered>>
    BY AgentInFills DEF AgentIn, OrderInv
  <1>2. fd_poll'[Host] = fd_poll[Host]
    <2>1. fd_poll \in [Fds -> PollStates] /\ i \in Fds /\ Host \in Fds /\ i # Host
      BY TransferAssumption DEF IInv, TypeOK, PollTypes, Fds
    <2>2. \A mask, next : SetPoll(i, mask, next) => fd_poll'[Host] = fd_poll[Host]
      BY <2>1 DEF SetPoll, EpollCtl, poll_vars
    <2>3. \A mask, shut : Unregister(i, mask, shut) => fd_poll'[Host] = fd_poll[Host]
      BY <2>1 DEF Unregister, poll_vars
    <2> QED BY <2>2, <2>3 DEF AgentIn, ReadPacket, ReadBlocks, ReadEnds, ReadFails, Exit, poll_vars
  <1>3. Host \notin closed' => Host \notin closed
    BY ClosedIsFinal DEF OrderInv
  <1>4. "out" \in fd_poll[Host] =>
          /\ host_side_agent_id \in Agents /\ agent_packet_index_out \in Slots
          /\ Read(host_side_agent_id, agent_packet_index_out)
          /\ Number(host_side_agent_id, agent_packet_index_out) = recv_seq
    BY DEF OrderInv, BlockedNext, IInv, TypeOK, OrderTypes
  <1>5. CASE pc' = "no_free_index" /\ UNCHANGED <<queue_vars, poll_vars, cursor, closed>>
    BY <1>1, <1>2, <1>5 DEF SendingAt, BlockedAt, BetweenPackets, Alive, Running, queue_vars,
                            slot_vars, order_vars
  <1>6. ASSUME NEW p \in Slots, Filling(i, p), Take(i, Readable(i)),
               ReadBlocks(i, p) \/ ReadEnds(i, p) \/ ReadFails(i, p),
               UNCHANGED <<buffered_packet_table, agent_packet_index_out, cursor>>
        PROVE  UnitsInv'
    <2>1. PartOfPacket(i, p) /\ OtherSlotsKept(i, p)
      BY <1>1, <1>6, PartEffect
    <2>2. \A j \in Agents, q \in Slots :
            (Read(j, q)' <=> Read(j, q)) /\ (Read(j, q) => Number(j, q)' = Number(j, q))
      BY <1>6, <2>1, PartReads
    <2>3. WaitingFor' <=> WaitingFor
      BY <1>1, <2>2 DEF WaitingFor
    <2>4. ~Read(i, p)
      BY <1>6 DEF Filling, FreeSlots, Read
    <2>5. BlockedAt'
      BY <1>1, <1>2, <1>4, <1>6, <2>1, <2>4 DEF BlockedAt, OtherSlotsKept
    <2>6. pc' # "send_data_host"
      BY <2>1 DEF PartOfPacket
    <2> QED BY <1>1, <1>2, <1>3, <2>3, <2>5, <2>6 DEF SendingAt, BetweenPackets
  <1>7. ASSUME NEW p \in Slots, Filling(i, p), Take(i, Readable(i)), ReadPacket(i, p)
        PROVE  UnitsInv'
    <2> DEFINE n == Head(inq[i])
    <2>1. WholePacket(i, p) /\ OtherSlotsKept(i, p)
      BY <1>1, <1>7, WholeEffect
    <2>2. /\ ~Read(i, p) /\ Read(i, p)' /\ Number(i, p)' = n
          /\ \A j \in Agents, q \in Slots : j # i \/ q # p =>
               (Read(j, q)' <=> Read(j, q)) /\ (Read(j, q) => Number(j, q)' = Number(j, q))
      BY <1>7, <2>1, WholeReads
    <2>3. n = recv_seq => ~WaitingFor
      <3> SUFFICES ASSUME n = recv_seq, NEW j \in Agents, NEW q \in Slots, Read(j, q), Number(j, q) = recv_seq
                   PROVE  FALSE
        BY DEF WaitingFor
      <3>1. j # i \/ q # p
        BY <2>2
      <3>2. Read(j, q)' /\ Number(j, q)' = Number(i, p)'
        BY <2>2, <3>1
      <3>3. j = i /\ q = p
        BY <2>2, <3>2 DEF OrderInv, SlotNumbers
      <3> QED BY <3>1, <3>3
    <2>4. "out" \in fd_poll[Host] => n # recv_seq
      BY <1>4, <2>3 DEF WaitingFor
    <2>5. BlockedAt'
      <3> SUFFICES ASSUME "out" \in fd_poll[Host]
                   PROVE  BlockedAt'
        BY <1>2 DEF BlockedAt
      <3>1. agent_packet_index_out' = agent_packet_index_out
        BY <2>1, <2>4 DEF WholePacket, IsNext
      <3>2. host_side_agent_id # i \/ agent_packet_index_out # p
        BY <1>4, <2>2
      <3> QED BY <1>1, <1>4, <2>1, <3>1, <3>2 DEF BlockedAt, OtherSlotsKept
    <2>6. SendingAt'
      <3> SUFFICES ASSUME pc' = "send_data_host", Host \notin closed'
                   PROVE  SendingAt'
        BY DEF SendingAt
      <3>1. n = recv_seq /\ cursor'.size_count = 0
        BY <2>1 DEF WholePacket, IsNext
      <3>2. Len(delivered) = recv_seq * PayloadLen
        BY <1>1, <1>3, <2>3, <2>4, <3>1 DEF BetweenPackets
      <3>3. recv_seq * PayloadLen \in Nat
        BY Positive, NextProduct DEF IInv, TypeOK, OrderTypes
      <3> QED BY <1>1, <3>1, <3>2, <3>3, Positive DEF SendingAt
    <2>7. BetweenPackets'
      <3> SUFFICES ASSUME Alive', pc' # "send_data_host"
                   PROVE  BetweenPackets'
        BY DEF BetweenPackets
      <3>1. n # recv_seq
        BY <1>7 DEF ReadPacket, IsNext, SetPoll, EpollCtl, Alive, Running
      <3>2. WaitingFor' <=> WaitingFor
        BY <1>1, <2>2, <3>1 DEF WaitingFor
      <3> QED BY <1>1, <1>2, <1>3, <3>2 DEF BetweenPackets
    <2> QED BY <2>5, <2>6, <2>7
  <1>8. \/ pc' = "no_free_index" /\ UNCHANGED <<queue_vars, poll_vars, cursor, closed>>
        \/ \E p \in Slots :
             /\ Filling(i, p) /\ Take(i, Readable(i))
             /\ \/ ReadPacket(i, p)
                \/ /\ ReadBlocks(i, p) \/ ReadEnds(i, p) \/ ReadFails(i, p)
                   /\ UNCHANGED <<buffered_packet_table, agent_packet_index_out, cursor>>
    BY AgentInFills DEF OrderInv
  <1> QED BY <1>5, <1>6, <1>7, <1>8

(* The units of a chunk.                                                   *)
LEMMA ChunkUnits ==
  ASSUME NEW seq \in Nat, NEW from \in Nat, NEW n \in Nat
  PROVE  /\ Chunk(seq, from, n) \in Units
         /\ Len(Chunk(seq, from, n)) = n
         /\ \A l \in 1 .. n : Chunk(seq, from, n)[l] = <<seq, from + l - 1>>
  <1>1. Chunk(seq, from, n) \in Units
    BY ChunkType
  <1>2. Len(Chunk(seq, from, n)) = n
    BY DEF Chunk
  <1>3. \A l \in 1 .. n : Chunk(seq, from, n)[l] = <<seq, from + l - 1>>
    BY DEF Chunk
  <1> QED BY <1>1, <1>2, <1>3

(* The units of two sequences, one after the other.                        *)
LEMMA Joined ==
  ASSUME NEW s \in Units, NEW t \in Units
  PROVE  /\ Len(s \o t) = Len(s) + Len(t)
         /\ \A l \in 1 .. Len(s) : (s \o t)[l] = s[l]
         /\ \A l \in 1 .. Len(s \o t) : l > Len(s) =>
              l - Len(s) \in 1 .. Len(t) /\ (s \o t)[l] = t[l - Len(s)]
  BY DEF Units

(* One call of send gives the host the units that follow.                  *)
LEMMA Accepted ==
  ASSUME IInv, OrderInv, UnitsInv, SendHost, Host \notin closed,
         HostAccepts(cursor.agent_id, cursor.packet_index)
  PROVE  LET k == cursor.size_count
             n == Lesser(host_room, PayloadLen - k)
         IN  /\ k \in Nat /\ n \in Nat /\ n > 0 /\ k + n <= PayloadLen
             /\ Len(delivered) = recv_seq * PayloadLen + k
             /\ delivered' = delivered \o Chunk(recv_seq, k, n)
             /\ Len(delivered') = recv_seq * PayloadLen + (k + n)
  <1> DEFINE i == cursor.agent_id
             p == cursor.packet_index
             k == cursor.size_count
             n == Lesser(host_room, PayloadLen - k)
  <1>1. Number(i, p) = recv_seq
    BY DEF SendHost, OrderInv, SendingNext
  <1>2. Len(delivered) = recv_seq * PayloadLen + k /\ k < PayloadLen
    BY DEF SendHost, UnitsInv, SendingAt
  <1>3. k \in Nat /\ host_room \in Nat /\ host_room > 0 /\ delivered \in Units /\ recv_seq \in Nat
    BY Positive DEF HostAccepts, IInv, TypeOK, ControlTypes, Cursor, HostTypes, OrderTypes
  <1>4. PayloadLen - k \in Nat /\ PayloadLen - k > 0
    BY <1>2, <1>3, Positive
  <1>5. n \in Nat /\ n <= PayloadLen - k /\ n > 0
    BY <1>3, <1>4 DEF Lesser
  <1>6. k + n <= PayloadLen
    <2> HIDE DEF n, k
    <2> QED BY <1>3, <1>5, Positive
  <1>7. delivered' = delivered \o Chunk(recv_seq, k, n)
    BY <1>1 DEF HostAccepts, Number
  <1>8. Chunk(recv_seq, k, n) \in Units /\ Len(Chunk(recv_seq, k, n)) = n
    <2> HIDE DEF n, k
    <2> QED BY <1>3, <1>5, ChunkUnits
  <1>9. Len(delivered') = Len(delivered) + n
    BY <1>3, <1>7, <1>8, Joined
  <1>10. recv_seq * PayloadLen \in Nat
    BY <1>3, Positive, NextProduct
  <1>11. Len(delivered') = recv_seq * PayloadLen + (k + n)
    <2> DEFINE w == recv_seq * PayloadLen
    <2>1. w \in Nat /\ Len(delivered) = w + k
      BY <1>2, <1>10
    <2> HIDE DEF n, k, w
    <2>2. Len(delivered') = w + (k + n)
      BY <1>3, <1>5, <1>9, <2>1
    <2> QED BY <2>2 DEF w
  <1> QED BY <1>2, <1>3, <1>5, <1>6, <1>7, <1>11

(* One call of send, whatever comes of it.                                 *)
LEMMA SendHostKeepsUnits ==
  ASSUME IInv, OrderInv, UnitsInv, [Next]_vars, SendHost, OrderInv'
  PROVE  UnitsInv'
  <1> USE DEF UnitsInv
  <1> DEFINE i == cursor.agent_id
             p == cursor.packet_index
             k == cursor.size_count
             n == Lesser(host_room, PayloadLen - k)
  <1>1. /\ pc = "send_data_host" /\ i \in Agents /\ p \in Slots
        /\ Read(i, p) /\ Number(i, p) = recv_seq
        /\ "out" \notin fd_poll[Host]
        /\ buffered_packet \in SlotArray
        /\ fd_poll \in [Fds -> PollStates] /\ Host \in Fds
        /\ recv_seq \in Nat
    BY DEF SendHost, OrderInv, SendingNext, IInv, CursorInv, TypeOK, ControlTypes, Cursor, SlotTypes,
           SlotArray, PollTypes, Fds, OrderTypes
  <1>2. CASE Host \in closed
    <2>1. pc' = "send_error" /\ fd_poll' = fd_poll
      BY <1>2 DEF SendHost, Exit, poll_vars
    <2> QED BY <1>1, <2>1 DEF SendingAt, BlockedAt, BetweenPackets, Alive, Running
  <1>3. CASE Host \notin closed /\ HostAccepts(i, p) /\ ~HostCompletes(i, p)
    <2>1. /\ k + n # PayloadLen
          /\ cursor' = [cursor EXCEPT !.size_count = k + n]
          /\ UNCHANGED <<pc, poll_vars, recv_seq>>
      BY <1>3 DEF HostAccepts, order_vars
    <2>2. cursor'.size_count = k + n
      BY <2>1 DEF IInv, TypeOK, ControlTypes, Cursor
    <2>3. k \in Nat /\ n \in Nat /\ k + n <= PayloadLen /\ Len(delivered') = recv_seq * PayloadLen + (k + n)
      BY <1>3, Accepted
    <2>4. k + n < PayloadLen
      <3> HIDE DEF k, n
      <3> QED BY <2>1, <2>3, Positive
    <2>5. "out" \notin fd_poll'[Host] /\ pc' = "send_data_host"
      BY <1>1, <2>1 DEF poll_vars
    <2>6. SendingAt'
      BY <2>1, <2>2, <2>3, <2>4 DEF SendingAt
    <2> QED BY <2>5, <2>6 DEF BlockedAt, BetweenPackets
  <1>4. CASE Host \notin closed /\ HostAccepts(i, p) /\ HostCompletes(i, p)
    <2> DEFINE early == Early(recv_seq + 1)
    <2>1. /\ recv_seq' = recv_seq + 1
          /\ fd_poll'[Host] = fd_poll[Host]
          /\ \A j \in Agents, q \in Slots :
               /\ Read(j, q)' <=> Read(j, q) /\ ~(j = i /\ q = p)
               /\ Number(j, q)' = Number(j, q)
      BY <1>4, CompleteReads
    <2>2. k + n = PayloadLen
      <3>1. CASE k + n # PayloadLen
        <4>1. recv_seq' = recv_seq
          BY <1>4, <3>1 DEF HostAccepts, order_vars
        <4> QED BY <1>1, <2>1, <4>1
      <3> QED BY <3>1
    <2>3. Len(delivered') = recv_seq' * PayloadLen
      <3>1. Len(delivered') = recv_seq * PayloadLen + PayloadLen
        BY <1>4, <2>2, Accepted
      <3>2. (recv_seq + 1) * PayloadLen = recv_seq * PayloadLen + PayloadLen
        BY <1>1, NextProduct, Positive
      <3> QED BY <2>1, <3>1, <3>2
    <2>4. (recv_seq + 1) * PayloadLen \in Nat
      BY <1>1, NextProduct, Positive
    <2>5. SendingAt'
      <3> SUFFICES ASSUME pc' = "send_data_host"
                   PROVE  SendingAt'
        BY DEF SendingAt
      <3>1. \E e \in early : cursor' = [agent_id |-> e[1], packet_index |-> e[2], size_count |-> 0]
        BY <1>4 DEF HostCompletes, SetPoll, EpollCtl
      <3>2. cursor'.size_count = 0
        BY <3>1
      <3> QED BY <2>1, <2>3, <2>4, <3>2, Positive DEF SendingAt
    <2>6. BlockedAt'
      BY <1>1, <2>1 DEF BlockedAt
    <2>7. BetweenPackets'
      <3> SUFFICES ASSUME Alive', pc' # "send_data_host"
                   PROVE  ~WaitingFor'
        BY <2>3 DEF BetweenPackets
      <3>1. early = {}
        BY <1>4 DEF HostCompletes, SetPoll, EpollCtl, Alive, Running
      <3> SUFFICES ASSUME NEW j \in Agents, NEW q \in Slots, Read(j, q)', Number(j, q)' = recv_seq + 1
                   PROVE  FALSE
        BY <2>1 DEF WaitingFor
      <3>2. Read(j, q) /\ Number(j, q) = recv_seq + 1
        BY <2>1
      <3>3. <<j, q>> \in buffered_packet_table
        BY <1>1, <3>2 DEF OrderInv, TableEarly
      <3>4. <<j, q>> \in Early(recv_seq + 1)
        BY <3>2, <3>3 DEF Early, Number
      <3> QED BY <3>1, <3>4
    <2> QED BY <2>5, <2>6, <2>7
  <1>5. CASE Host \notin closed /\ HostBlocks(i, p)
    <2>1. /\ host_side_agent_id' = i /\ agent_packet_index_out' = p
          /\ buffered_packet' = StopAt(i, p, k)
          /\ recv_seq' = recv_seq /\ delivered' = delivered
      BY <1>5 DEF HostBlocks
    <2>2. pc' # "send_data_host" /\ (Alive' => "out" \in fd_poll'[Host])
      <3>1. SetPoll(Host, BlockedMask(Host), "check") /\ Alive' => "out" \in fd_poll'[Host]
        <4>1. fd_poll[Host] \in {POLLIN, OFF} => "out" \in BlockedMask(Host)
          BY DEF BlockedMask, POLLOUT
        <4> QED BY <1>1, <1>5, <4>1, SetPollSets DEF HostBlocks, Exit, Alive, Running
      <3> QED BY <1>5, <3>1 DEF HostBlocks, SetPoll, EpollCtl, Exit, Alive, Running
    <2>3. buffered_packet'[i][p].host_sent_size = k
      BY <1>1, <2>1 DEF StopAt, SlotArray, SlotState
    <2>4. Len(delivered) = recv_seq * PayloadLen + k /\ k < PayloadLen
      BY <1>1, <1>5 DEF SendingAt
    <2> QED BY <2>1, <2>2, <2>3, <2>4 DEF SendingAt, BlockedAt, BetweenPackets
  <1>6. CASE Host \notin closed /\ HostSendFails
    <2>1. pc' # "send_data_host" /\ UNCHANGED <<buffered_packet, recv_seq, agent_packet_index_in>>
      BY <1>6 DEF HostSendFails, Unregister, Exit, order_vars, SendHost
    <2>2. "out" \notin fd_poll'[Host]
      BY <1>1, <1>6 DEF HostSendFails, Unregister, Exit, poll_vars, CLOSED
    <2>3. Alive' => fd_poll'[Host] = CLOSED
      BY <1>1, <1>6 DEF HostSendFails, Unregister, Exit, Alive, Running
    <2>4. WaitingFor'
      BY <1>1, <2>1 DEF WaitingFor, Read, Number
    <2> QED BY <2>1, <2>2, <2>3, <2>4 DEF SendingAt, BlockedAt, BetweenPackets
  <1> QED BY <1>2, <1>3, <1>4, <1>5, <1>6 DEF SendHost

(* Any step.                                                               *)
LEMMA NextUnits ==
  ASSUME IInv, OrderInv, UnitsInv, [Next]_vars
  PROVE  UnitsInv'
  <1>1. OrderInv'
    BY NextOrder
  <1>2. CASE SendHost
    BY <1>1, <1>2, SendHostKeepsUnits
  <1>3. CASE \E i \in Agents : AgentIn(i)
    BY <1>1, <1>3, AgentInKeepsUnits
  <1>4. CASE \E i \in Agents : RemoteSends(i)
    <2>1. UNCHANGED <<pc, cursor, slot_vars, order_vars, poll_vars, closed, delivered>>
      BY <1>4 DEF RemoteSends, process_vars, host_vars
    <2> QED BY <2>1 DEF UnitsInv, SendingAt, BlockedAt, BetweenPackets, WaitingFor, Alive, Read, Number,
                        slot_vars, order_vars, poll_vars
  <1> QED BY <1>2, <1>3, <1>4, QuietSteps, QuietKeepsUnits

(* The units when the process starts.                                      *)
LEMMA InitUnits ==
  ASSUME Init
  PROVE  UnitsInv
  <1>1. \A i \in Agents, p \in Slots : ~Read(i, p)
    BY DEF Init, Read
  <1>2. Len(delivered) = recv_seq * PayloadLen
    BY Positive DEF Init
  <1> QED BY <1>1, <1>2 DEF Init, UnitsInv, SendingAt, BlockedAt, BetweenPackets, WaitingFor, POLLIN, Fds

-----------------------------------------------------------------------------
(* What they are.                                                          *)

(* A step gives the host units only by a send that goes through.           *)
LEMMA DeliveredKept ==
  ASSUME [Next]_vars,
         ~(SendHost /\ Host \notin closed /\ HostAccepts(cursor.agent_id, cursor.packet_index))
  PROVE  delivered' = delivered
  <1>1. SendHost => delivered' = delivered
    BY DEF SendHost, HostBlocks, HostSendFails
  <1>2. ASSUME NEW i \in Agents, AgentIn(i) \/ RemoteSends(i)
        PROVE  delivered' = delivered
    BY <1>2 DEF AgentIn, RemoteSends, host_vars
  <1> QED BY <1>1, <1>2, QuietSteps DEF queue_vars

(* The units that a send adds are those that follow.                       *)
LEMMA NextInOrder ==
  ASSUME IInv, OrderInv, UnitsInv, InOrderDelivery, [Next]_vars
  PROVE  InOrderDelivery'
  <1>1. CASE delivered' = delivered
    BY <1>1 DEF InOrderDelivery
  <1>2. CASE SendHost /\ Host \notin closed /\ HostAccepts(cursor.agent_id, cursor.packet_index)
    <2> DEFINE from == cursor.size_count
               n == Lesser(host_room, PayloadLen - from)
               m == Len(delivered)
               c == Chunk(recv_seq, from, n)
               w == recv_seq * PayloadLen
    <2>1. /\ from \in Nat /\ n \in Nat /\ n > 0 /\ from + n <= PayloadLen
          /\ m = w + from
          /\ delivered' = delivered \o c
      BY <1>2, Accepted
    <2>2. delivered \in Units /\ recv_seq \in Nat /\ PayloadLen \in Nat \ {0}
      BY Positive DEF IInv, TypeOK, HostTypes, OrderTypes
    <2> HIDE DEF n, from
    <2>3. /\ c \in Units /\ Len(c) = n
          /\ \A l \in 1 .. n : c[l] = <<recv_seq, from + l - 1>>
      BY <2>1, <2>2, ChunkUnits
    <2> HIDE DEF c
    <2>4. /\ \A l \in 1 .. m : delivered'[l] = delivered[l]
          /\ \A l \in 1 .. Len(delivered') : l > m =>
               l - m \in 1 .. n /\ delivered'[l] = c[l - m]
          /\ m \in Nat
      <3>1. m \in Nat
        BY <2>2 DEF Units
      <3>2. /\ \A l \in 1 .. m : (delivered \o c)[l] = delivered[l]
            /\ \A l \in 1 .. Len(delivered \o c) : l > m =>
                 l - m \in 1 .. n /\ (delivered \o c)[l] = c[l - m]
        BY <2>2, <2>3, Joined
      <3> QED BY <2>1, <3>1, <3>2
    <2>5. w \in Nat
      BY <2>2, NextProduct
    <2> SUFFICES ASSUME NEW l \in 1 .. Len(delivered')
                 PROVE  delivered'[l] = <<(l - 1) \div PayloadLen, (l - 1) % PayloadLen>>
      BY DEF InOrderDelivery
    <2>6. CASE l <= m
      BY <2>4, <2>6 DEF InOrderDelivery
    <2>7. CASE l > m
      <3> DEFINE r == from + (l - m) - 1
      <3>1. l - m \in 1 .. n /\ delivered'[l] = <<recv_seq, r>>
        BY <2>3, <2>4, <2>7
      <3>2. r \in 0 .. PayloadLen - 1 /\ l - 1 = w + r
        <4> HIDE DEF w, m
        <4> QED BY <2>1, <2>2, <2>4, <2>5, <3>1
      <3> HIDE DEF r
      <3>3. (w + r) \div PayloadLen = recv_seq /\ (w + r) % PayloadLen = r
        BY <2>2, <3>2, DivMod
      <3> QED BY <3>1, <3>2, <3>3
    <2> QED BY <2>4, <2>6, <2>7
  <1> QED BY <1>1, <1>2, DeliveredKept

(* The invariant of the inbound direction.                                 *)
DeliveryInv == IInv /\ OrderInv /\ UnitsInv /\ InOrderDelivery

(* Every step preserves it.                                                *)
LEMMA NextDelivery ==
  ASSUME DeliveryInv, [Next]_vars
  PROVE  DeliveryInv'
  BY NextIInv, NextOrder, NextUnits, NextInOrder DEF DeliveryInv

(* It holds throughout.                                                    *)
THEOREM Delivery == Spec => []DeliveryInv
  <1>1. Init => DeliveryInv
    <2>1. Init => InOrderDelivery
      BY DEF Init, InOrderDelivery
    <2> QED BY <2>1, InitIInv, InitOrder, InitUnits DEF DeliveryInv
  <1> QED BY <1>1, NextDelivery, PTL DEF Spec

(* What the host got is a prefix of what the other host sent: no unit is   *)
(* lost, repeated or out of order, across all sockets.                     *)
THEOREM HostGetsPrefix == Spec => []InOrderDelivery
  <1>1. DeliveryInv => InOrderDelivery
    BY DEF DeliveryInv
  <1> QED BY <1>1, Delivery, PTL

(* A packet on which the host socket blocked is the one that is due, and   *)
(* it is resumed at the unit after the last one that the host has.         *)
THEOREM ResumesWhereItStopped == Spec => []BlockedPacketIsNext
  <1>1. DeliveryInv => BlockedPacketIsNext
    BY DEF DeliveryInv, OrderInv, BlockedNext, UnitsInv, BlockedAt, BlockedPacketIsNext, Read, Number
  <1> QED BY <1>1, Delivery, PTL

(* The packet that is due, once read, never waits unless the host socket   *)
(* is full and polled for output.                                          *)
THEOREM DuePacketHandled == Spec => []NextPacketHandled
  <1>1. DeliveryInv => NextPacketHandled
    <2> SUFFICES ASSUME DeliveryInv, InLoop, fd_poll[Host] # CLOSED,
                        NEW i \in Agents, NEW p \in Slots, Read(i, p), Number(i, p) = recv_seq
                 PROVE  "out" \in epoll[Host] /\ <<i, p>> \notin buffered_packet_table
      BY DEF NextPacketHandled, Number
    <2>1. Alive /\ pc # "send_data_host"
      BY DEF InLoop, Alive, Running
    <2>2. "out" \in fd_poll[Host]
      BY <2>1 DEF DeliveryInv, UnitsInv, BetweenPackets, WaitingFor
    <2>3. "out" \in epoll[Host]
      BY <2>1, <2>2 DEF DeliveryInv, IInv, PollMatchesEpoll, CLOSED, Fds
    <2>4. recv_seq \in Nat
      BY DEF DeliveryInv, IInv, TypeOK, OrderTypes
    <2>5. <<i, p>> \notin buffered_packet_table
      BY <2>4 DEF DeliveryInv, OrderInv, TableEarly
    <2> QED BY <2>3, <2>5
  <1> QED BY <1>1, Delivery, PTL

-----------------------------------------------------------------------------
(* The byte stream.                                                        *)

Sent == in_seq * PayloadLen
Got == [k \in DOMAIN delivered |-> delivered[k][1] * PayloadLen + delivered[k][2]]

(* The first n units of the stream.                                        *)
Prefix(n) == [k \in 1 .. n |-> k - 1]

(* A prefix, and the units that follow.                                    *)
LEMMA LongerPrefix ==
  ASSUME NEW m \in Nat, NEW n \in Nat
  PROVE  /\ Prefix(m) \in Seq(Nat) /\ Len(Prefix(m)) = m
         /\ Prefix(m) \o [k \in 1 .. n |-> m + k - 1] = Prefix(m + n)
  <1> DEFINE t == [k \in 1 .. n |-> m + k - 1]
  <1>1. Prefix(m) \in Seq(Nat) /\ Len(Prefix(m)) = m
    BY DEF Prefix
  <1>2. t \in Seq(Nat) /\ Len(t) = n
    OBVIOUS
  <1>3. Prefix(m + n) \in Seq(Nat) /\ Len(Prefix(m + n)) = m + n
    BY DEF Prefix
  <1>4. Prefix(m) \o t \in Seq(Nat) /\ Len(Prefix(m) \o t) = m + n
    <2> HIDE DEF t
    <2> QED BY <1>1, <1>2
  <1>5. ASSUME NEW k \in 1 .. m + n
        PROVE  (Prefix(m) \o t)[k] = Prefix(m + n)[k]
    <2>1. CASE k <= m
      <3>1. (Prefix(m) \o t)[k] = Prefix(m)[k]
        <4> HIDE DEF t
        <4> QED BY <1>1, <1>2, <2>1
      <3> QED BY <2>1, <3>1 DEF Prefix
    <2>2. CASE k > m
      <3>1. (Prefix(m) \o t)[k] = t[k - m]
        <4> HIDE DEF t
        <4> QED BY <1>1, <1>2, <2>2
      <3> QED BY <2>2, <3>1 DEF Prefix
    <2>3. k <= m \/ k > m
      OBVIOUS
    <2> QED BY ONLY <2>1, <2>2, <2>3
  <1>6. Prefix(m) \o t = Prefix(m + n)
    <2> HIDE DEF t
    <2> QED BY <1>3, <1>4, <1>5, SeqEqual
  <1> QED BY <1>1, <1>6

(* What the host got, as the stream sees it, is the first units of it.     *)
LEMMA InOrderIsPrefix ==
  ASSUME NEW units \in Units,
         \A k \in 1 .. Len(units) : units[k] = <<(k - 1) \div PayloadLen, (k - 1) % PayloadLen>>
  PROVE  /\ Len(units) \in Nat
         /\ [k \in DOMAIN units |-> units[k][1] * PayloadLen + units[k][2]] = Prefix(Len(units))
  <1>1. Len(units) \in Nat /\ DOMAIN units = 1 .. Len(units)
    BY DEF Units
  <1>2. ASSUME NEW k \in 1 .. Len(units)
        PROVE  units[k][1] * PayloadLen + units[k][2] = k - 1
    <2>1. k - 1 \in Nat
      BY <1>1
    <2>2. units[k][1] = (k - 1) \div PayloadLen /\ units[k][2] = (k - 1) % PayloadLen
      OBVIOUS
    <2>3. ((k - 1) \div PayloadLen) * PayloadLen + ((k - 1) % PayloadLen) = k - 1
      BY <2>1, QuotientRemainder, Positive
    <2> QED BY <2>2, <2>3, Zenon
  <1>3. [k \in 1 .. Len(units) |-> units[k][1] * PayloadLen + units[k][2]]
          = [k \in 1 .. Len(units) |-> k - 1]
    BY <1>2, Zenon
  <1> QED BY <1>1, <1>3 DEF Prefix

(* The remote agent writes to the stream, a send reads from it, and no     *)
(* other step is seen there.                                               *)
LEMMA StreamStep ==
  ASSUME DeliveryInv, [Next]_vars
  PROVE  [Inward!Write \/ Inward!Read]_<<Sent, Got>>
  <1>1. DeliveryInv'
    BY NextDelivery
  <1>2. Sent \in Nat /\ Sent' \in Nat /\ in_seq \in Nat /\ PayloadLen \in Nat \ {0}
    BY <1>1, NextProduct, Positive DEF Sent, DeliveryInv, IInv, TypeOK, InboundTypes
  <1>3. /\ Got = Prefix(Len(delivered)) /\ Len(delivered) \in Nat
        /\ Got' = Prefix(Len(delivered'))
    <2>1. Got = Prefix(Len(delivered)) /\ Len(delivered) \in Nat
      BY InOrderIsPrefix DEF Got, DeliveryInv, InOrderDelivery, IInv, TypeOK, HostTypes
    <2>2. Got' = Prefix(Len(delivered'))
      BY <1>1, InOrderIsPrefix DEF Got, DeliveryInv, InOrderDelivery, IInv, TypeOK, HostTypes
    <2> QED BY <2>1, <2>2
  <1>4. CASE SendHost /\ Host \notin closed /\ HostAccepts(cursor.agent_id, cursor.packet_index)
    <2> DEFINE k == cursor.size_count
               n == Lesser(host_room, PayloadLen - k)
               m == Len(delivered)
    <2>1. /\ k \in Nat /\ n \in Nat /\ n > 0 /\ k + n <= PayloadLen
          /\ m = recv_seq * PayloadLen + k
          /\ Len(delivered') = recv_seq * PayloadLen + (k + n)
      BY <1>4, Accepted DEF DeliveryInv
    <2> HIDE DEF n, k
    <2>2. Got' = Prefix(Len(delivered'))
      BY <1>3
    <2>3. in_seq' = in_seq
      BY <1>4 DEF SendHost, inbound_vars
    <2>4. recv_seq \in Nat /\ recv_seq + 1 <= in_seq
      <3>1. recv_seq \in Nat
        BY DEF DeliveryInv, IInv, TypeOK, OrderTypes
      <3>2. /\ Read(cursor.agent_id, cursor.packet_index)
            /\ Number(cursor.agent_id, cursor.packet_index) = recv_seq
            /\ cursor.agent_id \in Agents /\ cursor.packet_index \in Slots
        BY <1>4 DEF SendHost, DeliveryInv, OrderInv, SendingNext, IInv, CursorInv, TypeOK, ControlTypes, Cursor
      <3>3. recv_seq < in_seq
        BY <3>2 DEF DeliveryInv, OrderInv, SlotNumbers
      <3> QED BY <1>2, <3>1, <3>3
    <2>5. recv_seq * PayloadLen \in Nat /\ (recv_seq + 1) * PayloadLen = recv_seq * PayloadLen + PayloadLen
      BY <1>2, <2>4, NextProduct
    <2>6. (recv_seq + 1) * PayloadLen <= Sent
      BY <1>2, <2>4, ProductMonotone DEF Sent
    <2>7. m + n <= Sent /\ m + n = Len(delivered')
      <3> DEFINE w == recv_seq * PayloadLen
      <3> HIDE DEF w, m
      <3>1. w \in Nat /\ m = w + k /\ w + PayloadLen <= Sent /\ Len(delivered') = w + (k + n)
        BY <2>1, <2>5, <2>6 DEF w, m
      <3> QED BY <1>2, <2>1, <3>1
    <2>8. n \in 1 .. Sent - m
      BY <1>2, <1>3, <2>1, <2>7
    <2>9. Len(Got) = m
      BY <1>3, LongerPrefix
    <2>10. Got' = Got \o [l \in 1 .. n |-> Len(Got) + l - 1]
      BY <1>3, <2>1, <2>2, <2>7, <2>9, LongerPrefix
    <2>11. Sent' = Sent
      BY <2>3 DEF Sent
    <2>12. \E z \in 1 .. Sent - Len(Got) : Got' = Got \o [l \in 1 .. z |-> Len(Got) + l - 1]
      BY <2>8, <2>9, <2>10
    <2>13. Inward!Read
      BY <2>11, <2>12 DEF Inward!Read, Sent, Got
    <2> QED BY <2>13
  <1>5. ASSUME NEW i \in Agents, RemoteSends(i)
        PROVE  Inward!Write
    <2>1. in_seq' = in_seq + 1 /\ delivered' = delivered
      BY <1>5 DEF RemoteSends, host_vars
    <2>2. Sent' = Sent + PayloadLen
      BY <1>2, <2>1, NextProduct DEF Sent
    <2>3. Sent' \in Nat /\ Sent' > Sent /\ Got' = Got
      BY <1>2, <2>1, <2>2 DEF Got
    <2> QED BY <2>3 DEF Inward!Write, Sent, Got
  <1>6. CASE ~(SendHost /\ Host \notin closed /\ HostAccepts(cursor.agent_id, cursor.packet_index))
             /\ ~(\E i \in Agents : RemoteSends(i))
    <2>1. delivered' = delivered
      BY <1>6, DeliveredKept
    <2>2. in_seq' = in_seq
      <3>1. ASSUME NEW i \in Agents, AgentIn(i)
            PROVE  in_seq' = in_seq
        BY <3>1, AgentInFills DEF DeliveryInv, OrderInv
      <3>2. SendHost => in_seq' = in_seq
        BY DEF SendHost, inbound_vars
      <3> QED BY <1>6, <3>1, <3>2, QuietSteps DEF queue_vars
    <2> QED BY <2>1, <2>2 DEF Sent, Got
  <1> QED BY <1>4, <1>5, <1>6

(* The transfer implements the byte stream of OrderedStream.               *)
THEOREM Refinement == Spec => ImplementsStream
  <1>1. Init => Inward!Init
    <2> SUFFICES ASSUME Init
                 PROVE  Inward!Init
      OBVIOUS
    <2>1. in_seq * PayloadLen = 0
      BY Positive DEF Init
    <2>2. delivered = <<>>
      BY DEF Init
    <2>3. [k \in DOMAIN delivered |-> delivered[k][1] * PayloadLen + delivered[k][2]] = <<>>
      BY <2>2
    <2> QED BY <2>1, <2>3 DEF Inward!Init
  <1> QED BY <1>1, StreamStep, Delivery, PTL DEF Spec, ImplementsStream, Inward!Spec, Sent, Got

-----------------------------------------------------------------------------
(***************************************************************************)
(* The packets of the outbound direction.  The remote agent finds them by  *)
(* counting: each socket has to carry whole packets, one after the other.  *)
(* That rests on a send that blocked being resumed where it stopped, on    *)
(* the same socket and before another packet: what the socket carries of   *)
(* its last packet is what the cursor, or host_sent_size, says was sent.   *)
(***************************************************************************)

-----------------------------------------------------------------------------
(* The invariant.                                                          *)

(* The socket that a chunk is read for is open, and its packet starts at   *)
(* its beginning.                                                          *)
PickedOpen ==
  /\ pc \in {"read_host_send_agent", "send_agent"} => cursor.agent_id \in Agents \ closed
  /\ pc = "read_host_send_agent" => cursor.size_count = 0

(* How much of the packet of socket i was sent, as the code knows it.      *)
Progressed(i) ==
  IF pc = "send_agent" /\ cursor.agent_id = i THEN cursor.size_count
  ELSE IF Pending(i) THEN packet[i].host_sent_size ELSE 0

(* That is what the socket carries of a packet which is not whole ...      *)
Usable(i) == Alive /\ i \notin closed
WireProgress ==
  \A i \in Agents : Usable(i) =>
    /\ Len(wire[i]) % PacketLen = Progressed(i)
    /\ Progressed(i) > 0 => wire[i][Len(wire[i])][1] = packet[i].seq

(* ... which is the last of its packets.                                   *)
WireNumbers ==
  \A i \in Agents, k \in Nat : k \in 1 .. Len(wire[i]) =>
    /\ wire[i][k][1] < send_seq
    /\ Usable(i) /\ Pending(i) =>
         wire[i][k][1] < packet[i].seq \/ (Progressed(i) > 0 /\ wire[i][k][1] = packet[i].seq)

(* Two sockets never wait with the same packet.                            *)
PendingNumbers ==
  \A i \in Agents : Pending(i) =>
    /\ packet[i].seq < send_seq
    /\ \A j \in Agents : Pending(j) /\ packet[j].seq = packet[i].seq => j = i

(* What was sent whole was sent once, and does not wait any more ...       *)
CarriedOnce ==
  \A i \in Agents, seq \in Nat : Carried(seq, i) =>
    /\ seq < send_seq
    /\ \A j \in Agents : Carried(seq, j) => j = i
    /\ \A j \in Agents : Pending(j) => packet[j].seq # seq

(* ... and every chunk was sent or waits.                                  *)
NoneDropped ==
  \A seq \in Nat : seq < send_seq =>
    \E i \in Agents : Carried(seq, i) \/ (Pending(i) /\ packet[i].seq = seq)

OutInv ==
  /\ PickedOpen /\ WireProgress /\ WireNumbers
  /\ PendingNumbers /\ CarriedOnce /\ NoneDropped /\ FramesContiguous

-----------------------------------------------------------------------------
(* What the steps do.                                                      *)

out_vars == <<packet, send_seq, wire>>

(* Two actions change what was numbered, waits or was sent, one more       *)
(* starts a send.                                                          *)
LEMMA OutSteps ==
  ASSUME IInv, ClosedUnpolled, [Next]_vars,
         \A i \in Agents : ~RecvHost(i) /\ ~ResumeSend(i) /\ ~SendAgent(i)
  PROVE  /\ UNCHANGED out_vars
         /\ pc = "send_agent" \/ pc' = "send_agent" => UNCHANGED <<pc, cursor, closed>>
         /\ pc' = "read_host_send_agent" =>
              \/ UNCHANGED <<pc, cursor, closed>>
              \/ closed' = closed /\ \E i \in Agents \ closed : Start(i)
  <1> USE DEF out_vars, send_vars, outbound_vars
  <1>1. CheckClosed => UNCHANGED out_vars /\ pc = "check" /\ pc' \in {"closed", "wait"}
    BY DEF CheckClosed
  <1>2. HostIn => /\ UNCHANGED out_vars /\ pc = "wait" /\ pc' # "send_agent"
                  /\ pc' = "read_host_send_agent" =>
                       closed' = closed /\ \E i \in Agents \ closed : Start(i)
    BY DEF HostIn, Exit, AllAgentsSocksFull, EpollCtl
  <1>3. HostOut => UNCHANGED out_vars /\ pc = "wait" /\ pc' \notin {"send_agent", "read_host_send_agent"}
    BY DEF HostOut, SetPoll, EpollCtl
  <1>4. SendHost => UNCHANGED out_vars /\ pc = "send_data_host" /\ pc' \notin {"send_agent", "read_host_send_agent"}
    BY DEF SendHost, HostAccepts, HostCompletes, HostBlocks, HostSendFails, SetPoll, EpollCtl, Unregister, Exit
  <1>5. ASSUME NEW i \in Agents, AgentIn(i)
        PROVE  UNCHANGED out_vars /\ pc = "wait" /\ pc' \notin {"send_agent", "read_host_send_agent"}
    BY <1>5 DEF AgentIn, ReadPacket, ReadBlocks, ReadEnds, ReadFails, SetPoll, EpollCtl, Unregister, Exit
  <1>6. HostSide \/ RemoteSide \/ Ended \/ UNCHANGED vars => UNCHANGED <<out_vars, pc, cursor, closed>>
    BY DEF HostSide, HostWrites, HostReads, HostCloses, HostResets, RemoteSide, RemoteSends,
           Arrive, Drain, RemoteCloses, RemoteResets, Ended, process_vars, vars
  <1>7. ASSUME NEW i \in Agents, AgentOut(i)
        PROVE  /\ UNCHANGED out_vars /\ pc = "wait" /\ pc' # "send_agent"
               /\ i \notin closed /\ closed' = closed /\ Start(i)
    <2>1. i \notin closed
      BY <1>7 DEF AgentOut, ClosedUnpolled, Alive, Running
    <2> QED BY <1>7, <2>1 DEF AgentOut, NotAllAgentSocksFull, EpollCtl
  <1> QED BY <1>1, <1>2, <1>3, <1>4, <1>5, <1>6, <1>7 DEF Next, Outbound, Inbound

(* A socket that can be used could be before.                              *)
LEMMA UsableBefore ==
  ASSUME IInv, ClosedUnpolled, [Next]_vars, NEW i \in Agents, Usable(i)'
  PROVE  Usable(i)
  BY RunsOn, ClosedIsFinal DEF Usable

(* Nothing is sent and nothing is numbered: the sockets stay in order.     *)
LEMMA SameWire ==
  ASSUME OutInv, wire' = wire, send_seq' = send_seq,
         \A i \in Agents : (Pending(i)' <=> Pending(i)) /\ packet'[i].seq = packet[i].seq,
         \A i \in Agents : Usable(i)' => Usable(i) /\ Progressed(i)' = Progressed(i),
         PickedOpen'
  PROVE  OutInv'
  <1>1. WireProgress' /\ WireNumbers'
    BY DEF OutInv, WireProgress, WireNumbers
  <1>2. PendingNumbers'
    BY DEF OutInv, PendingNumbers
  <1>3. \A i \in Agents, seq \in Nat : Carried(seq, i)' <=> Carried(seq, i)
    BY DEF Carried
  <1>4. CarriedOnce' /\ NoneDropped'
    BY <1>3 DEF OutInv, CarriedOnce, NoneDropped
  <1>5. FramesContiguous'
    BY DEF OutInv, FramesContiguous
  <1> QED BY <1>1, <1>2, <1>4, <1>5 DEF OutInv

(* The steps that are not of this direction.                               *)
LEMMA QuietKeepsOut ==
  ASSUME IInv, OrderInv, OutInv, [Next]_vars,
         \A i \in Agents : ~RecvHost(i) /\ ~ResumeSend(i) /\ ~SendAgent(i)
  PROVE  OutInv'
  <1>1. ClosedUnpolled
    BY DEF OrderInv
  <1>2. /\ UNCHANGED out_vars
        /\ pc = "send_agent" \/ pc' = "send_agent" => UNCHANGED <<pc, cursor, closed>>
    BY <1>1, OutSteps
  <1>3. \A i \in Agents : Progressed(i)' = Progressed(i)
    BY <1>2 DEF Progressed, Pending, out_vars
  <1>4. PickedOpen'
    <2>1. pc' = "send_agent" => cursor'.agent_id \in Agents \ closed'
      BY <1>2 DEF OutInv, PickedOpen
    <2>2. pc' = "read_host_send_agent" =>
            cursor'.agent_id \in Agents \ closed' /\ cursor'.size_count = 0
      <3>1. pc' = "read_host_send_agent" =>
              \/ UNCHANGED <<pc, cursor, closed>>
              \/ closed' = closed /\ \E i \in Agents \ closed : Start(i)
        BY <1>1, OutSteps
      <3> QED BY <3>1 DEF OutInv, PickedOpen, Start, Idle
    <2> QED BY <2>1, <2>2 DEF PickedOpen
  <1> QED BY <1>1, <1>2, <1>3, <1>4, UsableBefore, SameWire DEF out_vars, Pending

(* Resuming a packet: the cursor takes up what host_sent_size kept.        *)
LEMMA ResumeKeepsOut ==
  ASSUME IInv, OrderInv, OutInv, [Next]_vars, NEW i \in Agents, ResumeSend(i)
  PROVE  OutInv'
  <1>1. /\ pc = "read_host_send_agent" /\ i = cursor.agent_id /\ Pending(i)
        /\ UNCHANGED <<packet, send_seq, wire, closed>>
        /\ cursor' = [cursor EXCEPT !.size_count = packet[i].host_sent_size]
        /\ pc' # "read_host_send_agent"
        /\ Alive' => pc' = "send_agent"
    BY DEF ResumeSend, send_vars, outbound_vars, SetPoll, EpollCtl, Exit, Alive, Running
  <1>2. cursor'.agent_id = i /\ cursor'.size_count = packet[i].host_sent_size
    BY <1>1 DEF IInv, TypeOK, ControlTypes, Cursor
  <1>3. \A j \in Agents : Alive' => Progressed(j)' = Progressed(j)
    BY <1>1, <1>2 DEF Progressed, Pending
  <1>4. PickedOpen'
    BY <1>1, <1>2 DEF OutInv, PickedOpen
  <1>5. \A j \in Agents : Usable(j)' => Usable(j) /\ Progressed(j)' = Progressed(j)
    BY <1>3, UsableBefore DEF OrderInv, Usable
  <1> QED BY <1>1, <1>4, <1>5, SameWire DEF Pending

(* Reading a chunk: it gets the next number, which nothing has yet.        *)
LEMMA RecvKeepsOut ==
  ASSUME IInv, OrderInv, OutInv, [Next]_vars, NEW i \in Agents, RecvHost(i)
  PROVE  OutInv'
  <1>1. /\ pc = "read_host_send_agent" /\ i = cursor.agent_id /\ ~Pending(i)
        /\ wire' = wire /\ i \notin closed /\ cursor.size_count = 0
        /\ packet \in [Agents -> PacketState] /\ send_seq \in Nat
        /\ \A j \in Agents : Usable(j)' => Usable(j)
    BY UsableBefore DEF RecvHost, outbound_vars, OutInv, OrderInv, PickedOpen, IInv, TypeOK, SendTypes
  <1>2. CASE UNCHANGED send_vars
    <2>1. pc' \notin {"send_agent", "read_host_send_agent"}
      <3>1. send_seq' # send_seq + 1
        BY <1>1, <1>2 DEF send_vars
      <3>2. host \in PeerStates
        BY DEF IInv, TypeOK, HostTypes
      <3> QED BY <3>1, <3>2 DEF RecvHost, Exit, Unregister, PeerStates
    <2>2. \A j \in Agents : Progressed(j)' = Progressed(j)
      BY <1>1, <1>2, <2>1 DEF Progressed, Pending, send_vars
    <2>3. PickedOpen'
      BY <2>1 DEF PickedOpen
    <2> QED BY <1>1, <1>2, <2>2, <2>3, SameWire DEF Pending, send_vars
  <1>3. CASE ~UNCHANGED send_vars
    <2>1. /\ packet' = [packet EXCEPT ![i].host_packet_size = PacketLen, ![i].seq = send_seq]
          /\ send_seq' = send_seq + 1
          /\ pc' = "send_agent" /\ UNCHANGED <<cursor, closed>>
      BY <1>3 DEF RecvHost
    <2>2. /\ Pending(i)' /\ packet'[i].seq = send_seq
          /\ \A j \in Agents : j # i => packet'[j] = packet[j] /\ (Pending(j)' <=> Pending(j))
      BY <1>1, <2>1, Positive DEF Pending, PacketState
    <2>3. Progressed(i) = 0 /\ Progressed(i)' = 0
      BY <1>1, <2>1, <2>2 DEF Progressed
    <2>4. \A j \in Agents : Progressed(j)' = Progressed(j)
      BY <1>1, <2>1, <2>2, <2>3 DEF Progressed
    <2>5. PickedOpen'
      BY <1>1, <2>1 DEF PickedOpen
    <2>6. WireProgress'
      BY <1>1, <2>2, <2>3, <2>4 DEF OutInv, WireProgress
    <2>7. WireNumbers'
      <3>1. \A j \in Agents, k \in Nat : k \in 1 .. Len(wire[j]) => wire[j][k][1] \in Nat
        BY DEF IInv, TypeOK, OutboundTypes, Units
      <3> QED BY <1>1, <2>1, <2>2, <2>4, <3>1 DEF OutInv, WireNumbers
    <2>8. PendingNumbers'
      <3>1. \A j \in Agents : packet[j].seq \in Nat
        BY <1>1 DEF PacketState
      <3> QED BY <1>1, <2>1, <2>2, <3>1 DEF OutInv, PendingNumbers
    <2>9. \A j \in Agents, seq \in Nat : Carried(seq, j)' <=> Carried(seq, j)
      BY <1>1 DEF Carried
    <2>10. CarriedOnce'
      BY <1>1, <2>1, <2>2, <2>9 DEF OutInv, CarriedOnce
    <2>11. NoneDropped'
      BY <1>1, <2>1, <2>2, <2>9 DEF OutInv, NoneDropped
    <2>12. FramesContiguous'
      BY <1>1 DEF OutInv, FramesContiguous
    <2> QED BY <2>5, <2>6, <2>7, <2>8, <2>10, <2>11, <2>12 DEF OutInv
  <1> QED BY <1>2, <1>3

-----------------------------------------------------------------------------
(* One call of send.                                                       *)

(* Going on from x, until the next multiple of d.                          *)
LEMMA RemainderMoves ==
  ASSUME NEW d \in Nat \ {0}, NEW x \in Nat, NEW m \in Nat
  PROVE  /\ (x % d) + m < d => (x + m) % d = (x % d) + m
         /\ (x % d) + m = d => (x + m) % d = 0
  <1> DEFINE q == x \div d
             c == x % d
  <1>1. q * d + c = x /\ q \in Nat /\ c \in 0 .. d - 1
    BY QuotientRemainder
  <1> HIDE DEF q, c
  <1>2. (q + 1) * d = q * d + d /\ q * d \in Nat
    BY <1>1, NextProduct
  <1>3. c + m < d => (q * d + (c + m)) % d = c + m
    <2>1. c + m < d => c + m \in 0 .. d - 1
      BY <1>1
    <2> QED BY <1>1, <2>1, DivMod
  <1>4. ((q + 1) * d + 0) % d = 0
    BY <1>1, DivMod
  <1> DEFINE u == q * d
             v == (q + 1) * d
  <1> HIDE DEF u, v
  <1>5. x + m = u + (c + m) /\ (c + m = d => x + m = v + 0)
    BY <1>1, <1>2 DEF u, v
  <1>6. c + m < d => (x + m) % d = c + m
    BY <1>3, <1>5 DEF u
  <1>7. c + m = d => (x + m) % d = 0
    BY <1>4, <1>5 DEF v
  <1> QED BY <1>6, <1>7 DEF c

(* What one call that is not refused leaves on its socket.                 *)
OnWire(i, c, n) ==
  /\ c \in Nat /\ n \in Nat \ {0} /\ c + n <= PacketLen
  /\ Len(wire[i]) \in Nat /\ Len(wire[i]) % PacketLen = c
  /\ Len(wire'[i]) = Len(wire[i]) + n
  /\ \A k \in 1 .. Len(wire[i]) : wire'[i][k] = wire[i][k]
  /\ \A k \in 1 .. Len(wire'[i]) : k > Len(wire[i]) =>
       wire'[i][k] = <<packet[i].seq, c + (k - Len(wire[i])) - 1>>
  /\ \A j \in Agents : j # i => wire'[j] = wire[j]

(* A call of send that is not refused puts the next units of the pending   *)
(* packet behind what its socket carries.                                  *)
LEMMA AcceptedBySocket ==
  ASSUME IInv, OutInv, NEW i \in Agents, SendAgent(i), AgentAccepts(i)
  PROVE  LET n == Lesser(room[i], packet[i].host_packet_size - cursor.size_count)
         IN  /\ OnWire(i, cursor.size_count, n)
             /\ packet[i].host_packet_size = PacketLen /\ Usable(i) /\ Pending(i)
             /\ Progressed(i) = cursor.size_count
  <1> DEFINE c == cursor.size_count
             L == Len(wire[i])
             n == Lesser(room[i], packet[i].host_packet_size - cursor.size_count)
             chunk == Chunk(packet[i].seq, c, n)
  <1>1. /\ pc = "send_agent" /\ i = cursor.agent_id /\ i \notin closed /\ Usable(i) /\ Pending(i)
    BY DEF SendAgent, OutInv, PickedOpen, Usable, Alive, Running, IInv, CursorInv
  <1>2. /\ packet[i].host_packet_size = PacketLen /\ packet[i].seq \in Nat
        /\ c \in Nat /\ room[i] \in Nat /\ room[i] > 0
        /\ wire \in [Agents -> Units] /\ wire[i] \in Units /\ L \in Nat
    <2>1. packet[i] \in PacketState /\ packet[i].host_packet_size # 0
      BY <1>1 DEF Pending, IInv, TypeOK, SendTypes
    <2>2. c \in Nat /\ room[i] \in Nat /\ room[i] > 0
      BY Positive DEF AgentAccepts, IInv, TypeOK, ControlTypes, Cursor, OutboundTypes
    <2>3. wire \in [Agents -> Units] /\ wire[i] \in Units
      BY DEF IInv, TypeOK, OutboundTypes
    <2> QED BY <2>1, <2>2, <2>3 DEF PacketState, Units
  <1>3. Progressed(i) = c
    BY <1>1 DEF Progressed
  <1>4. L % PacketLen = c /\ c < PacketLen
    <2>1. L % PacketLen = c
      BY <1>1, <1>3 DEF OutInv, WireProgress
    <2>2. L % PacketLen < PacketLen
      BY <1>2, Positive
    <2> QED BY <2>1, <2>2
  <1>5. n \in Nat \ {0} /\ c + n <= PacketLen
    <2> DEFINE left == PacketLen - c
    <2>1. left \in Nat \ {0} /\ c + left = PacketLen
      BY <1>2, <1>4, Positive
    <2>2. n = IF room[i] < left THEN room[i] ELSE left
      BY <1>2 DEF Lesser
    <2> HIDE DEF left, c, n
    <2>3. n \in Nat \ {0} /\ n <= left
      BY <1>2, <2>1, <2>2
    <2> QED BY <1>2, <2>1, <2>3, Positive
  <1>6. wire' = [wire EXCEPT ![i] = wire[i] \o chunk]
    BY DEF AgentAccepts
  <1> HIDE DEF c, n
  <1>7. /\ chunk \in Units /\ Len(chunk) = n
        /\ \A l \in 1 .. n : chunk[l] = <<packet[i].seq, c + l - 1>>
    BY <1>2, <1>5, ChunkUnits
  <1> HIDE DEF chunk
  <1>8. /\ wire'[i] = wire[i] \o chunk
        /\ \A j \in Agents : j # i => wire'[j] = wire[j]
    BY <1>2, <1>6
  <1>9. /\ Len(wire'[i]) = L + n
        /\ \A k \in 1 .. L : wire'[i][k] = wire[i][k]
        /\ \A k \in 1 .. Len(wire'[i]) : k > L =>
             k - L \in 1 .. n /\ wire'[i][k] = chunk[k - L]
    <2> DEFINE s == wire[i]
               t == s \o chunk
    <2>1. s \in Units /\ chunk \in Units /\ Len(chunk) = n /\ wire'[i] = t
      BY <1>2, <1>7, <1>8
    <2> HIDE DEF s
    <2>2. /\ Len(t) = Len(s) + n
          /\ \A k \in 1 .. Len(s) : t[k] = s[k]
          /\ \A k \in 1 .. Len(t) : k > Len(s) => k - Len(s) \in 1 .. n /\ t[k] = chunk[k - Len(s)]
      BY <2>1, Joined
    <2> QED BY <2>1, <2>2 DEF s
  <1>10. \A k \in 1 .. Len(wire'[i]) : k > L => wire'[i][k] = <<packet[i].seq, c + (k - L) - 1>>
    BY <1>7, <1>9
  <1>11. OnWire(i, c, n)
    BY <1>2, <1>4, <1>5, <1>8, <1>9, <1>10 DEF OnWire
  <1> QED BY <1>1, <1>2, <1>3, <1>11 DEF c, n

(* The units that follow are those that the remote parser expects.         *)
LEMMA SentKeepsFrames ==
  ASSUME IInv, OutInv, NEW i \in Agents, NEW c, NEW n, OnWire(i, c, n),
         Usable(i), Pending(i), Progressed(i) = c
  PROVE  FramesContiguous'
  <1> DEFINE L == Len(wire[i])
             seq == packet[i].seq
             Framed(w, k) == /\ w[k][2] = (k - 1) % PacketLen
                             /\ k > 1 => IF w[k][2] = 0 THEN w[k][1] > w[k - 1][1]
                                         ELSE w[k][1] = w[k - 1][1]
  <1>1. \A j \in Agents : \A k \in 1 .. Len(wire[j]) : Framed(wire[j], k)
    BY DEF OutInv, FramesContiguous
  <1>2. ASSUME NEW j \in Agents, j # i, NEW k \in 1 .. Len(wire'[j])
        PROVE  Framed(wire'[j], k)
    BY <1>1, <1>2 DEF OnWire
  <1>3. ASSUME NEW k \in 1 .. Len(wire'[i])
        PROVE  Framed(wire'[i], k)
    <2>1. /\ L \in Nat /\ c \in Nat /\ n \in Nat /\ c + n <= PacketLen
          /\ L % PacketLen = c /\ Len(wire'[i]) = L + n /\ k \in Nat /\ k >= 1 /\ k <= L + n
      BY DEF OnWire
    <2>2. CASE k <= L
      <3>1. k \in 1 .. L /\ (k > 1 => k - 1 \in 1 .. L)
        BY <2>1, <2>2
      <3>2. wire'[i][k] = wire[i][k] /\ (k > 1 => wire'[i][k - 1] = wire[i][k - 1])
        BY <3>1 DEF OnWire
      <3> QED BY <1>1, <3>1, <3>2
    <2>3. CASE k > L
      <3> DEFINE m == k - L - 1
      <3>1. m \in Nat /\ c + m < PacketLen /\ k - 1 = L + m
        <4> HIDE DEF L
        <4> QED BY <2>1, <2>3, Positive
      <3>2. wire'[i][k] = <<seq, c + m>>
        <4>1. wire'[i][k] = <<seq, c + (k - L) - 1>>
          BY <2>3 DEF OnWire
        <4>2. c + (k - L) - 1 = c + m
          BY <2>1
        <4> QED BY <4>1, <4>2
      <3> HIDE DEF m
      <3>3. (k - 1) % PacketLen = c + m
        <4> HIDE DEF L
        <4>1. (L + m) % PacketLen = (L % PacketLen) + m
          <5>1. L \in Nat /\ m \in Nat /\ PacketLen \in Nat \ {0} /\ (L % PacketLen) + m < PacketLen
            BY <2>1, <3>1, Positive
          <5> QED BY <5>1, RemainderMoves
        <4> QED BY <2>1, <3>1, <4>1
      <3>4. CASE m > 0
        <4>1. k - 1 \in 1 .. Len(wire'[i]) /\ k - 1 > L
          BY <2>1, <3>1, <3>4
        <4>2. wire'[i][k - 1][1] = seq
          <5>1. ASSUME NEW l \in 1 .. Len(wire'[i]), l > L
                PROVE  wire'[i][l][1] = seq
            <6> DEFINE offset == c + (l - L) - 1
            <6>1. wire'[i][l] = <<seq, offset>>
              BY <5>1 DEF OnWire
            <6> HIDE DEF offset
            <6> QED BY <6>1
          <5> QED BY <4>1, <5>1
        <4> HIDE DEF L, seq
        <4>3. wire'[i][k][1] = seq /\ wire'[i][k][2] = c + m /\ c + m # 0
          BY <2>1, <3>1, <3>2, <3>4
        <4> QED BY <3>3, <4>2, <4>3
      <3>5. CASE m = 0 /\ k > 1
        <4>1. k - 1 = L /\ L \in 1 .. L
          BY <2>1, <3>1, <3>5
        <4>2. wire'[i][k - 1] = wire[i][L]
          BY <4>1 DEF OnWire
        <4>3. c > 0 => wire[i][L][1] = seq
          BY DEF OutInv, WireProgress
        <4>4. c = 0 => wire[i][L][1] < seq
          BY <2>1, <4>1 DEF OutInv, WireNumbers
        <4>5. wire[i][L][1] \in Nat /\ seq \in Nat
          <5>1. wire[i] \in Seq(Nat \X Nat) /\ packet[i] \in PacketState
            BY DEF IInv, TypeOK, OutboundTypes, Units, SendTypes
          <5>2. wire[i][L] \in Nat \X Nat
            BY <4>1, <5>1
          <5> QED BY <5>1, <5>2 DEF PacketState
        <4> HIDE DEF L, seq
        <4>6. wire'[i][k][1] = seq /\ wire'[i][k][2] = c
          BY <2>1, <3>1, <3>2, <3>5
        <4>7. (k - 1) % PacketLen = c
          BY <2>1, <3>3, <3>5
        <4> QED BY <2>1, <4>2, <4>3, <4>4, <4>5, <4>6, <4>7
      <3>6. CASE m = 0 /\ k = 1
        BY <2>1, <3>1, <3>2, <3>3, <3>6
      <3> QED BY <2>1, <3>1, <3>4, <3>5, <3>6
    <2> QED BY <2>1, <2>2, <2>3
  <1> QED BY <1>2, <1>3 DEF FramesContiguous

(* Sending keeps the socket in order: a packet that is whole is on it, one *)
(* that is not is still the packet of the cursor.                          *)
LEMMA AcceptKeepsOut ==
  ASSUME IInv, OrderInv, OutInv, [Next]_vars, NEW i \in Agents, SendAgent(i), AgentAccepts(i)
  PROVE  OutInv'
  <1> DEFINE c == cursor.size_count
             n == Lesser(room[i], packet[i].host_packet_size - cursor.size_count)
             L == Len(wire[i])
             seq == packet[i].seq
  <1>1. /\ OnWire(i, c, n)
        /\ packet[i].host_packet_size = PacketLen /\ Usable(i) /\ Pending(i) /\ Progressed(i) = c
    BY AcceptedBySocket
  <1>2. /\ pc = "send_agent" /\ i = cursor.agent_id /\ closed' = closed /\ send_seq' = send_seq
        /\ IF c + n = PacketLen
           THEN /\ packet' = [packet EXCEPT ![i].host_packet_size = 0]
                /\ pc' = "check"
           ELSE /\ cursor' = [cursor EXCEPT !.size_count = c + n]
                /\ UNCHANGED <<packet, pc>>
    BY <1>1 DEF SendAgent, AgentAccepts
  <1> HIDE DEF n
  <1>3. /\ packet \in [Agents -> PacketState] /\ cursor \in Cursor
        /\ send_seq \in Nat /\ seq \in Nat /\ seq < send_seq
        /\ c \in Nat /\ n \in Nat \ {0} /\ c + n <= PacketLen /\ L \in Nat
        /\ \A j \in Agents : \A k \in 1 .. Len(wire[j]) : wire[j][k] \in Nat \X Nat
        /\ PacketLen \in Nat \ {0}
    <2>1. /\ packet \in [Agents -> PacketState] /\ cursor \in Cursor /\ send_seq \in Nat
          /\ wire \in [Agents -> Seq(Nat \X Nat)]
      BY DEF IInv, TypeOK, SendTypes, ControlTypes, OutboundTypes, Units
    <2>2. seq \in Nat
      BY <2>1 DEF PacketState
    <2>3. \A j \in Agents : \A k \in 1 .. Len(wire[j]) : wire[j][k] \in Nat \X Nat
      BY <2>1
    <2>4. seq < send_seq
      BY <1>1 DEF OutInv, PendingNumbers
    <2> QED BY <1>1, <2>1, <2>2, <2>3, <2>4, Positive DEF OnWire
  <1>4. /\ \A j \in Agents : packet'[j].seq = packet[j].seq /\ packet'[j].host_sent_size = packet[j].host_sent_size
        /\ \A j \in Agents : j # i => (Pending(j)' <=> Pending(j))
        /\ Pending(i)' <=> c + n # PacketLen
    <2>1. CASE c + n = PacketLen
      <3>1. packet' = [packet EXCEPT ![i].host_packet_size = 0]
        BY <1>2, <2>1
      <3> QED BY <1>3, <2>1, <3>1 DEF Pending, PacketState
    <2>2. CASE c + n # PacketLen
      <3>1. packet' = packet
        BY <1>2, <2>2
      <3> QED BY <1>1, <2>2, <3>1 DEF Pending
    <2> QED BY <2>1, <2>2
  <1>5. /\ \A j \in Agents : j # i => Progressed(j)' = Progressed(j)
        /\ Progressed(i)' = IF c + n = PacketLen THEN 0 ELSE c + n
    BY <1>2, <1>3, <1>4 DEF Progressed, Cursor
  <1>6. PickedOpen'
    BY <1>2, <1>3 DEF OutInv, PickedOpen, Cursor
  <1>7. \A j \in Agents : Usable(j)' => Usable(j)
    BY UsableBefore DEF OrderInv
  <1>8. \A k \in 1 .. Len(wire'[i]) : k > L => wire'[i][k] = <<seq, c + (k - L) - 1>>
    BY <1>1 DEF OnWire
  <1>9. /\ Len(wire'[i]) = L + n /\ L % PacketLen = c
        /\ \A k \in 1 .. L : wire'[i][k] = wire[i][k]
        /\ \A j \in Agents : j # i => wire'[j] = wire[j]
    BY <1>1 DEF OnWire
  <1> HIDE DEF c, L, seq
  <1>10. \A k \in 1 .. Len(wire'[i]) : k > L =>
           /\ wire'[i][k][1] = seq
           /\ wire'[i][k] = <<seq, PacketLen - 1>> <=> c + (k - L) = PacketLen
    <2> SUFFICES ASSUME NEW k \in 1 .. Len(wire'[i]), k > L
                 PROVE  /\ wire'[i][k][1] = seq
                        /\ wire'[i][k] = <<seq, PacketLen - 1>> <=> c + (k - L) = PacketLen
      OBVIOUS
    <2> DEFINE offset == c + (k - L) - 1
    <2>1. wire'[i][k] = <<seq, offset>>
      BY <1>8
    <2>2. offset = PacketLen - 1 <=> c + (k - L) = PacketLen
      BY <1>3, <1>9
    <2> HIDE DEF offset
    <2> QED BY <2>1, <2>2
  <1>11. WireProgress'
    <2>1. (L + n) % PacketLen = Progressed(i)'
      BY <1>3, <1>5, <1>9, RemainderMoves
    <2>2. Progressed(i)' > 0 => wire'[i][Len(wire'[i])][1] = seq
      <3>1. L + n \in 1 .. L + n /\ L + n > L
        BY <1>3
      <3> QED BY <1>9, <1>10, <3>1
    <2> QED BY <1>4, <1>5, <1>7, <1>9, <2>1, <2>2 DEF OutInv, WireProgress, seq
  <1>12. WireNumbers'
    <2>1. ASSUME NEW j \in Agents, j # i, NEW k \in Nat, k \in 1 .. Len(wire'[j])
          PROVE  /\ wire'[j][k][1] < send_seq'
                 /\ Usable(j)' /\ Pending(j)' =>
                      wire'[j][k][1] < packet'[j].seq
                        \/ (Progressed(j)' > 0 /\ wire'[j][k][1] = packet'[j].seq)
      BY <1>2, <1>4, <1>5, <1>7, <1>9, <2>1 DEF OutInv, WireNumbers
    <2>2. ASSUME NEW k \in Nat, k \in 1 .. Len(wire'[i])
          PROVE  /\ wire'[i][k][1] < send_seq'
                 /\ Usable(i)' /\ Pending(i)' =>
                      wire'[i][k][1] < packet'[i].seq
                        \/ (Progressed(i)' > 0 /\ wire'[i][k][1] = packet'[i].seq)
      <3>1. packet'[i].seq = seq /\ send_seq' = send_seq
        BY <1>2, <1>4 DEF seq
      <3>2. Pending(i)' => Progressed(i)' > 0
        BY <1>3, <1>4, <1>5
      <3>3. CASE k <= L
        <4>1. k \in 1 .. L /\ wire'[i][k] = wire[i][k]
          BY <1>9, <2>2, <3>3
        <4>2. wire[i][k][1] < send_seq /\ (wire[i][k][1] < seq \/ wire[i][k][1] = seq)
          BY <1>1, <4>1 DEF OutInv, WireNumbers, L, seq
        <4> QED BY <3>1, <3>2, <4>1, <4>2
      <3>4. CASE k > L
        BY <1>3, <1>10, <2>2, <3>1, <3>2, <3>4
      <3> QED BY <1>3, <3>3, <3>4
    <2> QED BY <2>1, <2>2 DEF WireNumbers
  <1>13. PendingNumbers'
    BY <1>1, <1>2, <1>4 DEF OutInv, PendingNumbers
  <1>14. /\ \A j \in Agents, s \in Nat : j # i => (Carried(s, j)' <=> Carried(s, j))
         /\ \A s \in Nat : Carried(s, i)' <=> Carried(s, i) \/ (s = seq /\ c + n = PacketLen)
    <2>1. \A j \in Agents, s \in Nat : j # i => (Carried(s, j)' <=> Carried(s, j))
      BY <1>9 DEF Carried
    <2>2. ASSUME NEW s \in Nat, Carried(s, i)', ~Carried(s, i)
          PROVE  s = seq /\ c + n = PacketLen
      <3>1. PICK k \in 1 .. Len(wire'[i]) : wire'[i][k] = <<s, PacketLen - 1>>
        BY <2>2 DEF Carried
      <3>2. k > L
        <4> SUFFICES ASSUME ~(k > L)
                     PROVE  FALSE
          OBVIOUS
        <4>1. k \in 1 .. L
          BY <1>3
        <4> QED BY <1>9, <2>2, <3>1, <4>1 DEF Carried, L
      <3>3. s = seq
        BY <1>10, <3>1, <3>2
      <3>4. c + (k - L) = PacketLen /\ k - L <= n
        BY <1>3, <1>9, <1>10, <3>1, <3>2, <3>3
      <3> QED BY <1>3, <3>3, <3>4
    <2>3. ASSUME NEW s \in Nat, Carried(s, i)
          PROVE  Carried(s, i)'
      <3>1. PICK k \in 1 .. L : wire[i][k] = <<s, PacketLen - 1>>
        BY <2>3 DEF Carried, L
      <3>2. k \in 1 .. Len(wire'[i]) /\ wire'[i][k] = wire[i][k]
        BY <1>3, <1>9
      <3> QED BY <3>1, <3>2 DEF Carried
    <2>4. ASSUME NEW s \in Nat, s = seq, c + n = PacketLen
          PROVE  Carried(s, i)'
      <3>1. PICK k \in Nat : k = L + n
        BY <1>3
      <3>2. k \in 1 .. Len(wire'[i]) /\ k > L /\ k - L = n
        BY <1>3, <1>9, <3>1
      <3>3. wire'[i][k] = <<s, PacketLen - 1>>
        BY <1>10, <2>4, <3>2
      <3> QED BY <3>2, <3>3 DEF Carried
    <2> QED BY <1>3, <2>1, <2>2, <2>3, <2>4
  <1>15. CarriedOnce'
    BY <1>1, <1>2, <1>3, <1>4, <1>14 DEF OutInv, CarriedOnce, PendingNumbers, seq
  <1>16. NoneDropped'
    BY <1>1, <1>2, <1>3, <1>4, <1>14 DEF OutInv, NoneDropped, seq
  <1>17. FramesContiguous'
    BY <1>1, SentKeepsFrames
  <1> QED BY <1>6, <1>11, <1>12, <1>13, <1>15, <1>16, <1>17 DEF OutInv

(* A send that blocks leaves in host_sent_size what the cursor says; one   *)
(* that fails leaves a socket that nobody sends on any more.               *)
LEMMA SendKeepsOut ==
  ASSUME IInv, OrderInv, OutInv, [Next]_vars, NEW i \in Agents, SendAgent(i)
  PROVE  OutInv'
  <1>1. /\ pc = "send_agent" /\ i = cursor.agent_id /\ send_seq' = send_seq /\ Pending(i)
        /\ packet \in [Agents -> PacketState] /\ cursor \in Cursor
        /\ \A j \in Agents : Usable(j)' => Usable(j)
    BY UsableBefore DEF SendAgent, OrderInv, IInv, CursorInv, TypeOK, ControlTypes, SendTypes
  <1>2. CASE AgentAccepts(i)
    BY <1>2, AcceptKeepsOut
  <1>3. CASE AgentBlocks(i)
    <2>1. /\ packet' = [packet EXCEPT ![i].host_sent_size = cursor.size_count]
          /\ wire' = wire /\ pc' \notin {"send_agent", "read_host_send_agent"}
      BY <1>3 DEF AgentBlocks, BlockedPacket, outbound_vars, SetPoll, EpollCtl
    <2>2. /\ \A j \in Agents : (Pending(j)' <=> Pending(j)) /\ packet'[j].seq = packet[j].seq
          /\ packet'[i].host_sent_size = cursor.size_count
          /\ \A j \in Agents : j # i => packet'[j] = packet[j]
      BY <1>1, <2>1 DEF Pending, PacketState
    <2>3. \A j \in Agents : Progressed(j)' = Progressed(j)
      BY <1>1, <2>1, <2>2 DEF Progressed
    <2>4. PickedOpen'
      BY <2>1 DEF PickedOpen
    <2> QED BY <1>1, <2>1, <2>2, <2>3, <2>4, SameWire
  <1>4. CASE AgentSendFails(i)
    <2>1. /\ UNCHANGED <<packet, wire>>
          /\ pc' \notin {"send_agent", "read_host_send_agent"}
          /\ Alive' => i \in closed'
      BY <1>4 DEF AgentSendFails, outbound_vars, Unregister, Exit, Alive, Running
    <2>2. \A j \in Agents : j # i => Progressed(j)' = Progressed(j)
      BY <1>1, <2>1 DEF Progressed, Pending
    <2>3. \A j \in Agents : Usable(j)' => Usable(j) /\ Progressed(j)' = Progressed(j)
      BY <1>1, <2>1, <2>2 DEF Usable
    <2>4. PickedOpen'
      BY <2>1 DEF PickedOpen
    <2> QED BY <1>1, <2>1, <2>3, <2>4, SameWire DEF Pending
  <1> QED BY <1>2, <1>3, <1>4 DEF SendAgent

(* OutInv is kept by every step.                                           *)
LEMMA NextOut ==
  ASSUME IInv, OrderInv, OutInv, [Next]_vars
  PROVE  OutInv'
  BY QuietKeepsOut, RecvKeepsOut, ResumeKeepsOut, SendKeepsOut

(* OutInv holds of the state configure_poll leaves: no socket carries      *)
(* anything.                                                               *)
LEMMA InitOut ==
  ASSUME Init
  PROVE  OutInv
  <1>1. /\ pc = "check" /\ send_seq = 0
        /\ \A i \in Agents : ~Pending(i) /\ wire[i] = <<>> /\ Len(wire[i]) = 0
    BY DEF Init, Pending
  <1>2. PickedOpen /\ PendingNumbers /\ NoneDropped
    BY <1>1 DEF PickedOpen, PendingNumbers, NoneDropped
  <1>3. \A i \in Agents : Progressed(i) = 0
    BY <1>1 DEF Progressed
  <1>4. 0 % PacketLen = 0
    BY Positive
  <1>5. WireProgress
    BY <1>1, <1>3, <1>4 DEF WireProgress
  <1>6. \A i \in Agents : 1 .. Len(wire[i]) = {}
    BY <1>1
  <1>7. WireNumbers /\ CarriedOnce /\ FramesContiguous
    BY <1>6 DEF WireNumbers, CarriedOnce, Carried, FramesContiguous
  <1> QED BY <1>2, <1>5, <1>7 DEF OutInv

(* The outbound direction is in order in every state of every run.         *)
THEOREM Outgoing == Spec => [](IInv /\ OrderInv /\ OutInv)
  <1>1. Init => IInv /\ OrderInv /\ OutInv
    BY InitIInv, InitOrder, InitOut
  <1>2. IInv /\ OrderInv /\ OutInv /\ [Next]_vars => (IInv /\ OrderInv /\ OutInv)'
    BY NextIInv, NextOrder, NextOut
  <1> QED BY <1>1, <1>2, PTL DEF Spec

(* Each agent socket carries whole packets, one after the other, with      *)
(* numbers that increase: a packet that blocked is resumed where it        *)
(* stopped and before another is started (network.c:855, 920-957).         *)
THEOREM WholePackets == Spec => []FramesContiguous
  <1>1. OutInv => FramesContiguous
    BY DEF OutInv
  <1> QED BY <1>1, Outgoing, PTL

(* Every chunk read from the host was sent on one socket or waits for one, *)
(* never both and never two (network.c:913, 1048; poll.c:466-485).         *)
THEOREM NothingLostOrTwice == Spec => []OutboundConservation
  <1>1. ASSUME IInv, OutInv, NEW seq \in 0 .. send_seq - 1
        PROVE  Cardinality({i \in Agents : Carried(seq, i)})
                 + Cardinality({i \in Agents : Pending(i) /\ packet[i].seq = seq}) = 1
    <2> DEFINE sent == {i \in Agents : Carried(seq, i)}
               waits == {i \in Agents : Pending(i) /\ packet[i].seq = seq}
    <2>1. seq \in Nat /\ seq < send_seq
      BY <1>1 DEF IInv, TypeOK, SendTypes
    <2>2. PICK i \in Agents : Carried(seq, i) \/ (Pending(i) /\ packet[i].seq = seq)
      BY <1>1, <2>1 DEF OutInv, NoneDropped
    <2>3. Cardinality({}) = 0 /\ Cardinality({i}) = 1
      BY FS_EmptySet, FS_Singleton
    <2>4. CASE Carried(seq, i)
      <3>1. sent = {i} /\ waits = {}
        BY <1>1, <2>1, <2>4 DEF OutInv, CarriedOnce
      <3> HIDE DEF sent, waits
      <3>2. Cardinality(sent) = 1 /\ Cardinality(waits) = 0
        BY <2>3, <3>1
      <3> QED BY <3>2 DEF sent, waits
    <2>5. CASE Pending(i) /\ packet[i].seq = seq
      <3>1. waits = {i}
        BY <1>1, <2>5 DEF OutInv, PendingNumbers
      <3>2. sent = {}
        BY <1>1, <2>1, <2>5 DEF OutInv, CarriedOnce
      <3> QED BY <2>3, <3>1, <3>2
    <2> QED BY <2>2, <2>4, <2>5
  <1>2. IInv /\ OutInv => OutboundConservation
    BY <1>1 DEF OutboundConservation
  <1> QED BY <1>2, Outgoing, PTL

=============================================================================
