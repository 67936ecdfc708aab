---------------------------- MODULE TunnelProofs ----------------------------
(***************************************************************************)
(* The two transfer processes of a transfer.  LinkProofs is about one      *)
(* direction, from a sender to what the receiver knows of the sockets; W   *)
(* is that theory for the direction from West to East, E for the other.    *)
(* W takes East's ends for those of the receiver, and E West's.  What W    *)
(* assumes of the receiver is what E shows of it, and the other way round, *)
(* so that the two are proved together, by one induction over the steps of *)
(* both.  Either process may close or reset a connection at any point of   *)
(* a packet, by ending for instance, whence the constants of the peers.    *)
(***************************************************************************)
EXTENDS Tunnel, TLAPS

W == INSTANCE LinkProofs WITH
  MayClose <- MayClose \union Agents, MayReset <- MayReset \union Agents, MayCut <- Agents,
  far_in_seq <- e_in_seq, far_inq <- e_inq, far_taken <- e_taken, far_avail <- e_avail, far_peer <- e_peer

E == INSTANCE LinkProofs WITH
  OutChunks <- InPackets, InPackets <- OutChunks,
  MayClose <- EastMayClose \union Agents, MayReset <- MayReset \union Agents, MayCut <- Agents,
  pc <- e_pc, fd_poll <- e_fd_poll, packet <- e_packet, send_seq <- e_send_seq,
  recv_seq <- e_recv_seq, buffered_packet <- e_buffered_packet,
  buffered_packet_table <- e_buffered_packet_table, agent_packet_index_in <-
  e_agent_packet_index_in, agent_needed_header_size <-
  e_agent_needed_header_size, agent_packet_queue_count <-
  e_agent_packet_queue_count, agent_packet_index_out <-
  e_agent_packet_index_out, host_side_agent_id <- e_host_side_agent_id, cursor
  <- e_cursor, epoll <- e_epoll, closed <- e_closed, host <- e_host, host_in <-
  e_host_in, host_room <- e_host_room, delivered <- e_delivered, peer <- e_peer,
  in_seq <- e_in_seq, inq <- e_inq, taken <- e_taken, avail <- e_avail, room <-
  e_room, wire <- e_wire,
  far_in_seq <- in_seq, far_inq <- inq, far_taken <- taken, far_avail <- avail, far_peer <- peer

(* What the theory of one process assumes of the constants holds of both.  *)
LEMMA Assumptions ==
  /\ W!TransferAssumption /\ W!DataTransferAssumption
  /\ E!TransferAssumption /\ E!DataTransferAssumption
  BY TransferAssumption, DataTransferAssumption, TunnelAssumption
     DEF W!TransferAssumption, W!DataTransferAssumption, E!TransferAssumption, E!DataTransferAssumption,
         Fds, W!Fds, E!Fds, EMPTY, W!EMPTY, E!EMPTY, IsFiniteSet, W!IsFiniteSet, E!IsFiniteSet

(* What West does, W does.                                                 *)
LEMMA WestActions ==
  /\ Init => W!Init
  /\ CheckClosed => W!CheckClosed
  /\ HostIn => W!HostIn
  /\ HostOut => W!HostOut
  /\ SendHost => W!SendHost
  /\ HostWrites => W!HostWrites
  /\ HostReads => W!HostReads
  /\ HostCloses => W!HostCloses
  /\ HostResets => W!HostResets
  /\ \A i \in Agents :
       /\ AgentOut(i) => W!AgentOut(i)
       /\ RecvHost(i) => W!RecvHost(i)
       /\ ResumeSend(i) => W!ResumeSend(i)
       /\ SendAgent(i) => W!SendAgent(i)
       /\ AgentIn(i) => W!AgentIn(i)
  <1>1. Init => W!Init
    BY DEF Init, W!Init, Idle, W!Idle, Fds, W!Fds, POLLIN, W!POLLIN, Slots, W!Slots, EMPTY, W!EMPTY
  <1>2. CheckClosed => W!CheckClosed
    BY DEF CheckClosed, W!CheckClosed, Closable, W!Closable, CLOSED, W!CLOSED, InUse, W!InUse, Fds,
           W!Fds, send_vars, W!send_vars, slot_vars, W!slot_vars, order_vars, W!order_vars,
           host_vars, W!host_vars, inbound_vars, W!inbound_vars, outbound_vars, W!outbound_vars,
           Pending, W!Pending, Slots, W!Slots
  <1>3. HostIn => W!HostIn
    BY DEF HostIn, W!HostIn, AgentWritable, W!AgentWritable, HostReadable, W!HostReadable, Broken,
           W!Broken, Exit, W!Exit, Start, W!Start, poll_vars, W!poll_vars, AllAgentsSocksFull,
           W!AllAgentsSocksFull, send_vars, W!send_vars, slot_vars, W!slot_vars, order_vars,
           W!order_vars, host_vars, W!host_vars, inbound_vars, W!inbound_vars, outbound_vars,
           W!outbound_vars, Idle, W!Idle, EpollCtl, W!EpollCtl, Fds, W!Fds, FullMask, W!FullMask,
           EMPTY, W!EMPTY, CtlSucceeds, W!CtlSucceeds, CLOSED, W!CLOSED, POLLIN, W!POLLIN, OFF,
           W!OFF, POLLOUT, W!POLLOUT
  <1>4. HostOut => W!HostOut
    BY DEF HostOut, W!HostOut, HostWritable, W!HostWritable, HostReadable, W!HostReadable, SetPoll,
           W!SetPoll, UnblockedMask, W!UnblockedMask, send_vars, W!send_vars, slot_vars,
           W!slot_vars, order_vars, W!order_vars, host_vars, W!host_vars, inbound_vars,
           W!inbound_vars, outbound_vars, W!outbound_vars, Broken, W!Broken, EpollCtl, W!EpollCtl,
           POLLOUT, W!POLLOUT, Fds, W!Fds, CtlSucceeds, W!CtlSucceeds, CLOSED, W!CLOSED, poll_vars,
           W!poll_vars, OFF, W!OFF
  <1>5. SendHost => W!SendHost
    BY DEF SendHost, W!SendHost, Exit, W!Exit, order_vars, W!order_vars, HostAccepts, W!HostAccepts,
           HostBlocks, W!HostBlocks, HostSendFails, W!HostSendFails, send_vars, W!send_vars,
           inbound_vars, W!inbound_vars, outbound_vars, W!outbound_vars, poll_vars, W!poll_vars,
           Lesser, W!Lesser, Chunk, W!Chunk, HostCompletes, W!HostCompletes, StopAt, W!StopAt, Idle,
           W!Idle, POLLIN, W!POLLIN, OFF, W!OFF, SetPoll, W!SetPoll, BlockedMask, W!BlockedMask,
           Unregister, W!Unregister, CLOSED, W!CLOSED, Early, W!Early, FreedQueueMask,
           W!FreedQueueMask, EMPTY, W!EMPTY, EpollCtl, W!EpollCtl, POLLOUT, W!POLLOUT, Fds, W!Fds,
           CtlSucceeds, W!CtlSucceeds
  <1>6. HostWrites => W!HostWrites
    BY DEF HostWrites, W!HostWrites, Alive, W!Alive, process_vars, W!process_vars, inbound_vars,
           W!inbound_vars, outbound_vars, W!outbound_vars, Running, W!Running, send_vars,
           W!send_vars, slot_vars, W!slot_vars, order_vars, W!order_vars, poll_vars, W!poll_vars
  <1>7. HostReads => W!HostReads
    BY DEF HostReads, W!HostReads, Alive, W!Alive, process_vars, W!process_vars, inbound_vars,
           W!inbound_vars, outbound_vars, W!outbound_vars, Running, W!Running, send_vars,
           W!send_vars, slot_vars, W!slot_vars, order_vars, W!order_vars, poll_vars, W!poll_vars
  <1>8. HostCloses => W!HostCloses
    BY DEF HostCloses, W!HostCloses, Alive, W!Alive, process_vars, W!process_vars, inbound_vars,
           W!inbound_vars, outbound_vars, W!outbound_vars, Running, W!Running, send_vars,
           W!send_vars, slot_vars, W!slot_vars, order_vars, W!order_vars, poll_vars, W!poll_vars
  <1>9. HostResets => W!HostResets
    BY DEF HostResets, W!HostResets, Alive, W!Alive, process_vars, W!process_vars, inbound_vars,
           W!inbound_vars, outbound_vars, W!outbound_vars, Running, W!Running, send_vars,
           W!send_vars, slot_vars, W!slot_vars, order_vars, W!order_vars, poll_vars, W!poll_vars
  <1>10. ASSUME NEW i \in Agents
        PROVE  AgentOut(i) => W!AgentOut(i)
    BY DEF AgentOut, W!AgentOut, AgentWritable, W!AgentWritable, Start, W!Start, Pending, W!Pending,
           poll_vars, W!poll_vars, NotAllAgentSocksFull, W!NotAllAgentSocksFull, send_vars,
           W!send_vars, slot_vars, W!slot_vars, order_vars, W!order_vars, host_vars, W!host_vars,
           inbound_vars, W!inbound_vars, outbound_vars, W!outbound_vars, Broken, W!Broken, Idle,
           W!Idle, EpollCtl, W!EpollCtl, Fds, W!Fds, NotFullMask, W!NotFullMask, EMPTY, W!EMPTY,
           CtlSucceeds, W!CtlSucceeds, CLOSED, W!CLOSED, POLLOUT, W!POLLOUT, OFF, W!OFF, POLLIN,
           W!POLLIN
  <1>11. ASSUME NEW i \in Agents
        PROVE  RecvHost(i) => W!RecvHost(i)
    BY DEF RecvHost, W!RecvHost, Pending, W!Pending, PacketLen, W!PacketLen, poll_vars, W!poll_vars,
           Idle, W!Idle, Exit, W!Exit, OFF, W!OFF, Unregister, W!Unregister, CLOSED, W!CLOSED,
           send_vars, W!send_vars, slot_vars, W!slot_vars, order_vars, W!order_vars, inbound_vars,
           W!inbound_vars, outbound_vars, W!outbound_vars, EMPTY, W!EMPTY
  <1>12. ASSUME NEW i \in Agents
        PROVE  ResumeSend(i) => W!ResumeSend(i)
    BY DEF ResumeSend, W!ResumeSend, Pending, W!Pending, INAndOut, W!INAndOut, POLLOUT, W!POLLOUT,
           SetPoll, W!SetPoll, UnblockedMask, W!UnblockedMask, Exit, W!Exit, send_vars, W!send_vars,
           slot_vars, W!slot_vars, order_vars, W!order_vars, host_vars, W!host_vars, inbound_vars,
           W!inbound_vars, outbound_vars, W!outbound_vars, EpollCtl, W!EpollCtl, poll_vars,
           W!poll_vars, Fds, W!Fds, CtlSucceeds, W!CtlSucceeds, CLOSED, W!CLOSED, OFF, W!OFF
  <1>13. ASSUME NEW i \in Agents
        PROVE  SendAgent(i) => W!SendAgent(i)
    BY DEF SendAgent, W!SendAgent, AgentAccepts, W!AgentAccepts, AgentBlocks, W!AgentBlocks,
           AgentSendFails, W!AgentSendFails, slot_vars, W!slot_vars, order_vars, W!order_vars,
           host_vars, W!host_vars, inbound_vars, W!inbound_vars, Lesser, W!Lesser, Chunk, W!Chunk,
           Idle, W!Idle, poll_vars, W!poll_vars, BlockedPacket, W!BlockedPacket, SetPoll, W!SetPoll,
           BlockedMask, W!BlockedMask, outbound_vars, W!outbound_vars, Broken, W!Broken, Unregister,
           W!Unregister, OFF, W!OFF, Exit, W!Exit, EMPTY, W!EMPTY, EpollCtl, W!EpollCtl, POLLIN,
           W!POLLIN, POLLOUT, W!POLLOUT, Fds, W!Fds, CtlSucceeds, W!CtlSucceeds, CLOSED, W!CLOSED
  <1>14. ASSUME NEW i \in Agents
        PROVE  AgentIn(i) => W!AgentIn(i)
    BY DEF AgentIn, W!AgentIn, AgentReadable, W!AgentReadable, AgentWritable, W!AgentWritable,
           EMPTY, W!EMPTY, FreeSlots, W!FreeSlots, Exit, W!Exit, slot_vars, W!slot_vars, order_vars,
           W!order_vars, inbound_vars, W!inbound_vars, FirstFree, W!FirstFree, Take, W!Take,
           Readable, W!Readable, CountHeader, W!CountHeader, ReadPacket, W!ReadPacket, ReadBlocks,
           W!ReadBlocks, ReadEnds, W!ReadEnds, ReadFails, W!ReadFails, send_vars, W!send_vars,
           host_vars, W!host_vars, outbound_vars, W!outbound_vars, Broken, W!Broken, Slots, W!Slots,
           poll_vars, W!poll_vars, PacketLen, W!PacketLen, Lesser, W!Lesser, Progress, W!Progress,
           Reached, W!Reached, IsNext, W!IsNext, SetPoll, W!SetPoll, FullQueueMask, W!FullQueueMask,
           Idle, W!Idle, StopAt, W!StopAt, Unregister, W!Unregister, CLOSED, W!CLOSED, EpollCtl,
           W!EpollCtl, POLLIN, W!POLLIN, Fds, W!Fds, CtlSucceeds, W!CtlSucceeds, OFF, W!OFF
  <1> QED BY <1>1, <1>2, <1>3, <1>4, <1>5, <1>6, <1>7, <1>8, <1>9, <1>10, <1>11, <1>12,
            <1>13, <1>14

(* What East does, E does, and nothing else.                               *)
LEMMA EastActions ==
  /\ East!Init <=> E!Init
  /\ East!CheckClosed <=> E!CheckClosed
  /\ East!HostIn <=> E!HostIn
  /\ East!HostOut <=> E!HostOut
  /\ East!SendHost <=> E!SendHost
  /\ East!HostWrites <=> E!HostWrites
  /\ East!HostReads <=> E!HostReads
  /\ East!HostCloses <=> E!HostCloses
  /\ East!HostResets <=> E!HostResets
  /\ \A i \in Agents :
       /\ East!AgentOut(i) <=> E!AgentOut(i)
       /\ East!RecvHost(i) <=> E!RecvHost(i)
       /\ East!ResumeSend(i) <=> E!ResumeSend(i)
       /\ East!SendAgent(i) <=> E!SendAgent(i)
       /\ East!AgentIn(i) <=> E!AgentIn(i)
       /\ East!RemoteSends(i) <=> E!RemoteSends(i)
       /\ East!Arrive(i) <=> E!Arrive(i)
       /\ East!Drain(i) <=> E!Drain(i)
  <1>1. East!Init <=> E!Init
    BY DEF East!Init, E!Init, East!Idle, E!Idle, East!Fds, E!Fds, East!POLLIN, E!POLLIN, East!Slots,
           E!Slots, East!EMPTY, E!EMPTY
  <1>2. East!CheckClosed <=> E!CheckClosed
    BY DEF East!CheckClosed, E!CheckClosed, East!Closable, E!Closable, East!CLOSED, E!CLOSED,
           East!InUse, E!InUse, East!Fds, E!Fds, East!send_vars, E!send_vars, East!slot_vars,
           E!slot_vars, East!order_vars, E!order_vars, East!host_vars, E!host_vars,
           East!inbound_vars, E!inbound_vars, East!outbound_vars, E!outbound_vars, East!Pending,
           E!Pending, East!Slots, E!Slots
  <1>3. East!HostIn <=> E!HostIn
    BY DEF East!HostIn, E!HostIn, East!AgentWritable, E!AgentWritable, East!HostReadable,
           E!HostReadable, East!Broken, E!Broken, East!Exit, E!Exit, East!Start, E!Start,
           East!poll_vars, E!poll_vars, East!AllAgentsSocksFull, E!AllAgentsSocksFull,
           East!send_vars, E!send_vars, East!slot_vars, E!slot_vars, East!order_vars, E!order_vars,
           East!host_vars, E!host_vars, East!inbound_vars, E!inbound_vars, East!outbound_vars,
           E!outbound_vars, East!Idle, E!Idle, East!EpollCtl, E!EpollCtl, East!Fds, E!Fds,
           East!FullMask, E!FullMask, East!EMPTY, E!EMPTY, East!CtlSucceeds, E!CtlSucceeds,
           East!CLOSED, E!CLOSED, East!POLLIN, E!POLLIN, East!OFF, E!OFF, East!POLLOUT, E!POLLOUT
  <1>4. East!HostOut <=> E!HostOut
    BY DEF East!HostOut, E!HostOut, East!HostWritable, E!HostWritable, East!HostReadable,
           E!HostReadable, East!SetPoll, E!SetPoll, East!UnblockedMask, E!UnblockedMask,
           East!send_vars, E!send_vars, East!slot_vars, E!slot_vars, East!order_vars, E!order_vars,
           East!host_vars, E!host_vars, East!inbound_vars, E!inbound_vars, East!outbound_vars,
           E!outbound_vars, East!Broken, E!Broken, East!EpollCtl, E!EpollCtl, East!POLLOUT,
           E!POLLOUT, East!Fds, E!Fds, East!CtlSucceeds, E!CtlSucceeds, East!CLOSED, E!CLOSED,
           East!poll_vars, E!poll_vars, East!OFF, E!OFF
  <1>5. East!SendHost <=> E!SendHost
    BY DEF East!SendHost, E!SendHost, East!Exit, E!Exit, East!order_vars, E!order_vars,
           East!HostAccepts, E!HostAccepts, East!HostBlocks, E!HostBlocks, East!HostSendFails,
           E!HostSendFails, East!send_vars, E!send_vars, East!inbound_vars, E!inbound_vars,
           East!outbound_vars, E!outbound_vars, East!poll_vars, E!poll_vars, East!Lesser, E!Lesser,
           East!Chunk, E!Chunk, East!HostCompletes, E!HostCompletes, East!StopAt, E!StopAt,
           East!Idle, E!Idle, East!POLLIN, E!POLLIN, East!OFF, E!OFF, East!SetPoll, E!SetPoll,
           East!BlockedMask, E!BlockedMask, East!Unregister, E!Unregister, East!CLOSED, E!CLOSED,
           East!Early, E!Early, East!FreedQueueMask, E!FreedQueueMask, East!EMPTY, E!EMPTY,
           East!EpollCtl, E!EpollCtl, East!POLLOUT, E!POLLOUT, East!Fds, E!Fds, East!CtlSucceeds,
           E!CtlSucceeds
  <1>6. East!HostWrites <=> E!HostWrites
    BY DEF East!HostWrites, E!HostWrites, East!Alive, E!Alive, East!process_vars, E!process_vars,
           East!inbound_vars, E!inbound_vars, East!outbound_vars, E!outbound_vars, East!Running,
           E!Running, East!send_vars, E!send_vars, East!slot_vars, E!slot_vars, East!order_vars,
           E!order_vars, East!poll_vars, E!poll_vars
  <1>7. East!HostReads <=> E!HostReads
    BY DEF East!HostReads, E!HostReads, East!Alive, E!Alive, East!process_vars, E!process_vars,
           East!inbound_vars, E!inbound_vars, East!outbound_vars, E!outbound_vars, East!Running,
           E!Running, East!send_vars, E!send_vars, East!slot_vars, E!slot_vars, East!order_vars,
           E!order_vars, East!poll_vars, E!poll_vars
  <1>8. East!HostCloses <=> E!HostCloses
    BY TransferAssumption DEF East!HostCloses, E!HostCloses, East!Alive, E!Alive, East!process_vars,
           E!process_vars, East!inbound_vars, E!inbound_vars, East!outbound_vars, E!outbound_vars,
           East!Running, E!Running, East!send_vars, E!send_vars, East!slot_vars, E!slot_vars,
           East!order_vars, E!order_vars, East!poll_vars, E!poll_vars
  <1>9. East!HostResets <=> E!HostResets
    BY TransferAssumption DEF East!HostResets, E!HostResets, East!Alive, E!Alive, East!process_vars,
           E!process_vars, East!inbound_vars, E!inbound_vars, East!outbound_vars, E!outbound_vars,
           East!Running, E!Running, East!send_vars, E!send_vars, East!slot_vars, E!slot_vars,
           East!order_vars, E!order_vars, East!poll_vars, E!poll_vars
  <1>10. ASSUME NEW i \in Agents
        PROVE  East!AgentOut(i) <=> E!AgentOut(i)
    BY DEF East!AgentOut, E!AgentOut, East!AgentWritable, E!AgentWritable, East!Start, E!Start,
           East!Pending, E!Pending, East!poll_vars, E!poll_vars, East!NotAllAgentSocksFull,
           E!NotAllAgentSocksFull, East!send_vars, E!send_vars, East!slot_vars, E!slot_vars,
           East!order_vars, E!order_vars, East!host_vars, E!host_vars, East!inbound_vars,
           E!inbound_vars, East!outbound_vars, E!outbound_vars, East!Broken, E!Broken, East!Idle,
           E!Idle, East!EpollCtl, E!EpollCtl, East!Fds, E!Fds, East!NotFullMask, E!NotFullMask,
           East!EMPTY, E!EMPTY, East!CtlSucceeds, E!CtlSucceeds, East!CLOSED, E!CLOSED,
           East!POLLOUT, E!POLLOUT, East!OFF, E!OFF, East!POLLIN, E!POLLIN
  <1>11. ASSUME NEW i \in Agents
        PROVE  East!RecvHost(i) <=> E!RecvHost(i)
    BY DEF East!RecvHost, E!RecvHost, East!Pending, E!Pending, East!PacketLen, E!PacketLen,
           East!poll_vars, E!poll_vars, East!Idle, E!Idle, East!Exit, E!Exit, East!OFF, E!OFF,
           East!Unregister, E!Unregister, East!CLOSED, E!CLOSED, East!send_vars, E!send_vars,
           East!slot_vars, E!slot_vars, East!order_vars, E!order_vars, East!inbound_vars,
           E!inbound_vars, East!outbound_vars, E!outbound_vars, East!EMPTY, E!EMPTY
  <1>12. ASSUME NEW i \in Agents
        PROVE  East!ResumeSend(i) <=> E!ResumeSend(i)
    BY DEF East!ResumeSend, E!ResumeSend, East!Pending, E!Pending, East!INAndOut, E!INAndOut,
           East!POLLOUT, E!POLLOUT, East!SetPoll, E!SetPoll, East!UnblockedMask, E!UnblockedMask,
           East!Exit, E!Exit, East!send_vars, E!send_vars, East!slot_vars, E!slot_vars,
           East!order_vars, E!order_vars, East!host_vars, E!host_vars, East!inbound_vars,
           E!inbound_vars, East!outbound_vars, E!outbound_vars, East!EpollCtl, E!EpollCtl,
           East!poll_vars, E!poll_vars, East!Fds, E!Fds, East!CtlSucceeds, E!CtlSucceeds,
           East!CLOSED, E!CLOSED, East!OFF, E!OFF
  <1>13. ASSUME NEW i \in Agents
        PROVE  East!SendAgent(i) <=> E!SendAgent(i)
    BY DEF East!SendAgent, E!SendAgent, East!AgentAccepts, E!AgentAccepts, East!AgentBlocks,
           E!AgentBlocks, East!AgentSendFails, E!AgentSendFails, East!slot_vars, E!slot_vars,
           East!order_vars, E!order_vars, East!host_vars, E!host_vars, East!inbound_vars,
           E!inbound_vars, East!Lesser, E!Lesser, East!Chunk, E!Chunk, East!Idle, E!Idle,
           East!poll_vars, E!poll_vars, East!BlockedPacket, E!BlockedPacket, East!SetPoll,
           E!SetPoll, East!BlockedMask, E!BlockedMask, East!outbound_vars, E!outbound_vars,
           East!Broken, E!Broken, East!Unregister, E!Unregister, East!OFF, E!OFF, East!Exit, E!Exit,
           East!EMPTY, E!EMPTY, East!EpollCtl, E!EpollCtl, East!POLLIN, E!POLLIN, East!POLLOUT,
           E!POLLOUT, East!Fds, E!Fds, East!CtlSucceeds, E!CtlSucceeds, East!CLOSED, E!CLOSED
  <1>14. ASSUME NEW i \in Agents
        PROVE  East!AgentIn(i) <=> E!AgentIn(i)
    BY DEF East!AgentIn, E!AgentIn, East!AgentReadable, E!AgentReadable, East!AgentWritable,
           E!AgentWritable, East!EMPTY, E!EMPTY, East!FreeSlots, E!FreeSlots, East!Exit, E!Exit,
           East!slot_vars, E!slot_vars, East!order_vars, E!order_vars, East!inbound_vars,
           E!inbound_vars, East!FirstFree, E!FirstFree, East!Take, E!Take, East!Readable,
           E!Readable, East!CountHeader, E!CountHeader, East!ReadPacket, E!ReadPacket,
           East!ReadBlocks, E!ReadBlocks, East!ReadEnds, E!ReadEnds, East!ReadFails, E!ReadFails,
           East!send_vars, E!send_vars, East!host_vars, E!host_vars, East!outbound_vars,
           E!outbound_vars, East!Broken, E!Broken, East!Slots, E!Slots, East!poll_vars, E!poll_vars,
           East!PacketLen, E!PacketLen, East!Lesser, E!Lesser, East!Progress, E!Progress,
           East!Reached, E!Reached, East!IsNext, E!IsNext, East!SetPoll, E!SetPoll,
           East!FullQueueMask, E!FullQueueMask, East!Idle, E!Idle, East!StopAt, E!StopAt,
           East!Unregister, E!Unregister, East!CLOSED, E!CLOSED, East!EpollCtl, E!EpollCtl,
           East!POLLIN, E!POLLIN, East!Fds, E!Fds, East!CtlSucceeds, E!CtlSucceeds, East!OFF, E!OFF
  <1>15. ASSUME NEW i \in Agents
        PROVE  East!RemoteSends(i) <=> E!RemoteSends(i)
    BY DEF East!RemoteSends, E!RemoteSends, East!process_vars, E!process_vars, East!host_vars,
           E!host_vars, East!outbound_vars, E!outbound_vars, East!send_vars, E!send_vars,
           East!slot_vars, E!slot_vars, East!order_vars, E!order_vars, East!poll_vars, E!poll_vars
  <1>16. ASSUME NEW i \in Agents
        PROVE  East!Arrive(i) <=> E!Arrive(i)
    BY DEF East!Arrive, E!Arrive, East!Alive, E!Alive, East!InFlight, E!InFlight, East!process_vars,
           E!process_vars, East!host_vars, E!host_vars, East!outbound_vars, E!outbound_vars,
           East!Running, E!Running, East!PacketLen, E!PacketLen, East!send_vars, E!send_vars,
           East!slot_vars, E!slot_vars, East!order_vars, E!order_vars, East!poll_vars, E!poll_vars
  <1>17. ASSUME NEW i \in Agents
        PROVE  East!Drain(i) <=> E!Drain(i)
    BY DEF East!Drain, E!Drain, East!process_vars, E!process_vars, East!host_vars, E!host_vars,
           East!inbound_vars, E!inbound_vars, East!send_vars, E!send_vars, East!slot_vars,
           E!slot_vars, East!order_vars, E!order_vars, East!poll_vars, E!poll_vars
  <1> QED BY <1>1, <1>2, <1>3, <1>4, <1>5, <1>6, <1>7, <1>8, <1>9, <1>10, <1>11, <1>12,
            <1>13, <1>14, <1>15, <1>16, <1>17

TunnelInv == W!ProcessInv /\ W!LinkInv /\ E!ProcessInv /\ E!LinkInv

(* What one end of a socket has received has the type the other expects.   *)
LEMMA FarEnds ==
  ASSUME TunnelInv
  PROVE  W!FarTypes /\ E!FarTypes
  BY DEF TunnelInv, W!ProcessInv, W!DeliveryInv, W!IInv, W!TypeOK, W!InboundTypes, W!FarTypes,
         E!ProcessInv, E!DeliveryInv, E!IInv, E!TypeOK, E!InboundTypes, E!FarTypes,
         W!PacketLen, E!PacketLen

(* A step of West, with what the other end learns of it.                   *)
LEMMA WestSteps ==
  ASSUME TunnelInv, WestHandler \/ West(HostSide)
  PROVE  /\ W!OwnStep /\ W!Announced
         /\ UNCHANGED <<e_process_vars, e_host_vars, e_room, e_wire>>
  <1>1. e_in_seq = send_seq
    BY DEF TunnelInv, W!LinkInv, W!Numbered
  <1>2. ASSUME NEW i \in Agents, WestReads(i)
        PROVE  /\ W!OwnStep /\ W!Announced
               /\ UNCHANGED <<e_process_vars, e_host_vars, e_room, e_wire>>
    <2>1. RecvHost(i) /\ i = cursor.agent_id
      BY <1>2 DEF WestReads, RecvHost
    <2>2. W!OwnStep
      BY <2>1, WestActions DEF W!OwnStep
    <2>3. W!Announced
      BY <1>2, <2>1 DEF WestReads, W!Announced
    <2> QED BY <1>2, <2>2, <2>3 DEF WestReads, East!outbound_vars
  <1>3. ASSUME UNCHANGED e_vars, send_seq' = send_seq
        PROVE  W!Announced /\ UNCHANGED <<e_process_vars, e_host_vars, e_room, e_wire>>
    BY <1>1, <1>3 DEF W!Announced, e_vars, e_process_vars, e_inbound_vars, East!outbound_vars
  <1>4. CASE West(CheckClosed)
    BY <1>3, <1>4, WestActions DEF West, W!OwnStep, CheckClosed, send_vars
  <1>5. CASE West(HostIn)
    BY <1>3, <1>5, WestActions DEF West, W!OwnStep, HostIn, send_vars
  <1>6. CASE West(Inbound)
    <2>1. W!OwnStep
      BY <1>6, WestActions DEF West, Inbound, W!OwnStep, W!Inbound
    <2>2. send_seq' = send_seq
      BY <1>6 DEF West, Inbound, HostOut, SendHost, AgentIn, send_vars
    <2> QED BY <1>3, <1>6, <2>1, <2>2 DEF West
  <1>7. ASSUME NEW i \in Agents, West(AgentOut(i)) \/ West(ResumeSend(i)) \/ West(SendAgent(i))
        PROVE  /\ W!OwnStep /\ W!Announced
               /\ UNCHANGED <<e_process_vars, e_host_vars, e_room, e_wire>>
    <2>1. W!OwnStep
      BY <1>7, WestActions DEF West, W!OwnStep
    <2>2. send_seq' = send_seq
      BY <1>7 DEF West, AgentOut, ResumeSend, SendAgent, send_vars
    <2> QED BY <1>3, <1>7, <2>1, <2>2 DEF West
  <1>8. CASE West(HostSide)
    <2>1. W!OwnStep
      BY <1>8, WestActions DEF West, HostSide, W!OwnStep, W!HostSide
    <2>2. send_seq' = send_seq
      BY <1>8 DEF West, HostSide, HostWrites, HostReads, HostCloses, HostResets, process_vars, send_vars
    <2> QED BY <1>3, <1>8, <2>1, <2>2 DEF West
  <1> QED BY <1>2, <1>4, <1>5, <1>6, <1>7, <1>8 DEF WestHandler


(* West moves: each is as DataTransfer has it, East with a remote agent    *)
(* that numbered a packet or did nothing.                                  *)
LEMMA WestMoves ==
  ASSUME TunnelInv, WestHandler \/ West(HostSide)
  PROVE  TunnelInv' /\ W!Next /\ [E!Next]_(E!vars)
  <1>1. W!OwnStep /\ W!Announced /\ UNCHANGED <<e_process_vars, e_host_vars, e_room, e_wire>>
    BY WestSteps
  <1>2. /\ W!ProcessInv /\ W!LinkInv /\ W!FarTypes
        /\ E!ProcessInv /\ E!LinkInv /\ E!FarTypes
    BY FarEnds DEF TunnelInv
  <1>3. W!Next
    BY <1>1, Assumptions, W!OwnStepIsNext DEF W!TransferAssumption, W!DataTransferAssumption
  <1>4. W!ProcessInv'
    BY <1>2, <1>3, Assumptions, W!NextProcess DEF W!TransferAssumption, W!DataTransferAssumption
  <1>5. W!LinkInv'
    BY <1>1, <1>2, Assumptions, W!SenderKeepsLink DEF W!TransferAssumption, W!DataTransferAssumption
  <1>6. [E!Next]_(E!vars)
    <2>1. \/ UNCHANGED W!far_vars
          \/ \E i \in Agents :
               /\ e_in_seq < OutChunks
               /\ e_peer[i] = "open"
               /\ e_inq' = [e_inq EXCEPT ![i] = Append(e_inq[i], e_in_seq)]
               /\ e_in_seq' = e_in_seq + 1
               /\ UNCHANGED <<e_taken, e_avail, e_peer>>
      BY <1>1, <1>2, Assumptions, W!SenderIsRemote DEF W!TransferAssumption, W!DataTransferAssumption
    <2>2. UNCHANGED <<E!process_vars, E!host_vars, E!outbound_vars>>
      BY <1>1 DEF e_process_vars, e_host_vars, E!process_vars, E!host_vars, E!outbound_vars,
                  E!send_vars, E!slot_vars, E!order_vars, E!poll_vars,
                  East!send_vars, East!slot_vars, East!order_vars, East!poll_vars
    <2>3. UNCHANGED W!far_vars => UNCHANGED E!vars
      BY <2>2 DEF W!far_vars, E!vars, E!process_vars, E!inbound_vars
    <2>4. ASSUME NEW i \in Agents,
                 /\ e_in_seq < OutChunks
                 /\ e_peer[i] = "open"
                 /\ e_inq' = [e_inq EXCEPT ![i] = Append(e_inq[i], e_in_seq)]
                 /\ e_in_seq' = e_in_seq + 1
                 /\ UNCHANGED <<e_taken, e_avail, e_peer>>
          PROVE  E!Next
      BY <2>2, <2>4 DEF E!Next, E!RemoteSide, E!RemoteSends
    <2> QED BY <2>1, <2>3, <2>4
  <1>7. E!ProcessInv'
    BY <1>2, <1>6, Assumptions, E!NextProcess DEF E!TransferAssumption, E!DataTransferAssumption
  <1>8. E!LinkInv'
    <2>1. UNCHANGED <<e_pc, e_cursor, e_packet, e_send_seq, e_closed, e_host_in, e_room, e_wire>>
      BY <1>1 DEF e_process_vars, e_host_vars, East!send_vars
    <2>2. /\ UNCHANGED <<in_seq, peer>>
          /\ UNCHANGED <<inq, taken, avail>> \/ \E i \in Agents, n \in Nat : W!TakesUnits(i, n)
      BY <1>1, <1>2, Assumptions, W!OwnStepReads DEF W!TransferAssumption, W!DataTransferAssumption
    <2>3. CASE UNCHANGED <<inq, taken, avail>>
      BY <1>2, <2>1, <2>2, <2>3, Assumptions, E!QuietKeepsLink
         DEF E!TransferAssumption, E!DataTransferAssumption
    <2>4. ASSUME NEW i \in Agents, NEW n \in Nat, W!TakesUnits(i, n)
          PROVE  E!LinkInv'
      BY <1>2, <2>1, <2>2, <2>4, Assumptions, E!ReceiverKeepsLink
         DEF E!TransferAssumption, E!DataTransferAssumption, W!TakesUnits, W!PacketLen, E!PacketLen
    <2> QED BY <2>2, <2>3, <2>4
  <1> QED BY <1>3, <1>4, <1>5, <1>6, <1>7, <1>8 DEF TunnelInv

(* The network carries a unit, the end of a stream or a reset to East: for *)
(* West its remote agent took a unit or nothing happened, for East a unit  *)
(* arrived or its remote agent closed.                                     *)
LEMMA EastGets ==
  ASSUME TunnelInv, CarryEast
  PROVE  TunnelInv' /\ [W!Next]_(W!vars) /\ E!Next
  <1>1. /\ W!ProcessInv /\ W!LinkInv /\ W!FarTypes
        /\ E!ProcessInv /\ E!LinkInv /\ E!FarTypes
    BY FarEnds DEF TunnelInv
  <1>2. /\ UNCHANGED <<W!process_vars, W!host_vars, peer, W!inbound_vars, wire>>
        /\ UNCHANGED <<E!process_vars, E!host_vars, e_in_seq, e_inq, e_taken, e_room, e_wire>>
    BY DEF CarryEast, process_vars, host_vars, inbound_vars, e_process_vars, e_host_vars, e_inbound_vars,
           inbound_vars, outbound_vars, East!outbound_vars,
           W!process_vars, W!host_vars, W!inbound_vars, W!send_vars, W!slot_vars, W!order_vars,
           W!poll_vars, E!process_vars, E!host_vars, E!send_vars, E!slot_vars, E!order_vars,
           E!poll_vars, send_vars, slot_vars, order_vars, poll_vars,
           East!send_vars, East!slot_vars, East!order_vars, East!poll_vars
  <1>3. /\ UNCHANGED <<pc, cursor, packet, send_seq, closed, host_in, wire>>
        /\ UNCHANGED <<e_pc, e_cursor, e_packet, e_send_seq, e_closed, e_host_in, e_room, e_wire>>
        /\ UNCHANGED <<in_seq, inq, taken, avail, peer>>
        /\ UNCHANGED <<e_in_seq, e_inq, e_taken>>
    BY <1>2 DEF W!process_vars, W!host_vars, W!inbound_vars, W!send_vars, E!process_vars,
                E!host_vars, E!send_vars
  <1>4. E!LinkInv'
    BY <1>1, <1>3, Assumptions, E!QuietKeepsLink DEF E!TransferAssumption, E!DataTransferAssumption
  <1>5. W!Shut = WestShut /\ E!Shut = EastShut
    BY DEF W!Shut, E!Shut, WestShut, EastShut, Exits, W!Exits, E!Exits, Fatal, W!Fatal, E!Fatal
  <1>6. ASSUME NEW i \in Agents, i \notin EastShut
        PROVE  E!Alive /\ peer[i] = "open"
    BY <1>1, <1>5, <1>6 DEF E!Shut, E!Alive, E!ProcessInv, E!DeliveryInv, E!IInv, E!TypeOK,
                E!ControlTypes, E!LinkInv, E!PeersShut
  <1>7. ASSUME NEW i \in Agents, ToEast!Carry(i)
        PROVE  W!LinkInv' /\ W!Next /\ E!Next
    <2>1. /\ i \notin EastShut
          /\ room[i] < SndBuf /\ room' = [room EXCEPT ![i] = room[i] + 1]
          /\ e_avail[i] < RcvBuf /\ e_avail' = [e_avail EXCEPT ![i] = e_avail[i] + 1]
          /\ e_peer[i] = "open" /\ e_peer' = e_peer
      BY <1>7 DEF ToEast!Carry
    <2>2. W!Drain(i)
      BY <1>2, <1>6, <2>1 DEF W!Drain
    <2>3. W!LinkInv' /\ Len(e_inq[i]) * W!PacketLen - e_taken[i] - e_avail[i] > 0
      BY <1>1, <1>3, <2>1, <2>2, Assumptions, W!CrossingKeepsLink
         DEF W!TransferAssumption, W!DataTransferAssumption
    <2>4. E!Arrive(i)
      BY <1>2, <1>6, <2>1, <2>3 DEF E!Arrive, E!InFlight, W!PacketLen, E!PacketLen, E!outbound_vars
    <2> QED BY <2>2, <2>3, <2>4 DEF W!Next, W!RemoteSide, E!Next, E!RemoteSide
  <1>8. ASSUME NEW i \in Agents, ToEast!EndOfStream(i) \/ ToEast!Reset(i)
        PROVE  W!LinkInv' /\ UNCHANGED W!vars /\ E!Next
    <2>1. /\ i \in WestShut /\ i \notin EastShut
          /\ UNCHANGED <<room, e_avail>>
          /\ \A j \in Agents : e_peer'[j] # e_peer[j] => j = i
      <3>1. e_peer \in [Agents -> E!PeerStates]
        BY <1>1 DEF E!ProcessInv, E!DeliveryInv, E!IInv, E!TypeOK, E!InboundTypes
      <3> QED BY <1>8, <3>1 DEF ToEast!EndOfStream, ToEast!Reset
    <2>2. W!LinkInv'
      BY <1>1, <1>3, <1>5, <2>1, Assumptions, W!QuietKeepsLink
         DEF W!TransferAssumption, W!DataTransferAssumption
    <2>3. UNCHANGED W!vars
      BY <1>2, <2>1 DEF W!vars, W!process_vars, W!outbound_vars
    <2>4. UNCHANGED <<E!process_vars, E!host_vars, E!inbound_vars, E!outbound_vars>>
      BY <1>2, <2>1 DEF E!inbound_vars, E!outbound_vars
    <2>5. E!RemoteCloses(i) \/ E!RemoteResets(i)
      BY <1>6, <1>8, <2>1, <2>4 DEF ToEast!EndOfStream, ToEast!Reset, E!RemoteCloses, E!RemoteResets
    <2> QED BY <2>2, <2>3, <2>5 DEF E!Next, E!RemoteSide
  <1>9. W!LinkInv' /\ [W!Next]_(W!vars) /\ E!Next
    BY <1>7, <1>8 DEF CarryEast, ToEast!Step
  <1>10. W!ProcessInv' /\ E!ProcessInv'
    BY <1>1, <1>9, Assumptions, W!NextProcess, E!NextProcess
       DEF W!TransferAssumption, W!DataTransferAssumption, E!TransferAssumption, E!DataTransferAssumption
  <1> QED BY <1>4, <1>9, <1>10 DEF TunnelInv
(* A step of East, with what the other end learns of it.                   *)
LEMMA EastSteps ==
  ASSUME TunnelInv, EastHandler \/ InEast(East!HostSide)
  PROVE  /\ E!OwnStep /\ E!Announced
         /\ UNCHANGED <<process_vars, host_vars, room, wire>>
  <1>1. in_seq = e_send_seq
    BY DEF TunnelInv, E!LinkInv, E!Numbered
  <1>2. ASSUME NEW i \in Agents, EastReads(i)
        PROVE  /\ E!OwnStep /\ E!Announced
               /\ UNCHANGED <<process_vars, host_vars, room, wire>>
    <2>1. East!RecvHost(i) /\ i = e_cursor.agent_id
      BY <1>2 DEF EastReads, East!RecvHost
    <2>2. E!OwnStep
      BY <2>1, EastActions DEF E!OwnStep
    <2>3. E!Announced
      BY <1>2, <2>1 DEF EastReads, E!Announced
    <2> QED BY <1>2, <2>2, <2>3 DEF EastReads, outbound_vars
  <1>3. ASSUME UNCHANGED vars, e_send_seq' = e_send_seq
        PROVE  E!Announced /\ UNCHANGED <<process_vars, host_vars, room, wire>>
    BY <1>1, <1>3 DEF E!Announced, vars, process_vars, inbound_vars, outbound_vars
  <1>4. CASE InEast(East!CheckClosed)
    BY <1>3, <1>4, EastActions DEF InEast, E!OwnStep, East!CheckClosed, East!send_vars
  <1>5. CASE InEast(East!HostIn)
    BY <1>3, <1>5, EastActions DEF InEast, E!OwnStep, East!HostIn, East!send_vars
  <1>6. CASE InEast(East!Inbound)
    <2>1. E!OwnStep
      BY <1>6, EastActions DEF InEast, East!Inbound, E!OwnStep, E!Inbound
    <2>2. e_send_seq' = e_send_seq
      BY <1>6 DEF InEast, East!Inbound, East!HostOut, East!SendHost, East!AgentIn, East!send_vars
    <2> QED BY <1>3, <1>6, <2>1, <2>2 DEF InEast
  <1>7. ASSUME NEW i \in Agents, InEast(East!AgentOut(i)) \/ InEast(East!ResumeSend(i)) \/ InEast(East!SendAgent(i))
        PROVE  /\ E!OwnStep /\ E!Announced
               /\ UNCHANGED <<process_vars, host_vars, room, wire>>
    <2>1. E!OwnStep
      BY <1>7, EastActions DEF InEast, E!OwnStep
    <2>2. e_send_seq' = e_send_seq
      BY <1>7 DEF InEast, East!AgentOut, East!ResumeSend, East!SendAgent, East!send_vars
    <2> QED BY <1>3, <1>7, <2>1, <2>2 DEF InEast
  <1>8. CASE InEast(East!HostSide)
    <2>1. E!OwnStep
      BY <1>8, EastActions DEF InEast, East!HostSide, E!OwnStep, E!HostSide
    <2>2. e_send_seq' = e_send_seq
      BY <1>8 DEF InEast, East!HostSide, East!HostWrites, East!HostReads, East!HostCloses, East!HostResets,
                  East!process_vars, East!send_vars
    <2> QED BY <1>3, <1>8, <2>1, <2>2 DEF InEast
  <1> QED BY <1>2, <1>4, <1>5, <1>6, <1>7, <1>8 DEF EastHandler


(* East moves: each is as DataTransfer has it, West with a remote agent    *)
(* that numbered a packet or did nothing.                                  *)
LEMMA EastMoves ==
  ASSUME TunnelInv, EastHandler \/ InEast(East!HostSide)
  PROVE  TunnelInv' /\ E!Next /\ [W!Next]_(W!vars)
  <1>1. E!OwnStep /\ E!Announced /\ UNCHANGED <<process_vars, host_vars, room, wire>>
    BY EastSteps
  <1>2. /\ E!ProcessInv /\ E!LinkInv /\ E!FarTypes
        /\ W!ProcessInv /\ W!LinkInv /\ W!FarTypes
    BY FarEnds DEF TunnelInv
  <1>3. E!Next
    BY <1>1, Assumptions, E!OwnStepIsNext DEF E!TransferAssumption, E!DataTransferAssumption
  <1>4. E!ProcessInv'
    BY <1>2, <1>3, Assumptions, E!NextProcess DEF E!TransferAssumption, E!DataTransferAssumption
  <1>5. E!LinkInv'
    BY <1>1, <1>2, Assumptions, E!SenderKeepsLink DEF E!TransferAssumption, E!DataTransferAssumption
  <1>6. [W!Next]_(W!vars)
    <2>1. \/ UNCHANGED E!far_vars
          \/ \E i \in Agents :
               /\ in_seq < InPackets
               /\ peer[i] = "open"
               /\ inq' = [inq EXCEPT ![i] = Append(inq[i], in_seq)]
               /\ in_seq' = in_seq + 1
               /\ UNCHANGED <<taken, avail, peer>>
      BY <1>1, <1>2, Assumptions, E!SenderIsRemote DEF E!TransferAssumption, E!DataTransferAssumption
    <2>2. UNCHANGED <<W!process_vars, W!host_vars, W!outbound_vars>>
      BY <1>1 DEF process_vars, host_vars, W!process_vars, W!host_vars, W!outbound_vars,
                  W!send_vars, W!slot_vars, W!order_vars, W!poll_vars,
                  send_vars, slot_vars, order_vars, poll_vars
    <2>3. UNCHANGED E!far_vars => UNCHANGED W!vars
      BY <2>2 DEF E!far_vars, W!vars, W!process_vars, W!inbound_vars
    <2>4. ASSUME NEW i \in Agents,
                 /\ in_seq < InPackets
                 /\ peer[i] = "open"
                 /\ inq' = [inq EXCEPT ![i] = Append(inq[i], in_seq)]
                 /\ in_seq' = in_seq + 1
                 /\ UNCHANGED <<taken, avail, peer>>
          PROVE  W!Next
      BY <2>2, <2>4 DEF W!Next, W!RemoteSide, W!RemoteSends
    <2> QED BY <2>1, <2>3, <2>4
  <1>7. W!ProcessInv'
    BY <1>2, <1>6, Assumptions, W!NextProcess DEF W!TransferAssumption, W!DataTransferAssumption
  <1>8. W!LinkInv'
    <2>1. UNCHANGED <<pc, cursor, packet, send_seq, closed, host_in, room, wire>>
      BY <1>1 DEF process_vars, host_vars, send_vars
    <2>2. /\ UNCHANGED <<e_in_seq, e_peer>>
          /\ UNCHANGED <<e_inq, e_taken, e_avail>> \/ \E i \in Agents, n \in Nat : E!TakesUnits(i, n)
      BY <1>1, <1>2, Assumptions, E!OwnStepReads DEF E!TransferAssumption, E!DataTransferAssumption
    <2>3. CASE UNCHANGED <<e_inq, e_taken, e_avail>>
      BY <1>2, <2>1, <2>2, <2>3, Assumptions, W!QuietKeepsLink
         DEF W!TransferAssumption, W!DataTransferAssumption
    <2>4. ASSUME NEW i \in Agents, NEW n \in Nat, E!TakesUnits(i, n)
          PROVE  W!LinkInv'
      BY <1>2, <2>1, <2>2, <2>4, Assumptions, W!ReceiverKeepsLink
         DEF W!TransferAssumption, W!DataTransferAssumption, E!TakesUnits, E!PacketLen, W!PacketLen
    <2> QED BY <2>2, <2>3, <2>4
  <1> QED BY <1>3, <1>4, <1>5, <1>6, <1>7, <1>8 DEF TunnelInv

(* The network carries a unit, the end of a stream or a reset to West: for *)
(* East its remote agent took a unit or nothing happened, for West a unit  *)
(* arrived or its remote agent closed.                                     *)
LEMMA WestGets ==
  ASSUME TunnelInv, CarryWest
  PROVE  TunnelInv' /\ [E!Next]_(E!vars) /\ W!Next
  <1>1. /\ E!ProcessInv /\ E!LinkInv /\ E!FarTypes
        /\ W!ProcessInv /\ W!LinkInv /\ W!FarTypes
    BY FarEnds DEF TunnelInv
  <1>2. /\ UNCHANGED <<E!process_vars, E!host_vars, e_peer, E!inbound_vars, e_wire>>
        /\ UNCHANGED <<W!process_vars, W!host_vars, in_seq, inq, taken, room, wire>>
    BY DEF CarryWest, e_process_vars, e_host_vars, e_inbound_vars, process_vars, host_vars, inbound_vars,
           East!inbound_vars, East!outbound_vars, outbound_vars,
           E!process_vars, E!host_vars, E!inbound_vars, E!send_vars, E!slot_vars, E!order_vars,
           E!poll_vars, W!process_vars, W!host_vars, W!send_vars, W!slot_vars, W!order_vars,
           W!poll_vars, East!send_vars, East!slot_vars, East!order_vars, East!poll_vars,
           send_vars, slot_vars, order_vars, poll_vars
  <1>3. /\ UNCHANGED <<e_pc, e_cursor, e_packet, e_send_seq, e_closed, e_host_in, e_wire>>
        /\ UNCHANGED <<pc, cursor, packet, send_seq, closed, host_in, room, wire>>
        /\ UNCHANGED <<e_in_seq, e_inq, e_taken, e_avail, e_peer>>
        /\ UNCHANGED <<in_seq, inq, taken>>
    BY <1>2 DEF E!process_vars, E!host_vars, E!inbound_vars, E!send_vars, W!process_vars,
                W!host_vars, W!send_vars
  <1>4. W!LinkInv'
    BY <1>1, <1>3, Assumptions, W!QuietKeepsLink DEF W!TransferAssumption, W!DataTransferAssumption
  <1>5. E!Shut = EastShut /\ W!Shut = WestShut
    BY DEF E!Shut, W!Shut, EastShut, WestShut, Exits, E!Exits, W!Exits, Fatal, E!Fatal, W!Fatal
  <1>6. ASSUME NEW i \in Agents, i \notin WestShut
        PROVE  W!Alive /\ e_peer[i] = "open"
    BY <1>1, <1>5, <1>6 DEF W!Shut, W!Alive, W!ProcessInv, W!DeliveryInv, W!IInv, W!TypeOK,
                W!ControlTypes, W!LinkInv, W!PeersShut
  <1>7. ASSUME NEW i \in Agents, ToWest!Carry(i)
        PROVE  E!LinkInv' /\ E!Next /\ W!Next
    <2>1. /\ i \notin WestShut
          /\ e_room[i] < SndBuf /\ e_room' = [e_room EXCEPT ![i] = e_room[i] + 1]
          /\ avail[i] < RcvBuf /\ avail' = [avail EXCEPT ![i] = avail[i] + 1]
          /\ peer[i] = "open" /\ peer' = peer
      BY <1>7 DEF ToWest!Carry
    <2>2. E!Drain(i)
      BY <1>2, <1>6, <2>1 DEF E!Drain
    <2>3. E!LinkInv' /\ Len(inq[i]) * E!PacketLen - taken[i] - avail[i] > 0
      BY <1>1, <1>3, <2>1, <2>2, Assumptions, E!CrossingKeepsLink
         DEF E!TransferAssumption, E!DataTransferAssumption
    <2>4. W!Arrive(i)
      BY <1>2, <1>6, <2>1, <2>3 DEF W!Arrive, W!InFlight, E!PacketLen, W!PacketLen, W!outbound_vars
    <2> QED BY <2>2, <2>3, <2>4 DEF E!Next, E!RemoteSide, W!Next, W!RemoteSide
  <1>8. ASSUME NEW i \in Agents, ToWest!EndOfStream(i) \/ ToWest!Reset(i)
        PROVE  E!LinkInv' /\ UNCHANGED E!vars /\ W!Next
    <2>1. /\ i \in EastShut /\ i \notin WestShut
          /\ UNCHANGED <<e_room, avail>>
          /\ \A j \in Agents : peer'[j] # peer[j] => j = i
      <3>1. peer \in [Agents -> W!PeerStates]
        BY <1>1 DEF W!ProcessInv, W!DeliveryInv, W!IInv, W!TypeOK, W!InboundTypes
      <3> QED BY <1>8, <3>1 DEF ToWest!EndOfStream, ToWest!Reset
    <2>2. E!LinkInv'
      BY <1>1, <1>3, <1>5, <2>1, Assumptions, E!QuietKeepsLink
         DEF E!TransferAssumption, E!DataTransferAssumption
    <2>3. UNCHANGED E!vars
      BY <1>2, <2>1 DEF E!vars, E!process_vars, E!outbound_vars
    <2>4. UNCHANGED <<W!process_vars, W!host_vars, W!inbound_vars, W!outbound_vars>>
      BY <1>2, <2>1 DEF W!inbound_vars, W!outbound_vars
    <2>5. W!RemoteCloses(i) \/ W!RemoteResets(i)
      BY <1>6, <1>8, <2>1, <2>4 DEF ToWest!EndOfStream, ToWest!Reset, W!RemoteCloses, W!RemoteResets
    <2> QED BY <2>2, <2>3, <2>5 DEF W!Next, W!RemoteSide
  <1>9. E!LinkInv' /\ [E!Next]_(E!vars) /\ W!Next
    BY <1>7, <1>8 DEF CarryWest, ToWest!Step
  <1>10. E!ProcessInv' /\ W!ProcessInv'
    BY <1>1, <1>9, Assumptions, E!NextProcess, W!NextProcess
       DEF E!TransferAssumption, E!DataTransferAssumption, W!TransferAssumption, W!DataTransferAssumption
  <1> QED BY <1>4, <1>9, <1>10 DEF TunnelInv

-----------------------------------------------------------------------------
(* The two together.                                                       *)

(* The invariant holds when both processes start.                          *)
LEMMA InitTunnel ==
  ASSUME TunnelInit
  PROVE  TunnelInv /\ W!Init /\ E!Init
  <1>1. W!Init /\ E!Init
    BY WestActions, EastActions DEF TunnelInit
  <1>2. W!ProcessInv /\ W!LinkInv
    BY <1>1, Assumptions, W!InitLink DEF W!TransferAssumption, W!DataTransferAssumption, E!Init
  <1>3. E!ProcessInv /\ E!LinkInv
    BY <1>1, Assumptions, E!InitLink DEF E!TransferAssumption, E!DataTransferAssumption, W!Init
  <1> QED BY <1>1, <1>2, <1>3 DEF TunnelInv

(* Nothing happens.                                                        *)
LEMMA StandStill ==
  ASSUME TunnelInv, UNCHANGED tunnel_vars
  PROVE  TunnelInv' /\ UNCHANGED W!vars /\ UNCHANGED E!vars
  <1>1. /\ W!ProcessInv /\ W!LinkInv /\ W!FarTypes
        /\ E!ProcessInv /\ E!LinkInv /\ E!FarTypes
    BY FarEnds DEF TunnelInv
  <1>2. UNCHANGED W!vars
    BY DEF tunnel_vars, vars, process_vars, host_vars, inbound_vars, outbound_vars,
           send_vars, slot_vars, order_vars, poll_vars,
           W!vars, W!host_vars, W!inbound_vars, W!outbound_vars, W!send_vars, W!slot_vars,
           W!order_vars, W!poll_vars
  <1>3. UNCHANGED E!vars
    BY DEF tunnel_vars, e_vars, e_process_vars, e_host_vars, e_inbound_vars,
           E!vars, E!host_vars, E!inbound_vars, E!outbound_vars, E!send_vars, E!slot_vars,
           E!order_vars, E!poll_vars
  <1>4. W!ProcessInv' /\ E!ProcessInv'
    BY <1>1, <1>2, <1>3, Assumptions, W!NextProcess, E!NextProcess
       DEF W!TransferAssumption, W!DataTransferAssumption, E!TransferAssumption, E!DataTransferAssumption
  <1>5. /\ UNCHANGED <<pc, cursor, packet, send_seq, closed, host_in, room, wire, peer>>
        /\ UNCHANGED <<in_seq, inq, taken, avail>>
    BY <1>2 DEF W!vars, W!host_vars, W!inbound_vars, W!outbound_vars, W!send_vars
  <1>6. /\ UNCHANGED <<e_pc, e_cursor, e_packet, e_send_seq, e_closed, e_host_in, e_room, e_wire, e_peer>>
        /\ UNCHANGED <<e_in_seq, e_inq, e_taken, e_avail>>
    BY <1>3 DEF E!vars, E!host_vars, E!inbound_vars, E!outbound_vars, E!send_vars
  <1>7. W!LinkInv'
    BY <1>1, <1>5, <1>6, Assumptions, W!QuietKeepsLink DEF W!TransferAssumption, W!DataTransferAssumption
  <1>8. E!LinkInv'
    BY <1>1, <1>5, <1>6, Assumptions, E!QuietKeepsLink DEF E!TransferAssumption, E!DataTransferAssumption
  <1> QED BY <1>2, <1>3, <1>4, <1>7, <1>8 DEF TunnelInv

(* Every step of the two is one of each, or nothing for it.                *)
LEMMA TunnelSteps ==
  ASSUME TunnelInv, [TunnelNext]_tunnel_vars
  PROVE  TunnelInv' /\ [W!Next]_(W!vars) /\ [E!Next]_(E!vars)
  BY WestMoves, EastMoves, EastGets, WestGets, StandStill DEF TunnelNext, Hosts

(* Both processes together keep what each keeps and what joins them, in    *)
(* both directions: neither could be shown without the other, as what one  *)
(* assumes of its remote agent is what the other does (network.c:849-1491, *)
(* poll.c:201-569, on both sides).                                         *)
THEOREM TunnelInvariant == TunnelSpec => []TunnelInv
  BY InitTunnel, TunnelSteps, PTL DEF TunnelSpec

(* Each of the two processes behaves as DataTransfer says, with a remote   *)
(* agent that may close or reset any connection at any point: what is      *)
(* proved of one process holds of both.                                    *)
THEOREM TwoTransfers == TunnelSpec => W!Spec /\ E!Spec
  <1>1. TunnelSpec => [][W!Next]_(W!vars) /\ [][E!Next]_(E!vars)
    BY TunnelInvariant, TunnelSteps, PTL DEF TunnelSpec
  <1> QED BY <1>1, InitTunnel, PTL DEF TunnelSpec, W!Spec, E!Spec

-----------------------------------------------------------------------------
(* What they promise together.                                             *)

(* The unit that the parser is at is the first that was not read: this is  *)
(* what Begun and Contents say of the first packet.                        *)
LEMMA InvSeesWire ==
  ASSUME TunnelInv
  PROVE  ParserSeesWire
  <1> SUFFICES ASSUME NEW i \in Agents, e_avail[i] > 0
               PROVE  wire[i][Len(wire[i]) - Unread(i) + 1] = <<Head(e_inq[i]), e_taken[i]>>
    BY DEF ParserSeesWire
  <1>1. /\ W!ProcessInv /\ W!Accounted /\ W!Contents /\ W!FarTypes /\ W!IInv
    BY FarEnds DEF TunnelInv, W!LinkInv, W!ProcessInv, W!DeliveryInv
  <1>2. /\ e_inq[i] \in Seq(Nat) /\ Len(e_inq[i]) \in Nat
        /\ e_taken[i] \in 0 .. W!PacketLen - 1 /\ e_avail[i] \in Nat
        /\ room[i] \in 0 .. SndBuf /\ Len(wire[i]) \in Nat
        /\ W!OnTheWay(i) \in Nat /\ Len(e_inq[i]) * W!PacketLen \in Nat
        /\ W!PacketLen \in Nat \ {0} /\ SndBuf \in Nat
    BY <1>1, Assumptions, W!LinkTypes DEF W!TransferAssumption, W!DataTransferAssumption
  <1>3. W!OnTheWay(i) = Unread(i) /\ Unread(i) > 0
    BY <1>2 DEF W!OnTheWay, Unread
  <1>4. /\ W!Begun(i) = Len(wire[i]) - Unread(i) - e_taken[i]
        /\ Unread(i) <= Len(e_inq[i]) * W!PacketLen - e_taken[i]
    BY <1>1, <1>3 DEF W!Begun, W!Accounted, W!Expected
  <1>5. Len(e_inq[i]) # 0
    <2> SUFFICES ASSUME Len(e_inq[i]) = 0
                 PROVE  FALSE
      OBVIOUS
    <2>1. Len(e_inq[i]) * W!PacketLen = 0
      BY <1>2
    <2> QED BY <1>2, <1>3, <1>4, <2>1
  <1>6. ASSUME NEW j \in Nat, NEW o \in 0 .. W!PacketLen - 1,
               j \in 1 .. Len(e_inq[i]), W!Begun(i) + (j - 1) * W!PacketLen + o + 1 <= Len(wire[i])
        PROVE  wire[i][W!Begun(i) + (j - 1) * W!PacketLen + o + 1] = <<e_inq[i][j], o>>
    BY <1>1, <1>6, Zenon DEF W!Contents
  <1>7. (1 - 1) * W!PacketLen = 0
    BY <1>2
  <1>8. W!Begun(i) + (1 - 1) * W!PacketLen + e_taken[i] + 1 = Len(wire[i]) - Unread(i) + 1
    BY <1>2, <1>3, <1>4, <1>7
  <1>9. Len(wire[i]) - Unread(i) + 1 <= Len(wire[i]) /\ 1 \in 1 .. Len(e_inq[i])
    BY <1>2, <1>3, <1>5
  <1>10. Head(e_inq[i]) = e_inq[i][1]
    BY <1>2
  <1>11. 1 \in Nat /\ e_taken[i] \in 0 .. W!PacketLen - 1
    BY <1>2
  <1>12. wire[i][W!Begun(i) + (1 - 1) * W!PacketLen + e_taken[i] + 1] = <<e_inq[i][1], e_taken[i]>>
    BY <1>6, <1>8, <1>9, <1>11
  <1> QED BY <1>8, <1>10, <1>12

(* What the parser of one process takes off a socket next is what the      *)
(* other wrote there for it: the unit of the packet that is due on that    *)
(* socket (network.c:958-1051 against 1086-1243).                          *)
THEOREM SeesWire == TunnelSpec => []ParserSeesWire
  BY TunnelInvariant, InvSeesWire, PTL

(* The units that the West host has written.                               *)
Written == (send_seq + host_in) * PayloadLen

(* Every step of the two writes to the stream, reads from it, or neither.  *)
LEMMA TunnelStream ==
  ASSUME TunnelInv, [TunnelNext]_tunnel_vars
  PROVE  [Stream!Write \/ Stream!Read]_<<Written, E!Got>>
  <1>1. /\ W!ProcessInv /\ E!ProcessInv /\ [E!Next]_(E!vars)
        /\ e_in_seq = send_seq
    BY TunnelSteps DEF TunnelInv, W!LinkInv, W!Numbered
  <1>2. send_seq \in Nat /\ host_in \in Nat /\ PayloadLen \in Nat \ {0}
    BY <1>1, TransferAssumption DEF W!ProcessInv, W!DeliveryInv, W!IInv, W!TypeOK, W!SendTypes, W!HostTypes
  <1>3. CASE WestHandler \/ West(HostSide)
    <2>1. W!OwnStep /\ UNCHANGED e_host_vars
      BY <1>3, WestSteps
    <2>2. send_seq' + host_in' \in {send_seq + host_in, send_seq + host_in + 1}
      BY <1>1, <2>1, Assumptions, W!OwnStepWrites DEF W!TransferAssumption, W!DataTransferAssumption
    <2>3. E!Got' = E!Got
      BY <2>1 DEF E!Got, e_host_vars
    <2>4. CASE send_seq' + host_in' = send_seq + host_in
      BY <2>3, <2>4 DEF Written
    <2>5. CASE send_seq' + host_in' = send_seq + host_in + 1
      <3> DEFINE n == send_seq + host_in
      <3>1. n \in Nat /\ send_seq' + host_in' = n + 1
        BY <1>2, <2>5
      <3>2. (n + 1) * PayloadLen = n * PayloadLen + PayloadLen /\ n * PayloadLen \in Nat
        <4> HIDE DEF n
        <4> QED BY <1>2, <3>1
      <3>3. Written' \in Nat /\ Written' > Written
        BY <1>2, <3>1, <3>2 DEF Written
      <3> QED BY <2>3, <3>3 DEF Stream!Write, Written, E!Got
    <2> QED BY <2>2, <2>4, <2>5
  <1>4. CASE ~(WestHandler \/ West(HostSide))
    <2>1. UNCHANGED <<send_seq, host_in>>
      <3>1. CASE EastHandler \/ InEast(East!HostSide)
        BY <3>1, EastSteps DEF process_vars, host_vars, send_vars
      <3>2. CASE CarryEast \/ CarryWest \/ UNCHANGED tunnel_vars
        BY <3>2 DEF CarryEast, CarryWest, tunnel_vars, vars, process_vars, host_vars, send_vars
      <3> QED BY <1>4, <3>1, <3>2 DEF TunnelNext, Hosts
    <2>2. Written' = Written
      BY <2>1 DEF Written
    <2>3. CASE E!Got' = E!Got
      BY <2>2, <2>3
    <2>4. CASE E!Got' # E!Got
      <3>1. PICK n \in 1 .. E!Sent - Len(E!Got) :
              E!Got' = E!Got \o [k \in 1 .. n |-> Len(E!Got) + k - 1]
        BY <1>1, <2>4, Assumptions, E!GetsWhatFollows DEF E!TransferAssumption, E!DataTransferAssumption
      <3>2. E!Sent = send_seq * PayloadLen
        BY <1>1 DEF E!Sent
      <3>3. send_seq * PayloadLen <= Written /\ send_seq * PayloadLen \in Nat /\ Written \in Nat
        BY <1>2, SMTT(30) DEF Written
      <3>4. Len(E!Got) \in Nat
        BY <1>1, Assumptions, E!InOrderIsPrefix
           DEF E!TransferAssumption, E!DataTransferAssumption
      <3>5. n \in 1 .. Written - Len(E!Got)
        BY <3>1, <3>2, <3>3, <3>4
      <3> QED BY <2>2, <3>1, <3>5 DEF Stream!Read, Written, E!Got
    <2> QED BY <2>3, <2>4
  <1> QED BY <1>3, <1>4

(* From host to host: what the East host gets is a prefix of what the West *)
(* host wrote, each unit once and in order, however the sockets reorder,   *)
(* cut, block or fail and whatever either end closes                       *)
(* (network.c:849-1051, 1069-1491).                                        *)
THEOREM HostToHost == TunnelSpec => TunnelIsStream
  <1>1. TunnelInit => Stream!Init
    <2> SUFFICES ASSUME TunnelInit
                 PROVE  Stream!Init
      OBVIOUS
    <2>1. send_seq = 0 /\ host_in = 0 /\ e_delivered = <<>>
      BY InitTunnel DEF W!Init, E!Init
    <2>2. (send_seq + host_in) * PayloadLen = 0
      BY <2>1, TransferAssumption
    <2>3. [k \in DOMAIN e_delivered |-> e_delivered[k][1] * PayloadLen + e_delivered[k][2]] = <<>>
      BY <2>1
    <2> QED BY <2>2, <2>3 DEF Stream!Init
  <1> QED BY <1>1, TunnelStream, TunnelInvariant, PTL
      DEF TunnelSpec, TunnelIsStream, Stream!Spec, Written, E!Got

(* East is what E is for it, where its peers close and reset as they may.   *)
LEMMA EastStep ==
  ASSUME [E!Next]_(E!vars),
         \A i \in Agents : /\ E!RemoteCloses(i) => East!RemoteCloses(i)
                           /\ E!RemoteResets(i) => East!RemoteResets(i)
  PROVE  [East!Next]_(East!vars)
  <1>1. E!vars = East!vars /\ (E!vars)' = (East!vars)'
    BY DEF E!vars, East!vars, E!host_vars, East!host_vars, E!inbound_vars, East!inbound_vars,
           E!outbound_vars, East!outbound_vars, E!send_vars, East!send_vars, E!slot_vars, East!slot_vars,
           E!order_vars, East!order_vars, E!poll_vars, East!poll_vars
  <1>2. CASE E!Next
    <2>1. E!Outbound => East!Outbound
      BY EastActions DEF E!Outbound, East!Outbound
    <2>2. E!Inbound => East!Inbound
      BY EastActions DEF E!Inbound, East!Inbound
    <2>3. E!HostSide => East!HostSide
      BY EastActions DEF E!HostSide, East!HostSide
    <2>4. E!RemoteSide => East!RemoteSide
      BY EastActions DEF E!RemoteSide, East!RemoteSide
    <2>5. E!Ended => UNCHANGED East!vars
      BY <1>1 DEF E!Ended
    <2>6. E!CheckClosed => East!CheckClosed
      BY EastActions
    <2> QED BY <1>2, <2>1, <2>2, <2>3, <2>4, <2>5, <2>6 DEF E!Next, East!Next
  <1> QED BY <1>1, <1>2

(* What the remote agent does to a connection is the same for both, where  *)
(* the peers may do it and a connection is cut only where it may be.       *)
LEMMA EastPeers ==
  ASSUME Agents \subseteq EastMayClose, NEW i \in Agents
  PROVE  /\ E!RemoteCloses(i) /\ (E!InFlight(i) = 0 \/ i \in MayCut) => East!RemoteCloses(i)
         /\ E!RemoteResets(i) /\ i \in MayReset => East!RemoteResets(i)
  BY DEF E!RemoteCloses, E!RemoteResets, East!RemoteCloses, East!RemoteResets, E!InFlight,
         East!InFlight, E!PacketLen, East!PacketLen, E!Alive, East!Alive, E!Running, East!Running,
         E!process_vars, East!process_vars, E!host_vars, East!host_vars, E!inbound_vars,
         East!inbound_vars, E!outbound_vars, East!outbound_vars, E!send_vars, East!send_vars,
         E!slot_vars, East!slot_vars, E!order_vars, East!order_vars, E!poll_vars, East!poll_vars

(* East behaves as DataTransfer says it does for the peers that it is said *)
(* to have, when its agents' connections may be closed, reset and cut.     *)
THEOREM EastAsDataTransfer ==
  ASSUME Agents \subseteq EastMayClose, Agents \subseteq MayReset, MayCut = Agents
  PROVE  TunnelSpec => EastIsDataTransfer
  <1>1. E!Init => East!Init
    BY EastActions
  <1>2. [E!Next]_(E!vars) => [East!Next]_(East!vars)
    BY EastStep, EastPeers
  <1> QED BY <1>1, <1>2, TwoTransfers, PTL DEF E!Spec, EastIsDataTransfer, East!Spec

-----------------------------------------------------------------------------
(***************************************************************************)
(* The end of a stream that goes one way.  East ends because West did, and *)
(* West ends on its own account alone, as nothing comes back: the ends of  *)
(* its sockets stay open until it has closed them, which it does with all  *)
(* sent.  What is then on the way is all that East still expects.          *)
(***************************************************************************)

(* What each process keeps for its end.                                    *)
EndsInv ==
  /\ TunnelInv
  /\ W!QueueInv /\ W!SoundInv /\ W!EndInv
  /\ E!QueueInv /\ E!SoundInv /\ E!EndInv

(* Both processes keep it to the end, as each does on its own.             *)
LEMMA Ends == TunnelSpec => []EndsInv
  <1>1. W!Spec => [](W!QueueInv /\ W!SoundInv) /\ []W!EndInv
    <2>1. W!Spec => [](W!IInv /\ W!OrderInv /\ W!QueueInv /\ W!OutInv /\ W!SoundInv) /\ []W!EndInv
      BY Assumptions, W!Throughout, W!EndsInOrder DEF W!TransferAssumption, W!DataTransferAssumption
    <2> QED BY <2>1, PTL
  <1>2. E!Spec => [](E!QueueInv /\ E!SoundInv) /\ []E!EndInv
    <2>1. E!Spec => [](E!IInv /\ E!OrderInv /\ E!QueueInv /\ E!OutInv /\ E!SoundInv) /\ []E!EndInv
      BY Assumptions, E!Throughout, E!EndsInOrder DEF E!TransferAssumption, E!DataTransferAssumption
    <2> QED BY <2>1, PTL
  <1> QED BY <1>1, <1>2, TwoTransfers, TunnelInvariant, PTL DEF EndsInv

(* The invariant: West's sockets are open at the other end, East's were    *)
(* ended between two packets if at all.                                    *)
OneWay ==
  /\ \A i \in Agents : peer[i] = "open"
  /\ E!Unharmed
  /\ pc # "host_not_pollable"

(* What is kept, part by part.                                             *)
LEMMA ProcessParts ==
  ASSUME TunnelInv
  PROVE  /\ W!IInv /\ W!OrderInv /\ W!UnitsInv /\ W!OutInv /\ W!TypeOK
         /\ E!IInv /\ E!OrderInv /\ E!UnitsInv /\ E!OutInv /\ E!TypeOK
         /\ W!FarTypes /\ E!FarTypes
         /\ W!Numbered /\ W!PeersShut /\ W!Accounted
         /\ E!Numbered /\ E!PeersShut /\ E!Accounted
         /\ W!Shut = WestShut /\ E!Shut = EastShut
  <1>1. W!Shut = WestShut /\ E!Shut = EastShut
    BY DEF W!Shut, E!Shut, WestShut, EastShut, Exits, W!Exits, E!Exits, Fatal, W!Fatal, E!Fatal
  <1> QED BY <1>1, FarEnds DEF TunnelInv, W!ProcessInv, W!DeliveryInv, W!LinkInv, W!IInv,
                               E!ProcessInv, E!DeliveryInv, E!LinkInv, E!IInv

(* Nothing comes back: no unit is on its way to West or unread there.      *)
LEMMA NothingComesBack ==
  ASSUME TunnelInv, Eastward
  PROVE  in_seq = 0 /\ \A i \in Agents : avail[i] = 0 /\ e_room[i] = SndBuf
  <1>1. in_seq = 0
    <2>1. e_send_seq \in Nat /\ e_host_in \in Nat /\ in_seq = e_send_seq
      BY ProcessParts DEF E!TypeOK, E!SendTypes, E!HostTypes, E!Numbered
    <2> QED BY <2>1 DEF Eastward
  <1>2. ASSUME NEW i \in Agents
        PROVE  avail[i] = 0 /\ e_room[i] = SndBuf
    <2>1. Len(inq[i]) \in Nat /\ taken[i] \in Nat /\ avail[i] \in Nat
          /\ e_room[i] \in 0 .. SndBuf /\ SndBuf \in Nat
          /\ E!PacketLen \in Nat
      BY ProcessParts, Assumptions, E!LinkTypes, SMTT(30) DEF E!TransferAssumption, E!DataTransferAssumption
    <2>2. Len(inq[i]) = 0
      <3> SUFFICES ASSUME Len(inq[i]) # 0
                   PROVE  FALSE
        OBVIOUS
      <3>1. 1 \in 1 .. Len(inq[i])
        BY <2>1
      <3>2. recv_seq <= inq[i][1] /\ inq[i][1] < in_seq
        BY <3>1, ProcessParts DEF W!OrderInv, W!StreamNumbers
      <3>3. recv_seq \in Nat /\ inq[i][1] \in Nat
        BY <3>1, ProcessParts DEF W!TypeOK, W!OrderTypes, W!InboundTypes
      <3> QED BY <1>1, <3>2, <3>3
    <2>3. SndBuf - e_room[i] + avail[i] <= Len(inq[i]) * E!PacketLen - taken[i]
      BY ProcessParts DEF E!Accounted, E!OnTheWay, E!Expected
    <2>4. Len(inq[i]) * E!PacketLen = 0
      BY <2>1, <2>2
    <2> QED BY <2>1, <2>3, <2>4
  <1> QED BY <1>1, <1>2

(* East closes a socket only after its end, and never fails.               *)
LEMMA EastShutsAfterEnd ==
  ASSUME EndsInv, Eastward, OneWay, NEW i \in Agents, i \in E!Shut
  PROVE  e_peer[i] # "open"
  <1>1. E!GoesWell /\ E!ReadOut /\ E!HostShut /\ E!EndReason /\ e_host = "open"
    BY DEF EndsInv, E!SoundInv, OneWay, E!EndInv, Eastward
  <1>2. CASE e_pc \in E!Exits
    <2>1. e_pc \notin E!Fatal
      BY <1>1 DEF E!GoesWell, E!Excused
    <2> QED BY <1>1, <1>2, <2>1 DEF E!Exits, E!EndReason
  <1>3. CASE e_pc \notin E!Exits
    <2>1. E!Alive
      BY <1>3, ProcessParts DEF EndsInv, E!TypeOK, E!ControlTypes, E!Alive
    <2>2. i \in e_closed
      BY <1>3 DEF E!Shut
    <2>3. e_fd_poll[i] = E!CLOSED /\ e_fd_poll[Host] # E!CLOSED
      BY <1>1, <2>1, <2>2 DEF E!GoesWell, E!Sound, E!ClosedMasks, E!HostShut
    <2> QED BY <1>1, <2>1, <2>3 DEF E!ReadOut
  <1> QED BY <1>2, <1>3

(* West closes a socket only when its host has closed and was read to the  *)
(* end, with nothing left to send on it.                                   *)
LEMMA WestShutsAfterSending ==
  ASSUME EndsInv, Eastward, OneWay, NEW i \in Agents, i \in W!Shut
  PROVE  host # "open" /\ host_in = 0 /\ ~W!Pending(i)
  <1>1. /\ host \in {"open", "fin"} /\ peer[i] = "open"
        /\ W!ReadOut /\ W!HostShut /\ W!ShutAfterSending /\ W!EndReason /\ W!OrderlyEnd
    BY DEF EndsInv, OneWay, W!EndInv, Eastward
  <1>2. W!GoesWell
    BY DEF EndsInv, W!SoundInv, W!Unharmed, OneWay, Eastward
  <1>3. CASE pc \in W!Exits
    <2>1. pc = "closed"
      BY <1>2, <1>3 DEF OneWay, W!GoesWell, W!Excused, W!Exits
    <2>2. fd_poll[Host] = W!CLOSED /\ host = "fin"
      BY <1>1, <2>1 DEF W!EndReason
    <2> QED BY <1>1, <2>1, <2>2 DEF W!OrderlyEnd, OneWay
  <1>4. CASE pc \notin W!Exits
    <2>1. W!Alive
      BY <1>4, ProcessParts DEF EndsInv, W!TypeOK, W!ControlTypes, W!Alive
    <2>2. i \in closed
      BY <1>4 DEF W!Shut
    <2>3. fd_poll[i] = W!CLOSED
      BY <1>2, <2>1, <2>2 DEF W!GoesWell, W!Sound, W!ClosedMasks
    <2>4. fd_poll[Host] = W!CLOSED
      BY <1>1, <2>1, <2>3 DEF W!ReadOut
    <2> QED BY <1>1, <2>1, <2>3, <2>4 DEF W!HostShut, W!ShutAfterSending
  <1> QED BY <1>3, <1>4

(* A stream that goes one way always did.                                  *)
LEMMA EastwardBefore ==
  ASSUME TunnelInv, [TunnelNext]_tunnel_vars, Eastward'
  PROVE  Eastward
  <1>1. [W!Next]_(W!vars) /\ [E!Next]_(E!vars)
    BY TunnelSteps
  <1>2. host \in {"open", "fin"}
    <2>1. host' # host => (host = "open" /\ host' = "fin") \/ host' \in {"rst", "pipe", "gone"}
      BY <1>1, ProcessParts, Assumptions, W!PeersMove DEF W!TransferAssumption, W!DataTransferAssumption
    <2> QED BY <2>1 DEF Eastward
  <1>3. e_host = "open"
    <2>1. e_host' # e_host => (e_host = "open" /\ e_host' = "fin") \/ e_host' \in {"rst", "pipe", "gone"}
      BY <1>1, ProcessParts, Assumptions, E!PeersMove DEF E!TransferAssumption, E!DataTransferAssumption
    <2> QED BY <2>1 DEF Eastward
  <1>4. e_send_seq + e_host_in = 0
    <2>1. e_send_seq' + e_host_in' \in {e_send_seq + e_host_in, e_send_seq + e_host_in + 1}
      <3>1. CASE EastHandler \/ InEast(East!HostSide)
        BY <3>1, EastSteps, Assumptions, E!OwnStepWrites
           DEF E!TransferAssumption, E!DataTransferAssumption, TunnelInv
      <3>2. CASE WestHandler \/ West(HostSide)
        BY <3>2, WestSteps DEF e_process_vars, e_host_vars
      <3>3. CASE CarryEast \/ CarryWest \/ UNCHANGED tunnel_vars
        BY <3>3 DEF CarryEast, CarryWest, tunnel_vars, e_vars, e_process_vars, e_host_vars
      <3> QED BY <3>1, <3>2, <3>3 DEF TunnelNext, Hosts
    <2>2. e_send_seq \in Nat /\ e_host_in \in Nat
      BY ProcessParts DEF E!TypeOK, E!SendTypes, E!HostTypes
    <2> QED BY <2>1, <2>2 DEF Eastward
  <1> QED BY <1>2, <1>3, <1>4 DEF Eastward

(* The end of a stream reaches East when all that was on its way did, and  *)
(* a socket is never reset: West has read all, as nothing was there.       *)
LEMMA EndReachesEast ==
  ASSUME EndsInv, Eastward, OneWay, CarryEast, NEW i \in Agents, e_peer'[i] # e_peer[i]
  PROVE  e_peer'[i] = "fin" /\ E!InFlight(i)' = 0
  <1>1. TunnelInv
    BY DEF EndsInv
  <1>2. \A j \in Agents : ~ToEast!Reset(j)
    BY <1>1, NothingComesBack, ProcessParts, TransferAssumption DEF ToEast!Reset
  <1>3. ToEast!EndOfStream(i)
    <2>1. e_peer \in [Agents -> E!PeerStates]
      BY <1>1, ProcessParts DEF E!TypeOK
    <2>2. PICK j \in Agents : ToEast!Carry(j) \/ ToEast!EndOfStream(j)
      BY <1>2 DEF CarryEast, ToEast!Step
    <2>3. ToEast!EndOfStream(j) /\ j = i
      BY <2>1, <2>2 DEF ToEast!Carry, ToEast!EndOfStream
    <2> QED BY <2>3
  <1>4. i \in W!Shut /\ room[i] = SndBuf /\ e_peer'[i] = "fin"
    BY <1>1, <1>3, ProcessParts DEF ToEast!EndOfStream, E!TypeOK
  <1>5. ~W!Pending(i)
    BY <1>4, WestShutsAfterSending
  <1>6. W!Expected(i) = W!OnTheWay(i) + 0
    BY <1>1, <1>5, ProcessParts DEF W!Accounted, W!Settled, W!Owed
  <1>7. /\ e_avail[i] \in Nat /\ SndBuf \in Nat
        /\ Len(e_inq[i]) * W!PacketLen \in Nat /\ e_taken[i] \in Nat
    BY <1>1, ProcessParts, Assumptions, W!LinkTypes, SMTT(30) DEF W!TransferAssumption, W!DataTransferAssumption
  <1>8. E!InFlight(i)' = Len(e_inq[i]) * W!PacketLen - e_taken[i] - e_avail[i]
    BY <1>3 DEF CarryEast, ToEast!EndOfStream, E!InFlight, E!PacketLen, W!PacketLen
  <1> QED BY <1>4, <1>6, <1>7, <1>8 DEF W!Expected, W!OnTheWay

(* Every step keeps the invariant.                                         *)
LEMMA NextOneWay ==
  ASSUME EndsInv, Eastward, OneWay, [TunnelNext]_tunnel_vars, Eastward'
  PROVE  OneWay'
  <1>1. TunnelInv /\ [W!Next]_(W!vars) /\ [E!Next]_(E!vars)
    BY TunnelSteps DEF EndsInv
  <1>2. peer' = peer /\ (e_peer' = e_peer \/ CarryEast)
    <2>1. CASE WestHandler \/ West(HostSide)
      <3>1. W!OwnStep /\ W!Announced
        BY <1>1, <2>1, WestSteps
      <3> QED BY <1>1, <3>1, Assumptions, W!OwnStepReads
              DEF W!Announced, W!TransferAssumption, W!DataTransferAssumption, TunnelInv
    <2>2. CASE EastHandler \/ InEast(East!HostSide)
      <3>1. E!OwnStep /\ E!Announced
        BY <1>1, <2>2, EastSteps
      <3> QED BY <1>1, <3>1, Assumptions, E!OwnStepReads
              DEF E!Announced, E!TransferAssumption, E!DataTransferAssumption, TunnelInv
    <2>3. CASE CarryWest
      <3>1. \A i \in Agents : ~ToWest!EndOfStream(i) /\ ~ToWest!Reset(i)
        BY <1>1, EastShutsAfterEnd, ProcessParts DEF ToWest!EndOfStream, ToWest!Reset, W!PeersShut
      <3> QED BY <2>3, <3>1 DEF CarryWest, ToWest!Step, ToWest!Carry
    <2>4. CASE CarryEast \/ UNCHANGED tunnel_vars
      BY <2>4 DEF CarryEast, tunnel_vars, vars, e_vars
    <2> QED BY <2>1, <2>2, <2>3, <2>4 DEF TunnelNext, Hosts
  <1>3. pc' # "host_not_pollable"
    BY <1>1, ProcessParts, NothingComesBack, Assumptions, W!NotPollableAfterPacket
       DEF W!TransferAssumption, W!DataTransferAssumption, OneWay
  <1>4. ASSUME NEW i \in Agents
        PROVE  e_peer'[i] = "open" \/ (e_peer'[i] = "fin" /\ E!InFlight(i)' = 0)
    <2>1. CASE e_peer'[i] # e_peer[i]
      BY <1>2, <2>1, EndReachesEast
    <2>2. CASE e_peer'[i] = e_peer[i] /\ e_peer[i] # "open"
      <3>1. e_peer[i] = "fin" /\ E!InFlight(i) = 0
        BY <2>2 DEF OneWay, E!Unharmed
      <3>2. E!InFlight(i)' = E!InFlight(i)
        BY <1>1, <2>2, ProcessParts, Assumptions, E!NothingFollows
           DEF E!TransferAssumption, E!DataTransferAssumption
      <3> QED BY <2>2, <3>1, <3>2
    <2> QED BY <2>1, <2>2
  <1> QED BY <1>2, <1>3, <1>4 DEF OneWay, E!Unharmed, Eastward

(* The end comes to East in order and to West not at all.                  *)
LEMMA GoesOneWay == TunnelSpec => [](Eastward => OneWay)
  <1>1. TunnelInit => (Eastward => OneWay)
    BY InitTunnel DEF W!Init, E!Init, OneWay, E!Unharmed
  <1>2. EndsInv /\ (Eastward => OneWay) /\ [TunnelNext]_tunnel_vars => (Eastward => OneWay)'
    BY EastwardBefore, NextOneWay DEF EndsInv
  <1> QED BY <1>1, <1>2, Ends, PTL DEF TunnelSpec

(* When East ends all that West numbered is with its host, and the host of *)
(* West had closed and was read to the end.                                *)
LEMMA EndIsComplete ==
  ASSUME Agents # {}, EndsInv, Eastward, OneWay
  PROVE  EndOfStreamIsComplete
  <1> SUFFICES ASSUME e_pc = "closed", e_fd_poll[Host] # CLOSED
               PROVE  host # "open" /\ Len(e_delivered) = (send_seq + host_in) * PayloadLen
    BY DEF EndOfStreamIsComplete
  <1>1. e_fd_poll[Host] # E!CLOSED /\ TunnelInv /\ E!EndReason /\ E!OrderlyEnd
    BY DEF CLOSED, E!CLOSED, EndsInv, E!EndInv
  <1>2. \A i \in Agents : e_peer[i] # "open" /\ E!InFlight(i) = 0
    BY <1>1 DEF E!EndReason, OneWay, E!Unharmed
  <1>3. Len(e_delivered) = e_in_seq * PayloadLen
    BY <1>1, <1>2 DEF E!OrderlyEnd
  <1>4. host # "open" /\ host_in = 0
    BY <1>1, <1>2, ProcessParts, WestShutsAfterSending DEF W!PeersShut
  <1>5. e_in_seq = send_seq /\ send_seq \in Nat
    BY <1>1, ProcessParts DEF W!Numbered, W!TypeOK, W!SendTypes
  <1> QED BY <1>3, <1>4, <1>5

(* The end of the stream is the end of the data: where the West host alone *)
(* writes, East ends on its own account only after that host has closed,   *)
(* and with everything it wrote delivered: West closes each socket only    *)
(* once its packets are sent, and East itself only once the ends of all    *)
(* its sockets have come and every slot is empty (poll.c:372-412 on both   *)
(* sides).                                                                 *)
THEOREM CompleteEnd ==
  ASSUME Agents # {}
  PROVE  TunnelSpec => [](Eastward => EndOfStreamIsComplete)
  <1>1. EndsInv /\ (Eastward => OneWay) => (Eastward => EndOfStreamIsComplete)
    BY EndIsComplete
  <1> QED BY <1>1, Ends, GoesOneWay, PTL

(* Where the stream goes one way East behaves as DataTransfer says it does *)
(* for a remote agent that never resets a connection and closes none in    *)
(* the middle of a packet: West does neither (network.c:1039-1051,         *)
(* poll.c:374-386).                                                        *)
THEOREM EastUncut ==
  ASSUME Agents \subseteq EastMayClose
  PROVE  TunnelSpec /\ []Eastward => EastIsDataTransfer
  <1>1. TunnelSpec => East!Init
    BY EastActions DEF TunnelSpec, TunnelInit
  <1>2. TunnelInv /\ OneWay' /\ [TunnelNext]_tunnel_vars => [East!Next]_(East!vars)
    <2> SUFFICES ASSUME TunnelInv, OneWay', [TunnelNext]_tunnel_vars
                 PROVE  [East!Next]_(East!vars)
      OBVIOUS
    <2>1. [E!Next]_(E!vars)
      BY TunnelSteps
    <2>2. ASSUME NEW i \in Agents, E!RemoteCloses(i)
          PROVE  E!InFlight(i) = 0
      <3>1. e_peer'[i] = "fin" /\ E!InFlight(i)' = E!InFlight(i)
        BY <2>2, ProcessParts DEF E!RemoteCloses, E!InFlight, E!inbound_vars, E!TypeOK
      <3> QED BY <3>1 DEF OneWay, E!Unharmed
    <2>3. ASSUME NEW i \in Agents
          PROVE  ~E!RemoteResets(i)
      <3> SUFFICES ASSUME E!RemoteResets(i)
                   PROVE  FALSE
        OBVIOUS
      <3>1. e_peer'[i] \in {"rst", "pipe"}
        BY ProcessParts DEF E!RemoteResets, E!TypeOK
      <3> QED BY <3>1 DEF OneWay, E!Unharmed
    <2> QED BY <2>1, <2>2, <2>3, EastStep, EastPeers
  <1> QED BY <1>1, <1>2, TunnelInvariant, GoesOneWay, PTL DEF TunnelSpec, EastIsDataTransfer, East!Spec
=============================================================================
