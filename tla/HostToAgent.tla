----------------------------- MODULE HostToAgent -----------------------------
(***************************************************************************)
(* The outbound direction: what poll_data_transfer does for an event on    *)
(* the host socket with EPOLLIN, and for one on an agent socket with       *)
(* EPOLLOUT.  It reads a chunk from the host, numbers it and sends it on   *)
(* an agent socket; a packet that does not fit stays in packet[i] and is   *)
(* resumed when the socket can be written again.                           *)
(*                                                                         *)
(* read_host_send_agent is two program points: its start, and one step for *)
(* each call of send, because the kernel moves between the calls.          *)
(***************************************************************************)
EXTENDS TransferState

(* Mutant: reads host_sent_size, which keeps its last value.               *)
PendingBySentSize(i) == packet[i].host_sent_size # 0

Pending(i) == packet[i].host_packet_size # 0

(* Mutant: the host loses POLLOUT as well.                                 *)
FullMaskDeletesHost(f) ==
  IF f = Host THEN OFF
  ELSE IF fd_poll[f] \in {POLLIN, OFF} THEN fd_poll[f] \union POLLOUT
  ELSE fd_poll[f]

(* The masks all_agents_socks_full leaves: the host is no longer polled    *)
(* for input, every agent socket that is not closed is for output.         *)
FullMask(f) ==
  IF f = Host THEN fd_poll[f] \ POLLIN
  ELSE IF fd_poll[f] \in {POLLIN, OFF} THEN fd_poll[f] \union POLLOUT
  ELSE fd_poll[f]

(* Mutant: pending packets lose POLLOUT too.                               *)
NotFullMaskOfPending(f) ==
  IF f = Host
  THEN IF fd_poll[f] \in {POLLOUT, OFF} THEN fd_poll[f] \union POLLIN ELSE fd_poll[f]
  ELSE fd_poll[f] \ POLLOUT

(* The masks not_all_agent_socks_full leaves: the host is polled for input *)
(* again, the agent sockets with nothing pending no longer for output.     *)
NotFullMask(f) ==
  IF f = Host
  THEN IF fd_poll[f] \in {POLLOUT, OFF} THEN fd_poll[f] \union POLLIN ELSE fd_poll[f]
  ELSE IF Pending(f) THEN fd_poll[f] ELSE fd_poll[f] \ POLLOUT

AllAgentsSocksFull == EpollCtl([f \in Fds |-> FullMask(f)], "check")
NotAllAgentSocksFull == EpollCtl([f \in Fds |-> NotFullMask(f)], "read_host_send_agent")

Start(i) == cursor' = [Idle EXCEPT !.agent_id = i]

(* The host can be read: ask event_poll_out_agent, which holds every agent *)
(* socket that is not closed, for one that can be written.  The EPOLLERR   *)
(* test is made on the same event structure, so when there is none it sees *)
(* the event of the host.                                                  *)
HostIn ==
  LET writable == {i \in Agents \ closed : AgentWritable(i)}
  IN  /\ pc = "wait"
      /\ "in" \in epoll[Host]
      /\ HostReadable
      /\ \/ \E i \in writable :
              IF peer[i] \in Broken
              THEN Exit("epoll_err") /\ UNCHANGED cursor
              ELSE /\ Start(i)
                   /\ pc' = "read_host_send_agent"
                   /\ UNCHANGED poll_vars
         \/ /\ writable = {}
            /\ IF host \in Broken THEN Exit("epoll_err") ELSE AllAgentsSocksFull
            /\ UNCHANGED cursor
      /\ UNCHANGED <<closed, send_vars, slot_vars, order_vars, host_vars, peer,
                     inbound_vars, outbound_vars>>

(* Agent socket i can be written.                                          *)
AgentOut(i) ==
  /\ pc = "wait"
  /\ "out" \in epoll[i]
  /\ AgentWritable(i)
  /\ Start(i)
  /\ IF Pending(i)
     THEN pc' = "read_host_send_agent" /\ UNCHANGED poll_vars
     ELSE NotAllAgentSocksFull
  /\ UNCHANGED <<closed, send_vars, slot_vars, order_vars, host_vars, peer,
                 inbound_vars, outbound_vars>>

(* read_host_send_agent on an agent socket with no packet pending: recv on *)
(* the host socket gets a chunk, EAGAIN, 0 or an error.                    *)
RecvHost(i) ==
  /\ pc = "read_host_send_agent"
  /\ i = cursor.agent_id
  /\ ~Pending(i)
  /\ \/ /\ host_in > 0
        /\ host_in' = host_in - 1
        /\ packet' = [packet EXCEPT ![i].host_packet_size = PacketLen,
                                    ![i].seq = send_seq]
        /\ send_seq' = send_seq + 1
        /\ pc' = "send_agent"
        /\ UNCHANGED <<cursor, poll_vars, host>>
     \/ /\ host_in = 0
        /\ cursor' = Idle
        /\ CASE host = "open" -> Exit("check")
             [] host \in {"fin", "gone"} ->
                  IF fd_poll[Host] = OFF THEN Exit("check")
                  ELSE Unregister(Host, CLOSED, FALSE)
             [] host = "rst" -> Unregister(Host, CLOSED, FALSE)
             [] host = "pipe" -> Exit("recv_error")
        /\ host' = IF host = "rst" THEN "gone" ELSE host
        /\ UNCHANGED <<host_in, send_vars>>
  /\ UNCHANGED <<closed, slot_vars, order_vars, host_room, delivered, peer,
                 inbound_vars, outbound_vars>>

(* read_host_send_agent on an agent socket with a packet pending: it goes  *)
(* on where it was, and no longer polls for output.                        *)
ResumeSend(i) ==
  /\ pc = "read_host_send_agent"
  /\ i = cursor.agent_id
  /\ Pending(i)
  /\ cursor' = [cursor EXCEPT !.size_count = packet[i].host_sent_size]
  /\ IF fd_poll[i] \in {INAndOut, POLLOUT}
     THEN SetPoll(i, UnblockedMask(i), "send_agent")
     ELSE Exit("should_not_have_gotten_here")
  /\ UNCHANGED <<closed, send_vars, slot_vars, order_vars, host_vars, peer,
                 inbound_vars, outbound_vars>>

(* One send accepts what fits of the rest of the packet.                   *)
AgentAccepts(i) ==
  LET n == Lesser(room[i], packet[i].host_packet_size - cursor.size_count)
      sent == cursor.size_count + n
  IN  /\ peer[i] \in {"open", "fin"}
      /\ room[i] > 0
      /\ room' = [room EXCEPT ![i] = @ - n]
      /\ wire' = [wire EXCEPT ![i] = @ \o Chunk(packet[i].seq, cursor.size_count, n)]
      /\ IF sent = packet[i].host_packet_size
         THEN /\ packet' = [packet EXCEPT ![i].host_packet_size = 0]
              /\ cursor' = Idle
              /\ pc' = "check"
         ELSE /\ cursor' = [cursor EXCEPT !.size_count = sent]
              /\ UNCHANGED <<packet, pc>>
      /\ UNCHANGED <<poll_vars, closed, peer>>

(* Mutants: the progress is not saved; the packet is taken for sent.       *)
BlockedPacketUnsaved(i) == packet
BlockedPacketDropped(i) == [packet EXCEPT ![i].host_packet_size = 0]

(* EAGAIN: remember how far it got and poll for output.                    *)
BlockedPacket(i) == [packet EXCEPT ![i].host_sent_size = cursor.size_count]

AgentBlocks(i) ==
  /\ peer[i] \in {"open", "fin"}
  /\ room[i] = 0
  /\ packet' = BlockedPacket(i)
  /\ cursor' = Idle
  /\ SetPoll(i, BlockedMask(i), "check")
  /\ UNCHANGED <<closed, peer, outbound_vars>>

(* ECONNRESET leaves the packet pending and the socket closed, polled OFF. *)
AgentSendFails(i) ==
  /\ peer[i] \in Broken
  /\ cursor' = Idle
  /\ IF peer[i] = "rst" THEN Unregister(i, OFF, TRUE)
     ELSE Exit("sigpipe") /\ UNCHANGED closed
  /\ UNCHANGED <<packet, peer, outbound_vars>>

SendAgent(i) ==
  /\ pc = "send_agent"
  /\ i = cursor.agent_id
  /\ AgentAccepts(i) \/ AgentBlocks(i) \/ AgentSendFails(i)
  /\ UNCHANGED <<send_seq, slot_vars, order_vars, host_vars, inbound_vars>>
==============================================================================
