----------------------------- MODULE AgentToHost -----------------------------
(***************************************************************************)
(* The inbound direction: what poll_data_transfer does for an event on an  *)
(* agent socket with EPOLLIN, and for one on the host socket with          *)
(* EPOLLOUT.  Packets are read into a free slot of their socket's queue;   *)
(* the one with the next sequence number goes to the host, and with it     *)
(* those that follow it and were read early.                               *)
(*                                                                         *)
(* send_data_host is one step for each call of send, because the kernel    *)
(* moves between the calls; its locals are in cursor.                      *)
(***************************************************************************)
EXTENDS TransferState

(* get_free_packet_index.                                                  *)
FreeSlots(i) == {p \in Slots : ~buffered_packet[i][p].in_use}
FirstFree(i) == CHOOSE p \in FreeSlots(i) : \A q \in FreeSlots(i) : p <= q

(* Mutant: a header that was cut is begun again.                           *)
ProgressOfBody(i) ==
  LET p == agent_packet_index_in[i]
  IN  IF p = EMPTY \/ agent_needed_header_size[i] > 0 THEN 0
      ELSE HeaderLen + buffered_packet[i][p].host_sent_size

(* How much of a packet read_agent_send_host knows to have read from       *)
(* socket i: nothing, a part of the header, or the header and a part of    *)
(* the body.                                                               *)
Progress(i) ==
  LET p == agent_packet_index_in[i]
  IN  IF p = EMPTY THEN 0
      ELSE IF agent_needed_header_size[i] > 0 THEN agent_needed_header_size[i]
      ELSE HeaderLen + buffered_packet[i][p].host_sent_size

(* The reads of one call get what the kernel has of the rest of the packet.*)
Readable(i) == Lesser(avail[i], PacketLen - Progress(i))
Reached(i) == Progress(i) + Readable(i)

(* recv takes n units of the stream of socket i.                           *)
Take(i, n) ==
  /\ avail' = [avail EXCEPT ![i] = @ - n]
  /\ taken' = [taken EXCEPT ![i] = (@ + n) % PacketLen]
  /\ inq' = IF taken[i] + n = PacketLen THEN [inq EXCEPT ![i] = Tail(@)] ELSE inq

(* Mutant: counts again on every read of the body.                         *)
CountHeaderAgain(i) ==
  agent_packet_queue_count' =
    IF Reached(i) >= HeaderLen THEN [agent_packet_queue_count EXCEPT ![i] = @ + 1]
    ELSE agent_packet_queue_count

(* The header of the packet in slot p is complete: one packet more waits.  *)
CountHeader(i) ==
  agent_packet_queue_count' =
    IF Progress(i) < HeaderLen /\ Reached(i) >= HeaderLen
    THEN [agent_packet_queue_count EXCEPT ![i] = @ + 1]
    ELSE agent_packet_queue_count

(* Mutant: it counts the header as well.                                   *)
StopAtWithHeader(i, p, n) == [buffered_packet EXCEPT ![i][p].host_sent_size = HeaderLen + n]

(* EAGAIN: remember in slot p how far it got.  What is read into a slot    *)
(* and what is sent of it are counted in the same field.                   *)
StopAt(i, p, n) == [buffered_packet EXCEPT ![i][p].host_sent_size = n]

ReadBlocks(i, p) ==
  /\ Reached(i) < PacketLen
  /\ peer[i] = "open"
  /\ agent_packet_index_in' = [agent_packet_index_in EXCEPT ![i] = p]
  /\ IF Reached(i) < HeaderLen
     THEN /\ agent_needed_header_size' = [agent_needed_header_size EXCEPT ![i] = Reached(i)]
          /\ buffered_packet' = [buffered_packet EXCEPT ![i][p].in_use = TRUE]
     ELSE /\ agent_needed_header_size' = [agent_needed_header_size EXCEPT ![i] = 0]
          /\ buffered_packet' = [StopAt(i, p, Reached(i) - HeaderLen) EXCEPT ![i][p].in_use = TRUE]
  /\ Exit(IF Reached(i) = 0 THEN "weird_false_fire" ELSE "check")
  /\ UNCHANGED closed

(* recv returns 0: the slot is given back only if the header was not       *)
(* complete.                                                               *)
ReadEnds(i, p) ==
  /\ Reached(i) < PacketLen
  /\ peer[i] = "fin"
  /\ agent_packet_index_in' = [agent_packet_index_in EXCEPT ![i] = p]
  /\ agent_needed_header_size' =
       IF Reached(i) < HeaderLen THEN agent_needed_header_size
       ELSE [agent_needed_header_size EXCEPT ![i] = 0]
  /\ buffered_packet' = [buffered_packet EXCEPT ![i][p].in_use = Reached(i) >= HeaderLen]
  /\ Unregister(i, CLOSED, FALSE)

(* recv fails: a reset in the header closes the socket and keeps the slot, *)
(* any other error ends the process.                                       *)
ReadFails(i, p) ==
  /\ Reached(i) < PacketLen
  /\ peer[i] \in Broken
  /\ agent_packet_index_in' = [agent_packet_index_in EXCEPT ![i] = p]
  /\ buffered_packet' = [buffered_packet EXCEPT ![i][p].in_use = TRUE]
  /\ UNCHANGED agent_needed_header_size
  /\ IF Reached(i) < HeaderLen /\ peer[i] = "rst"
     THEN Unregister(i, CLOSED, TRUE)
     ELSE Exit("recv_error") /\ UNCHANGED closed

(* Mutant: one packet too late.                                            *)
FullQueueMaskLate(i, count) == IF count > QueueSize THEN fd_poll[i] \ POLLIN ELSE fd_poll[i]

(* A socket whose queue is full is no longer polled for input ...          *)
FullQueueMask(i, count) == IF count = QueueSize THEN fd_poll[i] \ POLLIN ELSE fd_poll[i]

(* Mutants: the poll is not restored; it is on a closed socket too.        *)
FreedQueueMaskForgotten(i) == fd_poll[i]
FreedQueueMaskOfClosed(i) == fd_poll[i] \union POLLIN

(* ... until one of its packets is with the host.                          *)
FreedQueueMask(i) ==
  IF fd_poll[i] \in {POLLOUT, OFF} THEN fd_poll[i] \union POLLIN ELSE fd_poll[i]

(* Mutant: any packet not sent yet is sent.                                *)
IsNextOrLater(seq) == seq >= recv_seq

IsNext(seq) == seq = recv_seq

(* The packet is complete, and goes to the host or to the table.           *)
ReadPacket(i, p) ==
  LET seq == Head(inq[i])
      next == IF IsNext(seq) THEN "send_data_host" ELSE "check"
  IN  /\ Reached(i) = PacketLen
      /\ agent_packet_index_in' = [agent_packet_index_in EXCEPT ![i] = EMPTY]
      /\ agent_needed_header_size' = [agent_needed_header_size EXCEPT ![i] = 0]
      /\ buffered_packet' = [buffered_packet EXCEPT ![i][p].in_use = TRUE,
                                                    ![i][p].seq_num = seq]
      /\ SetPoll(i, FullQueueMask(i, agent_packet_queue_count'[i]), next)
      /\ IF IsNext(seq)
         THEN /\ agent_packet_index_out' = p
              /\ cursor' = [Idle EXCEPT !.agent_id = i, !.packet_index = p]
              /\ UNCHANGED buffered_packet_table
         ELSE /\ buffered_packet_table' = buffered_packet_table \union {<<i, p>>}
              /\ UNCHANGED <<agent_packet_index_out, cursor>>
      /\ UNCHANGED closed

(* Agent socket i can be read, and is not polled for output with room.     *)
AgentIn(i) ==
  /\ pc = "wait"
  /\ "in" \in epoll[i]
  /\ AgentReadable(i)
  /\ ~("out" \in epoll[i] /\ AgentWritable(i))
  /\ IF agent_packet_index_in[i] = EMPTY /\ FreeSlots(i) = {}
     THEN /\ Exit("no_free_index")
          /\ UNCHANGED <<slot_vars, order_vars, cursor, closed, inbound_vars>>
     ELSE LET p == IF agent_packet_index_in[i] = EMPTY THEN FirstFree(i)
                   ELSE agent_packet_index_in[i]
          IN  /\ Take(i, Readable(i))
              /\ CountHeader(i)
              /\ \/ ReadPacket(i, p)
                 \/ /\ ReadBlocks(i, p) \/ ReadEnds(i, p) \/ ReadFails(i, p)
                    /\ UNCHANGED <<buffered_packet_table, agent_packet_index_out, cursor>>
              /\ UNCHANGED <<in_seq, recv_seq, host_side_agent_id>>
  /\ UNCHANGED <<send_vars, host_vars, peer, outbound_vars>>

-----------------------------------------------------------------------------
(* The host can be written, and is not polled for input with data: go on   *)
(* with the packet that blocked.                                           *)
HostOut ==
  LET i == host_side_agent_id
      p == agent_packet_index_out
  IN  /\ pc = "wait"
      /\ "out" \in epoll[Host]
      /\ HostWritable
      /\ ~("in" \in epoll[Host] /\ HostReadable)
      /\ cursor' = [agent_id |-> i, packet_index |-> p,
                    size_count |-> buffered_packet[i][p].host_sent_size]
      /\ SetPoll(Host, UnblockedMask(Host), "send_data_host")
      /\ UNCHANGED <<closed, send_vars, slot_vars, order_vars, host_vars, peer,
                     inbound_vars, outbound_vars>>

(* Mutant: looked up with the number of the packet just sent.              *)
EarlyOfLast(seq) ==
  {e \in buffered_packet_table : buffered_packet[e[1]][e[2]].seq_num = seq - 1}

(* The slots of the table that hold the packet numbered seq.               *)
Early(seq) ==
  {e \in buffered_packet_table : buffered_packet[e[1]][e[2]].seq_num = seq}

(* The packet in slot p of agent i is with the host.  Its socket is polled *)
(* for input again, and the next packet follows if it was read early.      *)
HostCompletes(i, p) ==
  LET early == Early(recv_seq + 1)
      next == IF early = {} THEN "check" ELSE "send_data_host"
  IN  /\ agent_packet_queue_count' = [agent_packet_queue_count EXCEPT ![i] = @ - 1]
      /\ buffered_packet' = [buffered_packet EXCEPT ![i][p].in_use = FALSE]
      /\ recv_seq' = recv_seq + 1
      /\ SetPoll(i, FreedQueueMask(i), next)
      /\ IF early = {}
         THEN cursor' = Idle /\ UNCHANGED buffered_packet_table
         ELSE \E e \in early :
                /\ buffered_packet_table' = buffered_packet_table \ {e}
                /\ cursor' = [agent_id |-> e[1], packet_index |-> e[2], size_count |-> 0]
      /\ UNCHANGED <<agent_packet_index_out, host_side_agent_id>>

(* One send accepts what fits of the rest of the payload.                  *)
HostAccepts(i, p) ==
  LET n == Lesser(host_room, PayloadLen - cursor.size_count)
      sent == cursor.size_count + n
  IN  /\ host \in {"open", "fin"}
      /\ host_room > 0
      /\ host_room' = host_room - n
      /\ delivered' = delivered \o Chunk(buffered_packet[i][p].seq_num, cursor.size_count, n)
      /\ IF sent = PayloadLen THEN HostCompletes(i, p)
         ELSE /\ cursor' = [cursor EXCEPT !.size_count = sent]
              /\ UNCHANGED <<pc, poll_vars, buffered_packet, agent_packet_queue_count,
                             order_vars>>
      /\ UNCHANGED closed

(* EAGAIN: remember the packet and poll the host for output.               *)
HostBlocks(i, p) ==
  /\ host \in {"open", "fin"}
  /\ host_room = 0
  /\ buffered_packet' = StopAt(i, p, cursor.size_count)
  /\ agent_packet_index_out' = p
  /\ host_side_agent_id' = i
  /\ cursor' = Idle
  /\ IF fd_poll[Host] \in {POLLIN, OFF}
     THEN SetPoll(Host, BlockedMask(Host), "check")
     ELSE Exit("host_not_pollable")
  /\ UNCHANGED <<closed, agent_packet_queue_count, recv_seq, buffered_packet_table,
                 host_room, delivered>>

(* Only ECONNRESET reaches the error branch, EPIPE comes with SIGPIPE.     *)
HostSendFails ==
  /\ host \in {"rst", "pipe", "gone"}
  /\ cursor' = Idle
  /\ IF host = "rst" THEN Unregister(Host, CLOSED, TRUE)
     ELSE Exit("sigpipe") /\ UNCHANGED closed
  /\ UNCHANGED <<buffered_packet, agent_packet_queue_count, order_vars, host_room, delivered>>

SendHost ==
  LET i == cursor.agent_id
      p == cursor.packet_index
  IN  /\ pc = "send_data_host"
      /\ IF Host \in closed
         THEN /\ Exit("send_error")
              /\ UNCHANGED <<closed, cursor, buffered_packet, agent_packet_queue_count,
                             order_vars, host_room, delivered>>
         ELSE HostAccepts(i, p) \/ HostBlocks(i, p) \/ HostSendFails
      /\ UNCHANGED <<send_vars, agent_packet_index_in, agent_needed_header_size, host,
                     host_in, peer, inbound_vars, outbound_vars>>
==============================================================================
