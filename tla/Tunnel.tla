------------------------------- MODULE Tunnel -------------------------------
(***************************************************************************)
(* Two transfer processes back to back: the child of one agent (West, the  *)
(* variables of DataTransfer) and the child of the other (East, the same   *)
(* variables with the prefix e_), joined by their parallel connections.    *)
(* Each is the remote agent of the other, which DataTransfer only assumes: *)
(* here the packets that East parses are those that West wrote, and its    *)
(* sockets close when West closes them.                                    *)
(*                                                                         *)
(* The hosts are the environment.  No connection fails by itself: a reset  *)
(* is the answer to a socket that was closed with data unread.             *)
(***************************************************************************)
EXTENDS DataTransfer

CONSTANT EastMayClose  \* MayClose of East: its host, or nothing, and the agents

ASSUME TunnelAssumption == EastMayClose \subseteq Fds

VARIABLES
  e_pc, e_fd_poll, e_packet, e_send_seq, e_recv_seq, e_buffered_packet,
  e_buffered_packet_table, e_agent_packet_index_in, e_agent_needed_header_size,
  e_agent_packet_queue_count, e_agent_packet_index_out, e_host_side_agent_id,
  e_cursor, e_epoll, e_closed, e_host, e_host_in, e_host_room, e_delivered,
  e_peer, e_in_seq, e_inq, e_taken, e_avail, e_room, e_wire

East == INSTANCE DataTransfer WITH
  OutChunks <- InPackets, InPackets <- OutChunks, MayClose <- EastMayClose,
  pc <- e_pc, fd_poll <- e_fd_poll, packet <- e_packet, send_seq <- e_send_seq,
  recv_seq <- e_recv_seq, buffered_packet <- e_buffered_packet,
  buffered_packet_table <- e_buffered_packet_table,
  agent_packet_index_in <- e_agent_packet_index_in,
  agent_needed_header_size <- e_agent_needed_header_size,
  agent_packet_queue_count <- e_agent_packet_queue_count,
  agent_packet_index_out <- e_agent_packet_index_out,
  host_side_agent_id <- e_host_side_agent_id,
  cursor <- e_cursor, epoll <- e_epoll, closed <- e_closed, host <- e_host,
  host_in <- e_host_in, host_room <- e_host_room, delivered <- e_delivered,
  peer <- e_peer, in_seq <- e_in_seq, inq <- e_inq, taken <- e_taken,
  avail <- e_avail, room <- e_room, wire <- e_wire

e_process_vars ==
  <<e_pc, e_cursor, e_packet, e_send_seq, e_buffered_packet, e_agent_packet_index_in,
    e_agent_needed_header_size, e_agent_packet_queue_count, e_recv_seq,
    e_buffered_packet_table, e_agent_packet_index_out, e_host_side_agent_id,
    e_fd_poll, e_epoll, e_closed>>
e_host_vars == <<e_host, e_host_in, e_host_room, e_delivered>>
e_inbound_vars == <<e_in_seq, e_inq, e_taken, e_avail>>
e_vars == <<e_process_vars, e_host_vars, e_peer, e_inbound_vars, e_room, e_wire>>
tunnel_vars == <<vars, e_vars>>

TunnelInit == Init /\ East!Init

-----------------------------------------------------------------------------
(* A process that ends closes its sockets.                                 *)
WestShut == IF pc \in Exits THEN Agents ELSE closed \intersect Agents
EastShut == IF e_pc \in Exits THEN Agents ELSE e_closed \intersect Agents

ToEast == INSTANCE Link WITH
  unread <- avail, shut <- WestShut, gone <- EastShut,
  avail <- e_avail, peer <- e_peer, back <- e_room
ToWest == INSTANCE Link WITH
  room <- e_room, unread <- e_avail, shut <- EastShut, gone <- WestShut,
  back <- room

CarryEast ==
  /\ ToEast!Step
  /\ UNCHANGED <<process_vars, host_vars, peer, inbound_vars, wire>>
  /\ UNCHANGED <<e_process_vars, e_host_vars, e_in_seq, e_inq, e_taken,
                 e_room, e_wire>>

CarryWest ==
  /\ ToWest!Step
  /\ UNCHANGED <<e_process_vars, e_host_vars, e_peer, e_inbound_vars, e_wire>>
  /\ UNCHANGED <<process_vars, host_vars, in_seq, inq, taken, outbound_vars>>

(* A packet that one process numbers for its socket i is one that the      *)
(* other will find on its socket i.                                        *)
WestReads(i) ==
  /\ RecvHost(i)
  /\ e_in_seq' = send_seq'
  /\ e_inq' = IF send_seq' = send_seq THEN e_inq
              ELSE [e_inq EXCEPT ![i] = Append(@, send_seq)]
  /\ UNCHANGED <<e_process_vars, e_host_vars, e_peer, e_taken, e_avail,
                 e_room, e_wire>>

EastReads(i) ==
  /\ East!RecvHost(i)
  /\ in_seq' = e_send_seq'
  /\ inq' = IF e_send_seq' = e_send_seq THEN inq
            ELSE [inq EXCEPT ![i] = Append(@, e_send_seq)]
  /\ UNCHANGED <<process_vars, host_vars, peer, taken, avail, outbound_vars>>

West(A) == A /\ UNCHANGED e_vars
InEast(A) == A /\ UNCHANGED vars

WestHandler ==
  \/ West(CheckClosed) \/ West(HostIn) \/ West(Inbound)
  \/ \E i \in Agents : \/ WestReads(i)
                       \/ West(AgentOut(i)) \/ West(ResumeSend(i)) \/ West(SendAgent(i))

EastHandler ==
  \/ InEast(East!CheckClosed) \/ InEast(East!HostIn) \/ InEast(East!Inbound)
  \/ \E i \in Agents : \/ EastReads(i)
                       \/ InEast(East!AgentOut(i)) \/ InEast(East!ResumeSend(i))
                       \/ InEast(East!SendAgent(i))

Hosts == West(HostSide) \/ InEast(East!HostSide)

TunnelNext == WestHandler \/ EastHandler \/ CarryEast \/ CarryWest \/ Hosts

TunnelSpec == TunnelInit /\ [][TunnelNext]_tunnel_vars

-----------------------------------------------------------------------------
(* Units West wrote to socket i that East has not read.                    *)
Unread(i) == SndBuf - room[i] + e_avail[i]

(* What the parser of one process takes off a socket is what the other put *)
(* there: the next unit East reads is the one DataTransfer says it is, the *)
(* header, number or payload of the packet due on that socket              *)
(* (network.c:958-1051 against 1086-1243).                                 *)
ParserSeesWire ==
  \A i \in Agents : e_avail[i] > 0 =>
    wire[i][Len(wire[i]) - Unread(i) + 1] = <<Head(e_inq[i]), e_taken[i]>>

(* From host to host the two processes are a byte stream: what the East    *)
(* host gets is a prefix of what the West host wrote, whatever the sockets *)
(* reorder, cut and block and however either end closes                    *)
(* (network.c:849-1051, 1069-1491).                                        *)
Stream == INSTANCE OrderedStream WITH
  sent <- (send_seq + host_in) * PayloadLen,
  got <- [k \in DOMAIN e_delivered |-> e_delivered[k][1] * PayloadLen + e_delivered[k][2]]
TunnelIsStream == Stream!Spec

(* One way only: the East host writes nothing and leaves the end to West,  *)
(* whose host closes if it likes but does not reset its connection.        *)
Eastward ==
  /\ e_send_seq + e_host_in = 0 /\ e_host = "open"
  /\ host \in {"open", "fin"}

(* The end of the stream is the end of the data: East shuts its host down  *)
(* on its own account only when the host has everything that the West host *)
(* wrote before it closed (poll.c:372-412 on both sides).                  *)
EndOfStreamIsComplete ==
  e_pc = "closed" /\ e_fd_poll[Host] # CLOSED =>
    host # "open" /\ Len(e_delivered) = (send_seq + host_in) * PayloadLen

(* West is a remote agent as DataTransfer assumes it to be for East: it    *)
(* numbers its packets in turn, writes them whole, and closes a socket     *)
(* only between two of them (network.c:1039-1051; poll.c:374-386).         *)
EastIsDataTransfer == East!Spec

=============================================================================
