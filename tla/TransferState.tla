---------------------------- MODULE TransferState ----------------------------
(***************************************************************************)
(* The state of one data-transfer process: the child that poll_loop forks  *)
(* for a client once its host socket and all its parallel agent sockets    *)
(* are connected.  It relays between one host connection and a set of      *)
(* agent connections.  The variables are the fields of client_struct       *)
(* (datatypes.h) that the transfer uses, plus what the kernel keeps for    *)
(* the process: the interest list of client_event_pool and, per socket,    *)
(* what can be read from it, how much room it has for writing, and what    *)
(* its peer has done to it.                                                *)
(*                                                                         *)
(* Data is abstracted to units.  A packet on an agent socket is HeaderLen  *)
(* units of length word, one unit of sequence number and PayloadLen units  *)
(* that the host sees; every packet has that length.                       *)
(***************************************************************************)
EXTENDS Integers, Sequences, FiniteSets

CONSTANTS
  Agents,      \* the parallel connections, agent_sock[0 ..]
  Host,        \* the host connection, host_sock
  QueueSize,   \* transfer_request->queue_size
  HeaderLen,   \* units of the packet header, sizeof(uint32_t)
  PayloadLen,  \* units of a packet that reach the host
  SndBuf,      \* units the kernel buffers for writes to an agent socket
  RcvBuf,      \* units the kernel buffers for reads from an agent socket
  HostBuf      \* units the kernel buffers for writes to the host socket

EMPTY == -1

ASSUME TransferAssumption ==
  /\ Host \notin Agents
  /\ EMPTY \notin Agents
  /\ IsFiniteSet(Agents)
  /\ {QueueSize, HeaderLen, PayloadLen, SndBuf, RcvBuf, HostBuf} \subseteq Nat \ {0}

Fds == Agents \union {Host}
Slots == 0 .. QueueSize - 1
PacketLen == HeaderLen + 1 + PayloadLen

(* The poll state the code caches in host_fd_poll and agent_fd_poll[i], as *)
(* a set of flags: `x & IN' in the code is "in" \in x here.                *)
OFF == {}
POLLIN == {"in"}
POLLOUT == {"out"}
INAndOut == {"in", "out"}
CLOSED == {"closed"}
PollStates == {OFF, POLLIN, POLLOUT, INAndOut, CLOSED}

(* Where the process is in its loop, or how it ended: "closed" is the      *)
(* orderly end, the others name the error branch that called exit(1), or   *)
(* the signal: nothing ignores SIGPIPE, so a send that meets EPIPE kills.  *)
Running == {"check", "wait", "read_host_send_agent", "send_agent", "send_data_host"}
Fatal == {"epoll_ctl", "epoll_err", "should_not_have_gotten_here", "no_free_index",
          "weird_false_fire", "host_not_pollable", "recv_error", "send_error", "sigpipe"}
Exits == Fatal \union {"closed"}

(* What a peer did to its end: it may close it ("fin"), or reset it, which *)
(* the next call here reports as ECONNRESET ("rst"), or as EPIPE when the  *)
(* peer had closed before ("pipe").  "gone": the error has been reported.  *)
PeerStates == {"open", "fin", "rst", "pipe", "gone"}

VARIABLES
  pc,
  fd_poll,       \* host_fd_poll (at Host) and agent_fd_poll[i]
  packet,        \* packet[i], the packet being written to agent socket i
  send_seq,
  recv_seq,
  buffered_packet,           \* per agent, queue_size slots for packets read
  buffered_packet_table,     \* the packets read early, found by seq_num
  agent_packet_index_in,     \* the slot being filled from socket i
  agent_needed_header_size,  \* header units read so far, 0 outside a header
  agent_packet_queue_count,
  agent_packet_index_out,    \* slot of the packet host_sock blocked on ...
  host_side_agent_id,        \* ... and its agent, host_side_event_info.agent_id
  cursor,        \* locals of the handler that runs: agent_id, packet_index, size_count
  epoll,         \* interest list of client_event_pool, {} when not in it
  closed,        \* descriptors the process has closed
  host,          \* what the host did to its end, in PeerStates
  host_in,       \* chunks the host wrote that were not read yet
  host_room,     \* room in the send buffer of the host socket
  delivered,     \* units given to the host, as <<seq, offset>>
  peer,          \* what the remote agent did to its end of socket i
  in_seq,        \* packets the remote agent has numbered so far
  inq,           \* their sequence numbers, on socket i, not read completely
  taken,         \* units of Head(inq[i]) that were read
  avail,         \* units of inq[i] that can be read now
  room,          \* room in the send buffer of agent socket i
  wire           \* units accepted by agent socket i, as <<seq, offset>>

send_vars == <<packet, send_seq>>
slot_vars == <<buffered_packet, agent_packet_index_in, agent_needed_header_size,
               agent_packet_queue_count>>
order_vars == <<recv_seq, buffered_packet_table, agent_packet_index_out,
                host_side_agent_id>>
poll_vars == <<fd_poll, epoll>>
host_vars == <<host, host_in, host_room, delivered>>
inbound_vars == <<in_seq, inq, taken, avail>>
outbound_vars == <<room, wire>>
vars == <<pc, cursor, send_vars, slot_vars, order_vars, poll_vars, closed,
          host_vars, peer, inbound_vars, outbound_vars>>

PacketState == [host_packet_size : {0, PacketLen}, host_sent_size : 0 .. PacketLen,
                seq : Nat]
SlotState == [in_use : BOOLEAN, seq_num : Nat, host_sent_size : 0 .. PayloadLen]
Cursor == [agent_id : Agents \union {EMPTY}, packet_index : Slots,
           size_count : 0 .. PacketLen]
Idle == [agent_id |-> EMPTY, packet_index |-> 0, size_count |-> 0]
Units == Seq(Nat \X Nat)

(* Every variable has the type its declaration in datatypes.h gives it,    *)
(* with the poll state and the process state among the named values; what  *)
(* is read or sent of a packet never exceeds it, and the kernel's counts   *)
(* stay within its buffers.  One conjunct for each tuple above.            *)
ControlTypes ==
  /\ pc \in Running \union Exits
  /\ cursor \in Cursor
  /\ closed \subseteq Fds

PollTypes ==
  /\ fd_poll \in [Fds -> PollStates]
  /\ epoll \in [Fds -> SUBSET {"in", "out"}]

SendTypes ==
  /\ packet \in [Agents -> PacketState]
  /\ send_seq \in Nat

SlotTypes ==
  /\ buffered_packet \in [Agents -> [Slots -> SlotState]]
  /\ agent_packet_index_in \in [Agents -> Slots \union {EMPTY}]
  /\ agent_needed_header_size \in [Agents -> 0 .. HeaderLen - 1]
  /\ agent_packet_queue_count \in [Agents -> Int]

OrderTypes ==
  /\ recv_seq \in Nat
  /\ buffered_packet_table \subseteq Agents \X Slots
  /\ agent_packet_index_out \in Slots
  /\ host_side_agent_id \in Agents \union {EMPTY}

HostTypes ==
  /\ host \in PeerStates
  /\ host_in \in Nat
  /\ host_room \in 0 .. HostBuf
  /\ delivered \in Units

InboundTypes ==
  /\ in_seq \in Nat
  /\ inq \in [Agents -> Seq(Nat)]
  /\ taken \in [Agents -> 0 .. PacketLen - 1]
  /\ avail \in [Agents -> 0 .. RcvBuf]

OutboundTypes ==
  /\ room \in [Agents -> 0 .. SndBuf]
  /\ wire \in [Agents -> Units]

TypeOK ==
  /\ ControlTypes /\ PollTypes /\ SendTypes /\ SlotTypes /\ OrderTypes
  /\ HostTypes /\ InboundTypes /\ OutboundTypes
  /\ peer \in [Agents -> PeerStates]

(* configure_poll, on sockets just connected.  The fields malloc leaves    *)
(* unset (host_sent_size, seq_num) are written before they are read.       *)
Init ==
  /\ pc = "check"
  /\ cursor = Idle
  /\ fd_poll = [f \in Fds |-> POLLIN]
  /\ packet = [i \in Agents |-> [host_packet_size |-> 0, host_sent_size |-> 0, seq |-> 0]]
  /\ send_seq = 0
  /\ recv_seq = 0
  /\ buffered_packet = [i \in Agents |-> [p \in Slots |->
       [in_use |-> FALSE, seq_num |-> 0, host_sent_size |-> 0]]]
  /\ buffered_packet_table = {}
  /\ agent_packet_index_in = [i \in Agents |-> EMPTY]
  /\ agent_needed_header_size = [i \in Agents |-> 0]
  /\ agent_packet_queue_count = [i \in Agents |-> 0]
  /\ agent_packet_index_out = 0
  /\ host_side_agent_id = EMPTY
  /\ epoll = [f \in Fds |-> POLLIN]
  /\ closed = {}
  /\ host = "open"
  /\ host_in = 0
  /\ host_room = HostBuf
  /\ delivered = <<>>
  /\ peer = [i \in Agents |-> "open"]
  /\ in_seq = 0
  /\ inq = [i \in Agents |-> <<>>]
  /\ taken = [i \in Agents |-> 0]
  /\ avail = [i \in Agents |-> 0]
  /\ room = [i \in Agents |-> SndBuf]
  /\ wire = [i \in Agents |-> <<>>]

-----------------------------------------------------------------------------
(* The kernel, as the process meets it.                                    *)

Lesser(a, b) == IF a < b THEN a ELSE b

(* n units of the packet numbered seq, from offset from.                   *)
Chunk(seq, from, n) == [k \in 1 .. n |-> <<seq, from + k - 1>>]

(* Level-triggered readiness; a reset makes a socket ready for everything. *)
Broken == {"rst", "pipe"}
HostReadable == host_in > 0 \/ host # "open"
HostWritable == host_room > 0 \/ host \in Broken
AgentReadable(i) == avail[i] > 0 \/ peer[i] # "open"
AgentWritable(i) == room[i] > 0 \/ peer[i] \in Broken

(* One epoll_ctl to bring f to a new mask: DEL when the mask is empty, ADD *)
(* when the cached one is OFF, MOD otherwise.  It fails on a descriptor    *)
(* that is closed, and when DEL or MOD meets one that is not registered.   *)
CtlSucceeds(f, mask) ==
  IF fd_poll[f] = OFF /\ mask \notin {OFF, CLOSED}
  THEN f \notin closed /\ epoll[f] = {}
  ELSE epoll[f] # {}

(* The masks become new, by one epoll_ctl for each that changes; the code  *)
(* calls exit(1) when one fails and goes on to next otherwise.             *)
EpollCtl(new, next) ==
  IF \A f \in Fds : new[f] # fd_poll[f] => CtlSucceeds(f, new[f])
  THEN /\ fd_poll' = new
       /\ epoll' = [f \in Fds |-> IF new[f] = fd_poll[f] THEN epoll[f]
                                  ELSE new[f] \ CLOSED]
       /\ pc' = next
  ELSE pc' = "epoll_ctl" /\ UNCHANGED poll_vars

SetPoll(f, mask, next) == EpollCtl([fd_poll EXCEPT ![f] = mask], next)

(* Mutants: one of the two is forgotten.                                   *)
BlockedMaskForgotten(f) == fd_poll[f]
UnblockedMaskForgotten(f) == fd_poll[f]

(* A socket that blocked is polled for output as well, one that is resumed *)
(* no longer is.                                                           *)
BlockedMask(f) == IF fd_poll[f] \in {POLLIN, OFF} THEN fd_poll[f] \union POLLOUT ELSE fd_poll[f]
UnblockedMask(f) == fd_poll[f] \ POLLOUT

(* Mutant: the cached mask is left as it was.                              *)
UnregisterUncached(f, mask, shut) ==
  /\ epoll' = [epoll EXCEPT ![f] = {}]
  /\ closed' = IF shut THEN closed \union {f} ELSE closed
  /\ pc' = "check"
  /\ UNCHANGED fd_poll

(* EPOLL_CTL_DEL on f, whatever its cached state, which becomes mask; then *)
(* close(f) when shut holds.                                               *)
Unregister(f, mask, shut) ==
  IF epoll[f] # {}
  THEN /\ fd_poll' = [fd_poll EXCEPT ![f] = mask]
       /\ epoll' = [epoll EXCEPT ![f] = {}]
       /\ closed' = IF shut THEN closed \union {f} ELSE closed
       /\ pc' = "check"
  ELSE pc' = "epoll_ctl" /\ UNCHANGED <<poll_vars, closed>>

Exit(how) == pc' = how /\ UNCHANGED poll_vars
==============================================================================
