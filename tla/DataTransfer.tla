---------------------------- MODULE DataTransfer ----------------------------
(***************************************************************************)
(* poll_data_transfer: the loop of a data-transfer process.  Each turn     *)
(* checks whether the transfer is over, waits for one event and runs its   *)
(* handler.  The host, the remote agent and the network are the            *)
(* environment.                                                            *)
(*                                                                         *)
(* Not modelled: EINTR and the statistics alarm (which send a datagram and *)
(* change only counters), and SIGINT, whose handler is never installed.    *)
(***************************************************************************)
EXTENDS HostToAgent, AgentToHost

CONSTANTS
  OutChunks,   \* bound on the chunks the host writes
  InPackets,   \* bound on the packets the remote agent sends
  MayClose,    \* the sockets whose peer may close its end
  MayReset,    \* the sockets whose peer may reset the connection
  MayCut       \* the agent sockets that may be closed in the middle of a packet

ASSUME DataTransferAssumption ==
  /\ {OutChunks, InPackets} \subseteq Nat
  /\ MayClose \subseteq Fds
  /\ MayReset \subseteq Fds
  /\ MayCut \subseteq Agents

(* Mutants: slots still in use are not looked at; a pending packet does    *)
(* not keep its socket.                                                    *)
InUseIgnored == FALSE
ClosableAll == Agents

(* The top of the loop.  Once the host is gone the agent sockets without a *)
(* pending packet are closed; once the agents are gone and every slot is   *)
(* free the host socket is.                                                *)
InUse == \E i \in Agents, p \in Slots : buffered_packet[i][p].in_use

Closable == {i \in Agents : ~Pending(i)}

CheckClosed ==
  LET done == Closable
      all_closed == IF fd_poll[Host] = CLOSED
                    THEN \A i \in Agents \ done : fd_poll[i] = CLOSED
                    ELSE ~InUse /\ \A i \in Agents : fd_poll[i] = CLOSED
      shut == IF fd_poll[Host] = CLOSED THEN done ELSE IF all_closed THEN {Host} ELSE {}
  IN  /\ pc = "check"
      /\ pc' = IF all_closed THEN "closed" ELSE "wait"
      /\ fd_poll' = [f \in Fds |-> IF f \in shut \ {Host} THEN CLOSED ELSE fd_poll[f]]
      /\ epoll' = [f \in Fds |-> IF f \in shut THEN {} ELSE epoll[f]]
      /\ closed' = closed \union shut
      /\ UNCHANGED <<cursor, send_vars, slot_vars, order_vars, host_vars, peer,
                     inbound_vars, outbound_vars>>

-----------------------------------------------------------------------------
(* The environment, while the process runs.  The remote agent does not     *)
(* know when it has ended: it goes on filling and emptying its ends.       *)

Alive == pc \in Running
process_vars == <<pc, cursor, send_vars, slot_vars, order_vars, poll_vars, closed>>

HostWrites ==
  /\ Alive
  /\ host = "open"
  /\ send_seq + host_in < OutChunks
  /\ host_in' = host_in + 1
  /\ UNCHANGED <<process_vars, host, host_room, delivered, peer, inbound_vars, outbound_vars>>

(* The host takes a unit from its receive buffer.                          *)
HostReads ==
  /\ Alive
  /\ host \in {"open", "fin"}
  /\ host_room < HostBuf
  /\ host_room' = host_room + 1
  /\ UNCHANGED <<process_vars, host, host_in, delivered, peer, inbound_vars, outbound_vars>>

HostCloses ==
  /\ Alive
  /\ Host \in MayClose
  /\ host = "open"
  /\ host' = "fin"
  /\ UNCHANGED <<process_vars, host_in, host_room, delivered, peer, inbound_vars,
                 outbound_vars>>

HostResets ==
  /\ Alive
  /\ Host \in MayReset
  /\ host \in {"open", "fin"}
  /\ host' = IF host = "open" THEN "rst" ELSE "pipe"
  /\ UNCHANGED <<process_vars, host_in, host_room, delivered, peer, inbound_vars,
                 outbound_vars>>

(* Units of inq[i] that have not arrived.                                  *)
InFlight(i) == Len(inq[i]) * PacketLen - taken[i] - avail[i]

(* The remote agent numbers a packet and commits it to socket i.           *)
RemoteSends(i) ==
  /\ in_seq < InPackets
  /\ peer[i] = "open"
  /\ inq' = [inq EXCEPT ![i] = Append(@, in_seq)]
  /\ in_seq' = in_seq + 1
  /\ UNCHANGED <<process_vars, host_vars, peer, taken, avail, outbound_vars>>

(* A unit of the stream of socket i arrives.                               *)
Arrive(i) ==
  /\ Alive
  /\ peer[i] = "open"
  /\ InFlight(i) > 0
  /\ avail[i] < RcvBuf
  /\ avail' = [avail EXCEPT ![i] = @ + 1]
  /\ UNCHANGED <<process_vars, host_vars, peer, in_seq, inq, taken, outbound_vars>>

(* The remote agent takes a unit from its end of socket i.                 *)
Drain(i) ==
  /\ peer[i] = "open"
  /\ room[i] < SndBuf
  /\ room' = [room EXCEPT ![i] = @ + 1]
  /\ UNCHANGED <<process_vars, host_vars, peer, inbound_vars, wire>>

RemoteCloses(i) ==
  /\ Alive
  /\ i \in MayClose
  /\ peer[i] = "open"
  /\ InFlight(i) = 0 \/ i \in MayCut
  /\ peer' = [peer EXCEPT ![i] = "fin"]
  /\ UNCHANGED <<process_vars, host_vars, inbound_vars, outbound_vars>>

RemoteResets(i) ==
  /\ Alive
  /\ i \in MayReset
  /\ peer[i] \in {"open", "fin"}
  /\ peer' = [peer EXCEPT ![i] = IF @ = "open" THEN "rst" ELSE "pipe"]
  /\ UNCHANGED <<process_vars, host_vars, inbound_vars, outbound_vars>>

-----------------------------------------------------------------------------
Outbound == HostIn \/ \E i \in Agents : AgentOut(i) \/ RecvHost(i) \/ ResumeSend(i) \/ SendAgent(i)
Inbound == HostOut \/ SendHost \/ \E i \in Agents : AgentIn(i)
HostSide == HostWrites \/ HostReads \/ HostCloses \/ HostResets
RemoteSide == \E i \in Agents : \/ RemoteSends(i) \/ Arrive(i) \/ Drain(i)
                                \/ RemoteCloses(i) \/ RemoteResets(i)

(* A process that has ended stays as it is.                                *)
Ended == pc \in Exits /\ UNCHANGED vars

Next == CheckClosed \/ Outbound \/ Inbound \/ HostSide \/ RemoteSide \/ Ended

Spec == Init /\ [][Next]_vars

(* A running process takes its next step.  epoll_wait asks for one event   *)
(* at a time and the kernel puts a socket it has reported at the end of    *)
(* its ready list, so a socket that is ready again and again is reported   *)
(* again and again.  The host goes on reading, the network goes on         *)
(* carrying data both ways; nobody has to write or to close.               *)
Fairness ==
  /\ WF_vars(CheckClosed)
  /\ WF_vars(SendHost)
  /\ SF_vars(HostIn)
  /\ SF_vars(HostOut)
  /\ WF_vars(HostReads)
  /\ \A i \in Agents :
       /\ WF_vars(RecvHost(i))
       /\ WF_vars(ResumeSend(i))
       /\ WF_vars(SendAgent(i))
       /\ SF_vars(AgentIn(i))
       /\ SF_vars(AgentOut(i))
       /\ WF_vars(Arrive(i))
       /\ WF_vars(Drain(i))

FairSpec == Spec /\ Fairness

-----------------------------------------------------------------------------
(* Safety.                                                                 *)

InLoop == pc \in {"check", "wait"}

(* No lost wakeup on output: in the loop, an agent socket with a pending   *)
(* packet is polled for output unless its peer or the process closed it    *)
(* (network.c:966-1012; poll.c:320-345 must not take it away).             *)
PendingPolled ==
  InLoop => \A i \in Agents :
    Pending(i) => "out" \in epoll[i] \/ fd_poll[i] = CLOSED \/ i \in closed

(* No lost wakeup on input: in the loop, while the next packet for the     *)
(* host is due on a socket that is not closed, that socket is polled for   *)
(* input, however many packets wait behind the gap (network.c:1262-1287    *)
(* drops the poll, 1438-1465 restores it).  Otherwise the queues of all    *)
(* sockets fill behind a packet that nobody reads.                         *)
NextPacketPolled ==
  InLoop => \A i \in Agents :
    inq[i] # <<>> /\ Head(inq[i]) = recv_seq /\ fd_poll[i] # CLOSED /\ i \notin closed
      => "in" \in epoll[i]

(* While the host socket is polled for output, the next packet is in the   *)
(* slot that send_data_host will resume, and it resumes where the host's   *)
(* copy ends (network.c:1318-1345, 1358-1400): host_sent_size counted the  *)
(* bytes received before it counted the bytes sent.  (That it is polled    *)
(* then is NextPacketHandled.)                                             *)
BlockedPacketIsNext ==
  "out" \in fd_poll[Host] =>
    /\ host_side_agent_id \in Agents
    /\ LET s == buffered_packet[host_side_agent_id][agent_packet_index_out]
       IN  /\ s.in_use
           /\ s.seq_num = recv_seq
           /\ Len(delivered) = recv_seq * PayloadLen + s.host_sent_size

(* The next packet never waits unnoticed: in the loop, once it has been    *)
(* read it is because the host socket is full, and that is polled for      *)
(* output; the table never holds it (network.c:1288-1305, 1471-1490;       *)
(* poll.c:230-247 must not take that poll away).                           *)
Read(i, p) == buffered_packet[i][p].in_use /\ agent_packet_index_in[i] # p
NextPacketHandled ==
  InLoop /\ fd_poll[Host] # CLOSED =>
    \A i \in Agents, p \in Slots :
      Read(i, p) /\ buffered_packet[i][p].seq_num = recv_seq =>
        "out" \in epoll[Host] /\ <<i, p>> \notin buffered_packet_table

(* agent_packet_queue_count[i] is the number of slots that hold a packet   *)
(* whose header is complete: three functions maintain it and the in_use    *)
(* flags apart (network.c:1057, 1156, 1180, 1432-1435).                    *)
SlotAccounting ==
  \A i \in Agents : pc \notin Fatal /\ i \notin closed =>
    agent_packet_queue_count[i] =
      Cardinality({p \in Slots \ FreeSlots(i) :
                     p # agent_packet_index_in[i] \/ agent_needed_header_size[i] = 0})

(* A socket is polled for input only while it has a slot to read into:     *)
(* network.c:1096-1099 ends the process otherwise ("I SHOULDNT HAVE BEEN   *)
(* TRIGGERED", and 1123-1128 "Weird false fire").                          *)
NeverTriggeredInVain == pc \notin {"no_free_index", "weird_false_fire"}

(* The parser stays in step with the stream: what the code remembers of a  *)
(* packet read in part, in one of three fields, is what it took from the   *)
(* socket (network.c:1086-1102, 1134-1140, 1202-1221).                     *)
FramingInStep ==
  \A i \in Agents :
    pc \notin Fatal /\ fd_poll[i] # CLOSED /\ i \notin closed => Progress(i) = taken[i]

(* What the host got is a prefix of what the other host sent: every unit   *)
(* once, in order, across all sockets (network.c:1288-1305, 1346-1490).    *)
InOrderDelivery ==
  \A k \in 1 .. Len(delivered) :
    delivered[k] = <<(k - 1) \div PayloadLen, (k - 1) % PayloadLen>>

(* The transfer implements a byte stream from the remote host to the host, *)
(* however its packets are spread over the agent sockets, reordered and    *)
(* cut: the units of the packets that the remote agent numbered are what   *)
(* is written, what the host gets is what is read.                         *)
Inward == INSTANCE OrderedStream WITH
  sent <- in_seq * PayloadLen,
  got <- [k \in DOMAIN delivered |-> delivered[k][1] * PayloadLen + delivered[k][2]]
ImplementsStream == Inward!Spec

(* Each agent socket carries whole packets, one after the other, with      *)
(* numbers that increase: the remote parser depends on it.  A packet that  *)
(* blocked is resumed before another is started (network.c:855, 920-957).  *)
FramesContiguous ==
  \A i \in Agents : \A k \in 1 .. Len(wire[i]) :
    /\ wire[i][k][2] = (k - 1) % PacketLen
    /\ k > 1 => IF wire[i][k][2] = 0 THEN wire[i][k][1] > wire[i][k - 1][1]
                ELSE wire[i][k][1] = wire[i][k - 1][1]

(* No chunk the process read from the host is lost or sent twice: its last *)
(* unit is on exactly one socket, or it is the pending packet of exactly   *)
(* one (network.c:913, 1048; poll.c:466-485 picks the socket).             *)
Carried(seq, i) == \E k \in 1 .. Len(wire[i]) : wire[i][k] = <<seq, PacketLen - 1>>
OutboundConservation ==
  \A seq \in 0 .. send_seq - 1 :
    Cardinality({i \in Agents : Carried(seq, i)})
      + Cardinality({i \in Agents : Pending(i) /\ packet[i].seq = seq}) = 1

(* The orderly end loses nothing.  When the remote agent closed first, the *)
(* host has every packet that arrived; when the host closed first and no   *)
(* agent did, every chunk it wrote is on a socket (poll.c:372-412).        *)
OrderlyEnd ==
  pc = "closed" =>
    /\ fd_poll[Host] # CLOSED /\ (\A i \in Agents : InFlight(i) = 0)
         => Len(delivered) = in_seq * PayloadLen
    /\ fd_poll[Host] = CLOSED /\ host = "fin" /\ (\A i \in Agents : peer[i] = "open")
         => host_in = 0 /\ \A i \in Agents : ~Pending(i)

(* No connection was reset, and none of the agents' closed in the middle   *)
(* of a packet.                                                            *)
Unharmed ==
  /\ host \in {"open", "fin"}
  /\ \A i \in Agents : peer[i] = "open" \/ (peer[i] = "fin" /\ InFlight(i) = 0)

(* As long as that is so one error branch alone can run, whoever closes    *)
(* and when: every other exit(1) of the loop is for a socket that failed   *)
(* (network.c:849-1491, poll.c:225-569).  That one is in send_data_host:   *)
(* the host has shut down its sending side while a packet for the remote   *)
(* agent is pending, and then does not take the next packet whole, which   *)
(* the code has no mask for (network.c:1358-1394).                         *)
NoFatalExit ==
  Unharmed /\ pc \in Fatal =>
    /\ pc = "host_not_pollable"
    /\ host = "fin" /\ fd_poll[Host] = CLOSED
    /\ \E i \in Agents : Pending(i)

-----------------------------------------------------------------------------
(* Liveness, under FairSpec.                                               *)

(* Every packet the remote agent numbers reaches the host, whatever the    *)
(* order of arrival and however full the queues, unless the host closed:   *)
(* ClosesEmptySockets says what happens then (network.c:1069-1491).        *)
InboundDelivered ==
  \A n \in 1 .. InPackets : (in_seq >= n) ~> (recv_seq >= n \/ host # "open")

(* The host is not polled and no agent socket will bring it back, after a  *)
(* packet blocked on every one of them.                                    *)
HostDeaf ==
  /\ "in" \notin epoll[Host]
  /\ \A i \in Agents : /\ ~Pending(i)
                       /\ "out" \notin epoll[i]
                       /\ packet[i].host_sent_size > 0

(* Every chunk the host writes is sent whole, unless the host is deaf: the *)
(* stall of PollinComesBack is the only one (poll.c:428-485).              *)
SentWhole(n) == send_seq >= n /\ \A i \in Agents : Pending(i) => packet[i].seq >= n
OutboundSent ==
  \A n \in 1 .. OutChunks : (send_seq + host_in >= n) ~> (SentWhole(n) \/ HostDeaf)

(* Once the host has closed the process ends, unless the host is deaf      *)
(* (poll.c:372-386, 406-412).                                              *)
EndsAfterHost == (host = "fin") ~> (pc \in Exits \/ HostDeaf)

(* Once the remote agent has closed all its sockets, and sent all it began *)
(* to send, the process ends, with the host still open: every slot is      *)
(* emptied first (poll.c:388-412).                                         *)
EndsAfterAgents ==
  ((\A i \in Agents : peer[i] = "fin") /\ Unharmed) ~> (pc \in Exits)

(* poll.c:219-221 says of all_agents_socks_full that agent sockets are     *)
(* polled for output "to let us know when it unblocks", poll.c:284 that    *)
(* "we add pollin back to host_fd because we can send again".              *)
PollinComesBack == (fd_poll[Host] = OFF) ~> (fd_poll[Host] # OFF)

(* poll.c:368-370 says of the top of the loop that it goes "through        *)
(* parallel sockets and check if they have data. If not close them": a     *)
(* socket that it closes has nothing left to read and nothing queued.      *)
ClosesEmptySockets ==
  [][\A i \in Agents : pc = "check" /\ i \in closed' \ closed =>
       avail[i] = 0 /\ \A p \in Slots : ~buffered_packet[i][p].in_use]_vars
==============================================================================
