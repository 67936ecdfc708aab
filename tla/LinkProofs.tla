------------------------------ MODULE LinkProofs ------------------------------
(***************************************************************************)
(* One direction between two transfer processes, as a theory of its own:   *)
(* the sender is the process of DataTransfer, of the receiver only what it *)
(* knows of the sockets is there.  The units between the two ends of a     *)
(* socket are those of the packets that the sender numbered for it and     *)
(* that the receiver has not read: this is why the parser of one and the   *)
(* send of the other agree, which neither of them checks.                  *)
(***************************************************************************)
EXTENDS EndProofs

VARIABLES far_in_seq, far_inq, far_taken, far_avail, far_peer

far_vars == <<far_in_seq, far_inq, far_taken, far_avail, far_peer>>

FarTypes ==
  /\ far_inq \in [Agents -> Seq(Nat)]
  /\ far_taken \in [Agents -> 0 .. PacketLen - 1]
  /\ far_avail \in [Agents -> 0 .. RcvBuf]

-----------------------------------------------------------------------------
(* The invariant.                                                          *)

(* Sockets the sender has closed, by itself or by ending.                  *)
Shut == IF pc \in Exits THEN Agents ELSE closed \intersect Agents

(* Units of the pending packet that socket i did not get yet, those it got *)
(* that were not read at the other end, and those the receiver expects.    *)
Owed(i) == IF Pending(i) THEN PacketLen - Progressed(i) ELSE 0
OnTheWay(i) == SndBuf - room[i] + far_avail[i]
Expected(i) == Len(far_inq[i]) * PacketLen - far_taken[i]

(* Where the packet that the receiver is reading begins.                   *)
Begun(i) == Len(wire[i]) - OnTheWay(i) - far_taken[i]

(* The receiver expects the packets that the sender numbered, and no more  *)
(* than the host may write.                                                *)
Numbered == far_in_seq = send_seq /\ send_seq + host_in <= OutChunks

(* The end of a stream was reached only where the sender closed.           *)
PeersShut == \A i \in Agents : far_peer[i] # "open" => i \in Shut

(* What the receiver expects is on the way, or owed; only a socket that    *)
(* was given up with a packet pending never sends what it owes.  On one in *)
(* use the last packet that is expected is the one that is pending.        *)
Settled(i) == Usable(i) \/ ~Pending(i)
Accounted ==
  \A i \in Agents :
    /\ Begun(i) >= 0
    /\ OnTheWay(i) <= Expected(i)
    /\ Settled(i) => Expected(i) = OnTheWay(i) + Owed(i)
    /\ Usable(i) /\ Pending(i) =>
         far_inq[i] # <<>> /\ far_inq[i][Len(far_inq[i])] = packet[i].seq

(* The units of the j-th packet that the receiver expects, as far as the   *)
(* socket has them, are that packet's.                                     *)
Contents ==
  \A i \in Agents, j \in Nat, o \in 0 .. PacketLen - 1 :
    LET k == Begun(i) + (j - 1) * PacketLen + o + 1
    IN  j \in 1 .. Len(far_inq[i]) /\ k <= Len(wire[i]) => wire[i][k] = <<far_inq[i][j], o>>

ProcessInv == DeliveryInv /\ OutInv
LinkInv == Numbered /\ PeersShut /\ Accounted /\ Contents

-----------------------------------------------------------------------------
(* The sender.                                                             *)

(* A socket that was closed stays so.                                      *)
LEMMA ShutStays ==
  ASSUME IInv, OrderInv, [Next]_vars
  PROVE  Shut \subseteq Shut'
  <1>1. pc \in Exits => pc' = pc
    BY PcSteps
  <1>2. closed \subseteq closed'
    BY ClosedIsFinal DEF OrderInv
  <1> QED BY <1>1, <1>2 DEF Shut

(* Nothing is sent and nothing is numbered: what is owed stays.            *)
NothingSent ==
  /\ UNCHANGED <<wire, send_seq>>
  /\ \A i \in Agents : /\ Pending(i)' <=> Pending(i)
                       /\ packet'[i].seq = packet[i].seq
                       /\ Usable(i)' => Usable(i)
                       /\ Settled(i)' => Owed(i)' = Owed(i)

(* Every step but two is of this kind: a chunk that is read, and a send    *)
(* that is not refused.                                                    *)
LEMMA SenderSteps ==
  ASSUME IInv, OrderInv, OutInv, [Next]_vars,
         \A i \in Agents : ~(RecvHost(i) /\ send_seq' # send_seq) /\ ~(SendAgent(i) /\ AgentAccepts(i))
  PROVE  NothingSent
  <1>1. ASSUME wire' = wire, send_seq' = send_seq,
               \A i \in Agents : /\ Pending(i)' <=> Pending(i)
                                 /\ packet'[i].seq = packet[i].seq
                                 /\ Usable(i)' => Progressed(i)' = Progressed(i)
        PROVE  NothingSent
    BY <1>1, UsableBefore DEF NothingSent, Owed, Settled, OrderInv
  <1>2. packet \in [Agents -> PacketState] /\ cursor \in Cursor
    BY DEF IInv, TypeOK, SendTypes, ControlTypes
  <1>3. CASE \A i \in Agents : ~RecvHost(i) /\ ~ResumeSend(i) /\ ~SendAgent(i)
    <2>1. UNCHANGED out_vars /\ (pc = "send_agent" \/ pc' = "send_agent" => UNCHANGED <<pc, cursor, closed>>)
      BY <1>3, OutSteps DEF OrderInv
    <2>2. \A i \in Agents : Progressed(i)' = Progressed(i)
      BY <2>1 DEF Progressed, Pending, out_vars
    <2> QED BY <1>1, <2>1, <2>2 DEF Pending, out_vars
  <1>4. ASSUME NEW i \in Agents, ResumeSend(i)
        PROVE  NothingSent
    <2>1. /\ pc = "read_host_send_agent" /\ i = cursor.agent_id /\ Pending(i)
          /\ UNCHANGED <<packet, send_seq, wire>>
          /\ cursor' = [cursor EXCEPT !.size_count = packet[i].host_sent_size]
          /\ Alive' => pc' = "send_agent"
      BY <1>4 DEF ResumeSend, send_vars, outbound_vars, SetPoll, EpollCtl, Exit, Alive, Running
    <2>2. cursor'.agent_id = i /\ cursor'.size_count = packet[i].host_sent_size
      BY <1>2, <2>1 DEF Cursor
    <2>3. \A j \in Agents : Usable(j)' => Progressed(j)' = Progressed(j)
      BY <2>1, <2>2 DEF Progressed, Pending, Usable
    <2> QED BY <1>1, <2>1, <2>3 DEF Pending
  <1>5. ASSUME NEW i \in Agents, RecvHost(i)
        PROVE  NothingSent
    <2>1. /\ pc = "read_host_send_agent" /\ i = cursor.agent_id /\ wire' = wire
          /\ send_seq \in Nat
      BY <1>5 DEF RecvHost, outbound_vars, IInv, TypeOK, SendTypes
    <2>2. send_seq' = send_seq /\ send_seq' # send_seq + 1
      BY <1>5, <2>1
    <2>3. packet' = packet
      BY <1>5, <2>2 DEF RecvHost, send_vars
    <2>4. host \in PeerStates
      BY DEF IInv, TypeOK, HostTypes
    <2>5. pc' # "send_agent"
      BY <1>5, <2>2, <2>4 DEF RecvHost, Exit, Unregister, PeerStates
    <2>6. \A j \in Agents : Progressed(j)' = Progressed(j)
      BY <2>1, <2>3, <2>5 DEF Progressed, Pending
    <2> QED BY <1>1, <2>1, <2>2, <2>3, <2>6 DEF Pending
  <1>6. ASSUME NEW i \in Agents, SendAgent(i), AgentBlocks(i)
        PROVE  NothingSent
    <2>1. /\ pc = "send_agent" /\ i = cursor.agent_id /\ send_seq' = send_seq /\ Pending(i)
          /\ packet' = [packet EXCEPT ![i].host_sent_size = cursor.size_count]
          /\ wire' = wire /\ pc' # "send_agent"
      BY <1>6 DEF SendAgent, AgentBlocks, BlockedPacket, outbound_vars, SetPoll, EpollCtl, IInv, CursorInv
    <2>2. /\ \A j \in Agents : (Pending(j)' <=> Pending(j)) /\ packet'[j].seq = packet[j].seq
          /\ packet'[i].host_sent_size = cursor.size_count
          /\ \A j \in Agents : j # i => packet'[j] = packet[j]
      BY <1>2, <2>1 DEF Pending, PacketState
    <2>3. \A j \in Agents : Progressed(j)' = Progressed(j)
      BY <2>1, <2>2 DEF Progressed
    <2> QED BY <1>1, <2>1, <2>2, <2>3
  <1>7. ASSUME NEW i \in Agents, SendAgent(i), AgentSendFails(i)
        PROVE  NothingSent
    <2>1. /\ pc = "send_agent" /\ i = cursor.agent_id /\ UNCHANGED <<packet, wire, send_seq>>
          /\ pc' # "send_agent"
          /\ Alive' => i \in closed'
      BY <1>7 DEF SendAgent, AgentSendFails, outbound_vars, Unregister, Exit, Alive, Running
    <2>2. \A j \in Agents : j # i => Progressed(j)' = Progressed(j)
      BY <2>1 DEF Progressed, Pending
    <2>3. ~Usable(i)'
      BY <2>1 DEF Usable
    <2> QED BY <1>1, <2>1, <2>2, <2>3 DEF Pending
  <1> QED BY <1>3, <1>4, <1>5, <1>6, <1>7 DEF SendAgent

-----------------------------------------------------------------------------
(* The link.                                                               *)

(* Neither end sends or reads: the link stays as it is, also while a unit  *)
(* goes from the buffer of one end to that of the other.                   *)
LEMMA LinkKept ==
  ASSUME Accounted, Contents, NothingSent, UNCHANGED <<far_inq, far_taken>>,
         \A i \in Agents : OnTheWay(i)' = OnTheWay(i)
  PROVE  Accounted' /\ Contents'
  <1>1. \A i \in Agents : Expected(i)' = Expected(i) /\ Begun(i)' = Begun(i)
    BY DEF Expected, Begun, NothingSent
  <1>2. Accounted'
    BY <1>1 DEF Accounted, NothingSent, Settled
  <1>3. Contents'
    BY <1>1 DEF Contents, NothingSent
  <1> QED BY <1>2, <1>3

(* Everything is a number.                                                 *)
LEMMA LinkTypes ==
  ASSUME IInv, FarTypes, NEW i \in Agents
  PROVE  /\ far_inq[i] \in Seq(Nat) /\ Len(far_inq[i]) \in Nat
         /\ far_taken[i] \in 0 .. PacketLen - 1 /\ far_avail[i] \in Nat
         /\ room[i] \in 0 .. SndBuf /\ wire[i] \in Units /\ Len(wire[i]) \in Nat
         /\ OnTheWay(i) \in Nat /\ Len(far_inq[i]) * PacketLen \in Nat
         /\ Expected(i) \in Int /\ Begun(i) \in Int
         /\ PacketLen \in Nat \ {0} /\ SndBuf \in Nat
  <1>1. /\ far_inq[i] \in Seq(Nat) /\ far_taken[i] \in 0 .. PacketLen - 1 /\ far_avail[i] \in Nat
        /\ PacketLen \in Nat \ {0} /\ SndBuf \in Nat
    BY Positive DEF FarTypes
  <1>2. room[i] \in 0 .. SndBuf /\ wire[i] \in Units /\ Len(wire[i]) \in Nat
    BY DEF IInv, TypeOK, OutboundTypes, Units
  <1>3. OnTheWay(i) \in Nat
    BY <1>1, <1>2 DEF OnTheWay
  <1>4. Len(far_inq[i]) \in Nat
    BY <1>1
  <1>5. Len(far_inq[i]) * PacketLen \in Nat
    BY <1>1, <1>4, NextProduct
  <1>6. Expected(i) \in Int
    BY <1>1, <1>5 DEF Expected
  <1>7. Begun(i) \in Int
    BY <1>1, <1>2, <1>3 DEF Begun
  <1> QED BY <1>1, <1>2, <1>3, <1>4, <1>5, <1>6, <1>7

(* A packet more to expect.                                                *)
LEMMA Appended ==
  ASSUME NEW q \in Seq(Nat), NEW x \in Nat
  PROVE  /\ Append(q, x) \in Seq(Nat) /\ Len(Append(q, x)) = Len(q) + 1
         /\ Append(q, x)[Len(q) + 1] = x /\ Append(q, x) # <<>>
         /\ \A m \in 1 .. Len(q) : Append(q, x)[m] = q[m]
  OBVIOUS

(* A chunk is read and numbered: the receiver expects its packet, of which *)
(* nothing is on the way.                                                  *)
LEMMA LinkReads ==
  ASSUME IInv, OrderInv, OutInv, [Next]_vars, FarTypes, Accounted, Contents,
         NEW i \in Agents, RecvHost(i), send_seq' # send_seq,
         far_inq' = [far_inq EXCEPT ![i] = Append(@, send_seq)],
         UNCHANGED <<far_taken, far_avail>>
  PROVE  Accounted' /\ Contents' /\ i \notin Shut
  <1>1. /\ pc = "read_host_send_agent" /\ i = cursor.agent_id /\ ~Pending(i)
        /\ i \notin closed /\ cursor.size_count = 0
        /\ packet \in [Agents -> PacketState] /\ send_seq \in Nat
        /\ \A j \in Agents : Usable(j)' => Usable(j)
    BY UsableBefore DEF RecvHost, OutInv, OrderInv, PickedOpen, IInv, TypeOK, SendTypes
  <1>2. /\ packet' = [packet EXCEPT ![i].host_packet_size = PacketLen, ![i].seq = send_seq]
        /\ pc' = "send_agent" /\ UNCHANGED <<cursor, closed, wire, room>>
    BY <1>1 DEF RecvHost, outbound_vars, send_vars
  <1>3. /\ Pending(i)' /\ packet'[i].seq = send_seq
        /\ \A j \in Agents : j # i => packet'[j] = packet[j] /\ (Pending(j)' <=> Pending(j))
    BY <1>1, <1>2, Positive DEF Pending, PacketState
  <1>4. Usable(i) /\ i \notin Shut
    BY <1>1 DEF Usable, Alive, Running, Shut, Exits, Fatal
  <1>5. Progressed(i)' = 0 /\ \A j \in Agents : j # i => Progressed(j)' = Progressed(j)
    BY <1>1, <1>2, <1>3 DEF Progressed
  <1>6. Owed(i) = 0 /\ Owed(i)' = PacketLen /\ \A j \in Agents : j # i => Owed(j)' = Owed(j)
    BY <1>1, <1>3, <1>5, Positive DEF Owed
  <1>7. \A j \in Agents : OnTheWay(j)' = OnTheWay(j) /\ Begun(j)' = Begun(j)
    BY <1>2 DEF OnTheWay, Begun
  <1> DEFINE q == far_inq[i]
             l == Len(q)
  <1>8. /\ q \in Seq(Nat) /\ l \in Nat /\ l * PacketLen \in Nat /\ OnTheWay(i) \in Nat
        /\ far_taken[i] \in Nat /\ PacketLen \in Nat \ {0} /\ Len(wire[i]) \in Nat
    BY LinkTypes
  <1>9. /\ far_inq'[i] = Append(q, send_seq) /\ Len(far_inq'[i]) = l + 1
        /\ far_inq'[i][l + 1] = send_seq /\ far_inq'[i] # <<>>
        /\ \A m \in 1 .. l : far_inq'[i][m] = q[m]
        /\ \A j \in Agents : j # i => far_inq'[j] = far_inq[j]
    <2>1. far_inq'[i] = Append(q, send_seq) /\ \A j \in Agents : j # i => far_inq'[j] = far_inq[j]
      BY DEF FarTypes
    <2>2. Append(q, send_seq)[l + 1] = send_seq
      BY <1>1, <1>8, Appended
    <2>3. /\ Len(Append(q, send_seq)) = l + 1 /\ Append(q, send_seq) # <<>>
          /\ \A m \in 1 .. l : Append(q, send_seq)[m] = q[m]
      BY <1>1, <1>8, Appended
    <2> HIDE DEF q, l
    <2> QED BY <2>1, <2>2, <2>3
  <1>10. Expected(i) = OnTheWay(i) /\ Expected(i) = l * PacketLen - far_taken[i]
    BY <1>4, <1>6, <1>8 DEF Accounted, Expected, Settled
  <1> HIDE DEF l, q
  <1>11. Expected(i)' = Expected(i) + PacketLen
    <2>1. (l + 1) * PacketLen = l * PacketLen + PacketLen
      BY <1>8, NextProduct
    <2>2. Expected(i)' = (l + 1) * PacketLen - far_taken[i]
      BY <1>9 DEF Expected
    <2> QED BY <1>8, <1>10, <2>1, <2>2
  <1>12. Accounted'
    <2>1. OnTheWay(i)' <= Expected(i)' /\ Expected(i)' = OnTheWay(i)' + Owed(i)'
      <3>1. OnTheWay(i)' = OnTheWay(i) /\ Owed(i)' = PacketLen /\ Expected(i)' = OnTheWay(i) + PacketLen
        BY <1>6, <1>7, <1>10, <1>11
      <3>2. OnTheWay(i) <= OnTheWay(i) + PacketLen
        BY <1>8
      <3> QED BY <3>1, <3>2
    <2>2. far_inq'[i] # <<>> /\ far_inq'[i][Len(far_inq'[i])] = packet'[i].seq
      BY <1>3, <1>9
    <2>3. \A j \in Agents : j # i => Expected(j)' = Expected(j)
      BY <1>9 DEF Expected
    <2>4. \A j \in Agents : j # i => (Settled(j)' => Settled(j))
      BY <1>1, <1>3 DEF Settled
    <2> QED BY <1>1, <1>3, <1>6, <1>7, <1>9, <2>1, <2>2, <2>3, <2>4 DEF Accounted
  <1>13. Contents'
    <2> SUFFICES ASSUME NEW j \in Agents, NEW m \in Nat, NEW o \in 0 .. PacketLen - 1,
                        m \in 1 .. Len(far_inq'[j]),
                        Begun(j) + (m - 1) * PacketLen + o + 1 <= Len(wire[j])
                 PROVE  wire[j][Begun(j) + (m - 1) * PacketLen + o + 1] = <<far_inq'[j][m], o>>
      BY <1>2, <1>7 DEF Contents
    <2>1. CASE j # i \/ m \in 1 .. l
      <3>1. m \in 1 .. Len(far_inq[j]) /\ far_inq'[j][m] = far_inq[j][m]
        BY <1>9, <2>1 DEF l, q
      <3> QED BY <3>1 DEF Contents
    <2>2. CASE j = i /\ m = l + 1
      <3>1. Begun(i) + l * PacketLen = Len(wire[i])
        BY <1>8, <1>10 DEF Begun
      <3>2. Begun(i) + (m - 1) * PacketLen = Len(wire[i])
        BY <1>8, <2>2, <3>1
      <3>3. Begun(i) + (m - 1) * PacketLen + o + 1 = Len(wire[i]) + o + 1
        BY <3>2
      <3> QED BY <1>8, <2>2, <3>3
    <2>3. CASE j = i /\ m \notin 1 .. l
      <3>1. Len(far_inq'[i]) = l + 1 /\ l \in Nat
        BY <1>8, <1>9
      <3> HIDE DEF l
      <3>2. m \in 1 .. l + 1
        BY <2>3, <3>1
      <3>3. m = l + 1
        BY <2>3, <3>1, <3>2
      <3> QED BY <2>2, <2>3, <3>3
    <2> QED BY <2>1, <2>3
  <1> QED BY <1>4, <1>12, <1>13

(* A send that is not refused: what it puts on the way was owed, and it is *)
(* of the last packet that the receiver expects.                           *)
LEMMA LinkSends ==
  ASSUME IInv, OrderInv, OutInv, [Next]_vars, FarTypes, Accounted, Contents,
         NEW i \in Agents, SendAgent(i), AgentAccepts(i), UNCHANGED <<far_inq, far_taken, far_avail>>
  PROVE  Accounted' /\ Contents'
  <1> DEFINE c == cursor.size_count
             n == Lesser(room[i], packet[i].host_packet_size - cursor.size_count)
             L == Len(wire[i])
             l == Len(far_inq[i])
             begun == Begun(i)
             way == OnTheWay(i)
  <1>1. /\ OnWire(i, c, n)
        /\ packet[i].host_packet_size = PacketLen /\ Usable(i) /\ Pending(i) /\ Progressed(i) = c
    BY AcceptedBySocket
  <1>2. /\ pc = "send_agent" /\ i = cursor.agent_id
        /\ room' = [room EXCEPT ![i] = @ - n]
        /\ IF c + n = PacketLen
           THEN packet' = [packet EXCEPT ![i].host_packet_size = 0] /\ pc' = "check"
           ELSE cursor' = [cursor EXCEPT !.size_count = c + n] /\ UNCHANGED <<packet, pc>>
    BY <1>1 DEF SendAgent, AgentAccepts
  <1> HIDE DEF n
  <1>3. /\ packet \in [Agents -> PacketState] /\ cursor \in Cursor /\ room \in [Agents -> 0 .. SndBuf]
        /\ \A j \in Agents : Usable(j)' => Usable(j)
    BY UsableBefore DEF IInv, TypeOK, SendTypes, ControlTypes, OutboundTypes, OrderInv
  <1>14. l * PacketLen \in Nat
    BY LinkTypes
  <1>4. /\ l \in Nat /\ way \in Nat /\ far_taken[i] \in Nat
        /\ room[i] \in Nat /\ far_avail[i] \in Nat /\ SndBuf \in Nat
        /\ PacketLen \in Nat \ {0} /\ L \in Nat /\ begun \in Int /\ begun = L - way - far_taken[i]
        /\ c \in Nat /\ n \in Nat \ {0} /\ c + n <= PacketLen
    BY <1>1, LinkTypes DEF OnWire, Begun
  <1>5. /\ \A j \in Agents : packet'[j].seq = packet[j].seq /\ packet'[j].host_sent_size = packet[j].host_sent_size
        /\ \A j \in Agents : j # i => (Pending(j)' <=> Pending(j))
        /\ Pending(i)' <=> c + n # PacketLen
    <2>1. CASE c + n = PacketLen
      <3>1. packet' = [packet EXCEPT ![i].host_packet_size = 0]
        BY <1>2, <2>1
      <3> QED BY <1>3, <2>1, <3>1 DEF Pending, PacketState
    <2>2. CASE c + n # PacketLen
      BY <1>1, <1>2, <2>2 DEF Pending
    <2> QED BY <2>1, <2>2
  <1>6. Owed(i) = PacketLen - c /\ Owed(i)' = PacketLen - (c + n)
    <2>1. Owed(i) = PacketLen - c
      BY <1>1 DEF Owed
    <2>2. CASE c + n = PacketLen
      BY <1>4, <1>5, <2>1, <2>2 DEF Owed
    <2>3. CASE c + n # PacketLen
      <3>1. cursor'.agent_id = i /\ cursor'.size_count = c + n /\ pc' = "send_agent"
        BY <1>2, <1>3, <2>3 DEF Cursor
      <3>2. Progressed(i)' = c + n
        BY <3>1 DEF Progressed
      <3> QED BY <1>5, <2>1, <2>3, <3>2 DEF Owed
    <2> QED BY <2>2, <2>3
  <1>7. \A j \in Agents : j # i => Owed(j)' = Owed(j)
    <2>1. \A j \in Agents : j # i => Progressed(j)' = Progressed(j)
      <3>1. pc' = "send_agent" => cursor'.agent_id = i
        BY <1>2, <1>3 DEF Cursor
      <3> QED BY <1>2, <1>5, <3>1 DEF Progressed
    <2> QED BY <1>5, <2>1 DEF Owed
  <1>8. /\ OnTheWay(i)' = way + n /\ Begun(i)' = begun
        /\ \A j \in Agents : j # i => OnTheWay(j)' = OnTheWay(j) /\ Begun(j)' = Begun(j)
    <2>1. room'[i] = room[i] - n /\ \A j \in Agents : j # i => room'[j] = room[j]
      BY <1>2, <1>3
    <2>2. OnTheWay(i)' = way + n /\ \A j \in Agents : j # i => OnTheWay(j)' = OnTheWay(j)
      <3>1. SndBuf - (room[i] - n) + far_avail[i] = (SndBuf - room[i] + far_avail[i]) + n
        BY <1>4
      <3> QED BY <2>1, <3>1 DEF OnTheWay
    <2>3. Len(wire'[i]) = L + n /\ \A j \in Agents : j # i => wire'[j] = wire[j]
      BY <1>1 DEF OnWire
    <2>4. \A j \in Agents : j # i => Begun(j)' = Begun(j)
      BY <2>2, <2>3 DEF Begun
    <2>5. Begun(i)' = (L + n) - (way + n) - far_taken[i]
      BY <2>2, <2>3 DEF Begun
    <2> HIDE DEF way, begun, L
    <2>6. (L + n) - (way + n) - far_taken[i] = begun
      BY <1>4
    <2> QED BY <2>2, <2>4, <2>5, <2>6
  <1>9. \A j \in Agents : Expected(j)' = Expected(j)
    BY DEF Expected
  <1>10. /\ Expected(i) = l * PacketLen - far_taken[i] /\ Expected(i) = way + (PacketLen - c)
         /\ far_inq[i] # <<>> /\ far_inq[i][l] = packet[i].seq
    BY <1>1, <1>6 DEF Accounted, Expected, Settled
  <1> HIDE DEF way, begun, L, c, l
  <1>11. Accounted'
    <2>1. OnTheWay(i)' <= Expected(i)' /\ Expected(i)' = OnTheWay(i)' + Owed(i)'
      <3>1. /\ OnTheWay(i)' = way + n /\ Owed(i)' = PacketLen - (c + n)
            /\ Expected(i)' = way + (PacketLen - c)
        BY <1>6, <1>8, <1>9, <1>10
      <3>2. /\ way + n <= way + (PacketLen - c)
            /\ way + (PacketLen - c) = (way + n) + (PacketLen - (c + n))
        BY <1>4
      <3> QED BY <3>1, <3>2
    <2>2. Begun(i)' >= 0
      BY <1>8 DEF Accounted, begun
    <2>3. Usable(i)' /\ Pending(i)' => far_inq'[i] # <<>> /\ far_inq'[i][Len(far_inq'[i])] = packet'[i].seq
      BY <1>5, <1>10 DEF l
    <2>4. \A j \in Agents : j # i =>
            /\ OnTheWay(j)' = OnTheWay(j) /\ Begun(j)' = Begun(j) /\ Expected(j)' = Expected(j)
            /\ Owed(j)' = Owed(j) /\ (Pending(j)' <=> Pending(j)) /\ packet'[j].seq = packet[j].seq
      BY <1>5, <1>7, <1>8, <1>9
    <2>5. ASSUME NEW j \in Agents, j # i
          PROVE  /\ Begun(j)' >= 0
                 /\ OnTheWay(j)' <= Expected(j)'
                 /\ Settled(j)' => Expected(j)' = OnTheWay(j)' + Owed(j)'
                 /\ Usable(j)' /\ Pending(j)' =>
                      far_inq'[j] # <<>> /\ far_inq'[j][Len(far_inq'[j])] = packet'[j].seq
      BY <1>3, <2>4, <2>5 DEF Accounted, Settled
    <2> QED BY <2>1, <2>2, <2>3, <2>5 DEF Accounted
  <1>12. begun + (l - 1) * PacketLen = L - c /\ l \in 1 .. l
    <2>1. l # 0
      BY <1>10, LinkTypes DEF l
    <2>2. l - 1 \in Nat /\ (l - 1) + 1 = l
      BY <1>4, <2>1
    <2>3. l * PacketLen = (l - 1) * PacketLen + PacketLen /\ (l - 1) * PacketLen \in Nat
      BY <1>4, <2>2, NextProduct
    <2> DEFINE x == l * PacketLen
               y == (l - 1) * PacketLen
    <2>4. x = y + PacketLen /\ y \in Nat /\ x - far_taken[i] = way + (PacketLen - c)
      BY <1>10, <2>3
    <2> HIDE DEF x, y, l
    <2>5. begun + y = L - c
      BY <1>4, <2>4
    <2> QED BY <2>2, <2>5, <1>4 DEF y
  <1>13. Contents'
    <2> SUFFICES ASSUME NEW j \in Agents, NEW m \in Nat, NEW o \in 0 .. PacketLen - 1,
                        m \in 1 .. Len(far_inq[j]),
                        Begun(j) + (m - 1) * PacketLen + o + 1 <= Len(wire'[j])
                 PROVE  wire'[j][Begun(j) + (m - 1) * PacketLen + o + 1] = <<far_inq[j][m], o>>
      BY <1>8 DEF Contents, begun
    <2>1. CASE j # i
      <3>1. wire'[j] = wire[j]
        BY <1>1, <2>1 DEF OnWire
      <3> QED BY <3>1 DEF Contents
    <2>2. CASE j = i
      <3> DEFINE k == begun + (m - 1) * PacketLen + o + 1
      <3>4. (m - 1) * PacketLen \in Nat
        <4>1. m - 1 \in Nat
          OBVIOUS
        <4>2. PacketLen \in Nat
          BY <1>4
        <4> QED BY <4>1, <4>2, NextProduct
      <3>1. /\ m \in 1 .. l /\ m - 1 \in Nat
            /\ k \in Int /\ k = Begun(j) + (m - 1) * PacketLen + o + 1 /\ k <= L + n
        <4>1. m \in 1 .. l /\ m - 1 \in Nat
          BY <2>2 DEF l
        <4>2. (m - 1) * PacketLen \in Nat
          BY <1>4, <4>1, NextProduct
        <4>3. Len(wire'[i]) = L + n
          BY <1>1 DEF OnWire, L
        <4>4. k = Begun(j) + (m - 1) * PacketLen + o + 1
          BY <2>2 DEF begun
        <4> QED BY <1>4, <2>2, <4>1, <4>2, <4>3, <4>4
      <3>2. CASE k <= L
        <4>1. wire[i][k] = <<far_inq[i][m], o>>
          BY <2>2, <3>1, <3>2 DEF Contents, L
        <4>2. k \in 1 .. L
          <5>1. begun >= 0
            BY DEF Accounted, begun
          <5> DEFINE x == (m - 1) * PacketLen
          <5>2. x \in Nat /\ k = begun + x + o + 1 /\ k <= L
            BY <3>2, <3>4
          <5> HIDE DEF k, x
          <5> QED BY <1>4, <5>1, <5>2
        <4> QED BY <1>1, <2>2, <3>1, <4>1, <4>2 DEF OnWire, L
      <3>3. CASE k > L
        <4> DEFINE x == (m - 1) * PacketLen
                   y == (l - 1) * PacketLen
        <4>1. x \in Nat /\ y \in Int /\ begun + y = L - c /\ k = begun + x + o + 1
          BY <1>4, <1>12, <3>4
        <4>2. x + o + c >= y
          <5>1. k > L /\ k \in Int
            BY <3>1, <3>3
          <5> HIDE DEF x, y, k
          <5> QED BY <1>4, <4>1, <5>1
        <4>3. m = l
          <5> SUFFICES ASSUME m < l
                       PROVE  FALSE
            BY <1>4, <3>1
          <5>1. m \in Nat /\ l - 1 \in Nat /\ m <= l - 1
            BY <1>4, <3>1
          <5>2. m * PacketLen <= y
            BY <1>4, <5>1, ProductMonotone
          <5>3. m * PacketLen = x + PacketLen
            BY <1>4, <3>1, NextProduct
          <5> HIDE DEF x, y
          <5>4. y \in Nat
            BY <1>4, <4>1, <5>2, <5>3
          <5> HIDE DEF k
          <5>5. o \in Int /\ begun + y = L - c /\ k = begun + x + o + 1 /\ x \in Nat /\ begun \in Int
            BY <1>4, <4>1
          <5>6. k <= L - c - PacketLen + o + 1
            <6> DEFINE z == m * PacketLen
            <6>1. z <= y /\ z = x + PacketLen
              BY <5>2, <5>3
            <6> HIDE DEF z
            <6> HIDE DEF begun, L, c
            <6> QED BY <1>4, <5>4, <5>5, <6>1
          <5>7. k > L /\ k \in Int
            BY <3>1, <3>3
          <5> QED BY <1>4, <5>6, <5>7
        <4>4. k = L - c + o + 1
          BY <1>4, <4>1, <4>3
        <4>5. wire'[i][k] = <<packet[i].seq, c + (k - L) - 1>>
          <5>1. k \in 1 .. Len(wire'[i]) /\ k > L
            <6>1. Len(wire'[i]) = L + n
              BY <1>1 DEF OnWire, L
            <6>2. k \in Int /\ k > L /\ k <= L + n
              BY <3>1, <3>3
            <6> HIDE DEF k
            <6> QED BY <1>4, <6>1, <6>2
          <5> HIDE DEF k
          <5> QED BY <1>1, <5>1 DEF OnWire, L
        <4>6. c + (k - L) - 1 = o
          <5> HIDE DEF k
          <5> QED BY <1>4, <4>4
        <4> QED BY <1>10, <2>2, <3>1, <4>3, <4>5, <4>6
      <3>5. k <= L \/ k > L
        <4> HIDE DEF k
        <4> QED BY <1>4, <3>1
      <3> QED BY <3>1, <3>2, <3>3, <3>5
    <2> QED BY <2>1, <2>2
  <1> QED BY <1>11, <1>13

(* A packet less to expect.                                                *)
LEMMA HeadRead ==
  ASSUME NEW q \in Seq(Nat), Len(q) # 0
  PROVE  /\ Tail(q) \in Seq(Nat) /\ Len(Tail(q)) = Len(q) - 1
         /\ \A m \in 1 .. Len(Tail(q)) : m + 1 \in 1 .. Len(q) /\ Tail(q)[m] = q[m + 1]
         /\ Len(q) # 1 => Tail(q) # <<>>
  <1>1. Tail(q) \in Seq(Nat) /\ Len(Tail(q)) = Len(q) - 1 /\ Len(q) \in Nat
    OBVIOUS
  <1>2. ASSUME NEW m \in 1 .. Len(Tail(q))
        PROVE  m + 1 \in 1 .. Len(q) /\ Tail(q)[m] = q[m + 1]
    BY <1>1
  <1>3. Tail(q) = <<>> => Len(q) = 1
    <2> SUFFICES ASSUME Tail(q) = <<>>
                 PROVE  Len(q) = 1
      OBVIOUS
    <2> DEFINE r == Tail(q)
    <2>1. r = <<>> /\ Len(r) = Len(q) - 1 /\ Len(q) \in Nat
      BY <1>1
    <2> HIDE DEF r
    <2>2. Len(r) = 0
      BY <2>1
    <2> QED BY <2>1, <2>2
  <1> QED BY <1>1, <1>2, <1>3

(* The receiver reads, at most to the end of the packet that it is in:     *)
(* less is on the way, and after the last unit the next packet begins.     *)
LEMMA LinkTakes ==
  ASSUME IInv, OutInv, FarTypes, Accounted, Contents,
         NEW i \in Agents, NEW n \in Nat, n <= far_avail[i], far_taken[i] + n <= PacketLen,
         far_avail' = [far_avail EXCEPT ![i] = @ - n],
         far_taken' = [far_taken EXCEPT ![i] = (@ + n) % PacketLen],
         far_inq' = IF far_taken[i] + n = PacketLen THEN [far_inq EXCEPT ![i] = Tail(@)] ELSE far_inq,
         UNCHANGED <<pc, closed, cursor, packet, room, wire>>
  PROVE  Accounted' /\ Contents'
  <1> DEFINE q == far_inq[i]
             l == Len(q)
             t == far_taken[i]
             way == OnTheWay(i)
             begun == Begun(i)
             L == Len(wire[i])
             d == PacketLen
  <1>1. /\ q \in Seq(Nat) /\ l \in Nat /\ t \in 0 .. d - 1 /\ d \in Nat \ {0} /\ way \in Nat
        /\ L \in Nat /\ begun \in Int /\ begun = L - way - t /\ n \in 0 .. d
    <2>1. /\ q \in Seq(Nat) /\ l \in Nat /\ t \in 0 .. d - 1 /\ d \in Nat \ {0} /\ way \in Nat
          /\ L \in Nat /\ begun \in Int
      BY LinkTypes
    <2>2. begun = L - way - t /\ t + n <= d
      BY DEF Begun
    <2> HIDE DEF q, l, t, d, way, L, begun
    <2>3. n \in 0 .. d
      BY <2>1, <2>2
    <2> QED BY <2>1, <2>2, <2>3
  <1>11. n <= way
    <2>1. far_avail[i] \in Nat /\ room[i] \in 0 .. SndBuf /\ SndBuf \in Nat
      BY LinkTypes
    <2>2. far_avail[i] <= SndBuf - room[i] + far_avail[i]
      BY <2>1
    <2> QED BY <2>1, <2>2 DEF OnTheWay
  <1>2. /\ OnTheWay(i)' = way - n /\ way - n \in Nat
        /\ \A j \in Agents : j # i => OnTheWay(j)' = OnTheWay(j)
    <2>1. far_avail'[i] = far_avail[i] - n /\ \A j \in Agents : j # i => far_avail'[j] = far_avail[j]
      BY DEF FarTypes
    <2>2. far_avail[i] \in Nat /\ room[i] \in 0 .. SndBuf /\ SndBuf \in Nat
      BY LinkTypes
    <2>3. /\ SndBuf - room[i] + (far_avail[i] - n) = (SndBuf - room[i] + far_avail[i]) - n
          /\ (SndBuf - room[i] + far_avail[i]) - n \in Nat
      BY <2>2
    <2> QED BY <2>1, <2>3 DEF OnTheWay
  <1>3. /\ far_taken'[i] = IF t + n = d THEN 0 ELSE t + n
        /\ \A j \in Agents : j # i => far_taken'[j] = far_taken[j] /\ far_inq'[j] = far_inq[j]
    <2>1. (t + n) % d = IF t + n = d THEN 0 ELSE t + n
      <3>1. t + n <= d
        OBVIOUS
      <3> HIDE DEF t, d
      <3>2. /\ t + n < d => (t + n) % d = t + n
            /\ t + n >= d => (t + n) % d = t + n - d
        BY <1>1, WrapAround
      <3> QED BY <1>1, <3>1, <3>2
    <2> QED BY <2>1 DEF FarTypes
  <1>4. /\ Expected(i) = l * d - t /\ l * d \in Nat /\ begun >= 0 /\ way <= Expected(i)
        /\ Settled(i) => Expected(i) = way + Owed(i)
        /\ Usable(i) /\ Pending(i) => q[l] = packet[i].seq /\ l # 0
    <2>1. q # <<>> => l # 0
      BY <1>1
    <2>2. l * d \in Nat
      BY LinkTypes
    <2> QED BY <2>1, <2>2 DEF Accounted, Expected
  <1>5. \A j \in Agents : /\ Usable(j)' <=> Usable(j)
                          /\ Pending(j)' <=> Pending(j)
                          /\ Settled(j)' <=> Settled(j)
                          /\ Owed(j)' = Owed(j)
    BY DEF Usable, Alive, Pending, Owed, Progressed, Settled
  <1>12. /\ Settled(i) => Owed(i) \in Nat
         /\ Usable(i) /\ Pending(i) => Owed(i) > 0
    <2>1. L % d \in 0 .. d - 1
      <3> HIDE DEF L, d
      <3> QED BY <1>1
    <2>2. Usable(i) => Progressed(i) = L % d
      BY DEF OutInv, WireProgress
    <2>3. Owed(i) = IF Pending(i) THEN d - Progressed(i) ELSE 0
      BY DEF Owed
    <2> HIDE DEF L, d
    <2> QED BY <1>1, <2>1, <2>2, <2>3 DEF Settled
  <1>6. \A j \in Agents : j # i => Expected(j)' = Expected(j) /\ Begun(j)' = Begun(j)
    BY <1>2, <1>3 DEF Expected, Begun
  <1>7. ASSUME Begun(i)' >= 0, Expected(i)' = Expected(i) - n,
               Usable(i) /\ Pending(i) => far_inq'[i] # <<>> /\ far_inq'[i][Len(far_inq'[i])] = packet[i].seq
        PROVE  Accounted'
    <2>1. /\ OnTheWay(i)' <= Expected(i)'
          /\ Settled(i) => Expected(i)' = OnTheWay(i)' + Owed(i)
      <3>1. Expected(i) \in Int
        BY LinkTypes
      <3>2. Settled(i) => Owed(i) \in Int
        BY <1>1, <1>12
      <3> DEFINE e == Expected(i)
                 o == Owed(i)
      <3>3. OnTheWay(i)' = way - n /\ Expected(i)' = e - n
        BY <1>2, <1>7
      <3>4. way <= e /\ (Settled(i) => e = way + o)
        BY <1>4
      <3> HIDE DEF e, o, way
      <3>5. way - n <= e - n /\ (Settled(i) => e - n = (way - n) + o)
        BY <1>1, <3>1, <3>2, <3>4 DEF e, o
      <3> QED BY <3>3, <3>5 DEF o
    <2>2. ASSUME NEW j \in Agents, j # i
          PROVE  /\ Begun(j)' >= 0
                 /\ OnTheWay(j)' <= Expected(j)'
                 /\ Settled(j)' => Expected(j)' = OnTheWay(j)' + Owed(j)'
                 /\ Usable(j)' /\ Pending(j)' =>
                      far_inq'[j] # <<>> /\ far_inq'[j][Len(far_inq'[j])] = packet'[j].seq
      BY <1>2, <1>3, <1>5, <1>6, <2>2 DEF Accounted
    <2>3. Usable(i)' /\ Pending(i)' =>
            far_inq'[i] # <<>> /\ far_inq'[i][Len(far_inq'[i])] = packet'[i].seq
      BY <1>5, <1>7
    <2> QED BY <1>5, <1>7, <2>1, <2>2, <2>3 DEF Accounted
  <1>8. ASSUME NEW j \in Agents, j # i, NEW m \in Nat, NEW o \in 0 .. PacketLen - 1,
               m \in 1 .. Len(far_inq'[j]),
               Begun(j)' + (m - 1) * PacketLen + o + 1 <= Len(wire[j])
        PROVE  wire[j][Begun(j)' + (m - 1) * PacketLen + o + 1] = <<far_inq'[j][m], o>>
    BY <1>3, <1>6, <1>8 DEF Contents
  <1>9. CASE t + n # d
    <2>1. far_taken'[i] = t + n /\ far_inq' = far_inq
      BY <1>3, <1>9
    <2>2. Begun(i)' = begun
      <3>1. Begun(i)' = L - (way - n) - (t + n)
        BY <1>2, <2>1 DEF Begun
      <3> HIDE DEF L, way, t, begun
      <3> QED BY <1>1, <3>1
    <2>3. Expected(i)' = Expected(i) - n
      <3>1. Expected(i)' = l * d - (t + n)
        BY <2>1 DEF Expected
      <3> DEFINE x == l * d
      <3>2. x \in Nat /\ Expected(i) = x - t /\ Expected(i)' = x - (t + n)
        BY <1>4, <3>1
      <3> HIDE DEF x, t
      <3> QED BY <1>1, <3>2
    <2>4. Usable(i) /\ Pending(i) => far_inq'[i] # <<>> /\ far_inq'[i][Len(far_inq'[i])] = packet[i].seq
      BY <2>1 DEF Accounted
    <2>5. Accounted'
      BY <1>4, <1>7, <2>2, <2>3, <2>4
    <2>6. Contents'
      BY <1>8, <2>1, <2>2 DEF Contents
    <2> QED BY <2>5, <2>6
  <1>10. CASE t + n = d
    <2>1. far_taken'[i] = 0 /\ far_inq'[i] = Tail(q)
      BY <1>3, <1>10 DEF FarTypes
    <2>2. l # 0
      <3> SUFFICES ASSUME l = 0
                   PROVE  FALSE
        OBVIOUS
      <3>1. l * d = 0
        BY <1>1
      <3>2. way <= 0 - t
        BY <1>4, <3>1
      <3> HIDE DEF t, d, way
      <3> QED BY <1>1, <1>10, <1>11, <3>2
    <2>3. /\ Len(Tail(q)) = l - 1 /\ l - 1 \in Nat
          /\ \A m \in 1 .. Len(Tail(q)) : m + 1 \in 1 .. l /\ Tail(q)[m] = q[m + 1]
          /\ (l # 1 => Tail(q) # <<>>)
      <3>1. Len(q) # 0 /\ q \in Seq(Nat)
        BY <1>1, <2>2
      <3>2. l - 1 \in Nat
        <4> HIDE DEF l
        <4> QED BY <1>1, <2>2
      <3> HIDE DEF q
      <3> QED BY <3>1, <3>2, HeadRead
    <2>4. Begun(i)' = begun + d /\ begun + d >= 0
      <3>1. Begun(i)' = L - (way - n) - 0
        BY <1>2, <2>1 DEF Begun
      <3>2. begun >= 0
        BY <1>4
      <3> HIDE DEF L, way, t, begun, d
      <3> QED BY <1>1, <1>10, <3>1, <3>2
    <2>5. Expected(i)' = Expected(i) - n
      <3>1. Expected(i)' = (l - 1) * d - 0
        BY <2>1, <2>3 DEF Expected
      <3>2. l * d = (l - 1) * d + d
        <4> HIDE DEF l, d
        <4>1. ((l - 1) + 1) * d = (l - 1) * d + d /\ (l - 1) + 1 = l
          BY <1>1, <2>3, NextProduct
        <4> QED BY <4>1
      <3> DEFINE x == l * d
                 y == (l - 1) * d
      <3>3. /\ x \in Nat /\ x = y + d /\ y \in Int
            /\ Expected(i) = x - t /\ Expected(i)' = y - 0
        BY <1>1, <1>4, <3>1, <3>2
      <3> HIDE DEF x, y, t, d
      <3> QED BY <1>1, <1>10, <3>3
    <2>6. ASSUME Usable(i), Pending(i)
          PROVE  far_inq'[i] # <<>> /\ far_inq'[i][Len(far_inq'[i])] = packet[i].seq
      <3>1. l # 1
        <4> SUFFICES ASSUME l = 1
                     PROVE  FALSE
          OBVIOUS
        <4>1. l * d = d
          BY <1>1
        <4>2. Owed(i) > 0 /\ Owed(i) \in Nat
          BY <1>12, <2>6 DEF Settled
        <4>3. d - t = way + Owed(i)
          <5> HIDE DEF d, t, way, l
          <5> QED BY <1>4, <2>6, <4>1 DEF Settled
        <4> HIDE DEF d, t, way
        <4> QED BY <1>1, <1>10, <1>11, <4>2, <4>3
      <3>2. l - 1 \in 1 .. Len(Tail(q)) /\ (l - 1) + 1 = l
        <4>1. Len(Tail(q)) = l - 1 /\ l - 1 \in Nat
          BY <2>3
        <4> HIDE DEF l, q
        <4> QED BY <1>1, <3>1, <4>1
      <3>3. Tail(q)[l - 1] = q[l]
        <4> HIDE DEF l
        <4> QED BY <2>3, <3>2
      <3>4. q[l] = packet[i].seq
        BY <2>6 DEF Accounted
      <3> HIDE DEF l, q
      <3>5. Len(Tail(q)) = l - 1 /\ Tail(q) # <<>>
        BY <2>3, <3>1
      <3>6. Len(far_inq'[i]) = l - 1 /\ far_inq'[i] # <<>>
        BY <2>1, <3>5
      <3>7. far_inq'[i][l - 1] = packet[i].seq
        BY <2>1, <3>3, <3>4
      <3> QED BY <3>6, <3>7
    <2>7. Accounted'
      BY <1>7, <2>4, <2>5, <2>6
    <2>8. ASSUME NEW m \in Nat, NEW o \in 0 .. PacketLen - 1, m \in 1 .. Len(far_inq'[i]),
                 Begun(i)' + (m - 1) * PacketLen + o + 1 <= Len(wire[i])
          PROVE  wire[i][Begun(i)' + (m - 1) * PacketLen + o + 1] = <<far_inq'[i][m], o>>
      <3>1. m + 1 \in 1 .. l /\ far_inq'[i][m] = q[m + 1]
        BY <2>1, <2>3, <2>8
      <3>2. Begun(i)' + (m - 1) * d = begun + ((m + 1) - 1) * d
        <4> DEFINE x == (m - 1) * d
                   y == ((m + 1) - 1) * d
        <4>1. m - 1 \in Nat /\ (m - 1) + 1 = (m + 1) - 1
          BY <1>1, <2>8
        <4>2. ((m - 1) + 1) * d = x + d /\ x \in Nat
          <5> HIDE DEF d
          <5> QED BY <1>1, <4>1, NextProduct DEF d
        <4>3. y = x + d
          BY <4>1, <4>2
        <4> HIDE DEF x, y, d, begun
        <4> QED BY <1>1, <2>4, <4>2, <4>3
      <3> DEFINE k == Begun(i) + ((m + 1) - 1) * PacketLen + o + 1
      <3>3. Begun(i)' + (m - 1) * PacketLen + o + 1 = k
        BY <3>2
      <3>4. k <= Len(wire[i]) => wire[i][k] = <<far_inq[i][m + 1], o>>
        BY <3>1 DEF Contents
      <3> HIDE DEF k
      <3> QED BY <2>8, <3>1, <3>3, <3>4
    <2>9. Contents'
      BY <1>8, <2>8 DEF Contents
    <2> QED BY <2>7, <2>9
  <1> QED BY <1>9, <1>10

-----------------------------------------------------------------------------
(* Steps of the two processes.                                             *)

(* What a process does, and its host; the rest of Next is the network.     *)
OwnStep ==
  \/ CheckClosed \/ HostIn \/ Inbound \/ HostSide
  \/ \E i \in Agents : RecvHost(i) \/ AgentOut(i) \/ ResumeSend(i) \/ SendAgent(i)

(* What the receiver learns of it: a packet that is numbered is expected.  *)
Announced ==
  /\ far_in_seq' = send_seq'
  /\ far_inq' = IF send_seq' = send_seq THEN far_inq
                ELSE [far_inq EXCEPT ![cursor.agent_id] = Append(@, send_seq)]
  /\ UNCHANGED <<far_taken, far_avail, far_peer>>

(* A process reads n units of socket i, at most to the end of a packet.    *)
TakesUnits(i, n) ==
  /\ n <= avail[i] /\ taken[i] + n <= PacketLen
  /\ avail' = [avail EXCEPT ![i] = @ - n]
  /\ taken' = [taken EXCEPT ![i] = (@ + n) % PacketLen]
  /\ inq' = IF taken[i] + n = PacketLen THEN [inq EXCEPT ![i] = Tail(@)] ELSE inq

(* A step of a process is a step of its specification.                     *)
LEMMA OwnStepIsNext ==
  ASSUME OwnStep
  PROVE  Next
  BY DEF OwnStep, Next, Outbound

(* What a step of a process changes of its sockets: it reads from one of   *)
(* them or from none, and learns nothing of its peers.                     *)
LEMMA OwnStepReads ==
  ASSUME ProcessInv, OwnStep
  PROVE  /\ UNCHANGED <<in_seq, peer>>
         /\ UNCHANGED <<inq, taken, avail>> \/ \E i \in Agents, n \in Nat : TakesUnits(i, n)
  <1>1. ASSUME NEW i \in Agents, AgentIn(i)
        PROVE  /\ UNCHANGED <<in_seq, peer>>
               /\ UNCHANGED <<inq, taken, avail>> \/ \E n \in Nat : TakesUnits(i, n)
    <2>1. UNCHANGED <<in_seq, peer>>
      BY <1>1 DEF AgentIn, inbound_vars
    <2>2. Progress(i) = taken[i] /\ (Take(i, Readable(i)) \/ UNCHANGED queue_vars)
      BY <1>1, AgentInFills DEF ProcessInv, DeliveryInv, OrderInv
    <2>3. CASE Take(i, Readable(i))
      <3> DEFINE n == Readable(i)
      <3>1. n \in Nat /\ n <= avail[i] /\ taken[i] + n <= PacketLen
        <4>1. /\ n \in Nat /\ n <= avail[i] /\ Reached(i) \in 0 .. PacketLen
              /\ Reached(i) = Progress(i) + n
          BY ReadableType DEF ProcessInv, DeliveryInv, IInv
        <4> QED BY <2>2, <4>1, Positive
      <3> QED BY <2>1, <2>3, <3>1 DEF Take, TakesUnits
    <2>4. CASE agent_packet_index_in[i] = EMPTY /\ FreeSlots(i) = {}
      BY <1>1, <2>1, <2>4 DEF AgentIn, inbound_vars
    <2> QED BY <1>1, <2>3, <2>4 DEF AgentIn
  <1>2. CheckClosed \/ HostIn \/ HostOut \/ SendHost => UNCHANGED <<in_seq, peer, inq, taken, avail>>
    BY DEF CheckClosed, HostIn, HostOut, SendHost, inbound_vars
  <1>3. HostSide => UNCHANGED <<in_seq, peer, inq, taken, avail>>
    BY DEF HostSide, HostWrites, HostReads, HostCloses, HostResets, inbound_vars
  <1>4. ASSUME NEW i \in Agents, RecvHost(i) \/ AgentOut(i) \/ ResumeSend(i) \/ SendAgent(i)
        PROVE  UNCHANGED <<in_seq, peer, inq, taken, avail>>
    BY <1>4 DEF RecvHost, AgentOut, ResumeSend, SendAgent, AgentAccepts, AgentBlocks, AgentSendFails,
                inbound_vars
  <1> QED BY <1>1, <1>2, <1>3, <1>4 DEF OwnStep, Inbound

(* Only a send makes room in, or rather takes room from, a socket.         *)
LEMMA OwnStepRoom ==
  ASSUME OwnStep, \A i \in Agents : ~(SendAgent(i) /\ AgentAccepts(i))
  PROVE  room' = room
  <1>1. CheckClosed \/ HostIn \/ HostOut \/ SendHost => room' = room
    BY DEF CheckClosed, HostIn, HostOut, SendHost, outbound_vars
  <1>2. HostSide => room' = room
    BY DEF HostSide, HostWrites, HostReads, HostCloses, HostResets, outbound_vars
  <1>3. ASSUME NEW i \in Agents, RecvHost(i) \/ AgentOut(i) \/ ResumeSend(i) \/ SendAgent(i) \/ AgentIn(i)
        PROVE  room' = room
    BY <1>3 DEF RecvHost, AgentOut, ResumeSend, SendAgent, AgentBlocks, AgentSendFails, AgentIn,
                outbound_vars
  <1> QED BY <1>1, <1>2, <1>3 DEF OwnStep, Inbound

(* The host writes a chunk, or what is written stays: a chunk that is read *)
(* was written before.                                                     *)
LEMMA OwnStepWrites ==
  ASSUME ProcessInv, OwnStep
  PROVE  send_seq' + host_in' \in {send_seq + host_in, send_seq + host_in + 1}
  <1>1. send_seq \in Nat /\ host_in \in Nat
    BY DEF ProcessInv, DeliveryInv, IInv, TypeOK, SendTypes, HostTypes
  <1>2. UNCHANGED <<send_seq, host_in>> => send_seq' + host_in' = send_seq + host_in
    OBVIOUS
  <1>3. CheckClosed \/ HostIn \/ HostOut \/ SendHost => UNCHANGED <<send_seq, host_in>>
    BY DEF CheckClosed, HostIn, HostOut, SendHost, send_vars, host_vars
  <1>4. HostWrites => send_seq' + host_in' = send_seq + host_in + 1
    BY <1>1 DEF HostWrites, process_vars, send_vars
  <1>5. HostReads \/ HostCloses \/ HostResets => UNCHANGED <<send_seq, host_in>>
    BY DEF HostReads, HostCloses, HostResets, process_vars, send_vars
  <1>6. ASSUME NEW i \in Agents, RecvHost(i)
        PROVE  send_seq' + host_in' = send_seq + host_in
    <2>1. \/ UNCHANGED <<send_seq, host_in>>
          \/ send_seq' = send_seq + 1 /\ host_in > 0 /\ host_in' = host_in - 1
      BY <1>6 DEF RecvHost, send_vars
    <2> QED BY <1>1, <2>1
  <1>7. ASSUME NEW i \in Agents, AgentOut(i) \/ ResumeSend(i) \/ SendAgent(i) \/ AgentIn(i)
        PROVE  UNCHANGED <<send_seq, host_in>>
    BY <1>7 DEF AgentOut, ResumeSend, SendAgent, AgentIn, send_vars, host_vars
  <1> QED BY <1>2, <1>3, <1>4, <1>5, <1>6, <1>7 DEF OwnStep, Inbound, HostSide

(* The host never writes more than its bound, whoever reads it.            *)
LEMMA BoundKept ==
  ASSUME ProcessInv, Numbered, [Next]_vars
  PROVE  send_seq' + host_in' <= OutChunks
  <1>1. /\ send_seq \in Nat /\ host_in \in Nat /\ OutChunks \in Nat /\ send_seq + host_in <= OutChunks
        /\ host \in PeerStates
    BY DataTransferAssumption DEF ProcessInv, DeliveryInv, IInv, TypeOK, SendTypes, HostTypes, Numbered
  <1>2. UNCHANGED <<send_seq, host_in>> => send_seq' + host_in' <= OutChunks
    BY <1>1
  <1>3. CheckClosed \/ HostIn \/ HostOut \/ SendHost => UNCHANGED <<send_seq, host_in>>
    BY DEF CheckClosed, HostIn, HostOut, SendHost, send_vars, host_vars
  <1>4. HostWrites => send_seq' + host_in' <= OutChunks
    BY <1>1 DEF HostWrites, process_vars, send_vars
  <1>5. HostReads \/ HostCloses \/ HostResets => UNCHANGED <<send_seq, host_in>>
    BY DEF HostReads, HostCloses, HostResets, process_vars, send_vars
  <1>6. ASSUME NEW i \in Agents, RecvHost(i)
        PROVE  send_seq' + host_in' <= OutChunks
    <2>1. \/ host_in > 0 /\ host_in' = host_in - 1 /\ send_seq' = send_seq + 1
          \/ UNCHANGED <<send_seq, host_in>>
      BY <1>6 DEF RecvHost, send_vars
    <2> QED BY <1>1, <2>1
  <1>7. ASSUME NEW i \in Agents, AgentOut(i) \/ ResumeSend(i) \/ SendAgent(i) \/ AgentIn(i)
        PROVE  UNCHANGED <<send_seq, host_in>>
    BY <1>7 DEF AgentOut, ResumeSend, SendAgent, AgentIn, send_vars, host_vars
  <1>8. RemoteSide \/ Ended \/ UNCHANGED vars => UNCHANGED <<send_seq, host_in>>
    BY DEF RemoteSide, RemoteSends, Arrive, Drain, RemoteCloses, RemoteResets, Ended, vars,
           process_vars, send_vars, host_vars
  <1> QED BY <1>2, <1>3, <1>4, <1>5, <1>6, <1>7, <1>8 DEF Next, Outbound, Inbound, HostSide

-----------------------------------------------------------------------------
(* What they do to the link.                                               *)

(* A chunk is read by one action alone.                                    *)
LEMMA ReadsOnce ==
  ASSUME ProcessInv, NEW i \in Agents, RecvHost(i), send_seq' # send_seq
  PROVE  /\ i = cursor.agent_id /\ host_in > 0 /\ host_in' = host_in - 1
         /\ send_seq' = send_seq + 1 /\ room' = room
  BY DEF RecvHost, send_vars, outbound_vars

(* The sender moves and the receiver learns of it: the link is kept.       *)
LEMMA SenderKeepsLink ==
  ASSUME ProcessInv, FarTypes, LinkInv, OwnStep, Announced
  PROVE  LinkInv'
  <1>1. [Next]_vars /\ IInv /\ OrderInv /\ OutInv
    BY OwnStepIsNext DEF ProcessInv, DeliveryInv
  <1>2. Numbered'
    BY <1>1, BoundKept DEF Numbered, LinkInv, Announced
  <1>3. PeersShut'
    BY <1>1, ShutStays DEF PeersShut, LinkInv, Announced
  <1>4. ASSUME NEW i \in Agents, RecvHost(i), send_seq' # send_seq
        PROVE  Accounted' /\ Contents'
    BY <1>1, <1>4, ReadsOnce, LinkReads DEF LinkInv, Announced
  <1>5. ASSUME NEW i \in Agents, SendAgent(i), AgentAccepts(i)
        PROVE  Accounted' /\ Contents'
    <2>1. send_seq' = send_seq
      BY <1>5 DEF SendAgent
    <2> QED BY <1>1, <1>5, <2>1, LinkSends DEF LinkInv, Announced
  <1>6. ASSUME \A i \in Agents : ~(RecvHost(i) /\ send_seq' # send_seq) /\ ~(SendAgent(i) /\ AgentAccepts(i))
        PROVE  Accounted' /\ Contents'
    <2>1. NothingSent /\ room' = room
      BY <1>1, <1>6, SenderSteps, OwnStepRoom
    <2>2. UNCHANGED <<far_inq, far_taken, far_avail>>
      BY <2>1 DEF Announced, NothingSent
    <2> QED BY <2>1, <2>2, LinkKept DEF LinkInv, OnTheWay
  <1>7. Accounted' /\ Contents'
    BY <1>4, <1>5, <1>6
  <1> QED BY <1>2, <1>3, <1>7 DEF LinkInv

(* What the receiver sees is what DataTransfer lets a remote agent do: at  *)
(* most, it numbers a packet for a socket that is open.                    *)
LEMMA SenderIsRemote ==
  ASSUME ProcessInv, FarTypes, LinkInv, OwnStep, Announced
  PROVE  \/ UNCHANGED far_vars
         \/ \E i \in Agents :
              /\ far_in_seq < OutChunks
              /\ far_peer[i] = "open"
              /\ far_inq' = [far_inq EXCEPT ![i] = Append(@, far_in_seq)]
              /\ far_in_seq' = far_in_seq + 1
              /\ UNCHANGED <<far_taken, far_avail, far_peer>>
  <1>1. [Next]_vars /\ IInv /\ OrderInv /\ OutInv
    BY OwnStepIsNext DEF ProcessInv, DeliveryInv
  <1>2. CASE send_seq' = send_seq
    BY <1>2 DEF LinkInv, Numbered, Announced, far_vars
  <1>3. CASE send_seq' # send_seq
    <2>1. PICK i \in Agents : RecvHost(i)
      <3>1. (\E i \in Agents : RecvHost(i)) \/ NothingSent \/ (\E i \in Agents : SendAgent(i))
        BY <1>1, SenderSteps
      <3> QED BY <1>3, <3>1 DEF NothingSent, SendAgent
    <2>2. i = cursor.agent_id /\ host_in > 0 /\ send_seq' = send_seq + 1
      BY <1>3, <2>1, ReadsOnce
    <2>3. i \notin closed /\ pc = "read_host_send_agent"
      BY <1>1, <2>1, <2>2 DEF OutInv, PickedOpen, RecvHost
    <2>4. i \notin Shut
      BY <2>3 DEF Shut, Exits, Fatal
    <2>5. far_peer[i] = "open"
      BY <2>4 DEF LinkInv, PeersShut
    <2>6. far_in_seq = send_seq /\ far_in_seq < OutChunks
      <3>1. /\ send_seq \in Nat /\ host_in \in Nat /\ OutChunks \in Nat
            /\ send_seq + host_in <= OutChunks /\ far_in_seq = send_seq
        BY <1>1, DataTransferAssumption DEF IInv, TypeOK, SendTypes, HostTypes, LinkInv, Numbered
      <3> QED BY <2>2, <3>1
    <2> QED BY <1>3, <2>2, <2>5, <2>6 DEF Announced
  <1> QED BY <1>2, <1>3

(* A unit crosses: there is one to expect for the receiver that finds it.  *)
LEMMA CrossingKeepsLink ==
  ASSUME ProcessInv, FarTypes, LinkInv, NEW i \in Agents, Drain(i),
         far_avail' = [far_avail EXCEPT ![i] = @ + 1],
         UNCHANGED <<far_in_seq, far_inq, far_taken, far_peer>>
  PROVE  LinkInv' /\ Len(far_inq[i]) * PacketLen - far_taken[i] - far_avail[i] > 0
  <1>1. [Next]_vars /\ IInv /\ OrderInv /\ OutInv
    BY DEF ProcessInv, DeliveryInv, Next, RemoteSide
  <1>2. /\ UNCHANGED <<pc, cursor, packet, send_seq, closed, wire, host_in>>
        /\ room[i] < SndBuf /\ room' = [room EXCEPT ![i] = @ + 1]
    BY DEF Drain, process_vars, send_vars, host_vars
  <1>3. Numbered' /\ PeersShut'
    BY <1>2 DEF LinkInv, Numbered, PeersShut, Shut
  <1>4. NothingSent
    BY <1>2 DEF NothingSent, Usable, Alive, Owed, Progressed, Pending
  <1>5. \A j \in Agents : OnTheWay(j)' = OnTheWay(j)
    <2>1. room \in [Agents -> 0 .. SndBuf] /\ far_avail \in [Agents -> 0 .. RcvBuf]
      BY <1>1 DEF IInv, TypeOK, OutboundTypes, FarTypes
    <2>2. room'[i] = room[i] + 1 /\ far_avail'[i] = far_avail[i] + 1
      BY <1>2, <2>1
    <2>3. SndBuf - (room[i] + 1) + (far_avail[i] + 1) = SndBuf - room[i] + far_avail[i]
      <3>1. room[i] \in 0 .. SndBuf /\ far_avail[i] \in Nat /\ SndBuf \in Nat
        BY <1>1, LinkTypes
      <3> QED BY <3>1
    <2>4. OnTheWay(i)' = OnTheWay(i)
      BY <2>2, <2>3 DEF OnTheWay
    <2>5. \A j \in Agents : j # i => OnTheWay(j)' = OnTheWay(j)
      BY <1>2, <2>1 DEF OnTheWay
    <2> QED BY <2>4, <2>5
  <1>6. Accounted' /\ Contents'
    BY <1>4, <1>5, LinkKept DEF LinkInv
  <1>7. Len(far_inq[i]) * PacketLen - far_taken[i] - far_avail[i] > 0
    <2>1. /\ room[i] \in 0 .. SndBuf /\ far_avail[i] \in Nat /\ SndBuf \in Nat /\ Expected(i) \in Int
      BY <1>1, LinkTypes
    <2>2. SndBuf - room[i] + far_avail[i] <= Expected(i)
      BY DEF LinkInv, Accounted, OnTheWay
    <2>3. Expected(i) - far_avail[i] > 0
      BY <1>2, <2>1, <2>2
    <2> QED BY <2>3 DEF Expected
  <1> QED BY <1>3, <1>6, <1>7 DEF LinkInv

(* The sender stands still, or finds something new on its own sockets: the *)
(* link is kept while the receiver learns nothing but that a socket which  *)
(* was closed has ended.                                                   *)
LEMMA QuietKeepsLink ==
  ASSUME LinkInv, UNCHANGED <<pc, cursor, packet, send_seq, closed, host_in, room, wire>>,
         UNCHANGED <<far_in_seq, far_inq, far_taken, far_avail>>,
         \A i \in Agents : far_peer'[i] # far_peer[i] => i \in Shut
  PROVE  LinkInv'
  <1>1. Numbered' /\ PeersShut'
    BY DEF LinkInv, Numbered, PeersShut, Shut
  <1>2. NothingSent
    BY DEF NothingSent, Usable, Alive, Owed, Progressed, Pending
  <1>3. Accounted' /\ Contents'
    BY <1>2, LinkKept DEF LinkInv, OnTheWay
  <1> QED BY <1>1, <1>3 DEF LinkInv

(* The receiver reads.                                                     *)
LEMMA ReceiverKeepsLink ==
  ASSUME ProcessInv, FarTypes, LinkInv, NEW i \in Agents, NEW n \in Nat,
         n <= far_avail[i], far_taken[i] + n <= PacketLen,
         far_avail' = [far_avail EXCEPT ![i] = @ - n],
         far_taken' = [far_taken EXCEPT ![i] = (@ + n) % PacketLen],
         far_inq' = IF far_taken[i] + n = PacketLen THEN [far_inq EXCEPT ![i] = Tail(@)] ELSE far_inq,
         UNCHANGED <<far_in_seq, far_peer>>,
         UNCHANGED <<pc, cursor, packet, send_seq, closed, host_in, room, wire>>
  PROVE  LinkInv'
  <1>1. Numbered' /\ PeersShut'
    BY DEF LinkInv, Numbered, PeersShut, Shut
  <1>2. Accounted' /\ Contents'
    BY LinkTakes DEF LinkInv, ProcessInv, DeliveryInv
  <1> QED BY <1>1, <1>2 DEF LinkInv

(* ProcessInv is kept by every step of a process and of its surroundings.  *)
LEMMA NextProcess ==
  ASSUME ProcessInv, [Next]_vars
  PROVE  ProcessInv'
  BY NextDelivery, NextOut DEF ProcessInv, DeliveryInv

(* What the host of a process gets follows on what it has.                 *)
LEMMA GetsWhatFollows ==
  ASSUME ProcessInv, [Next]_vars, Got' # Got
  PROVE  \E n \in 1 .. Sent - Len(Got) : Got' = Got \o [k \in 1 .. n |-> Len(Got) + k - 1]
  BY StreamStep DEF ProcessInv, Inward!Write, Inward!Read, Sent, Got

(* Nothing was written or read when the two begin.                         *)
LEMMA InitLink ==
  ASSUME Init, far_in_seq = 0, far_inq = [i \in Agents |-> <<>>], far_taken = [i \in Agents |-> 0],
         far_avail = [i \in Agents |-> 0], far_peer = [i \in Agents |-> "open"]
  PROVE  ProcessInv /\ LinkInv
  <1>1. ProcessInv
    <2>1. InOrderDelivery
      BY DEF Init, InOrderDelivery
    <2> QED BY <2>1, InitIInv, InitOrder, InitUnits, InitOut DEF ProcessInv, DeliveryInv
  <1>2. Numbered /\ PeersShut
    BY DataTransferAssumption DEF Init, Numbered, PeersShut
  <1>3. /\ \A i \in Agents : /\ far_inq[i] = <<>> /\ Len(far_inq[i]) = 0 /\ far_taken[i] = 0 /\ far_avail[i] = 0
                             /\ wire[i] = <<>> /\ Len(wire[i]) = 0 /\ room[i] = SndBuf /\ ~Pending(i)
        /\ SndBuf \in Nat /\ PacketLen \in Nat
    BY Positive DEF Init, Pending
  <1>4. 0 * PacketLen = 0 /\ SndBuf - SndBuf + 0 = 0
    BY <1>3
  <1>5. \A i \in Agents : OnTheWay(i) = 0 /\ Expected(i) = 0 /\ Begun(i) = 0 /\ Owed(i) = 0
    BY <1>3, <1>4 DEF OnTheWay, Expected, Begun, Owed
  <1>6. Accounted
    BY <1>3, <1>5 DEF Accounted
  <1>7. Contents
    BY <1>3 DEF Contents
  <1> QED BY <1>1, <1>2, <1>6, <1>7 DEF LinkInv
===============================================================================
