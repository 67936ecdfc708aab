------------------------------ MODULE SetupProofs ------------------------------
(***************************************************************************)
(* Setup, for any number of transfers and connections, in two parts.       *)
(*                                                                         *)
(* Whatever comes, and whenever: the types, that the counter of a client   *)
(* is exact, and that a transfer is handed to one child, which shares no   *)
(* socket with a client of the daemon.  Here it is enough that a socket is *)
(* not polled any more once it is identified, and that the connections of  *)
(* the remote agent that are still to come fit the slots that are left.    *)
(*                                                                         *)
(* When no request comes while another client is being connected           *)
(* (~Overlap): that a child's sockets are all connected, and that the      *)
(* daemon survives as long as no client is given up.  This needs that an   *)
(* event finds, in the slot it names, the socket it was registered for; a  *)
(* second connect, which run Rematch shows, replaces that socket.          *)
(***************************************************************************)
EXTENDS Setup, FiniteSetTheorems, TLAPS

(* The sockets accepted from the remote agent.                             *)
Accepted == AgentRole \X Slots \X {0}

(* What is registered or waited for is a socket.                           *)
RealSockets ==
  /\ NoSocket \notin event_pool
  /\ agent_fd_pool \subseteq Accepted
  /\ pc = "get_uuid" => busy \in agent_fd_pool

TypeInv == TypeOK /\ RealSockets

-----------------------------------------------------------------------------
(* The invariant of the first part.                                        *)

(* What became of a connect is final, and only what is connected is        *)
(* identified.  Accepted sockets are connected.                            *)
Outcomes ==
  /\ connected \intersect refused = {}
  /\ identified \subseteq connected
  /\ NoSocket \notin connected \union refused
  /\ \A s \in refused : s[3] # 0
  /\ \A s \in event_pool : s[3] = 0 => s \in connected
  /\ agent_fd_pool \subseteq connected

(* The agent sockets of a CLIENT transfer are its own, and there are none  *)
(* before its host came.                                                   *)
OwnSockets ==
  \A t \in ClientRole :
    /\ t \in hosts => /\ t \notin clients_hashes /\ num_parallel_connections[t] = 0
                      /\ \A k \in Slots : agent_sock[t][k] = NoSocket
    /\ \A k \in Slots :
         \/ agent_sock[t][k] = NoSocket
         \/ /\ agent_sock[t][k][1] = t /\ agent_sock[t][k][2] = k
            /\ agent_sock[t][k][3] # 0 /\ agent_sock[t][k][3] <= generation[t]

(* What is known of such a socket is of one that was created, so that the  *)
(* sockets of the next connect are new, and its slot is not empty since.   *)
Known == connected \union refused \union identified \union event_pool
Earlier ==
  \A s \in Known : s[1] \in ClientRole /\ s[2] # HostSlot =>
    s[3] <= generation[s[1]] /\ agent_sock[s[1]][s[2]] # NoSocket

(* An agent socket is polled until it is identified.                       *)
Unsent ==
  \A s \in event_pool : s[2] # HostSlot =>
    IF s[1] \in ClientRole THEN s \notin identified ELSE s \in agent_fd_pool

GenInv == Outcomes /\ OwnSockets /\ Earlier /\ Unsent

(* The connections of the remote agent that are not in a client's slots,   *)
(* nor were in those of one that was freed.                                *)
Coming(t) == incoming[t] \union {k \in Slots : <<t, k, 0>> \in agent_fd_pool}
AcceptedOnce == \A t \in AgentRole, k \in Slots : <<t, k, 0>> \in agent_fd_pool => k \notin incoming[t]

(* The first slots of an AGENT client hold connections that came, each its *)
(* own, the others none.                                                   *)
AgentSlots ==
  \A t \in AgentRole \intersect clients_hashes :
    /\ \A k \in Slots :
         IF k < num_parallel_connections[t]
         THEN /\ agent_sock[t][k] \in identified
              /\ \E j \in Slots \ Coming(t) : agent_sock[t][k] = <<t, j, 0>>
         ELSE agent_sock[t][k] = NoSocket
    /\ \A j, k \in Slots : agent_sock[t][j] = agent_sock[t][k] /\ agent_sock[t][k] # NoSocket => j = k

(* So there are slots left for those that are still to come.               *)
Room ==
  \A t \in AgentRole \intersect clients_hashes :
    num_parallel_connections[t] + Cardinality(Coming(t)) <= Connections

AgentCount == AcceptedOnce /\ AgentSlots /\ Room

(* send_uuid works on the socket of a client's slot.                       *)
SendsOwn ==
  pc = "send_uuid" =>
    /\ busy # NoSocket
    /\ \E t \in ClientRole \intersect clients_hashes, k \in Slots : busy = agent_sock[t][k]

(* The slots of a CLIENT that the counter counts: the one that send_uuid   *)
(* works on was counted before, unless send_uuid is about to fail because  *)
(* its socket is not polled any more.                                      *)
Counted(t) ==
  {k \in Slots : \/ agent_sock[t][k] \in identified
                 \/ pc = "send_uuid" /\ busy = agent_sock[t][k]}
CountedRight ==
  pc \in Running /\ (pc = "send_uuid" => busy \in event_pool) =>
    \A t \in ClientRole \intersect clients_hashes : num_parallel_connections[t] = Cardinality(Counted(t))

ClientCount == SendsOwn /\ CountedRight

(* What was given to a child: nothing of that transfer can come again, and *)
(* all its agent sockets are there.                                        *)
ChildrenApart ==
  \A c \in forked :
    /\ c[1] \notin clients_hashes
    /\ c[1] \in ClientRole => c[1] \notin hosts
    /\ c[1] \in AgentRole => Coming(c[1]) = {}
    /\ \A k \in Slots : c[3][k][1] = c[1]
ForkedOnce == \A c, d \in forked : c[1] = d[1] => c = d
ForkedSlots ==
  \A c \in forked :
    /\ \A k \in Slots : c[3][k] \in connected \intersect identified
    /\ \A j, k \in Slots : c[3][j] = c[3][k] => j = k

Children == ChildrenApart /\ ForkedOnce /\ ForkedSlots

SetupInv == TypeInv /\ GenInv /\ AgentCount /\ ClientCount /\ Children

-----------------------------------------------------------------------------
(* What the second part adds.                                              *)

(* A request comes once.                                                   *)
RequestsOnce == messages \intersect requests = {}

(* A CLIENT transfer has agent sockets only once its request was matched.  *)
ClientSlots ==
  \A t \in ClientRole, k \in Slots :
    agent_sock[t][k] # NoSocket => t \notin hosts /\ (t \in clients_hashes => t \in requests)

(* They are those of one connect: no other is known to anyone.             *)
Current ==
  \A s \in Known : s[1] \in ClientRole /\ s[2] # HostSlot => s = agent_sock[s[1]][s[2]]

(* A host socket is polled for the client whose socket it is, and an AGENT *)
(* client has none before its request was matched.                         *)
HostPolled ==
  /\ \A s \in event_pool : s[2] = HostSlot => s[1] \in clients_hashes /\ s = host_sock[s[1]]
  /\ \A t \in AgentRole \intersect clients_hashes : t \notin requests => host_sock[t] = NoSocket

(* An agent socket is polled for its client, or left behind when that was  *)
(* given up.                                                               *)
AgentPolled ==
  \A s \in event_pool : s[2] # HostSlot /\ s[1] \in ClientRole => s[1] \in clients_hashes \union given_up

SocketInv == RequestsOnce /\ ClientSlots /\ Current /\ HostPolled /\ AgentPolled

(* So send_uuid works on a socket that is connected and polled.            *)
Sending == pc = "send_uuid" => busy \in event_pool \intersect connected

(* host_fd_poll is IN only for a host that is connected.                   *)
HostIsUp ==
  \A t \in clients_hashes : host_fd_poll[t] = "IN" => host_sock[t] \in connected
ForkedHost == \A c \in forked : c[2] \in connected

(* Only the event of a client that was given up ends the daemon, or a      *)
(* connection that was reset.                                              *)
FatalOnlyAfter == pc \in Fatal => given_up # {} \/ reset # {}

CalmInv == SocketInv /\ Sending /\ HostIsUp /\ ForkedHost /\ FatalOnlyAfter

-----------------------------------------------------------------------------
(* Sockets.                                                                *)

(* A socket names its transfer, its slot and its generation.               *)
LEMMA SocketParts ==
  /\ \A s \in Sockets : s # NoSocket =>
       s[1] \in Transfers /\ s[2] \in Slots \union {HostSlot} /\ s[3] \in Nat /\ s = <<s[1], s[2], s[3]>>
  /\ \A t, k, g : <<t, k, g>> # NoSocket
  /\ \A t \in Transfers, k \in Slots \union {HostSlot}, g \in Nat : <<t, k, g>> \in Sockets
  /\ HostSlot \notin Slots
  BY SetupAssumption DEF Sockets, NoSocket, Slots, HostSlot

(* Those that were accepted.                                               *)
LEMMA AcceptedParts ==
  /\ Accepted \subseteq Sockets /\ NoSocket \notin Accepted
  /\ \A s \in Accepted : s[1] \in AgentRole /\ s[2] \in Slots /\ s[3] = 0 /\ s = <<s[1], s[2], 0>>
  /\ \A t \in AgentRole, k \in Slots : <<t, k, 0>> \in Accepted
  BY SetupAssumption DEF Accepted, Sockets, Transfers, NoSocket

-----------------------------------------------------------------------------
(* Types.                                                                  *)

(* What an event is registered for names a transfer and a slot.            *)
LEMMA Registered ==
  ASSUME TypeInv, NEW s \in event_pool
  PROVE  /\ s \in Sockets \ {NoSocket} /\ s[1] \in Transfers
         /\ s[2] # HostSlot => s[2] \in Slots
  BY SocketParts DEF TypeInv, TypeOK, RealSockets

(* The sockets that connect_agent_side and connect_host_side create.       *)
LEMMA NewSockets ==
  ASSUME TypeInv
  PROVE  /\ \A t \in Transfers, k \in Slots \union {HostSlot} :
              <<t, k, generation[t] + 1>> \in Sockets \ {NoSocket}
         /\ \A t \in ClientRole \union AgentRole, k \in Slots : <<t, k, 0>> \in Sockets \ {NoSocket}
         /\ \A t \in ClientRole : <<t, HostSlot, 0>> \in Sockets \ {NoSocket}
  <1>1. \A t \in Transfers : generation[t] + 1 \in Nat
    BY DEF TypeInv, TypeOK
  <1>2. \A t \in Transfers, k \in Slots \union {HostSlot} :
          <<t, k, generation[t] + 1>> \in Sockets \ {NoSocket}
    BY <1>1, SocketParts
  <1>3. \A t \in Transfers, k \in Slots \union {HostSlot} : <<t, k, 0>> \in Sockets \ {NoSocket}
    BY SocketParts
  <1> QED BY <1>2, <1>3 DEF Transfers

(* A controller message.                                                   *)
LEMMA MessageTypes ==
  ASSUME TypeInv, NEW t \in Transfers, ControllerMessage(t)
  PROVE  TypeInv'
  <1> DEFINE found == clients_hashes \intersect (requests \union {t})
             C == found \intersect ClientRole
             H == found \intersect AgentRole
             socks == NewAgentSocks(C)
  <1>1. C \subseteq Transfers /\ H \subseteq Transfers
    BY DEF TypeInv, TypeOK
  <1>2. /\ \A c \in C, k \in Slots : socks[c][k] \in Sockets \ {NoSocket}
        /\ \A c \in C : socks[c] \in [Slots -> Sockets]
        /\ \A c \in H : NewHostSocks(H)[c] \in Sockets \ {NoSocket}
    BY <1>1, NewSockets DEF NewAgentSocks, NewHostSocks
  <1>3. agent_sock' \in [Transfers -> [Slots -> Sockets]] /\ host_sock' \in [Transfers -> Sockets]
    BY <1>2 DEF ControllerMessage, Override, NewAgentSocks, NewHostSocks, TypeInv, TypeOK
  <1>4. /\ num_parallel_connections' \in [Transfers -> Nat]
        /\ host_fd_poll' \in [Transfers -> {"OFF", "IN"}]
        /\ generation' \in [Transfers -> Nat]
    BY DEF ControllerMessage, Override, TypeInv, TypeOK
  <1>5. event_pool' \subseteq Sockets /\ NoSocket \notin event_pool'
    <2> DEFINE A == {socks[c][k] : c \in C, k \in Slots}
               B == {NewHostSocks(H)[c] : c \in H}
    <2>1. event_pool' = event_pool \union A \union B
      BY DEF ControllerMessage
    <2>2. \A x \in A : x \in Sockets \ {NoSocket}
      <3> HIDE DEF socks, C
      <3> QED BY <1>2
    <2>3. \A x \in B : x \in Sockets \ {NoSocket}
      <3> HIDE DEF H
      <3> QED BY <1>2
    <2> HIDE DEF A, B
    <2> QED BY <2>1, <2>2, <2>3 DEF TypeInv, TypeOK, RealSockets
  <1>6. UNCHANGED <<busy, clients_hashes, agent_fd_pool, child_vars, kernel_vars>> /\ pc' = "scan"
    BY DEF ControllerMessage
  <1>7. messages' \subseteq Transfers /\ requests' \subseteq Transfers
    BY DEF ControllerMessage, TypeInv, TypeOK
  <1> QED BY <1>3, <1>4, <1>5, <1>6, <1>7 DEF TypeInv, TypeOK, RealSockets, Running, child_vars, kernel_vars

(* A host that connects.                                                   *)
LEMMA HostTypes ==
  ASSUME TypeInv, NEW t \in ClientRole, HostSideConnect(t)
  PROVE  TypeInv'
  <1> DEFINE socks == NewAgentSocks({t})
  <1>1. t \in Transfers /\ <<t, HostSlot, 0>> \in Sockets \ {NoSocket}
    BY NewSockets DEF Transfers
  <1>2. /\ \A k \in Slots : socks[t][k] \in Sockets \ {NoSocket}
        /\ socks[t] \in [Slots -> Sockets]
    BY <1>1, NewSockets DEF NewAgentSocks
  <1>3. agent_sock' \in [Transfers -> [Slots -> Sockets]]
    BY <1>2 DEF HostSideConnect, Override, NewAgentSocks, TypeInv, TypeOK
  <1>4. /\ host_sock' \in [Transfers -> Sockets] /\ host_fd_poll' \in [Transfers -> {"OFF", "IN"}]
        /\ generation' \in [Transfers -> Nat] /\ clients_hashes' \subseteq Transfers
    BY <1>1 DEF HostSideConnect, TypeInv, TypeOK
  <1>7. connected' \subseteq Sockets /\ hosts' \subseteq ClientRole
    BY <1>1 DEF HostSideConnect, TypeInv, TypeOK
  <1>5. event_pool' \subseteq Sockets /\ NoSocket \notin event_pool'
    <2> DEFINE A == {socks[t][k] : k \in Slots}
    <2>1. event_pool' \subseteq event_pool \union {<<t, HostSlot, 0>>} \union A
      BY DEF HostSideConnect
    <2>2. A \subseteq Sockets \ {NoSocket}
      BY <1>2
    <2> QED BY <1>1, <2>1, <2>2 DEF TypeInv, TypeOK, RealSockets
  <1>6. /\ pc' = "scan"
        /\ UNCHANGED <<busy, requests, num_parallel_connections, agent_fd_pool, child_vars, messages,
                       incoming, refused, identified, hungup, reset>>
    BY DEF HostSideConnect
  <1> QED BY <1>3, <1>4, <1>5, <1>6, <1>7 DEF TypeInv, TypeOK, RealSockets, Running, child_vars

(* A connection that is confirmed.                                         *)
LEMMA ConfirmTypes ==
  ASSUME TypeInv, ConfirmClient
  PROVE  TypeInv'
  <1> DEFINE t == busy[1]
             n == NextSlot(t)
             new == <<t, HostSlot, generation[t] + 1>>
  <1>1. busy \in Accepted /\ busy \in Sockets /\ t \in Transfers
    BY AcceptedParts DEF ConfirmClient, TypeInv, RealSockets, Transfers
  <1>2. new \in Sockets \ {NoSocket}
    BY <1>1, NewSockets
  <1>3. n \in Nat
    BY <1>1 DEF NextSlot, TypeInv, TypeOK
  <1>4. agent_sock' \in [Transfers -> [Slots -> Sockets]]
    <2>1. \A k \in Slots : (IF k = n THEN busy ELSE IF t \notin clients_hashes THEN NoSocket
                            ELSE agent_sock[t][k]) \in Sockets
      BY <1>1 DEF TypeInv, TypeOK, Sockets
    <2> QED BY <1>1, <2>1 DEF ConfirmClient, TypeInv, TypeOK
  <1>5. /\ host_sock' \in [Transfers -> Sockets] /\ host_fd_poll' \in [Transfers -> {"OFF", "IN"}]
        /\ generation' \in [Transfers -> Nat]
    <2>1. NoSocket \in Sockets
      BY DEF Sockets
    <2> QED BY <1>1, <1>2, <2>1 DEF ConfirmClient, TypeInv, TypeOK
  <1>6. /\ num_parallel_connections' \in [Transfers -> Nat] /\ clients_hashes' \subseteq Transfers
    BY <1>1, <1>3 DEF ConfirmClient, TypeInv, TypeOK
  <1>8. /\ event_pool' \subseteq event_pool \union {new}
        /\ agent_fd_pool' \subseteq agent_fd_pool
    BY DEF ConfirmClient
  <1>9. /\ event_pool' \subseteq Sockets /\ NoSocket \notin event_pool'
        /\ agent_fd_pool' \subseteq Accepted /\ agent_fd_pool' \subseteq Sockets
    BY <1>2, <1>8 DEF TypeInv, TypeOK, RealSockets
  <1>7. /\ busy' \in Sockets /\ pc' = "scan"
        /\ UNCHANGED <<requests, child_vars, messages, kernel_vars>>
    BY DEF ConfirmClient, Sockets
  <1> QED BY <1>4, <1>5, <1>6, <1>7, <1>9 DEF TypeInv, TypeOK, RealSockets, Running, child_vars, kernel_vars

(* Every step keeps the types.                                             *)
LEMMA NextTypes ==
  ASSUME TypeInv, [Next]_vars
  PROVE  TypeInv'
  <1> USE DEF TypeInv, TypeOK, RealSockets, Running, Fatal
  <1>1. CASE \E t \in Transfers : ControllerMessage(t)
    BY <1>1, MessageTypes
  <1>2. CASE \E t \in ClientRole : HostSideConnect(t)
    BY <1>2, HostTypes
  <1>3. ASSUME NEW t \in AgentRole, NEW k \in Slots, AcceptAgentSide(t, k)
        PROVE  TypeInv'
    <2>1. <<t, k, 0>> \in Accepted /\ <<t, k, 0>> \in Sockets \ {NoSocket}
      BY NewSockets, AcceptedParts
    <2> QED BY <1>3, <2>1 DEF AcceptAgentSide, client_vars, child_vars
  <1>4. ASSUME NEW s \in event_pool, HostConnected(s)
        PROVE  TypeInv'
    BY <1>4, Registered DEF HostConnected, child_vars, kernel_vars
  <1>5. ASSUME NEW s \in event_pool, AgentConnected(s)
        PROVE  TypeInv'
    <2>1. s[1] \in Transfers /\ s[2] \in Slots
      BY <1>5, Registered DEF AgentConnected
    <2>2. agent_sock[s[1]][s[2]] \in Sockets
      BY <2>1
    <2>3. pc' \in Running \union Fatal /\ pc' # "get_uuid" /\ busy' \in Sockets /\ event_pool' \subseteq event_pool
      BY <1>5, <2>2 DEF AgentConnected
    <2>4. num_parallel_connections' \in [Transfers -> Nat]
      BY <1>5, <2>1 DEF AgentConnected
    <2>5. UNCHANGED <<requests, clients_hashes, host_fd_poll, host_sock, agent_sock,
                      generation, agent_fd_pool, child_vars, messages, kernel_vars>>
      BY <1>5 DEF AgentConnected
    <2> QED BY <2>3, <2>4, <2>5 DEF child_vars, kernel_vars
  <1>6. ASSUME NEW s \in event_pool, GetUuid(s)
        PROVE  TypeInv'
    BY <1>6 DEF GetUuid, client_vars, child_vars, kernel_vars
  <1>7. CASE SendUuid
    BY <1>7 DEF SendUuid, Sockets, client_vars, child_vars
  <1>8. CASE ConfirmClient
    BY <1>8, ConfirmTypes
  <1>9. ASSUME NEW t \in Transfers, Expire(t)
        PROVE  TypeInv'
    BY <1>9 DEF Expire, Remaining, kernel_vars
  <1>10. CASE ScanEnds \/ Timeout
    BY <1>10 DEF ScanEnds, Timeout, client_vars, child_vars, kernel_vars
  <1>11. ASSUME NEW s \in Opened, ConnectEnds(s)
         PROVE  TypeInv'
    <2>1. s \in Sockets
      BY DEF Opened, Matched
    <2> QED BY <1>11, <2>1 DEF ConnectEnds, client_vars, child_vars
  <1>12. ASSUME NEW s \in agent_fd_pool, UuidArrives(s) \/ HangsUp(s)
         PROVE  TypeInv'
    BY <1>12 DEF UuidArrives, HangsUp, client_vars, child_vars
  <1>13. CASE GetUuidFails \/ \E s \in event_pool : Resets(s)
    BY <1>13 DEF GetUuidFails, Resets, Sockets, client_vars, child_vars, kernel_vars
  <1>14. CASE Ended \/ UNCHANGED vars
    BY <1>14 DEF Ended, vars, client_vars, child_vars, kernel_vars
  <1> QED BY <1>1, <1>2, <1>3, <1>4, <1>5, <1>6, <1>7, <1>8, <1>9, <1>10, <1>11, <1>12, <1>13, <1>14
      DEF Next, Handler, Environment

(* Every variable of the daemon keeps its type, also when requests come in *)
(* the middle of a set-up.                                                 *)
THEOREM SetupTypes == Spec => []TypeOK
  <1>1. Init => TypeInv
    BY SetupAssumption DEF Init, TypeInv, TypeOK, RealSockets, Running, Sockets, Transfers
  <1>2. TypeInv /\ [Next]_vars => TypeInv'
    BY NextTypes
  <1>3. TypeInv => TypeOK
    BY DEF TypeInv
  <1> QED BY <1>1, <1>2, <1>3, PTL DEF Spec

-----------------------------------------------------------------------------
(* The sockets, whatever comes.                                            *)

(* What a controller message connects: every client whose request is       *)
(* there, and no other.                                                    *)
LEMMA MessageEffect ==
  ASSUME TypeInv, NEW t \in Transfers, ControllerMessage(t)
  PROVE  LET found == clients_hashes \intersect (requests \union {t})
             C == found \intersect ClientRole
             H == found \intersect AgentRole
         IN  /\ \A u \in C : /\ \A k \in Slots : agent_sock'[u][k] = <<u, k, generation[u] + 1>>
                             /\ num_parallel_connections'[u] = 0 /\ generation'[u] = generation[u] + 1
             /\ \A u \in H : /\ host_sock'[u] = <<u, HostSlot, generation[u] + 1>> /\ host_fd_poll'[u] = "OFF"
             /\ \A u \in Transfers \ C : UNCHANGED <<agent_sock[u], num_parallel_connections[u]>>
             /\ \A u \in Transfers \ H : UNCHANGED <<host_sock[u], host_fd_poll[u]>>
             /\ \A u \in Transfers \ found : UNCHANGED generation[u]
             /\ \A s \in event_pool' : \/ s \in event_pool
                                       \/ \E c \in C, k \in Slots : s = <<c, k, generation[c] + 1>>
                                       \/ \E c \in H : s = <<c, HostSlot, generation[c] + 1>>
             /\ pc = "wait" /\ pc' = "scan"
             /\ t \in messages /\ messages' = messages \ {t} /\ requests' = requests \union {t}
             /\ UNCHANGED <<busy, clients_hashes, agent_fd_pool, child_vars, kernel_vars>>
  <1> DEFINE found == clients_hashes \intersect (requests \union {t})
             C == found \intersect ClientRole
             H == found \intersect AgentRole
             socks == NewAgentSocks(C)
             A == {socks[c][k] : c \in C, k \in Slots}
             B == {NewHostSocks(H)[c] : c \in H}
  <1>1. /\ agent_sock' = [x \in Transfers |-> IF x \in C THEN socks[x] ELSE agent_sock[x]]
        /\ host_sock' = [x \in Transfers |-> IF x \in H THEN NewHostSocks(H)[x] ELSE host_sock[x]]
        /\ num_parallel_connections' =
             [x \in Transfers |-> IF x \in C THEN 0 ELSE num_parallel_connections[x]]
        /\ host_fd_poll' = [x \in Transfers |-> IF x \in H THEN "OFF" ELSE host_fd_poll[x]]
        /\ generation' = [x \in Transfers |-> IF x \in found THEN generation[x] + 1 ELSE generation[x]]
    BY DEF ControllerMessage, Override, NewAgentSocks, NewHostSocks, TypeInv, TypeOK
  <1>2. event_pool' = event_pool \union A \union B
    BY DEF ControllerMessage
  <1>3. /\ pc = "wait" /\ pc' = "scan"
        /\ t \in messages /\ messages' = messages \ {t} /\ requests' = requests \union {t}
        /\ UNCHANGED <<busy, clients_hashes, agent_fd_pool, child_vars, kernel_vars>>
    BY DEF ControllerMessage
  <1>4. /\ \A c \in C : \A k \in Slots : socks[c][k] = <<c, k, generation[c] + 1>>
        /\ \A c \in H : NewHostSocks(H)[c] = <<c, HostSlot, generation[c] + 1>>
    BY DEF NewAgentSocks, NewHostSocks
  <1>5. C \subseteq Transfers /\ H \subseteq Transfers /\ C \subseteq found /\ H \subseteq found
    BY DEF Transfers
  <1> HIDE DEF found, C, H, socks
  <1>6. ASSUME NEW s \in A
        PROVE  \E c \in C, k \in Slots : s = <<c, k, generation[c] + 1>>
    <2>1. PICK c \in C, k \in Slots : s = socks[c][k]
      OBVIOUS
    <2> QED BY <1>4, <2>1
  <1>7. \A s \in B : \E c \in H : s = <<c, HostSlot, generation[c] + 1>>
    BY <1>4
  <1> HIDE DEF A, B
  <1>8. /\ \A u \in C : /\ \A k \in Slots : agent_sock'[u][k] = <<u, k, generation[u] + 1>>
                        /\ num_parallel_connections'[u] = 0 /\ generation'[u] = generation[u] + 1
        /\ \A u \in H : /\ host_sock'[u] = <<u, HostSlot, generation[u] + 1>> /\ host_fd_poll'[u] = "OFF"
        /\ \A u \in Transfers \ C : UNCHANGED <<agent_sock[u], num_parallel_connections[u]>>
        /\ \A u \in Transfers \ H : UNCHANGED <<host_sock[u], host_fd_poll[u]>>
        /\ \A u \in Transfers \ found : UNCHANGED generation[u]
    BY <1>1, <1>4, <1>5
  <1> QED BY <1>2, <1>3, <1>6, <1>7, <1>8 DEF found, C, H

(* A host connects, and its agent sockets with it if the request is there. *)
LEMMA HostEffect ==
  ASSUME TypeInv, NEW t \in ClientRole, HostSideConnect(t)
  PROVE  LET s == <<t, HostSlot, 0>>
             A == {<<t, k, generation[t] + 1>> : k \in Slots}
         IN  /\ t \in hosts /\ hosts' = hosts \ {t} /\ pc = "wait" /\ pc' = "scan"
             /\ clients_hashes' = clients_hashes \union {t}
             /\ connected' = connected \union {s}
             /\ host_sock' = [host_sock EXCEPT ![t] = s]
             /\ host_fd_poll' = [host_fd_poll EXCEPT ![t] = "OFF"]
             /\ \A u \in Transfers \ {t} : UNCHANGED <<agent_sock[u], generation[u]>>
             /\ generation'[t] = IF t \in requests THEN generation[t] + 1 ELSE generation[t]
             /\ t \notin requests => agent_sock' = agent_sock /\ event_pool' = event_pool \union {s}
             /\ t \in requests => /\ \A k \in Slots : agent_sock'[t][k] = <<t, k, generation[t] + 1>>
                                  /\ event_pool' = event_pool \union {s} \union A
             /\ UNCHANGED <<busy, requests, num_parallel_connections, agent_fd_pool, child_vars,
                            messages, incoming, refused, identified, hungup, reset>>
  <1> DEFINE socks == NewAgentSocks({t})
  <1>1. /\ t \in hosts /\ hosts' = hosts \ {t} /\ pc = "wait" /\ pc' = "scan"
        /\ clients_hashes' = clients_hashes \union {t}
        /\ connected' = connected \union {<<t, HostSlot, 0>>}
        /\ host_sock' = [host_sock EXCEPT ![t] = <<t, HostSlot, 0>>]
        /\ host_fd_poll' = [host_fd_poll EXCEPT ![t] = "OFF"]
        /\ UNCHANGED <<busy, requests, num_parallel_connections, agent_fd_pool, child_vars,
                       messages, incoming, refused, identified, hungup, reset>>
    BY DEF HostSideConnect
  <1>2. \A k \in Slots : socks[t][k] = <<t, k, generation[t] + 1>>
    BY DEF NewAgentSocks
  <1>3. /\ \A u \in Transfers \ {t} : UNCHANGED generation[u]
        /\ generation'[t] = IF t \in requests THEN generation[t] + 1 ELSE generation[t]
    BY DEF HostSideConnect, TypeInv, TypeOK, Transfers
  <1>4. CASE t \notin requests
    BY <1>1, <1>3, <1>4 DEF HostSideConnect
  <1>5. CASE t \in requests
    <2>1. agent_sock' = [u \in Transfers |-> IF u \in {t} THEN socks[u] ELSE agent_sock[u]]
      BY <1>5 DEF HostSideConnect, Override, NewAgentSocks, TypeInv, TypeOK
    <2>2. event_pool' = event_pool \union {<<t, HostSlot, 0>>} \union {socks[t][k] : k \in Slots}
      BY <1>5 DEF HostSideConnect
    <2> HIDE DEF socks
    <2>3. {socks[t][k] : k \in Slots} = {<<t, k, generation[t] + 1>> : k \in Slots}
      BY <1>2
    <2>4. t \in Transfers
      BY DEF Transfers
    <2> QED BY <1>1, <1>2, <1>3, <1>5, <2>1, <2>2, <2>3, <2>4
  <1> QED BY <1>4, <1>5

(* What is known of is a socket.                                           *)
LEMMA KnownSockets ==
  ASSUME TypeInv, GenInv, NEW s \in Known
  PROVE  /\ s \in Sockets \ {NoSocket} /\ s[1] \in Transfers
         /\ s[2] # HostSlot => s[2] \in Slots
  <1>1. s \in Sockets \ {NoSocket}
    BY DEF Known, TypeInv, TypeOK, RealSockets, GenInv, Outcomes
  <1> QED BY <1>1, SocketParts

(* The sockets that a controller message creates are new.                  *)
LEMMA MessageGen ==
  ASSUME TypeInv, GenInv, NEW t \in Transfers, ControllerMessage(t)
  PROVE  GenInv'
  <1> DEFINE found == clients_hashes \intersect (requests \union {t})
             C == found \intersect ClientRole
             H == found \intersect AgentRole
  <1>1. /\ \A u \in C : /\ \A k \in Slots : agent_sock'[u][k] = <<u, k, generation[u] + 1>>
                        /\ num_parallel_connections'[u] = 0 /\ generation'[u] = generation[u] + 1
        /\ \A u \in Transfers \ C : UNCHANGED <<agent_sock[u], num_parallel_connections[u]>>
        /\ \A u \in Transfers \ found : UNCHANGED generation[u]
        /\ \A s \in event_pool' : \/ s \in event_pool
                                  \/ \E c \in C, k \in Slots : s = <<c, k, generation[c] + 1>>
                                  \/ \E c \in H : s = <<c, HostSlot, generation[c] + 1>>
        /\ UNCHANGED <<clients_hashes, agent_fd_pool, hosts, connected, refused, identified>>
    BY MessageEffect DEF kernel_vars
  <1>2. /\ C \subseteq clients_hashes /\ C \subseteq ClientRole /\ H \subseteq AgentRole
        /\ C \subseteq Transfers /\ H \subseteq Transfers
        /\ \A u \in ClientRole : u \in found => u \in C
    BY DEF Transfers
  <1> HIDE DEF found, C, H
  <1>3. \A u \in Transfers : generation[u] \in Nat /\ generation[u] + 1 # 0
    BY DEF TypeInv, TypeOK
  <1>4. \A s \in event_pool' \ event_pool :
          /\ s[3] # 0
          /\ s[2] # HostSlot => \E c \in C, k \in Slots : s = <<c, k, generation[c] + 1>>
    BY <1>1, <1>2, <1>3
  <1>5. \A u \in ClientRole : generation'[u] \in Nat /\ generation[u] <= generation'[u]
    BY <1>1, <1>2, <1>3 DEF Transfers
  <1>6. Outcomes'
    BY <1>1, <1>4 DEF GenInv, Outcomes
  <1>7. OwnSockets'
    <2> SUFFICES ASSUME NEW u \in ClientRole
                 PROVE  /\ u \in hosts => /\ u \notin clients_hashes /\ num_parallel_connections'[u] = 0
                                          /\ \A k \in Slots : agent_sock'[u][k] = NoSocket
                        /\ \A k \in Slots :
                             \/ agent_sock'[u][k] = NoSocket
                             \/ /\ agent_sock'[u][k][1] = u /\ agent_sock'[u][k][2] = k
                                /\ agent_sock'[u][k][3] # 0 /\ agent_sock'[u][k][3] <= generation'[u]
      BY <1>1 DEF OwnSockets
    <2>1. CASE u \in C
      <3>1. u \notin hosts
        BY <1>2, <2>1 DEF GenInv, OwnSockets
      <3>2. \A k \in Slots : /\ agent_sock'[u][k][1] = u /\ agent_sock'[u][k][2] = k
                             /\ agent_sock'[u][k][3] = generation[u] + 1
        BY <1>1, <2>1
      <3> QED BY <1>1, <1>2, <1>3, <2>1, <3>1, <3>2
    <2>2. CASE u \notin C
      BY <1>1, <1>2, <2>2 DEF GenInv, OwnSockets, Transfers
    <2> QED BY <2>1, <2>2
  <1>8. \A u \in C, k \in Slots : agent_sock'[u][k] # NoSocket
    BY <1>1 DEF NoSocket
  <1>9. Earlier'
    <2> SUFFICES ASSUME NEW s \in Known', s[1] \in ClientRole, s[2] # HostSlot
                 PROVE  s[3] <= generation'[s[1]] /\ agent_sock'[s[1]][s[2]] # NoSocket
      BY DEF Earlier
    <2>1. s \in Known \/ s \in event_pool' \ event_pool
      BY <1>1 DEF Known
    <2>2. CASE s \in Known
      <3>1. s[1] \in Transfers /\ s[2] \in Slots /\ s[3] \in Nat
        BY <2>2, KnownSockets, SocketParts
      <3>2. s[3] <= generation[s[1]] /\ agent_sock[s[1]][s[2]] # NoSocket
        BY <2>2 DEF GenInv, Earlier
      <3>3. s[3] <= generation'[s[1]]
        BY <1>3, <1>5, <3>1, <3>2
      <3>4. CASE s[1] \in C
        BY <1>8, <3>1, <3>3, <3>4
      <3>5. CASE s[1] \notin C
        BY <1>1, <3>1, <3>2, <3>3, <3>5
      <3> QED BY <3>4, <3>5
    <2>3. CASE s \in event_pool' \ event_pool
      <3>1. PICK c \in C, k \in Slots : s = <<c, k, generation[c] + 1>>
        BY <1>4, <2>3
      <3>2. s[1] = c /\ s[2] = k /\ s[3] = generation[c] + 1 /\ generation'[c] = generation[c] + 1
        BY <1>1, <3>1
      <3>3. agent_sock'[c][k] # NoSocket
        BY <1>8
      <3> QED BY <1>2, <1>3, <3>2, <3>3
    <2> QED BY <2>1, <2>2, <2>3
  <1>10. Unsent'
    <2> SUFFICES ASSUME NEW s \in event_pool', s[2] # HostSlot
                 PROVE  IF s[1] \in ClientRole THEN s \notin identified ELSE s \in agent_fd_pool
      BY <1>1 DEF Unsent
    <2>1. CASE s \in event_pool
      BY <2>1 DEF GenInv, Unsent
    <2>2. CASE s \notin event_pool
      <3>1. PICK c \in C, k \in Slots : s = <<c, k, generation[c] + 1>>
        BY <1>4, <2>2
      <3>2. s[1] = c /\ s[3] = generation[c] + 1 /\ c \in ClientRole
        BY <1>2, <3>1
      <3>3. ~(s[3] <= generation[c])
        BY <1>2, <1>3, <3>2
      <3>4. s \notin identified
        BY <3>2, <3>3 DEF GenInv, Earlier, Known
      <3> QED BY <3>2, <3>4
    <2> QED BY <2>1, <2>2
  <1> QED BY <1>6, <1>7, <1>9, <1>10 DEF GenInv

(* So are those of a host that connects.                                   *)
LEMMA HostGen ==
  ASSUME TypeInv, GenInv, NEW t \in ClientRole, HostSideConnect(t)
  PROVE  GenInv'
  <1> DEFINE g == generation[t] + 1
             h == <<t, HostSlot, 0>>
             A == {<<t, k, g>> : k \in Slots}
  <1>1. /\ t \in hosts /\ hosts' = hosts \ {t}
        /\ clients_hashes' = clients_hashes \union {t}
        /\ connected' = connected \union {h}
        /\ \A u \in Transfers \ {t} : UNCHANGED <<agent_sock[u], generation[u]>>
        /\ generation'[t] = IF t \in requests THEN g ELSE generation[t]
        /\ t \notin requests => agent_sock' = agent_sock /\ event_pool' = event_pool \union {h}
        /\ t \in requests => /\ \A k \in Slots : agent_sock'[t][k] = <<t, k, g>>
                             /\ event_pool' = event_pool \union {h} \union A
        /\ UNCHANGED <<num_parallel_connections, agent_fd_pool, refused, identified>>
    BY HostEffect
  <1>2. /\ g \in Nat \ {0} /\ generation[t] \in Nat /\ generation[t] < g /\ t \in Transfers
        /\ t \notin AgentRole
    BY SetupAssumption DEF TypeInv, TypeOK, Transfers
  <1>3. h # NoSocket /\ h[1] = t /\ h[2] = HostSlot /\ h[3] = 0
    BY SocketParts
  <1>4. \A s \in A : s # NoSocket /\ s[1] = t /\ s[2] \in Slots /\ s[2] # HostSlot /\ s[3] = g
    BY <1>2, SocketParts
  <1> HIDE DEF g, h, A
  <1>5. /\ event_pool \subseteq event_pool' /\ event_pool' \subseteq event_pool \union {h} \union A
        /\ \A s \in event_pool' \ event_pool : s = h \/ (s \in A /\ t \in requests)
    BY <1>1
  <1>6. \A s \in Known : s[1] = t => s[2] = HostSlot
    BY <1>1, KnownSockets DEF GenInv, OwnSockets, Earlier
  <1>7. Outcomes'
    BY <1>1, <1>2, <1>3, <1>4, <1>5 DEF GenInv, Outcomes
  <1>8. OwnSockets'
    <2> SUFFICES ASSUME NEW u \in ClientRole
                 PROVE  /\ u \in hosts' => /\ u \notin clients_hashes' /\ num_parallel_connections'[u] = 0
                                           /\ \A k \in Slots : agent_sock'[u][k] = NoSocket
                        /\ \A k \in Slots :
                             \/ agent_sock'[u][k] = NoSocket
                             \/ /\ agent_sock'[u][k][1] = u /\ agent_sock'[u][k][2] = k
                                /\ agent_sock'[u][k][3] # 0 /\ agent_sock'[u][k][3] <= generation'[u]
      BY DEF OwnSockets
    <2>1. CASE u = t /\ t \in requests
      BY <1>1, <1>2, <2>1
    <2>2. CASE u = t /\ t \notin requests
      BY <1>1, <2>2 DEF GenInv, OwnSockets
    <2>3. CASE u # t
      BY <1>1, <2>3 DEF GenInv, OwnSockets, Transfers
    <2> QED BY <2>1, <2>2, <2>3
  <1>9. Earlier'
    <2> SUFFICES ASSUME NEW s \in Known', s[1] \in ClientRole, s[2] # HostSlot
                 PROVE  s[3] <= generation'[s[1]] /\ agent_sock'[s[1]][s[2]] # NoSocket
      BY DEF Earlier
    <2>1. s \in Known \/ (s \in A /\ t \in requests)
      BY <1>1, <1>3, <1>5 DEF Known
    <2>2. CASE s \in Known
      <3>1. s[1] # t /\ s[1] \in Transfers
        BY <1>6, <2>2 DEF Transfers
      <3>2. s[3] <= generation[s[1]] /\ agent_sock[s[1]][s[2]] # NoSocket
        BY <2>2 DEF GenInv, Earlier
      <3> QED BY <1>1, <3>1, <3>2
    <2>3. CASE s \in A /\ t \in requests
      <3>1. s[1] = t /\ s[2] \in Slots /\ s[3] = g
        BY <1>4, <2>3
      <3> QED BY <1>1, <1>2, <2>3, <3>1, SocketParts
    <2> QED BY <2>1, <2>2, <2>3
  <1>10. Unsent'
    <2> SUFFICES ASSUME NEW s \in event_pool', s[2] # HostSlot
                 PROVE  IF s[1] \in ClientRole THEN s \notin identified ELSE s \in agent_fd_pool
      BY <1>1 DEF Unsent
    <2>1. CASE s \in event_pool
      BY <2>1 DEF GenInv, Unsent
    <2>2. CASE s \in A
      <3>1. s[1] = t
        BY <1>4, <2>2
      <3> QED BY <1>6, <3>1 DEF Known
    <2> QED BY <1>3, <1>5, <2>1, <2>2
  <1> QED BY <1>7, <1>8, <1>9, <1>10 DEF GenInv

(* Steps that create no socket, and let none be polled that was not.       *)
LEMMA OldGen ==
  ASSUME GenInv, event_pool' \subseteq event_pool, agent_fd_pool' = agent_fd_pool,
         UNCHANGED <<hosts, agent_sock, generation, connected, refused>>,
         identified' \subseteq connected, identified \subseteq identified',
         \A s \in identified' \ identified : s \notin event_pool' \/ s[1] \notin ClientRole,
         \A u \in ClientRole : u \in hosts => u \notin clients_hashes' /\ UNCHANGED num_parallel_connections[u]
  PROVE  GenInv'
  <1>1. Outcomes'
    BY DEF GenInv, Outcomes
  <1>2. OwnSockets'
    BY DEF GenInv, OwnSockets
  <1>3. Earlier'
    <2>1. Known' \subseteq Known
      BY DEF Known
    <2> QED BY <2>1 DEF GenInv, Earlier
  <1>4. Unsent'
    BY DEF GenInv, Unsent
  <1> QED BY <1>1, <1>2, <1>3, <1>4 DEF GenInv

(* An event of an agent socket is of a client this daemon connects.        *)
LEMMA EventOfClient ==
  ASSUME TypeInv, GenInv, NEW s \in event_pool, AgentConnected(s)
  PROVE  /\ s[1] \in ClientRole /\ s[2] \in Slots /\ pc = "wait"
         /\ agent_sock[s[1]][s[2]] # NoSocket /\ agent_sock[s[1]][s[2]][1] = s[1]
         /\ agent_sock[s[1]][s[2]][2] = s[2]
         /\ \/ pc' \in {"scan", "epoll_ctl", "use_after_free"} /\ UNCHANGED num_parallel_connections
            \/ /\ s[1] \in clients_hashes /\ pc' = "send_uuid" /\ busy' = agent_sock[s[1]][s[2]]
               /\ num_parallel_connections' = [num_parallel_connections EXCEPT ![s[1]] = @ + 1]
               /\ UNCHANGED event_pool
         /\ event_pool' \subseteq event_pool
         /\ UNCHANGED <<requests, clients_hashes, host_fd_poll, host_sock, agent_sock,
                        generation, agent_fd_pool, child_vars, messages, kernel_vars>>
  <1>1. s[2] # HostSlot /\ s \notin agent_fd_pool /\ pc = "wait"
    BY DEF AgentConnected, Ready
  <1>2. s[1] \in ClientRole /\ s[2] \in Slots
    BY <1>1, Registered DEF GenInv, Unsent
  <1>3. /\ agent_sock[s[1]][s[2]] # NoSocket /\ agent_sock[s[1]][s[2]][1] = s[1]
        /\ agent_sock[s[1]][s[2]][2] = s[2]
    BY <1>1, <1>2 DEF GenInv, Earlier, Known, OwnSockets
  <1>4. /\ event_pool' \subseteq event_pool
        /\ UNCHANGED <<requests, clients_hashes, host_fd_poll, host_sock, agent_sock,
                       generation, agent_fd_pool, child_vars, messages, kernel_vars>>
    BY DEF AgentConnected
  <1>5. \/ pc' \in {"scan", "epoll_ctl", "use_after_free"} /\ UNCHANGED num_parallel_connections
        \/ /\ s[1] \in clients_hashes /\ pc' = "send_uuid" /\ busy' = agent_sock[s[1]][s[2]]
           /\ num_parallel_connections' = [num_parallel_connections EXCEPT ![s[1]] = @ + 1]
           /\ UNCHANGED event_pool
    BY DEF AgentConnected
  <1> QED BY <1>1, <1>2, <1>3, <1>4, <1>5

(* Every step keeps what is said of the sockets.                           *)
LEMMA NextGen ==
  ASSUME TypeInv, GenInv, [Next]_vars
  PROVE  GenInv'
  <1>1. CASE \E t \in Transfers : ControllerMessage(t)
    BY <1>1, MessageGen
  <1>2. CASE \E t \in ClientRole : HostSideConnect(t)
    BY <1>2, HostGen
  <1>3. ASSUME NEW t \in AgentRole, NEW k \in Slots, AcceptAgentSide(t, k)
        PROVE  GenInv'
    <2> DEFINE s == <<t, k, 0>>
    <2>1. s[1] = t /\ s[2] = k /\ s[3] = 0 /\ s # NoSocket /\ t \notin ClientRole /\ k # HostSlot
      BY NewSockets, SocketParts, SetupAssumption
    <2> HIDE DEF s
    <2>2. /\ event_pool' = event_pool \union {s} /\ connected' = connected \union {s}
          /\ agent_fd_pool' = agent_fd_pool \union {s}
          /\ UNCHANGED <<client_vars, hosts, refused, identified>>
      BY <1>3 DEF AcceptAgentSide, s
    <2> USE DEF client_vars
    <2>3. Outcomes' /\ OwnSockets'
      BY <2>1, <2>2 DEF GenInv, Outcomes, OwnSockets
    <2>4. Earlier'
      BY <2>1, <2>2 DEF GenInv, Earlier, Known
    <2>5. Unsent'
      BY <2>1, <2>2 DEF GenInv, Unsent
    <2> QED BY <2>3, <2>4, <2>5 DEF GenInv
  <1>4. ASSUME NEW s \in event_pool, HostConnected(s)
        PROVE  GenInv'
    <2>1. /\ event_pool' \subseteq event_pool
          /\ UNCHANGED <<agent_fd_pool, hosts, agent_sock, generation, connected, refused, identified,
                         clients_hashes, num_parallel_connections>>
      BY <1>4 DEF HostConnected, kernel_vars
    <2> QED BY <2>1, OldGen DEF GenInv, Outcomes, OwnSockets
  <1>5. ASSUME NEW s \in event_pool, AgentConnected(s)
        PROVE  GenInv'
    <2>1. PICK c \in ClientRole :
            /\ event_pool' \subseteq event_pool
            /\ \/ UNCHANGED num_parallel_connections
               \/ /\ c \in clients_hashes
                  /\ num_parallel_connections' = [num_parallel_connections EXCEPT ![c] = @ + 1]
            /\ UNCHANGED <<clients_hashes, agent_sock, generation, agent_fd_pool, kernel_vars>>
      BY <1>5, EventOfClient
    <2>2. \A u \in ClientRole : u \in hosts => u \notin clients_hashes' /\ UNCHANGED num_parallel_connections[u]
      <3>1. \A u \in ClientRole : u \in hosts => u \notin clients_hashes
        BY DEF GenInv, OwnSockets
      <3>2. \A u \in Transfers : u # c => UNCHANGED num_parallel_connections[u]
        BY <2>1 DEF TypeInv, TypeOK
      <3>3. c \in clients_hashes \/ UNCHANGED num_parallel_connections
        BY <2>1
      <3> QED BY <2>1, <3>1, <3>2, <3>3 DEF Transfers
    <2> QED BY <2>1, <2>2, OldGen DEF GenInv, Outcomes, kernel_vars
  <1>6. CASE SendUuid
    <2>1. /\ event_pool' \subseteq event_pool
          /\ UNCHANGED <<client_vars, agent_fd_pool, hosts, connected, refused>>
      BY <1>6 DEF SendUuid
    <2>2. \/ identified' = identified
          \/ /\ identified' = identified \union {busy} /\ busy \in connected
             /\ busy \notin event_pool'
      BY <1>6 DEF SendUuid
    <2> QED BY <2>1, <2>2, OldGen DEF GenInv, Outcomes, OwnSockets, client_vars
  <1>7. CASE ConfirmClient
    <2>1. PICK t \in AgentRole : t = busy[1] /\ t \notin ClientRole /\ t \in Transfers
      BY <1>7, AcceptedParts, SetupAssumption DEF ConfirmClient, TypeInv, RealSockets, Transfers
    <2> DEFINE new == <<t, HostSlot, generation[t] + 1>>
    <2>2. /\ clients_hashes' = clients_hashes \union {t}
          /\ \A u \in Transfers \ {t} : UNCHANGED <<agent_sock[u], num_parallel_connections[u], generation[u]>>
          /\ agent_fd_pool' = agent_fd_pool \ {busy}
          /\ event_pool' \subseteq (event_pool \union {new}) \ {busy}
          /\ UNCHANGED <<hosts, connected, refused, identified>>
      BY <1>7, <2>1 DEF ConfirmClient, kernel_vars, TypeInv, TypeOK
    <2>3. new # NoSocket /\ new[1] = t /\ new[2] = HostSlot /\ new[3] # 0
      BY <2>1, SocketParts DEF TypeInv, TypeOK
    <2> HIDE DEF new
    <2>4. \A u \in ClientRole : u # t /\ u \in Transfers
      BY <2>1 DEF Transfers
    <2>5. Outcomes' /\ OwnSockets'
      BY <2>2, <2>3, <2>4 DEF GenInv, Outcomes, OwnSockets
    <2>6. Earlier'
      BY <2>2, <2>3, <2>4 DEF GenInv, Earlier, Known
    <2>7. Unsent'
      BY <2>2, <2>3 DEF GenInv, Unsent
    <2> QED BY <2>5, <2>6, <2>7 DEF GenInv
  <1>8. ASSUME NEW t \in Transfers, Expire(t)
        PROVE  GenInv'
    <2>1. /\ event_pool' \subseteq event_pool /\ clients_hashes' \subseteq clients_hashes
          /\ UNCHANGED <<agent_fd_pool, hosts, agent_sock, generation, connected, refused, identified,
                         num_parallel_connections>>
      BY <1>8 DEF Expire, Remaining, kernel_vars
    <2> QED BY <2>1, OldGen DEF GenInv, Outcomes, OwnSockets
  <1>9. ASSUME NEW s \in Opened, ConnectEnds(s)
        PROVE  GenInv'
    <2>1. s \notin connected \union refused /\ s # NoSocket
      BY <1>9 DEF ConnectEnds
    <2>2. /\ \/ connected' = connected \union {s} /\ UNCHANGED refused
             \/ refused' = refused \union {s} /\ UNCHANGED connected
          /\ UNCHANGED <<client_vars, agent_fd_pool, event_pool, hosts, identified>>
      BY <1>9 DEF ConnectEnds
    <2>3. /\ s[3] # 0
          /\ s[1] \in ClientRole /\ s[2] # HostSlot =>
               s[3] <= generation[s[1]] /\ agent_sock[s[1]][s[2]] # NoSocket
      <3>1. CASE s \in event_pool
        BY <2>1, <3>1 DEF GenInv, Outcomes, Earlier, Known
      <3>2. CASE s \notin event_pool
        <4>1. PICK u \in ClientRole, k \in Slots : s = agent_sock[u][k]
          BY <3>2 DEF Opened, Matched
        <4> QED BY <2>1, <4>1 DEF GenInv, OwnSockets
      <3> QED BY <3>1, <3>2
    <2> USE DEF client_vars
    <2>4. Outcomes' /\ OwnSockets' /\ Unsent'
      BY <2>1, <2>2, <2>3 DEF GenInv, Outcomes, OwnSockets, Unsent
    <2>5. Earlier'
      BY <2>2, <2>3 DEF GenInv, Earlier, Known
    <2> QED BY <2>4, <2>5 DEF GenInv
  <1>10. ASSUME NEW s \in agent_fd_pool, UuidArrives(s)
         PROVE  GenInv'
    <2>1. s[1] \notin ClientRole
      BY AcceptedParts, SetupAssumption DEF TypeInv, RealSockets
    <2>2. /\ identified' = identified \union {s}
          /\ UNCHANGED <<client_vars, agent_fd_pool, event_pool, hosts, connected, refused>>
      BY <1>10 DEF UuidArrives
    <2> QED BY <2>1, <2>2, OldGen DEF GenInv, Outcomes, OwnSockets, client_vars
  <1>11. CASE \/ \E s \in event_pool : GetUuid(s)
              \/ ScanEnds \/ Timeout \/ Ended \/ UNCHANGED vars \/ \E s \in agent_fd_pool : HangsUp(s)
              \/ GetUuidFails \/ \E s \in event_pool : Resets(s)
    <2>1. UNCHANGED <<client_vars, agent_fd_pool, event_pool, hosts, connected, refused, identified>>
      BY <1>11 DEF GetUuid, ScanEnds, Timeout, HangsUp, GetUuidFails, Resets, Ended, vars, client_vars, kernel_vars
    <2> QED BY <2>1, OldGen DEF GenInv, Outcomes, OwnSockets, client_vars
  <1> QED BY <1>1, <1>2, <1>3, <1>4, <1>5, <1>6, <1>7, <1>8, <1>9, <1>10, <1>11
      DEF Next, Handler, Environment

-----------------------------------------------------------------------------
(* The slots of an AGENT client, and the connections still to come.        *)

(* What is to come of a transfer fits its slots.                           *)
LEMMA ComingFits ==
  ASSUME TypeInv, NEW t \in AgentRole
  PROVE  /\ Coming(t) \subseteq Slots /\ IsFiniteSet(Coming(t))
         /\ Cardinality(Coming(t)) \in Nat /\ Cardinality(Coming(t)) <= Connections
  <1>1. IsFiniteSet(Slots) /\ Cardinality(Slots) = Connections
    BY SetupAssumption, FS_Interval DEF Slots
  <1>2. Coming(t) \subseteq Slots
    BY DEF Coming, TypeInv, TypeOK
  <1> QED BY <1>1, <1>2, FS_Subset, FS_CardinalityType

(* Steps that leave all of it as it is, but for clients that are freed.    *)
LEMMA AgentQuiet ==
  ASSUME AgentSlots, Room,
         \A u \in AgentRole : Coming(u)' = Coming(u),
         identified \subseteq identified',
         \A u \in AgentRole \intersect clients_hashes' :
           u \in clients_hashes /\ UNCHANGED <<agent_sock[u], num_parallel_connections[u]>>
  PROVE  AgentSlots' /\ Room'
  <1>1. AgentSlots'
    <2> SUFFICES ASSUME NEW t \in AgentRole \intersect clients_hashes'
                 PROVE  /\ \A k \in Slots :
                             IF k < num_parallel_connections'[t]
                             THEN /\ agent_sock'[t][k] \in identified'
                                  /\ \E j \in Slots \ Coming(t)' : agent_sock'[t][k] = <<t, j, 0>>
                             ELSE agent_sock'[t][k] = NoSocket
                        /\ \A j, k \in Slots :
                             agent_sock'[t][j] = agent_sock'[t][k] /\ agent_sock'[t][k] # NoSocket => j = k
      BY DEF AgentSlots
    <2>1. /\ t \in AgentRole \intersect clients_hashes /\ Coming(t)' = Coming(t)
          /\ agent_sock'[t] = agent_sock[t] /\ num_parallel_connections'[t] = num_parallel_connections[t]
      OBVIOUS
    <2> QED BY <2>1 DEF AgentSlots
  <1>2. Room'
    BY DEF Room
  <1> QED BY <1>1, <1>2

(* A connection that is accepted waits in the pool.                        *)
LEMMA AcceptCount ==
  ASSUME TypeInv, AgentCount, NEW t \in AgentRole, NEW k \in Slots, AcceptAgentSide(t, k)
  PROVE  AgentCount'
  <1>1. /\ k \in incoming[t] /\ incoming' = [incoming EXCEPT ![t] = @ \ {k}]
        /\ agent_fd_pool' = agent_fd_pool \union {<<t, k, 0>>}
        /\ UNCHANGED <<client_vars, identified>>
    BY DEF AcceptAgentSide
  <1>2. incoming \in [AgentRole -> SUBSET Slots]
    BY DEF TypeInv, TypeOK
  <1>3. \A u \in AgentRole : incoming'[u] = IF u = t THEN incoming[t] \ {k} ELSE incoming[u]
    BY <1>1, <1>2
  <1>4. \A u \in AgentRole, j \in Slots :
          <<u, j, 0>> \in agent_fd_pool' <=> <<u, j, 0>> \in agent_fd_pool \/ (u = t /\ j = k)
    BY <1>1
  <1>5. \A u \in AgentRole : Coming(u)' = Coming(u)
    BY <1>1, <1>2, <1>3, <1>4 DEF Coming
  <1>6. AcceptedOnce'
    BY <1>1, <1>3, <1>4 DEF AcceptedOnce, AgentCount
  <1>7. /\ identified \subseteq identified'
        /\ \A u \in AgentRole \intersect clients_hashes' :
             u \in clients_hashes /\ UNCHANGED <<agent_sock[u], num_parallel_connections[u]>>
    BY <1>1 DEF client_vars
  <1> QED BY <1>5, <1>6, <1>7, AgentQuiet DEF AgentCount

(* When its uuid is there it gets a slot: there is one.                    *)
LEMMA ConfirmEffect ==
  ASSUME TypeInv, AgentCount, ConfirmClient,
         NEW t, t = busy[1], NEW n, n = NextSlot(t)
  PROVE  /\ t \in AgentRole /\ busy = <<t, busy[2], 0>> /\ busy \in identified
         /\ busy[2] \in Coming(t) /\ Coming(t)' = Coming(t) \ {busy[2]}
         /\ \A u \in AgentRole \ {t} : Coming(u)' = Coming(u)
         /\ AcceptedOnce'
         /\ n \in Slots /\ n + 1 + Cardinality(Coming(t)') <= Connections
         /\ num_parallel_connections'[t] = n + 1
         /\ \A k \in Slots : agent_sock'[t][k] =
              IF k = n THEN busy ELSE IF t \notin clients_hashes THEN NoSocket ELSE agent_sock[t][k]
         /\ clients_hashes' = clients_hashes \union {t}
         /\ \A u \in Transfers \ {t} : UNCHANGED <<agent_sock[u], num_parallel_connections[u]>>
         /\ UNCHANGED <<identified, connected>>
  <1> DEFINE k0 == busy[2]
  <1>1. /\ busy \in agent_fd_pool /\ t \in AgentRole /\ k0 \in Slots /\ busy = <<t, k0, 0>>
        /\ t \in Transfers
    BY AcceptedParts DEF ConfirmClient, TypeInv, RealSockets, Transfers
  <1>2. /\ busy \in identified /\ agent_fd_pool' = agent_fd_pool \ {busy}
        /\ clients_hashes' = clients_hashes \union {t}
        /\ UNCHANGED <<incoming, identified, connected>>
    BY DEF ConfirmClient, kernel_vars
  <1>3. /\ num_parallel_connections'[t] = n + 1
        /\ \A u \in Transfers \ {t} : UNCHANGED <<agent_sock[u], num_parallel_connections[u]>>
    BY <1>1 DEF ConfirmClient, TypeInv, TypeOK
  <1>4. \A k \in Slots : agent_sock'[t][k] =
          IF k = n THEN busy ELSE IF t \notin clients_hashes THEN NoSocket ELSE agent_sock[t][k]
    BY <1>1 DEF ConfirmClient, TypeInv, TypeOK
  <1>5. \A u \in AgentRole, j \in Slots :
          <<u, j, 0>> \in agent_fd_pool' <=> <<u, j, 0>> \in agent_fd_pool /\ ~(u = t /\ j = k0)
    BY <1>1, <1>2
  <1>6. k0 \in Coming(t) /\ k0 \notin incoming[t]
    BY <1>1 DEF Coming, AgentCount, AcceptedOnce
  <1>7. Coming(t)' = Coming(t) \ {k0}
    BY <1>1, <1>2, <1>5, <1>6, SetupAssumption DEF Coming, TypeInv, TypeOK
  <1>8. \A u \in AgentRole \ {t} : Coming(u)' = Coming(u)
    BY <1>2, <1>5 DEF Coming
  <1>9. AcceptedOnce'
    BY <1>2, <1>5 DEF AcceptedOnce, AgentCount
  <1>10. n \in Nat /\ n + Cardinality(Coming(t)) <= Connections
    <2>1. CASE t \in clients_hashes
      BY <1>1, <2>1 DEF NextSlot, AgentCount, Room, TypeInv, TypeOK
    <2>2. CASE t \notin clients_hashes
      BY <1>1, <2>2, ComingFits DEF NextSlot
    <2> QED BY <2>1, <2>2
  <1>11. Cardinality(Coming(t)') = Cardinality(Coming(t)) - 1 /\ Cardinality(Coming(t)') \in Nat
    BY <1>1, <1>6, <1>7, ComingFits, FS_RemoveElement, FS_CardinalityType
  <1>12. n \in Slots /\ n + 1 + Cardinality(Coming(t)') <= Connections
    BY <1>1, <1>10, <1>11, ComingFits, SetupAssumption DEF Slots
  <1> QED BY <1>1, <1>2, <1>3, <1>4, <1>6, <1>7, <1>8, <1>9, <1>12

(* And it is the next one.                                                 *)
LEMMA ConfirmCount ==
  ASSUME TypeInv, AgentCount, ConfirmClient
  PROVE  AgentCount'
  <1> SUFFICES ASSUME NEW t, t = busy[1], NEW n, n = NextSlot(t)
               PROVE  AgentCount'
    OBVIOUS
  <1>1. /\ t \in AgentRole /\ busy = <<t, busy[2], 0>> /\ busy \in identified
        /\ busy[2] \in Coming(t) /\ Coming(t)' = Coming(t) \ {busy[2]}
        /\ \A u \in AgentRole \ {t} : Coming(u)' = Coming(u)
        /\ AcceptedOnce'
        /\ n \in Slots /\ n + 1 + Cardinality(Coming(t)') <= Connections
        /\ num_parallel_connections'[t] = n + 1
        /\ \A k \in Slots : agent_sock'[t][k] =
             IF k = n THEN busy ELSE IF t \notin clients_hashes THEN NoSocket ELSE agent_sock[t][k]
        /\ clients_hashes' = clients_hashes \union {t}
        /\ \A u \in Transfers \ {t} : UNCHANGED <<agent_sock[u], num_parallel_connections[u]>>
        /\ UNCHANGED <<identified, connected>>
    BY ConfirmEffect
  <1>2. t \in clients_hashes => n = num_parallel_connections[t]
    BY DEF NextSlot
  <1>3. t \notin clients_hashes => n = 0
    BY DEF NextSlot
  <1>4. busy[2] \in Slots /\ busy # NoSocket /\ Slots \subseteq Nat
    BY <1>1, ComingFits, SocketParts, SetupAssumption DEF Slots
  <1>5. Room'
    <2> SUFFICES ASSUME NEW u \in AgentRole \intersect clients_hashes'
                 PROVE  num_parallel_connections'[u] + Cardinality(Coming(u)') <= Connections
      BY DEF Room
    <2>1. CASE u = t
      BY <1>1, <2>1
    <2>2. CASE u # t
      BY <1>1, <2>2 DEF Room, AgentCount, Transfers
    <2> QED BY <2>1, <2>2
  <1>6. AgentSlots'
    <2> SUFFICES ASSUME NEW u \in AgentRole \intersect clients_hashes'
                 PROVE  /\ \A k \in Slots :
                             IF k < num_parallel_connections'[u]
                             THEN /\ agent_sock'[u][k] \in identified'
                                  /\ \E j \in Slots \ Coming(u)' : agent_sock'[u][k] = <<u, j, 0>>
                             ELSE agent_sock'[u][k] = NoSocket
                        /\ \A j, k \in Slots :
                             agent_sock'[u][j] = agent_sock'[u][k] /\ agent_sock'[u][k] # NoSocket => j = k
      BY DEF AgentSlots
    <2>1. CASE u # t
      <3>1. /\ u \in AgentRole \intersect clients_hashes /\ Coming(u)' = Coming(u)
            /\ agent_sock'[u] = agent_sock[u] /\ num_parallel_connections'[u] = num_parallel_connections[u]
        BY <1>1, <2>1 DEF Transfers
      <3> QED BY <1>1, <3>1 DEF AgentSlots, AgentCount
    <2>2. CASE u = t /\ t \in clients_hashes
      <3>1. ASSUME NEW k \in Slots, k < n
            PROVE  /\ agent_sock'[t][k] = agent_sock[t][k] /\ agent_sock[t][k] \in identified
                   /\ agent_sock[t][k] # busy
                   /\ \E j \in Slots \ Coming(t)' : agent_sock[t][k] = <<t, j, 0>>
        <4>1. PICK j \in Slots \ Coming(t) : agent_sock[t][k] = <<t, j, 0>>
          BY <1>1, <1>2, <2>2, <3>1 DEF AgentSlots, AgentCount
        <4>2. j # busy[2]
          BY <1>1, <4>1
        <4>3. agent_sock[t][k] \in identified
          BY <1>1, <1>2, <2>2, <3>1 DEF AgentSlots, AgentCount
        <4> QED BY <1>1, <1>4, <2>2, <3>1, <4>1, <4>2, <4>3
      <3>2. ASSUME NEW k \in Slots, k > n
            PROVE  agent_sock'[t][k] = NoSocket
        BY <1>1, <1>2, <1>4, <2>2, <3>2 DEF AgentSlots, AgentCount
      <3>3. agent_sock'[t][n] = busy /\ \E j \in Slots \ Coming(t)' : busy = <<t, j, 0>>
        BY <1>1, <1>4
      <3>4. \A k \in Slots : k < n \/ k = n \/ k > n
        BY <1>1, <1>4
      <3>5. \A k \in Slots : k < num_parallel_connections'[t] <=> k < n \/ k = n
        BY <1>1, <1>4
      <3>6. \A j, k \in Slots : agent_sock[t][j] = agent_sock[t][k] /\ agent_sock[t][k] # NoSocket => j = k
        BY <1>1, <2>2 DEF AgentSlots, AgentCount
      <3>7. \A k \in Slots : k > n => ~(k < n \/ k = n)
        BY <1>1, <1>4
      <3>8. \A k \in Slots :
              IF k < num_parallel_connections'[t]
              THEN /\ agent_sock'[t][k] \in identified'
                   /\ \E j \in Slots \ Coming(t)' : agent_sock'[t][k] = <<t, j, 0>>
              ELSE agent_sock'[t][k] = NoSocket
        BY <1>1, <3>1, <3>2, <3>3, <3>4, <3>5
      <3>9. ASSUME NEW j \in Slots, NEW k \in Slots,
                   agent_sock'[t][j] = agent_sock'[t][k], agent_sock'[t][k] # NoSocket
            PROVE  j = k
        BY <3>1, <3>2, <3>3, <3>4, <3>6, <3>9
      <3> QED BY <2>2, <3>8, <3>9
    <2>3. CASE u = t /\ t \notin clients_hashes
      <3>1. n = 0 /\ num_parallel_connections'[t] = 1
        BY <1>1, <1>3, <2>3
      <3>2. /\ agent_sock'[t][0] = busy /\ 0 \in Slots
            /\ \A k \in Slots \ {0} : agent_sock'[t][k] = NoSocket
        BY <1>1, <2>3, <3>1
      <3>3. \A k \in Slots : k < 1 <=> k = 0
        BY <1>4
      <3>4. \E j \in Slots \ Coming(t)' : busy = <<t, j, 0>>
        BY <1>1, <1>4
      <3> QED BY <1>1, <2>3, <3>1, <3>2, <3>3, <3>4
    <2> QED BY <2>1, <2>2, <2>3
  <1> QED BY <1>1, <1>5, <1>6 DEF AgentCount

(* Every step keeps the slots of the AGENT clients right.                  *)
LEMMA NextAgentCount ==
  ASSUME TypeInv, GenInv, AgentCount, [Next]_vars
  PROVE  AgentCount'
  <1>1. CASE \E t \in AgentRole, k \in Slots : AcceptAgentSide(t, k)
    BY <1>1, AcceptCount
  <1>2. CASE ConfirmClient
    BY <1>2, ConfirmCount
  <1>3. ASSUME UNCHANGED <<incoming, agent_fd_pool>>,
               identified \subseteq identified',
               \A u \in AgentRole \intersect clients_hashes' :
                 u \in clients_hashes /\ UNCHANGED <<agent_sock[u], num_parallel_connections[u]>>
        PROVE  AgentCount'
    <2>1. \A u \in AgentRole : Coming(u)' = Coming(u)
      BY <1>3 DEF Coming
    <2>2. AcceptedOnce'
      BY <1>3 DEF AcceptedOnce, AgentCount
    <2> QED BY <1>3, <2>1, <2>2, AgentQuiet DEF AgentCount
  <1>4. ASSUME NEW t \in Transfers, ControllerMessage(t)
        PROVE  AgentCount'
    <2>1. PICK C \in SUBSET ClientRole :
            \A u \in Transfers \ C : UNCHANGED <<agent_sock[u], num_parallel_connections[u]>>
      BY <1>4, MessageEffect
    <2>2. \A u \in AgentRole : UNCHANGED <<agent_sock[u], num_parallel_connections[u]>>
      BY <2>1, SetupAssumption DEF Transfers
    <2>3. UNCHANGED <<incoming, agent_fd_pool, identified, clients_hashes>>
      BY <1>4 DEF ControllerMessage, kernel_vars
    <2> QED BY <1>3, <2>2, <2>3
  <1>5. ASSUME NEW t \in ClientRole, HostSideConnect(t)
        PROVE  AgentCount'
    <2>1. /\ clients_hashes' = clients_hashes \union {t}
          /\ \A u \in Transfers \ {t} : UNCHANGED agent_sock[u]
          /\ UNCHANGED <<num_parallel_connections, incoming, agent_fd_pool, identified>>
      BY <1>5, HostEffect
    <2>2. t \notin AgentRole
      BY SetupAssumption
    <2> QED BY <1>3, <2>1, <2>2 DEF Transfers
  <1>6. ASSUME NEW s \in event_pool, AgentConnected(s)
        PROVE  AgentCount'
    <2>1. UNCHANGED <<incoming, agent_fd_pool, identified, clients_hashes, agent_sock>>
      BY <1>6 DEF AgentConnected, kernel_vars
    <2>2. \A u \in AgentRole : UNCHANGED num_parallel_connections[u]
      <3>1. PICK c \in ClientRole :
              \/ num_parallel_connections' = num_parallel_connections
              \/ num_parallel_connections' = [num_parallel_connections EXCEPT ![c] = @ + 1]
        BY <1>6, EventOfClient
      <3> QED BY <3>1, SetupAssumption DEF TypeInv, TypeOK, Transfers
    <2> QED BY <1>3, <2>1, <2>2
  <1>7. ASSUME NEW t \in Transfers, Expire(t)
        PROVE  AgentCount'
    <2>1. /\ UNCHANGED <<incoming, agent_fd_pool, identified, agent_sock, num_parallel_connections>>
          /\ clients_hashes' \subseteq clients_hashes
      BY <1>7 DEF Expire, Remaining, kernel_vars
    <2> QED BY <1>3, <2>1
  <1>8. CASE \/ \E s \in event_pool : HostConnected(s) \/ GetUuid(s)
             \/ SendUuid \/ ScanEnds \/ Timeout \/ Ended \/ UNCHANGED vars
             \/ \E s \in Opened : ConnectEnds(s)
             \/ \E s \in agent_fd_pool : UuidArrives(s) \/ HangsUp(s)
             \/ GetUuidFails \/ \E s \in event_pool : Resets(s)
    <2>1. /\ UNCHANGED <<incoming, agent_fd_pool, clients_hashes, agent_sock, num_parallel_connections>>
          /\ identified \subseteq identified'
      BY <1>8 DEF HostConnected, GetUuid, SendUuid, ScanEnds, Timeout, Ended, ConnectEnds, UuidArrives,
                  HangsUp, GetUuidFails, Resets, vars, client_vars, child_vars, kernel_vars
    <2> QED BY <1>3, <2>1
  <1> QED BY <1>1, <1>2, <1>4, <1>5, <1>6, <1>7, <1>8 DEF Next, Handler, Environment

-----------------------------------------------------------------------------
(* The counter of a CLIENT.                                                *)

(* The sockets of two slots differ, and so do those of two clients.        *)
LEMMA OwnSlots ==
  ASSUME GenInv, NEW t \in ClientRole, NEW u \in ClientRole, NEW j \in Slots, NEW k \in Slots,
         agent_sock[t][j] = agent_sock[u][k], agent_sock[t][j] # NoSocket
  PROVE  t = u /\ j = k
  BY DEF GenInv, OwnSockets

(* The sockets of AGENT transfers are not in these slots.                  *)
LEMMA NotAClients ==
  ASSUME GenInv, NEW s, s \in Accepted, NEW u \in ClientRole, NEW k \in Slots
  PROVE  agent_sock[u][k] # s
  BY AcceptedParts, SetupAssumption DEF GenInv, OwnSockets

(* Handlers that leave the slots and what is identified in them.           *)
LEMMA ClientQuiet ==
  ASSUME CountedRight, pc \in Running, pc # "send_uuid", pc' # "send_uuid",
         \A u \in ClientRole \intersect clients_hashes' :
           /\ u \in clients_hashes /\ UNCHANGED <<agent_sock[u], num_parallel_connections[u]>>
           /\ \A k \in Slots : agent_sock[u][k] \in identified' <=> agent_sock[u][k] \in identified
  PROVE  ClientCount'
  <1>1. \A u \in ClientRole \intersect clients_hashes' : Counted(u)' = Counted(u)
    BY DEF Counted
  <1> QED BY <1>1 DEF ClientCount, CountedRight, SendsOwn

(* The same while send_uuid waits, and when the daemon has ended.          *)
LEMMA ClientWaits ==
  ASSUME ClientCount, UNCHANGED <<pc, busy, clients_hashes, agent_sock, num_parallel_connections, event_pool>>,
         \A u \in ClientRole \intersect clients_hashes, k \in Slots :
           agent_sock[u][k] \in identified' <=> agent_sock[u][k] \in identified
  PROVE  ClientCount'
  <1>1. \A u \in ClientRole \intersect clients_hashes : Counted(u)' = Counted(u)
    BY DEF Counted
  <1>2. CountedRight'
    BY <1>1 DEF ClientCount, CountedRight
  <1>3. SendsOwn'
    BY DEF ClientCount, SendsOwn
  <1> QED BY <1>2, <1>3 DEF ClientCount

(* The counter of a client that is connected starts at zero: its sockets   *)
(* are new, and none of them is identified.                                *)
LEMMA MessageCount ==
  ASSUME TypeInv, GenInv, ClientCount, NEW t \in Transfers, ControllerMessage(t)
  PROVE  ClientCount'
  <1>1. PICK C \in SUBSET ClientRole :
          /\ \A u \in C : /\ \A k \in Slots : agent_sock'[u][k] = <<u, k, generation[u] + 1>>
                          /\ num_parallel_connections'[u] = 0
          /\ \A u \in Transfers \ C : UNCHANGED <<agent_sock[u], num_parallel_connections[u]>>
          /\ pc = "wait" /\ pc' = "scan" /\ UNCHANGED <<clients_hashes, identified>>
    BY MessageEffect DEF kernel_vars
  <1>2. ASSUME NEW u \in C
        PROVE  Counted(u)' = {}
    <2>1. \A k \in Slots : agent_sock'[u][k] \notin identified
      <3> SUFFICES ASSUME NEW k \in Slots, agent_sock'[u][k] \in identified
                   PROVE  FALSE
        OBVIOUS
      <3> DEFINE s == <<u, k, generation[u] + 1>>
      <3>1. s[1] = u /\ s[2] = k /\ s[3] = generation[u] + 1 /\ s \in identified
        BY <1>1
      <3>2. u \in ClientRole /\ k # HostSlot /\ generation[u] \in Nat
        BY SocketParts DEF TypeInv, TypeOK, Transfers
      <3> HIDE DEF s
      <3>3. s[3] <= generation[u]
        BY <3>1, <3>2 DEF GenInv, Earlier, Known
      <3> QED BY <3>1, <3>2, <3>3
    <2> QED BY <1>1, <2>1 DEF Counted
  <1>3. ASSUME NEW u \in ClientRole \intersect clients_hashes
        PROVE  num_parallel_connections'[u] = Cardinality(Counted(u)')
    <2>1. CASE u \in C
      BY <1>1, <1>2, <2>1, FS_EmptySet
    <2>2. CASE u \notin C
      <3>1. UNCHANGED <<agent_sock[u], num_parallel_connections[u]>>
        BY <1>1, <2>2 DEF Transfers
      <3>2. Counted(u)' = Counted(u)
        BY <1>1, <3>1 DEF Counted
      <3>3. num_parallel_connections[u] = Cardinality(Counted(u))
        BY <1>1 DEF ClientCount, CountedRight, Running
      <3> QED BY <3>1, <3>2, <3>3
    <2> QED BY <2>1, <2>2
  <1> QED BY <1>1, <1>3 DEF ClientCount, CountedRight, SendsOwn

(* So does that of a host that connects.                                   *)
LEMMA HostCount ==
  ASSUME TypeInv, GenInv, ClientCount, NEW t \in ClientRole, HostSideConnect(t)
  PROVE  ClientCount'
  <1>1. /\ t \in hosts /\ pc = "wait" /\ pc' = "scan"
        /\ clients_hashes' = clients_hashes \union {t}
        /\ \A u \in Transfers \ {t} : UNCHANGED agent_sock[u]
        /\ t \notin requests => agent_sock' = agent_sock
        /\ t \in requests => \A k \in Slots : agent_sock'[t][k] = <<t, k, generation[t] + 1>>
        /\ UNCHANGED <<num_parallel_connections, identified>>
    BY HostEffect
  <1>2. /\ \A k \in Slots : agent_sock[t][k] = NoSocket
        /\ num_parallel_connections[t] = 0
    BY <1>1 DEF GenInv, OwnSockets
  <1>3. \A s \in identified : s[1] = t => s[2] \notin Slots
    BY <1>2, SocketParts DEF GenInv, Earlier, Known
  <1>4. ASSUME NEW k \in Slots
        PROVE  agent_sock'[t][k] \notin identified
    <2>1. CASE t \in requests
      <3>1. agent_sock'[t][k][1] = t /\ agent_sock'[t][k][2] = k
        BY <1>1, <2>1
      <3> QED BY <1>3, <3>1
    <2>2. CASE t \notin requests
      BY <1>1, <1>2, <2>2 DEF GenInv, Outcomes
    <2> QED BY <2>1, <2>2
  <1>5. Counted(t)' = {}
    BY <1>1, <1>4 DEF Counted
  <1>6. ASSUME NEW u \in ClientRole \intersect clients_hashes', u # t
        PROVE  num_parallel_connections'[u] = Cardinality(Counted(u)')
    <2>1. u \in clients_hashes /\ UNCHANGED agent_sock[u]
      BY <1>1, <1>6 DEF Transfers
    <2>2. Counted(u)' = Counted(u)
      BY <1>1, <2>1 DEF Counted
    <2>3. num_parallel_connections[u] = Cardinality(Counted(u))
      BY <1>1, <2>1 DEF ClientCount, CountedRight, Running
    <2> QED BY <1>1, <2>2, <2>3
  <1>7. num_parallel_connections'[t] = Cardinality(Counted(t)')
    BY <1>1, <1>2, <1>5, FS_EmptySet
  <1> QED BY <1>1, <1>6, <1>7 DEF ClientCount, CountedRight, SendsOwn

(* An event counts a slot; if that is still polled it was not counted.     *)
LEMMA EventCount ==
  ASSUME TypeInv, GenInv, ClientCount, NEW s \in event_pool, AgentConnected(s)
  PROVE  ClientCount'
  <1>1. PICK t \in ClientRole, n \in Slots, cur \in {agent_sock[s[1]][s[2]]} :
          /\ t = s[1] /\ n = s[2] /\ cur = agent_sock[t][n] /\ cur # NoSocket
          /\ cur[1] = t /\ cur[2] = n
    BY EventOfClient
  <1>2. pc = "wait" /\ UNCHANGED <<clients_hashes, agent_sock, identified>>
    BY EventOfClient DEF kernel_vars
  <1>3. \/ pc' # "send_uuid" /\ UNCHANGED num_parallel_connections
        \/ /\ t \in clients_hashes /\ pc' = "send_uuid" /\ busy' = cur
           /\ num_parallel_connections' = [num_parallel_connections EXCEPT ![t] = @ + 1]
           /\ UNCHANGED event_pool
    BY <1>1, EventOfClient
  <1>4. CASE pc' # "send_uuid" /\ UNCHANGED num_parallel_connections
    BY <1>2, <1>4, ClientQuiet DEF ClientCount, Running
  <1>5. CASE /\ t \in clients_hashes /\ pc' = "send_uuid" /\ busy' = cur
             /\ num_parallel_connections' = [num_parallel_connections EXCEPT ![t] = @ + 1]
             /\ UNCHANGED event_pool
    <2>1. SendsOwn'
      BY <1>1, <1>2, <1>5 DEF SendsOwn
    <2>2. ASSUME cur \in event_pool, NEW u \in ClientRole \intersect clients_hashes
          PROVE  num_parallel_connections'[u] = Cardinality(Counted(u)')
      <3>1. num_parallel_connections[u] = Cardinality(Counted(u)) /\ num_parallel_connections[u] \in Nat
        BY <1>2 DEF ClientCount, CountedRight, Running, TypeInv, TypeOK, Transfers
      <3>2. cur \notin identified
        BY <1>1, <2>2, SocketParts DEF GenInv, Unsent
      <3>3. CASE u = t
        <4>1. \A k \in Slots : agent_sock[u][k] = cur <=> k = n
          BY <1>1, <3>3, OwnSlots
        <4>2. Counted(u)' = Counted(u) \union {n}
          BY <1>1, <1>2, <1>5, <3>3, <4>1 DEF Counted
        <4>3. n \notin Counted(u)
          BY <1>1, <1>2, <3>2, <3>3 DEF Counted
        <4>4. IsFiniteSet(Counted(u))
          <5>1. IsFiniteSet(Slots) /\ Counted(u) \subseteq Slots
            BY SetupAssumption, FS_Interval DEF Slots, Counted
          <5> QED BY <5>1, FS_Subset
        <4>5. Cardinality(Counted(u)') = Cardinality(Counted(u)) + 1
          BY <4>2, <4>3, <4>4, FS_AddElement
        <4>6. num_parallel_connections'[u] = num_parallel_connections[u] + 1
          BY <1>5, <3>3 DEF TypeInv, TypeOK, Transfers
        <4> QED BY <3>1, <4>5, <4>6
      <3>4. CASE u # t
        <4>1. \A k \in Slots : agent_sock[u][k] # cur
          BY <1>1, <3>4, OwnSlots
        <4>2. Counted(u)' = Counted(u)
          BY <1>2, <1>5, <4>1 DEF Counted
        <4>3. num_parallel_connections'[u] = num_parallel_connections[u]
          BY <1>5, <3>4 DEF TypeInv, TypeOK, Transfers
        <4> QED BY <3>1, <4>2, <4>3
      <3> QED BY <3>3, <3>4
    <2>3. CountedRight'
      BY <1>2, <1>5, <2>2 DEF CountedRight
    <2> QED BY <2>1, <2>3 DEF ClientCount
  <1> QED BY <1>3, <1>4, <1>5

(* send_uuid ends, and the slot stays counted.                             *)
LEMMA SendCount ==
  ASSUME TypeInv, GenInv, ClientCount, SendUuid
  PROVE  ClientCount'
  <1>1. pc = "send_uuid" /\ UNCHANGED <<clients_hashes, agent_sock, num_parallel_connections>>
    BY DEF SendUuid, client_vars
  <1>2. \/ pc' \in Fatal
        \/ pc' = "scan" /\ identified' = identified \union {busy} /\ busy \in event_pool
    BY DEF SendUuid, Fatal
  <1>3. CASE pc' \in Fatal
    BY <1>3 DEF ClientCount, CountedRight, SendsOwn, Fatal, Running
  <1>4. CASE pc' = "scan" /\ identified' = identified \union {busy} /\ busy \in event_pool
    <2>1. \A u \in ClientRole \intersect clients_hashes : Counted(u)' = Counted(u)
      BY <1>1, <1>4 DEF Counted
    <2>2. \A u \in ClientRole \intersect clients_hashes : num_parallel_connections[u] = Cardinality(Counted(u))
      BY <1>1, <1>4 DEF ClientCount, CountedRight, Running
    <2> QED BY <1>1, <1>4, <2>1, <2>2 DEF ClientCount, CountedRight, SendsOwn
  <1> QED BY <1>2, <1>3, <1>4

(* Every step keeps the counters of the CLIENTs right.                     *)
LEMMA NextClientCount ==
  ASSUME TypeInv, GenInv, ClientCount, [Next]_vars
  PROVE  ClientCount'
  <1>1. CASE \E t \in Transfers : ControllerMessage(t)
    BY <1>1, MessageCount
  <1>2. CASE \E t \in ClientRole : HostSideConnect(t)
    BY <1>2, HostCount
  <1>3. CASE \E s \in event_pool : AgentConnected(s)
    BY <1>3, EventCount
  <1>4. CASE SendUuid
    BY <1>4, SendCount
  <1>5. CASE ConfirmClient
    <2>1. PICK t : t = busy[1] /\ t \in AgentRole
      BY <1>5, AcceptedParts DEF ConfirmClient, TypeInv, RealSockets
    <2>2. /\ pc = "get_uuid" /\ pc' = "scan" /\ clients_hashes' = clients_hashes \union {t}
          /\ UNCHANGED identified
      BY <1>5, <2>1 DEF ConfirmClient, kernel_vars
    <2>3. \A u \in Transfers \ {t} : UNCHANGED <<agent_sock[u], num_parallel_connections[u]>>
      BY <1>5, <2>1 DEF ConfirmClient, TypeInv, TypeOK
    <2>4. t \notin ClientRole
      BY <2>1, SetupAssumption
    <2> QED BY <2>2, <2>3, <2>4, ClientQuiet DEF ClientCount, Transfers, Running
  <1>6. ASSUME NEW s \in agent_fd_pool, UuidArrives(s)
        PROVE  ClientCount'
    <2>1. s \in Accepted
      BY DEF TypeInv, RealSockets
    <2>2. /\ identified' = identified \union {s}
          /\ UNCHANGED <<pc, busy, client_vars, event_pool>>
      BY <1>6 DEF UuidArrives
    <2>3. \A u \in ClientRole, j \in Slots : agent_sock[u][j] # s
      BY <2>1, NotAClients
    <2> QED BY <2>2, <2>3, ClientWaits DEF client_vars
  <1>7. CASE \/ \E s \in event_pool : HostConnected(s) \/ GetUuid(s)
             \/ \E t \in AgentRole, k \in Slots : AcceptAgentSide(t, k)
             \/ GetUuidFails \/ ScanEnds \/ Timeout \/ \E t \in Transfers : Expire(t)
    <2>1. /\ pc \in {"scan", "wait", "get_uuid"} /\ pc' # "send_uuid" /\ clients_hashes' \subseteq clients_hashes
          /\ UNCHANGED <<agent_sock, num_parallel_connections, identified>>
      BY <1>7 DEF HostConnected, GetUuid, GetUuidFails, Ready, AcceptAgentSide, ScanEnds, Timeout, Expire, Remaining,
                  client_vars, kernel_vars
    <2> QED BY <2>1, ClientQuiet DEF ClientCount, Running
  <1>8. CASE \/ Ended \/ UNCHANGED vars \/ \E s \in agent_fd_pool : HangsUp(s)
             \/ (\E s \in Opened : ConnectEnds(s)) \/ \E s \in event_pool : Resets(s)
    <2>1. UNCHANGED <<pc, busy, clients_hashes, agent_sock, num_parallel_connections, event_pool, identified>>
      BY <1>8 DEF Ended, HangsUp, ConnectEnds, Resets, vars, client_vars, kernel_vars
    <2> QED BY <2>1, ClientWaits
  <1> QED BY <1>1, <1>2, <1>3, <1>4, <1>5, <1>6, <1>7, <1>8 DEF Next, Handler, Environment

-----------------------------------------------------------------------------
(* The children.                                                           *)

(* Nothing that is not a fork takes back what a child was given.           *)
LEMMA ChildQuiet ==
  ASSUME Children, forked' = forked, connected \subseteq connected', identified \subseteq identified',
         hosts' \subseteq hosts, \A u \in AgentRole : Coming(u)' \subseteq Coming(u),
         \A c \in forked : c[1] \notin clients_hashes'
  PROVE  Children'
  <1>1. ChildrenApart'
    BY DEF Children, ChildrenApart
  <1>2. ForkedOnce'
    BY DEF Children, ForkedOnce
  <1>3. ForkedSlots'
    BY DEF Children, ForkedSlots
  <1> QED BY <1>1, <1>2, <1>3 DEF Children

(* A complete client has all its connections, and nothing of its transfer  *)
(* is still to come.                                                       *)
LEMMA CompleteClient ==
  ASSUME TypeInv, GenInv, AgentCount, ClientCount, pc = "scan", NEW t \in clients_hashes, Complete(t)
  PROVE  /\ \A k \in Slots : agent_sock[t][k] \in connected \intersect identified /\ agent_sock[t][k][1] = t
         /\ \A j, k \in Slots : agent_sock[t][j] = agent_sock[t][k] => j = k
         /\ t \in ClientRole => t \notin hosts
         /\ t \in AgentRole => Coming(t) = {}
  <1>1. num_parallel_connections[t] = Connections
    BY DEF Complete
  <1>2. IsFiniteSet(Slots) /\ Cardinality(Slots) = Connections /\ \A k \in Slots : k < Connections
    BY SetupAssumption, FS_Interval DEF Slots
  <1>3. NoSocket \notin connected /\ identified \subseteq connected
    BY DEF GenInv, Outcomes
  <1>4. CASE t \in ClientRole
    <2>1. Counted(t) \subseteq Slots /\ Cardinality(Counted(t)) = Connections
      BY <1>1, <1>4 DEF ClientCount, CountedRight, Counted, Running
    <2>2. Counted(t) = Slots
      BY <1>2, <2>1, FS_Subset
    <2>3. \A k \in Slots : agent_sock[t][k] \in connected \intersect identified
      BY <1>3, <2>2 DEF Counted
    <2>4. \A k \in Slots : agent_sock[t][k] # NoSocket
      BY <1>3, <2>3
    <2>5. \A k \in Slots : agent_sock[t][k][1] = t
      BY <1>4, <2>4 DEF GenInv, OwnSockets
    <2>6. \A j, k \in Slots : agent_sock[t][j] = agent_sock[t][k] => j = k
      BY <1>4, <2>4, OwnSlots
    <2>7. t \notin hosts /\ t \notin AgentRole
      BY <1>4, SetupAssumption DEF GenInv, OwnSockets
    <2> QED BY <2>3, <2>5, <2>6, <2>7
  <1>5. CASE t \in AgentRole
    <2>1. ASSUME NEW k \in Slots
          PROVE  agent_sock[t][k] \in connected \intersect identified /\ agent_sock[t][k][1] = t
      <3>1. agent_sock[t][k] \in identified /\ \E j \in Slots : agent_sock[t][k] = <<t, j, 0>>
        BY <1>1, <1>2, <1>5 DEF AgentCount, AgentSlots
      <3> QED BY <1>3, <3>1
    <2>2. \A j, k \in Slots : agent_sock[t][j] = agent_sock[t][k] => j = k
      BY <1>3, <1>5, <2>1 DEF AgentCount, AgentSlots
    <2>3. Coming(t) = {}
      <3>1. num_parallel_connections[t] + Cardinality(Coming(t)) <= Connections
        BY <1>5 DEF AgentCount, Room
      <3>2. Cardinality(Coming(t)) = 0 /\ IsFiniteSet(Coming(t))
        BY <1>1, <1>5, <3>1, ComingFits, SetupAssumption
      <3> QED BY <3>2, FS_EmptySet
    <2>4. t \notin ClientRole
      BY <1>5, SetupAssumption
    <2> QED BY <2>1, <2>2, <2>3, <2>4
  <1> QED BY <1>4, <1>5 DEF TypeInv, TypeOK, Transfers

(* What the scan gives to a child is complete, and the child its first.    *)
LEMMA ExpireChild ==
  ASSUME TypeInv, GenInv, AgentCount, ClientCount, Children, NEW t \in Transfers, Expire(t)
  PROVE  Children'
  <1>1. /\ t \in clients_hashes /\ pc = "scan" /\ clients_hashes' = clients_hashes \ {t}
        /\ UNCHANGED <<connected, identified, hosts, incoming, agent_fd_pool>>
        /\ forked' = IF Complete(t) THEN forked \union {<<t, host_sock[t], agent_sock[t]>>} ELSE forked
    BY DEF Expire, Remaining, kernel_vars
  <1>2. \A u \in AgentRole : Coming(u)' = Coming(u)
    BY <1>1 DEF Coming
  <1>3. CASE ~Complete(t)
    BY <1>1, <1>2, <1>3, ChildQuiet DEF Children, ChildrenApart
  <1>4. CASE Complete(t)
    <2>1. /\ \A k \in Slots : agent_sock[t][k] \in connected \intersect identified /\ agent_sock[t][k][1] = t
          /\ \A j, k \in Slots : agent_sock[t][j] = agent_sock[t][k] => j = k
          /\ t \in ClientRole => t \notin hosts
          /\ t \in AgentRole => Coming(t) = {}
      BY <1>1, <1>4, CompleteClient
    <2> DEFINE new == <<t, host_sock[t], agent_sock[t]>>
    <2>2. new[1] = t /\ new[2] = host_sock[t] /\ new[3] = agent_sock[t]
      OBVIOUS
    <2>3. forked' = forked \union {new}
      BY <1>1, <1>4
    <2> HIDE DEF new
    <2>4. ChildrenApart'
      <3> SUFFICES ASSUME NEW c \in forked'
                   PROVE  /\ c[1] \notin clients_hashes'
                          /\ c[1] \in ClientRole => c[1] \notin hosts'
                          /\ c[1] \in AgentRole => Coming(c[1])' = {}
                          /\ \A k \in Slots : c[3][k][1] = c[1]
        BY DEF ChildrenApart
      <3>1. CASE c \in forked
        BY <1>1, <1>2, <3>1 DEF Children, ChildrenApart
      <3>2. CASE c = new
        BY <1>1, <1>2, <2>1, <2>2, <3>2
      <3> QED BY <2>3, <3>1, <3>2
    <2>5. ForkedOnce'
      <3>1. \A c \in forked : c[1] # t
        BY <1>1 DEF Children, ChildrenApart
      <3> QED BY <2>2, <2>3, <3>1 DEF Children, ForkedOnce
    <2>6. ForkedSlots'
      <3> SUFFICES ASSUME NEW c \in forked'
                   PROVE  /\ \A k \in Slots : c[3][k] \in connected' \intersect identified'
                          /\ \A j, k \in Slots : c[3][j] = c[3][k] => j = k
        BY DEF ForkedSlots
      <3>1. CASE c \in forked
        BY <1>1, <3>1 DEF Children, ForkedSlots
      <3>2. CASE c = new
        BY <1>1, <2>1, <2>2, <3>2
      <3> QED BY <2>3, <3>1, <3>2
    <2> QED BY <2>4, <2>5, <2>6 DEF Children
  <1> QED BY <1>3, <1>4

(* Every step leaves the children what they have.                          *)
LEMMA NextChildren ==
  ASSUME TypeInv, GenInv, AgentCount, ClientCount, Children, [Next]_vars
  PROVE  Children'
  <1>1. CASE \E t \in Transfers : Expire(t)
    BY <1>1, ExpireChild
  <1>2. ASSUME NEW t \in ClientRole, HostSideConnect(t)
        PROVE  Children'
    <2>1. /\ t \in hosts /\ hosts' \subseteq hosts /\ clients_hashes' = clients_hashes \union {t}
          /\ connected \subseteq connected' /\ UNCHANGED <<forked, identified, incoming, agent_fd_pool>>
      BY <1>2 DEF HostSideConnect, child_vars
    <2>2. \A c \in forked : c[1] \notin clients_hashes'
      BY <2>1 DEF Children, ChildrenApart
    <2>3. \A u \in AgentRole : Coming(u)' = Coming(u)
      BY <2>1 DEF Coming
    <2> QED BY <2>1, <2>2, <2>3, ChildQuiet
  <1>3. CASE ConfirmClient
    <2>1. PICK t, n : t = busy[1] /\ n = NextSlot(t)
      OBVIOUS
    <2>2. /\ t \in AgentRole /\ busy[2] \in Coming(t) /\ Coming(t)' = Coming(t) \ {busy[2]}
          /\ \A u \in AgentRole \ {t} : Coming(u)' = Coming(u)
          /\ clients_hashes' = clients_hashes \union {t} /\ UNCHANGED <<identified, connected>>
      BY <1>3, <2>1, ConfirmEffect 
    <2>3. UNCHANGED <<forked, hosts>>
      BY <1>3 DEF ConfirmClient, child_vars, kernel_vars
    <2>4. \A c \in forked : c[1] \notin clients_hashes'
      BY <2>2 DEF Children, ChildrenApart
    <2> QED BY <2>2, <2>3, <2>4, ChildQuiet
  <1>4. ASSUME NEW t \in AgentRole, NEW k \in Slots, AcceptAgentSide(t, k)
        PROVE  Children'
    <2>1. /\ k \in incoming[t] /\ incoming' = [incoming EXCEPT ![t] = @ \ {k}]
          /\ agent_fd_pool' = agent_fd_pool \union {<<t, k, 0>>} /\ connected \subseteq connected'
          /\ UNCHANGED <<client_vars, identified, forked, hosts>>
      BY <1>4 DEF AcceptAgentSide, child_vars
    <2>2. \A u \in AgentRole : incoming'[u] \subseteq incoming[u]
      BY <2>1 DEF TypeInv, TypeOK
    <2>3. \A u \in AgentRole : Coming(u)' \subseteq Coming(u)
      BY <2>1, <2>2 DEF Coming
    <2> QED BY <2>1, <2>3, ChildQuiet DEF client_vars, Children, ChildrenApart
  <1>5. CASE \/ \E t \in Transfers : ControllerMessage(t)
             \/ \E s \in event_pool : HostConnected(s) \/ AgentConnected(s) \/ GetUuid(s)
             \/ SendUuid \/ ScanEnds \/ Timeout \/ Ended \/ UNCHANGED vars
             \/ \E s \in Opened : ConnectEnds(s)
             \/ \E s \in agent_fd_pool : UuidArrives(s) \/ HangsUp(s)
             \/ GetUuidFails \/ \E s \in event_pool : Resets(s)
    <2> DEFINE quiet == /\ UNCHANGED <<clients_hashes, forked, hosts, incoming, agent_fd_pool>>
                        /\ connected \subseteq connected' /\ identified \subseteq identified'
    <2>1. ASSUME \E t \in Transfers : ControllerMessage(t) PROVE quiet
      BY <2>1 DEF ControllerMessage, child_vars, kernel_vars
    <2>2. ASSUME \E s \in event_pool : HostConnected(s) \/ AgentConnected(s) \/ GetUuid(s) PROVE quiet
      BY <2>2 DEF HostConnected, AgentConnected, GetUuid, client_vars, child_vars, kernel_vars
    <2>3. ASSUME \/ SendUuid \/ ScanEnds \/ Timeout \/ Ended \/ UNCHANGED vars
                 \/ \E s \in Opened : ConnectEnds(s)
                 \/ \E s \in agent_fd_pool : UuidArrives(s) \/ HangsUp(s)
                 \/ GetUuidFails \/ \E s \in event_pool : Resets(s)
          PROVE  quiet
      BY <2>3 DEF SendUuid, ScanEnds, Timeout, Ended, ConnectEnds, UuidArrives, HangsUp, GetUuidFails, Resets, vars,
                  client_vars, child_vars, kernel_vars
    <2>4. quiet
      BY <1>5, <2>1, <2>2, <2>3
    <2>5. \A u \in AgentRole : Coming(u)' = Coming(u)
      BY <2>4 DEF Coming
    <2> QED BY <2>4, <2>5, ChildQuiet DEF Children, ChildrenApart
  <1> QED BY <1>1, <1>2, <1>3, <1>4, <1>5 DEF Next, Handler, Environment


(* The first part: whatever comes, and whenever.                           *)
LEMMA NextSetup ==
  ASSUME SetupInv, [Next]_vars
  PROVE  SetupInv'
  BY NextTypes, NextGen, NextAgentCount, NextClientCount, NextChildren DEF SetupInv

(* A daemon that has just started.                                         *)
LEMMA InitSetup == Init => SetupInv
  <1> SUFFICES ASSUME Init PROVE SetupInv
    OBVIOUS
  <1> USE DEF Init
  <1>1. TypeInv
    BY SetupAssumption DEF TypeInv, TypeOK, RealSockets, Running, Sockets, Transfers
  <1>2. GenInv
    BY DEF GenInv, Outcomes, OwnSockets, Earlier, Known, Unsent, Transfers
  <1>3. AgentCount /\ ClientCount /\ Children
    BY DEF AgentCount, AcceptedOnce, AgentSlots, Room, ClientCount, SendsOwn, CountedRight, Children,
           ChildrenApart, ForkedOnce, ForkedSlots
  <1> QED BY <1>1, <1>2, <1>3 DEF SetupInv

(* So the invariant holds throughout.                                      *)
LEMMA SetupInvariant == Spec => []SetupInv
  BY InitSetup, NextSetup, PTL DEF Spec

(* num_parallel_connections is exactly the number of slots that are        *)
(* connected and identified, whenever the daemon scans its clients or      *)
(* waits: three handlers advance it, and a client that is connected a      *)
(* second time starts again from zero.                                     *)
THEOREM CounterExact == Spec => []CounterIsExact
  <1>1. ASSUME SetupInv PROVE CounterIsExact
    <2> USE DEF SetupInv
    <2> SUFFICES ASSUME pc \in {"scan", "wait"}, NEW t \in clients_hashes
                 PROVE  num_parallel_connections[t] =
                          Cardinality({k \in Slots : agent_sock[t][k] \in connected \intersect identified})
      BY DEF CounterIsExact
    <2> DEFINE Up == {k \in Slots : agent_sock[t][k] \in connected \intersect identified}
               n == num_parallel_connections[t]
    <2>1. identified \subseteq connected /\ NoSocket \notin connected
      BY <1>1 DEF GenInv, Outcomes
    <2>2. CASE t \in ClientRole
      <3>1. n = Cardinality(Counted(t))
        BY <1>1, <2>2 DEF ClientCount, CountedRight, Running
      <3>2. Counted(t) = Up
        BY <1>1, <2>1 DEF Counted
      <3> QED BY <3>1, <3>2
    <2>3. CASE t \in AgentRole
      <3>1. n \in Nat /\ n <= Connections
        BY <1>1, <2>3, ComingFits, SetupAssumption DEF AgentCount, Room, TypeInv, TypeOK, Transfers
      <3>2. \A k \in Slots : k \in Up <=> k < n
        BY <1>1, <2>1, <2>3 DEF AgentCount, AgentSlots
      <3> HIDE DEF n
      <3>3. Up = 0 .. n - 1
        BY <3>1, <3>2, SetupAssumption DEF Slots
      <3>4. Cardinality(0 .. n - 1) = n
        BY <3>1, FS_Interval
      <3> QED BY <3>3, <3>4 DEF n
    <2> QED BY <1>1, <2>2, <2>3 DEF TypeInv, TypeOK, Transfers
  <1> QED BY <1>1, SetupInvariant, PTL

(* A transfer is handed to one child, and no client of the daemon shares a *)
(* socket with it.                                                         *)
THEOREM OneChild == Spec => []HandedOverOnce
  <1>1. ASSUME SetupInv PROVE HandedOverOnce
    <2> USE DEF SetupInv
    <2>1. \A c, d \in forked : c[1] = d[1] => c = d
      BY <1>1 DEF Children, ForkedOnce
    <2>2. ASSUME NEW c \in forked, NEW t \in clients_hashes, NEW j \in Slots, NEW k \in Slots,
                 c[3][j] = agent_sock[t][k]
          PROVE  FALSE
      <3>1. c[1] # t /\ c[3][j][1] = c[1] /\ c[3][j] # NoSocket
        BY <1>1 DEF Children, ChildrenApart, ForkedSlots, GenInv, Outcomes
      <3>2. CASE t \in ClientRole
        BY <1>1, <2>2, <3>1, <3>2 DEF GenInv, OwnSockets
      <3>3. CASE t \in AgentRole
        <4>1. agent_sock[t][k] = NoSocket \/ \E i \in Slots : agent_sock[t][k] = <<t, i, 0>>
          BY <1>1, <3>3 DEF AgentCount, AgentSlots
        <4> QED BY <2>2, <3>1, <4>1
      <3> QED BY <1>1, <3>2, <3>3 DEF TypeInv, TypeOK, Transfers
    <2> QED BY <2>1, <2>2 DEF HandedOverOnce
  <1> QED BY <1>1, SetupInvariant, PTL

-----------------------------------------------------------------------------
(* The ports of the connections a child was given.                         *)

(* A child's connections go to the ports of its transfer, each to its own: *)
(* in the CLIENT role slot k was connected to port k, in the AGENT role    *)
(* the slots are in the order in which the uuids were read.                *)
ChildPorts ==
  \A c \in forked :
    /\ \A k \in Slots : c[3][k] # NoSocket /\ c[3][k][2] \in Slots
    /\ \A j, k \in Slots : c[3][j][2] = c[3][k][2] => j = k

(* A complete client's connections do.                                     *)
LEMMA CompletePorts ==
  ASSUME SetupInv, pc = "scan", NEW t \in clients_hashes, Complete(t)
  PROVE  /\ \A k \in Slots : agent_sock[t][k] # NoSocket /\ agent_sock[t][k][2] \in Slots
         /\ \A j, k \in Slots : agent_sock[t][j][2] = agent_sock[t][k][2] => j = k
  <1>1. /\ \A k \in Slots : agent_sock[t][k] \in connected
        /\ \A j, k \in Slots : agent_sock[t][j] = agent_sock[t][k] => j = k
    BY CompleteClient DEF SetupInv
  <1>2. \A k \in Slots : agent_sock[t][k] # NoSocket
    BY <1>1 DEF SetupInv, GenInv, Outcomes
  <1>3. CASE t \in ClientRole
    BY <1>2, <1>3 DEF SetupInv, GenInv, OwnSockets
  <1>4. CASE t \in AgentRole
    <2>1. num_parallel_connections[t] = Connections /\ \A k \in Slots : k < Connections
      BY SetupAssumption DEF Complete, Slots
    <2>2. \A k \in Slots : \E j \in Slots : agent_sock[t][k] = <<t, j, 0>>
      BY <1>4, <2>1 DEF SetupInv, AgentCount, AgentSlots
    <2> QED BY <1>1, <1>2, <2>2
  <1> QED BY <1>3, <1>4 DEF SetupInv, TypeInv, TypeOK, Transfers

(* Only a complete client is given to a child.                             *)
LEMMA NextForked ==
  ASSUME [Next]_vars
  PROVE  \/ UNCHANGED forked
         \/ \E t \in clients_hashes :
              /\ pc = "scan" /\ Complete(t)
              /\ forked' = forked \union {<<t, host_sock[t], agent_sock[t]>>}
  <1>2. ASSUME NEW t \in Transfers, Expire(t), ~UNCHANGED forked
        PROVE  /\ t \in clients_hashes /\ pc = "scan" /\ Complete(t)
               /\ forked' = forked \union {<<t, host_sock[t], agent_sock[t]>>}
    BY <1>2 DEF Expire
  <1>3. ASSUME \E t \in Transfers : ControllerMessage(t)
        PROVE  UNCHANGED forked
    BY <1>3 DEF ControllerMessage, child_vars
  <1>4. ASSUME \/ \E t \in ClientRole : HostSideConnect(t)
               \/ \E t \in AgentRole, k \in Slots : AcceptAgentSide(t, k)
        PROVE  UNCHANGED forked
    BY <1>4 DEF HostSideConnect, AcceptAgentSide, child_vars
  <1>5. ASSUME \E s \in event_pool : HostConnected(s) \/ AgentConnected(s) \/ GetUuid(s)
        PROVE  UNCHANGED forked
    BY <1>5 DEF HostConnected, AgentConnected, GetUuid, child_vars
  <1>6. ASSUME SendUuid \/ ConfirmClient
        PROVE  UNCHANGED forked
    BY <1>6 DEF SendUuid, ConfirmClient, child_vars
  <1>7. ASSUME \/ ScanEnds \/ Timeout \/ Ended \/ UNCHANGED vars
               \/ \E s \in Opened : ConnectEnds(s)
               \/ \E s \in agent_fd_pool : UuidArrives(s) \/ HangsUp(s)
               \/ GetUuidFails \/ \E s \in event_pool : Resets(s)
        PROVE  UNCHANGED forked
    BY <1>7 DEF ScanEnds, Timeout, Ended, ConnectEnds, UuidArrives, HangsUp, GetUuidFails, Resets, vars, child_vars
  <1> QED BY <1>2, <1>3, <1>4, <1>5, <1>6, <1>7 DEF Next, Handler, Environment

(* And its connections go to different ports.                              *)
LEMMA NextPorts ==
  ASSUME SetupInv, ChildPorts, [Next]_vars
  PROVE  ChildPorts'
  <1>1. CASE UNCHANGED forked
    BY <1>1 DEF ChildPorts
  <1>2. ASSUME NEW t \in clients_hashes, pc = "scan", Complete(t),
               forked' = forked \union {<<t, host_sock[t], agent_sock[t]>>}
        PROVE  ChildPorts'
    <2> DEFINE new == <<t, host_sock[t], agent_sock[t]>>
    <2>1. /\ \A k \in Slots : agent_sock[t][k] # NoSocket /\ agent_sock[t][k][2] \in Slots
          /\ \A j, k \in Slots : agent_sock[t][j][2] = agent_sock[t][k][2] => j = k
      BY <1>2, CompletePorts
    <2>2. new[3] = agent_sock[t] /\ forked' = forked \union {new}
      BY <1>2
    <2> HIDE DEF new
    <2>3. ASSUME NEW c \in forked'
          PROVE  /\ \A k \in Slots : c[3][k] # NoSocket /\ c[3][k][2] \in Slots
                 /\ \A j, k \in Slots : c[3][j][2] = c[3][k][2] => j = k
      <3>1. CASE c \in forked
        BY <3>1 DEF ChildPorts
      <3>2. CASE c = new
        BY <2>1, <2>2, <3>2
      <3> QED BY <2>2, <3>1, <3>2
    <2> QED BY <2>3 DEF ChildPorts
  <1> QED BY <1>1, <1>2, NextForked

(* A child has a connection to every port of its transfer.                 *)
EveryPort == \A c \in forked : {c[3][k][2] : k \in Slots} = Slots

(* As many different ports as there are slots are all of them.             *)
LEMMA PortsAreAll ==
  ASSUME ChildPorts
  PROVE  EveryPort
  <1> SUFFICES ASSUME NEW c \in forked
               PROVE  {c[3][k][2] : k \in Slots} = Slots
    BY DEF EveryPort
  <1> DEFINE port == [k \in Slots |-> c[3][k][2]]
  <1>1. IsFiniteSet(Slots)
    BY SetupAssumption, FS_Interval DEF Slots
  <1>2. port \in Injection(Slots, Slots)
    BY DEF ChildPorts, Injection, IsInjective
  <1>3. port \in Surjection(Slots, Slots)
    BY <1>1, <1>2, FS_Injection
  <1>4. /\ \A n \in Slots : \E k \in Slots : port[k] = n
        /\ \A k \in Slots : port[k] \in Slots
    BY <1>3 DEF Surjection
  <1>5. \A k \in Slots : port[k] = c[3][k][2]
    OBVIOUS
  <1> HIDE DEF port
  <1> QED BY <1>4, <1>5

(* Whatever comes, and whenever: what poll.c:91-129 gives to a child after *)
(* counting has one connection to every port of the transfer.              *)
THEOREM EveryPortOnce == Spec => [](ChildPorts /\ EveryPort)
  <1>1. Init => ChildPorts
    BY DEF Init, ChildPorts
  <1>2. SetupInv /\ ChildPorts /\ [Next]_vars => ChildPorts'
    BY NextPorts
  <1>3. ChildPorts => EveryPort
    BY PortsAreAll
  <1> QED BY <1>1, <1>2, <1>3, SetupInvariant, PTL DEF Spec

-----------------------------------------------------------------------------
(* The second part: the socket of an event is the one in its slot.         *)

(* Nothing is known of agent sockets of a transfer before its request was  *)
(* matched.                                                                *)
LEMMA NoneKnown ==
  ASSUME TypeInv, GenInv, SocketInv, NEW t \in ClientRole,
         t \in hosts \/ (t \in clients_hashes /\ t \notin requests)
  PROVE  /\ \A k \in Slots : agent_sock[t][k] = NoSocket
         /\ \A s \in Known : s[1] = t => s[2] = HostSlot
  <1>1. \A k \in Slots : agent_sock[t][k] = NoSocket
    BY DEF SocketInv, ClientSlots
  <1>2. \A s \in Known : s[1] = t => s[2] = HostSlot
    BY <1>1, KnownSockets DEF GenInv, Earlier
  <1> QED BY <1>1, <1>2

(* An event that is registered for an agent socket of a CLIENT transfer    *)
(* finds that socket in its slot.                                          *)
LEMMA RegisteredIsCurrent ==
  ASSUME TypeInv, GenInv, SocketInv, NEW s \in event_pool, s[2] # HostSlot, s[1] \in ClientRole
  PROVE  /\ s[2] \in Slots /\ s = agent_sock[s[1]][s[2]] /\ s \notin identified
         /\ s[1] \in clients_hashes \union given_up
  BY Registered DEF SocketInv, Current, AgentPolled, GenInv, Unsent, Known

(* The event of a host finds the host in the client.                       *)
LEMMA HostEvent ==
  ASSUME SocketInv, NEW s \in event_pool, HostConnected(s)
  PROVE  /\ s[1] \in clients_hashes /\ s = host_sock[s[1]] /\ pc' = "scan"
         /\ event_pool' = event_pool \ {s}
         /\ host_fd_poll' = [host_fd_poll EXCEPT ![s[1]] = IF Succeeded(s) THEN "IN" ELSE "OFF"]
  BY DEF HostConnected, SocketInv, HostPolled

(* The event of an agent socket finds that socket.                         *)
LEMMA AgentEvent ==
  ASSUME TypeInv, GenInv, SocketInv, NEW s \in event_pool, AgentConnected(s)
  PROVE  \/ s[1] \in given_up /\ pc' = "use_after_free"
         \/ pc' = "scan"
         \/ s \in connected /\ pc' = "send_uuid" /\ busy' = s /\ UNCHANGED event_pool
  <1>1. s[1] \in ClientRole /\ s[2] # HostSlot /\ s \in connected \union refused
    BY EventOfClient, SocketParts DEF AgentConnected, Ready
  <1>2. s = agent_sock[s[1]][s[2]] /\ s[1] \in clients_hashes \union given_up
    BY <1>1, RegisteredIsCurrent
  <1> QED BY <1>1, <1>2 DEF AgentConnected, Succeeded

(* send_uuid fails only on a connection that was reset.                    *)
LEMMA UuidSent ==
  ASSUME GenInv, Sending, SendUuid
  PROVE  pc' = "scan" \/ (pc' = "send_error" /\ busy \in reset)
  BY DEF SendUuid, Sending, GenInv, Outcomes

(* Steps that create no socket and free no client.                         *)
LEMMA OldSockets ==
  ASSUME SocketInv, event_pool' \subseteq event_pool,
         connected' \union refused' \union identified' \subseteq Known,
         UNCHANGED <<clients_hashes, host_sock, agent_sock, requests, messages, hosts, given_up>>
  PROVE  SocketInv'
  <1>1. Known' \subseteq Known
    BY DEF Known
  <1>2. RequestsOnce' /\ ClientSlots' /\ Current'
    BY <1>1 DEF SocketInv, RequestsOnce, ClientSlots, Current
  <1>3. HostPolled' /\ AgentPolled'
    BY DEF SocketInv, HostPolled, AgentPolled
  <1> QED BY <1>2, <1>3 DEF SocketInv

(* A connect ends of a socket that is polled, or in a client's slot.       *)
LEMMA ConnectSockets ==
  ASSUME TypeInv, GenInv, SocketInv, NEW s \in Opened, ConnectEnds(s)
  PROVE  SocketInv'
  <1>1. /\ s # NoSocket /\ Known' \subseteq Known \union {s}
        /\ UNCHANGED <<client_vars, requests, messages, hosts, given_up, event_pool>>
    BY DEF ConnectEnds, Known, child_vars
  <1>2. s[1] \in ClientRole /\ s[2] # HostSlot => s = agent_sock[s[1]][s[2]]
    <2>1. CASE s \in event_pool
      BY <2>1 DEF SocketInv, Current, Known
    <2>2. CASE s \notin event_pool
      <3>1. PICK u \in ClientRole, k \in Slots : s = agent_sock[u][k]
        BY <2>2 DEF Opened, Matched
      <3> QED BY <1>1, <3>1 DEF GenInv, OwnSockets
    <2> QED BY <2>1, <2>2
  <1> USE DEF client_vars
  <1>3. RequestsOnce' /\ ClientSlots' /\ HostPolled' /\ AgentPolled'
    BY <1>1 DEF SocketInv, RequestsOnce, ClientSlots, HostPolled, AgentPolled
  <1>4. Current'
    BY <1>1, <1>2 DEF SocketInv, Current
  <1> QED BY <1>3, <1>4 DEF SocketInv

(* A connection is accepted.                                               *)
LEMMA AcceptSockets ==
  ASSUME SocketInv, NEW t \in AgentRole, NEW k \in Slots, AcceptAgentSide(t, k)
  PROVE  SocketInv'
  <1> DEFINE s == <<t, k, 0>>
  <1>1. s[1] = t /\ s[2] = k /\ t \notin ClientRole /\ k # HostSlot
    BY SocketParts, SetupAssumption
  <1> HIDE DEF s
  <1>2. /\ event_pool' = event_pool \union {s} /\ connected' = connected \union {s}
        /\ UNCHANGED <<requests, client_vars, child_vars, messages, hosts, refused, identified>>
    BY DEF AcceptAgentSide, s
  <1> USE DEF client_vars, child_vars
  <1>3. RequestsOnce' /\ ClientSlots'
    BY <1>2 DEF SocketInv, RequestsOnce, ClientSlots
  <1>4. Current'
    BY <1>1, <1>2 DEF SocketInv, Current, Known
  <1>5. HostPolled' /\ AgentPolled'
    BY <1>1, <1>2 DEF SocketInv, HostPolled, AgentPolled
  <1> QED BY <1>3, <1>4, <1>5 DEF SocketInv

(* The scan frees a client: what stays polled is of one that was given up. *)
LEMMA ExpireSockets ==
  ASSUME TypeInv, GenInv, SocketInv, NEW t \in Transfers, Expire(t)
  PROVE  SocketInv'
  <1>1. /\ t \in clients_hashes /\ clients_hashes' = clients_hashes \ {t} /\ requests' = requests \ {t}
        /\ event_pool' = event_pool \ Closed(t)
        /\ given_up' = IF Complete(t) THEN given_up ELSE given_up \union {t}
        /\ UNCHANGED <<host_sock, agent_sock, messages, hosts, connected, refused, identified>>
    BY DEF Expire, Remaining, kernel_vars
  <1>2. host_sock[t] \notin event_pool'
    BY <1>1 DEF Closed
  <1>3. ASSUME Complete(t), NEW k \in Slots
        PROVE  agent_sock[t][k] \notin event_pool'
    <2>1. k < num_parallel_connections[t]
      BY <1>3, SetupAssumption DEF Complete, Slots
    <2> QED BY <1>1, <2>1 DEF Closed
  <1>4. RequestsOnce' /\ ClientSlots'
    BY <1>1 DEF SocketInv, RequestsOnce, ClientSlots
  <1>5. Current'
    BY <1>1 DEF SocketInv, Current, Known
  <1>6. HostPolled'
    BY <1>1, <1>2 DEF SocketInv, HostPolled
  <1>7. AgentPolled'
    <2> SUFFICES ASSUME NEW s \in event_pool', s[2] # HostSlot, s[1] \in ClientRole
                 PROVE  s[1] \in clients_hashes' \union given_up'
      BY DEF AgentPolled
    <2>1. s \in event_pool
      BY <1>1
    <2>2. /\ s[2] \in Slots /\ s = agent_sock[s[1]][s[2]]
          /\ s[1] \in clients_hashes \union given_up
      BY <2>1, RegisteredIsCurrent
    <2>3. ~(s[1] = t /\ Complete(t))
      BY <1>3, <2>2
    <2> QED BY <1>1, <2>2, <2>3
  <1> QED BY <1>4, <1>5, <1>6, <1>7 DEF SocketInv

(* A controller message connects its own client only, of which no socket   *)
(* was known.                                                              *)
LEMMA MessageSockets ==
  ASSUME ~Overlap, TypeInv, GenInv, SocketInv, NEW t \in Transfers, ControllerMessage(t)
  PROVE  SocketInv'
  <1> DEFINE found == clients_hashes \intersect (requests \union {t})
             C == found \intersect ClientRole
             H == found \intersect AgentRole
  <1>1. t \notin requests /\ found \subseteq {t} /\ found \subseteq clients_hashes
    BY DEF ControllerMessage, Matched, SocketInv, RequestsOnce
  <1>2. /\ \A u \in C, k \in Slots : agent_sock'[u][k] = <<u, k, generation[u] + 1>>
        /\ \A u \in H : host_sock'[u] = <<u, HostSlot, generation[u] + 1>>
        /\ \A u \in Transfers \ C : UNCHANGED agent_sock[u]
        /\ \A u \in Transfers \ H : UNCHANGED host_sock[u]
        /\ \A s \in event_pool' : \/ s \in event_pool
                                  \/ \E c \in C, k \in Slots : s = <<c, k, generation[c] + 1>>
                                  \/ \E c \in H : s = <<c, HostSlot, generation[c] + 1>>
        /\ t \in messages /\ messages' = messages \ {t} /\ requests' = requests \union {t}
        /\ UNCHANGED <<clients_hashes, given_up, hosts, connected, refused, identified>>
    BY MessageEffect DEF child_vars, kernel_vars
  <1>3. C \subseteq found /\ C \subseteq ClientRole /\ H \subseteq found /\ H \subseteq AgentRole
    OBVIOUS
  <1> HIDE DEF found, C, H
  <1>4. \A c \in C : \A s \in Known : s[1] = c => s[2] = HostSlot
    BY <1>1, <1>3, NoneKnown
  <1>5. \A c \in H : host_sock[c] \notin event_pool
    <2>1. \A c \in H : host_sock[c] = NoSocket
      BY <1>1, <1>3 DEF SocketInv, HostPolled
    <2> QED BY <2>1 DEF TypeInv, RealSockets
  <1>6. ASSUME NEW s \in event_pool' \ event_pool
        PROVE  \/ s[1] \in C /\ s[2] # HostSlot /\ s = agent_sock'[s[1]][s[2]]
               \/ s[1] \in H /\ s[2] = HostSlot /\ s = host_sock'[s[1]]
    <2>1. \A k \in Slots : k # HostSlot
      BY SocketParts
    <2>2. \A c, k, g : <<c, k, g>>[1] = c /\ <<c, k, g>>[2] = k
      OBVIOUS
    <2> QED BY <1>2, <1>6, <2>1, <2>2
  <1>7. RequestsOnce'
    BY <1>2 DEF SocketInv, RequestsOnce
  <1>8. ClientSlots'
    <2> SUFFICES ASSUME NEW u \in ClientRole, NEW k \in Slots, agent_sock'[u][k] # NoSocket
                 PROVE  u \notin hosts /\ (u \in clients_hashes => u \in requests')
      BY <1>2 DEF ClientSlots
    <2>1. CASE u \in C
      BY <1>1, <1>2, <1>3, <2>1 DEF GenInv, OwnSockets
    <2>2. CASE u \notin C
      BY <1>2, <2>2 DEF SocketInv, ClientSlots, Transfers
    <2> QED BY <2>1, <2>2
  <1>9. Current'
    <2> SUFFICES ASSUME NEW s \in Known', s[1] \in ClientRole, s[2] # HostSlot
                 PROVE  s = agent_sock'[s[1]][s[2]]
      BY DEF Current
    <2>1. s \in Known \/ s \in event_pool' \ event_pool
      BY <1>2 DEF Known
    <2>2. CASE s \in Known
      BY <1>2, <1>4, <2>2 DEF SocketInv, Current, Transfers
    <2>3. CASE s \in event_pool' \ event_pool
      BY <1>6, <2>3
    <2> QED BY <2>1, <2>2, <2>3
  <1>10. HostPolled'
    <2>1. ASSUME NEW s \in event_pool', s[2] = HostSlot
          PROVE  s[1] \in clients_hashes /\ s = host_sock'[s[1]]
      <3>1. CASE s \in event_pool
        <4>1. s[1] \in Transfers /\ s[1] \in clients_hashes /\ s = host_sock[s[1]]
          BY <2>1, <3>1, Registered DEF SocketInv, HostPolled
        <4>2. s[1] \notin H
          BY <1>5, <3>1, <4>1
        <4> QED BY <1>2, <4>1, <4>2
      <3>2. CASE s \notin event_pool
        BY <1>1, <1>3, <1>6, <2>1, <3>2
      <3> QED BY <3>1, <3>2
    <2>2. \A u \in AgentRole \intersect clients_hashes : u \notin requests' => host_sock'[u] = NoSocket
      BY <1>1, <1>2, <1>3 DEF SocketInv, HostPolled, Transfers
    <2> QED BY <1>2, <2>1, <2>2 DEF HostPolled
  <1>11. AgentPolled'
    BY <1>1, <1>2, <1>3, <1>6 DEF SocketInv, AgentPolled
  <1> QED BY <1>7, <1>8, <1>9, <1>10, <1>11 DEF SocketInv

(* Nor of a host that connects.                                            *)
LEMMA HostSockets ==
  ASSUME TypeInv, GenInv, SocketInv, NEW t \in ClientRole, HostSideConnect(t)
  PROVE  SocketInv'
  <1> DEFINE g == generation[t] + 1
             h == <<t, HostSlot, 0>>
             A == {<<t, k, g>> : k \in Slots}
  <1>1. /\ t \in hosts /\ hosts' = hosts \ {t}
        /\ clients_hashes' = clients_hashes \union {t}
        /\ connected' = connected \union {h}
        /\ host_sock' = [host_sock EXCEPT ![t] = h]
        /\ \A u \in Transfers \ {t} : UNCHANGED agent_sock[u]
        /\ t \notin requests => agent_sock' = agent_sock /\ event_pool' = event_pool \union {h}
        /\ t \in requests => /\ \A k \in Slots : agent_sock'[t][k] = <<t, k, g>>
                             /\ event_pool' = event_pool \union {h} \union A
        /\ UNCHANGED <<requests, given_up, messages, refused, identified>>
    BY HostEffect DEF child_vars
  <1>2. t \in Transfers /\ t \notin AgentRole
    BY SetupAssumption DEF Transfers
  <1>3. h[1] = t /\ h[2] = HostSlot
    OBVIOUS
  <1>4. \A s \in A : s[1] = t /\ s[2] \in Slots /\ s[2] # HostSlot /\ s = <<t, s[2], g>>
    BY SocketParts
  <1> HIDE DEF g, h, A
  <1>5. \A s \in event_pool' : s \in event_pool \/ s = h \/ (s \in A /\ t \in requests)
    BY <1>1
  <1>6. /\ \A s \in Known : s[1] = t => s[2] = HostSlot
        /\ \A k \in Slots : agent_sock[t][k] = NoSocket
    BY <1>1, NoneKnown
  <1>7. t \notin clients_hashes
    BY <1>1 DEF GenInv, OwnSockets
  <1>8. RequestsOnce'
    BY <1>1 DEF SocketInv, RequestsOnce
  <1>9. ClientSlots'
    <2> SUFFICES ASSUME NEW u \in ClientRole, NEW k \in Slots, agent_sock'[u][k] # NoSocket
                 PROVE  u \notin hosts' /\ (u \in clients_hashes' => u \in requests')
      BY DEF ClientSlots
    <2>1. CASE u = t
      BY <1>1, <1>6, <2>1
    <2>2. CASE u # t
      BY <1>1, <2>2 DEF SocketInv, ClientSlots, Transfers
    <2> QED BY <2>1, <2>2
  <1>10. Current'
    <2> SUFFICES ASSUME NEW s \in Known', s[1] \in ClientRole, s[2] # HostSlot
                 PROVE  s = agent_sock'[s[1]][s[2]]
      BY DEF Current
    <2>1. s \in Known \/ (s \in A /\ t \in requests)
      BY <1>1, <1>3, <1>5 DEF Known
    <2>2. CASE s \in A /\ t \in requests
      BY <1>1, <1>4, <2>2
    <2>3. CASE s \in Known
      BY <1>1, <1>6, <2>3 DEF SocketInv, Current, Transfers
    <2> QED BY <2>1, <2>2, <2>3
  <1>11. HostPolled'
    <2>1. ASSUME NEW s \in event_pool', s[2] = HostSlot
          PROVE  s[1] \in clients_hashes' /\ s = host_sock'[s[1]]
      <3>1. CASE s \in event_pool
        <4>1. s[1] \in Transfers /\ s[1] \in clients_hashes /\ s = host_sock[s[1]]
          BY <2>1, <3>1, Registered DEF SocketInv, HostPolled
        <4> QED BY <1>1, <1>7, <4>1
      <3>2. CASE s \notin event_pool
        <4>1. s = h
          BY <1>4, <1>5, <2>1, <3>2
        <4> QED BY <1>1, <1>2, <1>3, <4>1 DEF TypeInv, TypeOK
      <3> QED BY <3>1, <3>2
    <2>2. \A u \in AgentRole \intersect clients_hashes' : u \notin requests' => host_sock'[u] = NoSocket
      BY <1>1, <1>2 DEF SocketInv, HostPolled, TypeInv, TypeOK
    <2> QED BY <2>1, <2>2 DEF HostPolled
  <1>12. AgentPolled'
    BY <1>1, <1>3, <1>4, <1>5 DEF SocketInv, AgentPolled
  <1> QED BY <1>8, <1>9, <1>10, <1>11, <1>12 DEF SocketInv

(* A connection of the remote agent gets a slot; it may make the client,   *)
(* and connect the host.                                                   *)
LEMMA ConfirmSockets ==
  ASSUME TypeInv, GenInv, SocketInv, ConfirmClient
  PROVE  SocketInv'
  <1>1. PICK t \in AgentRole : t = busy[1] /\ t \notin ClientRole /\ t \in Transfers
    BY AcceptedParts, SetupAssumption DEF ConfirmClient, TypeInv, RealSockets, Transfers
  <1> DEFINE new == <<t, HostSlot, generation[t] + 1>>
  <1>2. /\ clients_hashes' = clients_hashes \union {t}
        /\ \A u \in Transfers \ {t} : UNCHANGED <<agent_sock[u], host_sock[u]>>
        /\ UNCHANGED <<requests, messages, hosts, given_up, connected, refused, identified>>
    BY <1>1 DEF ConfirmClient, child_vars, kernel_vars, TypeInv, TypeOK
  <1>3. \/ /\ t \in clients_hashes /\ host_sock'[t] = host_sock[t] /\ event_pool' = event_pool \ {busy}
        \/ /\ t \notin clients_hashes /\ t \in requests /\ host_sock'[t] = new
           /\ event_pool' = (event_pool \union {new}) \ {busy}
        \/ /\ t \notin clients_hashes /\ t \notin requests /\ host_sock'[t] = NoSocket
           /\ event_pool' = event_pool \ {busy}
    BY <1>1 DEF ConfirmClient, ConnectsHost, TypeInv, TypeOK
  <1>4. new[1] = t /\ new[2] = HostSlot
    OBVIOUS
  <1> HIDE DEF new
  <1> USE DEF SocketInv
  <1>5. RequestsOnce'
    BY <1>2 DEF RequestsOnce
  <1>6. ClientSlots'
    BY <1>1, <1>2 DEF ClientSlots, Transfers
  <1>7. Current'
    <2>1. \A s \in Known' : s \in Known \/ s = new
      BY <1>2, <1>3 DEF Known
    <2>2. \A u \in ClientRole : agent_sock'[u] = agent_sock[u]
      BY <1>1, <1>2 DEF Transfers
    <2> QED BY <1>4, <2>1, <2>2 DEF Current
  <1>8. HostPolled'
    <2>1. ASSUME NEW s \in event_pool', s[2] = HostSlot
          PROVE  s[1] \in clients_hashes' /\ s = host_sock'[s[1]]
      <3>1. CASE s \in event_pool
        <4>1. s[1] \in Transfers /\ s[1] \in clients_hashes /\ s = host_sock[s[1]]
          BY <2>1, <3>1, Registered DEF HostPolled
        <4> QED BY <1>2, <1>3, <4>1
      <3>2. CASE s \notin event_pool
        BY <1>2, <1>3, <1>4, <3>2
      <3> QED BY <3>1, <3>2
    <2>2. \A u \in AgentRole \intersect clients_hashes' : u \notin requests' => host_sock'[u] = NoSocket
      <3> SUFFICES ASSUME NEW u \in AgentRole \intersect clients_hashes', u \notin requests'
                   PROVE  host_sock'[u] = NoSocket
        OBVIOUS
      <3> QED BY <1>2, <1>3 DEF HostPolled, Transfers
    <2> QED BY <2>1, <2>2 DEF HostPolled
  <1>9. AgentPolled'
    BY <1>2, <1>3, <1>4 DEF AgentPolled
  <1> QED BY <1>5, <1>6, <1>7, <1>8, <1>9

(* Every step keeps what is said of the sockets.                           *)
LEMMA NextSockets ==
  ASSUME ~Overlap, TypeInv, GenInv, SocketInv, [Next]_vars
  PROVE  SocketInv'
  <1>1. CASE \E t \in Transfers : ControllerMessage(t)
    BY <1>1, MessageSockets
  <1>2. CASE \E t \in ClientRole : HostSideConnect(t)
    BY <1>2, HostSockets
  <1>3. CASE \E t \in AgentRole, k \in Slots : AcceptAgentSide(t, k)
    BY <1>3, AcceptSockets
  <1>4. CASE ConfirmClient
    BY <1>4, ConfirmSockets
  <1>5. CASE \E t \in Transfers : Expire(t)
    BY <1>5, ExpireSockets
  <1>6. CASE \E s \in Opened : ConnectEnds(s)
    BY <1>6, ConnectSockets
  <1>7. ASSUME NEW s \in event_pool, AgentConnected(s)
        PROVE  SocketInv'
    BY <1>7, EventOfClient, OldSockets DEF child_vars, kernel_vars, Known
  <1>8. CASE SendUuid
    <2>1. /\ identified' \subseteq identified \union connected \union refused /\ event_pool' \subseteq event_pool
          /\ UNCHANGED <<client_vars, requests, messages, hosts, given_up, connected, refused>>
      BY <1>8 DEF SendUuid, GenInv, Outcomes, child_vars
    <2> QED BY <2>1, OldSockets DEF client_vars, Known
  <1>9. ASSUME NEW s \in agent_fd_pool, UuidArrives(s)
        PROVE  SocketInv'
    <2>1. s \in connected
      BY DEF GenInv, Outcomes
    <2>2. /\ identified' = identified \union {s}
          /\ UNCHANGED <<client_vars, requests, messages, hosts, given_up, connected, refused, event_pool>>
      BY <1>9 DEF UuidArrives, child_vars
    <2> QED BY <2>1, <2>2, OldSockets DEF client_vars, Known
  <1>10. CASE \/ \E s \in event_pool : HostConnected(s) \/ GetUuid(s)
              \/ ScanEnds \/ Timeout \/ Ended \/ UNCHANGED vars \/ \E s \in agent_fd_pool : HangsUp(s)
              \/ GetUuidFails \/ \E s \in event_pool : Resets(s)
    <2>1. /\ UNCHANGED <<clients_hashes, host_sock, agent_sock, requests, messages, hosts, given_up,
                         connected, refused, identified>>
          /\ event_pool' \subseteq event_pool
      BY <1>10 DEF HostConnected, GetUuid, ScanEnds, Timeout, HangsUp, GetUuidFails, Resets, Ended, vars,
                   client_vars, child_vars, kernel_vars
    <2> QED BY <2>1, OldSockets DEF Known
  <1> QED BY <1>1, <1>2, <1>3, <1>4, <1>5, <1>6, <1>7, <1>8, <1>9, <1>10
      DEF Next, Handler, Environment

(* send_uuid works on the socket whose event it handles.                   *)
LEMMA NextSending ==
  ASSUME TypeInv, GenInv, SocketInv, Sending, [Next]_vars
  PROVE  Sending'
  <1>1. ASSUME NEW s \in event_pool, AgentConnected(s)
        PROVE  Sending'
    <2>1. UNCHANGED connected
      BY <1>1 DEF AgentConnected, kernel_vars
    <2> QED BY <1>1, <2>1, AgentEvent DEF Sending
  <1>2. CASE SendUuid
    BY <1>2, UuidSent DEF Sending
  <1>3. CASE \E t \in Transfers : ControllerMessage(t)
    <2>1. pc' # "send_uuid"
      BY <1>3 DEF ControllerMessage
    <2> QED BY <2>1 DEF Sending
  <1>4. CASE \/ \E t \in ClientRole : HostSideConnect(t)
             \/ \E t \in AgentRole, k \in Slots : AcceptAgentSide(t, k)
             \/ \E s \in event_pool : HostConnected(s) \/ GetUuid(s)
             \/ ConfirmClient \/ GetUuidFails \/ ScanEnds \/ Timeout \/ \E t \in Transfers : Expire(t)
    <2>1. pc' # "send_uuid"
      BY <1>4 DEF HostSideConnect, AcceptAgentSide, HostConnected, GetUuid, ConfirmClient, GetUuidFails,
                  ScanEnds, Timeout, Expire
    <2> QED BY <2>1 DEF Sending
  <1>5. CASE \/ Ended \/ UNCHANGED vars \/ \E s \in Opened : ConnectEnds(s)
             \/ \E s \in agent_fd_pool : UuidArrives(s) \/ HangsUp(s)
             \/ \E s \in event_pool : Resets(s)
    <2>1. UNCHANGED <<pc, busy, event_pool>> /\ connected \subseteq connected'
      BY <1>5 DEF Ended, ConnectEnds, UuidArrives, HangsUp, Resets, vars, kernel_vars
    <2> QED BY <2>1 DEF Sending
  <1> QED BY <1>1, <1>2, <1>3, <1>4, <1>5 DEF Next, Handler, Environment

(* A host is polled for input, that is IN, only once it is connected.      *)
LEMMA NextHostIsUp ==
  ASSUME TypeInv, SocketInv, HostIsUp, [Next]_vars
  PROVE  HostIsUp'
  <1>1. ASSUME connected \subseteq connected',
               \A u \in clients_hashes' : \/ host_fd_poll'[u] # "IN"
                                          \/ host_sock'[u] \in connected'
                                          \/ u \in clients_hashes /\ UNCHANGED <<host_fd_poll[u], host_sock[u]>>
        PROVE  HostIsUp'
    BY <1>1 DEF HostIsUp
  <1>2. ASSUME NEW t \in Transfers, ControllerMessage(t)
        PROVE  HostIsUp'
    <2>1. UNCHANGED <<clients_hashes, connected>>
      BY <1>2 DEF ControllerMessage, kernel_vars
    <2> DEFINE H == clients_hashes \intersect (requests \union {t}) \intersect AgentRole
    <2>2. /\ \A u \in H : host_fd_poll'[u] = "OFF"
          /\ \A u \in Transfers \ H : UNCHANGED <<host_sock[u], host_fd_poll[u]>>
      BY <1>2, MessageEffect
    <2> HIDE DEF H
    <2> QED BY <1>1, <2>1, <2>2 DEF TypeInv, TypeOK
  <1>3. ASSUME NEW t \in ClientRole, HostSideConnect(t)
        PROVE  HostIsUp'
    <2>1. /\ clients_hashes' = clients_hashes \union {t} /\ connected \subseteq connected'
          /\ host_sock' = [host_sock EXCEPT ![t] = <<t, HostSlot, 0>>]
          /\ host_fd_poll' = [host_fd_poll EXCEPT ![t] = "OFF"]
      BY <1>3, HostEffect
    <2>2. host_fd_poll'[t] = "OFF" /\ \A u \in Transfers \ {t} : UNCHANGED <<host_sock[u], host_fd_poll[u]>>
      BY <2>1 DEF TypeInv, TypeOK, Transfers
    <2> QED BY <1>1, <2>1, <2>2 DEF TypeInv, TypeOK
  <1>4. ASSUME NEW s \in event_pool, HostConnected(s)
        PROVE  HostIsUp'
    <2>1. /\ s[1] \in clients_hashes /\ s = host_sock[s[1]]
          /\ host_fd_poll' = [host_fd_poll EXCEPT ![s[1]] = IF Succeeded(s) THEN "IN" ELSE "OFF"]
      BY <1>4, HostEvent
    <2>2. s \in connected \union refused /\ UNCHANGED <<clients_hashes, host_sock, connected>>
      BY <1>4 DEF HostConnected, Ready, kernel_vars
    <2>3. s[1] \in Transfers
      BY Registered
    <2>4. \A u \in Transfers \ {s[1]} : UNCHANGED host_fd_poll[u]
      BY <2>1 DEF TypeInv, TypeOK
    <2>5. host_fd_poll'[s[1]] = "IN" => s \in connected
      BY <2>1, <2>2, <2>3 DEF Succeeded, TypeInv, TypeOK
    <2> QED BY <1>1, <2>1, <2>2, <2>4, <2>5 DEF TypeInv, TypeOK
  <1>5. CASE ConfirmClient
    <2>1. PICK t \in Transfers : t = busy[1]
      BY <1>5, AcceptedParts DEF ConfirmClient, TypeInv, RealSockets, Transfers
    <2>2. clients_hashes' = clients_hashes \union {t} /\ UNCHANGED connected
      BY <1>5, <2>1 DEF ConfirmClient, kernel_vars
    <2>3. /\ \A u \in Transfers \ {t} : UNCHANGED <<host_sock[u], host_fd_poll[u]>>
          /\ t \notin clients_hashes => host_fd_poll'[t] = "OFF"
          /\ t \in clients_hashes => UNCHANGED <<host_sock[t], host_fd_poll[t]>>
      BY <1>5, <2>1 DEF ConfirmClient, ConnectsHost, TypeInv, TypeOK
    <2> QED BY <1>1, <2>1, <2>2, <2>3 DEF TypeInv, TypeOK
  <1>6. ASSUME UNCHANGED <<host_fd_poll, host_sock>>, clients_hashes' \subseteq clients_hashes,
               connected \subseteq connected'
        PROVE  HostIsUp'
    BY <1>1, <1>6
  <1>7. CASE \/ \E s \in event_pool : AgentConnected(s) \/ GetUuid(s)
             \/ \E t \in AgentRole, k \in Slots : AcceptAgentSide(t, k)
             \/ SendUuid \/ ScanEnds \/ Timeout \/ Ended \/ UNCHANGED vars
             \/ \E t \in Transfers : Expire(t)
             \/ \E s \in Opened : ConnectEnds(s)
             \/ \E s \in agent_fd_pool : UuidArrives(s) \/ HangsUp(s)
             \/ GetUuidFails \/ \E s \in event_pool : Resets(s)
    <2>1. /\ UNCHANGED <<host_fd_poll, host_sock>> /\ clients_hashes' \subseteq clients_hashes
          /\ connected \subseteq connected'
      BY <1>7 DEF AgentConnected, GetUuid, AcceptAgentSide, SendUuid, ScanEnds, Timeout, Ended, Expire,
                  Remaining, ConnectEnds, UuidArrives, HangsUp, GetUuidFails, Resets, vars, client_vars, kernel_vars
    <2> QED BY <1>6, <2>1
  <1> QED BY <1>2, <1>3, <1>4, <1>5, <1>7 DEF Next, Handler, Environment

(* So the host that a child gets is connected.                             *)
LEMMA NextForkedHost ==
  ASSUME HostIsUp, ForkedHost, [Next]_vars
  PROVE  ForkedHost'
  <1>1. ASSUME NEW t \in Transfers, Expire(t)
        PROVE  ForkedHost'
    <2>1. /\ UNCHANGED connected /\ t \in clients_hashes
          /\ forked' = IF Complete(t) THEN forked \union {<<t, host_sock[t], agent_sock[t]>>} ELSE forked
      BY <1>1 DEF Expire, kernel_vars
    <2>2. Complete(t) => host_sock[t] \in connected
      BY <2>1 DEF Complete, HostIsUp
    <2> QED BY <2>1, <2>2 DEF ForkedHost
  <1>2. ASSUME UNCHANGED forked, connected \subseteq connected'
        PROVE  ForkedHost'
    BY <1>2 DEF ForkedHost
  <1>3. CASE \E t \in Transfers : ControllerMessage(t)
    <2>1. UNCHANGED <<forked, connected>>
      BY <1>3 DEF ControllerMessage, child_vars, kernel_vars
    <2> QED BY <1>2, <2>1
  <1>4. CASE \/ \E t \in ClientRole : HostSideConnect(t)
             \/ \E t \in AgentRole, k \in Slots : AcceptAgentSide(t, k)
             \/ \E s \in event_pool : HostConnected(s) \/ AgentConnected(s) \/ GetUuid(s)
    <2>1. UNCHANGED forked /\ connected \subseteq connected'
      BY <1>4 DEF HostSideConnect, AcceptAgentSide, HostConnected, AgentConnected, GetUuid, child_vars,
                  kernel_vars
    <2> QED BY <1>2, <2>1
  <1>5. CASE \/ SendUuid \/ ConfirmClient \/ ScanEnds \/ Timeout \/ Ended \/ UNCHANGED vars
             \/ \E s \in Opened : ConnectEnds(s)
             \/ \E s \in agent_fd_pool : UuidArrives(s) \/ HangsUp(s)
             \/ GetUuidFails \/ \E s \in event_pool : Resets(s)
    <2>1. UNCHANGED forked /\ connected \subseteq connected'
      BY <1>5 DEF SendUuid, ConfirmClient, ScanEnds, Timeout, Ended, ConnectEnds, UuidArrives, HangsUp,
                  GetUuidFails, Resets, vars, child_vars, kernel_vars
    <2> QED BY <1>2, <2>1
  <1> QED BY <1>1, <1>3, <1>4, <1>5 DEF Next, Handler, Environment

(* The daemon ends by the event of a client that was freed without being   *)
(* given to a child or by a connection that was reset, and by nothing else.*)
LEMMA NextFatal ==
  ASSUME TypeInv, GenInv, SocketInv, Sending, FatalOnlyAfter, [Next]_vars
  PROVE  FatalOnlyAfter'
  <1>1. ASSUME given_up \subseteq given_up', reset \subseteq reset', pc' = pc \/ pc' \in Running
        PROVE  FatalOnlyAfter'
    BY <1>1 DEF FatalOnlyAfter, Fatal, Running
  <1>2. ASSUME NEW s \in event_pool, AgentConnected(s)
        PROVE  FatalOnlyAfter'
    <2>1. UNCHANGED <<given_up, reset>>
      BY <1>2 DEF AgentConnected, child_vars, kernel_vars
    <2>2. s[1] \in given_up \/ pc' \in Running
      BY <1>2, AgentEvent DEF Running
    <2> QED BY <2>1, <2>2 DEF FatalOnlyAfter, Fatal, Running
  <1>3. ASSUME NEW s \in event_pool, HostConnected(s)
        PROVE  FatalOnlyAfter'
    <2>1. UNCHANGED <<given_up, reset>>
      BY <1>3 DEF HostConnected, child_vars, kernel_vars
    <2> QED BY <1>1, <1>3, <2>1, HostEvent DEF Running
  <1>4. CASE SendUuid
    <2>1. UNCHANGED <<given_up, reset>>
      BY <1>4 DEF SendUuid, child_vars, kernel_vars
    <2> QED BY <1>4, <2>1, UuidSent DEF FatalOnlyAfter, Fatal, Running
  <1>5. CASE \E t \in Transfers : ControllerMessage(t)
    <2>1. UNCHANGED <<given_up, reset>> /\ pc' = "scan"
      BY <1>5 DEF ControllerMessage, child_vars, kernel_vars
    <2> QED BY <1>1, <2>1 DEF Running
  <1>6. CASE \/ \E t \in ClientRole : HostSideConnect(t)
             \/ \E t \in AgentRole, k \in Slots : AcceptAgentSide(t, k)
             \/ \E s \in event_pool : GetUuid(s)
             \/ ConfirmClient
    <2>1. UNCHANGED <<given_up, reset>> /\ pc' \in {"scan", "get_uuid"}
      BY <1>6 DEF HostSideConnect, AcceptAgentSide, GetUuid, ConfirmClient, child_vars, kernel_vars
    <2> QED BY <1>1, <2>1 DEF Running
  <1>7. CASE \E t \in Transfers : Expire(t)
    <2>1. given_up \subseteq given_up' /\ UNCHANGED reset /\ pc' = pc
      BY <1>7 DEF Expire, kernel_vars
    <2> QED BY <1>1, <2>1
  <1>8. CASE \/ ScanEnds \/ Timeout \/ Ended \/ UNCHANGED vars
             \/ \E s \in Opened : ConnectEnds(s)
             \/ \E s \in agent_fd_pool : UuidArrives(s) \/ HangsUp(s)
             \/ \E s \in event_pool : Resets(s)
    <2>1. UNCHANGED given_up /\ reset \subseteq reset' /\ (pc' = pc \/ pc' \in Running)
      BY <1>8 DEF ScanEnds, Timeout, Ended, ConnectEnds, UuidArrives, HangsUp, Resets, vars, child_vars,
                  kernel_vars, Running
    <2> QED BY <1>1, <2>1
  <1>9. CASE GetUuidFails
    BY <1>9 DEF GetUuidFails, FatalOnlyAfter, kernel_vars
  <1> QED BY <1>2, <1>3, <1>4, <1>5, <1>6, <1>7, <1>8, <1>9 DEF Next, Handler, Environment

(* The second part: when no request comes while another client is being    *)
(* connected.                                                              *)
LEMMA CalmInvariant == ASSUME ~Overlap PROVE Spec => [](SetupInv /\ CalmInv)
  <1>1. Init => SetupInv /\ CalmInv
    <2> SUFFICES ASSUME Init PROVE CalmInv
      BY InitSetup
    <2> QED BY DEF Init, CalmInv, SocketInv, RequestsOnce, ClientSlots, Current, Known, HostPolled,
                   AgentPolled, Sending, HostIsUp, ForkedHost, FatalOnlyAfter, Fatal, Transfers
  <1>2. SetupInv /\ CalmInv /\ [Next]_vars => SetupInv' /\ CalmInv'
    BY NextSetup, NextSockets, NextSending, NextHostIsUp, NextForkedHost, NextFatal DEF SetupInv, CalmInv
  <1> QED BY <1>1, <1>2, PTL DEF Spec

(* A CLIENT transfer is connected once: its request and its host have both *)
(* come then, and neither comes again.                                     *)
ConnectedOnce ==
  \A t \in ClientRole : generation[t] # 0 => generation[t] = 1 /\ t \notin hosts \union messages

LEMMA NextConnected ==
  ASSUME ~Overlap, TypeInv, GenInv, SocketInv, ConnectedOnce, [Next]_vars
  PROVE  ConnectedOnce'
  <1>1. ASSUME hosts' \subseteq hosts, messages' \subseteq messages,
               \A u \in ClientRole : UNCHANGED generation[u]
        PROVE  ConnectedOnce'
    BY <1>1 DEF ConnectedOnce
  <1>2. ASSUME NEW t \in Transfers, ControllerMessage(t)
        PROVE  ConnectedOnce'
    <2>1. clients_hashes \intersect requests = {}
      BY <1>2 DEF ControllerMessage, Matched
    <2>2. /\ t \in messages /\ messages' = messages \ {t} /\ UNCHANGED hosts
          /\ generation' = [c \in Transfers |-> IF c \in clients_hashes \intersect (requests \union {t})
                                               THEN generation[c] + 1 ELSE generation[c]]
      BY <1>2 DEF ControllerMessage, kernel_vars
    <2>3. \A u \in ClientRole \ {t} : UNCHANGED generation[u]
      BY <2>1, <2>2 DEF Transfers, TypeInv, TypeOK
    <2>4. t \in ClientRole => generation[t] = 0
      BY <2>2 DEF ConnectedOnce
    <2>5. t \in ClientRole \intersect clients_hashes => t \notin hosts
      BY DEF GenInv, OwnSockets
    <2>6. t \in ClientRole => generation'[t] = IF t \in clients_hashes THEN 1 ELSE 0
      BY <2>2, <2>4 DEF Transfers
    <2> QED BY <2>2, <2>3, <2>5, <2>6 DEF ConnectedOnce
  <1>3. ASSUME NEW t \in ClientRole, HostSideConnect(t)
        PROVE  ConnectedOnce'
    <2>1. /\ t \in hosts /\ hosts' = hosts \ {t} /\ UNCHANGED messages
          /\ \A u \in Transfers \ {t} : UNCHANGED generation[u]
          /\ generation'[t] = IF t \in requests THEN generation[t] + 1 ELSE generation[t]
      BY <1>3, HostEffect
    <2>2. generation[t] = 0
      BY <2>1 DEF ConnectedOnce
    <2>3. t \in requests => t \notin messages
      BY DEF SocketInv, RequestsOnce
    <2> QED BY <2>1, <2>2, <2>3 DEF ConnectedOnce, Transfers
  <1>4. CASE ConfirmClient
    <2>1. busy[1] \notin ClientRole
      BY <1>4, AcceptedParts, SetupAssumption DEF ConfirmClient, TypeInv, RealSockets
    <2>2. UNCHANGED <<hosts, messages>> /\ \A u \in Transfers \ {busy[1]} : UNCHANGED generation[u]
      BY <1>4 DEF ConfirmClient, kernel_vars, TypeInv, TypeOK
    <2> QED BY <1>1, <2>1, <2>2 DEF Transfers
  <1>5. CASE \/ \E t \in AgentRole, k \in Slots : AcceptAgentSide(t, k)
             \/ \E s \in event_pool : HostConnected(s) \/ AgentConnected(s) \/ GetUuid(s)
    <2>1. UNCHANGED <<hosts, messages, generation>>
      BY <1>5 DEF AcceptAgentSide, HostConnected, AgentConnected, GetUuid, client_vars, kernel_vars
    <2> QED BY <1>1, <2>1
  <1>6. CASE \/ SendUuid \/ GetUuidFails \/ ScanEnds \/ Timeout \/ Ended \/ UNCHANGED vars
             \/ \E t \in Transfers : Expire(t)
             \/ \E s \in Opened : ConnectEnds(s)
             \/ \E s \in agent_fd_pool : UuidArrives(s) \/ HangsUp(s)
             \/ \E s \in event_pool : Resets(s)
    <2>1. UNCHANGED <<hosts, messages, generation>>
      BY <1>6 DEF SendUuid, GetUuidFails, ScanEnds, Timeout, Ended, Expire, ConnectEnds, UuidArrives,
                  HangsUp, Resets, vars, client_vars, kernel_vars
    <2> QED BY <1>1, <2>1
  <1> QED BY <1>2, <1>3, <1>4, <1>5, <1>6 DEF Next, Handler, Environment

(* The connections of a child are those of the first connect, or accepted. *)
FirstGeneration(t) == IF t \in ClientRole THEN 1 ELSE 0
ChildFirst ==
  \A c \in forked :
    /\ c[1] \in Transfers
    /\ \A k \in Slots : c[3][k] = <<c[1], c[3][k][2], FirstGeneration(c[1])>>

LEMMA NextFirst ==
  ASSUME SetupInv, ConnectedOnce, ChildFirst, [Next]_vars
  PROVE  ChildFirst'
  <1>1. CASE UNCHANGED forked
    BY <1>1 DEF ChildFirst
  <1>2. ASSUME NEW t \in clients_hashes, pc = "scan", Complete(t),
               forked' = forked \union {<<t, host_sock[t], agent_sock[t]>>}
        PROVE  ChildFirst'
    <2> DEFINE new == <<t, host_sock[t], agent_sock[t]>>
    <2>1. t \in Transfers
      BY DEF SetupInv, TypeInv, TypeOK
    <2>2. \A k \in Slots : agent_sock[t][k] = <<t, agent_sock[t][k][2], FirstGeneration(t)>>
      <3>1. \A k \in Slots : agent_sock[t][k] # NoSocket
        BY <1>2, CompletePorts
      <3>2. CASE t \in ClientRole
        <4>1. generation[t] \in Nat /\ (generation[t] = 0 \/ generation[t] = 1)
          BY <2>1, <3>2 DEF ConnectedOnce, SetupInv, TypeInv, TypeOK
        <4>2. \A k \in Slots : /\ agent_sock[t][k] \in Sockets \ {NoSocket} /\ agent_sock[t][k][1] = t
                               /\ agent_sock[t][k][3] # 0 /\ agent_sock[t][k][3] <= generation[t]
          BY <2>1, <3>1, <3>2 DEF SetupInv, GenInv, OwnSockets, TypeInv, TypeOK
        <4>3. \A k \in Slots : /\ agent_sock[t][k][3] \in Nat
                               /\ agent_sock[t][k] = <<agent_sock[t][k][1], agent_sock[t][k][2], agent_sock[t][k][3]>>
          BY <4>2, SocketParts
        <4>4. \A k \in Slots : agent_sock[t][k][3] = 1
          BY <4>1, <4>2, <4>3
        <4> QED BY <3>2, <4>2, <4>3, <4>4 DEF FirstGeneration
      <3>3. CASE t \in AgentRole
        <4>1. num_parallel_connections[t] = Connections /\ \A k \in Slots : k < Connections
          BY <1>2, SetupAssumption DEF Complete, Slots
        <4>2. \A k \in Slots : \E j \in Slots : agent_sock[t][k] = <<t, j, 0>>
          BY <3>3, <4>1 DEF SetupInv, AgentCount, AgentSlots
        <4> QED BY <3>3, <4>2, SetupAssumption DEF FirstGeneration
      <3> QED BY <2>1, <3>2, <3>3 DEF Transfers
    <2>3. new[1] = t /\ new[3] = agent_sock[t] /\ forked' = forked \union {new}
      BY <1>2
    <2> HIDE DEF new
    <2>4. ASSUME NEW c \in forked'
          PROVE  /\ c[1] \in Transfers
                 /\ \A k \in Slots : c[3][k] = <<c[1], c[3][k][2], FirstGeneration(c[1])>>
      <3>1. CASE c \in forked
        BY <3>1 DEF ChildFirst
      <3>2. CASE c = new
        BY <2>1, <2>2, <2>3, <3>2
      <3> QED BY <2>3, <3>1, <3>2
    <2> QED BY <2>4 DEF ChildFirst, FirstGeneration
  <1> QED BY <1>1, <1>2, NextForked

(* So a child holds, for every port, the connection that was made first.   *)
ChildEnds ==
  \A c \in forked :
    /\ c[1] \in Transfers
    /\ {c[3][k] : k \in Slots} = {<<c[1], p, FirstGeneration(c[1])>> : p \in Slots}

LEMMA FirstConnections == ASSUME ~Overlap PROVE Spec => []ChildEnds
  <1>1. Init => ConnectedOnce /\ ChildFirst
    BY DEF Init, ConnectedOnce, ChildFirst, Transfers
  <1>2. SetupInv /\ CalmInv /\ ConnectedOnce /\ ChildFirst /\ [Next]_vars => ConnectedOnce' /\ ChildFirst'
    BY NextConnected, NextFirst DEF SetupInv, CalmInv
  <1>3. ChildFirst /\ EveryPort => ChildEnds
    <2> SUFFICES ASSUME ChildFirst, EveryPort, NEW c \in forked
                 PROVE  {c[3][k] : k \in Slots} = {<<c[1], p, FirstGeneration(c[1])>> : p \in Slots}
      BY DEF ChildEnds, ChildFirst
    <2>1. {c[3][k][2] : k \in Slots} = Slots
      BY DEF EveryPort
    <2>2. \A k \in Slots : c[3][k] = <<c[1], c[3][k][2], FirstGeneration(c[1])>>
      BY DEF ChildFirst
    <2>3. \A p \in Slots : \E k \in Slots : c[3][k][2] = p
      BY <2>1
    <2>4. \A k \in Slots : c[3][k][2] \in Slots
      BY <2>1
    <2> DEFINE g == FirstGeneration(c[1])
    <2>5. \A p \in Slots : \E k \in Slots : c[3][k] = <<c[1], p, g>>
      BY <2>2, <2>3
    <2>6. \A k \in Slots : \E p \in Slots : c[3][k] = <<c[1], p, g>>
      BY <2>2, <2>4
    <2> HIDE DEF g
    <2> QED BY <2>5, <2>6 DEF g
  <1> QED BY <1>1, <1>2, <1>3, CalmInvariant, EveryPortOnce, PTL DEF Spec

(* A child gets a host and all parallel connections, connected, identified *)
(* to the remote agent and distinct, although the daemon decides by a      *)
(* counter.                                                                *)
THEOREM ChildIsComplete == ASSUME ~Overlap PROVE Spec => []ForkedComplete
  <1>1. SetupInv /\ CalmInv => ForkedComplete
    BY DEF SetupInv, CalmInv, Children, ForkedSlots, ForkedHost, ForkedComplete
  <1> QED BY <1>1, CalmInvariant, PTL

(* The daemon survives every order of requests, hosts, connections and     *)
(* uuids, as long as no client was given up and no connection was reset    *)
(* (network.c:542-803).                                                    *)
THEOREM DaemonSurvives == ASSUME ~Overlap PROVE Spec => []NoFatalExit
  <1>1. SetupInv /\ CalmInv => NoFatalExit
    BY DEF CalmInv, FatalOnlyAfter, NoFatalExit, Unharmed
  <1> QED BY <1>1, CalmInvariant, PTL
=============================================================================
