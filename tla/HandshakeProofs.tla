--------------------------- MODULE HandshakeProofs ---------------------------
(***************************************************************************)
(* Two daemons that set the same transfers up, for any number of transfers *)
(* and connections: what one daemon gives to its child and what the other  *)
(* gives to its own are the two ends of the same connections.  Each daemon *)
(* takes steps of Setup, with the roles exchanged, so that what            *)
(* SetupProofs shows holds of both: each child has, for every port, the    *)
(* connection that was made first, by the one daemon or accepted by the    *)
(* other.                                                                  *)
(***************************************************************************)
EXTENDS Handshake, SetupProofs

E == INSTANCE SetupProofs WITH
  ClientRole <- AgentRole, AgentRole <- ClientRole,
  pc <- e_pc, busy <- e_busy, requests <- e_requests,
  clients_hashes <- e_clients_hashes, host_fd_poll <- e_host_fd_poll,
  num_parallel_connections <- e_num_parallel_connections,
  host_sock <- e_host_sock, agent_sock <- e_agent_sock,
  agent_fd_pool <- e_agent_fd_pool, event_pool <- e_event_pool,
  forked <- e_forked, given_up <- e_given_up, messages <- e_messages, hosts <- e_hosts,
  incoming <- e_incoming, generation <- e_generation,
  connected <- e_connected, refused <- e_refused, identified <- e_identified,
  hungup <- e_hungup, reset <- e_reset

(* What Setup assumes of the constants does not depend on which daemon has *)
(* which role.                                                             *)
LEMMA EastAssumption == E!SetupAssumption
  BY SetupAssumption DEF E!SetupAssumption

-----------------------------------------------------------------------------
(* The steps.                                                              *)

(* What the daemon with the prefix does, E does.                           *)
LEMMA EastActions ==
  /\ East!Init => E!Init
  /\ East!SendUuid => E!SendUuid
  /\ East!ConfirmClient => E!ConfirmClient
  /\ East!ScanEnds => E!ScanEnds
  /\ East!Timeout => E!Timeout
  /\ \A t : East!ControllerMessage(t) => E!ControllerMessage(t)
  /\ \A t : East!HostSideConnect(t) => E!HostSideConnect(t)
  /\ \A t, k : East!AcceptAgentSide(t, k) => E!AcceptAgentSide(t, k)
  /\ \A t : East!Expire(t) => E!Expire(t)
  /\ \A s : /\ East!HostConnected(s) => E!HostConnected(s)
            /\ East!AgentConnected(s) => E!AgentConnected(s)
            /\ East!GetUuid(s) => E!GetUuid(s)
            /\ East!ConnectEnds(s) => E!ConnectEnds(s)
            /\ East!UuidArrives(s) => E!UuidArrives(s)
  /\ East!Opened = E!Opened
  <1> USE DEF East!client_vars, E!client_vars, East!child_vars, E!child_vars, East!kernel_vars, E!kernel_vars,
              East!Transfers, E!Transfers, Transfers, East!Slots, E!Slots, Slots, East!NoSocket, E!NoSocket,
              East!HostSlot, E!HostSlot
  <1>1. East!Init => E!Init
    BY DEF East!Init, E!Init
  <1>2. East!SendUuid => E!SendUuid
    BY DEF East!SendUuid, E!SendUuid
  <1>3. East!ConfirmClient => E!ConfirmClient
    BY DEF East!ConfirmClient, E!ConfirmClient, East!NextSlot, E!NextSlot, East!ConnectsHost, E!ConnectsHost
  <1>4. East!ScanEnds => E!ScanEnds
    BY DEF East!ScanEnds, E!ScanEnds
  <1>5. East!Timeout => E!Timeout
    BY DEF East!Timeout, E!Timeout
  <1>6. ASSUME NEW t PROVE East!ControllerMessage(t) => E!ControllerMessage(t)
    BY DEF East!ControllerMessage, E!ControllerMessage, East!Matched, E!Matched, East!Override, E!Override,
           East!NewAgentSocks, E!NewAgentSocks, East!NewHostSocks, E!NewHostSocks
  <1>7. ASSUME NEW t PROVE East!HostSideConnect(t) => E!HostSideConnect(t)
    BY DEF East!HostSideConnect, E!HostSideConnect, East!Override, E!Override, East!NewAgentSocks, E!NewAgentSocks
  <1>8. ASSUME NEW t, NEW k PROVE East!AcceptAgentSide(t, k) => E!AcceptAgentSide(t, k)
    BY DEF East!AcceptAgentSide, E!AcceptAgentSide
  <1>9. ASSUME NEW t PROVE East!Expire(t) => E!Expire(t)
    BY DEF East!Expire, E!Expire, East!Complete, E!Complete, East!Remaining, E!Remaining, East!Closed, E!Closed
  <1>10. ASSUME NEW s PROVE East!HostConnected(s) => E!HostConnected(s)
    BY DEF East!HostConnected, E!HostConnected, East!Ready, E!Ready, East!Succeeded, E!Succeeded
  <1>11. ASSUME NEW s PROVE East!AgentConnected(s) => E!AgentConnected(s)
    BY DEF East!AgentConnected, E!AgentConnected, East!Ready, E!Ready, East!Succeeded, E!Succeeded
  <1>12. ASSUME NEW s PROVE East!GetUuid(s) => E!GetUuid(s)
    BY DEF East!GetUuid, E!GetUuid, East!Ready, E!Ready
  <1>13. East!Opened = E!Opened
    BY DEF East!Opened, E!Opened, East!Matched, E!Matched
  <1>14. ASSUME NEW s PROVE East!ConnectEnds(s) => E!ConnectEnds(s)
    BY <1>13 DEF East!ConnectEnds, E!ConnectEnds, East!Running, E!Running
  <1>15. ASSUME NEW s PROVE East!UuidArrives(s) => E!UuidArrives(s)
    BY DEF East!UuidArrives, E!UuidArrives, East!Running, E!Running
  <1> QED BY <1>1, <1>2, <1>3, <1>4, <1>5, <1>6, <1>7, <1>8, <1>9, <1>10, <1>11, <1>12, <1>13, <1>14, <1>15

(* Every step is one of Setup for the daemon that takes it, and leaves the *)
(* other as it is.                                                         *)
LEMMA HandshakeSteps ==
  ASSUME [HandshakeNext]_handshake_vars
  PROVE  [Next]_vars /\ [E!Next]_(E!vars)
  <1>1. UNCHANGED vars => [Next]_vars
    OBVIOUS
  <1>2. UNCHANGED e_vars => UNCHANGED E!vars
    BY DEF e_vars, E!vars, E!client_vars, E!child_vars, E!kernel_vars
  <1>3. CASE UNCHANGED handshake_vars
    BY <1>2, <1>3 DEF handshake_vars
  <1>4. CASE WestStep
    <2> USE DEF West
    <2>1. Next /\ UNCHANGED e_vars
      BY <1>4 DEF WestStep, WestEvent, WestMessage, WestHost, WestAccepts, Next, Handler
    <2> QED BY <1>2, <2>1
  <1>5. CASE EastStep
    <2>1. E!Transfers = Transfers /\ E!Slots = Slots
      BY DEF E!Transfers, Transfers, E!Slots, Slots
    <2>2. E!Next /\ UNCHANGED vars
      BY <1>5, <2>1, EastActions
         DEF EastStep, EastEvent, EastMessage, EastHost, EastAccepts, InEast, E!Next, E!Handler
    <2> QED BY <2>2
  <1>6. CASE Network
    <2>1. CASE \/ \E s \in Opened : West(ConnectEnds(s))
               \/ \E s \in agent_fd_pool : WestUuidArrives(s)
      <3>1. Next /\ UNCHANGED e_vars
        BY <2>1 DEF West, WestUuidArrives, Next, Environment
      <3> QED BY <1>2, <3>1
    <2>2. CASE \/ \E s \in East!Opened : InEast(East!ConnectEnds(s))
               \/ \E s \in e_agent_fd_pool : EastUuidArrives(s)
      <3>1. E!Next /\ UNCHANGED vars
        BY <2>2, EastActions DEF InEast, EastUuidArrives, E!Next, E!Environment
      <3> QED BY <3>1
    <2> QED BY <1>6, <2>1, <2>2 DEF Network
  <1> QED BY <1>3, <1>4, <1>5, <1>6 DEF HandshakeNext

(* Each of the two is a daemon as Setup describes one: what it assumes of  *)
(* the remote agent, the other daemon does.                                *)
LEMMA TwoDaemons == HandshakeSpec => Spec /\ E!Spec
  <1>1. HandshakeInit => Init /\ E!Init
    BY EastActions DEF HandshakeInit
  <1>2. [HandshakeNext]_handshake_vars => [Next]_vars /\ [E!Next]_(E!vars)
    BY HandshakeSteps
  <1> QED BY <1>1, <1>2, PTL DEF HandshakeSpec, Spec, E!Spec

-----------------------------------------------------------------------------
(* The children.                                                           *)

(* When both daemons have given a transfer to a child, the two children    *)
(* have the two ends of the same connections, although one daemon fills    *)
(* its slots by port and the other in the order in which it read the uuids *)
(* (network.c:727-758, 772-803).                                           *)
THEOREM SameEnds == HandshakeSpec => []SameConnections
  <1> USE HandshakeAssumption
  <1>1. ASSUME ChildEnds, E!ChildEnds
        PROVE  SameConnections
    <2> SUFFICES ASSUME NEW c \in forked, NEW d \in e_forked, c[1] = d[1]
                 PROVE  {FarEnd(c[3][k]) : k \in Slots} = {d[3][k] : k \in Slots}
      BY DEF SameConnections
    <2> DEFINE t == c[1]
    <2>1. t \in Transfers /\ {c[3][k] : k \in Slots} = {<<t, p, FirstGeneration(t)>> : p \in Slots}
      BY <1>1 DEF ChildEnds
    <2>2. {d[3][k] : k \in Slots} = {<<t, p, E!FirstGeneration(t)>> : p \in Slots}
      BY <1>1 DEF E!ChildEnds, E!Slots, Slots
    <2>3. 1 - FirstGeneration(t) = E!FirstGeneration(t)
      BY <2>1, SetupAssumption DEF FirstGeneration, E!FirstGeneration, Transfers
    <2>4. {FarEnd(c[3][k]) : k \in Slots} = {FarEnd(s) : s \in {c[3][k] : k \in Slots}}
      OBVIOUS
    <2>5. \A p \in Slots : FarEnd(<<t, p, FirstGeneration(t)>>) = <<t, p, E!FirstGeneration(t)>>
      BY <2>3 DEF FarEnd
    <2> HIDE DEF t
    <2>6. {FarEnd(s) : s \in {<<t, p, FirstGeneration(t)>> : p \in Slots}}
            = {<<t, p, E!FirstGeneration(t)>> : p \in Slots}
      BY <2>5
    <2> QED BY <2>1, <2>2, <2>4, <2>6
  <1>2. HandshakeSpec => []ChildEnds
    BY TwoDaemons, FirstConnections, PTL
  <1>3. HandshakeSpec => []E!ChildEnds
    BY TwoDaemons, EastAssumption, E!FirstConnections, PTL
  <1> QED BY <1>1, <1>2, <1>3, PTL
=============================================================================
