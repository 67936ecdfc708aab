------------------------------ MODULE Handshake ------------------------------
(***************************************************************************)
(* Two daemons that set the same transfers up: one (the variables of       *)
(* Setup) connects for the transfers of ClientRole and is connected to for *)
(* those of AgentRole, the other (the prefix e_) the other way round.      *)
(* What Setup assumes of the remote agent is here what the other daemon    *)
(* does: a connection can be accepted once its connect ended on the other  *)
(* side, and a uuid arrives once the other daemon has sent it.             *)
(*                                                                         *)
(* The two are followed while nothing fails and no request comes in the    *)
(* middle of another set-up, so that no client is connected twice and each *)
(* port of a transfer once: HandshakeAssumption says so.  What a daemon    *)
(* does when that is not so, Setup shows for each of the two alone.        *)
(***************************************************************************)
EXTENDS Setup

CONSTANT InTurn  \* a transfer begins when those before it are done

ASSUME HandshakeAssumption ==
  /\ InTurn \in BOOLEAN
  /\ ~Overlap /\ ~MayFail /\ ~MayExpire /\ ~MayHangUp /\ ~MayReset

VARIABLES
  e_pc, e_busy, e_requests, e_clients_hashes, e_host_fd_poll,
  e_num_parallel_connections, e_host_sock, e_agent_sock, e_agent_fd_pool,
  e_event_pool, e_forked, e_given_up, e_messages, e_hosts, e_incoming, e_generation,
  e_connected, e_refused, e_identified, e_hungup, e_reset

East == INSTANCE Setup WITH
  ClientRole <- AgentRole, AgentRole <- ClientRole,
  pc <- e_pc, busy <- e_busy, requests <- e_requests,
  clients_hashes <- e_clients_hashes, host_fd_poll <- e_host_fd_poll,
  num_parallel_connections <- e_num_parallel_connections,
  host_sock <- e_host_sock, agent_sock <- e_agent_sock,
  agent_fd_pool <- e_agent_fd_pool, event_pool <- e_event_pool,
  forked <- e_forked, given_up <- e_given_up, messages <- e_messages, hosts <- e_hosts,
  incoming <- e_incoming, generation <- e_generation,
  connected <- e_connected, refused <- e_refused, identified <- e_identified,
  hungup <- e_hungup, reset <- e_reset

e_vars == <<e_pc, e_busy, e_requests, e_clients_hashes, e_host_fd_poll,
            e_num_parallel_connections, e_host_sock, e_agent_sock, e_agent_fd_pool,
            e_event_pool, e_forked, e_given_up, e_messages, e_hosts, e_incoming, e_generation,
            e_connected, e_refused, e_identified, e_hungup, e_reset>>
handshake_vars == <<vars, e_vars>>

HandshakeInit == Init /\ East!Init

-----------------------------------------------------------------------------
West(A) == A /\ UNCHANGED e_vars
InEast(A) == A /\ UNCHANGED vars

(* The hosts and the controller begin transfer t.                          *)
Begun(t) == t \notin messages \intersect e_messages \intersect (hosts \union e_hosts)
Done(t) == (\E c \in forked : c[1] = t) /\ (\E c \in e_forked : c[1] = t)
MayBegin(t) == InTurn => \A u \in Transfers \ {t} : Begun(u) => Done(u)

WestMessage(t) == MayBegin(t) /\ West(ControllerMessage(t))
EastMessage(t) == MayBegin(t) /\ InEast(East!ControllerMessage(t))
WestHost(t) == MayBegin(t) /\ West(HostSideConnect(t))
EastHost(t) == MayBegin(t) /\ InEast(East!HostSideConnect(t))

(* The kernel of the accepting side answers the connect by itself, before  *)
(* its daemon calls accept; slot k goes to port k.                         *)
WestAccepts(t, k) == West(AcceptAgentSide(t, k)) /\ e_agent_sock[t][k] \in e_connected
EastAccepts(t, k) == InEast(East!AcceptAgentSide(t, k)) /\ agent_sock[t][k] \in connected

WestUuidArrives(s) == West(UuidArrives(s)) /\ e_agent_sock[s[1]][s[2]] \in e_identified
EastUuidArrives(s) == InEast(East!UuidArrives(s)) /\ agent_sock[s[1]][s[2]] \in identified

WestEvent == \E s \in event_pool : HostConnected(s) \/ AgentConnected(s) \/ GetUuid(s)
EastEvent ==
  \E s \in e_event_pool : East!HostConnected(s) \/ East!AgentConnected(s) \/ East!GetUuid(s)

WestStep ==
  \/ West(WestEvent) \/ West(SendUuid) \/ West(ConfirmClient) \/ West(ScanEnds) \/ West(Timeout)
  \/ \E t \in Transfers : WestMessage(t) \/ West(Expire(t))
  \/ \E t \in ClientRole : WestHost(t)
  \/ \E t \in AgentRole, k \in Slots : WestAccepts(t, k)

EastStep ==
  \/ InEast(EastEvent) \/ InEast(East!SendUuid) \/ InEast(East!ConfirmClient)
  \/ InEast(East!ScanEnds) \/ InEast(East!Timeout)
  \/ \E t \in Transfers : EastMessage(t) \/ InEast(East!Expire(t))
  \/ \E t \in AgentRole : EastHost(t)
  \/ \E t \in ClientRole, k \in Slots : EastAccepts(t, k)

Network ==
  \/ \E s \in Opened : West(ConnectEnds(s))
  \/ \E s \in East!Opened : InEast(East!ConnectEnds(s))
  \/ \E s \in agent_fd_pool : WestUuidArrives(s)
  \/ \E s \in e_agent_fd_pool : EastUuidArrives(s)

HandshakeNext == WestStep \/ EastStep \/ Network

HandshakeSpec == HandshakeInit /\ [][HandshakeNext]_handshake_vars

(* As in Setup, for both daemons; the network carries what was sent.  Each *)
(* message, host and connection comes once, so that fairness to the kind   *)
(* is fairness to each.                                                    *)
HandshakeFairness ==
  /\ WF_handshake_vars(West(ScanEnds) \/ West(SendUuid) \/ West(ConfirmClient))
  /\ WF_handshake_vars(InEast(East!ScanEnds) \/ InEast(East!SendUuid) \/ InEast(East!ConfirmClient))
  /\ WF_handshake_vars(West(Timeout))
  /\ WF_handshake_vars(InEast(East!Timeout))
  /\ WF_handshake_vars(Network)
  /\ SF_handshake_vars(West(WestEvent))
  /\ SF_handshake_vars(InEast(EastEvent))
  /\ SF_handshake_vars(\E t \in Transfers : WestMessage(t))
  /\ SF_handshake_vars(\E t \in Transfers : EastMessage(t))
  /\ SF_handshake_vars(\E t \in Transfers : West(Complete(t) /\ Expire(t)))
  /\ SF_handshake_vars(\E t \in Transfers : InEast(East!Complete(t) /\ East!Expire(t)))
  /\ SF_handshake_vars(\E t \in ClientRole : WestHost(t))
  /\ SF_handshake_vars(\E t \in AgentRole : EastHost(t))
  /\ SF_handshake_vars(\E t \in AgentRole, k \in Slots : WestAccepts(t, k))
  /\ SF_handshake_vars(\E t \in ClientRole, k \in Slots : EastAccepts(t, k))

FairHandshakeSpec == HandshakeSpec /\ HandshakeFairness

-----------------------------------------------------------------------------
(* The other end of a connection: what one daemon connects by its first    *)
(* connect (generation 1) the other accepts on that port (generation 0).   *)
FarEnd(s) == <<s[1], s[2], 1 - s[3]>>

(* When both daemons have handed a transfer over, their children have the  *)
(* two ends of the same connections (network.c:727-758, 772-803;           *)
(* poll.c:91-129).                                                         *)
SameConnections ==
  \A c \in forked, d \in e_forked :
    c[1] = d[1] => {FarEnd(c[3][k]) : k \in Slots} = {d[3][k] : k \in Slots}

(* What one daemon hands over the other does too: in the end both have     *)
(* handed over every transfer, and no child reads for a peer that will not *)
(* come (poll.c:75-212, two copies of it).                                 *)
BothSetUp == <>(\A t \in Transfers : Done(t))

(* network.c:501-503 says of an accepted connection: "accept then add to   *)
(* agent->event_pool and wait for uuid".  Both daemons come back to their  *)
(* event pools again and again.                                            *)
BothWaitInEventPool == WaitsInEventPool /\ East!WaitsInEventPool
=============================================================================
