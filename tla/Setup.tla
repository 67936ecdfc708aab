-------------------------------- MODULE Setup --------------------------------
(***************************************************************************)
(* poll_loop: the daemon that sets transfers up.  For a transfer the       *)
(* controller sends it a request; in the CLIENT role a host has connected  *)
(* to it and it connects to the remote agent, in the AGENT role the remote *)
(* agent connects to it and it connects to a host.  When all connections   *)
(* of a transfer are there it forks the process that DataTransfer models.  *)
(*                                                                         *)
(* The daemon plays one role for a transfer, and a transfer is named by    *)
(* its uuid; the address by which a host is matched with the CLIENT        *)
(* request is abstracted to the same name.  A socket is <<transfer, slot,  *)
(* generation>>: the generation tells the sockets of a second connect from *)
(* those of the first, and is 0 for the sockets accepted from the remote   *)
(* agent.  Time is abstracted: the scan may find any client older than     *)
(* TIMEOUT, which is also how a client that is complete gets forked.       *)
(***************************************************************************)
EXTENDS Integers, FiniteSets

CONSTANTS
  ClientRole, AgentRole,  \* the transfers, by the role this daemon plays
  Connections,            \* allowed_connections of every request
  Overlap,   \* a request may arrive while an earlier one is being set up
  MayFail,   \* a connect may be refused
  MayExpire, \* a client may reach TIMEOUT before its sockets are connected
  MayHangUp, \* the remote agent may close a connection before it sends its uuid
  MayReset   \* a peer may reset a connection that the daemon still polls

ASSUME SetupAssumption ==
  /\ ClientRole \intersect AgentRole = {}
  /\ Connections \in Nat \ {0}
  /\ {Overlap, MayFail, MayExpire, MayHangUp, MayReset} \subseteq BOOLEAN

Transfers == ClientRole \union AgentRole
Slots == 0 .. Connections - 1
HostSlot == -1
NoSocket == <<>>

VARIABLES
  pc,              \* scan, wait, send_uuid, get_uuid, or how the daemon ended
  busy,            \* the socket send_uuid or get_uuid works on
  requests,        \* controller.requests
  clients_hashes,  \* the transfers that have a client_t
  host_fd_poll,    \* OFF or IN, per client
  num_parallel_connections,
  host_sock,
  agent_sock,      \* per client, a socket for each slot
  agent_fd_pool,   \* accepted sockets whose uuid is not known yet
  event_pool,      \* interest list: every socket in it is polled for output
  forked,          \* what the child of a transfer got, as <<transfer, host, sockets>>
  given_up         \* transfers with a client that was freed and not given to a child

VARIABLES
  messages,    \* transfers whose request the controller has not sent
  hosts,       \* CLIENT transfers whose host has not connected
  incoming,    \* connections of the remote agent that were not accepted
  generation,  \* how often sockets were created for a transfer
  connected,   \* sockets whose connect succeeded
  refused,     \* sockets whose connect failed
  identified,  \* sockets on which the uuid was sent, or has arrived
  hungup,      \* accepted sockets whose peer closed without a uuid
  reset        \* connected sockets that the peer has reset since

client_vars == <<clients_hashes, host_fd_poll, num_parallel_connections, host_sock,
                 agent_sock, generation>>
child_vars == <<forked, given_up>>
kernel_vars == <<hosts, incoming, connected, refused, identified, hungup, reset>>
vars == <<pc, busy, requests, client_vars, agent_fd_pool, event_pool, child_vars,
          messages, kernel_vars>>

Fatal == {"epoll_ctl", "send_error", "recv_error", "use_after_free"}
Running == {"scan", "wait", "send_uuid", "get_uuid"}
Sockets == {NoSocket} \union (Transfers \X (Slots \union {HostSlot}) \X Nat)

(* Every variable holds what its declaration in datatypes.h (agent_t,      *)
(* client_t, listen_fds_t) allows.                                         *)
TypeOK ==
  /\ pc \in Running \union Fatal
  /\ busy \in Sockets
  /\ requests \subseteq Transfers
  /\ clients_hashes \subseteq Transfers
  /\ host_fd_poll \in [Transfers -> {"OFF", "IN"}]
  /\ num_parallel_connections \in [Transfers -> Nat]
  /\ host_sock \in [Transfers -> Sockets]
  /\ agent_sock \in [Transfers -> [Slots -> Sockets]]
  /\ agent_fd_pool \subseteq Sockets
  /\ event_pool \subseteq Sockets
  /\ forked \subseteq Transfers \X Sockets \X [Slots -> Sockets]
  /\ {messages, given_up} \subseteq SUBSET Transfers
  /\ hosts \subseteq ClientRole
  /\ incoming \in [AgentRole -> SUBSET Slots]
  /\ generation \in [Transfers -> Nat]
  /\ {connected, refused, identified, hungup, reset} \subseteq SUBSET Sockets

(* init_agent and init_poll: only the listening sockets are polled.        *)
Init ==
  /\ pc = "scan"
  /\ busy = NoSocket
  /\ requests = {}
  /\ clients_hashes = {}
  /\ host_fd_poll = [t \in Transfers |-> "OFF"]
  /\ num_parallel_connections = [t \in Transfers |-> 0]
  /\ host_sock = [t \in Transfers |-> NoSocket]
  /\ agent_sock = [t \in Transfers |-> [k \in Slots |-> NoSocket]]
  /\ agent_fd_pool = {}
  /\ event_pool = {}
  /\ forked = {}
  /\ given_up = {}
  /\ messages = Transfers
  /\ hosts = ClientRole
  /\ incoming = [t \in AgentRole |-> Slots]
  /\ generation = [t \in Transfers |-> 0]
  /\ connected = {}
  /\ refused = {}
  /\ identified = {}
  /\ hungup = {}
  /\ reset = {}

-----------------------------------------------------------------------------
(* Mutant: the slots are counted from one.                                 *)
NewAgentSocksOffByOne(C) ==
  [t \in C |-> [k \in Slots |-> <<t, k + 1, generation[t] + 1>>]]

(* connect_agent_side for every client of C and connect_host_side for      *)
(* every client of H: new sockets, all registered; the ones that were      *)
(* there before are neither closed nor unregistered.                       *)
NewAgentSocks(C) ==
  [t \in C |-> [k \in Slots |-> <<t, k, generation[t] + 1>>]]
NewHostSocks(H) == [t \in H |-> <<t, HostSlot, generation[t] + 1>>]

Override(f, g) == [x \in DOMAIN f |-> IF x \in DOMAIN g THEN g[x] ELSE f[x]]

Matched == clients_hashes \intersect requests

(* get_controller_message, then the loop over the clients: every client    *)
(* that check_for_transfer_request matches is connected, whether or not it *)
(* was before.                                                             *)
ControllerMessage(t) ==
  LET found == clients_hashes \intersect (requests \union {t})
      C == found \intersect ClientRole
      H == found \intersect AgentRole
      socks == NewAgentSocks(C)
  IN  /\ pc = "wait"
      /\ t \in messages
      /\ Overlap \/ Matched = {}
      /\ messages' = messages \ {t}
      /\ requests' = requests \union {t}
      /\ agent_sock' = Override(agent_sock, socks)
      /\ host_sock' = Override(host_sock, NewHostSocks(H))
      /\ num_parallel_connections' = Override(num_parallel_connections, [c \in C |-> 0])
      /\ host_fd_poll' = Override(host_fd_poll, [c \in H |-> "OFF"])
      /\ generation' = [c \in Transfers |-> IF c \in found THEN generation[c] + 1
                                            ELSE generation[c]]
      /\ event_pool' = event_pool \union {socks[c][k] : c \in C, k \in Slots}
                                  \union {NewHostSocks(H)[c] : c \in H}
      /\ pc' = "scan"
      /\ UNCHANGED <<busy, clients_hashes, agent_fd_pool, child_vars, kernel_vars>>

(* handle_host_side_connect: accept the host, and connect to the remote    *)
(* agent when the request is there.  The accepted socket is writable.      *)
HostSideConnect(t) ==
  LET s == <<t, HostSlot, 0>>
      known == t \in requests
      socks == NewAgentSocks({t})
  IN  /\ pc = "wait"
      /\ t \in hosts
      /\ hosts' = hosts \ {t}
      /\ clients_hashes' = clients_hashes \union {t}
      /\ host_sock' = [host_sock EXCEPT ![t] = s]
      /\ host_fd_poll' = [host_fd_poll EXCEPT ![t] = "OFF"]
      /\ connected' = connected \union {s}
      /\ agent_sock' = IF known THEN Override(agent_sock, socks) ELSE agent_sock
      /\ generation' = IF known THEN [generation EXCEPT ![t] = @ + 1] ELSE generation
      /\ event_pool' = event_pool \union {s}
                         \union (IF known THEN {socks[t][k] : k \in Slots} ELSE {})
      /\ pc' = "scan"
      /\ UNCHANGED <<busy, requests, num_parallel_connections, agent_fd_pool, child_vars,
                     messages, incoming, refused, identified, hungup, reset>>

(* accept_agent_side, for the k-th connection of the remote agent.         *)
AcceptAgentSide(t, k) ==
  LET s == <<t, k, 0>>
  IN  /\ pc = "wait"
      /\ k \in incoming[t]
      /\ incoming' = [incoming EXCEPT ![t] = @ \ {k}]
      /\ agent_fd_pool' = agent_fd_pool \union {s}
      /\ event_pool' = event_pool \union {s}
      /\ connected' = connected \union {s}
      /\ pc' = "scan"
      /\ UNCHANGED <<busy, requests, client_vars, child_vars, messages, hosts, refused,
                     identified, hungup, reset>>

(* A socket whose connect has ended is reported.  The event names a client *)
(* and a slot, and what the handler looks at is the socket now in it.      *)
Ready(s) == pc = "wait" /\ s \in event_pool /\ s \in connected \union refused

(* SO_ERROR is 0, also while the connect is in progress.                   *)
Succeeded(s) == s \notin refused \union reset

(* handle_host_connected.                                                  *)
HostConnected(s) ==
  LET t == s[1]
      cur == host_sock[t]
  IN  /\ Ready(s)
      /\ s[2] = HostSlot
      /\ host_fd_poll' = [host_fd_poll EXCEPT ![t] = IF Succeeded(cur) THEN "IN" ELSE "OFF"]
      /\ IF cur \in event_pool
         THEN pc' = "scan" /\ event_pool' = event_pool \ {cur}
         ELSE pc' = "epoll_ctl" /\ UNCHANGED event_pool
      /\ UNCHANGED <<busy, requests, clients_hashes, num_parallel_connections, host_sock,
                     agent_sock, generation, agent_fd_pool, child_vars, messages, kernel_vars>>

(* agent_connected_event up to send_uuid.  agent_side_event_info is freed  *)
(* with the client.                                                        *)
AgentConnected(s) ==
  LET t == s[1]
      cur == agent_sock[t][s[2]]
      live == t \in clients_hashes
  IN  /\ Ready(s)
      /\ s[2] # HostSlot
      /\ s \notin agent_fd_pool
      /\ IF ~live
         THEN pc' = "use_after_free" /\ UNCHANGED <<busy, num_parallel_connections, event_pool>>
         ELSE IF ~Succeeded(cur)
         THEN /\ IF cur \in event_pool
                 THEN pc' = "scan" /\ event_pool' = event_pool \ {cur}
                 ELSE pc' = "epoll_ctl" /\ UNCHANGED event_pool
              /\ UNCHANGED <<busy, num_parallel_connections>>
         ELSE /\ num_parallel_connections' = [num_parallel_connections EXCEPT ![t] = @ + 1]
              /\ pc' = "send_uuid"
              /\ busy' = cur
              /\ UNCHANGED event_pool
      /\ UNCHANGED <<requests, clients_hashes, host_fd_poll, host_sock, agent_sock,
                     generation, agent_fd_pool, child_vars, messages, kernel_vars>>

(* send_uuid spins on EAGAIN until the socket is connected; then the event *)
(* is unregistered.  Any other error of send ends the daemon.              *)
SendUuid ==
  /\ pc = "send_uuid"
  /\ busy \in connected \union refused
  /\ IF busy \in refused \union reset
     THEN pc' = "send_error" /\ UNCHANGED <<event_pool, identified>>
     ELSE /\ identified' = identified \union {busy}
          /\ IF busy \in event_pool
             THEN pc' = "scan" /\ event_pool' = event_pool \ {busy}
             ELSE pc' = "epoll_ctl" /\ UNCHANGED event_pool
  /\ busy' = NoSocket
  /\ UNCHANGED <<requests, client_vars, agent_fd_pool, child_vars, messages, hosts, incoming,
                 connected, refused, hungup, reset>>

(* AGENT_CONNECTED_UUID: the socket is polled for output, so this runs as  *)
(* soon as it is accepted, and get_uuid spins until the uuid is there.     *)
GetUuid(s) ==
  /\ Ready(s)
  /\ s \in agent_fd_pool
  /\ pc' = "get_uuid"
  /\ busy' = s
  /\ UNCHANGED <<requests, client_vars, agent_fd_pool, event_pool, child_vars, messages,
                 kernel_vars>>

(* Mutants: the counter is advanced before it is used; a new connection    *)
(* replaces the first one.                                                 *)
NextSlotAdvanced(t) == IF t \in clients_hashes THEN num_parallel_connections[t] + 1 ELSE 1
NextSlotFirst(t) == 0

(* The slot a connection of the remote agent gets.                         *)
NextSlot(t) == IF t \in clients_hashes THEN num_parallel_connections[t] ELSE 0

(* Mutant: the host is connected for every connection of the remote agent. *)
ConnectsHostAgain(t) == t \in requests

(* The first connection of a transfer connects the host, if its request is *)
(* there.                                                                  *)
ConnectsHost(t) == t \notin clients_hashes /\ t \in requests

(* get_uuid_and_confirm_client once the uuid is there.                     *)
ConfirmClient ==
  LET t == busy[1]
      first == t \notin clients_hashes
      n == NextSlot(t)
      connect == ConnectsHost(t)
      new == <<t, HostSlot, generation[t] + 1>>
  IN  /\ pc = "get_uuid"
      /\ busy \in identified
      /\ clients_hashes' = clients_hashes \union {t}
      /\ agent_sock' = [agent_sock EXCEPT ![t] =
           [k \in Slots |-> IF k = n THEN busy ELSE IF first THEN NoSocket ELSE @[k]]]
      /\ num_parallel_connections' = [num_parallel_connections EXCEPT ![t] = n + 1]
      /\ host_sock' = IF connect THEN [host_sock EXCEPT ![t] = new]
                      ELSE IF first THEN [host_sock EXCEPT ![t] = NoSocket] ELSE host_sock
      /\ host_fd_poll' = IF first THEN [host_fd_poll EXCEPT ![t] = "OFF"] ELSE host_fd_poll
      /\ generation' = IF connect THEN [generation EXCEPT ![t] = @ + 1] ELSE generation
      /\ event_pool' = (IF connect THEN event_pool \union {new} ELSE event_pool) \ {busy}
      /\ agent_fd_pool' = agent_fd_pool \ {busy}
      /\ busy' = NoSocket
      /\ pc' = "scan"
      /\ UNCHANGED <<requests, child_vars, messages, kernel_vars>>

(* recv fails with another error than EAGAIN: the peer has reset the       *)
(* connection before its uuid came.  get_uuid ends the daemon.             *)
GetUuidFails ==
  /\ pc = "get_uuid"
  /\ busy \in reset \ identified
  /\ pc' = "recv_error"
  /\ busy' = NoSocket
  /\ UNCHANGED <<requests, client_vars, agent_fd_pool, event_pool, child_vars, messages,
                 kernel_vars>>

-----------------------------------------------------------------------------
(* Mutant: the host need not be connected.                                 *)
CompleteWithoutHost(t) == t \in requests /\ num_parallel_connections[t] = Connections

(* A client as the scan wants it: the counter has reached the number of    *)
(* connections of the request, and the host is connected.                  *)
Complete(t) ==
  /\ t \in requests
  /\ num_parallel_connections[t] = Connections
  /\ host_fd_poll[t] = "IN"

(* close_all_data_sockets: the host socket and the first num sockets.      *)
Closed(t) == {host_sock[t]} \union
  {agent_sock[t][k] : k \in {j \in Slots : j < num_parallel_connections[t]}}

(* Mutant: the client stays in the table.                                  *)
RemainingAll(t) == clients_hashes

Remaining(t) == clients_hashes \ {t}

(* The scan finds a client older than TIMEOUT.  A complete one is given to *)
(* a child; in either case the parent closes its sockets and frees it.     *)
Expire(t) ==
  /\ pc = "scan"
  /\ t \in clients_hashes
  /\ MayExpire \/ Complete(t)
  /\ requests' = requests \ {t}
  /\ forked' = IF Complete(t) THEN forked \union {<<t, host_sock[t], agent_sock[t]>>} ELSE forked
  /\ given_up' = IF Complete(t) THEN given_up ELSE given_up \union {t}
  /\ clients_hashes' = Remaining(t)
  /\ event_pool' = event_pool \ Closed(t)
  /\ UNCHANGED <<pc, busy, host_fd_poll, num_parallel_connections, host_sock, agent_sock,
                 generation, agent_fd_pool, messages, kernel_vars>>

(* The scan is over: epoll_wait.                                           *)
ScanEnds ==
  /\ pc = "scan"
  /\ pc' = "wait"
  /\ UNCHANGED <<busy, requests, client_vars, agent_fd_pool, event_pool, child_vars, messages,
                 kernel_vars>>

(* epoll_wait times out after a second: the clients are scanned again.     *)
Timeout ==
  /\ pc = "wait"
  /\ pc' = "scan"
  /\ UNCHANGED <<busy, requests, client_vars, agent_fd_pool, event_pool, child_vars, messages,
                 kernel_vars>>

-----------------------------------------------------------------------------
(* The kernel and the peers.                                               *)

Opened == {s \in event_pool : s \notin connected \union refused}
            \union {agent_sock[t][k] : t \in Matched \intersect ClientRole, k \in Slots}

(* A connect ends.                                                         *)
ConnectEnds(s) ==
  /\ pc \in Running
  /\ s \in Opened \ (connected \union refused \union {NoSocket})
  /\ \/ connected' = connected \union {s} /\ UNCHANGED refused
     \/ MayFail /\ refused' = refused \union {s} /\ UNCHANGED connected
  /\ UNCHANGED <<pc, busy, requests, client_vars, agent_fd_pool, event_pool, child_vars,
                 messages, hosts, incoming, identified, hungup, reset>>

(* The uuid arrives on a socket the remote agent connected.                *)
UuidArrives(s) ==
  /\ pc \in Running
  /\ s \in agent_fd_pool \ (identified \union hungup \union reset)
  /\ identified' = identified \union {s}
  /\ UNCHANGED <<pc, busy, requests, client_vars, agent_fd_pool, event_pool, child_vars,
                 messages, hosts, incoming, connected, refused, hungup, reset>>

(* The remote agent closes such a socket instead.  recv then returns 0 and *)
(* get_uuid, which adds that to what it has, goes on for ever.             *)
HangsUp(s) ==
  /\ pc \in Running
  /\ MayHangUp
  /\ s \in agent_fd_pool \ (identified \union hungup \union reset)
  /\ hungup' = hungup \union {s}
  /\ UNCHANGED <<pc, busy, requests, client_vars, agent_fd_pool, event_pool, child_vars,
                 messages, hosts, incoming, connected, refused, identified, reset>>

(* A peer resets a connection that the daemon has not taken out of its     *)
(* event pool.  What had arrived can still be read, and after a close      *)
(* nothing more comes.                                                     *)
Resets(s) ==
  /\ pc \in Running
  /\ MayReset
  /\ s \in connected \ (reset \union hungup)
  /\ reset' = reset \union {s}
  /\ UNCHANGED <<pc, busy, requests, client_vars, agent_fd_pool, event_pool, child_vars,
                 messages, hosts, incoming, connected, refused, identified, hungup>>

(* A daemon that has ended stays as it is.                                 *)
Ended == pc \in Fatal /\ UNCHANGED vars

Handler ==
  \/ \E t \in Transfers : ControllerMessage(t)
  \/ \E t \in ClientRole : HostSideConnect(t)
  \/ \E t \in AgentRole, k \in Slots : AcceptAgentSide(t, k)
  \/ \E s \in event_pool : HostConnected(s) \/ AgentConnected(s) \/ GetUuid(s)
  \/ SendUuid
  \/ ConfirmClient
  \/ GetUuidFails

Environment == (\E s \in Opened : ConnectEnds(s)) \/ (\E s \in agent_fd_pool : UuidArrives(s))

Next ==
  \/ Handler \/ (\E t \in Transfers : Expire(t)) \/ ScanEnds \/ Timeout
  \/ Environment \/ (\E s \in agent_fd_pool : HangsUp(s))
  \/ (\E s \in event_pool : Resets(s)) \/ Ended

Spec == Init /\ [][Next]_vars

(* The daemon keeps running and meets every event; a complete client is    *)
(* expired by its handler (accept_start -= TIMEOUT), so the scan takes it; *)
(* connects end and the remote agent sends its uuids.                      *)
Fairness ==
  /\ WF_vars(ScanEnds)
  /\ WF_vars(Timeout)
  /\ WF_vars(SendUuid)
  /\ WF_vars(ConfirmClient)
  /\ WF_vars(Environment)
  /\ \A t \in Transfers : SF_vars(Complete(t) /\ Expire(t)) /\ SF_vars(ControllerMessage(t))
  /\ \A t \in ClientRole : SF_vars(HostSideConnect(t))
  /\ \A t \in AgentRole, k \in Slots : SF_vars(AcceptAgentSide(t, k))
  /\ SF_vars(\E s \in event_pool : HostConnected(s) \/ AgentConnected(s) \/ GetUuid(s))

FairSpec == Spec /\ Fairness

-----------------------------------------------------------------------------
(* A child gets what its transfer was promised: the host and all parallel  *)
(* connections, connected, identified to the remote agent and distinct     *)
(* (poll.c:91-129 decides by a counter that three handlers advance).       *)
ForkedComplete ==
  \A c \in forked :
    /\ c[2] \in connected
    /\ \A k \in Slots : c[3][k] \in connected \intersect identified
    /\ \A j, k \in Slots : c[3][j] = c[3][k] => j = k

(* num_parallel_connections counts the slots that are connected and        *)
(* identified, while the client is being set up (network.c:727-758,        *)
(* 772-803).                                                               *)
CounterIsExact ==
  pc \in {"scan", "wait"} => \A t \in clients_hashes :
    num_parallel_connections[t] =
      Cardinality({k \in Slots : agent_sock[t][k] \in connected \intersect identified})

(* A transfer is forked at most once, and no socket belongs to a child and *)
(* to a client of the daemon (poll.c:104-128).                             *)
HandedOverOnce ==
  /\ \A c, d \in forked : c[1] = d[1] => c = d
  /\ \A c \in forked, t \in clients_hashes, j, k \in Slots : c[3][j] # agent_sock[t][k]

(* No connect was refused, no connection reset and no client given up.     *)
Unharmed == refused = {} /\ reset = {} /\ given_up = {}

(* As long as that is so no handler fails: no event is left registered for *)
(* a socket that a client has replaced or for a client that was freed, in  *)
(* whatever order the events come (network.c:542-803).  A reset may end    *)
(* the daemon (679-685, 701-706).                                          *)
NoFatalExit == Unharmed => pc \notin Fatal

(* poll.c:147-151: on a controller message "we should check if there are   *)
(* sockets that where waiting on this message": the other clients are left *)
(* alone.                                                                  *)
OnlyWaitingClients ==
  [][\A t \in Matched : (requests' # requests /\ t \in requests' /\ t \in clients_hashes')
       => agent_sock'[t] = agent_sock[t] /\ host_sock'[t] = host_sock[t]]_vars

(* Every transfer of the controller is handed to a child, in whatever      *)
(* order its request, its host and its connections come, unless something  *)
(* fails (poll.c:75-212).                                                  *)
SetUp ==
  <>(~Unharmed \/ hungup # {} \/ \A t \in Transfers : \E c \in forked : c[1] = t)

(* network.c:501-503 says of an accepted connection: "accept then add to   *)
(* agent->event_pool and wait for uuid".  A daemon that waits in its event *)
(* pool comes back to epoll_wait again and again, for the other transfers. *)
WaitsInEventPool == []<>(pc = "wait")
==============================================================================
