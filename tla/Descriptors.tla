---------------------------- MODULE Descriptors ----------------------------
(***************************************************************************)
(* Which process holds which socket.  The daemon opens the listening       *)
(* sockets and those of every transfer; fork gives a child a copy of each  *)
(* descriptor that is open at that moment, and a connection ends for its   *)
(* peer only when the last copy is closed.  The daemon may end, by one of  *)
(* its many exits, and be started again while children of the first one    *)
(* run.                                                                    *)
(*                                                                         *)
(* How the sockets of a transfer come to be opened, and what a child does  *)
(* with its own, is the matter of Setup and DataTransfer.                  *)
(***************************************************************************)
EXTENDS Integers, FiniteSets

CONSTANTS
  Transfers,
  Daemon,      \* the process of poll_loop; a child is named by its transfer
  Connections, \* num_parallel_connections, of the daemon and of each transfer
  Overlap,     \* a transfer is set up while another one is
  MayExpire    \* a transfer may reach TIMEOUT before it is complete

ASSUME DescriptorsAssumption ==
  /\ Daemon \notin Transfers
  /\ Transfers \intersect {"listen", "controller"} = {}
  /\ Connections \in Nat \ {0}
  /\ {Overlap, MayExpire} \subseteq BOOLEAN

Procs == Transfers \union {Daemon}
Slots == 0 .. Connections - 1
HostSlot == -1

(* host_listen_sock and the agent_listen_sock of every port.               *)
Listeners == {<<"listen", k>> : k \in Slots \union {HostSlot}}
ControllerSock == <<"controller", HostSlot>>
SocketsOf(t) == {<<t, k>> : k \in Slots \union {HostSlot}}

VARIABLES
  holds,   \* the sockets each process has open
  phase    \* of a transfer: waiting, setup, running, closed or expired

vars == <<holds, phase>>

TypeOK ==
  /\ holds \in [Procs -> SUBSET (Listeners \union {ControllerSock}
                                  \union UNION {SocketsOf(t) : t \in Transfers})]
  /\ phase \in [Transfers -> {"waiting", "setup", "running", "closed", "expired"}]

Up == holds[Daemon] # {}

(* create_listen_sockets and init_controller_listener.                     *)
StartSockets == Listeners \union {ControllerSock}

Init ==
  /\ holds = [p \in Procs |-> IF p = Daemon THEN StartSockets ELSE {}]
  /\ phase = [t \in Transfers |-> "waiting"]

(* A connection is accepted or opened for transfer t.                      *)
Open(t, s) ==
  /\ Up
  /\ phase[t] \in {"waiting", "setup"}
  /\ Overlap \/ \A u \in Transfers \ {t} : phase[u] # "setup"
  /\ s \in SocketsOf(t) \ holds[Daemon]
  /\ holds' = [holds EXCEPT ![Daemon] = @ \union {s}]
  /\ phase' = [phase EXCEPT ![t] = "setup"]

(* Mutant: the parent keeps the parallel connections.                      *)
CloseHostSocket(t, n) == {<<t, HostSlot>>}

(* close_listener_sockets, in the child.                                   *)
CloseListenerSockets == Listeners

(* close_all_data_sockets, in the parent: the host socket and the first n. *)
CloseAllDataSockets(t, n) == {<<t, HostSlot>>} \union {<<t, k>> : k \in 0 .. n - 1}

(* A complete transfer is given to a child.                                *)
Fork(t) ==
  /\ Up
  /\ phase[t] = "setup"
  /\ SocketsOf(t) \subseteq holds[Daemon]
  /\ holds' = [holds EXCEPT ![t] = holds[Daemon] \ CloseListenerSockets,
                            ![Daemon] = @ \ CloseAllDataSockets(t, Connections)]
  /\ phase' = [phase EXCEPT ![t] = "running"]

(* One that is not, n of whose connections were made, is given up.         *)
Expire(t, n) ==
  /\ MayExpire
  /\ Up
  /\ phase[t] = "setup"
  /\ holds' = [holds EXCEPT ![Daemon] = @ \ CloseAllDataSockets(t, n)]
  /\ phase' = [phase EXCEPT ![t] = "expired"]

(* The child has closed its sockets, prints "Everything has been closed!"  *)
(* and exits.                                                              *)
Closes(t) ==
  /\ phase[t] = "running"
  /\ holds' = [holds EXCEPT ![t] = {}]
  /\ phase' = [phase EXCEPT ![t] = "closed"]

(* The daemon exits.                                                       *)
Dies ==
  /\ Up
  /\ holds' = [holds EXCEPT ![Daemon] = {}]
  /\ UNCHANGED phase

(* It is started again.  The port of the controller is bound by whoever    *)
(* holds a copy of controller.sock, and those of the listening sockets,    *)
(* which get SO_REUSEADDR only after bind, by the connections of a child:  *)
(* until they are closed bind fails and the new daemon exits at once.      *)
Bindable == \A t \in Transfers : holds[t] = {}

Restart ==
  /\ ~Up
  /\ Bindable
  /\ holds' = [holds EXCEPT ![Daemon] = StartSockets]
  /\ phase' = [t \in Transfers |-> IF phase[t] = "setup" THEN "expired" ELSE phase[t]]

Next ==
  \/ Dies \/ Restart
  \/ \E t \in Transfers :
       \/ Fork(t) \/ Closes(t)
       \/ \E s \in SocketsOf(t) : Open(t, s)
       \/ \E n \in 0 .. Connections - 1 : Expire(t, n)

Spec == Init /\ [][Next]_vars

-----------------------------------------------------------------------------
(* poll.c:410: "Everything has been closed!".  When the child of a         *)
(* transfer has ended, no process holds one of its sockets any more, and   *)
(* the host and the remote agent see the end.                              *)
EverythingClosed ==
  \A t \in Transfers : phase[t] = "closed" =>
    \A p \in Procs : holds[p] \intersect SocketsOf(t) = {}
=============================================================================
