--------------------------- MODULE MCDataTransfer ---------------------------
(***************************************************************************)
(* DataTransfer on small instances: two agent sockets, packets of one or   *)
(* two units of header, one of number and one or two of payload.  What is  *)
(* sent depends on what else happens: much in one direction, less in       *)
(* both, little when the peers fail.                                       *)
(***************************************************************************)
EXTENDS DataTransfer, TLC

CONSTANTS a, b, h

OneAgent == {a}
TwoAgents == {a, b}
NoSocket == {}
HostOnly == {h}
AllSockets == {a, b, h}
Symmetry == Permutations(TwoAgents)

(* Chunks that the host has written.                                       *)
Written == send_seq + host_in

AgentsOpen == \A i \in Agents : peer[i] = "open"

(* InPackets one way, until the remote agent closes; OutChunks the other,  *)
(* until the host does.                                                    *)
InwardOnly == Written = 0 /\ host = "open" /\ Unharmed
OutwardOnly == in_seq = 0 /\ host \in {"open", "fin"} /\ AgentsOpen

(* Both ways, while nobody closes.                                         *)
BothWays ==
  /\ host = "open" /\ AgentsOpen
  /\ in_seq + Written <= 3

(* One packet and one chunk, and anything may fail.                        *)
Faulty == in_seq <= 1 /\ Written <= 1

(* One packet and two chunks, one of which may block, and the peers close. *)
Closing == in_seq <= 1 /\ Written <= 2 /\ Unharmed

Load == InwardOnly \/ OutwardOnly \/ BothWays \/ Faulty \/ Closing

(* One direction in a behaviour, whichever; the receiver may close.        *)
OneWay == InwardOnly \/ OutwardOnly
OneWaySpec == Init /\ [][Next /\ OneWay']_vars /\ Fairness
==============================================================================
