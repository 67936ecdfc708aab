------------------------------ MODULE MCTunnel ------------------------------
(***************************************************************************)
(* Tunnel on small instances: OutChunks chunks from the West host, or one  *)
(* chunk in each direction.                                                *)
(***************************************************************************)
EXTENDS Tunnel, TLC

CONSTANTS a, b, h

OneAgent == {a}
TwoAgents == {a, b}
NoSocket == {}
HostOnly == {h}
AllSockets == {a, b, h}
Symmetry == Permutations(TwoAgents)

(* Until the West host closes and all ends; both ways, while nobody does.  *)
BothWays ==
  /\ host = "open" /\ e_host = "open"
  /\ send_seq + host_in <= 1 /\ e_send_seq + e_host_in <= 1
Load == Eastward \/ BothWays
=============================================================================
