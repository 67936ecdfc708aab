----------------------------- MODULE MCHandshake -----------------------------
(***************************************************************************)
(* Handshake on small instances: one transfer in each direction.           *)
(***************************************************************************)
EXTENDS Handshake, TLC

CONSTANTS t1, t2

One == {t1}
Other == {t2}
=============================================================================
