------------------------------- MODULE MCSetup -------------------------------
(***************************************************************************)
(* Setup on small instances: at most two transfers of two connections.     *)
(***************************************************************************)
EXTENDS Setup, TLC

CONSTANTS t1, t2

One == {t1}
Other == {t2}
Both == {t1, t2}
None == {}
==============================================================================
