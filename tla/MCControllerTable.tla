-------------------------- MODULE MCControllerTable --------------------------
(***************************************************************************)
(* ControllerTable on a small instance: two CLIENT transfers of one host,  *)
(* in turn, one of another host and an AGENT transfer.                     *)
(***************************************************************************)
EXTENDS ControllerTable

CONSTANTS c1, c2, c3, a1, host1, host2

Transfers == {c1, c2, c3, a1}
Types == [t \in Uuids |-> IF t = a1 THEN "AGENT" ELSE "CLIENT"]
Sources == [t \in Uuids |-> CASE t \in {c1, c2} -> host1 [] t = c3 -> host2 [] OTHER -> None]
CopiesOf == [t \in Uuids |-> IF t = c1 THEN 2 ELSE 1]
ArrivalsOf == [t \in Uuids |-> IF t = a1 THEN 2 ELSE 1]
Expiring == {c1, a1}
=============================================================================
