---------------------------- MODULE OrderedStream ----------------------------
(***************************************************************************)
(* What a transfer promises in one direction: a byte stream.  Units are    *)
(* numbered as they are written, and are read once each and in order.      *)
(***************************************************************************)
EXTENDS Integers, Sequences

VARIABLES
  sent,   \* units written so far
  got     \* the numbers of the units read so far

Init == sent = 0 /\ got = <<>>

Write == sent' \in Nat /\ sent' > sent /\ UNCHANGED got

(* Any number of the units that follow are read.                           *)
Read ==
  /\ \E n \in 1 .. sent - Len(got) :
       got' = got \o [k \in 1 .. n |-> Len(got) + k - 1]
  /\ UNCHANGED sent

Spec == Init /\ [][Write \/ Read]_<<sent, got>>
==============================================================================
