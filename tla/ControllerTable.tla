--------------------------- MODULE ControllerTable ---------------------------
(***************************************************************************)
(* The table of the controller's requests and the clients that look        *)
(* themselves up in it.  A request comes as a datagram, once or more often,*)
(* before or after its client; a client is matched with the oldest request *)
(* that fits, by the address of the host or by the uuid; the scan looks    *)
(* the request up again, by its uuid, and unlinks it, whether it gives the *)
(* client to a child or gives it up.                                       *)
(*                                                                         *)
(* A request is named by its uuid and all of its copies are alike, so that *)
(* the table is a sequence of uuids in the order of arrival: uthash        *)
(* iterates in that order, and finds the newest of several equal keys.     *)
(* What happens between a match and its last handler is in Setup; here it  *)
(* is one step.  The first bytes of the uuids, which are the keys, differ. *)
(***************************************************************************)
EXTENDS Integers, SequencesExt

CONSTANTS
  Uuids,     \* the transfers
  type,      \* of a transfer: "CLIENT" or "AGENT"
  source,    \* of a CLIENT transfer: source_ip and source_port of its host
  Copies,    \* of a transfer: how often the network may deliver its request
  Arrivals,  \* of a transfer: how many clients it may have, one after another
  MayExpire, \* transfers with clients that may reach TIMEOUT before they are complete
  None       \* uuid of a client that has not been matched

ASSUME ControllerTableAssumption ==
  /\ type \in [Uuids -> {"CLIENT", "AGENT"}]
  /\ DOMAIN source = Uuids
  /\ Copies \in [Uuids -> Nat \ {0}]
  /\ Arrivals \in [Uuids -> Nat \ {0}]
  /\ \A t \in Uuids : type[t] = "CLIENT" => Arrivals[t] = 1
  /\ MayExpire \subseteq Uuids
  /\ None \notin Uuids

VARIABLES
  requests,  \* controller.requests
  clients,   \* clients_hashes: for each client the transfer it is for, the
             \* uuid it was matched with and whether all its sockets are there
  sent,      \* copies of a request that have arrived
  arrived,   \* clients of a transfer that have come
  forked,    \* for each child, its transfer, its uuid, and the request the scan found
  given_up,  \* clients of a transfer that were freed and not given to a child
  dropped    \* such clients, by the uuid they had been matched with

vars == <<requests, clients, sent, arrived, forked, given_up, dropped>>

Init ==
  /\ requests = <<>>
  /\ clients = <<>>
  /\ sent = [t \in Uuids |-> 0]
  /\ arrived = [t \in Uuids |-> 0]
  /\ forked = {}
  /\ given_up = [t \in Uuids |-> 0]
  /\ dropped = [t \in Uuids |-> 0]

-----------------------------------------------------------------------------
Begun(t) == arrived[t] > 0 \/ sent[t] > 0
HandedOver(t) == \E f \in forked : f.transfer = t
Over(t) == HandedOver(t) \/ given_up[t] > 0

(* Transfers of one host address.                                          *)
Rivals(t, u) == t # u /\ type[t] = "CLIENT" /\ type[u] = "CLIENT" /\ source[u] = source[t]

(* A host takes its address up again, and the controller tells of it, when *)
(* its earlier transfer is over.  Copies of the earlier request may still  *)
(* come.                                                                   *)
Turn(t) == Begun(t) \/ \A u \in Uuids : Rivals(t, u) /\ Begun(u) => Over(u)

(* Mutant: only the type is compared.                                      *)
FitsType(t, r) == type[r] = type[t]

(* Request r describes the client of transfer t: a CLIENT request names    *)
(* the address of the host, an AGENT request the uuid.                     *)
Fits(t, r) ==
  /\ type[r] = type[t]
  /\ type[r] = "CLIENT" => source[r] = source[t]
  /\ type[r] = "AGENT" => r = t

(* Mutant: the message that has come is the only one looked at.            *)
CheckLast(c, rs) ==
  IF rs # <<>> /\ Fits(c.transfer, Last(rs)) THEN [c EXCEPT !.uuid = Last(rs), !.ready = FALSE]
  ELSE c

(* check_for_transfer_request: the first that fits in the order of         *)
(* arrival.  A client that is found is connected, again if it was before.  *)
Check(c, rs) ==
  LET k == SelectInSeq(rs, LAMBDA r : Fits(c.transfer, r))
  IN  IF k = 0 THEN c ELSE [c EXCEPT !.uuid = rs[k], !.ready = FALSE]

(* get_controller_message, and the loop over the clients that follows.     *)
Receive(t) ==
  /\ sent[t] < Copies[t]
  /\ Turn(t)
  /\ sent' = [sent EXCEPT ![t] = @ + 1]
  /\ requests' = Append(requests, t)
  /\ clients' = [k \in DOMAIN clients |-> Check(clients[k], requests')]
  /\ UNCHANGED <<arrived, forked, given_up, dropped>>

(* handle_host_side_connect, and get_uuid_and_confirm_client for a         *)
(* connection whose transfer has no client: the first one, or the first    *)
(* after the client was given up.                                          *)
Arrive(t) ==
  /\ arrived[t] < Arrivals[t]
  /\ arrived[t] = given_up[t]
  /\ Turn(t)
  /\ arrived' = [arrived EXCEPT ![t] = @ + 1]
  /\ clients' = Append(clients, Check([transfer |-> t, uuid |-> None, ready |-> FALSE], requests))
  /\ UNCHANGED <<requests, sent, forked, given_up, dropped>>

(* The last handler of a client that was matched.  After an earlier client *)
(* was given up there are not enough connections left.                     *)
Connected(k) ==
  /\ clients[k].uuid # None
  /\ ~clients[k].ready
  /\ given_up[clients[k].transfer] = 0
  /\ clients' = [clients EXCEPT ![k].ready = TRUE]
  /\ UNCHANGED <<requests, sent, arrived, forked, given_up, dropped>>

(* Mutant: the request stays in the table, as in check_for_transfer_request.*)
UnlinkedNot(rs, k) == rs

(* HASH_DEL of the entry found.                                            *)
Unlinked(rs, k) == RemoveAt(rs, k)

(* Mutant: the newest request, whatever its uuid.                          *)
FoundNewest(rs, u) == Len(rs)

(* HASH_FIND_INT by the uuid of a client: the newest of several copies.    *)
Found(rs, u) == SelectLastInSeq(rs, LAMBDA r : r = u)

(* The scan finds a client that is complete or has reached TIMEOUT.  It    *)
(* unlinks the request, if there is one, and gives the client to a child   *)
(* if it is complete.  A client without a request is only freed.           *)
Scan(k) ==
  LET c == clients[k]
      r == Found(requests, c.uuid)
      fork == c.ready /\ r # 0
  IN  /\ c.ready \/ c.transfer \in MayExpire
      /\ requests' = IF r = 0 THEN requests ELSE Unlinked(requests, r)
      /\ clients' = RemoveAt(clients, k)
      /\ IF fork
         THEN /\ forked' = forked \union
                   {[transfer |-> c.transfer, uuid |-> c.uuid, request |-> requests[r]]}
              /\ UNCHANGED <<given_up, dropped>>
         ELSE /\ given_up' = [given_up EXCEPT ![c.transfer] = @ + 1]
              /\ dropped' = IF c.uuid = None THEN dropped
                            ELSE [dropped EXCEPT ![c.uuid] = @ + 1]
              /\ UNCHANGED forked
      /\ UNCHANGED <<sent, arrived>>

Next ==
  \/ \E t \in Uuids : Receive(t) \/ Arrive(t)
  \/ \E k \in DOMAIN clients : Connected(k) \/ Scan(k)

Spec == Init /\ [][Next]_vars

(* The controller sends each request, the peers come, connects end and the *)
(* scan runs.                                                              *)
FairSpec ==
  /\ Spec
  /\ \A t \in Uuids : WF_vars(Receive(t) /\ sent[t] = 0) /\ WF_vars(Arrive(t))
  /\ WF_vars(\E k \in DOMAIN clients : Connected(k) \/ (clients[k].ready /\ Scan(k)))

-----------------------------------------------------------------------------
(* A transfer that is over may have left a request in the table: a copy    *)
(* came twice, its client was freed before its request came, or was given  *)
(* to a child with the request of another.                                 *)
Leaves(u) ==
  \/ sent[u] > 1
  \/ given_up[u] > 0
  \/ \E g \in forked : g.transfer = u /\ g.uuid # u

(* A child relays the connection that the controller meant: its client was *)
(* matched with the request of its own transfer, and the request by whose  *)
(* numbers the scan decided is that one too, whatever else is in the       *)
(* table.  It takes another one only when an earlier transfer of the same  *)
(* host address has left it there (controller.c:145-180, poll.c:85-107).   *)
MatchedOwn ==
  \A f \in forked :
    /\ f.request = f.uuid
    /\ f.uuid # f.transfer => Rivals(f.transfer, f.uuid) /\ Over(f.uuid) /\ Leaves(f.uuid)

(* Every client that was matched and ends, by a child or given up, takes   *)
(* one copy out of the table, of the request it was matched with, and      *)
(* nothing else takes one out: no client finds its request gone            *)
(* (controller.c:136, 157-158; poll.c:85-104).                             *)
CopiesAccounted ==
  \A t \in Uuids :
    Cardinality({k \in DOMAIN requests : requests[k] = t})
      = sent[t] - Cardinality({f \in forked : f.uuid = t}) - dropped[t]

(* Every transfer is handed over, in whatever order the requests, their    *)
(* copies and the peers come, and when one address has several in turn,    *)
(* unless its client reaches TIMEOUT first (poll.c:75-173,                 *)
(* network.c:440-451).                                                     *)
Served == \A t \in Uuids : <>Over(t)
=============================================================================
