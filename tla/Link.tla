-------------------------------- MODULE Link --------------------------------
(***************************************************************************)
(* One direction of the parallel connections between two transfer          *)
(* processes: TCP, as the sockets of the sender and of the receiver see    *)
(* it.  Units wait in the sender's buffer, then in the receiver's.  A      *)
(* socket that is closed with everything read sends what it still has and  *)
(* then ends the stream; one that is closed with data unread, or that data *)
(* reaches after it was closed, resets the connection, and what it had not *)
(* yet sent is lost.                                                       *)
(***************************************************************************)
EXTENDS Integers, Sequences

CONSTANTS Agents, SndBuf, RcvBuf

VARIABLES
  room,    \* room in the sender's buffer of socket i
  unread,  \* units the sender has received itself and not read
  shut,    \* sockets the sender has closed, by itself or by ending
  gone,    \* sockets the receiver has closed
  avail,   \* units in the receiver's buffer
  peer,    \* what the receiver knows of the sender's end
  back     \* room in the receiver's own buffer for sending

Carry(i) ==
  /\ room[i] < SndBuf
  /\ avail[i] < RcvBuf
  /\ peer[i] = "open"
  /\ i \notin gone
  /\ room' = [room EXCEPT ![i] = @ + 1]
  /\ avail' = [avail EXCEPT ![i] = @ + 1]
  /\ UNCHANGED peer

EndOfStream(i) ==
  /\ i \in shut \ gone
  /\ room[i] = SndBuf
  /\ unread[i] = 0
  /\ peer[i] = "open"
  /\ peer' = [peer EXCEPT ![i] = "fin"]
  /\ UNCHANGED <<room, avail>>

Reset(i) ==
  /\ i \in shut \ gone
  /\ unread[i] > 0 \/ back[i] < SndBuf
  /\ peer[i] \in {"open", "fin"}
  /\ peer' = [peer EXCEPT ![i] = IF @ = "open" THEN "rst" ELSE "pipe"]
  /\ UNCHANGED <<room, avail>>

Step == \E i \in Agents : Carry(i) \/ EndOfStream(i) \/ Reset(i)
=============================================================================
