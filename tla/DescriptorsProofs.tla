-------------------------- MODULE DescriptorsProofs --------------------------
(***************************************************************************)
(* Descriptors, for any number of transfers and connections: when these    *)
(* are set up one at a time, nobody keeps a socket of a transfer that has  *)
(* ended.  Run Inherited shows that this needs its assumption.             *)
(***************************************************************************)
EXTENDS Descriptors, TLAPS

(* Every variable holds what its declaration allows; the daemon's steps    *)
(* and the children's close and copy only sockets there are.               *)
THEOREM TypeCorrect == Spec => []TypeOK
<1> USE DEF TypeOK, Procs
<1>1. Init => TypeOK
  BY DEF Init, StartSockets
<1>2. TypeOK /\ [Next]_vars => TypeOK'
  <2> SUFFICES ASSUME TypeOK, [Next]_vars PROVE TypeOK'
    OBVIOUS
  <2>1. ASSUME NEW t \in Transfers, Fork(t) PROVE TypeOK'
    BY <2>1 DEF Fork
  <2>2. ASSUME NEW t \in Transfers, Closes(t) PROVE TypeOK'
    BY <2>2 DEF Closes
  <2>3. ASSUME NEW t \in Transfers, NEW s \in SocketsOf(t), Open(t, s) PROVE TypeOK'
    BY <2>3 DEF Open
  <2>4. ASSUME NEW t \in Transfers, NEW n \in 0 .. Connections - 1, Expire(t, n) PROVE TypeOK'
    BY <2>4 DEF Expire
  <2>5. CASE Dies
    BY <2>5 DEF Dies
  <2>6. CASE Restart
    BY <2>6 DEF Restart, StartSockets
  <2>7. CASE UNCHANGED vars
    BY <2>7 DEF vars
  <2> QED
    BY <2>1, <2>2, <2>3, <2>4, <2>5, <2>6, <2>7 DEF Next
<1> QED
  BY <1>1, <1>2, PTL DEF Spec

-----------------------------------------------------------------------------
(* The parent closes what the child of a complete transfer has inherited.  *)
LEMMA ParentClosesAll ==
  ASSUME NEW t \in Transfers
  PROVE  CloseAllDataSockets(t, Connections) = SocketsOf(t)
BY DEF CloseAllDataSockets, SocketsOf, Slots, HostSlot

(* A socket belongs to one transfer.                                       *)
LEMMA OwnSockets ==
  ASSUME NEW t \in Transfers, NEW u \in Transfers, t # u
  PROVE  SocketsOf(t) \intersect SocketsOf(u) = {}
BY DEF SocketsOf

(* The listening sockets and the controller's belong to none.              *)
LEMMA NotListening ==
  ASSUME NEW t \in Transfers
  PROVE  SocketsOf(t) \intersect (Listeners \union {ControllerSock}) = {}
BY DescriptorsAssumption DEF SocketsOf, Listeners, ControllerSock

(* Of a transfer that is not being set up, and has not been given up, the  *)
(* daemon holds no socket.                                                 *)
DaemonIsClean ==
  \A t \in Transfers : phase[t] \in {"waiting", "running", "closed"} =>
    holds[Daemon] \intersect SocketsOf(t) = {}

OneAtATime ==
  \A t, u \in Transfers : phase[t] = "setup" /\ phase[u] = "setup" => t = u

(* A child holds sockets of its own transfer only, or of one that was      *)
(* given up.                                                               *)
ChildrenAreApart ==
  \A t, u \in Transfers : t # u /\ phase[u] # "expired" => holds[t] \intersect SocketsOf(u) = {}

EndedHoldNothing == \A t \in Transfers : phase[t] = "closed" => holds[t] = {}

IInv == TypeOK /\ DaemonIsClean /\ OneAtATime /\ ChildrenAreApart /\ EndedHoldNothing

(* A daemon that has just started.                                         *)
LEMMA InitIInv == Init => IInv
<1> SUFFICES ASSUME Init PROVE IInv
  OBVIOUS
<1>1. TypeOK
  BY DEF Init, StartSockets, TypeOK, Procs
<1>2. DaemonIsClean
  BY NotListening DEF Init, StartSockets, DaemonIsClean, Procs
<1>3. OneAtATime
  BY DEF Init, OneAtATime
<1>4. ChildrenAreApart /\ EndedHoldNothing
  BY DescriptorsAssumption DEF Init, ChildrenAreApart, EndedHoldNothing, Procs
<1> QED
  BY <1>1, <1>2, <1>3, <1>4 DEF IInv

(* A fork: the child has what the daemon had, less the listeners.          *)
LEMMA ForkKeepsIInv ==
  ASSUME IInv, TypeOK', NEW t \in Transfers, Fork(t)
  PROVE  IInv'
<1> USE DescriptorsAssumption DEF Fork, TypeOK, Procs
<1>1. holds'[Daemon] = holds[Daemon] \ SocketsOf(t)
  BY ParentClosesAll DEF IInv
<1>2. holds'[t] \subseteq holds[Daemon]
  BY DEF IInv
<1>3. \A u \in Transfers \ {t} : holds'[u] = holds[u] /\ phase'[u] = phase[u]
  BY DEF IInv
<1>4. phase'[t] = "running"
  BY DEF IInv
<1>5. DaemonIsClean'
  BY <1>1, <1>3, <1>4 DEF IInv, DaemonIsClean
<1>6. OneAtATime'
  BY <1>3, <1>4 DEF IInv, OneAtATime
<1>7. ChildrenAreApart'
  <2> SUFFICES ASSUME NEW c \in Transfers, NEW u \in Transfers, c # u, phase'[u] # "expired"
               PROVE  holds'[c] \intersect SocketsOf(u) = {}
    BY DEF ChildrenAreApart
  <2>1. CASE c = t
    <3>1. phase[u] \in {"waiting", "running", "closed"}
      BY <2>1, <1>3 DEF IInv, OneAtATime
    <3> QED
      BY <3>1, <2>1, <1>2 DEF IInv, DaemonIsClean
  <2>2. CASE c # t
    BY <2>2, <1>3 DEF IInv, ChildrenAreApart
  <2> QED
    BY <2>1, <2>2
<1>8. EndedHoldNothing'
  BY <1>3, <1>4 DEF IInv, EndedHoldNothing
<1> QED
  BY <1>5, <1>6, <1>7, <1>8 DEF IInv

(* A socket is opened for the transfer that is being set up.               *)
LEMMA OpenKeepsIInv ==
  ASSUME ~Overlap, IInv, TypeOK', NEW t \in Transfers, NEW s \in SocketsOf(t), Open(t, s)
  PROVE  IInv'
<1> USE DescriptorsAssumption DEF Open, TypeOK, Procs
<1>1. holds'[Daemon] = holds[Daemon] \union {s} /\ phase'[t] = "setup"
  BY DEF IInv
<1>2. \A u \in Transfers : holds'[u] = holds[u]
  BY DEF IInv
<1>3. \A u \in Transfers \ {t} : phase'[u] = phase[u] /\ phase[u] # "setup"
  BY DEF IInv
<1>4. DaemonIsClean'
  <2> SUFFICES ASSUME NEW u \in Transfers, phase'[u] \in {"waiting", "running", "closed"}
               PROVE  holds'[Daemon] \intersect SocketsOf(u) = {}
    BY DEF DaemonIsClean
  <2>1. u # t
    BY <1>1
  <2> QED
    BY <2>1, <1>1, <1>3, OwnSockets DEF IInv, DaemonIsClean
<1>5. OneAtATime'
  BY <1>1, <1>3 DEF OneAtATime
<1>6. ChildrenAreApart'
  BY <1>1, <1>2, <1>3 DEF IInv, ChildrenAreApart
<1>7. EndedHoldNothing'
  BY <1>1, <1>2, <1>3 DEF IInv, EndedHoldNothing
<1> QED
  BY <1>4, <1>5, <1>6, <1>7 DEF IInv

(* A child has closed its sockets and ends.                                *)
LEMMA ClosesKeepsIInv ==
  ASSUME IInv, TypeOK', NEW t \in Transfers, Closes(t)
  PROVE  IInv'
<1> USE DescriptorsAssumption DEF Closes, TypeOK, Procs
<1>1. DaemonIsClean' /\ OneAtATime'
  BY DEF IInv, DaemonIsClean, OneAtATime
<1>2. ChildrenAreApart'
  BY DEF IInv, ChildrenAreApart
<1>3. EndedHoldNothing'
  BY DEF IInv, EndedHoldNothing
<1> QED
  BY <1>1, <1>2, <1>3 DEF IInv

(* The daemon gives a client up.                                           *)
LEMMA ExpireKeepsIInv ==
  ASSUME IInv, TypeOK', NEW t \in Transfers, NEW n \in 0 .. Connections - 1, Expire(t, n)
  PROVE  IInv'
<1> USE DescriptorsAssumption DEF Expire, TypeOK, Procs
<1>1. DaemonIsClean' /\ OneAtATime'
  BY DEF IInv, DaemonIsClean, OneAtATime
<1>2. ChildrenAreApart' /\ EndedHoldNothing'
  BY DEF IInv, ChildrenAreApart, EndedHoldNothing
<1> QED
  BY <1>1, <1>2 DEF IInv

(* The daemon ends, with everything it held.                               *)
LEMMA DiesKeepsIInv ==
  ASSUME IInv, TypeOK', Dies
  PROVE  IInv'
<1> USE DescriptorsAssumption DEF Dies, TypeOK, Procs
<1>1. DaemonIsClean' /\ OneAtATime'
  BY DEF IInv, DaemonIsClean, OneAtATime
<1>2. ChildrenAreApart' /\ EndedHoldNothing'
  BY DEF IInv, ChildrenAreApart, EndedHoldNothing
<1> QED
  BY <1>1, <1>2 DEF IInv

(* The daemon is started again.                                            *)
LEMMA RestartKeepsIInv ==
  ASSUME IInv, TypeOK', Restart
  PROVE  IInv'
<1> USE DescriptorsAssumption DEF Restart, StartSockets, TypeOK, Procs
<1>1. DaemonIsClean' /\ OneAtATime'
  BY NotListening DEF IInv, DaemonIsClean, OneAtATime
<1>2. ChildrenAreApart' /\ EndedHoldNothing'
  BY DEF IInv, ChildrenAreApart, EndedHoldNothing, Bindable
<1> QED
  BY <1>1, <1>2 DEF IInv

(* "Everything has been closed!" (poll.c:410) is true when transfers are   *)
(* set up one at a time: when a child has ended no process holds one of    *)
(* its sockets, whatever was given up, and however often the daemon ended. *)
THEOREM ClosedForEveryone ==
  ASSUME ~Overlap
  PROVE  Spec => []EverythingClosed
<1>1. IInv /\ TypeOK' /\ [Next]_vars => IInv'
  <2> SUFFICES ASSUME IInv, TypeOK', [Next]_vars PROVE IInv'
    OBVIOUS
  <2>1. CASE UNCHANGED vars
    BY <2>1 DEF vars, IInv, TypeOK, DaemonIsClean, OneAtATime, ChildrenAreApart, EndedHoldNothing
  <2>2. CASE Next
    BY <2>2, ForkKeepsIInv, OpenKeepsIInv, ClosesKeepsIInv, ExpireKeepsIInv, DiesKeepsIInv,
           RestartKeepsIInv
       DEF Next
  <2> QED
    BY <2>1, <2>2
<1>2. IInv => EverythingClosed
  BY DEF IInv, EverythingClosed, DaemonIsClean, ChildrenAreApart, EndedHoldNothing, Procs
<1> QED
  BY <1>1, <1>2, InitIInv, TypeCorrect, PTL DEF Spec
=============================================================================
