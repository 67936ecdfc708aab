# sos-agent, specified

`sos-agent` is a daemon that carries a TCP connection over several parallel
connections. A host connects to its agent; a controller tells that agent (role
CLIENT) and the agent of the other host (role AGENT) about the transfer; the two
agents open parallel connections between them, the second one connects its own
host, and each forks a child that relays the data. This directory holds TLA+
models of that program, TLC configurations that check them, and proofs that TLAPS
checks.

    host --- child of agent 1 === parallel connections === child of agent 2 --- host

## The system

| part | code | state | operations | what must hold |
|---|---|---|---|---|
| host to agents | `read_host_send_agent`, `all_agents_socks_full`, `not_all_agent_socks_full` | `packet[i]`, `send_seq`, poll masks | read a chunk and number it, send, block, resume | packets are whole and in order on each socket; no chunk is lost or sent twice; a blocked socket is woken |
| agents to host | `read_agent_send_host`, `get_free_packet_index`, `send_data_host` | `buffered_packet`, the table of early packets, `recv_seq`, header and index fields | read a packet in pieces, reorder, send, block, resume | the host gets the stream once and in order; a full queue is dropped from the poll and comes back; the parser stays in step |
| event loop | `poll_data_transfer`, `configure_poll` | interest list, `*_fd_poll` | wait, dispatch, close | cached masks are the kernel's; the child ends when all is done, and not before |
| setup | `poll_loop` and the handlers of `network.c` it calls | `clients_hashes`, `agent_fd_pool`, per client the sockets and a counter | request, accept, connect, exchange uuids, expire, fork | a child gets the host and all its connections, once; each transfer gets a child |
| controller requests | `controller.c`, the scan of `poll_loop` | `requests` | receive, look up, unlink | each connection gets the request meant for it unless an old one was left behind; a request is used up once |
| sockets over fork | `create_listen_sockets`, `close_listener_sockets`, `close_all_data_sockets`, `fork` | open descriptors of each process | open, inherit, close, exit, restart | a socket that is done with is open nowhere |
| statistics | `configure_stats`, `send_statistics_message`, the alarm | counters, windows, `ALARM_FLAG` | count, report | not modelled |
| discovery, arguments | `discovery.c`, `getinfo`, `arguments.c` | a socket | send a datagram; start-up | not modelled |

The daemon and its children share no memory and no file. Inside a process
everything is one thread around `epoll_wait`; what runs concurrently with a handler
is the kernel, the host and the remote agent. So the hard behaviours are: sockets
that become ready or full between two system calls; a packet cut anywhere, on the
way in and on the way out; the two directions changing the same poll mask;
packets overtaking each other on different sockets while every queue is bounded;
peers that close or reset at any moment; in setup, the three peers of a
transfer arriving in any order, datagrams of the controller twice; two agents that
each wait for the other; and descriptors that live on in a child. `PROJECT.json` lists them one by one under
`hazards`.

## The modules

`TransferState` declares the state of a child, its type invariant, `Init`
(`configure_poll`) and what the kernel does: readiness, and `EpollCtl`, the pattern
that the code repeats for each change of a mask. The cached mask (`fd_poll`) and the
kernel's (`epoll`) are two variables; ADD, MOD or DEL is picked by the cached one
and fails when the kernel disagrees, which ends the process as `exit(1)` does.

`HostToAgent` and `AgentToHost` are the two directions. One action is one handler,
except that a handler is cut before each `send`: the kernel may free room between
two calls, so whether the next one blocks is not known in advance. `pc` names the
point in the handler, `cursor` holds its locals. `recv` needs no cut: what arrives
during the call gives the same states as if it had arrived before.

| action | code |
|---|---|
| `HostIn`, `AgentOut(i)`, `AgentIn(i)`, `HostOut` | the four events of `poll_data_transfer` (poll.c:428-502) |
| `RecvHost(i)`, `ResumeSend(i)` | `read_host_send_agent` up to its loop, without and with a packet pending |
| `SendAgent(i)` | one `send` of it: `AgentAccepts`, `AgentBlocks` (EAGAIN), `AgentSendFails` |
| `AgentIn(i)` | `read_agent_send_host`: `ReadPacket`, `ReadBlocks` (EAGAIN), `ReadEnds` (0), `ReadFails` |
| `SendHost` | one `send` of `send_data_host`: `HostAccepts` (with `HostCompletes`), `HostBlocks`, `HostSendFails` |
| `CheckClosed` | the top of the loop (poll.c:368-412) |

`DataTransfer` composes them with the environment (the host writes, reads, closes,
resets; the remote agent sends, drains, closes, resets; the network delivers) and
states the properties. The remote agent does not know when the process has ended: it goes
on filling and emptying its ends. `OrderedStream` is what the direction towards a host
promises: what is read is a prefix of what was written. `ImplementsStream`
instantiates it with the numbered packets as the writes.

`Setup` is the daemon: `poll_loop`, its scan for expired clients (`Expire`,
`ScanEnds`, `Timeout`) and one action for each event. A socket is
`<<transfer, slot, generation>>`, so that a socket that replaced another can be told
from it. `agent_connected_event` and `get_uuid_and_confirm_client` contain a busy
wait (`send_uuid`, `get_uuid`) and are two actions each: while one waits nothing else
of the daemon runs. Requests, hosts and connections come once, in any order. Connects
may fail, clients may reach TIMEOUT early, a peer may close before its uuid
(`HangsUp`), after which `get_uuid` never ends, and a peer may reset a connection
(`Resets`). A reset that is seen by `getsockopt` is a failed connect; one that `send_uuid`
or `get_uuid` meets ends the daemon (`SendUuid`, `GetUuidFails`: network.c:679-685, 701-706).

### Two agents

`Tunnel` puts two children back to back. West is the module's own `DataTransfer`, East
an instance of it whose variables have the prefix `e_`. Where `DataTransfer` has a
remote agent that sends and drains, `Tunnel` has the other process: a packet that West
numbers and gives to socket `i` is appended to what East will parse on its socket `i`
(`WestReads`), and units move from the send buffer of one to the receive buffer of the
other (`CarryEast`, an instance of `Link`). `Link` is TCP in one direction: data, the end
of the stream after a close, and a reset when a socket was closed with data unread.
The handlers are the same actions as in `DataTransfer`; nothing of the code is
restated. `EastIsDataTransfer` says that the behaviour of East in the tunnel is one of
`DataTransfer`, so that what the runs and the proofs say of one child with an assumed
remote agent applies to a child whose remote agent is the other child.
`TunnelIsStream` is the promise of the whole: the byte stream of `OrderedStream` from
host to host.

`Handshake` does the same for two daemons: two instances of `Setup` with the roles
exchanged. A connection can be accepted when the other side's connect has ended, and a
uuid arrives when the other daemon has run `send_uuid`. The remote agent of `Setup` connects
once to each port. A client that is connected a second time, or a peer that fails, would make
the other daemon do more than that, so `HandshakeAssumption` leaves both out: no request comes in
the middle of another set-up and nothing fails. What one daemon does otherwise is in `Setup`.

### The tables and the descriptors

`ControllerTable` is the table of requests: a sequence, because `uthash` iterates in
the order of insertion and finds the newest of several equal keys. `Receive` is
`get_controller_message` with the loop over the clients that follows it, `Arrive` a new
client with its look-up, `Scan` the second look-up and what follows from it: a complete client
goes to a child and its request is unlinked; one that reached TIMEOUT incomplete is freed, and
the request it was matched with is unlinked too, without a child; one that never found a request
is only freed, and a request that comes for it later stays. A transfer of the role AGENT may have
a new client after that, for a connection that came late, but never a complete one. What happens
between a match and the last handler is one step, `Connected`: `Setup` has it in full.

`Descriptors` is who holds which socket. `Fork` gives the child a copy of everything
that is open; the child closes the listening sockets, the parent those of the transfer.
The daemon may exit and be started again, which fails at `bind` while a child of the
first one runs.

### The rest

The modules `MC...` name the small sets the configurations use, and the bounds that
depend on what else happens in a behaviour (`Load`, `OneWaySpec`).
The modules `...Proofs` hold the theorems, see "What is proved". In each module, an operator
with a comment "Mutant" is the altered form of a definition that some property is
known to reject; `PROJECT.json` says which.

### What is abstracted

Data is units. A packet is `HeaderLen` units of length word, one of sequence number
and `PayloadLen` of payload, all packets alike; the controller gives both agents the
same `buffer_size`, so the branch for packets that are too large (network.c:1191) is
left out. Sequence numbers do not overflow. The sequence number goes over the wire
in host byte order, which is the identity between two hosts of the same order.
The counters for statistics and the SIGALRM that sends them (no handler reads them),
debugging output and the
SIGINT branch (agent.c:55 never installs the handler) are left out. A socket that the
process has closed is never reopened under the same number within a child; in the
daemon descriptor numbers are not modelled. Keys of the two hash tables are the first
four bytes of a uuid, taken to be distinct. A uuid arrives whole or not at all. TCP is reliable and ordered on one
socket; a reset makes the next call fail with ECONNRESET, or with EPIPE when the peer
had closed before, and what was still in flight is lost with it.

## The runs

| run | bounds | shows |
|---|---|---|
| `Transfer` | 2 sockets, 2 slots, header 2, payload 2, send buffers of one packet, receive buffers and host buffer of 1; `Load` below | every safety property of a child, and that it implements the byte stream |
| `TransferLive` | 2 sockets, 1 slot, header 2, payload 1, send buffers of one packet; 3 packets or 3 chunks, and the close of either side | every packet reaches the host, every chunk is sent and the child ends, or the stall below |
| `Setup` | one CLIENT and one AGENT transfer, 2 connections; connects fail, clients expire, peers hang up and reset | what a child is given, the counter, no error and a child for each transfer when nothing fails |
| `Tunnel` | 2 connections, 3 chunks one way and the close of host and sockets, or one chunk each way; packets of 4 units (header 2), send buffers of 2, receive buffers of 1 | parser against writer, byte stream, complete end, East refines `DataTransfer` |
| `Handshake` | two daemons, a transfer in each direction, one after the other in either order, 2 connections, no failures | both hand over the same connections, and neither is held up |
| `Requests` | 2 CLIENT transfers of one address in turn, the request of the first twice and its client given up at any time, one of another address, and an AGENT transfer with two clients | matched with their own or with what was left; every copy accounted for; each transfer handed over or given up |
| `Descriptors` | 3 transfers, 2 connections, exits and restarts | closed in every process |
| `Stall`, `HalfClose`, `Rematch`, `MutualWait`, `Inherited` | as small as possible (header 1 in the first two) | the findings below |

Why these bounds. The state space of a child grows with the product of what is under way
in both directions and of the faults, but the interesting cases need much of only one of
them. `Load` in `MCDataTransfer`, a constraint on the states that are explored, allows
four packets alone until the remote agent closes its sockets (`InwardOnly`), three chunks
alone until the host closes (`OutwardOnly`), three of both together while nobody closes
(`BothWays`), one packet and two chunks with both sides closing (`Closing`: one chunk is
pending while the host, half closed, blocks on the packet), and one of each with every
close, cut and reset (`Faulty`). It restricts only what the hosts and the remote agent do, never a handler.

With four packets on two sockets of two slots the queue of one socket
fills behind a packet that is still on its way on the other, is drained through the
table and has to be polled for a packet more. Receive buffers of one unit cut every packet at
every place, the header of two units in the middle as well; a payload of two lets a packet block halfway to the host. A send buffer of exactly a
packet leaves a socket full with nothing pending, and blocks both between and inside
packets; the third chunk is the first that can meet two full sockets.
Reordering needs two sockets; with a third the code takes the same branches, since
it looks at one socket at a time except in the two loops that treat all of them
alike. In `Setup`, two connections are the fewest with a first, a last and a race;
the two roles exercise disjoint handlers of one daemon. In `Tunnel` a packet does not fit
a buffer, so that each one crosses in pieces; three chunks on two connections with
queues of one slot meet a full queue behind a gap at the receiver, and full sockets at
the sender, and each of these travels to the other side. Its constraint is like `Load`:
three chunks eastward with every close, or one each way. In `Handshake` a transfer begins when
the one before it is done (`InTurn`), since two daemons that connect to
each other at once may end up in `MutualWait`. In `Requests` two copies are the fewest that leave
one behind, one give-up before the request the fewest that strand it, and a second transfer of the
same address meets what is left; the second AGENT client comes after the first was given up. In
`Descriptors` the third transfer is one that a child outlives.

`TransferLive` bounds the environment in its specification, not by a constraint, so that
every behaviour that TLC sees is one of `FairSpec`; the steps that `OneWaySpec` withholds
(sending, closing) have no fairness.

`CHECK_DEADLOCK FALSE` is in the runs where the environment may fall silent while the
process waits for an event, or where a fault leaves it waiting, which is not an error;
that it does not stop without one is what the liveness properties say.

Symmetry of the agent sockets is used only in runs without liveness properties:
no definition distinguishes them.

### Fairness

The process is one thread: it takes its next step (weak fairness on the steps inside
a handler). `epoll_wait` asks for one event and the kernel moves a level-triggered
descriptor it has reported to the end of the list, so a socket that is ready over and
over is reported over and over: strong fairness for each event. Weak fairness would
be too little, because another socket's handler may make a socket unready for a
moment. The network delivers, the remote agent drains its sockets and the host reads
(weak fairness). Nothing obliges anyone to write, to close or to reset.
In `Setup` the timeout fires and the scan ends, connects end, uuids arrive, and each
event is met; the expiry of a client is fair only when it is complete, because its
last handler then sets its clock back (network.c:562, 756, 800).
`Tunnel` and `Handshake` take the same for each of their two processes, and that the
connections carry what was sent; what `DataTransfer` and `Setup` assume of the remote
agent is no longer assumed. `Tunnel` is checked for safety only. In `ControllerTable` each
request comes at least once, each client comes, its last handler runs, and a complete client
is scanned; TIMEOUT need not strike.

## Findings

* `Stall`. When every agent socket is full, `all_agents_socks_full` stops polling the
  host, "to let us know when it unblocks" by an agent socket. If each of those sockets
  has a packet pending, each is resumed when it unblocks and loses its POLLOUT, and the
  branch that restores the host (poll.c:468-476) is never taken: the host is not read
  again. One socket is enough. Outside this state everything is sent: `OutboundSent`
  and `EndsAfterHost` except exactly it (`HostDeaf`).
* `HalfClose`. The comment at poll.c:368 closes sockets that have no data; the code
  closes those with no data *to send*. After the host shut down its sending side, what
  was still on its way to it is dropped.
* `Rematch`. The loop after a controller message (poll.c:153-173) connects again every
  client that an earlier request matched, not only those waiting. That is why `Setup` has the
  constant `Overlap`: the other runs assume that no message comes while a matched
  client is being connected; with `Overlap` `ForkedComplete` and `NoFatalExit` fail as well.
* `MutualWait`. An accepted connection is polled for *output*, so it is reported at once
  and `get_uuid` waits for the uuid in a busy loop. Two daemons that connect to each other
  can both be in that loop, each before the event in which it would send the uuid the
  other waits for.
* `Inherited`. A child inherits the sockets of the transfers that are being set up when
  it is forked and never closes them, so the peers of such a transfer do not see its
  end before this child has ended too. That is why `Descriptors` has a constant
  `Overlap` as well.

The same loop takes `recv` returning 0 for no progress, so that a peer which closes before
its uuid stops the daemon (`HangsUp`, which `SetUp` has to except). A peer that resets a
connection at that point ends it (`Resets`, which `NoFatalExit` has to except).

The faults modelled in `Transfer` and `Setup` also reach states in which a process
ends itself (a failing `epoll_ctl`, SIGPIPE, an event for a client that was freed).
Nothing in the repository promises otherwise; the two `NoFatalExit` say exactly when it
does not happen. In a child one branch is left even when no connection fails: the host
has shut down its sending side while a chunk is pending, so that its mask is CLOSED but the
loop goes on, and then does not take the next packet whole, for which `send_data_host` has
no mask (network.c:1393). `hazards` lists these.

## What is proved

For every value of the constants. The data transfer needs `TransferAssumption`
(finitely many sockets, sizes positive, the host not one of the agents) and
`DataTransferAssumption`; the others `TunnelAssumption`, `SetupAssumption`,
`HandshakeAssumption`, `ControllerTableAssumption` and `DescriptorsAssumption`, of the same
kind. `HandshakeAssumption` is stronger: it says that nothing fails and no requests overlap.
Every safety invariant of the passing runs is a theorem, and so are the three refinements. The hypotheses that single theorems have are in the table.

| module | theorem | states |
|---|---|---|
| `DataTransferProofs` | `TypeCorrect` | `TypeOK` |
| | `NoLostOutputWakeup` | `PendingPolled`: a pending packet is polled for |
| | `ParserInStep` | `FramingInStep`: the parser knows what it took |
| | `HostGetsPrefix` | `InOrderDelivery`: every unit once, in order |
| | `ResumesWhereItStopped` | `BlockedPacketIsNext` |
| | `DuePacketHandled` | `NextPacketHandled`: a due packet waits for a full host only |
| | `Refinement` | `ImplementsStream`: the child implements `OrderedStream` |
| | `WholePackets` | `FramesContiguous` |
| | `NothingLostOrTwice` | `OutboundConservation`: each chunk on one socket, or pending |
| `EndProofs` | `CountIsExact` | `SlotAccounting` |
| | `NoVainTrigger` | `NeverTriggeredInVain`: no event without a slot to read into |
| | `NoLostInput` | `NextPacketPolled`: the due packet's socket is polled |
| | `ErrorsExplained` | `NoFatalExit` of `DataTransfer` |
| | `NothingLostAtEnd` | `OrderlyEnd`: nothing is left behind |
| `TunnelProofs` | `TwoTransfers` | each child in the tunnel is a `DataTransfer` |
| | `SeesWire` | `ParserSeesWire`: what is parsed is what was written |
| | `HostToHost` | `TunnelIsStream`: a byte stream from host to host |
| | `EastAsDataTransfer` | `EastIsDataTransfer`, for `MayCut = Agents` and agents in `EastMayClose` and `MayReset` |
| | `CompleteEnd` | `EndOfStreamIsComplete`, while `Eastward`, for `Agents # {}` |
| | `EastUncut` | `EastIsDataTransfer`, while `Eastward`, for agents in `EastMayClose` |
| `SetupProofs` | `SetupTypes` | `TypeOK` |
| | `CounterExact` | `CounterIsExact` |
| | `OneChild` | `HandedOverOnce` |
| | `EveryPortOnce` | a child has one connection to each port of its transfer |
| | `ChildIsComplete` | `ForkedComplete`, for `~Overlap` |
| | `DaemonSurvives` | `NoFatalExit` of `Setup` (no connection refused or reset, no client given up), for `~Overlap` |
| `HandshakeProofs` | `SameEnds` | `SameConnections`, while nothing fails and no requests overlap |
| `ControllerTableProofs` | `OwnRequest` | `MatchedOwn` |
| | `NoCopyLost` | `CopiesAccounted` |
| `DescriptorsProofs` | `ClosedForEveryone` | `EverythingClosed`, for `~Overlap` |

### A child

The invariants rest on each other: in `DataTransferProofs` `IInv`, `OrderInv`, `UnitsInv`
and `OutInv`, in `EndProofs`, which extends it, `QueueInv`, `SoundInv` and `EndInv`. None
says `Unharmed` before `SoundInv`: up to there every fault is in.

`IInv == TypeOK /\ PollMatchesEpoll /\ CursorInv /\ StreamInv /\ PendingInv`
* `PollMatchesEpoll`, that the cached masks are the interest list, is a lemma of the model,
  whose handlers change masks through `EpollCtl`, `SetPoll` and `Unregister` alone; the other
  parts need it. What a forgotten assignment would do is for `NoFatalExit` to catch: the next
  `epoll_ctl` on that socket fails.
* `CursorInv`: in a send the cursor names an agent, its packet is pending and the
  progress is within it; a host polled for output has a packet to resume. Without it
  the result of a `send` has no type.
* `StreamInv`: what was taken and what is available never exceed what was committed to
  a socket. Without it `Tail` may be taken of an empty queue.
* `PendingInv`: `PendingPolled`, stated for each program point: `PendingPolled` itself
  holds only in the loop, and the handlers break and restore it, except for the socket
  whose packet is being sent.

`OrderInv`: where the packets are. A number that the remote agent has used and that is not
delivered is on one socket, or in one slot, and is at least `recv_seq` (`StreamNumbers`,
`SlotNumbers`). The packet being given to the host is the due one (`SendingNext`), so is
the one the host socket blocked on (`BlockedNext`), and every other packet that was read is
in the table (`TableEarly`). `FramingInStep` is part of it, because a packet leaves its
socket when its last unit is taken, and gets its slot when the code thinks it is
complete; and so is that a closed descriptor stays out of the interest list
(`ClosedUnpolled`), because a stale mask would bring an event for it.

`UnitsInv`: how many units the host has, at each program point: `recv_seq` packets and what
was sent of the due one, which is in the cursor (`SendingAt`), in its slot (`BlockedAt`) or
nothing (`BetweenPackets`). With `OrderInv` this is `InOrderDelivery`. The refinement
follows step by step: `RemoteSends` is a write of the abstract stream, `HostAccepts` a read
of as many units as the socket took, and every other step a stutter.

`QueueInv`: `agent_packet_queue_count` is the number of slots whose header is complete
(`CountExact`, kept by three functions apart from the slots), the slot that is read into is
in use, and a socket that is open is polled for input exactly if it has a slot to read
into (`FullUnpolled`, `UnpolledFull`). The second half is what `NextPacketPolled` needs,
the first what `NeverTriggeredInVain` needs.

`OutInv`: what a socket carries of its last packet is what the cursor or
`host_sent_size` says was sent (`WireProgress`), its numbers increase (`WireNumbers`),
and each number below `send_seq` is carried whole by one socket or pending for one
(`PendingNumbers`, `CarriedOnce`, `NoneDropped`).

`SoundInv`: while no connection is harmed, what the masks of the two directions say about
each other. A socket that is polled for output has something pending, unless the host is
not polled for input (`IdleOutput`): without it the event of an idle socket would read a
host that is not ready. Who is not polled any more has nothing more to say (`HostGone`,
`PeerGone`). From these each `epoll_ctl` succeeds, but for the branch named above.
`EndInv` adds what is known of a socket whose mask is CLOSED: its input was read
(`ReadOut`, `HostShut`), and unless the remote agent closed it, its output was sent
(`ShutAfterSending`), and why the process ends: the host is done, or all agents have
closed (`EndReason`).

### Two children

Neither child knows what the other does, yet the parser of one is right only because of
how the other sends. `LinkProofs` is one direction as a theory of its own: it extends
`EndProofs`, which is the sender, and has variables `far_...` for what the receiver
knows of the sockets. Its invariant `LinkInv` says
* `Numbered`: the receiver expects the packets that the sender has numbered;
* `Accounted`: on each socket, the units between the two ends are those the receiver expects
  and the sender does not owe any more (`Owed`: what is left of a packet that is pending).
  On a socket the sender has closed with a packet pending there may be fewer: what it owed
  never comes;
* `Contents`: those units are those of the packets that the receiver expects, in that order.
  The place at which a packet begins on the wire (`Begun`) moves when one is read to its end;
* `PeersShut`: the end of a stream is read only where the sender closed.

`TunnelProofs` instantiates this theory twice, `W` with East's ends for the receiver's and
`E` with West's. `TunnelInv` is the invariant of both children and of both directions, and
one induction shows it. A step of the tunnel is a step of one child (`WestSteps`,
`EastSteps`) and a step of the other child's remote agent, or nothing for it (`WestMoves`,
`EastMoves`): where West numbers a packet, its remote agent for East does `RemoteSends`;
when West closes a socket, East's remote agent closes, cuts or resets. What it may do is
what `DataTransfer` allows, and this is where the invariant of the link is needed: the
remote agent of `DataTransfer` closes only what it has sent, or cuts a packet, and drains only what
is there. So `TwoTransfers` gives both children all theorems of one. A child may close a
socket within a packet (by ending, if nothing else), hence the constants of `W` and `E` let
every connection be closed, cut and reset, and `EastAsDataTransfer` has them as
hypotheses.

When the stream goes one way (`Eastward`: the East host writes nothing and does not close,
the West host does not reset) more is true. `OneWay` is the invariant: West's sockets stay
open at the other end, and those of East, if they end, end between two packets. It is one
circle. Nothing comes back, so no data is unread when West closes a socket, and the end of
the stream arrives, never a reset (`NothingComesBack`). West ends or closes a socket only
with its host closed and read to the end and nothing pending for that socket
(`WestShutsAfterSending`, from `EndInv` and `SoundInv`), and then `Accounted` says that what is on
the way is all that the receiver expects; so the end arrives with nothing in flight
(`EndReachesEast`). East closes a socket only after that end (`EastShutsAfterEnd`), so West's
stay open. At last East ends because all its agents have closed, and `OrderlyEnd` says that its
host has everything: `CompleteEnd`. The branch that `NoFatalExit` excepts cannot run in West,
as it needs a packet from East (`NotPollableAfterPacket`), nor in East, whose host is open.
`Agents # {}` is needed: without a connection East ends at once. `EastUncut` is the same invariant
read as a refinement: no connection is reset or cut, whatever `MayReset` and `MayCut` are.

### The daemon

`SetupInv` holds whatever comes, and whenever. A socket leaves the interest list when it is
identified (`Unsent`), and the sockets that a connect creates are new (`Earlier`), so that a
handler that counts meets one that was not counted. For the role AGENT, the connections
still to come fit the slots that are left (`Room`, by `AgentSlots`: the first slots hold
different connections that came). For the role CLIENT the counter is the number of
identified slots and the one that `send_uuid` works on (`CountedRight`). A child's
connections are those of a transfer the daemon has no client of any more, and
nothing of that transfer can come again (`ChildrenApart`).

`ChildPorts` says where those connections go: slot `k` of a CLIENT to port `k`, the slots of
an AGENT to different ports in the order in which the uuids were read. As many different
ports as there are slots are all ports (`EveryPort`, by the pigeonhole theorem of the
library). `HandshakeProofs` uses that each daemon of `Handshake` takes steps of `Setup`, so that
both children have a connection to every port, and then that these are the two ends of the same
ones: a daemon that is not connected twice has only sockets of its first connect
(`ConnectedOnce`), its child so too (`FirstConnections`), and of a port there is one such
connection, with its other end in the other daemon (`FarEnd`). This is where `~Overlap` is needed: a
second connect replaces a socket by another to the same port, and which of the two the other
daemon has taken is open.

`CalmInv` is what the hypothesis `~Overlap` adds: a socket that is registered is the one in
the slot that its event names (`Current`, `HostPolled`, `AgentPolled`). A second connect,
which the code does and run `Rematch` shows, replaces the socket of a slot while the old
one stays registered, and TLC then finds `ForkedComplete` and `NoFatalExit` violated: the
hypothesis is needed. `DaemonSurvives` includes the two busy waits: while no connection is
refused or reset neither `send_uuid` nor `get_uuid` meets an error, and what is left to show
is that each `epoll_ctl` finds its socket registered.

In `Descriptors`, `ClosedForEveryone` needs to know who can hold a socket at all: the daemon only
those of the transfer that is being set up and of transfers it gave up (`DaemonIsClean`),
of which there is one at a time (`OneAtATime`), so that a child inherits nothing of a
transfer that will still run (`ChildrenAreApart`).

### The table of requests

A client is matched by address alone with the oldest request that fits, and that may be one of
an earlier transfer of its address: a second copy, a request that came after its client had been
given up, or one whose own client took an older one. `MatchedOwn` says that there is no other
way to a wrong match: the transfer named by it is over, and has left something (`Leaves`), and the
scan unlinks the request the client was matched with. Run `Requests` reaches these cases.

`TableInv` says that transfers of one address take turns (`InTurn`: of those that began all but one
are over, handed over or given up), that a transfer has one client at a time (`OneClient`), that
a matched client has a request of its own transfer or one that was left there (`Mine`), which is
still in the table (`Matched`), and how many copies there are (`CopiesAccounted`). A transfer that
is over and has left nothing has no copy in the table (`NothingLeft`, from the count), so that what
fits a client is its own or was left (`FitsMine`). The scan of one client must not take the request
of another: no two clients have the same one (`NoSharing`), because both would be of the address
whose turn it is.

### Only model-checked

`EndOfStreamIsComplete` and, without resets and cuts, `EastIsDataTransfer` where both hosts
write (`BothWays` in run `Tunnel`, in which nobody closes); with both hosts writing and one
closing they do not hold, as unread data resets the connection (see "Not modelled").
`OnlyWaitingClients` and the other claims that the findings refute.
Liveness stays with TLC: the prover has no reasoning about fairness and ENABLED.

## Not modelled

* Statistics: counters that no handler reads, sent in datagrams that nobody answers. An
  alarm in `epoll_wait` only starts the loop again (poll.c:417).
* `discovery.c`: its message is never sent, and the termination message is one datagram
  before exit.
* Argument parsing, `uthash` itself, and errors at start, which all exit at once.
* Descriptor numbers (a client given up before its host was connected closes descriptor
  0), events of a descriptor that is closed here and open in a child, a uuid cut in two,
  uuids that share their first four bytes, the length of a client's arrays when the
  controller allows more connections than the command line, and the limit of
  `agent_fd_pool`, at which the daemon exits. Nothing in the repository says what should
  happen; those that can bite without a wrong configuration are under `hazards`.
* With both hosts closing, a half-close while data is unread resets the connection, and
  the receiver of a packet that was cut keeps its slot and never ends. It is the effect of
  `HalfClose` in the tunnel; run `Tunnel` leaves it out: there the East host stays open.
* In `Handshake`, faults and second connects: `Setup` has them for one daemon. The other daemon
  would accept the second connections, wait for uuids that nobody sends, and time out.

## The plan

1. (done) A child: state, both directions, loop, environment, faults; liveness.
2. (done) The daemon: setup of transfers of both roles.
3. (done) `Tunnel`: two children back to back.
4. (done) `Handshake`: two daemons, with their busy waits; hang-ups and resets in `Setup`.
5. (done) `ControllerTable`, `Descriptors`.
6. (done) Proofs: every safety invariant of a child and of the daemon, the refinement of
   `OrderedStream`, and the descriptors.
7. (done) Proofs: the two children and the two daemons (`TunnelProofs`, `HandshakeProofs`),
   each an induction over two instances of the theory of one, and the table of requests.
8. (done) Proofs: the end of a stream that goes one way (`CompleteEnd`, `EastUncut`).
