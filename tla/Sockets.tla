------------------------------ MODULE Sockets ------------------------------
(***************************************************************************)
(* The socket layer below the streams: file descriptors and endpoints of   *)
(* msim's intercepted libc calls (net/mod.rs) over the tables of the       *)
(* simulated network (net/network.rs): nodes, addresses, ports, cut links. *)
(*                                                                         *)
(* A member of Socks names what one call of socket or accept makes: the    *)
(* SocketState in the host table, the Endpoint once it has one, its        *)
(* Mailbox in the network, and the object of the program that owns the     *)
(* descriptor; it is used again when nothing refers to it.  The object is  *)
(* a std::net type, which holds the number only, or a msim-tokio socket,   *)
(* whose OwnedFd asks on drop whether its task was killed and which shares *)
(* the Endpoint with the host table.  An Endpoint is dropped with its last *)
(* holder.                                                                 *)
(*                                                                         *)
(* The tasks of a killed incarnation are dropped at some later time.  The  *)
(* simulated kernel hands out the lowest free descriptor (dup).  Ports are *)
(* 0..MaxPort with arithmetic modulo MaxPort + 1, as u16.  Calls that      *)
(* change nothing, with or without an error, are not actions.              *)
(***************************************************************************)
EXTENDS Naturals, FiniteSets

CONSTANTS
  Nodes, Ips, Socks,
  Main,            \* the node of the test itself, which is not killed
  None,            \* no node, address, socket or port
  FirstEphemeral,  \* 0x8000
  MaxPort,         \* u16::MAX
  Streaming,       \* bound: the nodes with SOCK_STREAM sockets
  Messaging,       \* bound: the nodes with SOCK_DGRAM sockets
  Crashing,        \* bound: the nodes that are killed or deleted
  MaxInc,          \* bound: kills of a node
  MaxMsgs,         \* bound: datagrams sent
  MaxBacklog,      \* bound: connections waiting to be accepted at one mailbox
  Cutting,         \* bound: the nodes that are cut off, from some node or from all
  ForeignKill,     \* a paused node may be killed from the context of another node
  StdDelete        \* a node may be deleted while its tasks hold std sockets

ASSUME SocketsAssumption ==
  /\ FirstEphemeral \in Nat /\ MaxPort \in Nat
  /\ 0 < FirstEphemeral /\ FirstEphemeral <= MaxPort
  /\ IsFiniteSet(Socks) /\ None \notin Nodes \cup Ips \cup Socks \cup Nat
  /\ Streaming \subseteq Nodes /\ Messaging \subseteq Nodes
  /\ Main \in Nodes /\ Crashing \subseteq Nodes \ {Main}
  /\ MaxInc \in Nat /\ MaxMsgs \in Nat
  /\ MaxBacklog \in Nat /\ Cutting \subseteq Nodes
  /\ ForeignKill \in BOOLEAN /\ StdDelete \in BOOLEAN

Ports == 0 .. MaxPort
Types == {"udp", "tcp"}
Fds == 1 .. Cardinality(Socks)
Keys == Nodes \X Ports \X Types      \* SocketKey, with its node
Loopback == "loopback"
Msgs == [id : 1 .. MaxMsgs, node : Nodes, tag : Ports, to : Socks]

VARIABLES
  nodes,                \* keys of Network.nodes
  inc,                  \* inc[n]: kills of node n so far, its deletion included
  ip, addr_to_node,
  clogged_node, clogged_link,
  sockets,              \* Node.sockets of all nodes: the socket whose mailbox it is
  next_ephemeral_port,
  open,                 \* descriptors open in the process
  host,                 \* HostNetworkState.sockets: <<node, fd>> to socket
  panic,                \* the message of the assertion that failed
  obj,                  \* the object of the program that owns the descriptor
  sock,                 \* SocketState and Endpoint, with the task that made them
  backlog,              \* Mailbox.sync_connections: how many wait to be accepted
  flight,               \* datagrams whose delivery timer is pending
  inbox,                \* Mailbox.msgs: <<mailbox, datagram>>
  rcvd                  \* <<socket, datagram>> returned by recvmsg

nodeVars == <<nodes, inc, ip, addr_to_node>>
cutVars == <<clogged_node, clogged_link>>
portVars == <<sockets, next_ephemeral_port>>
fdVars == <<open, host, panic>>
mailVars == <<backlog, flight, inbox, rcvd>>
vars == <<nodeVars, cutVars, portVars, fdVars, obj, sock, mailVars>>

\* port = None: no endpoint yet; peer: the endpoint is connected.
SocketData ==
  [node : Nodes, inc : 0 .. MaxInc, fd : Fds, ty : Types,
   port : Ports \cup {None}, peer : BOOLEAN]

ASSUME NoSocketAssumption == None \notin SocketData

Init ==
  /\ nodes = {Main} /\ inc = [n \in Nodes |-> 0]
  /\ ip = [n \in Nodes |-> None] /\ addr_to_node = [a \in Ips |-> None]
  /\ clogged_node = {} /\ clogged_link = {}
  /\ sockets = [k \in Keys |-> None]
  /\ next_ephemeral_port = [n \in Nodes |-> FirstEphemeral]
  /\ open = {} /\ host = [x \in Nodes \X Fds |-> None] /\ panic = "no"
  /\ obj = [s \in Socks |-> "none"] /\ sock = [s \in Socks |-> None]
  /\ backlog = [s \in Socks |-> 0]
  /\ flight = {} /\ inbox = {} /\ rcvd = {}

-----------------------------------------------------------------------------
(* Nodes, addresses and cut links *)

\* A failed assertion ends the test.
Running == panic = "no"

\* A node that was never created: ids are not used again.
Fresh(n) == n \notin nodes /\ inc[n] = 0

\* Network::set_ip; an address in use is an error of the program.
SetIpOf(n, a) ==
  /\ addr_to_node[a] = None
  /\ ip' = [ip EXCEPT ![n] = a]
  /\ addr_to_node' = [b \in Ips |-> IF b = a THEN n
                                    ELSE IF b = ip[n] THEN None
                                    ELSE addr_to_node[b]]

\* NodeBuilder::build, with or without an address.
CreateNode(n) ==
  /\ Running /\ Fresh(n)
  /\ nodes' = nodes \cup {n}
  /\ (\E a \in Ips : SetIpOf(n, a)) \/ UNCHANGED <<ip, addr_to_node>>
  /\ UNCHANGED <<inc, cutVars, portVars, fdVars, obj, sock, mailVars>>

SetIp(n, a) ==
  /\ Running /\ n \in nodes
  /\ SetIpOf(n, a)
  /\ UNCHANGED <<nodes, inc, cutVars, portVars, fdVars, obj, sock, mailVars>>

SetCuts(N, L) ==
  /\ Running
  /\ <<N, L>> # <<clogged_node, clogged_link>>
  /\ clogged_node' = N /\ clogged_link' = L
  /\ UNCHANGED <<nodeVars, portVars, fdVars, obj, sock, mailVars>>

BothWays(m, n) == {<<m, n>>, <<n, m>>}

\* NetSim::disconnect, connect, disconnect2 and connect2.
DisconnectNode(n) ==
  n \in nodes /\ SetCuts(clogged_node \cup {n}, clogged_link)
ConnectNode(n) ==
  n \in nodes /\ SetCuts(clogged_node \ {n}, clogged_link)
DisconnectLink(m, n) ==
  {m, n} \subseteq nodes /\ SetCuts(clogged_node, clogged_link \cup BothWays(m, n))
ConnectLink(m, n) ==
  {m, n} \subseteq nodes /\ SetCuts(clogged_node, clogged_link \ BothWays(m, n))

-----------------------------------------------------------------------------
(* Endpoints *)

Held(s) == obj[s] # "none"
Living(s) == sock[s].node \in nodes /\ sock[s].inc = inc[sock[s].node]

\* A task of the living incarnation uses s, which with_socket finds in the table.
Uses(s) ==
  /\ Running /\ Held(s) /\ Living(s)
  /\ host[<<sock[s].node, sock[s].fd>>] = s

Key(s) == <<sock[s].node, sock[s].port, sock[s].ty>>

\* Sockets whose endpoint the host table, or the object of the program, holds.
InTable(h) == {h[x] : x \in DOMAIN h} \ {None}
Sharing(o) == {s \in Socks : o[s] = "owned"}

\* What nobody refers to any more is gone.
Remember(h, o) ==
  LET known == InTable(h) \cup {s \in Socks : o[s] # "none"}
  IN  sock' = [s \in Socks |-> IF s \in known THEN sock[s] ELSE None]

\* Network::close for the endpoints in E, by port number.
Closed(tbl, E) ==
  LET closing == {Key(s) : s \in E}
  IN  [k \in Keys |-> IF k \in closing THEN None ELSE tbl[k]]

\* A mailbox dies with its entry in the table, and what is in it is lost.
HasMailbox(tbl, s) == \E k \in DOMAIN tbl : tbl[k] = s
Kept(tbl, box) == {x \in box : HasMailbox(tbl, x[1])}

SetSockets(tbl, waiting) ==
  /\ sockets' = tbl
  /\ inbox' = Kept(sockets', inbox)
  /\ backlog' = [s \in Socks |-> IF HasMailbox(sockets', s) THEN waiting[s] ELSE 0]

\* signal_connect and accept_connect of a mailbox: how many wait there now.
Signalled(box) == [backlog EXCEPT ![box] = @ + 1]
Accepted(box) == [backlog EXCEPT ![box] = @ - 1]

EphemeralFree(n, t) ==
  {q \in next_ephemeral_port[n] .. MaxPort : sockets[<<n, q, t>>] = None}
Ephemeral(n, t) ==
  CHOOSE q \in EphemeralFree(n, t) : \A r \in EphemeralFree(n, t) : q <= r

\* Network::bind where the program asked for port p; 0 asks for any.
CanBind(n, t, p) ==
  IF p = 0 THEN EphemeralFree(n, t) # {} ELSE sockets[<<n, p, t>>] = None
PortFor(n, t, p) == IF p = 0 THEN Ephemeral(n, t) ELSE p
AdvanceEphemeral(n, t, p) ==
  next_ephemeral_port' =
    IF p = 0 THEN [next_ephemeral_port EXCEPT ![n] = (Ephemeral(n, t) + 1) % (MaxPort + 1)]
    ELSE next_ephemeral_port
Bound(n, t, p, s) == [sockets EXCEPT ![<<n, PortFor(n, t, p), t>>] = s]

DstNode(n, a) == IF a = Loopback THEN n ELSE addr_to_node[a]

-----------------------------------------------------------------------------
(* Descriptors *)

NextFd == CHOOSE f \in Fds \ open : \A g \in Fds \ open : f <= g

\* alloc_fd and add_socket, in a task of node n; the assertion is "duplicate socket".
AddSocket(s, n, t, p, connected) ==
  /\ obj[s] = "none" /\ sock[s] = None /\ \A m \in flight : m.to # s
  /\ obj' = [obj EXCEPT ![s] = "std"]
  /\ sock' = [sock EXCEPT ![s] = [node |-> n, inc |-> inc[n], fd |-> NextFd, ty |-> t,
                                  port |-> p, peer |-> connected]]
  /\ open' = open \cup {NextFd}
  /\ host' = [host EXCEPT ![<<n, NextFd>>] = s]
  /\ panic' = IF host[<<n, NextFd>>] # None THEN "duplicate socket" ELSE panic

Socket(s, n, t) ==
  /\ Running /\ n \in nodes
  /\ AddSocket(s, n, t, None, FALSE)
  /\ UNCHANGED <<nodeVars, cutVars, portVars, mailVars>>

Bind(s, p) ==
  LET n == sock[s].node
      t == sock[s].ty
  IN
  /\ Uses(s) /\ sock[s].port = None
  /\ CanBind(n, t, p)
  /\ AdvanceEphemeral(n, t, p)
  /\ SetSockets(Bound(n, t, p, s), backlog)
  /\ sock' = [sock EXCEPT ![s].port = PortFor(n, t, p)]
  /\ UNCHANGED <<nodeVars, cutVars, fdVars, obj, flight, rcvd>>

\* The mailbox signal_connect finds, once the connecting endpoint is bound.
Target(s, a, p) ==
  LET n == sock[s].node
      d == DstNode(n, a)
  IN  IF d = None THEN None ELSE Bound(n, sock[s].ty, 0, s)[<<d, p, sock[s].ty>>]

CanConnect(s, a) ==
  /\ Uses(s) /\ sock[s].ty = "tcp" /\ sock[s].port = None
  /\ CanBind(sock[s].node, "tcp", 0)
  /\ a # Loopback => ip[sock[s].node] # None

Connect(s, a, p) ==
  LET n == sock[s].node
      box == Target(s, a, p)
  IN
  /\ CanConnect(s, a) /\ box # None /\ backlog[box] < MaxBacklog
  /\ AdvanceEphemeral(n, "tcp", 0)
  /\ SetSockets(Bound(n, "tcp", 0, s), Signalled(box))
  /\ sock' = [sock EXCEPT ![s].port = Ephemeral(n, "tcp"), ![s].peer = TRUE]
  /\ UNCHANGED <<nodeVars, cutVars, fdVars, obj, flight, rcvd>>

\* Slip: the port of the refused connection stays bound.
ConnectRefusedLeaks(s, a, p) ==
  /\ CanConnect(s, a) /\ Target(s, a, p) = None
  /\ AdvanceEphemeral(sock[s].node, "tcp", 0)
  /\ SetSockets(Bound(sock[s].node, "tcp", 0, s), backlog)
  /\ UNCHANGED <<nodeVars, cutVars, fdVars, obj, sock, flight, rcvd>>

\* ECONNREFUSED: the endpoint is dropped again, and with it its port.
ConnectRefused(s, a, p) ==
  /\ CanConnect(s, a) /\ Target(s, a, p) = None
  /\ AdvanceEphemeral(sock[s].node, "tcp", 0)
  /\ UNCHANGED <<nodeVars, cutVars, sockets, fdVars, obj, sock, mailVars>>

\* accept on a bound, unconnected socket; the new descriptor gets an endpoint of
\* its own, connected to the caller.
Accept(s, c) ==
  LET n == sock[s].node
      box == sockets[Key(s)]
  IN
  /\ Uses(s) /\ sock[s].ty = "tcp" /\ sock[s].port # None /\ ~sock[s].peer
  /\ box # None /\ backlog[box] > 0
  /\ CanBind(n, "tcp", 0)
  /\ AddSocket(c, n, "tcp", Ephemeral(n, "tcp"), TRUE)
  /\ AdvanceEphemeral(n, "tcp", 0)
  /\ SetSockets(Bound(n, "tcp", 0, c), Accepted(box))
  /\ UNCHANGED <<nodeVars, cutVars, flight, rcvd>>

Wrap(s, w) ==
  /\ Uses(s) /\ sock[s].port # None
  /\ obj' = [obj EXCEPT ![s] = w]
  /\ UNCHANGED <<nodeVars, cutVars, portVars, fdVars, sock, mailVars>>

\* from_std of TcpListener and UdpSocket, and into_std.
FromStd(s) == obj[s] = "std" /\ Wrap(s, "owned")
IntoStd(s) == obj[s] = "owned" /\ Wrap(s, "std")

\* libc close(f) in a task of node k: the entry found there is dropped, and with it
\* its placeholder, which panics if the descriptor is not open; without an entry
\* the call goes to the kernel.
CloseFd(k, f) ==
  /\ open' = open \ {f}
  /\ host' = [host EXCEPT ![<<k, f>>] = None]
  /\ panic' = IF host[<<k, f>>] # None /\ f \notin open THEN "failed to close" ELSE panic

\* The object of s is dropped.
DropObject(s) ==
  /\ obj' = [obj EXCEPT ![s] = "none"]
  /\ Remember(host', obj')
  /\ rcvd' = {x \in rcvd : x[1] # s}

\* Endpoints whose last holder goes in this step.
LastHeld == (InTable(host) \cup Sharing(obj)) \ (InTable(host') \cup Sharing(obj'))

\* The object is dropped by its living task: OwnedFd, or the std type, closes the
\* descriptor, and the last holder of the endpoint closes the port.
Drop(s) ==
  /\ Running /\ Held(s) /\ Living(s)
  /\ CloseFd(sock[s].node, sock[s].fd)
  /\ DropObject(s)
  /\ SetSockets(Closed(sockets, LastHeld), backlog)
  /\ UNCHANGED <<nodeVars, cutVars, next_ephemeral_port, flight>>

\* Slip: no return_if_killed in OwnedFd.
DropKilledCloses(s) ==
  /\ Running /\ Held(s) /\ ~Living(s)
  /\ CloseFd(sock[s].node, sock[s].fd)
  /\ DropObject(s)
  /\ UNCHANGED <<nodeVars, cutVars, portVars, backlog, flight, inbox>>

\* Slip: no return_if_killed in Endpoint.
DropKilledUnbinds(s) ==
  /\ Running /\ Held(s) /\ ~Living(s)
  /\ IF obj[s] = "owned" THEN UNCHANGED fdVars ELSE CloseFd(sock[s].node, sock[s].fd)
  /\ DropObject(s)
  /\ SetSockets(Closed(sockets, LastHeld), backlog)
  /\ UNCHANGED <<nodeVars, cutVars, next_ephemeral_port, flight>>

\* The future of a killed task is dropped in its own context: return_if_killed in
\* OwnedFd and in Endpoint; a std type closes its descriptor all the same.
DropKilled(s) ==
  /\ Running /\ Held(s) /\ ~Living(s)
  /\ IF obj[s] = "owned" THEN UNCHANGED fdVars ELSE CloseFd(sock[s].node, sock[s].fd)
  /\ DropObject(s)
  /\ UNCHANGED <<nodeVars, cutVars, portVars, backlog, flight, inbox>>

-----------------------------------------------------------------------------
(* Kills *)

NextIncarnation(n) == inc' = [inc EXCEPT ![n] = @ + 1]

\* Network::reset_node: the sockets of the node are cleared.
Cleared(n, tbl) == [k \in Keys |-> IF k[1] = n THEN None ELSE tbl[k]]

\* kill cancels the timers of the node, deliveries included, and resets NetSim.
Reset(n, tbl) ==
  /\ SetSockets(Cleared(n, tbl), backlog)
  /\ flight' = {m \in flight : m.node # n}

\* Handle::kill, with the restart that may follow.
Kill(n) ==
  /\ Running /\ n \in nodes /\ inc[n] < MaxInc
  /\ NextIncarnation(n)
  /\ Reset(n, sockets)
  /\ UNCHANGED <<nodes, ip, addr_to_node, cutVars, next_ephemeral_port, fdVars, obj,
                 sock, rcvd>>

\* Handle::kill, in the context of node k, of a node whose task with s is parked by
\* pause: TaskHandle::kill clears the parked list, so that the object is dropped in
\* the context of the caller, whose task is not killed, before reset_node.
KillPaused(n, s, k) ==
  /\ Running /\ {n, k} \subseteq nodes
  /\ inc[n] < MaxInc /\ (n = k \/ ForeignKill)
  /\ Held(s) /\ Living(s) /\ sock[s].node = n
  /\ CloseFd(k, sock[s].fd)
  /\ DropObject(s)
  /\ NextIncarnation(n)
  /\ Reset(n, Closed(sockets, LastHeld))
  /\ UNCHANGED <<nodes, ip, addr_to_node, cutVars, next_ephemeral_port>>

Released(n) == {f \in Fds : host[<<n, f>>] # None}

\* Slip: links from the node are kept.
LinksWithoutTarget(n) == {l \in clogged_link : l[2] # n}
LinksWithout(n) == {l \in clogged_link : n \notin {l[1], l[2]}}

\* addr_to_node loses the address the deleted node had.
AddressesWithout(n) == [a \in Ips |-> IF a = ip[n] THEN None ELSE addr_to_node[a]]

\* HostNetworkState::delete_node: every SocketState of the node is removed.
HostWithout(n) == [x \in Nodes \X Fds |-> IF x[1] = n THEN None ELSE host[x]]

\* Handle::delete_node: kill, then the network's tables, then the host's.
DeleteNode(n) ==
  /\ Running /\ n \in nodes
  /\ StdDelete \/ \A s \in Socks : obj[s] = "std" => sock[s].node # n
  /\ NextIncarnation(n)
  /\ nodes' = nodes \ {n}
  /\ ip' = [ip EXCEPT ![n] = None]
  /\ addr_to_node' = AddressesWithout(n)
  /\ clogged_node' = clogged_node \ {n}
  /\ clogged_link' = LinksWithout(n)
  /\ next_ephemeral_port' = [next_ephemeral_port EXCEPT ![n] = FirstEphemeral]
  /\ Reset(n, sockets)
  /\ open' = open \ Released(n)
  /\ host' = HostWithout(n)
  /\ panic' = IF Released(n) \subseteq open THEN panic ELSE "failed to close"
  /\ Remember(host', obj)
  /\ UNCHANGED <<obj, rcvd>>

-----------------------------------------------------------------------------
(* Datagrams: sendmsg, delivery and recvmsg *)

Clogged(n, d) == n \in clogged_node \/ d \in clogged_node \/ <<n, d>> \in clogged_link

Unsent ==
  1 .. MaxMsgs \ ({m.id : m \in flight} \cup {x[2].id : x \in inbox \cup rcvd})

\* A datagram that is not lost.  The delivery holds the mailbox weakly.
Send(s, a, p) ==
  LET n == sock[s].node
      d == DstNode(n, a)
  IN
  /\ Uses(s) /\ sock[s].ty = "udp" /\ sock[s].port # None
  /\ d # None /\ ~Clogged(n, d)
  /\ sockets[<<d, p, "udp">>] # None
  /\ \E i \in Unsent :
       /\ \A j \in Unsent : i <= j
       /\ flight' = flight \cup
            {[id |-> i, node |-> d, tag |-> p, to |-> sockets[<<d, p, "udp">>]]}
  /\ UNCHANGED <<nodeVars, cutVars, portVars, fdVars, obj, sock, backlog, inbox, rcvd>>

\* Slip: the delivery looks the mailbox up by its address.
DeliverByPort(m) ==
  /\ Running
  /\ flight' = flight \ {m}
  /\ inbox' = {x \in inbox \cup {<<sockets[<<m.node, m.tag, "udp">>], m>>} : x[1] # None}
  /\ UNCHANGED <<nodeVars, cutVars, portVars, fdVars, obj, sock, backlog, rcvd>>

\* The delivery timer fires; a mailbox that is gone gets nothing.
Deliver(m) ==
  /\ Running
  /\ flight' = flight \ {m}
  /\ inbox' = Kept(sockets, inbox \cup {<<m.to, m>>})
  /\ UNCHANGED <<nodeVars, cutVars, portVars, fdVars, obj, sock, backlog, rcvd>>

\* udp_tag: port 0 counts as not bound.
HasTag(s) == sock[s].ty = "udp" /\ sock[s].port \notin {None, 0}

\* The mailbox is found by port number.
RecvMsg(s, x) ==
  /\ Uses(s) /\ HasTag(s)
  /\ x[1] = sockets[Key(s)] /\ x[2].tag = sock[s].port
  /\ inbox' = inbox \ {x}
  /\ rcvd' = rcvd \cup {<<s, x[2]>>}
  /\ UNCHANGED <<nodeVars, cutVars, portVars, fdVars, obj, sock, backlog, flight>>

-----------------------------------------------------------------------------
NodeStep ==
  \/ \E n \in Nodes : CreateNode(n)
  \/ \E n \in Crashing : Kill(n) \/ DeleteNode(n)
  \/ \E n \in Nodes, a \in Ips : SetIp(n, a)
  \/ \E n \in Cutting : DisconnectNode(n) \/ ConnectNode(n)
  \/ \E m \in Nodes, n \in Cutting :
       m # n /\ (DisconnectLink(m, n) \/ ConnectLink(m, n))
  \/ \E n \in Crashing, s \in Socks, k \in Nodes : KillPaused(n, s, k)

SockStep ==
  \/ \E s \in Socks, n \in Streaming : Socket(s, n, "tcp")
  \/ \E s \in Socks, n \in Messaging : Socket(s, n, "udp")
  \/ \E s \in Socks, p \in Ports : Bind(s, p)
  \/ \E s \in Socks, a \in Ips \cup {Loopback}, p \in Ports :
       Connect(s, a, p) \/ ConnectRefused(s, a, p) \/ Send(s, a, p)
  \/ \E s, c \in Socks : Accept(s, c)
  \/ \E s \in Socks : FromStd(s) \/ IntoStd(s) \/ Drop(s) \/ DropKilled(s)
  \/ \E s \in Socks, x \in inbox : RecvMsg(s, x)
  \/ \E m \in flight : Deliver(m)

Next == NodeStep \/ SockStep

Spec == Init /\ [][Next]_vars

-----------------------------------------------------------------------------
\* Types of the tables of net/mod.rs and net/network.rs.
TypeOK ==
  /\ nodes \subseteq Nodes /\ inc \in [Nodes -> 0 .. MaxInc + 1]
  /\ ip \in [Nodes -> Ips \cup {None}] /\ addr_to_node \in [Ips -> Nodes \cup {None}]
  /\ clogged_node \subseteq Nodes /\ clogged_link \subseteq Nodes \X Nodes
  /\ sockets \in [Keys -> Socks \cup {None}]
  /\ next_ephemeral_port \in [Nodes -> Ports]
  /\ open \subseteq Fds /\ host \in [Nodes \X Fds -> Socks \cup {None}]
  /\ panic \in {"no", "duplicate socket", "failed to close"}
  /\ obj \in [Socks -> {"none", "std", "owned"}]
  /\ sock \in [Socks -> SocketData \cup {None}]
  /\ backlog \in [Socks -> Nat]
  /\ flight \subseteq Msgs /\ inbox \subseteq Socks \X Msgs
  /\ rcvd \subseteq Socks \X Msgs

\* Each SocketState has the descriptor of its placeholder to itself, and it is open:
\* neither "duplicate socket" nor "failed to close" can happen, in a simulation that
\* kills, restarts and deletes nodes whose tasks are dropped later.
FdsOwned ==
  /\ \A x, y \in DOMAIN host :
       host[x] # None /\ host[y] # None /\ x[2] = y[2] => x = y
  /\ open = {x[2] : x \in {y \in DOMAIN host : host[y] # None}}

\* A socket in use finds its own mailbox under its port: the look-ups of accept_connect,
\* recv_sync and recv_ready do not panic, and nobody else's mailbox is read.
OwnMailbox ==
  \A s \in Socks : Uses(s) /\ sock[s].port # None => sockets[Key(s)] = s

\* No port leaks: every bound port belongs to an endpoint of the living incarnation of
\* its node that the host table or its task still holds, failed connects included.
PortsOwned ==
  LET holders == InTable(host) \cup Sharing(obj)
  IN  \A k \in Keys : sockets[k] # None =>
        /\ sockets[k] \in holders
        /\ Living(sockets[k]) /\ Key(sockets[k]) = k

\* addr_to_node and Node.ip are inverse to each other and, like the sets of cut nodes
\* and links, know existing nodes only: the look-ups nodes[id] of send,
\* signal_connect and is_tcp_session_live do not panic.
TablesAgree ==
  /\ \A a \in Ips, n \in Nodes : addr_to_node[a] = n <=> n \in nodes /\ ip[n] = a
  /\ clogged_node \subseteq nodes /\ clogged_link \subseteq nodes \X nodes

\* A datagram is received by the socket that had the port when it was sent, never
\* by one bound later, of another incarnation, or of a node that took over the address.
NoStaleDatagram == \A x \in rcvd : x[2].to = x[1]

\* The comment on OwnedFd::drop: the early return is there to avoid a double close.
NoDoubleClose == panic = "no"
=============================================================================
