---------------------------- MODULE SocketsProofs ----------------------------
(***************************************************************************)
(* Proofs about Sockets for any nodes, addresses, ports, sockets, kills    *)
(* and datagrams, of the programs in which no paused node is killed from   *)
(* another node and no node is deleted whose tasks hold std sockets (the   *)
(* run MCSocketsParked shows what happens otherwise).  That the tables of  *)
(* addresses agree is proved for every program.                            *)
(***************************************************************************)
EXTENDS Sockets, FiniteSetTheorems, WellFoundedInduction, NaturalsInduction, TLAPS

\* The programs the theorems are about.
Benign == ForeignKill = FALSE /\ StdDelete = FALSE

-----------------------------------------------------------------------------
(* The inductive invariants: nodes.                                         *)

\* Only a node that exists has an address and can be killed once more.
NodesCounted ==
  /\ \A n \in Nodes \ nodes : ip[n] = None
  /\ \A n \in nodes : inc[n] <= MaxInc

\* A socket is of an incarnation that its node has or had.
SocketsBorn ==
  \A s \in Socks : sock[s] # None =>
    ~Fresh(sock[s].node) /\ sock[s].inc <= inc[sock[s].node]

NodesInv == TypeOK /\ TablesAgree /\ NodesCounted /\ SocketsBorn

-----------------------------------------------------------------------------
(* Descriptors.                                                             *)

Slot(s) == <<sock[s].node, sock[s].fd>>

\* An entry of the host table is the SocketState that has its node and descriptor.
SlotsKnown ==
  \A x \in Nodes \X Fds : host[x] # None => sock[host[x]] # None /\ Slot(host[x]) = x

\* An object of the program finds its own entry in the host table: a std type always,
\* a msim-tokio socket unless its node was deleted.
ObjectsInTable ==
  /\ \A s \in Socks : Held(s) => sock[s] # None
  /\ \A s \in Socks : obj[s] = "std" => host[Slot(s)] = s
  /\ \A s \in Socks : obj[s] = "owned" /\ sock[s].node \in nodes => host[Slot(s)] = s

FdsInv == NodesInv /\ SlotsKnown /\ ObjectsInTable /\ FdsOwned /\ NoDoubleClose

-----------------------------------------------------------------------------
(* Ports and mailboxes.                                                     *)

\* Whoever the host table or the program holds.
Holders == InTable(host) \cup Sharing(obj)

\* A bound endpoint of a living incarnation has its port as long as somebody holds it.
HoldersBound ==
  \A s \in Holders : Living(s) /\ sock[s].port # None => sockets[Key(s)] = s

\* A mailbox has only datagrams that were sent to it.
InboxAddressed == \A x \in inbox : x[2].to = x[1]

PortsInv == FdsInv /\ HoldersBound /\ PortsOwned /\ InboxAddressed /\ NoStaleDatagram

-----------------------------------------------------------------------------
(* What the look-ups find.                                                  *)

\* A set of numbers that is not empty has a least one.
LEMMA LeastExists ==
  ASSUME NEW T \in SUBSET Nat, T # {}
  PROVE  \E m \in T : \A k \in T : m <= k
<1>1. PICK m \in T : \A k \in T : ~(<<k, m>> \in OpToRel(<, Nat))
  BY WFMin, NatLessThanWellFounded
<1>2. \A k \in T : ~(k < m)
  BY <1>1 DEF OpToRel
<1>3. ASSUME NEW k \in T
      PROVE  m <= k
  <2>1. m \in Nat /\ k \in Nat /\ ~(k < m)
    BY <1>2
  <2> QED
    BY <2>1
<1> QED
  BY <1>3

\* The ephemeral port, if there is one, is free and above port 0.
LEMMA EphemeralFound ==
  ASSUME TypeOK, NEW n \in Nodes, NEW t \in Types, EphemeralFree(n, t) # {}
  PROVE  Ephemeral(n, t) \in Ports /\ sockets[<<n, Ephemeral(n, t), t>>] = None
<1>1. next_ephemeral_port[n] \in Ports /\ MaxPort \in Nat
  BY SocketsAssumption DEF TypeOK
<1>2. EphemeralFree(n, t) \in SUBSET Nat /\ EphemeralFree(n, t) \subseteq Ports
  BY <1>1 DEF EphemeralFree, Ports
<1>3. \E q \in EphemeralFree(n, t) : \A r \in EphemeralFree(n, t) : q <= r
  BY <1>2, LeastExists
<1>4. Ephemeral(n, t) \in EphemeralFree(n, t)
  BY <1>3 DEF Ephemeral
<1> QED
  BY <1>2, <1>4 DEF EphemeralFree

\* The port that bind takes is a port, and free.
LEMMA PortFound ==
  ASSUME TypeOK, NEW n \in Nodes, NEW t \in Types, NEW p \in Ports, CanBind(n, t, p)
  PROVE  PortFor(n, t, p) \in Ports /\ sockets[<<n, PortFor(n, t, p), t>>] = None
BY EphemeralFound DEF CanBind, PortFor

\* As every open descriptor has a SocketState of its own, one is free for the next.
LEMMA FdFound ==
  ASSUME TypeOK, SlotsKnown, FdsOwned, NEW s \in Socks, sock[s] = None
  PROVE  NextFd \in Fds /\ NextFd \notin open
<1>1. IsFiniteSet(Socks) /\ Cardinality(Socks) \in Nat
  BY SocketsAssumption, FS_CardinalityType
<1>2. ASSUME Fds \subseteq open
      PROVE  FALSE
  <2>1. \A f \in Fds : \E x \in Nodes \X Fds : x[2] = f /\ host[x] # None
    BY <1>2 DEF FdsOwned, TypeOK
  <2> DEFINE entry == [f \in Fds |-> CHOOSE x \in Nodes \X Fds : x[2] = f /\ host[x] # None]
  <2> DEFINE g == [f \in Fds |-> host[entry[f]]]
  <2>2. \A f \in Fds : entry[f] \in Nodes \X Fds /\ entry[f][2] = f /\ host[entry[f]] # None
    BY <2>1
  <2> HIDE DEF entry
  <2>3. ASSUME NEW f \in Fds
        PROVE  g[f] \in Socks \ {s}
    <3>1. entry[f] \in Nodes \X Fds /\ host[entry[f]] # None
      BY <2>2
    <3>2. host[entry[f]] \in Socks /\ sock[host[entry[f]]] # None
      BY <3>1 DEF TypeOK, SlotsKnown
    <3> QED
      BY <3>2
  <2>4. \A f, h \in Fds : g[f] = g[h] => f = h
    BY <2>2 DEF SlotsKnown
  <2>5. g \in Injection(Fds, Socks \ {s})
    BY <2>3, <2>4 DEF Injection, IsInjective
  <2> HIDE DEF g
  <2>6. IsFiniteSet(Socks \ {s}) /\ Cardinality(Socks \ {s}) = Cardinality(Socks) - 1
    BY <1>1, FS_RemoveElement
  <2>7. Cardinality(Fds) <= Cardinality(Socks \ {s})
    BY <2>5, <2>6, FS_Injection
  <2>8. Cardinality(Fds) = Cardinality(Socks)
    BY <1>1, FS_Interval DEF Fds
  <2> QED
    BY <1>1, <2>6, <2>7, <2>8
<1>3. Fds \ open # {} /\ Fds \ open \in SUBSET Nat
  BY <1>1, <1>2 DEF Fds
<1>4. \E f \in Fds \ open : \A g \in Fds \ open : f <= g
  BY <1>3, LeastExists
<1>5. NextFd \in Fds \ open
  BY <1>4 DEF NextFd
<1> QED
  BY <1>5

-----------------------------------------------------------------------------
(* Types.                                                                   *)

\* The types, by who changes them.
NodesTyped ==
  /\ nodes \subseteq Nodes /\ inc \in [Nodes -> 0 .. MaxInc + 1]
  /\ ip \in [Nodes -> Ips \cup {None}] /\ addr_to_node \in [Ips -> Nodes \cup {None}]
  /\ clogged_node \subseteq Nodes /\ clogged_link \subseteq Nodes \X Nodes
PortsTyped ==
  /\ sockets \in [Keys -> Socks \cup {None}]
  /\ next_ephemeral_port \in [Nodes -> Ports]
FdsTyped ==
  /\ open \subseteq Fds /\ host \in [Nodes \X Fds -> Socks \cup {None}]
  /\ panic \in {"no", "duplicate socket", "failed to close"}
SocksTyped ==
  /\ obj \in [Socks -> {"none", "std", "owned"}]
  /\ sock \in [Socks -> SocketData \cup {None}]
MailTyped ==
  /\ backlog \in [Socks -> Nat]
  /\ flight \subseteq Msgs /\ inbox \subseteq Socks \X Msgs /\ rcvd \subseteq Socks \X Msgs

\* The type invariant is the conjunction of these.
LEMMA TypeParts == TypeOK <=> NodesTyped /\ PortsTyped /\ FdsTyped /\ SocksTyped /\ MailTyped
BY Zenon DEF TypeOK, NodesTyped, PortsTyped, FdsTyped, SocksTyped, MailTyped

\* What a step leaves alone keeps its type.
LEMMA TypeFrame ==
  /\ NodesTyped /\ UNCHANGED <<nodeVars, cutVars>> => NodesTyped'
  /\ PortsTyped /\ UNCHANGED portVars => PortsTyped'
  /\ FdsTyped /\ UNCHANGED fdVars => FdsTyped'
  /\ SocksTyped /\ UNCHANGED <<obj, sock>> => SocksTyped'
  /\ MailTyped /\ UNCHANGED mailVars => MailTyped'
<1>1. NodesTyped /\ UNCHANGED <<nodeVars, cutVars>> => NodesTyped'
  BY Zenon DEF NodesTyped, nodeVars, cutVars
<1>2. PortsTyped /\ UNCHANGED portVars => PortsTyped'
  BY Zenon DEF PortsTyped, portVars
<1>3. FdsTyped /\ UNCHANGED fdVars => FdsTyped'
  BY Zenon DEF FdsTyped, fdVars
<1>4. SocksTyped /\ UNCHANGED <<obj, sock>> => SocksTyped'
  BY Zenon DEF SocksTyped
<1>5. MailTyped /\ UNCHANGED mailVars => MailTyped'
  BY Zenon DEF MailTyped, mailVars
<1> QED
  BY Zenon, <1>1, <1>2, <1>3, <1>4, <1>5

\* A record of what is known of a socket has these fields.
LEMMA SocketFields ==
  ASSUME SocksTyped, NEW s \in Socks, sock[s] # None
  PROVE  /\ sock[s] \in SocketData
         /\ sock[s].node \in Nodes /\ sock[s].inc \in 0 .. MaxInc /\ sock[s].fd \in Fds
         /\ sock[s].ty \in Types /\ sock[s].port \in Ports \cup {None}
         /\ Slot(s) \in Nodes \X Fds
         /\ sock[s].port # None => Key(s) \in Keys
<1>1. sock[s] \in SocketData
  BY DEF SocksTyped
<1> QED
  BY <1>1 DEF SocketData, Slot, Key, Keys

\* SetSockets gives a table of mailboxes, and only theirs keep what they have.
LEMMA SetSocketsTypes ==
  ASSUME MailTyped, NEW tbl \in [Keys -> Socks \cup {None}], NEW waiting \in [Socks -> Nat],
         SetSockets(tbl, waiting)
  PROVE  /\ sockets' \in [Keys -> Socks \cup {None}]
         /\ backlog' \in [Socks -> Nat]
         /\ inbox' \subseteq inbox /\ inbox' \subseteq Socks \X Msgs
<1>1. sockets' \in [Keys -> Socks \cup {None}]
  BY DEF SetSockets
<1>2. inbox' \subseteq inbox /\ inbox' \subseteq Socks \X Msgs
  BY DEF SetSockets, Kept, MailTyped
<1>3. backlog' \in [Socks -> Nat]
  <2>1. \A s \in Socks : (IF HasMailbox(sockets', s) THEN waiting[s] ELSE 0) \in Nat
    OBVIOUS
  <2> QED
    BY <2>1 DEF SetSockets
<1> QED
  BY <1>1, <1>2, <1>3

\* AdvanceEphemeral gives ports: the last is followed by 0.
LEMMA AdvanceTypes ==
  ASSUME TypeOK, NEW n \in Nodes, NEW t \in Types, NEW p, AdvanceEphemeral(n, t, p),
         p = 0 => EphemeralFree(n, t) # {}
  PROVE  next_ephemeral_port' \in [Nodes -> Ports]
<1>1. MaxPort \in Nat
  BY SocketsAssumption
<1>2. CASE p = 0
  <2>1. Ephemeral(n, t) \in 0 .. MaxPort
    BY <1>2, EphemeralFound DEF Ports
  <2>2. ASSUME NEW q \in 0 .. MaxPort
        PROVE  (q + 1) % (MaxPort + 1) \in 0 .. MaxPort
    <3>1. CASE q < MaxPort
      BY <1>1, <3>1
    <3>2. CASE q = MaxPort
      BY <1>1, <3>2
    <3> QED
      BY <1>1, <3>1, <3>2
  <2>3. (Ephemeral(n, t) + 1) % (MaxPort + 1) \in Ports
    BY <2>1, <2>2 DEF Ports
  <2> QED
    BY <1>2, <2>3 DEF AdvanceEphemeral, TypeOK
<1>3. CASE p # 0
  BY <1>3 DEF AdvanceEphemeral, TypeOK
<1> QED
  BY <1>2, <1>3

\* What AddSocket makes: s has a descriptor and an entry of its own, and no other changes.
LEMMA AddFacts ==
  ASSUME FdsInv, NEW s \in Socks, NEW n \in nodes, NEW t \in Types,
         NEW p \in Ports \cup {None}, NEW connected \in BOOLEAN,
         AddSocket(s, n, t, p, connected)
  PROVE  /\ NextFd \in Fds /\ NextFd \notin open /\ <<n, NextFd>> \in Nodes \X Fds
         /\ host[<<n, NextFd>>] = None
         /\ sock[s] = None /\ obj[s] = "none"
         /\ sock'[s] # None /\ sock'[s].node = n /\ sock'[s].inc = inc[n]
         /\ sock'[s].fd = NextFd /\ sock'[s].ty = t /\ sock'[s].port = p
         /\ \A z \in Socks \ {s} : sock'[z] = sock[z] /\ obj'[z] = obj[z]
         /\ obj'[s] = "std" /\ open' = open \cup {NextFd}
         /\ host' = [host EXCEPT ![<<n, NextFd>>] = s]
         /\ panic' = panic
         /\ FdsTyped' /\ SocksTyped'
<1> USE DEF FdsInv, NodesInv, NodesTyped, FdsTyped, SocksTyped
<1>0. NodesTyped /\ FdsTyped /\ SocksTyped
  BY TypeParts
<1>1. sock[s] = None /\ obj[s] = "none"
  BY DEF AddSocket
<1>2. NextFd \in Fds /\ NextFd \notin open
  BY <1>1, FdFound
<1>3. <<n, NextFd>> \in Nodes \X Fds /\ n \in Nodes
  BY <1>0, <1>2
<1>4. host[<<n, NextFd>>] = None
  <2>1. ASSUME host[<<n, NextFd>>] # None
        PROVE  FALSE
    <3>1. <<n, NextFd>> \in {y \in DOMAIN host : host[y] # None}
      BY <1>0, <1>3, <2>1
    <3>2. <<n, NextFd>>[2] \in open
      BY <3>1 DEF FdsOwned
    <3> QED
      BY <1>2, <3>2
  <2> QED
    BY <2>1
<1>5. inc[n] \in 0 .. MaxInc
  <2>1. inc[n] <= MaxInc
    BY DEF NodesCounted
  <2>2. inc[n] \in 0 .. MaxInc + 1
    BY <1>0, <1>3
  <2>3. MaxInc \in Nat
    BY SocketsAssumption
  <2> QED
    BY <2>1, <2>2, <2>3
<1> DEFINE new == [node |-> n, inc |-> inc[n], fd |-> NextFd, ty |-> t, port |-> p,
                   peer |-> connected]
<1>6. new \in SocketData
  BY <1>2, <1>3, <1>5 DEF SocketData
<1>7. new # None
  BY <1>6, NoSocketAssumption
<1>8. /\ obj' = [obj EXCEPT ![s] = "std"] /\ sock' = [sock EXCEPT ![s] = new]
      /\ open' = open \cup {NextFd} /\ host' = [host EXCEPT ![<<n, NextFd>>] = s]
      /\ panic' = panic
  BY <1>4 DEF AddSocket
<1>9. FdsTyped'
  BY <1>0, <1>2, <1>3, <1>8
<1>10. SocksTyped'
  BY <1>0, <1>6, <1>8
<1> QED
  BY <1>0, <1>1, <1>2, <1>3, <1>4, <1>7, <1>8, <1>9, <1>10

-----------------------------------------------------------------------------
(* The invariants, from what a step keeps.                                  *)

\* In this step a socket stays the one it is, or goes.
SlotsKept ==
  \A z \in Socks : sock'[z] # None =>
    /\ sock[z] # None /\ sock'[z].node = sock[z].node
    /\ sock'[z].inc = sock[z].inc /\ sock'[z].fd = sock[z].fd

\* And it keeps the port that it has.
KeysKept ==
  \A z \in Socks : sock'[z] # None => sock'[z].port = sock[z].port /\ sock'[z].ty = sock[z].ty

\* The tables of nodes and sockets that a step leaves alone.
LEMMA NodesFrame ==
  ASSUME TablesAgree, NodesCounted, UNCHANGED <<nodeVars, cutVars>>
  PROVE  TablesAgree' /\ NodesCounted'
BY DEF TablesAgree, NodesCounted, nodeVars, cutVars

\* Incarnations are counted upwards, so that a socket stays of one that was.
LEMMA BornStep ==
  ASSUME SocketsBorn, NodesTyped, NodesTyped', SocksTyped, SlotsKept,
         \A n \in Nodes : ~Fresh(n) => ~(n \notin nodes' /\ inc'[n] = 0),
         \A n \in Nodes : inc[n] <= inc'[n]
  PROVE  SocketsBorn'
<1>1. SUFFICES ASSUME NEW s \in Socks, sock'[s] # None
               PROVE  /\ ~(sock'[s].node \notin nodes' /\ inc'[sock'[s].node] = 0)
                      /\ sock'[s].inc <= inc'[sock'[s].node]
  BY DEF SocketsBorn, Fresh
<1>2. sock[s] # None /\ sock'[s].node = sock[s].node /\ sock'[s].inc = sock[s].inc
  BY <1>1 DEF SlotsKept
<1> DEFINE n == sock[s].node
<1>3. n \in Nodes /\ sock[s].inc \in 0 .. MaxInc
  BY <1>2, SocketFields
<1>4. ~Fresh(n) /\ sock[s].inc <= inc[n]
  BY <1>2 DEF SocketsBorn
<1>5. inc[n] \in Nat /\ inc'[n] \in Nat /\ sock[s].inc \in Nat
  BY <1>3, SocketsAssumption DEF NodesTyped
<1>6. sock[s].inc <= inc'[n]
  BY <1>3, <1>4, <1>5
<1> QED
  BY <1>2, <1>3, <1>4, <1>6

\* A step that takes entries out of the host table, and gives no object another socket.
LEMMA FdsStep ==
  ASSUME FdsInv, FdsTyped', SlotsKept,
         \A x \in Nodes \X Fds : host'[x] # None => host'[x] = host[x],
         \A z \in Socks : z \in InTable(host') \/ obj'[z] # "none" =>
                            (sock[z] # None => sock'[z] # None),
         \A z \in Socks : obj'[z] # "none" => obj[z] # "none",
         \A z \in Socks : obj'[z] = "std" => host'[Slot(z)] = z,
         \A z \in Socks : obj'[z] = "owned" /\ sock[z].node \in nodes' => host'[Slot(z)] = z,
         open' = {x[2] : x \in {y \in DOMAIN host' : host'[y] # None}},
         panic' = panic
  PROVE  SlotsKnown' /\ ObjectsInTable' /\ FdsOwned' /\ NoDoubleClose'
<1>1. FdsTyped /\ SocksTyped
  BY TypeParts DEF FdsInv, NodesInv
<1>2. ASSUME NEW x \in Nodes \X Fds, host'[x] # None
      PROVE  sock'[host'[x]] # None /\ Slot(host[x])' = x
  <2>1. host'[x] = host[x] /\ host[x] \in Socks
    BY <1>1, <1>2 DEF FdsTyped
  <2>2. sock[host[x]] # None /\ Slot(host[x]) = x
    BY <1>2, <2>1 DEF FdsInv, SlotsKnown
  <2>3. host[x] \in InTable(host')
    BY <1>2, <2>1 DEF InTable, FdsTyped
  <2>4. sock'[host[x]] # None
    BY <2>1, <2>2, <2>3
  <2> DEFINE z == host[x]
  <2>5. sock'[z].node = sock[z].node /\ sock'[z].fd = sock[z].fd /\ host'[x] = z
    BY <2>1, <2>4 DEF SlotsKept
  <2> QED
    BY <2>2, <2>4, <2>5 DEF Slot
<1>3. SlotsKnown'
  BY <1>2 DEF SlotsKnown
<1>4. ASSUME NEW z \in Socks, obj'[z] # "none"
      PROVE  /\ sock'[z] # None
             /\ obj'[z] = "std" => host'[Slot(z)'] = z
             /\ obj'[z] = "owned" /\ sock'[z].node \in nodes' => host'[Slot(z)'] = z
  <2>1. sock[z] # None
    BY <1>4 DEF FdsInv, ObjectsInTable, Held
  <2>2. sock'[z] # None
    BY <1>4, <2>1
  <2>3. sock'[z].node = sock[z].node /\ Slot(z)' = Slot(z)
    BY <2>2 DEF SlotsKept, Slot
  <2> QED
    BY <2>2, <2>3
<1>5. ObjectsInTable'
  BY <1>4 DEF ObjectsInTable, Held
<1>6. FdsOwned'
  <2>1. DOMAIN host = DOMAIN host' /\ DOMAIN host = Nodes \X Fds
    BY <1>1 DEF FdsTyped
  <2>2. ASSUME NEW x \in DOMAIN host', NEW y \in DOMAIN host', host'[x] # None, host'[y] # None,
               x[2] = y[2]
        PROVE  x = y
    BY <2>1, <2>2 DEF FdsInv, FdsOwned
  <2> QED
    BY <2>2 DEF FdsOwned
<1>7. NoDoubleClose'
  BY DEF FdsInv, NoDoubleClose
<1> QED
  BY <1>3, <1>5, <1>6, <1>7

\* Whoever is held is a socket that the network knows, and has not lost its node.
LEMMA HolderFacts ==
  ASSUME FdsInv, NEW z \in Holders
  PROVE  z \in Socks /\ sock[z] # None
<1>1. FdsTyped /\ SocksTyped
  BY TypeParts DEF FdsInv, NodesInv
<1>2. CASE z \in InTable(host)
  <2>1. PICK x \in Nodes \X Fds : host[x] = z /\ z # None
    BY <1>1, <1>2 DEF InTable, FdsTyped
  <2> QED
    BY <1>1, <2>1 DEF FdsTyped, FdsInv, SlotsKnown
<1>3. CASE z \in Sharing(obj)
  BY <1>3 DEF Sharing, FdsInv, ObjectsInTable, Held
<1> QED
  BY <1>2, <1>3 DEF Holders

\* A socket in use is held, as it is in the host table.
LEMMA UsesFacts ==
  ASSUME FdsInv, NEW s \in Socks, Uses(s)
  PROVE  /\ sock[s] # None /\ s \in InTable(host) /\ s \in Holders
         /\ host[Slot(s)] = s /\ Living(s)
         /\ sock[s].node \in nodes /\ sock[s].node \in Nodes
<1>1. FdsTyped /\ SocksTyped
  BY TypeParts DEF FdsInv, NodesInv
<1>2. sock[s] # None
  BY DEF Uses, FdsInv, ObjectsInTable
<1>3. sock[s].node \in Nodes /\ Slot(s) \in Nodes \X Fds
  BY <1>1, <1>2, SocketFields
<1>4. host[Slot(s)] = s
  BY DEF Uses, Slot
<1>5. s # None
  BY SocketsAssumption
<1> QED
  BY <1>1, <1>2, <1>3, <1>4, <1>5 DEF Uses, Living, InTable, FdsTyped, Holders

\* A step that binds nothing.
LEMMA PortsStep ==
  ASSUME FdsInv, HoldersBound, PortsOwned, PortsTyped', SlotsKept, KeysKept,
         \A z \in Holders' : z \in Holders /\ sock'[z] # None,
         \A z \in Holders' : Living(z)' => Living(z),
         \A z \in Holders' : Living(z)' /\ sock[z].port # None =>
                               sockets'[Key(z)] = sockets[Key(z)],
         \A k \in Keys : sockets'[k] # None =>
           sockets'[k] = sockets[k] /\ sockets'[k] \in Holders' /\ Living(sockets[k])'
  PROVE  HoldersBound' /\ PortsOwned'
<1>1. ASSUME NEW z \in Holders'
      PROVE  z \in Socks /\ Key(z)' = Key(z) /\ sock'[z].port = sock[z].port
  <2>1. z \in Socks /\ sock'[z] # None
    BY <1>1, HolderFacts
  <2> QED
    BY <2>1 DEF SlotsKept, KeysKept, Key
<1>2. ASSUME NEW z \in Holders', Living(z)', sock'[z].port # None
      PROVE  sockets'[Key(z)'] = z
  <2>1. sock[z].port # None /\ z \in Holders /\ Living(z)
    BY <1>1, <1>2
  <2>2. sockets[Key(z)] = z
    BY <2>1 DEF HoldersBound
  <2> QED
    BY <1>1, <1>2, <2>1, <2>2
<1>3. HoldersBound'
  BY <1>2 DEF HoldersBound
<1>4. ASSUME NEW k \in Keys, sockets'[k] # None
      PROVE  sockets'[k] \in Holders' /\ Living(sockets[k])' /\ Key(sockets[k])' = k
  <2>0. PICK z : z = sockets[k]
    OBVIOUS
  <2>1. sockets'[k] = z /\ z \in Holders' /\ Living(z)'
    BY <1>4, <2>0
  <2>2. Key(z) = k
    BY <1>4, <2>0, <2>1 DEF PortsOwned
  <2>3. Key(z)' = k
    BY <1>1, <2>1, <2>2
  <2> QED
    BY <2>1, <2>3
<1>5. PortsOwned'
  BY <1>4 DEF PortsOwned, Holders
<1> QED
  BY <1>3, <1>5

\* A step that binds the socket s to the free port k.
LEMMA BindingStep ==
  ASSUME FdsInv, PortsTyped, HoldersBound, PortsOwned, NEW s \in Socks, NEW k \in Keys,
         sockets[k] = None, sockets' = [sockets EXCEPT ![k] = s],
         \A q \in Keys : sockets[q] # s,
         s \in Holders', Living(s)', Key(s)' = k,
         Holders' \subseteq Holders \cup {s}, Holders \subseteq Holders' \cup {s},
         \A z \in Socks \ {s} : sock'[z] = sock[z],
         UNCHANGED <<nodes, inc>>
  PROVE  HoldersBound' /\ PortsOwned'
<1>1. ASSUME NEW z \in Socks \ {s}
      PROVE  sock'[z] = sock[z] /\ Key(z)' = Key(z) /\ (Living(z)' <=> Living(z))
  BY <1>1 DEF Key, Living
<1>2. ASSUME NEW z \in Holders', Living(z)', sock'[z].port # None
      PROVE  sockets'[Key(z)'] = z
  <2>1. CASE z = s
    BY <2>1 DEF PortsTyped
  <2>2. CASE z # s
    <3>1. z \in Holders /\ z \in Socks \ {s}
      BY <2>2, HolderFacts
    <3>2. sockets[Key(z)] = z
      BY <1>1, <1>2, <3>1 DEF HoldersBound
    <3>3. Key(z) # k
      BY <3>1, <3>2, SocketsAssumption
    <3> QED
      BY <1>1, <3>1, <3>2, <3>3
  <2> QED
    BY <2>1, <2>2
<1>3. ASSUME NEW q \in Keys, sockets'[q] # None
      PROVE  sockets'[q] \in Holders' /\ Living(sockets[q])' /\ Key(sockets[q])' = q
  <2>1. CASE q = k
    <3>1. sockets'[q] = s
      BY <2>1 DEF PortsTyped
    <3> QED
      BY <2>1, <3>1
  <2>2. CASE q # k
    <3>0. PICK z : z = sockets[q]
      OBVIOUS
    <3>1. sockets'[q] = z
      BY <2>2, <3>0 DEF PortsTyped
    <3>2. z \in Holders /\ Living(z) /\ Key(z) = q /\ z # s
      BY <1>3, <3>0, <3>1 DEF PortsOwned, Holders
    <3>3. z \in Socks \ {s}
      BY <3>2, HolderFacts
    <3>4. z \in Holders' /\ Living(z)' /\ Key(z)' = q
      BY <1>1, <3>2, <3>3
    <3> QED
      BY <3>1, <3>4
  <2> QED
    BY <2>1, <2>2
<1> QED
  BY <1>2, <1>3 DEF HoldersBound, PortsOwned, Holders

-----------------------------------------------------------------------------
(* Steps that leave descriptors and ports alone.                            *)

\* The types of the next state, from their parts.
LEMMA TypesNext == NodesTyped' /\ PortsTyped' /\ FdsTyped' /\ SocksTyped' /\ MailTyped' => TypeOK'
BY Zenon DEF TypeOK, NodesTyped, PortsTyped, FdsTyped, SocksTyped, MailTyped

\* The invariants on sockets that are neither about nodes nor about datagrams.
SocketsInv ==
  /\ SocketsBorn
  /\ SlotsKnown /\ ObjectsInTable /\ FdsOwned /\ NoDoubleClose
  /\ HoldersBound /\ PortsOwned

\* The invariant, from its parts.
LEMMA PortsInvParts ==
  /\ PortsInv => /\ TypeOK /\ TablesAgree /\ NodesCounted /\ SocketsInv
                 /\ InboxAddressed /\ NoStaleDatagram /\ FdsInv
  /\ (TypeOK' /\ TablesAgree' /\ NodesCounted' /\ SocketsInv' /\ InboxAddressed'
       /\ NoStaleDatagram') => PortsInv'
BY Zenon DEF PortsInv, FdsInv, NodesInv, SocketsInv

\* Nodes are added, and objects found in the host table change their kind.
LEMMA SocketsFrame ==
  ASSUME PortsInv, NodesTyped', PortsTyped', FdsTyped',
         UNCHANGED <<inc, sockets, fdVars, sock>>,
         nodes \subseteq nodes', \A n \in nodes' \ nodes : Fresh(n),
         \A z \in Socks : obj'[z] # obj[z] =>
                            obj[z] # "none" /\ z \in InTable(host) /\ host[Slot(z)] = z
  PROVE  SocketsInv'
<1> USE DEF fdVars
<1>1. FdsInv /\ SocketsInv /\ NodesTyped /\ FdsTyped /\ SocksTyped /\ PortsTyped
  BY TypeParts, PortsInvParts DEF FdsInv, NodesInv
<1>2. SlotsKept /\ KeysKept
  BY DEF SlotsKept, KeysKept
<1>3. SocketsBorn'
  <2>1. \A n \in Nodes : ~Fresh(n) => ~(n \notin nodes' /\ inc'[n] = 0)
    BY DEF Fresh
  <2>2. \A n \in Nodes : inc[n] <= inc'[n]
    <3>1. \A n \in Nodes : inc[n] \in Nat
      BY <1>1, SocketsAssumption DEF NodesTyped
    <3> QED
      BY <3>1
  <2> QED
    BY <1>1, <1>2, <2>1, <2>2, BornStep DEF SocketsInv
<1>4. ASSUME NEW z \in Socks, sock[z] # None
      PROVE  sock[z].node \in nodes' <=> sock[z].node \in nodes
  BY <1>1, <1>4 DEF SocketsInv, SocketsBorn
<1>5. SlotsKnown' /\ ObjectsInTable' /\ FdsOwned' /\ NoDoubleClose'
  <2>1. ASSUME NEW z \in Socks, obj'[z] # "none"
        PROVE  obj[z] # "none"
    BY <2>1
  <2>2. ASSUME NEW z \in Socks, obj'[z] = "std"
        PROVE  host'[Slot(z)] = z
    BY <1>1, <2>2 DEF SocketsInv, ObjectsInTable
  <2>3. ASSUME NEW z \in Socks, obj'[z] = "owned", sock[z].node \in nodes'
        PROVE  host'[Slot(z)] = z
    <3>1. obj[z] # "none" /\ sock[z] # None
      BY <1>1, <2>1, <2>3 DEF SocketsInv, ObjectsInTable, Held
    <3>2. sock[z].node \in nodes
      BY <1>4, <2>3, <3>1
    <3> QED
      BY <1>1, <2>3, <3>2 DEF SocketsInv, ObjectsInTable
  <2>4. open' = {x[2] : x \in {y \in DOMAIN host' : host'[y] # None}}
    BY <1>1 DEF SocketsInv, FdsOwned
  <2> QED
    BY <1>1, <1>2, <2>1, <2>2, <2>3, <2>4, FdsStep
<1>6. Holders' = Holders
  <2>1. InTable(host') = InTable(host)
    BY DEF InTable
  <2>2. ASSUME NEW z \in Socks, z \notin InTable(host)
        PROVE  z \in Sharing(obj') <=> z \in Sharing(obj)
    BY <2>2 DEF Sharing
  <2> QED
    BY <2>1, <2>2 DEF Holders, Sharing
<1>7. ASSUME NEW z \in Holders
      PROVE  z \in Socks /\ sock[z] # None /\ (Living(z)' <=> Living(z))
  <2>1. z \in Socks /\ sock[z] # None
    BY <1>1, HolderFacts
  <2> QED
    BY <1>4, <2>1 DEF Living
<1>8. HoldersBound' /\ PortsOwned'
  <2>1. \A k \in Keys : sockets'[k] # None =>
          sockets'[k] = sockets[k] /\ sockets'[k] \in Holders' /\ Living(sockets[k])'
    BY <1>1, <1>6, <1>7 DEF SocketsInv, PortsOwned, Holders
  <2> QED
    BY <1>1, <1>2, <1>6, <1>7, <2>1, PortsStep DEF SocketsInv
<1> QED
  BY <1>3, <1>5, <1>8 DEF SocketsInv

\* Datagrams stay where they are, or are lost.
LEMMA MailFrame ==
  ASSUME InboxAddressed, NoStaleDatagram, inbox' \subseteq inbox, rcvd' \subseteq rcvd
  PROVE  InboxAddressed' /\ NoStaleDatagram'
BY DEF InboxAddressed, NoStaleDatagram

\* Network::set_ip: a free address is given to n, and its old one is given up.
LEMMA SetIpFacts ==
  ASSUME NodesTyped, TablesAgree, NodesCounted, NEW n \in Nodes, NEW a \in Ips, SetIpOf(n, a),
         nodes' = nodes \cup {n}
  PROVE  /\ ip' \in [Nodes -> Ips \cup {None}] /\ addr_to_node' \in [Ips -> Nodes \cup {None}]
         /\ \A b \in Ips, m \in Nodes : addr_to_node'[b] = m <=> m \in nodes' /\ ip'[m] = b
         /\ \A m \in Nodes \ nodes' : ip'[m] = None
<1>1. None \notin Nodes /\ None \notin Ips
  BY SocketsAssumption
<1>2. /\ ip' = [ip EXCEPT ![n] = a] /\ addr_to_node[a] = None
      /\ addr_to_node' = [b \in Ips |-> IF b = a THEN n ELSE IF b = ip[n] THEN None
                                        ELSE addr_to_node[b]]
  BY DEF SetIpOf
<1>3. /\ ip' \in [Nodes -> Ips \cup {None}] /\ addr_to_node' \in [Ips -> Nodes \cup {None}]
  BY <1>2 DEF NodesTyped
<1>4. ASSUME NEW b \in Ips, NEW m \in Nodes
      PROVE  addr_to_node'[b] = m <=> m \in nodes' /\ ip'[m] = b
  <2>1. addr_to_node[b] = m <=> m \in nodes /\ ip[m] = b
    BY DEF TablesAgree
  <2>2. ip'[m] = IF m = n THEN a ELSE ip[m]
    BY <1>2 DEF NodesTyped
  <2>3. CASE b = a
    <3>1. addr_to_node'[b] = n
      BY <1>2, <2>3
    <3>2. ~(m \in nodes /\ ip[m] = b)
      BY <1>1, <1>2, <2>1, <2>3
    <3> QED
      BY <2>2, <2>3, <3>1, <3>2
  <2>4. CASE b # a /\ b = ip[n]
    <3>1. addr_to_node'[b] = None
      BY <1>2, <2>4
    <3>2. n \in nodes
      BY <1>1, <2>4 DEF NodesCounted
    <3>3. addr_to_node[b] = n
      BY <2>4, <3>2 DEF TablesAgree
    <3> QED
      BY <1>1, <2>1, <2>2, <2>4, <3>1, <3>3
  <2>5. CASE b # a /\ b # ip[n]
    <3>1. addr_to_node'[b] = addr_to_node[b]
      BY <1>2, <2>5
    <3> QED
      BY <2>1, <2>2, <2>5, <3>1
  <2> QED
    BY <2>3, <2>4, <2>5
<1>5. \A m \in Nodes \ nodes' : ip'[m] = None
  BY <1>2 DEF NodesTyped, NodesCounted
<1> QED
  BY <1>3, <1>4, <1>5

\* The node tables when a node is created, gets another address, is cut off or
\* reached again.
LEMMA TablesFacts ==
  ASSUME NodesTyped, TablesAgree, NodesCounted,
         \/ \E n \in Nodes : CreateNode(n)
         \/ \E n \in Nodes, a \in Ips : SetIp(n, a)
         \/ \E n \in Cutting : DisconnectNode(n) \/ ConnectNode(n)
         \/ \E m \in Nodes, n \in Cutting :
              m # n /\ (DisconnectLink(m, n) \/ ConnectLink(m, n))
  PROVE  NodesTyped' /\ TablesAgree' /\ NodesCounted'
<1>1. inc' = inc
  BY DEF CreateNode, SetIp, DisconnectNode, ConnectNode, DisconnectLink, ConnectLink, SetCuts,
         nodeVars
<1>2. CASE \E n \in Nodes : CreateNode(n)
  <2>1. PICK n \in Nodes : CreateNode(n)
    BY <1>2
  <2>2. nodes' = nodes \cup {n} /\ inc[n] = 0 /\ n \notin nodes
    BY <2>1 DEF CreateNode, Fresh
  <2>3. /\ ip' \in [Nodes -> Ips \cup {None}] /\ addr_to_node' \in [Ips -> Nodes \cup {None}]
        /\ \A b \in Ips, m \in Nodes : addr_to_node'[b] = m <=> m \in nodes' /\ ip'[m] = b
        /\ \A m \in Nodes \ nodes' : ip'[m] = None
    <3>1. CASE \E a \in Ips : SetIpOf(n, a)
      BY <2>2, <3>1, SetIpFacts
    <3>2. CASE UNCHANGED <<ip, addr_to_node>>
      <4>1. ip[n] = None
        BY <2>2  DEF NodesCounted
      <4>2. None \notin Ips
        BY SocketsAssumption
      <4> QED
        BY <2>2, <3>2, <4>1, <4>2 DEF NodesTyped, TablesAgree, NodesCounted
    <3> QED
      BY <2>1, <3>1, <3>2 DEF CreateNode
  <2>4. UNCHANGED <<clogged_node, clogged_link>>
    BY <2>1 DEF CreateNode, cutVars
  <2>5. NodesTyped'
    BY <1>1, <2>2, <2>3, <2>4 DEF NodesTyped
  <2>6. TablesAgree'
    <3>1. clogged_node' \subseteq nodes' /\ clogged_link' \subseteq nodes' \X nodes'
      BY <2>2, <2>4 DEF TablesAgree
    <3> QED
      BY <2>3, <3>1 DEF TablesAgree
  <2>7. NodesCounted'
    <3>1. \A m \in nodes' : inc'[m] <= MaxInc
      BY <1>1, <2>2, SocketsAssumption DEF NodesCounted
    <3> QED
      BY <2>3, <3>1 DEF NodesCounted
  <2> QED
    BY <2>5, <2>6, <2>7
<1>3. CASE \E n \in Nodes, a \in Ips : SetIp(n, a)
  <2>1. PICK n \in Nodes, a \in Ips : SetIp(n, a)
    BY <1>3
  <2>2. nodes' = nodes \cup {n} /\ nodes' = nodes /\ UNCHANGED <<clogged_node, clogged_link>>
    BY <2>1 DEF SetIp, cutVars
  <2>3. /\ ip' \in [Nodes -> Ips \cup {None}] /\ addr_to_node' \in [Ips -> Nodes \cup {None}]
        /\ \A b \in Ips, m \in Nodes : addr_to_node'[b] = m <=> m \in nodes' /\ ip'[m] = b
        /\ \A m \in Nodes \ nodes' : ip'[m] = None
    BY <2>1, <2>2, SetIpFacts DEF SetIp
  <2> QED
    BY <1>1, <2>2, <2>3 DEF NodesTyped, TablesAgree, NodesCounted
<1>4. ASSUME NEW N, NEW L, N \subseteq nodes, L \subseteq nodes \X nodes, SetCuts(N, L)
      PROVE  NodesTyped' /\ TablesAgree' /\ NodesCounted'
  BY <1>4 DEF SetCuts, nodeVars, NodesTyped, TablesAgree, NodesCounted
<1>5. CASE \E n \in Cutting : DisconnectNode(n) \/ ConnectNode(n)
  <2>1. PICK n \in Cutting : DisconnectNode(n) \/ ConnectNode(n)
    BY <1>5
  <2>2. n \in nodes /\ clogged_node \subseteq nodes /\ clogged_link \subseteq nodes \X nodes
    BY <2>1 DEF DisconnectNode, ConnectNode, TablesAgree
  <2> QED
    BY <1>4, <2>1, <2>2 DEF DisconnectNode, ConnectNode
<1>6. CASE \E m \in Nodes, n \in Cutting :
             m # n /\ (DisconnectLink(m, n) \/ ConnectLink(m, n))
  <2>1. PICK m \in Nodes, n \in Cutting : DisconnectLink(m, n) \/ ConnectLink(m, n)
    BY <1>6
  <2>2. /\ m \in nodes /\ n \in nodes
        /\ clogged_node \subseteq nodes /\ clogged_link \subseteq nodes \X nodes
    BY <2>1 DEF DisconnectLink, ConnectLink, TablesAgree
  <2>3. BothWays(m, n) \subseteq nodes \X nodes
    BY <2>2 DEF BothWays
  <2> QED
    BY <1>4, <2>1, <2>2, <2>3 DEF DisconnectLink, ConnectLink
<1> QED
  BY <1>2, <1>3, <1>5, <1>6

\* A node is created, gets another address, is cut off or reached again.
LEMMA TablesStep ==
  ASSUME PortsInv,
         \/ \E n \in Nodes : CreateNode(n)
         \/ \E n \in Nodes, a \in Ips : SetIp(n, a)
         \/ \E n \in Cutting : DisconnectNode(n) \/ ConnectNode(n)
         \/ \E m \in Nodes, n \in Cutting :
              m # n /\ (DisconnectLink(m, n) \/ ConnectLink(m, n))
  PROVE  PortsInv'
<1>1. /\ TypeOK /\ TablesAgree /\ NodesCounted /\ InboxAddressed /\ NoStaleDatagram
      /\ NodesTyped /\ PortsTyped /\ FdsTyped /\ SocksTyped /\ MailTyped
  BY TypeParts, PortsInvParts
<1>2. /\ UNCHANGED <<inc, portVars, fdVars, obj, sock, mailVars>>
      /\ nodes \subseteq nodes' /\ \A n \in nodes' \ nodes : Fresh(n)
  BY DEF CreateNode, SetIp, DisconnectNode, ConnectNode, DisconnectLink, ConnectLink, SetCuts,
         nodeVars
<1>3. NodesTyped' /\ TablesAgree' /\ NodesCounted'
  BY <1>1, TablesFacts
<1>4. TypeOK'
  BY <1>1, <1>2, <1>3, TypeFrame, TypesNext
<1>5. PortsTyped' /\ FdsTyped'
  BY <1>1, <1>2, TypeFrame
<1>6. SocketsInv'
  <2>1. UNCHANGED <<inc, sockets, fdVars, sock>> /\ obj' = obj
    BY <1>2 DEF portVars
  <2>2. \A z \in Socks : obj'[z] # obj[z] =>
          obj[z] # "none" /\ z \in InTable(host) /\ host[Slot(z)] = z
    BY <2>1
  <2> QED
    BY <1>2, <1>3, <1>5, <2>1, <2>2, SocketsFrame
<1>7. InboxAddressed' /\ NoStaleDatagram'
  BY <1>1, <1>2, MailFrame DEF mailVars
<1> QED
  BY <1>3, <1>4, <1>6, <1>7, PortsInvParts

\* What the steps of sockets below start from.
LEMMA StepFacts ==
  ASSUME PortsInv
  PROVE  /\ TypeOK /\ TablesAgree /\ NodesCounted /\ InboxAddressed /\ NoStaleDatagram
         /\ FdsInv /\ SocketsInv /\ NodesTyped /\ PortsTyped /\ FdsTyped /\ SocksTyped /\ MailTyped
BY TypeParts, PortsInvParts

\* A socket in use that is bound has its own mailbox under its port.
LEMMA UsesBound ==
  ASSUME PortsInv, NEW s \in Socks, Uses(s), sock[s].port # None
  PROVE  sockets[Key(s)] = s
BY UsesFacts DEF PortsInv, HoldersBound

\* A failed connect advances next_ephemeral_port and nothing else.
LEMMA RefusedStep ==
  ASSUME PortsInv, NEW s \in Socks, NEW a, NEW p, ConnectRefused(s, a, p)
  PROVE  PortsInv'
<1>1. /\ UNCHANGED <<nodeVars, cutVars, sockets, fdVars, obj, sock, mailVars>>
      /\ AdvanceEphemeral(sock[s].node, "tcp", 0) /\ EphemeralFree(sock[s].node, "tcp") # {}
      /\ Uses(s)
  BY DEF ConnectRefused, CanConnect, CanBind
<1>2. sock[s].node \in Nodes
  BY <1>1, StepFacts, UsesFacts
<1>3. PortsTyped'
  <2>1. next_ephemeral_port' \in [Nodes -> Ports]
    BY <1>1, <1>2, StepFacts, AdvanceTypes DEF Types
  <2> QED
    BY <1>1, <2>1, StepFacts DEF PortsTyped
<1>4. NodesTyped' /\ FdsTyped' /\ SocksTyped' /\ MailTyped'
  BY <1>1, StepFacts, TypeFrame
<1>5. SocketsInv'
  <2>1. UNCHANGED <<nodes, inc, sockets, fdVars, sock>> /\ obj' = obj
    BY <1>1 DEF nodeVars
  <2> QED
    BY <1>3, <1>4, <2>1, SocketsFrame
<1>6. TablesAgree' /\ NodesCounted' /\ InboxAddressed' /\ NoStaleDatagram'
  BY <1>1, StepFacts, NodesFrame, MailFrame DEF mailVars
<1> QED
  BY <1>3, <1>4, <1>5, <1>6, TypesNext, PortsInvParts

\* from_std and into_std: the object that holds the descriptor is of another kind.
LEMMA WrapStep ==
  ASSUME PortsInv, NEW s \in Socks, NEW w \in {"std", "owned"}, Wrap(s, w)
  PROVE  PortsInv'
<1>1. /\ Uses(s) /\ obj' = [obj EXCEPT ![s] = w]
      /\ UNCHANGED <<nodeVars, cutVars, portVars, fdVars, sock, mailVars>>
  BY DEF Wrap
<1>2. NodesTyped' /\ PortsTyped' /\ FdsTyped' /\ MailTyped'
  BY <1>1, StepFacts, TypeFrame
<1>3. SocksTyped'
  BY <1>1, StepFacts DEF SocksTyped
<1>4. obj[s] # "none" /\ s \in InTable(host) /\ host[Slot(s)] = s
  BY <1>1, StepFacts, UsesFacts DEF Uses, Held
<1>5. SocketsInv'
  <2>1. UNCHANGED <<nodes, inc, sockets, fdVars, sock>>
    BY <1>1 DEF nodeVars, portVars
  <2>2. \A z \in Socks : obj'[z] # obj[z] =>
          obj[z] # "none" /\ z \in InTable(host) /\ host[Slot(z)] = z
    BY <1>1, <1>4, StepFacts DEF SocksTyped
  <2> QED
    BY <1>2, <2>1, <2>2, SocketsFrame
<1>6. TablesAgree' /\ NodesCounted' /\ InboxAddressed' /\ NoStaleDatagram'
  BY <1>1, StepFacts, NodesFrame, MailFrame DEF mailVars
<1> QED
  BY <1>2, <1>3, <1>5, <1>6, TypesNext, PortsInvParts

\* A datagram is sent, is delivered or is received.
LEMMA MailStep ==
  ASSUME PortsInv,
         \/ \E s \in Socks, a \in Ips \cup {Loopback}, p \in Ports : Send(s, a, p)
         \/ \E m \in flight : Deliver(m)
         \/ \E s \in Socks, x \in inbox : RecvMsg(s, x)
  PROVE  PortsInv'
<1>1. UNCHANGED <<nodeVars, cutVars, portVars, fdVars, obj, sock, backlog>>
  BY DEF Send, Deliver, RecvMsg
<1>2. NodesTyped' /\ PortsTyped' /\ FdsTyped' /\ SocksTyped'
  BY <1>1, StepFacts, TypeFrame
<1>3. SocketsInv'
  <2>1. UNCHANGED <<nodes, inc, sockets, fdVars, sock>> /\ obj' = obj
    BY <1>1 DEF nodeVars, portVars
  <2> QED
    BY <1>2, <2>1, SocketsFrame
<1>4. MailTyped' /\ InboxAddressed' /\ NoStaleDatagram'
  <2> USE DEF MailTyped
  <2>0. MailTyped /\ InboxAddressed /\ NoStaleDatagram /\ backlog' = backlog
    BY <1>1, StepFacts
  <2>1. ASSUME NEW s \in Socks, NEW a \in Ips \cup {Loopback}, NEW p \in Ports, Send(s, a, p)
        PROVE  MailTyped' /\ InboxAddressed' /\ NoStaleDatagram'
    <3> DEFINE n == sock[s].node
               d == DstNode(n, a)
    <3>1. d \in Nodes
      <4>1. d # None /\ n \in Nodes
        BY <2>1, StepFacts, UsesFacts DEF Send
      <4>2. CASE a = Loopback
        BY <4>1, <4>2 DEF DstNode
      <4>3. CASE a # Loopback
        <5>1. d = addr_to_node[a] /\ a \in Ips
          BY <4>3 DEF DstNode
        <5> QED
          BY <4>1, <5>1, StepFacts DEF NodesTyped
      <4> QED
        BY <4>2, <4>3
    <3>2. <<d, p, "udp">> \in Keys
      BY <3>1 DEF Keys, Types
    <3>3. sockets[<<d, p, "udp">>] \in Socks
      BY <2>1, <3>2, StepFacts DEF PortsTyped, Send
    <3>4. inbox' = inbox /\ rcvd' = rcvd
      BY <2>1 DEF Send
    <3>5. flight' \subseteq Msgs
      <4>1. PICK i \in Unsent :
              flight' = flight \cup
                {[id |-> i, node |-> d, tag |-> p, to |-> sockets[<<d, p, "udp">>]]}
        BY <2>1 DEF Send
      <4>2. i \in 1 .. MaxMsgs
        BY DEF Unsent
      <4>3. [id |-> i, node |-> d, tag |-> p, to |-> sockets[<<d, p, "udp">>]] \in Msgs
        BY <3>1, <3>3, <4>2 DEF Msgs
      <4> QED
        BY <2>0, <4>1, <4>3
    <3> QED
      BY <2>0, <3>4, <3>5, MailFrame
  <2>2. ASSUME NEW m \in flight, Deliver(m)
        PROVE  MailTyped' /\ InboxAddressed' /\ NoStaleDatagram'
    <3>1. m \in Msgs /\ m.to \in Socks
      BY <2>0 DEF Msgs
    <3>2. flight' \subseteq flight /\ inbox' \subseteq inbox \cup {<<m.to, m>>} /\ rcvd' = rcvd
      BY <2>2 DEF Deliver, Kept
    <3>3. InboxAddressed' /\ NoStaleDatagram'
      BY <2>0, <3>2 DEF InboxAddressed, NoStaleDatagram
    <3> QED
      BY <2>0, <3>1, <3>2, <3>3
  <2>3. ASSUME NEW s \in Socks, NEW x \in inbox, RecvMsg(s, x)
        PROVE  MailTyped' /\ InboxAddressed' /\ NoStaleDatagram'
    <3>1. x \in Socks \X Msgs /\ x[2].to = x[1]
      BY <2>0 DEF InboxAddressed
    <3>2. x[1] = s
      <4>1. Uses(s) /\ sock[s].port # None /\ x[1] = sockets[Key(s)]
        BY <2>3 DEF RecvMsg, HasTag
      <4> QED
        BY <4>1, UsesBound
    <3>3. inbox' \subseteq inbox /\ rcvd' = rcvd \cup {<<s, x[2]>>} /\ flight' = flight
      BY <2>3 DEF RecvMsg
    <3>4. <<s, x[2]>> \in Socks \X Msgs
      BY <3>1
    <3>5. InboxAddressed' /\ NoStaleDatagram'
      BY <2>0, <3>1, <3>2, <3>3 DEF InboxAddressed, NoStaleDatagram
    <3> QED
      BY <2>0, <3>3, <3>4, <3>5
  <2> QED
    BY <2>1, <2>2, <2>3
<1>5. TablesAgree' /\ NodesCounted'
  BY <1>1, StepFacts, NodesFrame
<1> QED
  BY <1>2, <1>3, <1>4, <1>5, TypesNext, PortsInvParts

-----------------------------------------------------------------------------
(* Steps that make a socket or bind it.                                     *)

\* A new socket has a descriptor that no other has, and it is of a living task.
LEMMA AddStep ==
  ASSUME PortsInv, NEW s \in Socks, NEW n \in nodes, NEW t \in Types,
         NEW p \in Ports \cup {None}, NEW connected \in BOOLEAN,
         AddSocket(s, n, t, p, connected), UNCHANGED nodeVars
  PROVE  /\ SocketsBorn' /\ SlotsKnown' /\ ObjectsInTable' /\ FdsOwned' /\ NoDoubleClose'
         /\ FdsTyped' /\ SocksTyped'
         /\ s \notin Holders /\ Holders' = Holders \cup {s} /\ Living(s)'
         /\ sock[s] = None
         /\ sock'[s].node = n /\ sock'[s].ty = t /\ sock'[s].port = p
         /\ \A z \in Socks \ {s} : sock'[z] = sock[z]
<1> DEFINE f == NextFd
<1>1. FdsInv /\ NodesTyped /\ FdsTyped /\ SocksTyped /\ SocketsInv
  BY StepFacts
<1>2. /\ f \in Fds /\ f \notin open /\ <<n, f>> \in Nodes \X Fds
      /\ host[<<n, f>>] = None
      /\ sock[s] = None /\ obj[s] = "none"
      /\ sock'[s] # None /\ sock'[s].node = n /\ sock'[s].inc = inc[n]
      /\ sock'[s].fd = f /\ sock'[s].ty = t /\ sock'[s].port = p
      /\ \A z \in Socks \ {s} : sock'[z] = sock[z] /\ obj'[z] = obj[z]
      /\ obj'[s] = "std" /\ open' = open \cup {f}
      /\ host' = [host EXCEPT ![<<n, f>>] = s]
      /\ panic' = panic /\ FdsTyped' /\ SocksTyped'
  BY <1>1, AddFacts
<1>3. s # None /\ n \in Nodes
  BY <1>1, SocketsAssumption DEF NodesTyped
<1> HIDE DEF f
<1>4. ASSUME NEW x \in Nodes \X Fds
      PROVE  host'[x] = IF x = <<n, f>> THEN s ELSE host[x]
  BY <1>1, <1>2 DEF FdsTyped
<1>5. ASSUME NEW x \in Nodes \X Fds, host[x] # None
      PROVE  host[x] \in Socks \ {s} /\ x # <<n, f>> /\ host'[x] = host[x]
  <2>1. sock[host[x]] # None /\ host[x] \in Socks
    BY <1>1, <1>5 DEF SocketsInv, SlotsKnown, FdsTyped
  <2> QED
    BY <1>2, <1>4, <1>5, <2>1
<1>6. Slot(s)' = <<n, f>> /\ \A z \in Socks \ {s} : Slot(z)' = Slot(z)
  BY <1>2 DEF Slot
<1>7. SlotsKnown'
  <2>1. ASSUME NEW x \in Nodes \X Fds, host'[x] # None
        PROVE  sock'[host'[x]] # None /\ Slot(host[x])' = x
    <3>0. PICK z : z = host'[x]
      OBVIOUS
    <3>1. CASE x = <<n, f>>
      BY <1>2, <1>4, <1>6, <3>0, <3>1
    <3>2. CASE x # <<n, f>>
      <4>1. z = host[x] /\ z # None
        BY <1>4, <2>1, <3>0, <3>2
      <4>2. z \in Socks \ {s} /\ sock[z] # None /\ Slot(z) = x
        BY <1>1, <1>5, <4>1 DEF SocketsInv, SlotsKnown
      <4> QED
        BY <1>2, <1>6, <3>0, <4>2
    <3> QED
      BY <3>1, <3>2
  <2> QED
    BY <2>1 DEF SlotsKnown
<1>8. ObjectsInTable'
  <2>1. ASSUME NEW z \in Socks \ {s}, obj'[z] # "none"
        PROVE  /\ sock'[z] # None
               /\ obj'[z] = "std" => host'[Slot(z)'] = z
               /\ obj'[z] = "owned" /\ sock'[z].node \in nodes' => host'[Slot(z)'] = z
    <3>1. obj[z] = obj'[z] /\ sock'[z] = sock[z] /\ nodes' = nodes
      BY <1>2 DEF nodeVars
    <3>2. sock[z] # None
      BY <1>1, <2>1, <3>1 DEF SocketsInv, ObjectsInTable, Held
    <3>3. Slot(z) \in Nodes \X Fds /\ z # None
      BY <1>1, <3>2, SocketFields, SocketsAssumption
    <3>4. host[Slot(z)] = z => host'[Slot(z)'] = z
      BY <1>5, <1>6, <3>3
    <3>5. /\ obj[z] = "std" => host[Slot(z)] = z
          /\ obj[z] = "owned" /\ sock[z].node \in nodes => host[Slot(z)] = z
      BY <1>1 DEF SocketsInv, ObjectsInTable
    <3> QED
      BY <3>1, <3>2, <3>4, <3>5
  <2>2. sock'[s] # None /\ obj'[s] = "std" /\ host'[Slot(s)'] = s
    BY <1>2, <1>4, <1>6
  <2>3. ASSUME NEW z \in Socks, obj'[z] # "none"
        PROVE  /\ sock'[z] # None
               /\ obj'[z] = "std" => host'[Slot(z)'] = z
               /\ obj'[z] = "owned" /\ sock'[z].node \in nodes' => host'[Slot(z)'] = z
    BY <2>1, <2>2, <2>3
  <2> QED
    BY <2>3 DEF ObjectsInTable, Held
<1>9. FdsOwned'
  <2>1. DOMAIN host = Nodes \X Fds /\ DOMAIN host' = Nodes \X Fds
    BY <1>1, <1>2 DEF FdsTyped
  <2>2. open = {x[2] : x \in {y \in Nodes \X Fds : host[y] # None}}
    BY <1>1, <2>1 DEF SocketsInv, FdsOwned
  <2>3. ASSUME NEW x \in Nodes \X Fds, NEW y \in Nodes \X Fds,
               host'[x] # None, host'[y] # None, x[2] = y[2]
        PROVE  x = y
    <3>1. CASE x # <<n, f>> /\ y # <<n, f>>
      BY <1>1, <1>4, <2>1, <2>3, <3>1 DEF SocketsInv, FdsOwned
    <3>2. CASE x = <<n, f>> /\ y # <<n, f>>
      <4>1. host[y] # None /\ y[2] = f
        BY <1>4, <2>3, <3>2
      <4> QED
        BY <1>2, <2>2, <4>1
    <3>3. CASE x # <<n, f>> /\ y = <<n, f>>
      <4>1. host[x] # None /\ x[2] = f
        BY <1>4, <2>3, <3>3
      <4> QED
        BY <1>2, <2>2, <4>1
    <3> QED
      BY <3>1, <3>2, <3>3
  <2>4. open' = {x[2] : x \in {y \in Nodes \X Fds : host'[y] # None}}
    <3>1. ASSUME NEW g \in open'
          PROVE  \E x \in Nodes \X Fds : host'[x] # None /\ x[2] = g
      <4>1. CASE g = f
        BY <1>2, <1>3, <1>4, <4>1
      <4>2. CASE g # f
        <5>1. PICK x \in Nodes \X Fds : host[x] # None /\ x[2] = g
          BY <1>2, <2>2, <4>2, <3>1
        <5> QED
          BY <1>5, <5>1
      <4> QED
        BY <4>1, <4>2
    <3>2. ASSUME NEW x \in Nodes \X Fds, host'[x] # None
          PROVE  x[2] \in open'
      BY <1>2, <1>4, <2>2, <3>2
    <3> QED
      BY <3>1, <3>2
  <2> QED
    BY <2>1, <2>3, <2>4 DEF FdsOwned
<1>10. SocketsBorn'
  <2>1. UNCHANGED <<nodes, inc>> /\ inc[n] \in Nat
    BY <1>1, <1>3, SocketsAssumption DEF nodeVars, NodesTyped
  <2>2. ASSUME NEW z \in Socks, sock'[z] # None
        PROVE  ~Fresh(sock[z].node)' /\ sock'[z].inc <= inc'[sock'[z].node]
    <3>1. CASE z = s
      BY <1>2, <2>1, <3>1 DEF Fresh
    <3>2. CASE z # s
      BY <1>1, <1>2, <2>1, <2>2, <3>2 DEF Fresh, SocketsInv, SocketsBorn
    <3> QED
      BY <3>1, <3>2
  <2> QED
    BY <2>2 DEF SocketsBorn
<1>11. NoDoubleClose'
  BY <1>1, <1>2 DEF SocketsInv, NoDoubleClose
<1>12. s \notin Holders
  BY <1>1, <1>2, HolderFacts
<1>13. Holders' = Holders \cup {s}
  <2>1. InTable(host') = InTable(host) \cup {s}
    <3>1. DOMAIN host = Nodes \X Fds /\ DOMAIN host' = Nodes \X Fds
      BY <1>1, <1>2 DEF FdsTyped
    <3>2. ASSUME NEW x \in Nodes \X Fds, host'[x] # None
          PROVE  host'[x] \in InTable(host) \cup {s}
      BY <1>4, <3>1, <3>2 DEF InTable
    <3>3. ASSUME NEW x \in Nodes \X Fds, host[x] # None
          PROVE  host[x] \in InTable(host')
      BY <1>5, <3>1, <3>3 DEF InTable
    <3>4. s \in InTable(host')
      BY <1>2, <1>3, <1>4, <3>1 DEF InTable
    <3> QED
      BY <3>1, <3>2, <3>3, <3>4 DEF InTable
  <2>2. Sharing(obj') = Sharing(obj)
    BY <1>2 DEF Sharing
  <2> QED
    BY <2>1, <2>2 DEF Holders
<1>14. Living(s)'
  BY <1>2 DEF Living, nodeVars
<1> QED
  BY <1>2, <1>7, <1>8, <1>9, <1>10, <1>11, <1>12, <1>13, <1>14

\* socket: it has no endpoint yet.
LEMMA SocketStep ==
  ASSUME PortsInv, NEW s \in Socks, NEW n \in Nodes, NEW t \in Types, Socket(s, n, t)
  PROVE  PortsInv'
<1>1. /\ n \in nodes /\ AddSocket(s, n, t, None, FALSE)
      /\ UNCHANGED <<nodeVars, cutVars, portVars, mailVars>>
  BY DEF Socket
<1>2. /\ SocketsBorn' /\ SlotsKnown' /\ ObjectsInTable' /\ FdsOwned' /\ NoDoubleClose'
      /\ FdsTyped' /\ SocksTyped'
      /\ s \notin Holders /\ Holders' = Holders \cup {s}
      /\ sock'[s].port = None
      /\ \A z \in Socks \ {s} : sock'[z] = sock[z]
  BY <1>1, AddStep
<1>3. NodesTyped' /\ PortsTyped' /\ MailTyped'
  BY <1>1, StepFacts, TypeFrame
<1>4. ASSUME NEW z \in Holders
      PROVE  z \in Socks \ {s} /\ sock'[z] = sock[z]
  BY <1>2, StepFacts, HolderFacts
<1>5. UNCHANGED <<nodes, inc, sockets>>
  BY <1>1 DEF nodeVars, portVars
<1>6. HoldersBound'
  <2>1. ASSUME NEW z \in Holders', Living(z)', sock'[z].port # None
        PROVE  sockets'[Key(z)'] = z
    <3>1. z \in Holders
      BY <1>2, <2>1
    <3>2. Living(z) /\ sock[z].port # None /\ Key(z)' = Key(z)
      BY <1>4, <1>5, <2>1, <3>1 DEF Living, Key
    <3> QED
      BY <1>5, <3>1, <3>2, StepFacts DEF SocketsInv, HoldersBound
  <2> QED
    BY <2>1 DEF HoldersBound
<1>7. PortsOwned'
  <2>1. ASSUME NEW k \in Keys, sockets'[k] # None
        PROVE  sockets'[k] \in Holders' /\ Living(sockets[k])' /\ Key(sockets[k])' = k
    <3>0. PICK z : z = sockets[k]
      OBVIOUS
    <3>1. z \in Holders /\ Living(z) /\ Key(z) = k
      BY <1>5, <2>1, <3>0, StepFacts DEF SocketsInv, PortsOwned, Holders
    <3>2. z \in Holders' /\ Living(z)' /\ Key(z)' = k
      BY <1>2, <1>4, <1>5, <3>1 DEF Living, Key
    <3> QED
      BY <1>5, <3>0, <3>2
  <2> QED
    BY <1>5, <2>1 DEF PortsOwned, Holders
<1>8. TablesAgree' /\ NodesCounted' /\ InboxAddressed' /\ NoStaleDatagram'
  BY <1>1, StepFacts, NodesFrame, MailFrame DEF mailVars
<1> QED
  BY <1>2, <1>3, <1>6, <1>7, <1>8, TypesNext, PortsInvParts DEF SocketsInv

\* The endpoint of a socket in use gets the free port q.
LEMMA BindFacts ==
  ASSUME PortsInv, NEW s \in Socks, Uses(s), sock[s].port = None, NEW q \in Ports,
         sockets[<<sock[s].node, q, sock[s].ty>>] = None,
         sockets' = [sockets EXCEPT ![<<sock[s].node, q, sock[s].ty>>] = s],
         NEW new \in SocketData, sock' = [sock EXCEPT ![s] = new],
         new.node = sock[s].node, new.inc = sock[s].inc, new.fd = sock[s].fd,
         new.ty = sock[s].ty, new.port = q,
         UNCHANGED <<nodeVars, cutVars, fdVars, obj>>
  PROVE  SocksTyped' /\ SocketsInv'
<1>1. FdsInv /\ NodesTyped /\ PortsTyped /\ FdsTyped /\ SocksTyped /\ SocketsInv
  BY StepFacts
<1>2. /\ sock[s] # None /\ s \in InTable(host) /\ s \in Holders /\ Living(s) /\ new # None
  BY <1>1, UsesFacts, NoSocketAssumption
<1>3. sock'[s] = new /\ \A z \in Socks \ {s} : sock'[z] = sock[z]
  BY <1>1 DEF SocksTyped
<1>4. SocksTyped' /\ NodesTyped' /\ FdsTyped'
  BY <1>1, TypeFrame DEF SocksTyped
<1>5. SlotsKept /\ UNCHANGED <<nodes, inc>> /\ UNCHANGED <<open, host, panic, obj>>
  BY <1>2, <1>3 DEF SlotsKept, nodeVars, fdVars
<1>6. SocketsBorn'
  <2>1. \A n \in Nodes : ~Fresh(n) => ~(n \notin nodes' /\ inc'[n] = 0)
    BY <1>5 DEF Fresh
  <2>2. \A n \in Nodes : inc[n] \in Nat
    BY <1>1, SocketsAssumption DEF NodesTyped
  <2>3. \A n \in Nodes : inc[n] <= inc'[n]
    BY <1>5, <2>2
  <2> QED
    BY <1>1, <1>4, <1>5, <2>1, <2>3, BornStep DEF SocketsInv
<1>7. SlotsKnown' /\ ObjectsInTable' /\ FdsOwned' /\ NoDoubleClose'
  <2>1. \A z \in Socks : sock[z] # None => sock'[z] # None
    BY <1>2, <1>3
  <2>2. open' = {x[2] : x \in {y \in DOMAIN host' : host'[y] # None}}
    BY <1>1, <1>5 DEF SocketsInv, FdsOwned
  <2>3. ASSUME NEW z \in Socks
        PROVE  /\ obj'[z] = "std" => host'[Slot(z)] = z
               /\ obj'[z] = "owned" /\ sock[z].node \in nodes' => host'[Slot(z)] = z
    BY <1>1, <1>5 DEF SocketsInv, ObjectsInTable
  <2> QED
    BY <1>1, <1>4, <1>5, <2>1, <2>2, <2>3, FdsStep
<1>8. Holders' = Holders
  BY <1>5 DEF Holders, InTable, Sharing
<1>9. HoldersBound' /\ PortsOwned'
  <2> DEFINE k == <<sock[s].node, q, sock[s].ty>>
  <2>1. k \in Keys
    BY <1>1, <1>2, SocketFields DEF Keys
  <2>2. ASSUME NEW r \in Keys, sockets[r] = s
        PROVE  FALSE
    <3>1. s # None
      BY SocketsAssumption
    <3>2. Key(s) = r
      BY <1>1, <2>2, <3>1 DEF SocketsInv, PortsOwned
    <3>3. r[2] \in Ports /\ Key(s)[2] = None
      BY <2>2 DEF Keys, Key
    <3>4. None \notin Ports
      BY SocketsAssumption DEF Ports
    <3> QED
      BY <3>2, <3>3, <3>4
  <2>3. Key(s)' = k
    BY <1>3 DEF Key
  <2>4. Living(s)'
    BY <1>2, <1>3, <1>5 DEF Living
  <2> HIDE DEF k
  <2>5. sockets[k] = None /\ sockets' = [sockets EXCEPT ![k] = s]
    BY DEF k
  <2> QED
    BY <1>1, <1>2, <1>3, <1>5, <1>8, <2>1, <2>2, <2>3, <2>4, <2>5, BindingStep
       DEF SocketsInv
<1> QED
  BY <1>4, <1>6, <1>7, <1>9 DEF SocketsInv

\* The mailboxes after a binding step, whose waiting connections are counted in waiting.
LEMMA BoundMail ==
  ASSUME PortsInv, NEW tbl \in [Keys -> Socks \cup {None}], NEW waiting \in [Socks -> Nat],
         SetSockets(tbl, waiting), UNCHANGED <<flight, rcvd>>
  PROVE  MailTyped' /\ InboxAddressed' /\ NoStaleDatagram'
<1>1. /\ backlog' \in [Socks -> Nat]
      /\ inbox' \subseteq inbox /\ inbox' \subseteq Socks \X Msgs
  BY StepFacts, SetSocketsTypes
<1>2. MailTyped'
  BY <1>1, StepFacts DEF MailTyped
<1> QED
  BY <1>1, <1>2, StepFacts, MailFrame

\* The table and the port that Network::bind gives.
LEMMA BoundFacts ==
  ASSUME PortsInv, NEW n \in Nodes, NEW t \in Types, NEW p \in Ports, NEW s \in Socks,
         CanBind(n, t, p), AdvanceEphemeral(n, t, p)
  PROVE  /\ PortFor(n, t, p) \in Ports
         /\ sockets[<<n, PortFor(n, t, p), t>>] = None
         /\ <<n, PortFor(n, t, p), t>> \in Keys
         /\ Bound(n, t, p, s) = [sockets EXCEPT ![<<n, PortFor(n, t, p), t>>] = s]
         /\ Bound(n, t, p, s) \in [Keys -> Socks \cup {None}]
         /\ next_ephemeral_port' \in [Nodes -> Ports]
<1>1. TypeOK /\ PortsTyped
  BY StepFacts
<1>2. /\ PortFor(n, t, p) \in Ports /\ sockets[<<n, PortFor(n, t, p), t>>] = None
  BY <1>1, PortFound
<1>3. next_ephemeral_port' \in [Nodes -> Ports]
  BY <1>1, AdvanceTypes DEF CanBind
<1>4. Bound(n, t, p, s) \in [Keys -> Socks \cup {None}]
  BY <1>1 DEF Bound, PortsTyped
<1> QED
  BY <1>2, <1>3, <1>4 DEF Bound, Keys

\* bind.
LEMMA BindStep ==
  ASSUME PortsInv, NEW s \in Socks, NEW p \in Ports, Bind(s, p)
  PROVE  PortsInv'
<1> DEFINE n == sock[s].node
           t == sock[s].ty
           q == PortFor(n, t, p)
           new == [sock[s] EXCEPT !.port = q]
<1>1. /\ Uses(s) /\ sock[s].port = None /\ CanBind(n, t, p) /\ AdvanceEphemeral(n, t, p)
      /\ SetSockets(Bound(n, t, p, s), backlog)
      /\ sock' = [sock EXCEPT ![s] = new]
      /\ UNCHANGED <<nodeVars, cutVars, fdVars, obj, flight, rcvd>>
  BY DEF Bind
<1>2. sock[s] \in SocketData /\ n \in Nodes /\ t \in Types
  BY <1>1, StepFacts, UsesFacts, SocketFields
<1>3. /\ q \in Ports /\ sockets[<<n, q, t>>] = None
      /\ Bound(n, t, p, s) = [sockets EXCEPT ![<<n, q, t>>] = s]
      /\ Bound(n, t, p, s) \in [Keys -> Socks \cup {None}]
      /\ next_ephemeral_port' \in [Nodes -> Ports]
  BY <1>1, <1>2, BoundFacts
<1>4. /\ new \in SocketData /\ new.node = n /\ new.inc = sock[s].inc /\ new.fd = sock[s].fd
      /\ new.ty = t /\ new.port = q
  BY <1>2, <1>3 DEF SocketData
<1>5. sockets' = [sockets EXCEPT ![<<n, q, t>>] = s]
  BY <1>1, <1>3 DEF SetSockets
<1> HIDE DEF new, q
<1>6. SocksTyped' /\ SocketsInv'
  BY <1>1, <1>3, <1>4, <1>5, BindFacts
<1>7. MailTyped' /\ InboxAddressed' /\ NoStaleDatagram'
  <2>1. backlog \in [Socks -> Nat]
    BY StepFacts DEF MailTyped
  <2> QED
    BY <1>1, <1>3, <2>1, BoundMail
<1>8. PortsTyped'
  BY <1>1, <1>3 DEF PortsTyped, SetSockets
<1>9. NodesTyped' /\ FdsTyped' /\ TablesAgree' /\ NodesCounted'
  BY <1>1, StepFacts, TypeFrame, NodesFrame
<1> QED
  BY <1>6, <1>7, <1>8, <1>9, TypesNext, PortsInvParts

\* connect: an ephemeral port for the caller, and one more waits at the listener.
LEMMA ConnectStep ==
  ASSUME PortsInv, NEW s \in Socks, NEW a, NEW p, Connect(s, a, p)
  PROVE  PortsInv'
<1> DEFINE n == sock[s].node
           box == Target(s, a, p)
           q == PortFor(n, "tcp", 0)
           new == [sock[s] EXCEPT !.port = q, !.peer = TRUE]
<1>1. /\ Uses(s) /\ sock[s].port = None /\ sock[s].ty = "tcp"
      /\ CanBind(n, "tcp", 0) /\ AdvanceEphemeral(n, "tcp", 0)
      /\ SetSockets(Bound(n, "tcp", 0, s), Signalled(box))
      /\ sock' = [sock EXCEPT ![s] = new]
      /\ UNCHANGED <<nodeVars, cutVars, fdVars, obj, flight, rcvd>>
  BY DEF Connect, CanConnect, PortFor
<1>2. sock[s] \in SocketData /\ n \in Nodes /\ 0 \in Ports /\ "tcp" \in Types
  BY <1>1, StepFacts, UsesFacts, SocketFields, SocketsAssumption DEF Ports, Types
<1>3. /\ q \in Ports /\ sockets[<<n, q, "tcp">>] = None
      /\ Bound(n, "tcp", 0, s) = [sockets EXCEPT ![<<n, q, "tcp">>] = s]
      /\ Bound(n, "tcp", 0, s) \in [Keys -> Socks \cup {None}]
      /\ next_ephemeral_port' \in [Nodes -> Ports]
  BY <1>1, <1>2, BoundFacts
<1>4. /\ new \in SocketData /\ new.node = n /\ new.inc = sock[s].inc /\ new.fd = sock[s].fd
      /\ new.ty = sock[s].ty /\ new.port = q
  BY <1>2, <1>3 DEF SocketData
<1>5. sockets' = [sockets EXCEPT ![<<n, q, sock[s].ty>>] = s]
  BY <1>1, <1>3 DEF SetSockets
<1>6. Signalled(box) \in [Socks -> Nat]
  <2>1. ASSUME NEW b
        PROVE  Signalled(b) \in [Socks -> Nat]
    <3>1. backlog \in [Socks -> Nat]
      BY StepFacts DEF MailTyped
    <3>2. \A z \in Socks : backlog[z] + 1 \in Nat
      BY <3>1
    <3> QED
      BY <3>1, <3>2 DEF Signalled
  <2> QED
    BY <2>1
<1> HIDE DEF new, q
<1>7. SocksTyped' /\ SocketsInv'
  BY <1>1, <1>3, <1>4, <1>5, BindFacts
<1>8. MailTyped' /\ InboxAddressed' /\ NoStaleDatagram'
  BY <1>1, <1>3, <1>6, BoundMail
<1>9. PortsTyped'
  BY <1>1, <1>3 DEF PortsTyped, SetSockets
<1>10. NodesTyped' /\ FdsTyped' /\ TablesAgree' /\ NodesCounted'
  BY <1>1, StepFacts, TypeFrame, NodesFrame
<1> QED
  BY <1>7, <1>8, <1>9, <1>10, TypesNext, PortsInvParts

\* accept: a new socket with an ephemeral port, for one that waited.
LEMMA AcceptStep ==
  ASSUME PortsInv, NEW s \in Socks, NEW c \in Socks, Accept(s, c)
  PROVE  PortsInv'
<1> DEFINE n == sock[s].node
           box == sockets[Key(s)]
           q == PortFor(n, "tcp", 0)
           k == <<n, q, "tcp">>
<1>1. /\ Uses(s) /\ sock[s].port # None /\ box # None /\ backlog[box] > 0
      /\ CanBind(n, "tcp", 0) /\ AdvanceEphemeral(n, "tcp", 0)
      /\ AddSocket(c, n, "tcp", q, TRUE)
      /\ SetSockets(Bound(n, "tcp", 0, c), Accepted(box))
      /\ UNCHANGED <<nodeVars, cutVars, flight, rcvd>>
  BY DEF Accept, PortFor
<1>2. n \in Nodes /\ n \in nodes /\ 0 \in Ports /\ "tcp" \in Types /\ TRUE \in BOOLEAN
  BY <1>1, StepFacts, UsesFacts, SocketsAssumption DEF Ports, Types
<1>3. /\ q \in Ports /\ sockets[k] = None /\ k \in Keys
      /\ Bound(n, "tcp", 0, c) = [sockets EXCEPT ![k] = c]
      /\ Bound(n, "tcp", 0, c) \in [Keys -> Socks \cup {None}]
      /\ next_ephemeral_port' \in [Nodes -> Ports]
  BY <1>1, <1>2, BoundFacts
<1> HIDE DEF q
<1>4. /\ SocketsBorn' /\ SlotsKnown' /\ ObjectsInTable' /\ FdsOwned' /\ NoDoubleClose'
      /\ FdsTyped' /\ SocksTyped'
      /\ c \notin Holders /\ Holders' = Holders \cup {c} /\ Living(c)'
      /\ sock'[c].node = n /\ sock'[c].ty = "tcp" /\ sock'[c].port = q
      /\ \A z \in Socks \ {c} : sock'[z] = sock[z]
  <2>1. UNCHANGED nodeVars /\ q \in Ports \cup {None}
    BY <1>1, <1>3
  <2>2. PICK m \in nodes : m = n
    BY <1>2
  <2>3. AddSocket(c, m, "tcp", q, TRUE)
    BY <1>1, <2>2
  <2> QED
    BY Zenon, <1>2, <2>1, <2>2, <2>3, AddStep
<1>5. sockets' = [sockets EXCEPT ![k] = c]
  BY <1>1, <1>3 DEF SetSockets
<1>6. Accepted(box) \in [Socks -> Nat]
  <2>1. box \in Socks
    <3>1. Key(s) \in Keys
      BY <1>1, StepFacts, UsesFacts, SocketFields
    <3> QED
      BY <1>1, <3>1, StepFacts DEF PortsTyped
  <2>2. backlog \in [Socks -> Nat] /\ backlog[box] - 1 \in Nat
    BY <1>1, <2>1, StepFacts DEF MailTyped
  <2> QED
    BY <2>1, <2>2 DEF Accepted
<1>7. HoldersBound' /\ PortsOwned'
  <2>1. ASSUME NEW r \in Keys, sockets[r] = c
        PROVE  FALSE
    <3>1. c # None
      BY SocketsAssumption
    <3> QED
      BY <1>4, <2>1, <3>1, StepFacts DEF SocketsInv, PortsOwned, Holders
  <2>2. Key(c)' = k
    BY <1>4 DEF Key
  <2>3. UNCHANGED <<nodes, inc>>
    BY <1>1 DEF nodeVars
  <2>4. FdsInv /\ PortsTyped /\ HoldersBound /\ PortsOwned
    BY StepFacts DEF SocketsInv
  <2>5. k \in Keys /\ sockets[k] = None
    BY <1>3
  <2>6. c \in Holders' /\ Holders' \subseteq Holders \cup {c} /\ Holders \subseteq Holders' \cup {c}
    BY <1>4
  <2> HIDE DEF k
  <2> QED
    BY <1>4, <1>5, <2>1, <2>2, <2>3, <2>4, <2>5, <2>6, BindingStep
<1>8. MailTyped' /\ InboxAddressed' /\ NoStaleDatagram'
  BY <1>1, <1>3, <1>6, BoundMail
<1>9. PortsTyped'
  BY <1>1, <1>3 DEF PortsTyped, SetSockets
<1>10. NodesTyped' /\ TablesAgree' /\ NodesCounted'
  BY <1>1, StepFacts, TypeFrame, NodesFrame
<1> QED
  BY <1>4, <1>7, <1>8, <1>9, <1>10, TypesNext, PortsInvParts DEF SocketsInv

-----------------------------------------------------------------------------
(* Steps that drop an object, kill a node or delete it.                     *)

\* What is still referred to is remembered as it was.
LEMMA RememberFacts ==
  ASSUME SocksTyped, NEW h, NEW o, Remember(h, o)
  PROVE  /\ SlotsKept /\ KeysKept
         /\ sock' \in [Socks -> SocketData \cup {None}]
         /\ \A z \in Socks : z \in InTable(h) \/ o[z] # "none" => sock'[z] = sock[z]
<1>1. \A z \in Socks :
        sock'[z] = IF z \in InTable(h) \cup {r \in Socks : o[r] # "none"} THEN sock[z] ELSE None
  BY DEF Remember
<1>2. sock' \in [Socks -> SocketData \cup {None}]
  BY DEF Remember, SocksTyped
<1>3. \A z \in Socks : sock'[z] # None => sock'[z] = sock[z]
  BY <1>1
<1> QED
  BY <1>1, <1>2, <1>3 DEF SlotsKept, KeysKept

\* Incarnations and nodes as they were, or one incarnation more.
LEMMA BornKept ==
  ASSUME SocketsBorn, NodesTyped, NodesTyped', SocksTyped, SlotsKept,
         inc' = inc \/ (\E n \in Nodes : inc' = [inc EXCEPT ![n] = @ + 1]),
         \A m \in nodes : m \in nodes' \/ inc'[m] # 0
  PROVE  SocketsBorn'
<1>1. \A m \in Nodes : inc[m] \in Nat /\ inc'[m] \in Nat
  BY SocketsAssumption DEF NodesTyped
<1>2. \A m \in Nodes : inc[m] <= inc'[m]
  <2>1. CASE inc' = inc
    BY <1>1, <2>1
  <2>2. CASE \E n \in Nodes : inc' = [inc EXCEPT ![n] = @ + 1]
    <3>1. PICK n \in Nodes : inc' = [inc EXCEPT ![n] = @ + 1]
      BY <2>2
    <3>2. \A m \in Nodes : inc'[m] = IF m = n THEN inc[m] + 1 ELSE inc[m]
      BY <3>1 DEF NodesTyped
    <3> QED
      BY <1>1, <3>2
  <2> QED
    BY <2>1, <2>2
<1>3. ASSUME NEW m \in Nodes, ~Fresh(m), m \notin nodes', inc'[m] = 0
      PROVE  FALSE
  <2>1. m \notin nodes
    BY <1>3
  <2>2. inc[m] # 0
    BY <1>3, <2>1 DEF Fresh
  <2>3. inc[m] = 0
    BY <1>1, <1>2, <1>3
  <2> QED
    BY <2>2, <2>3
<1> QED
  BY <1>2, <1>3, BornStep

\* An object that finds its entry closes its own descriptor, and no other: the
\* endpoint goes with it, and nothing else does.
LEMMA CloseFacts ==
  ASSUME PortsInv, NEW s \in Socks, Held(s), host[Slot(s)] = s,
         CloseFd(sock[s].node, sock[s].fd), DropObject(s), nodes' = nodes
  PROVE  /\ FdsTyped' /\ SocksTyped' /\ SlotsKept /\ KeysKept
         /\ SlotsKnown' /\ ObjectsInTable' /\ FdsOwned' /\ NoDoubleClose'
         /\ Holders' = Holders \ {s} /\ s \in Holders /\ LastHeld = {s}
         /\ \A z \in Holders' : sock'[z] = sock[z] /\ sock[z] # None
         /\ rcvd' \subseteq rcvd
<1> DEFINE x0 == Slot(s)
<1>1. FdsInv /\ FdsTyped /\ SocksTyped /\ SocketsInv
  BY StepFacts
<1>2. sock[s] # None /\ s # None
  BY <1>1, SocketsAssumption DEF SocketsInv, ObjectsInTable
<1>3. x0 \in Nodes \X Fds /\ sock[s].node \in Nodes /\ sock[s].fd \in Fds
  BY <1>1, <1>2, SocketFields
<1>4. DOMAIN host = Nodes \X Fds
  BY <1>1 DEF FdsTyped
<1>5. sock[s].fd \in open
  <2>1. x0 \in {y \in DOMAIN host : host[y] # None} /\ x0[2] = sock[s].fd
    BY <1>2, <1>3, <1>4 DEF Slot
  <2> QED
    BY <1>1, <2>1 DEF SocketsInv, FdsOwned
<1>6. /\ open' = open \ {sock[s].fd} /\ host' = [host EXCEPT ![x0] = None] /\ panic' = panic
      /\ obj' = [obj EXCEPT ![s] = "none"] /\ Remember(host', obj')
      /\ rcvd' \subseteq rcvd
  BY <1>5 DEF CloseFd, DropObject, Slot
<1>7. \A x \in Nodes \X Fds : host'[x] = IF x = x0 THEN None ELSE host[x]
  BY <1>1, <1>6 DEF FdsTyped
<1>8. obj'[s] = "none" /\ \A z \in Socks \ {s} : obj'[z] = obj[z]
  BY <1>1, <1>6 DEF SocksTyped
<1>9. /\ SlotsKept /\ KeysKept /\ sock' \in [Socks -> SocketData \cup {None}]
      /\ \A z \in Socks : z \in InTable(host') \/ obj'[z] # "none" => sock'[z] = sock[z]
  BY <1>1, <1>6, RememberFacts
<1>10. FdsTyped'
  BY <1>1, <1>3, <1>6 DEF FdsTyped
<1>11. SocksTyped'
  BY <1>1, <1>6, <1>9 DEF SocksTyped
<1>12. ASSUME NEW x \in Nodes \X Fds, host[x] # None
       PROVE  (x = x0 <=> host[x] = s) /\ (x = x0 <=> x[2] = sock[s].fd)
  <2>1. x0[2] = sock[s].fd
    BY <1>3 DEF Slot
  <2>2. host[x] = s => x = x0
    BY <1>1, <1>12 DEF SocketsInv, SlotsKnown
  <2>3. x[2] = sock[s].fd => x = x0
    BY <1>1, <1>2, <1>3, <1>4, <1>12, <2>1 DEF SocketsInv, FdsOwned
  <2> QED
    BY <2>1, <2>2, <2>3
<1>13. InTable(host') = InTable(host) \ {s}
  <2>1. DOMAIN host' = Nodes \X Fds
    BY <1>10 DEF FdsTyped
  <2>2. ASSUME NEW x \in Nodes \X Fds, host'[x] # None
        PROVE  host'[x] \in InTable(host) \ {s}
    <3>1. x # x0 /\ host'[x] = host[x] /\ host[x] # None
      BY <1>7, <2>2
    <3> QED
      BY <1>4, <1>12, <3>1 DEF InTable
  <2>3. ASSUME NEW x \in Nodes \X Fds, host[x] # None, host[x] # s
        PROVE  host[x] \in InTable(host')
    <3>1. host'[x] = host[x]
      BY <1>7, <2>3
    <3> QED
      BY <2>1, <2>3, <3>1 DEF InTable
  <2> QED
    BY <1>4, <2>1, <2>2, <2>3 DEF InTable
<1>14. Sharing(obj') = Sharing(obj) \ {s}
  BY <1>8 DEF Sharing
<1>15. s \in InTable(host)
  BY <1>2, <1>3, <1>4 DEF InTable
<1>16. Holders' = Holders \ {s} /\ s \in Holders /\ LastHeld = {s}
  BY <1>13, <1>14, <1>15 DEF Holders, LastHeld
<1>17. ASSUME NEW z \in Holders'
       PROVE  sock'[z] = sock[z] /\ sock[z] # None
  <2>1. z \in Socks /\ sock[z] # None
    BY <1>1, <1>16, <1>17, HolderFacts
  <2>2. z \in InTable(host') \/ obj'[z] # "none"
    BY <1>17 DEF Holders, Sharing
  <2> QED
    BY <1>9, <2>1, <2>2
<1>18. SlotsKnown' /\ ObjectsInTable' /\ FdsOwned' /\ NoDoubleClose'
  <2>1. ASSUME NEW z \in Socks \ {s}, obj[z] # "none", host[Slot(z)] = z
        PROVE  host'[Slot(z)] = z
    <3>1. sock[z] # None
      BY <1>1, <2>1 DEF SocketsInv, ObjectsInTable, Held
    <3>2. Slot(z) \in Nodes \X Fds /\ Slot(z) # x0
      BY <1>1, <2>1, <3>1, SocketFields
    <3> QED
      BY <1>7, <2>1, <3>2
  <2>2. ASSUME NEW z \in Socks
        PROVE  /\ obj'[z] = "std" => host'[Slot(z)] = z
               /\ obj'[z] = "owned" /\ sock[z].node \in nodes' => host'[Slot(z)] = z
    BY <1>1, <1>8, <2>1 DEF SocketsInv, ObjectsInTable
  <2>3. open' = {x[2] : x \in {y \in DOMAIN host' : host'[y] # None}}
    <3>1. open = {x[2] : x \in {y \in Nodes \X Fds : host[y] # None}}
      BY <1>1, <1>4 DEF SocketsInv, FdsOwned
    <3>2. ASSUME NEW g \in open'
          PROVE  \E x \in Nodes \X Fds : host'[x] # None /\ x[2] = g
      <4>1. PICK x \in Nodes \X Fds : host[x] # None /\ x[2] = g
        BY <1>6, <3>1, <3>2
      <4>2. x # x0
        BY <1>6, <1>12, <3>2, <4>1
      <4> QED
        BY <1>7, <4>1, <4>2
    <3>3. ASSUME NEW x \in Nodes \X Fds, host'[x] # None
          PROVE  x[2] \in open'
      <4>1. host[x] # None /\ x # x0
        BY <1>7, <3>3
      <4>2. x[2] \in open /\ x[2] # sock[s].fd
        BY <1>12, <3>1, <4>1
      <4> QED
        BY <1>6, <4>2
    <3>4. DOMAIN host' = Nodes \X Fds
      BY <1>10 DEF FdsTyped
    <3> QED
      BY <3>2, <3>3, <3>4
  <2>4. \A x \in Nodes \X Fds : host'[x] # None => host'[x] = host[x]
    BY <1>7
  <2>5. \A z \in Socks : obj'[z] # "none" => obj[z] # "none"
    BY <1>8
  <2>6. \A z \in Socks : z \in InTable(host') \/ obj'[z] # "none" =>
                           (sock[z] # None => sock'[z] # None)
    BY <1>9
  <2> QED
    BY <1>1, <1>6, <1>9, <1>10, <2>2, <2>3, <2>4, <2>5, <2>6, FdsStep
<1> QED
  BY <1>6, <1>9, <1>10, <1>11, <1>16, <1>17, <1>18

\* A mailbox table that only lost entries.
LEMMA LostMail ==
  ASSUME PortsInv, NEW tbl \in [Keys -> Socks \cup {None}], SetSockets(tbl, backlog),
         flight' \subseteq flight, rcvd' \subseteq rcvd
  PROVE  sockets' = tbl /\ MailTyped' /\ InboxAddressed' /\ NoStaleDatagram'
<1>1. MailTyped /\ backlog \in [Socks -> Nat]
  BY StepFacts DEF MailTyped
<1>2. /\ backlog' \in [Socks -> Nat]
      /\ inbox' \subseteq inbox /\ inbox' \subseteq Socks \X Msgs
  BY <1>1, SetSocketsTypes
<1>3. MailTyped'
  BY <1>1, <1>2 DEF MailTyped
<1> QED
  BY <1>2, <1>3, StepFacts, MailFrame DEF SetSockets

\* Closing the endpoint of s, which is held, takes its entry and no other.
LEMMA ClosedFacts ==
  ASSUME PortsInv, NEW s \in Holders
  PROVE  /\ Closed(sockets, {s}) \in [Keys -> Socks \cup {None}]
         /\ \A k \in Keys : Closed(sockets, {s})[k] = IF k = Key(s) THEN None ELSE sockets[k]
<1>1. {Key(r) : r \in {s}} = {Key(s)}
  OBVIOUS
<1> QED
  BY <1>1, StepFacts DEF Closed, PortsTyped

\* A living task drops an object: its descriptor, its endpoint and its port go.
LEMMA DropStep ==
  ASSUME PortsInv, NEW s \in Socks, Drop(s)
  PROVE  PortsInv'
<1>1. /\ Held(s) /\ Living(s) /\ CloseFd(sock[s].node, sock[s].fd) /\ DropObject(s)
      /\ SetSockets(Closed(sockets, LastHeld), backlog)
      /\ UNCHANGED <<nodeVars, cutVars, next_ephemeral_port, flight>>
      /\ UNCHANGED <<nodes, inc>>
  BY DEF Drop, nodeVars
<1>2. /\ FdsInv /\ FdsTyped /\ SocksTyped /\ SocketsInv /\ NodesTyped /\ PortsTyped
      /\ HoldersBound /\ PortsOwned
  BY StepFacts DEF SocketsInv
<1>3. host[Slot(s)] = s
  BY <1>1, <1>2 DEF SocketsInv, ObjectsInTable, SocksTyped, Held, Living
<1>4. /\ FdsTyped' /\ SocksTyped' /\ SlotsKept /\ KeysKept
      /\ SlotsKnown' /\ ObjectsInTable' /\ FdsOwned' /\ NoDoubleClose'
      /\ Holders' = Holders \ {s} /\ s \in Holders /\ LastHeld = {s}
      /\ \A z \in Holders' : sock'[z] = sock[z] /\ sock[z] # None
      /\ rcvd' \subseteq rcvd
  BY <1>1, <1>3, CloseFacts
<1>5. /\ Closed(sockets, {s}) \in [Keys -> Socks \cup {None}]
      /\ \A k \in Keys : Closed(sockets, {s})[k] = IF k = Key(s) THEN None ELSE sockets[k]
  BY <1>4, ClosedFacts
<1>6. sockets' = Closed(sockets, {s}) /\ MailTyped' /\ InboxAddressed' /\ NoStaleDatagram'
  <2>1. flight' \subseteq flight /\ SetSockets(Closed(sockets, {s}), backlog)
    BY <1>1, <1>4
  <2> QED
    BY <1>4, <1>5, <2>1, LostMail
<1>7. PortsTyped'
  BY <1>1, <1>2, <1>5, <1>6 DEF PortsTyped
<1>8. NodesTyped' /\ TablesAgree' /\ NodesCounted'
  BY <1>1, StepFacts, TypeFrame, NodesFrame
<1>9. SocketsBorn'
  BY <1>1, <1>2, <1>4, <1>8, BornKept DEF SocketsInv
<1>10. ASSUME NEW z \in Holders'
       PROVE  z \in Holders /\ z # s /\ sock'[z] # None /\ (Living(z)' <=> Living(z)) /\ z \in Socks
  BY <1>1, <1>2, <1>4, <1>10, HolderFacts DEF Living
<1>11. HoldersBound' /\ PortsOwned'
  <2>1. ASSUME NEW z \in Holders', Living(z)', sock[z].port # None
        PROVE  sockets'[Key(z)] = sockets[Key(z)]
    <3>1. Living(z) /\ z # s /\ z \in Holders /\ z \in Socks
      BY <1>10, <2>1
    <3>2. sockets[Key(z)] = z
      BY <1>2, <2>1, <3>1 DEF HoldersBound
    <3>3. Key(z) # Key(s)
      <4>1. Key(z) = Key(s) => sock[s].port # None
        BY <2>1 DEF Key
      <4>2. sock[s].port # None => sockets[Key(s)] = s
        BY <1>1, <1>2, <1>4 DEF HoldersBound
      <4> QED
        BY <3>1, <3>2, <4>1, <4>2
    <3>4. Key(z) \in Keys
      BY <1>2, <1>4, <2>1, <3>1, SocketFields
    <3> QED
      BY <1>5, <1>6, <3>3, <3>4
  <2>2. ASSUME NEW k \in Keys, sockets'[k] # None
        PROVE  sockets'[k] = sockets[k] /\ sockets'[k] \in Holders' /\ Living(sockets[k])'
    <3>1. k # Key(s) /\ sockets'[k] = sockets[k]
      BY <1>5, <1>6, <2>2
    <3>0. PICK z : z = sockets[k]
      OBVIOUS
    <3>2. z \in Holders /\ Living(z) /\ Key(z) = k
      BY <1>2, <2>2, <3>0, <3>1 DEF PortsOwned, Holders
    <3>3. z \in Holders'
      BY <1>4, <3>1, <3>2
    <3>4. Living(z)'
      BY <1>10, <3>2, <3>3
    <3> QED
      BY <3>0, <3>1, <3>3, <3>4
  <2>3. \A z \in Holders' : z \in Holders /\ sock'[z] # None
    BY <1>10
  <2>4. \A z \in Holders' : Living(z)' => Living(z)
    BY <1>10
  <2> QED
    BY <1>2, <1>4, <1>7, <2>1, <2>2, <2>3, <2>4, PortsStep
<1> QED
  BY <1>4, <1>6, <1>7, <1>8, <1>9, <1>11, TypesNext, PortsInvParts DEF SocketsInv

\* The future of a killed task is dropped: a msim-tokio socket closes nothing, and the
\* descriptor that a std type closes is its own.
LEMMA DropKilledStep ==
  ASSUME PortsInv, NEW s \in Socks, DropKilled(s)
  PROVE  PortsInv'
<1>1. /\ Held(s) /\ ~Living(s) /\ DropObject(s)
      /\ UNCHANGED <<nodeVars, cutVars, portVars, backlog, flight, inbox>>
      /\ UNCHANGED <<nodes, inc, sockets, flight, inbox, backlog>>
  BY DEF DropKilled, nodeVars, portVars
<1>2. /\ FdsInv /\ FdsTyped /\ SocksTyped /\ SocketsInv /\ NodesTyped /\ PortsTyped
      /\ HoldersBound /\ PortsOwned /\ MailTyped
  BY StepFacts DEF SocketsInv
<1>3. obj[s] \in {"std", "owned"}
  BY <1>1, <1>2 DEF Held, SocksTyped
<1>4. /\ FdsTyped' /\ SocksTyped' /\ SlotsKept /\ KeysKept
      /\ SlotsKnown' /\ ObjectsInTable' /\ FdsOwned' /\ NoDoubleClose'
      /\ Holders' \subseteq Holders /\ Holders \subseteq Holders' \cup {s}
      /\ \A z \in Holders' : sock'[z] = sock[z] /\ sock[z] # None
      /\ rcvd' \subseteq rcvd
  <2>1. CASE obj[s] = "std"
    <3>1. CloseFd(sock[s].node, sock[s].fd) /\ host[Slot(s)] = s
      BY <1>2, <2>1 DEF DropKilled, SocketsInv, ObjectsInTable
    <3>2. Holders' = Holders \ {s}
      BY <1>1, <3>1, CloseFacts
    <3> QED
      BY <1>1, <3>1, <3>2, CloseFacts
  <2>2. CASE obj[s] = "owned"
    <3>1. UNCHANGED <<open, host, panic>>
      BY <2>2 DEF DropKilled, fdVars
    <3>2. /\ obj' = [obj EXCEPT ![s] = "none"] /\ Remember(host', obj') /\ rcvd' \subseteq rcvd
      BY <1>1 DEF DropObject
    <3>3. obj'[s] = "none" /\ \A z \in Socks \ {s} : obj'[z] = obj[z]
      BY <1>2, <3>2 DEF SocksTyped
    <3>4. /\ SlotsKept /\ KeysKept /\ sock' \in [Socks -> SocketData \cup {None}]
          /\ \A z \in Socks : z \in InTable(host') \/ obj'[z] # "none" => sock'[z] = sock[z]
      BY <1>2, <3>2, RememberFacts
    <3>5. FdsTyped'
      BY <1>2, <3>1 DEF FdsTyped
    <3>6. SocksTyped'
      BY <1>2, <3>2, <3>4 DEF SocksTyped
    <3>7. SlotsKnown' /\ ObjectsInTable' /\ FdsOwned' /\ NoDoubleClose'
      <4>1. open' = {x[2] : x \in {y \in DOMAIN host' : host'[y] # None}}
        BY <1>2, <3>1 DEF SocketsInv, FdsOwned
      <4>2. \A z \in Socks : obj'[z] # "none" => obj[z] # "none"
        BY <3>3
      <4>3. ASSUME NEW z \in Socks
            PROVE  /\ obj'[z] = "std" => host'[Slot(z)] = z
                   /\ obj'[z] = "owned" /\ sock[z].node \in nodes' => host'[Slot(z)] = z
        BY <1>1, <1>2, <3>1, <3>3 DEF SocketsInv, ObjectsInTable
      <4> QED
        BY <1>2, <3>1, <3>4, <3>5, <4>1, <4>2, <4>3, FdsStep
    <3>8. Holders' \subseteq Holders /\ Holders \subseteq Holders' \cup {s}
      BY <3>1, <3>3 DEF Holders, InTable, Sharing
    <3>9. ASSUME NEW z \in Holders'
          PROVE  sock'[z] = sock[z] /\ sock[z] # None
      <4>1. z \in Socks /\ sock[z] # None
        BY <1>2, <3>8, HolderFacts
      <4>2. z \in InTable(host') \/ obj'[z] # "none"
        BY <3>9 DEF Holders, Sharing
      <4> QED
        BY <3>4, <4>1, <4>2
    <3> QED
      BY <3>2, <3>4, <3>5, <3>6, <3>7, <3>8, <3>9
  <2> QED
    BY <1>3, <2>1, <2>2
<1>5. MailTyped' /\ InboxAddressed' /\ NoStaleDatagram'
  <2>1. MailTyped'
    BY <1>1, <1>2, <1>4 DEF MailTyped
  <2> QED
    BY <1>1, <1>4, <2>1, StepFacts, MailFrame
<1>6. NodesTyped' /\ PortsTyped' /\ TablesAgree' /\ NodesCounted'
  BY <1>1, StepFacts, TypeFrame, NodesFrame
<1>7. SocketsBorn'
  BY <1>1, <1>2, <1>4, <1>6, BornKept DEF SocketsInv
<1>8. ASSUME NEW z \in Holders'
      PROVE  z \in Holders /\ sock'[z] # None /\ (Living(z)' <=> Living(z))
  BY <1>1, <1>4, <1>8 DEF Living
<1>9. HoldersBound' /\ PortsOwned'
  <2>1. ASSUME NEW k \in Keys, sockets'[k] # None
        PROVE  sockets'[k] = sockets[k] /\ sockets'[k] \in Holders' /\ Living(sockets[k])'
    <3>0. PICK z : z = sockets[k]
      OBVIOUS
    <3>1. z \in Holders /\ Living(z) /\ sockets'[k] = z
      BY <1>1, <1>2, <2>1, <3>0 DEF PortsOwned, Holders
    <3>2. z \in Holders'
      BY <1>1, <1>4, <3>1
    <3>3. Living(z)'
      BY <1>8, <3>1, <3>2
    <3> QED
      BY <3>0, <3>1, <3>2, <3>3
  <2>2. \A z \in Holders' : Living(z)' /\ sock[z].port # None =>
                              sockets'[Key(z)] = sockets[Key(z)]
    BY <1>1
  <2>3. \A z \in Holders' : Living(z)' => Living(z)
    BY <1>8
  <2>4. \A z \in Holders' : z \in Holders /\ sock'[z] # None
    BY <1>8
  <2> QED
    BY <1>2, <1>4, <1>6, <2>1, <2>2, <2>3, <2>4, PortsStep
<1> QED
  BY <1>4, <1>5, <1>6, <1>7, <1>9, TypesNext, PortsInvParts DEF SocketsInv

\* After a kill no socket of the node is of its living incarnation.
LEMMA KilledFacts ==
  ASSUME PortsInv, NEW n \in Nodes, NextIncarnation(n), nodes' \subseteq nodes,
         NEW z \in Socks, sock[z] # None, sock'[z] = sock[z]
  PROVE  /\ Living(z)' => Living(z) /\ sock[z].node # n
         /\ Living(z) /\ sock[z].node # n /\ sock[z].node \in nodes' => Living(z)'
<1>1. NodesTyped /\ SocksTyped /\ SocketsInv
  BY StepFacts
<1>2. sock[z].node \in Nodes /\ sock[z].inc \in Nat
  BY <1>1, SocketFields, SocketsAssumption
<1>3. \A m \in Nodes : inc'[m] = IF m = n THEN inc[m] + 1 ELSE inc[m]
  BY <1>1 DEF NextIncarnation, NodesTyped
<1>4. inc[n] \in Nat
  BY <1>1, SocketsAssumption DEF NodesTyped
<1>5. sock[z].inc <= inc[sock[z].node]
  BY <1>1 DEF SocketsInv, SocketsBorn
<1>6. sock[z].node = n => ~Living(z)'
  <2>1. ASSUME sock[z].node = n, Living(z)'
        PROVE  FALSE
    <3>1. sock[z].inc = inc[n] + 1
      BY <1>2, <1>3, <2>1 DEF Living
    <3> QED
      BY <1>2, <1>4, <1>5, <2>1, <3>1
  <2> QED
    BY <2>1
<1>7. sock[z].node # n => inc'[sock[z].node] = inc[sock[z].node]
  BY <1>2, <1>3
<1> QED
  BY <1>6, <1>7 DEF Living

\* The mailbox table without the node n; its entries are not of n.
LEMMA ClearedFacts ==
  ASSUME PortsInv, NEW n \in Nodes, NEW tbl \in [Keys -> Socks \cup {None}]
  PROVE  /\ Cleared(n, tbl) \in [Keys -> Socks \cup {None}]
         /\ \A k \in Keys : Cleared(n, tbl)[k] = IF k[1] = n THEN None ELSE tbl[k]
BY DEF Cleared

\* The count of incarnations after a kill or a deletion of a node that exists.
LEMMA IncCounted ==
  ASSUME NodesTyped, NodesCounted, NEW n \in nodes, NextIncarnation(n)
  PROVE  /\ inc' \in [Nodes -> 0 .. MaxInc + 1] /\ inc'[n] # 0
         /\ inc[n] < MaxInc => inc'[n] <= MaxInc
         /\ \A m \in nodes \ {n} : inc'[m] <= MaxInc
<1>1. MaxInc \in Nat /\ n \in Nodes
  BY SocketsAssumption DEF NodesTyped
<1>2. inc[n] <= MaxInc /\ inc[n] \in 0 .. MaxInc + 1
  BY <1>1 DEF NodesTyped, NodesCounted
<1>3. inc[n] + 1 \in 0 .. MaxInc + 1 /\ inc[n] + 1 # 0
  BY <1>1, <1>2
<1>4. /\ inc' = [inc EXCEPT ![n] = inc[n] + 1]
      /\ \A m \in Nodes : inc'[m] = IF m = n THEN inc[n] + 1 ELSE inc[m]
  BY DEF NextIncarnation, NodesTyped
<1>5. inc' \in [Nodes -> 0 .. MaxInc + 1]
  BY <1>3, <1>4 DEF NodesTyped
<1>6. inc[n] < MaxInc => inc'[n] <= MaxInc
  BY <1>1, <1>2, <1>4
<1>7. \A m \in nodes \ {n} : inc'[m] <= MaxInc
  BY <1>4 DEF NodesTyped, NodesCounted
<1> QED
  BY <1>1, <1>3, <1>4, <1>5, <1>6, <1>7

\* The node tables after a kill: an incarnation more.
LEMMA KillTables ==
  ASSUME NodesTyped, TablesAgree, NodesCounted, NEW n \in nodes, inc[n] < MaxInc,
         NextIncarnation(n),
         UNCHANGED <<nodes, ip, addr_to_node, clogged_node, clogged_link>>
  PROVE  NodesTyped' /\ TablesAgree' /\ NodesCounted'
<1>1. /\ inc' \in [Nodes -> 0 .. MaxInc + 1] /\ inc'[n] <= MaxInc
      /\ \A m \in nodes \ {n} : inc'[m] <= MaxInc
  BY IncCounted
<1> QED
  BY <1>1 DEF NodesTyped, TablesAgree, NodesCounted

\* A kill or a deletion takes every port of the node, and only those.
LEMMA KillPorts ==
  ASSUME PortsInv, NEW n \in Nodes, NextIncarnation(n), nodes' \subseteq nodes,
         \A m \in nodes : m # n => m \in nodes',
         PortsTyped', SlotsKept, KeysKept, Holders' \subseteq Holders,
         \A z \in Holders : sock[z].node # n => z \in Holders',
         \A z \in Holders' : sock'[z] = sock[z] /\ sock[z] # None,
         \A k \in Keys : sockets'[k] = IF k[1] = n THEN None ELSE sockets[k]
  PROVE  HoldersBound' /\ PortsOwned'
<1>1. FdsInv /\ SocksTyped /\ SocketsInv /\ HoldersBound /\ PortsOwned
  BY StepFacts DEF SocketsInv
<1>2. ASSUME NEW z \in Holders'
      PROVE  /\ z \in Socks /\ z \in Holders /\ sock'[z] = sock[z] /\ sock[z] # None
             /\ Living(z)' => Living(z) /\ sock[z].node # n
             /\ Living(z) /\ sock[z].node # n => Living(z)'
  <2>1. z \in Socks /\ sock'[z] = sock[z] /\ sock[z] # None /\ z \in Holders
    BY <1>1, <1>2, HolderFacts
  <2>2. /\ Living(z)' => Living(z) /\ sock[z].node # n
        /\ Living(z) /\ sock[z].node # n /\ sock[z].node \in nodes' => Living(z)'
    BY <2>1, KilledFacts DEF Living
  <2> QED
    BY <2>1, <2>2 DEF Living
<1>3. ASSUME NEW z \in Holders', Living(z)', sock[z].port # None
      PROVE  sockets'[Key(z)] = sockets[Key(z)]
  <2>1. Key(z) \in Keys /\ Key(z)[1] # n
    BY <1>1, <1>2, <1>3, SocketFields DEF Key
  <2> QED
    BY <2>1
<1>4. ASSUME NEW k \in Keys, sockets'[k] # None
      PROVE  sockets'[k] = sockets[k] /\ sockets'[k] \in Holders' /\ Living(sockets[k])'
  <2>0. PICK z : z = sockets[k]
    OBVIOUS
  <2>1. sockets'[k] = z /\ z # None /\ k[1] # n
    BY <1>4, <2>0
  <2>2. z \in Holders /\ Living(z) /\ Key(z) = k
    BY <1>1, <2>0, <2>1 DEF PortsOwned, Holders
  <2>3. sock[z].node # n
    BY <2>1, <2>2 DEF Key
  <2>4. z \in Holders'
    BY <2>2, <2>3
  <2>5. Living(z)'
    BY <1>2, <2>2, <2>3, <2>4
  <2> QED
    BY <2>0, <2>1, <2>4, <2>5
<1>5. \A z \in Holders' : z \in Holders /\ sock'[z] # None
  BY <1>2
<1>6. \A z \in Holders' : Living(z)' => Living(z)
  BY <1>2
<1> QED
  BY <1>1, <1>3, <1>4, <1>5, <1>6, PortsStep

\* kill.
LEMMA KillStep ==
  ASSUME PortsInv, NEW n \in Nodes, Kill(n)
  PROVE  PortsInv'
<1>1. /\ n \in nodes /\ inc[n] < MaxInc /\ NextIncarnation(n)
      /\ SetSockets(Cleared(n, sockets), backlog)
      /\ flight' \subseteq flight /\ rcvd' \subseteq rcvd
      /\ UNCHANGED <<nodes, ip, addr_to_node, cutVars, next_ephemeral_port, fdVars, obj, sock>>
  BY DEF Kill, Reset
<1>2. /\ FdsInv /\ SocketsInv /\ NodesTyped /\ PortsTyped /\ FdsTyped /\ SocksTyped
      /\ TablesAgree /\ NodesCounted
  BY StepFacts
<1>4. UNCHANGED <<nodes, ip, addr_to_node, clogged_node, clogged_link>>
  BY <1>1 DEF cutVars
<1>5. NodesTyped' /\ TablesAgree' /\ NodesCounted'
  BY <1>1, <1>2, <1>4, KillTables
<1>6. /\ Cleared(n, sockets) \in [Keys -> Socks \cup {None}]
      /\ \A k \in Keys : Cleared(n, sockets)[k] = IF k[1] = n THEN None ELSE sockets[k]
  BY <1>2, ClearedFacts DEF PortsTyped
<1>7. sockets' = Cleared(n, sockets) /\ MailTyped' /\ InboxAddressed' /\ NoStaleDatagram'
  BY <1>1, <1>6, LostMail
<1>8. PortsTyped' /\ FdsTyped' /\ SocksTyped'
  BY <1>1, <1>2, <1>6, <1>7, TypeFrame DEF PortsTyped
<1>9. SlotsKept /\ KeysKept
  BY <1>1 DEF SlotsKept, KeysKept
<1>10. SocketsBorn'
  <2>1. \A m \in nodes : m \in nodes' \/ inc'[m] # 0
    BY <1>4
  <2>2. \E m \in Nodes : inc' = [inc EXCEPT ![m] = @ + 1]
    BY <1>1 DEF NextIncarnation
  <2> QED
    BY <1>2, <1>5, <1>9, <2>1, <2>2, BornKept DEF SocketsInv
<1>11. SlotsKnown' /\ ObjectsInTable' /\ FdsOwned' /\ NoDoubleClose'
  <2>1. UNCHANGED <<open, host, panic, obj, sock, nodes>>
    BY <1>1 DEF fdVars
  <2>2. open' = {x[2] : x \in {y \in DOMAIN host' : host'[y] # None}}
    BY <1>2, <2>1 DEF SocketsInv, FdsOwned
  <2>3. ASSUME NEW z \in Socks
        PROVE  /\ obj'[z] = "std" => host'[Slot(z)] = z
               /\ obj'[z] = "owned" /\ sock[z].node \in nodes' => host'[Slot(z)] = z
    BY <1>2, <2>1 DEF SocketsInv, ObjectsInTable
  <2> QED
    BY <1>2, <1>8, <1>9, <2>1, <2>2, <2>3, FdsStep
<1>12. HoldersBound' /\ PortsOwned'
  <2>1. Holders' = Holders
    BY <1>1 DEF Holders, InTable, Sharing, fdVars
  <2>2. \A z \in Holders' : sock'[z] = sock[z] /\ sock[z] # None
    BY <1>1, <1>2, <2>1, HolderFacts
  <2>3. \A k \in Keys : sockets'[k] = IF k[1] = n THEN None ELSE sockets[k]
    BY <1>6, <1>7
  <2> QED
    BY <1>1, <1>4, <1>8, <1>9, <2>1, <2>2, <2>3, KillPorts
<1> QED
  BY <1>5, <1>7, <1>8, <1>10, <1>11, <1>12, TypesNext, PortsInvParts DEF SocketsInv

\* kill of a node whose task is paused, in the context of that node: the object of the
\* task closes its own descriptor and port before the ports are cleared.
LEMMA KillPausedStep ==
  ASSUME PortsInv, ForeignKill = FALSE, NEW n \in Nodes, NEW s \in Socks, NEW k \in Nodes,
         KillPaused(n, s, k)
  PROVE  PortsInv'
<1>1. /\ n \in nodes /\ inc[n] < MaxInc /\ NextIncarnation(n)
      /\ Held(s) /\ Living(s) /\ sock[s].node = n
      /\ CloseFd(sock[s].node, sock[s].fd) /\ DropObject(s)
      /\ SetSockets(Cleared(n, Closed(sockets, LastHeld)), backlog)
      /\ flight' \subseteq flight
      /\ UNCHANGED <<nodes, ip, addr_to_node, cutVars, next_ephemeral_port>>
  BY DEF KillPaused, Reset
<1>2. /\ FdsInv /\ SocketsInv /\ NodesTyped /\ PortsTyped /\ FdsTyped /\ SocksTyped
      /\ TablesAgree /\ NodesCounted
  BY StepFacts
<1>4. UNCHANGED <<nodes, ip, addr_to_node, clogged_node, clogged_link>>
  BY <1>1 DEF cutVars
<1>5. NodesTyped' /\ TablesAgree' /\ NodesCounted'
  BY <1>1, <1>2, <1>4, KillTables
<1>6. host[Slot(s)] = s
  BY <1>1, <1>2 DEF SocketsInv, ObjectsInTable, SocksTyped, Held, Living
<1>7. /\ FdsTyped' /\ SocksTyped' /\ SlotsKept /\ KeysKept
      /\ SlotsKnown' /\ ObjectsInTable' /\ FdsOwned' /\ NoDoubleClose'
      /\ Holders' = Holders \ {s} /\ s \in Holders /\ LastHeld = {s}
      /\ \A z \in Holders' : sock'[z] = sock[z] /\ sock[z] # None
      /\ rcvd' \subseteq rcvd
  BY <1>1, <1>6, CloseFacts
<1> DEFINE tbl == Closed(sockets, {s})
<1>8. /\ tbl \in [Keys -> Socks \cup {None}]
      /\ \A q \in Keys : tbl[q] = IF q = Key(s) THEN None ELSE sockets[q]
  BY <1>7, ClosedFacts
<1> HIDE DEF tbl
<1>9. /\ Cleared(n, tbl) \in [Keys -> Socks \cup {None}]
      /\ \A q \in Keys : Cleared(n, tbl)[q] = IF q[1] = n THEN None ELSE tbl[q]
  BY <1>8, ClearedFacts
<1>10. sockets' = Cleared(n, tbl) /\ MailTyped' /\ InboxAddressed' /\ NoStaleDatagram'
  <2>1. SetSockets(Cleared(n, tbl), backlog)
    BY <1>1, <1>7 DEF tbl
  <2> QED
    BY <1>1, <1>7, <1>9, <2>1, LostMail
<1>11. PortsTyped'
  BY <1>1, <1>2, <1>9, <1>10 DEF PortsTyped
<1>12. SocketsBorn'
  <2>1. \A m \in nodes : m \in nodes' \/ inc'[m] # 0
    BY <1>4
  <2>2. \E m \in Nodes : inc' = [inc EXCEPT ![m] = @ + 1]
    BY <1>1 DEF NextIncarnation
  <2> QED
    BY <1>2, <1>5, <1>7, <2>1, <2>2, BornKept DEF SocketsInv
<1>13. HoldersBound' /\ PortsOwned'
  <2>1. Key(s)[1] = n
    BY <1>1 DEF Key
  <2>2. \A q \in Keys : sockets'[q] = IF q[1] = n THEN None ELSE sockets[q]
    BY <1>8, <1>9, <1>10, <2>1
  <2>3. \A z \in Holders : sock[z].node # n => z \in Holders'
    BY <1>1, <1>7
  <2> QED
    BY <1>1, <1>4, <1>7, <1>11, <2>2, <2>3, KillPorts
<1> QED
  BY <1>5, <1>7, <1>10, <1>11, <1>12, <1>13, TypesNext, PortsInvParts DEF SocketsInv

\* The node tables after a node is deleted: its address is free and nobody's.
LEMMA DeleteTables ==
  ASSUME NodesTyped, TablesAgree, NodesCounted, NEW n \in Nodes, DeleteNode(n)
  PROVE  NodesTyped' /\ TablesAgree' /\ NodesCounted'
<1>1. NodesTyped /\ TablesAgree /\ NodesCounted
  OBVIOUS
<1>2. /\ n \in nodes /\ NextIncarnation(n) /\ nodes' = nodes \ {n}
      /\ ip' = [ip EXCEPT ![n] = None]
      /\ addr_to_node' = [a \in Ips |-> IF a = ip[n] THEN None ELSE addr_to_node[a]]
      /\ clogged_node' = clogged_node \ {n} /\ clogged_link' \subseteq clogged_link
      /\ \A l \in clogged_link' : n \notin {l[1], l[2]}
  BY DEF DeleteNode, AddressesWithout, LinksWithout
<1>3. /\ inc' \in [Nodes -> 0 .. MaxInc + 1]
      /\ \A m \in nodes \ {n} : inc'[m] <= MaxInc
  BY <1>1, <1>2, IncCounted
<1>4. None \notin Nodes /\ None \notin Ips
  BY SocketsAssumption
<1>5. NodesTyped'
  BY <1>1, <1>2, <1>3 DEF NodesTyped
<1>6. \A m \in Nodes : ip'[m] = IF m = n THEN None ELSE ip[m]
  BY <1>1, <1>2 DEF NodesTyped
<1>7. ASSUME NEW b \in Ips, NEW m \in Nodes
      PROVE  addr_to_node'[b] = m <=> m \in nodes' /\ ip'[m] = b
  <2>1. /\ addr_to_node[b] = m <=> m \in nodes /\ ip[m] = b
        /\ addr_to_node[b] = n <=> n \in nodes /\ ip[n] = b
    BY <1>1 DEF TablesAgree
  <2>2. CASE b = ip[n]
    <3>1. addr_to_node'[b] = None /\ addr_to_node[b] = n
      BY <1>2, <2>1, <2>2
    <3> QED
      BY <1>2, <1>4, <2>1, <3>1, <1>6
  <2>3. CASE b # ip[n]
    <3>1. addr_to_node'[b] = addr_to_node[b] /\ addr_to_node[b] # n
      BY <1>2, <2>1, <2>3
    <3> QED
      BY <1>2, <1>4, <1>6, <2>1, <3>1
  <2> QED
    BY <2>2, <2>3
<1>8. clogged_node' \subseteq nodes' /\ clogged_link' \subseteq nodes' \X nodes'
  <2>1. clogged_node \subseteq nodes /\ clogged_link \subseteq nodes \X nodes
    BY <1>1 DEF TablesAgree
  <2>2. ASSUME NEW l \in clogged_link'
        PROVE  l \in nodes' \X nodes'
    BY <1>2, <2>1
  <2> QED
    BY <1>2, <2>1, <2>2
<1>9. NodesCounted'
  BY <1>1, <1>2, <1>3, <1>6 DEF NodesCounted
<1> QED
  BY <1>5, <1>7, <1>8, <1>9 DEF TablesAgree

\* delete_node: the descriptors of the node are open and closed once, and every socket
\* that is left is of another node.
LEMMA DeleteStep ==
  ASSUME PortsInv, StdDelete = FALSE, NEW n \in Nodes, DeleteNode(n)
  PROVE  PortsInv'
<1>1. /\ n \in nodes /\ \A s \in Socks : obj[s] = "std" => sock[s].node # n
      /\ NextIncarnation(n) /\ nodes' = nodes \ {n}
      /\ next_ephemeral_port' = [next_ephemeral_port EXCEPT ![n] = FirstEphemeral]
      /\ SetSockets(Cleared(n, sockets), backlog) /\ flight' \subseteq flight
      /\ open' = open \ Released(n)
      /\ host' = [x \in Nodes \X Fds |-> IF x[1] = n THEN None ELSE host[x]]
      /\ panic' = IF Released(n) \subseteq open THEN panic ELSE "failed to close"
      /\ Remember(host', obj) /\ obj' = obj /\ rcvd' = rcvd
  BY DEF DeleteNode, Reset, HostWithout
<1>2. /\ FdsInv /\ SocketsInv /\ NodesTyped /\ PortsTyped /\ FdsTyped /\ SocksTyped
      /\ NodesCounted
  BY StepFacts
<1>3. NodesTyped' /\ TablesAgree' /\ NodesCounted'
  BY StepFacts, DeleteTables
<1>4. /\ Cleared(n, sockets) \in [Keys -> Socks \cup {None}]
      /\ \A k \in Keys : Cleared(n, sockets)[k] = IF k[1] = n THEN None ELSE sockets[k]
  BY <1>2, ClearedFacts DEF PortsTyped
<1>5. sockets' = Cleared(n, sockets) /\ MailTyped' /\ InboxAddressed' /\ NoStaleDatagram'
  BY <1>1, <1>4, LostMail
<1>6. PortsTyped'
  <2>1. FirstEphemeral \in Ports
    BY SocketsAssumption DEF Ports
  <2>2. next_ephemeral_port' \in [Nodes -> Ports]
    BY <1>1, <1>2, <2>1 DEF PortsTyped
  <2> QED
    BY <1>4, <1>5, <2>2 DEF PortsTyped
<1>7. /\ SlotsKept /\ KeysKept /\ sock' \in [Socks -> SocketData \cup {None}]
      /\ \A z \in Socks : z \in InTable(host') \/ obj[z] # "none" => sock'[z] = sock[z]
  BY <1>1, <1>2, RememberFacts
<1>8. /\ DOMAIN host = Nodes \X Fds /\ DOMAIN host' = Nodes \X Fds
      /\ \A x \in Nodes \X Fds : host'[x] = IF x[1] = n THEN None ELSE host[x]
  BY <1>1, <1>2 DEF FdsTyped
<1>9. open = {x[2] : x \in {y \in Nodes \X Fds : host[y] # None}}
  BY <1>2, <1>8 DEF SocketsInv, FdsOwned
<1>10. panic' = panic
  <2>1. ASSUME NEW f \in Released(n)
        PROVE  f \in open
    <3>1. <<n, f>> \in Nodes \X Fds /\ host[<<n, f>>] # None /\ <<n, f>>[2] = f
      BY <2>1 DEF Released
    <3> QED
      BY <1>9, <3>1
  <2> QED
    BY <1>1, <2>1
<1>11. FdsTyped'
  BY <1>1, <1>2, <1>10 DEF FdsTyped
<1>12. SocksTyped'
  BY <1>1, <1>2, <1>7 DEF SocksTyped
<1>13. open' = {x[2] : x \in {y \in DOMAIN host' : host'[y] # None}}
  <2>1. ASSUME NEW g \in open'
        PROVE  \E x \in Nodes \X Fds : host'[x] # None /\ x[2] = g
    <3>1. g \in open /\ g \notin Released(n)
      BY <1>1, <2>1
    <3>2. PICK x \in Nodes \X Fds : host[x] # None /\ x[2] = g
      BY <1>9, <3>1
    <3>3. x[1] # n
      <4>1. x[1] = n => x = <<n, g>> /\ g \in Fds
        BY <3>2
      <4> QED
        BY <3>1, <3>2, <4>1 DEF Released
    <3> QED
      BY <1>8, <3>2, <3>3
  <2>2. ASSUME NEW x \in Nodes \X Fds, host'[x] # None
        PROVE  x[2] \in open'
    <3>1. x[1] # n /\ host[x] # None
      BY <1>8, <2>2
    <3>2. x[2] \in open
      BY <1>9, <3>1
    <3>3. x[2] \notin Released(n)
      <4>1. ASSUME x[2] \in Released(n)
            PROVE  FALSE
        <5>1. <<n, x[2]>> \in Nodes \X Fds /\ host[<<n, x[2]>>] # None
          BY <4>1 DEF Released
        <5>2. x = <<n, x[2]>>
          BY <1>2, <1>8, <3>1, <5>1 DEF SocketsInv, FdsOwned
        <5> QED
          BY <3>1, <5>2
      <4> QED
        BY <4>1
    <3> QED
      BY <1>1, <3>2, <3>3
  <2> QED
    BY <1>8, <2>1, <2>2
<1>14. ASSUME NEW z \in Socks, sock[z] # None, sock[z].node # n, host[Slot(z)] = z
       PROVE  host'[Slot(z)] = z
  <2>1. Slot(z) \in Nodes \X Fds /\ Slot(z)[1] # n
    BY <1>2, <1>14, SocketFields DEF Slot
  <2> QED
    BY <1>8, <1>14, <2>1
<1>15. SlotsKnown' /\ ObjectsInTable' /\ FdsOwned' /\ NoDoubleClose'
  <2>1. ASSUME NEW z \in Socks
        PROVE  /\ obj'[z] = "std" => host'[Slot(z)] = z
               /\ obj'[z] = "owned" /\ sock[z].node \in nodes' => host'[Slot(z)] = z
    <3>1. obj[z] # "none" => sock[z] # None
      BY <1>2 DEF SocketsInv, ObjectsInTable, Held
    <3>2. obj[z] = "std" => sock[z].node # n /\ host[Slot(z)] = z
      BY <1>1, <1>2 DEF SocketsInv, ObjectsInTable
    <3>3. obj[z] = "owned" /\ sock[z].node \in nodes' =>
            sock[z].node # n /\ host[Slot(z)] = z
      BY <1>1, <1>2 DEF SocketsInv, ObjectsInTable
    <3> QED
      BY <1>1, <1>14, <3>1, <3>2, <3>3
  <2>2. \A x \in Nodes \X Fds : host'[x] # None => host'[x] = host[x]
    BY <1>8
  <2>3. \A z \in Socks : z \in InTable(host') \/ obj'[z] # "none" =>
                           (sock[z] # None => sock'[z] # None)
    BY <1>1, <1>7
  <2>4. \A z \in Socks : obj'[z] # "none" => obj[z] # "none"
    BY <1>1
  <2> QED
    BY <1>2, <1>7, <1>10, <1>11, <1>13, <2>1, <2>2, <2>3, <2>4, FdsStep
<1>16. Holders' \subseteq Holders
  BY <1>1, <1>8 DEF Holders, InTable
<1>17. ASSUME NEW z \in Holders'
       PROVE  sock'[z] = sock[z] /\ sock[z] # None
  <2>1. z \in Socks /\ sock[z] # None
    BY <1>2, <1>16, <1>17, HolderFacts
  <2>2. z \in InTable(host') \/ obj[z] # "none"
    BY <1>1, <1>17 DEF Holders, Sharing
  <2> QED
    BY <1>7, <2>1, <2>2
<1>18. ASSUME NEW z \in Holders, sock[z].node # n
       PROVE  z \in Holders'
  <2>1. z \in Socks /\ sock[z] # None
    BY <1>2, <1>18, HolderFacts
  <2>2. CASE z \in InTable(host)
    <3>1. PICK x \in Nodes \X Fds : host[x] = z /\ z # None
      BY <1>8, <2>2 DEF InTable
    <3>2. x = Slot(z)
      BY <1>2, <3>1 DEF SocketsInv, SlotsKnown
    <3>3. host'[x] = z
      BY <1>14, <1>18, <2>1, <3>1, <3>2
    <3> QED
      BY <1>8, <3>1, <3>3 DEF Holders, InTable
  <2>3. CASE z \in Sharing(obj)
    BY <1>1, <2>3 DEF Holders, Sharing
  <2> QED
    BY <1>18, <2>2, <2>3 DEF Holders
<1>19. HoldersBound' /\ PortsOwned'
  <2>1. \A k \in Keys : sockets'[k] = IF k[1] = n THEN None ELSE sockets[k]
    BY <1>4, <1>5
  <2>2. nodes' \subseteq nodes /\ \A m \in nodes : m # n => m \in nodes'
    BY <1>1
  <2> QED
    BY <1>1, <1>6, <1>7, <1>16, <1>17, <1>18, <2>1, <2>2, KillPorts
<1>20. SocketsBorn'
  <2>1. inc'[n] # 0
    BY <1>1, <1>2, IncCounted
  <2>2. \A m \in nodes : m \in nodes' \/ inc'[m] # 0
    BY <1>1, <2>1
  <2>3. \E m \in Nodes : inc' = [inc EXCEPT ![m] = @ + 1]
    BY <1>1 DEF NextIncarnation
  <2> QED
    BY <1>2, <1>3, <1>7, <2>2, <2>3, BornKept DEF SocketsInv
<1> QED
  BY <1>3, <1>5, <1>6, <1>11, <1>12, <1>15, <1>19, <1>20, TypesNext, PortsInvParts
     DEF SocketsInv

-----------------------------------------------------------------------------
(* The theorems.                                                            *)

\* The node tables need nothing of the sockets to stay in agreement.
NodeTables == NodesTyped /\ TablesAgree /\ NodesCounted

\* No step of a node or of a socket disturbs that.
LEMMA NodeTablesStep ==
  ASSUME NodeTables, [Next]_vars
  PROVE  NodeTables'
<1> USE DEF NodeTables
<1>1. CASE NodeStep
  <2>1. CASE \/ \E n \in Nodes : CreateNode(n)
             \/ \E n \in Nodes, a \in Ips : SetIp(n, a)
             \/ \E n \in Cutting : DisconnectNode(n) \/ ConnectNode(n)
             \/ \E m \in Nodes, n \in Cutting :
                  m # n /\ (DisconnectLink(m, n) \/ ConnectLink(m, n))
    BY <2>1, TablesFacts
  <2>2. ASSUME NEW n \in Crashing, Kill(n)
        PROVE  NodeTables'
    BY <2>2, KillTables DEF Kill, cutVars
  <2>3. ASSUME NEW n \in Crashing, DeleteNode(n)
        PROVE  NodeTables'
    <3>1. n \in Nodes
      BY SocketsAssumption
    <3> QED
      BY <2>3, <3>1, DeleteTables
  <2>4. ASSUME NEW n \in Crashing, NEW s \in Socks, NEW k \in Nodes, KillPaused(n, s, k)
        PROVE  NodeTables'
    <3>1. /\ n \in nodes /\ inc[n] < MaxInc /\ NextIncarnation(n)
          /\ UNCHANGED <<nodes, ip, addr_to_node, clogged_node, clogged_link>>
      BY <2>4 DEF KillPaused, cutVars
    <3> QED
      BY <3>1, KillTables
  <2> QED
    BY <1>1, <2>1, <2>2, <2>3, <2>4 DEF NodeStep
<1>2. CASE SockStep
  <2>1. ASSUME NEW s, NEW c, NEW a, NEW p, NEW x,
               \/ \E n \in Nodes, ty \in Types : Socket(s, n, ty)
               \/ Bind(s, p) \/ Connect(s, a, p) \/ ConnectRefused(s, a, p)
               \/ Send(s, a, p) \/ Accept(s, c) \/ RecvMsg(s, x) \/ Deliver(x)
        PROVE  UNCHANGED <<nodeVars, cutVars>>
    BY <2>1 DEF Socket, Bind, Connect, ConnectRefused, Send, Accept, RecvMsg, Deliver
  <2>2. ASSUME NEW s, FromStd(s) \/ IntoStd(s) \/ Drop(s) \/ DropKilled(s)
        PROVE  UNCHANGED <<nodeVars, cutVars>>
    BY <2>2 DEF FromStd, IntoStd, Wrap, Drop, DropKilled
  <2>3. UNCHANGED <<nodeVars, cutVars>>
    BY <1>2, <2>1, <2>2, SocketsAssumption DEF SockStep, Types
  <2> QED
    BY <2>3, TypeFrame, NodesFrame
<1>3. CASE UNCHANGED vars
  <2>1. UNCHANGED <<nodeVars, cutVars>>
    BY <1>3 DEF vars
  <2> QED
    BY <2>1, TypeFrame, NodesFrame
<1> QED
  BY <1>1, <1>2, <1>3 DEF Next

\* The first state has a node and nothing else.
LEMMA SocketsInit == Init => PortsInv
<1> SUFFICES ASSUME Init PROVE PortsInv
  OBVIOUS
<1> USE DEF Init
<1>1. /\ MaxInc \in Nat /\ FirstEphemeral \in Ports /\ Main \in Nodes
      /\ None \notin Nodes /\ None \notin Ips /\ None \notin Socks
  BY SocketsAssumption DEF Ports
<1>2. TypeOK
  <2>1. NodesTyped
    BY <1>1 DEF NodesTyped
  <2>2. PortsTyped
    BY <1>1 DEF PortsTyped
  <2>3. FdsTyped
    BY DEF FdsTyped
  <2>4. SocksTyped /\ MailTyped
    BY DEF SocksTyped, MailTyped
  <2> QED
    BY <2>1, <2>2, <2>3, <2>4, TypeParts
<1>3. TablesAgree /\ NodesCounted /\ SocketsBorn
  <2>1. \A a \in Ips, n \in Nodes : addr_to_node[a] # n /\ ip[n] # a
    BY <1>1
  <2>2. TablesAgree
    BY <2>1 DEF TablesAgree
  <2>3. NodesCounted
    <3>1. \A n \in nodes : inc[n] = 0 /\ 0 <= MaxInc
      BY <1>1
    <3>2. \A n \in Nodes : ip[n] = None
      OBVIOUS
    <3> QED
      BY <3>1, <3>2 DEF NodesCounted
  <2>4. SocketsBorn
    BY DEF SocketsBorn
  <2> QED
    BY <2>2, <2>3, <2>4
<1>4. SlotsKnown /\ ObjectsInTable /\ FdsOwned /\ NoDoubleClose
  BY DEF SlotsKnown, ObjectsInTable, FdsOwned, NoDoubleClose, Held
<1>5. Holders = {}
  BY DEF Holders, InTable, Sharing
<1>6. HoldersBound /\ PortsOwned /\ InboxAddressed /\ NoStaleDatagram
  BY <1>5 DEF HoldersBound, PortsOwned, InboxAddressed, NoStaleDatagram
<1> QED
  BY <1>2, <1>3, <1>4, <1>6 DEF PortsInv, FdsInv, NodesInv

\* Every step keeps the invariant.
LEMMA SocketsStep ==
  ASSUME Benign, PortsInv, [Next]_vars
  PROVE  PortsInv'
<1>1. CASE NodeStep
  <2>1. CASE \/ \E n \in Nodes : CreateNode(n)
             \/ \E n \in Nodes, a \in Ips : SetIp(n, a)
             \/ \E n \in Cutting : DisconnectNode(n) \/ ConnectNode(n)
             \/ \E m \in Nodes, n \in Cutting :
                  m # n /\ (DisconnectLink(m, n) \/ ConnectLink(m, n))
    BY <2>1, TablesStep
  <2>2. ASSUME NEW n \in Crashing, Kill(n) \/ DeleteNode(n)
        PROVE  PortsInv'
    <3>1. n \in Nodes
      BY SocketsAssumption
    <3> QED
      BY <2>2, <3>1, KillStep, DeleteStep DEF Benign
  <2>3. ASSUME NEW n \in Crashing, NEW s \in Socks, NEW k \in Nodes, KillPaused(n, s, k)
        PROVE  PortsInv'
    <3>1. n \in Nodes
      BY SocketsAssumption
    <3> QED
      BY <2>3, <3>1, KillPausedStep DEF Benign
  <2> QED
    BY <1>1, <2>1, <2>2, <2>3 DEF NodeStep
<1>2. CASE SockStep
  <2>1. ASSUME NEW s \in Socks, NEW n \in Nodes, Socket(s, n, "tcp") \/ Socket(s, n, "udp")
        PROVE  PortsInv'
    BY <2>1, SocketStep DEF Types
  <2>2. ASSUME NEW s \in Socks, NEW p \in Ports, Bind(s, p)
        PROVE  PortsInv'
    BY <2>2, BindStep
  <2>3. ASSUME NEW s \in Socks, NEW a \in Ips \cup {Loopback}, NEW p \in Ports,
               Connect(s, a, p) \/ ConnectRefused(s, a, p) \/ Send(s, a, p)
        PROVE  PortsInv'
    BY <2>3, ConnectStep, RefusedStep, MailStep
  <2>4. ASSUME NEW s \in Socks, NEW c \in Socks, Accept(s, c)
        PROVE  PortsInv'
    BY <2>4, AcceptStep
  <2>5. ASSUME NEW s \in Socks, FromStd(s) \/ IntoStd(s) \/ Drop(s) \/ DropKilled(s)
        PROVE  PortsInv'
    BY <2>5, WrapStep, DropStep, DropKilledStep DEF FromStd, IntoStd
  <2>6. ASSUME \/ \E s \in Socks, x \in inbox : RecvMsg(s, x)
               \/ \E m \in flight : Deliver(m)
        PROVE  PortsInv'
    BY <2>6, MailStep
  <2>7. Streaming \subseteq Nodes /\ Messaging \subseteq Nodes
    BY SocketsAssumption
  <2> QED
    BY <1>2, <2>1, <2>2, <2>3, <2>4, <2>5, <2>6, <2>7 DEF SockStep
<1>3. CASE UNCHANGED vars
  <2>1. /\ UNCHANGED <<nodeVars, cutVars, portVars, fdVars, obj, sock, mailVars>>
        /\ UNCHANGED <<nodes, inc, sockets>>
    BY <1>3 DEF vars, nodeVars, portVars
  <2>2. NodesTyped' /\ PortsTyped' /\ FdsTyped' /\ SocksTyped' /\ MailTyped'
    BY <2>1, StepFacts, TypeFrame
  <2>3. SocketsInv'
    BY <2>1, <2>2, SocketsFrame
  <2>4. TablesAgree' /\ NodesCounted' /\ InboxAddressed' /\ NoStaleDatagram'
    BY <2>1, StepFacts, NodesFrame, MailFrame DEF mailVars
  <2> QED
    BY <2>2, <2>3, <2>4, TypesNext, PortsInvParts
<1> QED
  BY <1>1, <1>2, <1>3 DEF Next

\* The inductive invariant: descriptors, ports and mailboxes belong to each other.
THEOREM SocketsInvariant == Benign => (Spec => []PortsInv)
<1> SUFFICES ASSUME Benign PROVE Spec => []PortsInv
  OBVIOUS
<1>1. Init => PortsInv
  BY SocketsInit
<1>2. PortsInv /\ [Next]_vars => PortsInv'
  BY SocketsStep
<1> QED
  BY <1>1, <1>2, PTL DEF Spec

\* What the invariant says of the properties.
LEMMA PortsInvImplies ==
  ASSUME PortsInv
  PROVE  TypeOK /\ FdsOwned /\ OwnMailbox /\ PortsOwned /\ TablesAgree /\ NoStaleDatagram
           /\ NoDoubleClose
<1>1. OwnMailbox
  BY UsesBound DEF OwnMailbox
<1> QED
  BY <1>1 DEF PortsInv, FdsInv, NodesInv

\* net/mod.rs and net/network.rs: every table keeps its types.
THEOREM SocketsTypeCorrect == Benign => (Spec => []TypeOK)
<1> SUFFICES ASSUME Benign PROVE Spec => []TypeOK
  OBVIOUS
<1>1. PortsInv => TypeOK
  BY PortsInvImplies
<1> QED
  BY <1>1, SocketsInvariant, PTL

\* HostNetworkState: each SocketState has an open descriptor of its own, through
\* kills, restarts, deletions and the late drops of killed tasks.
THEOREM DescriptorsOwned == Benign => (Spec => []FdsOwned)
<1> SUFFICES ASSUME Benign PROVE Spec => []FdsOwned
  OBVIOUS
<1>1. PortsInv => FdsOwned
  BY PortsInvImplies
<1> QED
  BY <1>1, SocketsInvariant, PTL

\* OwnedFd::drop and the placeholder of alloc_fd: nothing is closed twice, and no
\* descriptor is added twice.
THEOREM NothingClosedTwice == Benign => (Spec => []NoDoubleClose)
<1> SUFFICES ASSUME Benign PROVE Spec => []NoDoubleClose
  OBVIOUS
<1>1. PortsInv => NoDoubleClose
  BY PortsInvImplies
<1> QED
  BY <1>1, SocketsInvariant, PTL

\* Network::bind and close: a socket in use reads and accepts from its own mailbox.
THEOREM MailboxesOwned == Benign => (Spec => []OwnMailbox)
<1> SUFFICES ASSUME Benign PROVE Spec => []OwnMailbox
  OBVIOUS
<1>1. PortsInv => OwnMailbox
  BY PortsInvImplies
<1> QED
  BY <1>1, SocketsInvariant, PTL

\* Endpoint::drop and reset_node: no port leaks.
THEOREM NoPortLeaks == Benign => (Spec => []PortsOwned)
<1> SUFFICES ASSUME Benign PROVE Spec => []PortsOwned
  OBVIOUS
<1>1. PortsInv => PortsOwned
  BY PortsInvImplies
<1> QED
  BY <1>1, SocketsInvariant, PTL

\* set_ip and delete_node, in every program: addresses and nodes know each other, and
\* nothing is cut that does not exist.
THEOREM AddressesAgree == Spec => []TablesAgree
<1>1. Init => NodeTables
  BY SocketsInit, StepFacts DEF NodeTables
<1>2. NodeTables /\ [Next]_vars => NodeTables'
  BY NodeTablesStep
<1>3. NodeTables => TablesAgree
  BY DEF NodeTables
<1> QED
  BY <1>1, <1>2, <1>3, PTL DEF Spec

\* Network::send: a datagram is received by the socket it was sent to, or not at all.
THEOREM DatagramsReachTheirSocket == Benign => (Spec => []NoStaleDatagram)
<1> SUFFICES ASSUME Benign PROVE Spec => []NoStaleDatagram
  OBVIOUS
<1>1. PortsInv => NoStaleDatagram
  BY PortsInvImplies
<1> QED
  BY <1>1, SocketsInvariant, PTL

=============================================================================
