----------------------------- MODULE TcpProofs -----------------------------
(***************************************************************************)
(* Proofs about Tcp for any number of connections, nodes, kills, listeners *)
(* and sequence numbers.  The invariants come in three layers: who has     *)
(* which id and which socket (EndsInv), what the messages on the way say   *)
(* (MessagesInv), and what readers have got and wait for (ReadersInv).     *)
(***************************************************************************)
EXTENDS Tcp, SequenceTheorems, TLAPS

-----------------------------------------------------------------------------
(* The inductive invariants.                                                *)

\* Every end that was ever made has a tcp id of its own.
IdsUnique ==
  /\ \A e \in Ends : st[e] # "none" => id[e] \in 1 .. next_tcp_id - 1
  /\ \A e, f \in Ends : st[e] # "none" /\ st[f] # "none" /\ id[e] = id[f] => e = f

\* The listeners are numbered from 1.
ListenersNumbered ==
  /\ accepting => nbound # 0
  /\ \A c \in Conns : st[<<c, "server">>] # "none" => lbox[c] # 0

\* No end is of an incarnation that does not exist yet.
EndsBorn == \A e \in Ends : einc[e] <= inc[Host(e)]

\* The port is bound for one listener at a time, which has its socket while it
\* accepts; without it there is no accept future.
OneListener ==
  /\ \A b \in Listening : b = ListenBox(nbound)
  /\ accepting => ListenBox(nbound) \in sockets
  /\ ~accepting => acceptor = NoFuture

\* The accept future has the living end that was answered but not returned yet.
AnsweredHeld ==
  \A e \in Ends :
    /\ st[e] = "answered" => e[2] = "server" /\ (Alive(e) => acceptor = Answered(e))
    /\ acceptor = Answered(e) => st[e] = "answered" /\ Alive(e) /\ lbox[e[1]] = nbound
    /\ st[e] = "connecting" => e[2] = "client"

\* Every living end, a stream already or not, has its socket.
SocketsBound == \A e \in Ends : st[e] \in Registered /\ Alive(e) => BoxOf(e) \in sockets

EndsInv ==
  /\ TypeOK /\ ListenersNumbered /\ IdsUnique /\ IdsRegistered
  /\ EndsBorn /\ OneListener /\ AnsweredHeld /\ SocketsBound

\* The requests to connect that the accept future has, or can still get.
Requests == {m \in flight \cup msgs : m.tag = ConnectTag}

\* A request names its client's id, and nobody has answered it.
Unanswered(m) ==
  /\ m.from[2] = "client" /\ st[m.from] # "none" /\ m.val = id[m.from]
  /\ st[Peer(m.from)] = "none"

\* There is one request of a client at most, in one place.
RequestsOnce ==
  /\ \A m \in Requests : Unanswered(m)
  /\ \A m1, m2 \in Requests : m1.from = m2.from => m1 = m2
  /\ \A m \in Requests : ~(m \in flight /\ m \in msgs)
  /\ acceptor[1] = "got" =>
       /\ Unanswered(acceptor[2])
       /\ \A m \in Requests : m.from # acceptor[2].from

\* An end that may write knows the id of its peer; no server's end is without the
\* client's.
PeersKnown ==
  \A e \in Ends :
    /\ st[e] \in Streams \cup {"answered"} => rid[e] = id[Peer(e)] /\ st[Peer(e)] # "none"
    /\ e[2] = "server" /\ st[e] # "none" => st[Peer(e)] # "none"

\* Sequence number 0 of a server's end is that of the answer: the server has used it,
\* and the client that connects expects it.
AnswerFirst ==
  \A e \in Ends :
    /\ e[2] = "server" /\ st[e] # "none" => send_seq[e] >= 1
    /\ st[e] \in {"none", "connecting"} => recv_seq[e] = 0

\* Any other message is for the peer of its sender: the answer with the id of
\* the sender, or a payload, which is its sequence number, that was sent with Ok.
Addressed(m) ==
  /\ st[m.from] # "none" /\ st[Peer(m.from)] # "none"
  /\ m.tag[1] = id[Peer(m.from)]
  /\ IF m.from[2] = "server" /\ m.tag[2] = 0 THEN m.val = id[m.from]
     ELSE m.val = m.tag[2] /\ m.val \in sent[m.from]

MessagesAddressed == \A m \in flight \cup msgs : m.tag # ConnectTag => Addressed(m)

MessagesInv ==
  EndsInv /\ RequestsOnce /\ PeersKnown /\ AnswerFirst /\ MessagesAddressed

\* Only streams with a read half read; a client's stream has got its answer.
OnlyStreamsRead ==
  \A e \in Ends :
    /\ reading[e] # "idle" => st[e] \in {"open", "reader"}
    /\ st[e] \in Streams => recv_seq[e] >= FirstSeq(Peer(e))

\* An end has taken two units for each payload whose sequence number is past.
Arrived(e) == rcvd[e] \o buffer[e]
UnitsCounted ==
  \A e \in Ends :
    Len(Arrived(e)) = IF recv_seq[e] < FirstSeq(Peer(e)) THEN 0
                      ELSE 2 * (recv_seq[e] - FirstSeq(Peer(e)))

ReadersInv ==
  MessagesInv /\ OnlyStreamsRead /\ UnitsCounted /\ InOrder /\ WaiterNotForgotten

-----------------------------------------------------------------------------
(* Type correctness in parts: a proof expands the one it is about.          *)

ListenType ==
  /\ nbound \in 0 .. MaxListen /\ accepting \in BOOLEAN
  /\ acceptor \in {NoFuture, Waiting} \cup ({"got"} \X Message)
                   \cup ({"answered"} \X Ends)
  /\ lbox \in [Conns -> 0 .. MaxListen]

EndsType ==
  /\ inc \in [Nodes -> 0 .. MaxInc] /\ home \in [Conns -> Nodes]
  /\ st \in [Ends -> Registered \cup {"none", "closed"}]
  /\ einc \in [Ends -> 0 .. MaxInc]
  /\ reading \in [Ends -> {"idle", "waiting", "woken"}]

IdsType ==
  /\ next_tcp_id \in Nat \ {0}
  /\ id \in [Ends -> Nat] /\ rid \in [Ends -> Nat]
  /\ live \subseteq Nodes \X Nat

SeqsType ==
  /\ send_seq \in [Ends -> 0 .. MaxSeq + 1] /\ recv_seq \in [Ends -> 0 .. MaxSeq + 1]
  /\ sent \in [Ends -> SUBSET (0 .. MaxSeq)]

UnitsType ==
  /\ buffer \in [Ends -> Seq(Unit)] /\ \A e \in Ends : Len(buffer[e]) <= 2
  /\ rcvd \in [Ends -> Seq(Unit)]

NetType ==
  /\ sockets \subseteq Boxes
  /\ flight \subseteq Message /\ msgs \subseteq Message /\ wakers \subseteq Waker

\* The parts are all of it.
LEMMA TypeParts ==
  TypeOK <=> /\ ListenType /\ EndsType /\ IdsType
             /\ SeqsType /\ UnitsType /\ NetType
BY DEF TypeOK, ListenType, EndsType, IdsType, SeqsType, UnitsType, NetType

-----------------------------------------------------------------------------
(* Ends, boxes and the accept future.                                       *)

\* The two ends of a connection are each other's peers.
LEMMA EndFacts ==
  /\ \A e \in Ends :
       /\ e[1] \in Conns /\ e[2] \in {"client", "server"}
       /\ Peer(e) \in Ends /\ Peer(Peer(e)) = e
       /\ Peer(e)[1] = e[1] /\ Peer(e)[2] # e[2]
       /\ Peer(e)[2] \in {"client", "server"}
       /\ e[2] = "client" => e = <<e[1], "client">>
       /\ e[2] = "server" => e = <<e[1], "server">>
  /\ \A e, f \in Ends : e[1] = f[1] /\ e[2] = f[2] => e = f
  /\ \A c \in Conns :
       /\ <<c, "client">> \in Ends /\ <<c, "server">> \in Ends
       /\ <<c, "client">>[1] = c /\ <<c, "client">>[2] = "client"
       /\ <<c, "server">>[1] = c /\ <<c, "server">>[2] = "server"
       /\ Peer(<<c, "client">>) = <<c, "server">>
       /\ Peer(<<c, "server">>) = <<c, "client">>
BY DEF Ends, Peer

\* A mailbox is that of one client or of one listener.
LEMMA BoxFacts ==
  /\ \A c \in Conns : /\ ClientBox(c) \in Boxes
                      /\ ClientBox(c)[1] = "stream" /\ ClientBox(c)[2] = c
  /\ \A k \in 1 .. MaxListen : ListenBox(k) \in Boxes
  /\ \A k : ListenBox(k)[1] = "listener" /\ ListenBox(k)[2] = k
  /\ \A c, k : ClientBox(c) # ListenBox(k)
  /\ \A c, d : ClientBox(c) = ClientBox(d) => c = d
  /\ \A k, l : ListenBox(k) = ListenBox(l) => k = l
  /\ \A b \in Boxes : \/ \E c \in Conns : b = ClientBox(c)
                      \/ \E k \in 1 .. MaxListen : b = ListenBox(k)
BY DEF ClientBox, ListenBox, Boxes

\* What the accept future is, is told by its first component.
LEMMA FutureFacts ==
  /\ NoFuture[1] = "none" /\ Waiting[1] = "waiting"
  /\ \A m : Got(m)[1] = "got" /\ Got(m)[2] = m
  /\ \A e : Answered(e)[1] = "answered" /\ Answered(e)[2] = e
  /\ \A e, f : Answered(e) = Answered(f) => e = f
BY DEF NoFuture, Waiting, Got, Answered

\* The future that TypeOK allows is one of these.
LEMMA FutureCases ==
  ASSUME TypeOK
  PROVE  \/ acceptor = NoFuture
         \/ acceptor = Waiting
         \/ acceptor[2] \in Message /\ acceptor = Got(acceptor[2])
         \/ acceptor[2] \in Ends /\ acceptor = Answered(acceptor[2])
BY DEF TypeOK, NoFuture, Waiting, Got, Answered

\* Who hosts an end, and the mailbox it reads, in the types.
LEMMA HostFacts ==
  ASSUME TypeOK
  PROVE  /\ \A e \in Ends : Host(e) \in Nodes
         /\ \A e \in Ends : e[2] = "client" =>
              Host(e) = home[e[1]] /\ BoxOf(e) = ClientBox(e[1])
         /\ \A e \in Ends : e[2] = "server" =>
              Host(e) = Server /\ BoxOf(e) = ListenBox(lbox[e[1]])
         /\ \A c \in Conns : BoxHost(ClientBox(c)) = home[c]
         /\ \A k : BoxHost(ListenBox(k)) = Server
         /\ \A e \in Ends : RemoteBox(e) \subseteq sockets
<1>1. \A e \in Ends : RemoteBox(e) \subseteq sockets
  BY DEF RemoteBox
<1>2. \A c \in Conns : home[c] \in Nodes
  BY DEF TypeOK
<1>3. \A c \in Conns : BoxHost(ClientBox(c)) = home[c]
  BY BoxFacts DEF BoxHost
<1>4. \A k : BoxHost(ListenBox(k)) = Server
  BY BoxFacts DEF BoxHost
<1> QED
  BY <1>1, <1>2, <1>3, <1>4, EndFacts, TcpAssumption DEF Host, BoxOf

-----------------------------------------------------------------------------
(* Type correctness.                                                        *)

\* A payload is two units.
LEMMA PayloadFacts ==
  \A e \in Ends, k \in Nat :
    /\ Payload(e, k) \in Seq(Unit)
    /\ Len(Payload(e, k)) = 2 /\ Len(Payload(e, k)) <= 2
    /\ Payload(e, k)[1] = <<e, k, 1>> /\ Payload(e, k)[2] = <<e, k, 2>>
BY DEF Payload, Unit

\* Concatenation of units is associative.
LEMMA UnitsAssociative ==
  \A r, t, u \in Seq(Unit) : (r \o t) \o u = r \o (t \o u)
BY ConcatAssociative, SMT

\* However much of it is read, and also by a peek, no unit is lost or read twice.
LEMMA UnitsRead ==
  ASSUME TypeOK, NEW e \in Ends, NEW units \in Seq(Unit), Len(units) <= 2,
         NEW n \in 1 .. 2, NEW peek \in BOOLEAN, ReadUnits(e, units, n, peek)
  PROVE  /\ buffer' \in [Ends -> Seq(Unit)] /\ rcvd' \in [Ends -> Seq(Unit)]
         /\ \A f \in Ends : Len(buffer'[f]) <= 2
         /\ \A f \in Ends : f # e => buffer'[f] = buffer[f] /\ rcvd'[f] = rcvd[f]
         /\ rcvd'[e] \o buffer'[e] = rcvd[e] \o units
<1> DEFINE k == IF n <= Len(units) THEN n ELSE Len(units)
           left == SubSeq(units, k + 1, Len(units))
           taken == SubSeq(units, 1, k)
<1>1. k \in 0 .. Len(units) /\ Len(units) \in Nat
  BY LenProperties
<1>2. left \in Seq(Unit) /\ taken \in Seq(Unit) /\ Len(left) <= Len(units)
  <2>1. \A i \in 1 .. Len(units) : units[i] \in Unit
    BY ElementOfSeq
  <2> HIDE DEF k
  <2>2. left \in Seq(Unit) /\ Len(left) <= Len(units)
    BY <1>1, <2>1, SubSeqProperties
  <2>3. taken \in Seq(Unit)
    BY <1>1, <2>1, SubSeqProperties
  <2> QED BY <2>2, <2>3
<1>3. taken \o left = units
  <2> HIDE DEF k
  <2>0. /\ 1 \in 1 .. Len(units) + 1 /\ k \in 1 - 1 .. Len(units)
        /\ Len(units) \in k .. Len(units)
    BY <1>1
  <2>1. taken \o left = SubSeq(units, 1, Len(units))
    BY <2>0, ConcatAdjacentSubSeq, Zenon
  <2> QED BY <2>1, SubSeqFull
<1>4. /\ buffer' = [buffer EXCEPT ![e] = IF peek THEN units ELSE left]
      /\ rcvd' = [rcvd EXCEPT ![e] = IF peek THEN rcvd[e] ELSE rcvd[e] \o taken]
  BY DEF ReadUnits
<1> HIDE DEF left, taken
<1>5. rcvd[e] \in Seq(Unit) /\ buffer \in [Ends -> Seq(Unit)]
      /\ rcvd \in [Ends -> Seq(Unit)] /\ \A f \in Ends : Len(buffer[f]) <= 2
  BY TypeParts DEF UnitsType
<1>6. rcvd[e] \o taken \in Seq(Unit)
  BY <1>2, <1>5, ConcatProperties
<1>7. (rcvd[e] \o taken) \o left = rcvd[e] \o units
  <2>1. rcvd[e] \in Seq(Unit) /\ left \in Seq(Unit) /\ taken \in Seq(Unit)
    BY <1>2, <1>5
  <2>2. (rcvd[e] \o taken) \o left = rcvd[e] \o (taken \o left)
    BY <2>1, UnitsAssociative, Zenon
  <2> QED BY <2>2, <1>3, Zenon
<1>8. buffer'[e] = (IF peek THEN units ELSE left) /\ Len(buffer'[e]) <= 2
      /\ rcvd'[e] = (IF peek THEN rcvd[e] ELSE rcvd[e] \o taken)
  BY <1>1, <1>2, <1>4, <1>5, LenProperties
<1>9. rcvd'[e] \o buffer'[e] = rcvd[e] \o units
  BY <1>7, <1>8, Zenon
<1> QED
  BY <1>2, <1>4, <1>5, <1>6, <1>8, <1>9

\* Every step keeps the variables in their types.
LEMMA TypeStep == TypeOK /\ ListenersNumbered /\ [Next]_vars => TypeOK'
<1> SUFFICES ASSUME TypeOK, ListenersNumbered, [Next]_vars PROVE TypeOK'
  OBVIOUS
<1> SUFFICES ListenType' /\ EndsType' /\ IdsType' /\ SeqsType' /\ UnitsType' /\ NetType'
  BY TypeParts DEF TypeOK, ListenType, EndsType, IdsType, SeqsType, UnitsType, NetType
<1>0. ListenType /\ EndsType /\ IdsType /\ SeqsType /\ UnitsType /\ NetType
  BY TypeParts
<1> USE DEF listenVars, streamVars
<1>1. CASE Listen
  <2>1. ListenType'
    BY <1>0, <1>1, TcpAssumption DEF Listen, ListenType
  <2>2. NetType'
    BY <1>0, <1>1, BoxFacts, TcpAssumption DEF Listen, ListenType, NetType
  <2>3. EndsType' /\ IdsType'
    BY <1>0, <1>1 DEF Listen, EndsType, IdsType
  <2>4. SeqsType' /\ UnitsType'
    BY <1>0, <1>1 DEF Listen, SeqsType, UnitsType
  <2> QED BY <2>1, <2>2, <2>3, <2>4
<1>2. ASSUME NEW E, NEW D, DropEnds(E, D),
             \/ UNCHANGED <<accepting, acceptor>>
             \/ acceptor' = NoFuture /\ accepting' \in BOOLEAN
      PROVE  ListenType' /\ EndsType' /\ IdsType' /\ SeqsType' /\ UnitsType' /\ NetType'
  <2>1. ListenType'
    BY <1>0, <1>2 DEF DropEnds, ListenType
  <2>2. NetType'
    BY <1>0, <1>2 DEF DropEnds, CloseSockets, NetType
  <2>3. EndsType'
    BY <1>0, <1>2 DEF DropEnds, Woken, EndsType
  <2>4. IdsType'
    BY <1>0, <1>2 DEF DropEnds, IdsType
  <2>5. SeqsType' /\ UnitsType'
    BY <1>0, <1>2 DEF DropEnds, SeqsType, UnitsType
  <2> QED BY <2>1, <2>2, <2>3, <2>4, <2>5
<1>3. CASE DropListener \/ IntoStd
  BY <1>0, <1>2, <1>3 DEF DropListener, IntoStd, DropFuture, ListenType
<1>4. CASE PollAccept
  <2>1. ListenType' /\ NetType'
    BY <1>0, <1>4 DEF PollAccept, Connecting, Got, Taken, ListenType, NetType
  <2>2. EndsType' /\ IdsType'
    BY <1>0, <1>4 DEF PollAccept, EndsType, IdsType
  <2>3. SeqsType' /\ UnitsType'
    BY <1>0, <1>4 DEF PollAccept, SeqsType, UnitsType
  <2> QED BY <2>1, <2>2, <2>3
<1>5. CASE AcceptReturns
  <2>1. ListenType' /\ NetType'
    BY <1>0, <1>5 DEF AcceptReturns, ListenType, NetType
  <2>2. EndsType' /\ IdsType'
    BY <1>0, <1>5 DEF AcceptReturns, Streams, Registered, EndsType, IdsType
  <2>3. SeqsType' /\ UnitsType'
    BY <1>0, <1>5 DEF AcceptReturns, SeqsType, UnitsType
  <2> QED BY <2>1, <2>2, <2>3
<1>6. ASSUME NEW c \in Conns, NEW n \in Callers, NEW ok \in BOOLEAN, Connect(c, n, ok)
      PROVE  ListenType' /\ EndsType' /\ IdsType' /\ SeqsType' /\ UnitsType' /\ NetType'
  <2>1. <<c, "client">> \in Ends /\ n \in Nodes
    BY EndFacts, TcpAssumption
  <2>2. ListenType'
    BY <1>0, <1>6 DEF Connect, ListenType
  <2>3. EndsType'
    BY <1>0, <1>6, <2>1 DEF Connect, Registered, EndsType
  <2>4. IdsType'
    BY <1>0, <1>6, <2>1 DEF Connect, AllocateId, Register, IdsType
  <2>5. SeqsType' /\ UnitsType'
    BY <1>0, <1>6 DEF Connect, SeqsType, UnitsType
  <2>6. sockets' \subseteq Boxes
    BY <1>0, <1>6, BoxFacts DEF Connect, NetType
  <2>7. flight' \subseteq Message
    BY <1>0, <1>6, <2>1, TcpAssumption
    DEF Connect, Send, Listening, ConnectTag, Message, NetType, IdsType
  <2>8. NetType'
    BY <1>0, <1>6, <2>6, <2>7 DEF Connect, NetType
  <2> QED BY <2>2, <2>3, <2>4, <2>5, <2>8
<1>7. ASSUME NEW c \in Conns, NEW ok \in BOOLEAN, Accept(c, ok)
      PROVE  ListenType' /\ EndsType' /\ IdsType' /\ SeqsType' /\ UnitsType' /\ NetType'
  <2>1. <<c, "server">> \in Ends
    BY EndFacts
  <2>2. acceptor[2] \in Message /\ acceptor[2].val \in Nat
    BY <1>7, FutureCases, FutureFacts DEF Accept, Message
  <2>3. ListenType'
    BY <1>0, <1>7, <2>1 DEF Accept, Answered, ListenType
  <2>4. EndsType'
    BY <1>0, <1>7, <2>1, TcpAssumption DEF Accept, Registered, EndsType
  <2>5. IdsType'
    BY <1>0, <1>7, <2>1, <2>2, TcpAssumption DEF Accept, AllocateId, Register, IdsType
  <2>6. SeqsType'
    <3>1. send_seq' = [send_seq EXCEPT ![<<c, "server">>] = 1]
          /\ UNCHANGED <<recv_seq, sent>>
      BY <1>7 DEF Accept
    <3>2. 1 \in 0 .. MaxSeq + 1
      BY TcpAssumption
    <3> QED BY <1>0, <3>1, <3>2 DEF SeqsType
  <2>9. UnitsType'
    BY <1>0, <1>7 DEF Accept, UnitsType
  <2>7. flight' \subseteq Message
    BY <1>0, <1>7, <2>1, <2>2, BoxFacts, TcpAssumption
    DEF Accept, Send, Message, NetType, IdsType
  <2>8. NetType'
    BY <1>0, <1>7, <2>7 DEF Accept, NetType
  <2> QED BY <2>3, <2>4, <2>5, <2>6, <2>8, <2>9
<1>8. ASSUME NEW c \in Conns, NEW m \in msgs, Connected(c, m)
      PROVE  ListenType' /\ EndsType' /\ IdsType' /\ SeqsType' /\ UnitsType' /\ NetType'
  <2>1. m.val \in Nat /\ m.tag[2] \in 0 .. MaxSeq
    BY <1>0 DEF NetType, Message
  <2>2. recv_seq[<<c, "client">>] = m.tag[2]
    BY <1>8 DEF Connected, RecvTag
  <2>3. ListenType' /\ NetType'
    BY <1>0, <1>8 DEF Connected, Taken, ListenType, NetType
  <2>4. EndsType' /\ IdsType'
    BY <1>0, <1>8, <2>1 DEF Connected, Streams, Registered, EndsType, IdsType
  <2>5. recv_seq' \in [Ends -> 0 .. MaxSeq + 1]
    <3>1. recv_seq' = [recv_seq EXCEPT ![<<c, "client">>] = m.tag[2] + 1]
      BY <1>8, <2>2 DEF Connected
    <3>2. recv_seq \in [Ends -> 0 .. MaxSeq + 1] /\ m.tag[2] + 1 \in 0 .. MaxSeq + 1
      BY <1>0, <2>1, TcpAssumption DEF SeqsType
    <3> QED BY <3>1, <3>2, Zenon
  <2>7. SeqsType'
    BY <1>0, <1>8, <2>5 DEF Connected, SeqsType
  <2>6. UnitsType'
    BY <1>0, <1>8 DEF Connected, UnitsType
  <2> QED BY <2>3, <2>4, <2>6, <2>7
<1>9. ASSUME NEW m \in flight, Deliver(m)
      PROVE  ListenType' /\ EndsType' /\ IdsType' /\ SeqsType' /\ UnitsType' /\ NetType'
  <2>1. ListenType'
    BY <1>0, <1>9 DEF Deliver, Got, ListenType, NetType
  <2>2. NetType'
    BY <1>0, <1>9 DEF Deliver, NetType
  <2>3. EndsType'
    BY <1>0, <1>9 DEF Deliver, Woken, EndsType
  <2>4. IdsType' /\ SeqsType' /\ UnitsType'
    BY <1>0, <1>9 DEF Deliver, IdsType, SeqsType, UnitsType
  <2> QED BY <2>1, <2>2, <2>3, <2>4
<1>10. ASSUME NEW e \in Ends, NEW ok \in BOOLEAN, Write(e, ok)
       PROVE  ListenType' /\ EndsType' /\ IdsType' /\ SeqsType' /\ UnitsType' /\ NetType'
  <2>1. send_seq[e] \in 0 .. MaxSeq
    BY <1>0, <1>10, TcpAssumption DEF Write, SeqsType
  <2>2. RemoteBox(e) \subseteq Boxes
    BY <1>0, HostFacts DEF NetType
  <2>3. rid[e] \in Nat
    BY <1>0 DEF IdsType
  <2>4. flight' \subseteq Message
    BY <1>0, <1>10, <2>1, <2>2, <2>3, TcpAssumption
    DEF Write, Send, SendTag, Message, NetType
  <2>5. SeqsType'
    BY <1>0, <1>10, <2>1, TcpAssumption DEF Write, SeqsType
  <2>6. NetType'
    BY <1>0, <1>10, <2>4 DEF Write, NetType
  <2>7. ListenType' /\ EndsType'
    BY <1>0, <1>10 DEF Write, ListenType, EndsType
  <2>8. IdsType' /\ UnitsType'
    BY <1>0, <1>10 DEF Write, IdsType, UnitsType
  <2> QED BY <2>5, <2>6, <2>7, <2>8
<1>11. ASSUME NEW e \in Ends, NEW n \in 1 .. 2, NEW peek \in BOOLEAN,
              ReadBuffered(e, n, peek)
       PROVE  ListenType' /\ EndsType' /\ IdsType' /\ SeqsType' /\ UnitsType' /\ NetType'
  <2>1. buffer[e] \in Seq(Unit) /\ Len(buffer[e]) <= 2
    BY <1>0 DEF UnitsType
  <2>2. UnitsType'
    <3>1. ReadUnits(e, buffer[e], n, peek)
      BY <1>11 DEF ReadBuffered
    <3>2. /\ buffer' \in [Ends -> Seq(Unit)] /\ rcvd' \in [Ends -> Seq(Unit)]
          /\ \A f \in Ends : Len(buffer'[f]) <= 2
      BY <2>1, <3>1, UnitsRead
    <3> QED BY <3>2 DEF UnitsType
  <2>3. EndsType'
    BY <1>0, <1>11 DEF ReadBuffered, EndsType
  <2>4. ListenType' /\ IdsType'
    BY <1>0, <1>11 DEF ReadBuffered, ListenType, IdsType
  <2>5. SeqsType' /\ NetType'
    BY <1>0, <1>11 DEF ReadBuffered, SeqsType, NetType
  <2> QED BY <2>2, <2>3, <2>4, <2>5
<1>12. ASSUME NEW e \in Ends, NEW n \in 1 .. 2, NEW peek \in BOOLEAN, NEW m \in msgs,
              ReadMessage(e, m, n, peek)
       PROVE  ListenType' /\ EndsType' /\ IdsType' /\ SeqsType' /\ UnitsType' /\ NetType'
  <2>1. m.tag[2] \in 0 .. MaxSeq /\ m.from \in Ends /\ m.val \in Nat
    BY <1>0 DEF Message, NetType
  <2>2. recv_seq[e] = m.tag[2]
    BY <1>12 DEF ReadMessage, Expected, RecvTag
  <2>3. Payload(m.from, m.val) \in Seq(Unit) /\ Len(Payload(m.from, m.val)) <= 2
    BY <2>1, PayloadFacts, Zenon
  <2>4. UnitsType'
    <3>1. ReadUnits(e, Payload(m.from, m.val), n, peek)
      BY <1>12 DEF ReadMessage
    <3>2. /\ buffer' \in [Ends -> Seq(Unit)] /\ rcvd' \in [Ends -> Seq(Unit)]
          /\ \A f \in Ends : Len(buffer'[f]) <= 2
      BY <2>3, <3>1, UnitsRead
    <3> QED BY <3>2 DEF UnitsType
  <2>5. SeqsType'
    BY <1>0, <1>12, <2>1, <2>2, TcpAssumption DEF ReadMessage, SeqsType
  <2>6. EndsType' /\ NetType'
    BY <1>0, <1>12 DEF ReadMessage, Taken, EndsType, NetType
  <2>7. ListenType' /\ IdsType'
    BY <1>0, <1>12 DEF ReadMessage, ListenType, IdsType
  <2> QED BY <2>4, <2>5, <2>6, <2>7
<1>13. ASSUME NEW e \in Ends, ReadReset(e) \/ ReadPending(e) \/ CancelRead(e) \/ DropHalf(e)
       PROVE  ListenType' /\ EndsType' /\ IdsType' /\ SeqsType' /\ UnitsType' /\ NetType'
  <2>1. EndsType'
    BY <1>0, <1>13
    DEF ReadReset, ReadPending, CancelRead, DropHalf, Streams, Registered, EndsType
  <2>2. id[e] \in Nat /\ recv_seq[e] \in Nat
    BY <1>0, TcpAssumption DEF IdsType, SeqsType
  <2>6. BoxOf(e) \in Boxes \/ st[e] = "none"
    BY <1>0, HostFacts, BoxFacts, EndFacts, TcpAssumption
    DEF ListenersNumbered, ListenType
  <2>7. ReadPending(e) => st[e] # "none"
    BY DEF ReadPending, MayPoll, HasReader, Open, Streams
  <2>3. NetType'
    BY <1>0, <1>13, <2>2, <2>6, <2>7
    DEF ReadReset, ReadPending, CancelRead, DropHalf, RecvTag, Waker, NetType
  <2>4. ListenType' /\ IdsType'
    BY <1>0, <1>13 DEF ReadReset, ReadPending, CancelRead, DropHalf, ListenType, IdsType
  <2>5. SeqsType' /\ UnitsType'
    BY <1>0, <1>13 DEF ReadReset, ReadPending, CancelRead, DropHalf, SeqsType, UnitsType
  <2> QED BY <2>1, <2>3, <2>4, <2>5
<1>14. ASSUME NEW e \in Ends, Close(e) \/ DropKilled(e)
       PROVE  ListenType' /\ EndsType' /\ IdsType' /\ SeqsType' /\ UnitsType' /\ NetType'
  BY <1>2, <1>14 DEF Close, DropKilled
<1>15. ASSUME NEW n \in Crashing, Kill(n)
       PROVE  ListenType' /\ EndsType' /\ IdsType' /\ SeqsType' /\ UnitsType' /\ NetType'
  <2>1. ListenType'
    BY <1>0, <1>15 DEF Kill, KillListener, ListenType
  <2>2. EndsType'
    BY <1>0, <1>15, TcpAssumption DEF Kill, EndsType
  <2>3. NetType'
    BY <1>0, <1>15 DEF Kill, CloseSockets, NetType
  <2>4. IdsType' /\ SeqsType' /\ UnitsType'
    BY <1>0, <1>15 DEF Kill, IdsType, SeqsType, UnitsType
  <2> QED BY <2>1, <2>2, <2>3, <2>4
<1>16. CASE UNCHANGED vars
  BY <1>0, <1>16
  DEF vars, ListenType, EndsType, IdsType, SeqsType, UnitsType, NetType
<1> QED
  BY <1>1, <1>3, <1>4, <1>5, <1>6, <1>7, <1>8, <1>9, <1>10, <1>11, <1>12, <1>13,
     <1>14, <1>15, <1>16
  DEF Next, ReadStep, Read, Peek, PollRead

-----------------------------------------------------------------------------
(* Ids and ends.                                                            *)

\* The variables that the invariants about ends speak of.
endVars == <<next_tcp_id, inc, home, listenVars, sockets, live, st, einc, id, lbox>>

\* Ends are dropped with their sockets, by whatever action; only ends that are
\* registered are.
DropStep(E, D) ==
  /\ DropEnds(E, D)
  /\ \A e \in E : e \in Ends /\ st[e] \in Registered

\* Reading and writing leave ends, sockets and the listener alone.
LEMMA StepCases ==
  ASSUME [Next]_vars
  PROVE  \/ Listen \/ DropListener \/ IntoStd \/ PollAccept \/ AcceptReturns
         \/ \E c \in Conns, n \in Callers, ok \in BOOLEAN : Connect(c, n, ok)
         \/ \E c \in Conns, ok \in BOOLEAN : Accept(c, ok)
         \/ \E c \in Conns, m \in msgs : Connected(c, m)
         \/ \E m \in flight : Deliver(m)
         \/ \E e \in Ends : DropHalf(e) \/ Close(e) \/ DropKilled(e)
         \/ \E n \in Crashing : Kill(n)
         \/ UNCHANGED endVars
<1>1. ASSUME NEW e \in Ends, NEW ok \in BOOLEAN, Write(e, ok)
      PROVE  UNCHANGED endVars
  BY <1>1 DEF Write, endVars
<1>2. ASSUME NEW e \in Ends, ReadStep(e) PROVE UNCHANGED endVars
  BY <1>2
  DEF ReadStep, Read, Peek, PollRead, ReadBuffered, ReadMessage, ReadReset, ReadPending,
      endVars
<1>3. ASSUME NEW e \in Ends, CancelRead(e) PROVE UNCHANGED endVars
  BY <1>3 DEF CancelRead, endVars
<1>4. ASSUME UNCHANGED vars PROVE UNCHANGED endVars
  BY <1>4 DEF vars, endVars
<1> QED BY <1>1, <1>2, <1>3, <1>4 DEF Next

\* The actions that drop ends drop registered ones.
LEMMA DropSteps ==
  ASSUME AnsweredHeld, TypeOK
  PROVE  /\ DropListener =>
              DropStep(FutureEnds, IF Accepted(nbound) = {} THEN Listening ELSE {})
         /\ IntoStd => DropStep(FutureEnds, {})
         /\ \A e \in Ends : Close(e) => DropStep({e}, SocketsDropped(e))
         /\ \A e \in Ends : DropKilled(e) => DropStep({e}, {})
<1>1. \A e \in FutureEnds : e \in Ends /\ st[e] \in Registered
  BY FutureCases, FutureFacts DEF FutureEnds, AnsweredHeld, Registered
<1> QED
  BY <1>1
  DEF DropListener, IntoStd, DropFuture, Close, DropKilled, DropStep, Registered

\* Ids are handed out once, whatever is killed or dropped.
LEMMA IdsUniqueStep ==
  ASSUME EndsInv, [Next]_vars
  PROVE  IdsUnique'
<1>0. IdsType /\ st \in [Ends -> Registered \cup {"none", "closed"}]
  BY TypeParts DEF EndsInv, EndsType
<1>1. IdsUnique /\ AnsweredHeld /\ TypeOK
  BY DEF EndsInv
<1>2. ASSUME UNCHANGED <<next_tcp_id, id>>,
             \A e \in Ends : st'[e] # "none" => st[e] # "none"
      PROVE  IdsUnique'
  BY <1>1, <1>2 DEF IdsUnique
<1>3. ASSUME NEW f \in Ends, AllocateId(f),
             \A e \in Ends \ {f} : st'[e] = st[e]
      PROVE  IdsUnique'
  <2>1. /\ \A e \in Ends \ {f} : id'[e] = id[e]
        /\ id'[f] = next_tcp_id /\ next_tcp_id' = next_tcp_id + 1
    BY <1>0, <1>3 DEF AllocateId, IdsType
  <2> QED BY <1>0, <1>1, <1>3, <2>1 DEF IdsUnique, IdsType
<1>4. CASE Listen \/ PollAccept \/ (\E m \in flight : Deliver(m)) \/ UNCHANGED endVars
           \/ \E n \in Crashing : Kill(n)
  BY <1>2, <1>4 DEF Listen, PollAccept, Deliver, Kill, endVars
<1>5. CASE AcceptReturns
  <2>1. acceptor[2] \in Ends /\ st[acceptor[2]] = "answered"
    BY <1>1, <1>5, FutureCases, FutureFacts DEF AcceptReturns, AnsweredHeld
  <2> QED BY <1>0, <1>2, <1>5, <2>1 DEF AcceptReturns
<1>6. ASSUME NEW E, NEW D, DropStep(E, D) PROVE IdsUnique'
  <2>1. \A e \in Ends : st'[e] # "none" => st[e] # "none"
    BY <1>0, <1>6 DEF DropStep, DropEnds, Registered, Streams
  <2> QED BY <1>2, <1>6, <2>1 DEF DropStep, DropEnds
<1>7. ASSUME NEW c \in Conns, NEW n \in Callers, NEW ok \in BOOLEAN, Connect(c, n, ok)
      PROVE  IdsUnique'
  <2>1. <<c, "client">> \in Ends /\ AllocateId(<<c, "client">>)
    BY <1>7, EndFacts DEF Connect
  <2>2. \A e \in Ends \ {<<c, "client">>} : st'[e] = st[e]
    BY <1>0, <1>7 DEF Connect
  <2> QED BY <1>3, <2>1, <2>2
<1>8. ASSUME NEW c \in Conns, NEW ok \in BOOLEAN, Accept(c, ok)
      PROVE  IdsUnique'
  <2>1. <<c, "server">> \in Ends /\ AllocateId(<<c, "server">>)
    BY <1>8, EndFacts DEF Accept
  <2>2. \A e \in Ends \ {<<c, "server">>} : st'[e] = st[e]
    BY <1>0, <1>8 DEF Accept
  <2> QED BY <1>3, <2>1, <2>2
<1>9. ASSUME NEW c \in Conns, NEW m \in msgs, Connected(c, m)
      PROVE  IdsUnique'
  BY <1>0, <1>2, <1>9 DEF Connected
<1>10. ASSUME NEW e \in Ends, DropHalf(e)
       PROVE  IdsUnique'
  BY <1>0, <1>2, <1>10 DEF DropHalf
<1> QED
  BY <1>1, <1>4, <1>5, <1>6, <1>7, <1>8, <1>9, <1>10, StepCases, DropSteps

\* The types of what the lemmas about ends speak of.
LEMMA EndsTypes ==
  ASSUME EndsInv
  PROVE  /\ TypeOK /\ ListenType /\ EndsType /\ IdsType /\ NetType
         /\ next_tcp_id \in Nat /\ nbound \in Nat
         /\ st \in [Ends -> Registered \cup {"none", "closed"}]
         /\ id \in [Ends -> Nat]
         /\ einc \in [Ends -> Nat] /\ inc \in [Nodes -> Nat]
         /\ home \in [Conns -> Nodes]
         /\ \A e \in Ends : Host(e) \in Nodes
<1>1. TypeOK /\ ListenType /\ EndsType /\ IdsType /\ NetType
  BY TypeParts DEF EndsInv
<1>2. 0 .. MaxInc \subseteq Nat /\ 0 .. MaxListen \subseteq Nat
  BY TcpAssumption
<1>3. einc \in [Ends -> Nat] /\ inc \in [Nodes -> Nat] /\ nbound \in Nat
  BY <1>1, <1>2 DEF EndsType, ListenType
<1> QED BY <1>1, <1>3, HostFacts DEF EndsType, IdsType

\* An end that connects or accepts is new: its host, its stage, its incarnation and
\* its id are set, those of the other ends stay.
LEMMA ConnectFacts ==
  ASSUME EndsInv, NEW c \in Conns, NEW n \in Callers, NEW ok \in BOOLEAN,
         Connect(c, n, ok)
  PROVE  LET e == <<c, "client">> IN
         /\ e \in Ends /\ n \in Nodes /\ st[e] = "none"
         /\ st'[e] = (IF ok THEN "connecting" ELSE "closed")
         /\ id'[e] = next_tcp_id /\ einc'[e] = inc[n] /\ Host(e)' = n
         /\ \A f \in Ends \ {e} : /\ st'[f] = st[f] /\ id'[f] = id[f]
                                  /\ einc'[f] = einc[f] /\ Host(f)' = Host(f)
         /\ UNCHANGED <<inc, listenVars, reading, lbox>>
<1> DEFINE e == <<c, "client">>
<1>1. e \in Ends /\ n \in Nodes /\ e[1] = c /\ e[2] = "client"
  BY EndFacts, TcpAssumption
<1>2. /\ home' = [home EXCEPT ![c] = n] /\ einc' = [einc EXCEPT ![e] = inc[n]]
      /\ id' = [id EXCEPT ![e] = next_tcp_id] /\ st[e] = "none"
      /\ st' = [st EXCEPT ![e] = IF ok THEN "connecting" ELSE "closed"]
      /\ UNCHANGED <<inc, listenVars, reading, lbox>>
  BY DEF Connect, AllocateId
<1>3. \A f \in Ends \ {e} : f[2] = "client" => f[1] # c
  BY EndFacts
<1>4. \A f \in Ends : f[1] \in Conns
  BY EndFacts
<1> HIDE DEF e
<1>5. Host(e)' = n /\ \A f \in Ends \ {e} : Host(f)' = Host(f)
  BY <1>1, <1>2, <1>3, <1>4, EndsTypes DEF Host
<1> QED BY <1>1, <1>2, <1>5, EndsTypes DEF e

\* What the answer to a connection leaves: a new end of the living server, registered
\* under a new id if it could be sent.
LEMMA AcceptFacts ==
  ASSUME EndsInv, NEW c \in Conns, NEW ok \in BOOLEAN, Accept(c, ok)
  PROVE  LET e == <<c, "server">> IN
         /\ e \in Ends /\ Host(e) = Server
         /\ st'[e] = (IF ok THEN "answered" ELSE "closed")
         /\ id'[e] = next_tcp_id /\ einc'[e] = inc[Server] /\ lbox'[c] = nbound
         /\ \A f \in Ends \ {e} : st'[f] = st[f] /\ id'[f] = id[f] /\ einc'[f] = einc[f]
         /\ \A f \in Ends : Host(f)' = Host(f)
         /\ \A d \in Conns \ {c} : lbox'[d] = lbox[d]
         /\ accepting /\ acceptor = Got(acceptor[2]) /\ acceptor[2] \in Message
         /\ acceptor[1] = "got" /\ acceptor[2].from \in Ends /\ acceptor[2].from[1] = c
         /\ acceptor' = IF ok THEN Answered(e) ELSE NoFuture
         /\ UNCHANGED <<inc, nbound, accepting, sockets>>
<1> DEFINE e == <<c, "server">>
<1>1. e \in Ends /\ e[2] = "server"
  BY EndFacts
<1>2. /\ einc' = [einc EXCEPT ![e] = inc[Server]]
      /\ id' = [id EXCEPT ![e] = next_tcp_id]
      /\ lbox' = [lbox EXCEPT ![c] = nbound]
      /\ st' = [st EXCEPT ![e] = IF ok THEN "answered" ELSE "closed"]
      /\ UNCHANGED <<inc, nbound, accepting, sockets, home>>
      /\ accepting /\ acceptor[1] = "got" /\ acceptor[2].from[1] = c
      /\ acceptor' = IF ok THEN Answered(e) ELSE NoFuture
  BY DEF Accept, AllocateId
<1>3. acceptor = Got(acceptor[2]) /\ acceptor[2] \in Message
  BY <1>2, FutureCases, FutureFacts, EndsTypes
<1>6. acceptor[2].from \in Ends
  BY <1>3 DEF Message
<1>4. lbox \in [Conns -> 0 .. MaxListen]
  BY EndsTypes DEF ListenType
<1> HIDE DEF e
<1>5. Host(e) = Server /\ \A f \in Ends : Host(f)' = Host(f)
  BY <1>1, <1>2 DEF Host
<1> QED BY <1>1, <1>2, <1>3, <1>4, <1>5, <1>6, EndsTypes DEF e

\* It kills nobody and revives nobody.
LEMMA AcceptAlive ==
  ASSUME EndsInv, NEW c \in Conns, NEW ok \in BOOLEAN, Accept(c, ok)
  PROVE  /\ Alive(<<c, "server">>)'
         /\ \A f \in Ends \ {<<c, "server">>} : Alive(f)' <=> Alive(f)
<1>1. /\ inc' = inc /\ einc'[<<c, "server">>] = inc[Server]
      /\ \A f \in Ends \ {<<c, "server">>} : einc'[f] = einc[f]
  BY AcceptFacts
<1>2. /\ <<c, "server">> \in Ends /\ Host(<<c, "server">>) = Server
      /\ \A f \in Ends : Host(f)' = Host(f)
  BY AcceptFacts
<1>3. ASSUME NEW f \in Ends \ {<<c, "server">>} PROVE Alive(f)' <=> Alive(f)
  BY <1>1, <1>2 DEF Alive
<1> QED BY <1>1, <1>2, <1>3 DEF Alive

\* Dropping ends closes those, and keeps the rest.
LEMMA DropFacts ==
  ASSUME EndsInv, NEW E, NEW D, DropStep(E, D)
  PROVE  /\ \A e \in Ends : st'[e] = IF e \in E THEN "closed" ELSE st[e]
         /\ \A e \in E : e \in Ends /\ st[e] \in Registered
         /\ live' = live \ {<<Host(e), id[e]>> : e \in E}
         /\ sockets' = sockets \ D
         /\ \A e \in Ends : /\ Host(e)' = Host(e) /\ (Alive(e)' <=> Alive(e))
                            /\ BoxOf(e)' = BoxOf(e)
         /\ UNCHANGED <<next_tcp_id, inc, home, nbound, einc, id, lbox>>
BY EndsTypes DEF DropStep, DropEnds, CloseSockets, Host, Alive, BoxOf

\* The end that accept returns is the one that was answered.
LEMMA AcceptReturnsFacts ==
  ASSUME EndsInv, AcceptReturns
  PROVE  /\ acceptor = Answered(acceptor[2])
         /\ acceptor[2] \in Ends /\ st[acceptor[2]] = "answered"
         /\ st' = [st EXCEPT ![acceptor[2]] = "open"]
         /\ acceptor' = NoFuture
<1>1. acceptor[1] = "answered" /\ st' = [st EXCEPT ![acceptor[2]] = "open"]
      /\ acceptor' = NoFuture
  BY DEF AcceptReturns
<1>2. AnsweredHeld
  BY DEF EndsInv
<1>3. acceptor = Answered(acceptor[2]) /\ acceptor[2] \in Ends
  BY <1>1, EndsTypes, FutureCases, FutureFacts
<1> QED BY <1>1, <1>2, <1>3 DEF AnsweredHeld

\* The ids that are registered stay those of the ends that have not been dropped.
LEMMA IdsRegisteredStep ==
  ASSUME EndsInv, RequestsOnce, [Next]_vars
  PROVE  IdsRegistered'
<1>0. IdsRegistered /\ IdsUnique
  BY DEF EndsInv
<1>r. {"none", "closed"} \cap Registered = {} /\ {"connecting", "answered", "open",
         "reader", "writer"} \subseteq Registered
  BY DEF Registered, Streams
<1>1. ASSUME live' = live,
             \A e \in Ends : /\ st'[e] \in Registered <=> st[e] \in Registered
                             /\ Host(e)' = Host(e) /\ id'[e] = id[e]
      PROVE  IdsRegistered'
  BY <1>0, <1>1 DEF IdsRegistered
<1>2. CASE Listen \/ PollAccept \/ (\E m \in flight : Deliver(m)) \/ UNCHANGED endVars
           \/ \E n \in Crashing : Kill(n)
  BY <1>1, <1>2 DEF Listen, PollAccept, Deliver, Kill, endVars, Host
<1>3. CASE AcceptReturns
  <2>1. \A e \in Ends : st'[e] \in Registered <=> st[e] \in Registered
    BY <1>3, <1>r, AcceptReturnsFacts, EndsTypes
  <2> QED BY <1>1, <1>3, <2>1 DEF AcceptReturns, Host
<1>4. ASSUME NEW E, NEW D, DropStep(E, D) PROVE IdsRegistered'
  BY <1>0, <1>r, <1>4, DropFacts DEF IdsRegistered, IdsUnique
<1>10. ASSUME NEW e \in Ends, st[e] \notin Registered,
              \A f \in Ends \ {e} :
                st'[f] = st[f] /\ Host(f)' = Host(f) /\ id'[f] = id[f],
              live' = IF st'[e] \in Registered THEN live \cup {<<Host(e)', id'[e]>>}
                      ELSE live
       PROVE  IdsRegistered'
  <2>1. \A x : x \in live' <=>
           \E f \in Ends : st'[f] \in Registered /\ x = <<Host(f)', id'[f]>>
    <3>1. \A x : x \in live <=>
             \E f \in Ends : st[f] \in Registered /\ x = <<Host(f), id[f]>>
      BY <1>0 DEF IdsRegistered
    <3>2. \A f \in Ends : f # e => (<<Host(f)', id'[f]>> = <<Host(f), id[f]>>
                                   /\ st'[f] = st[f])
      BY <1>10
    <3> QED BY <1>10, <3>1, <3>2, Zenon
  <2> QED BY <2>1 DEF IdsRegistered
<1>5. ASSUME NEW c \in Conns, NEW n \in Callers, NEW ok \in BOOLEAN, Connect(c, n, ok)
      PROVE  IdsRegistered'
  <2>1. live' = IF ok THEN live \cup {<<n, next_tcp_id>>} ELSE live
    BY <1>5 DEF Connect, Register
  <2> DEFINE e == <<c, "client">>
  <2>2. /\ e \in Ends /\ st[e] \notin Registered
        /\ \A f \in Ends \ {e} : st'[f] = st[f] /\ Host(f)' = Host(f) /\ id'[f] = id[f]
        /\ Host(e)' = n /\ id'[e] = next_tcp_id /\ (st'[e] \in Registered <=> ok)
    BY <1>r, <1>5, ConnectFacts
  <2> HIDE DEF e
  <2> QED BY <1>10, <2>1, <2>2
<1>6. ASSUME NEW c \in Conns, NEW ok \in BOOLEAN, Accept(c, ok)
      PROVE  IdsRegistered'
  <2>1. live' = IF ok THEN live \cup {<<Server, next_tcp_id>>} ELSE live
    BY <1>6 DEF Accept, Register
  <2>2. st[<<c, "server">>] = "none"
    <3>1. Unanswered(acceptor[2]) /\ acceptor[2].from \in Ends /\ acceptor[2].from[1] = c
      <4>1. acceptor[1] = "got" /\ acceptor[2].from \in Ends /\ acceptor[2].from[1] = c
      BY <1>6, AcceptFacts
    <4> QED BY <4>1 DEF RequestsOnce
    <3> QED BY <3>1, EndFacts DEF Unanswered
  <2> DEFINE e == <<c, "server">>
  <2>3. /\ e \in Ends /\ st[e] \notin Registered
        /\ \A f \in Ends \ {e} : st'[f] = st[f] /\ Host(f)' = Host(f) /\ id'[f] = id[f]
        /\ Host(e)' = Server /\ id'[e] = next_tcp_id /\ (st'[e] \in Registered <=> ok)
    BY <1>r, <1>6, <2>2, AcceptFacts
  <2> HIDE DEF e
  <2> QED BY <1>10, <2>1, <2>3
<1>7. ASSUME NEW c \in Conns, NEW m \in msgs, Connected(c, m)
      PROVE  IdsRegistered'
  <2>1. \A e \in Ends : st'[e] \in Registered <=> st[e] \in Registered
    BY <1>7, <1>r, EndsTypes, EndFacts DEF Connected
  <2> QED BY <1>1, <1>7, <2>1 DEF Connected, Host
<1>8. ASSUME NEW e \in Ends, DropHalf(e)
      PROVE  IdsRegistered'
  <2>1. \A f \in Ends : st'[f] \in Registered <=> st[f] \in Registered
    BY <1>8, <1>r, EndsTypes DEF DropHalf
  <2> QED BY <1>1, <1>8, <2>1 DEF DropHalf, Host
<1>9. AnsweredHeld /\ TypeOK
  BY DEF EndsInv
<1> QED
  BY <1>2, <1>3, <1>4, <1>5, <1>6, <1>7, <1>8, <1>9, StepCases, DropSteps

\* A kill outdates the ends of its node and closes its sockets.
LEMMA KillFacts ==
  ASSUME EndsInv, NEW n \in Crashing, Kill(n)
  PROVE  /\ n \in Nodes
         /\ \A e \in Ends : /\ st'[e] = st[e] /\ einc'[e] = einc[e] /\ lbox' = lbox
                            /\ Host(e)' = Host(e) /\ BoxOf(e)' = BoxOf(e)
                            /\ Alive(e)' <=> Alive(e) /\ Host(e) # n
                            /\ inc[Host(e)] <= inc'[Host(e)]
         /\ sockets' = {b \in sockets : BoxHost(b) # n}
         /\ accepting' = (accepting /\ n # Server) /\ nbound' = nbound
         /\ acceptor' = IF n = Server THEN NoFuture ELSE acceptor
<1>1. n \in Nodes
  BY TcpAssumption
<1>2. /\ inc' = [inc EXCEPT ![n] = inc[n] + 1]
      /\ UNCHANGED <<home, nbound, st, einc, lbox>>
      /\ sockets' = {b \in sockets : BoxHost(b) # n}
      /\ accepting' = (accepting /\ n # Server)
      /\ acceptor' = IF n = Server THEN NoFuture ELSE acceptor
  BY DEF Kill, KillListener, CloseSockets
<1>3. \A e \in Ends : Host(e)' = Host(e) /\ BoxOf(e)' = BoxOf(e) /\ Host(e) \in Nodes
  BY <1>2, EndsTypes DEF Host, BoxOf
<1>4. \A e \in Ends : einc[e] <= inc[Host(e)] /\ einc[e] \in Nat /\ inc[Host(e)] \in Nat
  BY <1>3, EndsTypes DEF EndsInv, EndsBorn
<1>5. \A k \in Nodes : inc'[k] = IF k = n THEN inc[n] + 1 ELSE inc[k]
  BY <1>1, <1>2, EndsTypes
<1>6. \A e \in Ends : inc'[Host(e)] = IF Host(e) = n THEN inc[n] + 1 ELSE inc[Host(e)]
  BY <1>3, <1>5
<1>7. \A e \in Ends : Alive(e)' <=> Alive(e) /\ Host(e) # n
  BY <1>2, <1>3, <1>4, <1>6 DEF Alive
<1> QED BY <1>1, <1>2, <1>3, <1>4, <1>6, <1>7

\* Listeners stay numbered from 1, and no end is of an incarnation to come.
LEMMA NumberedStep ==
  ASSUME EndsInv, [Next]_vars
  PROVE  ListenersNumbered' /\ EndsBorn'
<1>0. ListenersNumbered /\ EndsBorn /\ AnsweredHeld /\ TypeOK
  BY DEF EndsInv
<1>1. ASSUME \A e \in Ends : st'[e] # "none" => st[e] # "none",
             nbound' = nbound, accepting' => accepting, UNCHANGED <<lbox, inc, home, einc>>
      PROVE  ListenersNumbered' /\ EndsBorn'
  <2>1. \A d \in Conns : st'[<<d, "server">>] # "none" => st[<<d, "server">>] # "none"
    BY <1>1, EndFacts
  <2>2. ListenersNumbered'
    BY <1>0, <1>1, <2>1 DEF ListenersNumbered
  <2>3. EndsBorn'
    BY <1>0, <1>1 DEF EndsBorn, Host
  <2> QED BY <2>2, <2>3
<1>2. CASE Listen
  BY <1>0, <1>2, EndsTypes DEF Listen, ListenersNumbered, EndsBorn, Host
<1>3. CASE PollAccept \/ (\E m \in flight : Deliver(m)) \/ UNCHANGED endVars
  BY <1>1, <1>3 DEF PollAccept, Deliver, endVars, listenVars
<1>4. CASE AcceptReturns
  <2>1. \A e \in Ends : st'[e] # "none" => st[e] # "none"
    BY <1>4, AcceptReturnsFacts, EndsTypes
  <2> QED BY <1>1, <1>4, <2>1 DEF AcceptReturns
<1>5. ASSUME NEW E, NEW D, DropStep(E, D), accepting' => accepting
      PROVE  ListenersNumbered' /\ EndsBorn'
  <2>1. \A e \in Ends : st'[e] # "none" => st[e] # "none"
    BY <1>5, DropFacts DEF Registered, Streams
  <2>2. nbound' = nbound /\ UNCHANGED <<lbox, inc, home, einc>>
    BY <1>5, DropFacts
  <2>3. accepting' => accepting
    BY <1>5
  <2> QED BY <1>1, <2>1, <2>2, <2>3, Zenon
<1>6. ASSUME NEW c \in Conns, NEW n \in Callers, NEW ok \in BOOLEAN, Connect(c, n, ok)
      PROVE  ListenersNumbered' /\ EndsBorn'
  <2>1. ListenersNumbered'
    <3>1. \A d \in Conns : <<d, "server">> \in Ends \ {<<c, "client">>}
      BY EndFacts
    <3> QED BY <1>0, <1>6, <3>1, ConnectFacts DEF ListenersNumbered, listenVars
  <2>2. EndsBorn'
    <3>1. inc' = inc /\ inc[n] \in Nat
          /\ \A f \in Ends :
               \/ einc'[f] = inc[n] /\ Host(f)' = n
               \/ einc'[f] = einc[f] /\ Host(f)' = Host(f)
      BY <1>6, ConnectFacts, EndsTypes
    <3> QED BY <1>0, <3>1 DEF EndsBorn
  <2> QED BY <2>1, <2>2
<1>7. ASSUME NEW c \in Conns, NEW ok \in BOOLEAN, Accept(c, ok)
      PROVE  ListenersNumbered' /\ EndsBorn'
  <2>1. ListenersNumbered'
    <3>1. \A d \in Conns \ {c} : <<d, "server">> \in Ends \ {<<c, "server">>}
      BY EndFacts
    <3>2. nbound # 0
      BY <1>0, <1>7, AcceptFacts DEF ListenersNumbered
    <3>4. accepting' = accepting /\ nbound' = nbound /\ lbox'[c] = nbound
          /\ \A d \in Conns \ {c} : lbox'[d] = lbox[d]
      BY <1>7, AcceptFacts
    <3>5. \A f \in Ends \ {<<c, "server">>} : st'[f] = st[f]
      BY <1>7, AcceptFacts
    <3>3. accepting' = accepting /\ nbound' = nbound /\ lbox'[c] = nbound
          /\ \A d \in Conns \ {c} : lbox'[d] = lbox[d]
                                 /\ st'[<<d, "server">>] = st[<<d, "server">>]
      BY <3>1, <3>4, <3>5
    <3> QED BY <1>0, <3>2, <3>3 DEF ListenersNumbered
  <2>2. EndsBorn'
    <3>1. inc' = inc /\ inc[Server] \in Nat
          /\ \A f \in Ends :
               \/ einc'[f] = inc[Server] /\ Host(f)' = Server
               \/ einc'[f] = einc[f] /\ Host(f)' = Host(f)
      <4>1. inc' = inc /\ einc'[<<c, "server">>] = inc[Server]
            /\ Host(<<c, "server">>)' = Server
            /\ \A f \in Ends \ {<<c, "server">>} :
                 einc'[f] = einc[f] /\ Host(f)' = Host(f)
        BY <1>7, AcceptFacts
      <4> QED BY <4>1, EndsTypes, TcpAssumption
    <3> QED BY <1>0, <3>1 DEF EndsBorn
  <2> QED BY <2>1, <2>2
<1>8. ASSUME NEW c \in Conns, NEW m \in msgs, Connected(c, m)
      PROVE  ListenersNumbered' /\ EndsBorn'
  <2>1. \A e \in Ends : st'[e] # "none" => st[e] # "none"
    BY <1>8, EndsTypes DEF Connected
  <2> QED BY <1>1, <1>8, <2>1 DEF Connected, listenVars
<1>9. ASSUME NEW e \in Ends, DropHalf(e)
      PROVE  ListenersNumbered' /\ EndsBorn'
  <2>1. \A f \in Ends : st'[f] # "none" => st[f] # "none"
    BY <1>9, EndsTypes DEF DropHalf
  <2> QED BY <1>1, <1>9, <2>1 DEF DropHalf, listenVars
<1>10. ASSUME NEW n \in Crashing, Kill(n)
       PROVE  ListenersNumbered' /\ EndsBorn'
  <2>1. \A e \in Ends : einc[e] \in Nat /\ inc[Host(e)] \in Nat /\ inc'[Host(e)] \in Nat
    BY <1>10, EndsTypes, TcpAssumption DEF Kill
  <2>2. EndsBorn'
    BY <1>0, <1>10, <2>1, KillFacts DEF EndsBorn
  <2>3. ListenersNumbered'
    BY <1>0, <1>10 DEF Kill, KillListener, ListenersNumbered
  <2> QED BY <2>2, <2>3
<1>11. /\ DropListener \/ IntoStd => (accepting' => accepting)
       /\ \A e \in Ends : Close(e) \/ DropKilled(e) => (accepting' => accepting)
  BY DEF DropListener, IntoStd, Close, DropKilled
<1> QED
  BY <1>0, <1>2, <1>3, <1>4, <1>5, <1>6, <1>7, <1>8, <1>9, <1>10, <1>11, StepCases,
     DropSteps

\* A listener's socket belongs to the server, a client's to the node of the client.
LEMMA EndBoxes ==
  ASSUME EndsInv
  PROVE  /\ \A e \in Ends : BoxHost(BoxOf(e)) = Host(e)
         /\ \A e \in Ends : e[2] = "server" => BoxOf(e) = ListenBox(lbox[e[1]])
         /\ \A e \in Ends : e[2] = "client" => BoxOf(e) = ClientBox(e[1])
         /\ \A e, f \in Ends : BoxOf(e) = BoxOf(f) =>
              \/ e = f
              \/ e[2] = "server" /\ f[2] = "server" /\ lbox[e[1]] = lbox[f[1]]
         /\ \A b \in sockets : b[1] = "listener" => b = ListenBox(nbound)
         /\ \A e \in Ends : e[2] = "server" /\ BoxOf(e) \in sockets => lbox[e[1]] = nbound
<1>1. \A e \in Ends : e[2] = "server" => BoxOf(e) = ListenBox(lbox[e[1]])
  BY EndFacts, HostFacts, EndsTypes
<1>2. \A e \in Ends : e[2] = "client" => BoxOf(e) = ClientBox(e[1])
  BY EndFacts, HostFacts, EndsTypes
<1>3. \A e \in Ends : BoxHost(BoxOf(e)) = Host(e)
  BY <1>1, <1>2, EndFacts, HostFacts, EndsTypes
<1>4. \A e, f \in Ends : BoxOf(e) = BoxOf(f) =>
        \/ e = f
        \/ e[2] = "server" /\ f[2] = "server" /\ lbox[e[1]] = lbox[f[1]]
  BY <1>1, <1>2, EndFacts, BoxFacts
<1>5. \A b \in sockets : b[1] = "listener" => b = ListenBox(nbound)
  BY DEF EndsInv, OneListener, Listening
<1>6. \A e \in Ends : e[2] = "server" /\ BoxOf(e) \in sockets => lbox[e[1]] = nbound
  BY <1>1, <1>5, BoxFacts
<1> QED BY <1>1, <1>2, <1>3, <1>4, <1>5, <1>6

\* The listener keeps its socket while it accepts.
LEMMA OneListenerStep ==
  ASSUME EndsInv, [Next]_vars
  PROVE  OneListener'
<1>0. OneListener /\ AnsweredHeld /\ TypeOK
  BY DEF EndsInv
<1>1. ASSUME UNCHANGED <<nbound, accepting, sockets>>,
             acceptor = NoFuture => acceptor' = NoFuture \/ accepting
      PROVE  OneListener'
  BY <1>0, <1>1 DEF OneListener, Listening
<1>11. ASSUME nbound' = nbound, sockets' \subseteq sockets,
              accepting' => ListenBox(nbound) \in sockets',
              ~accepting' => acceptor' = NoFuture
       PROVE  OneListener'
  <2>1. Listening' \subseteq Listening
    BY <1>11 DEF Listening
  <2> QED BY <1>0, <1>11, <2>1, Zenon DEF OneListener
<1>2. CASE Listen
  <2>1. /\ nbound' = nbound + 1 /\ accepting' = TRUE /\ Listening = {}
        /\ sockets' = sockets \cup {ListenBox(nbound + 1)}
    BY <1>2 DEF Listen
  <2> QED BY <2>1 DEF OneListener, Listening
<1>3. CASE (\E m \in flight : Deliver(m)) \/ PollAccept \/ AcceptReturns
           \/ UNCHANGED endVars
  BY <1>1, <1>3, FutureFacts
  DEF Deliver, ForAcceptor, PollAccept, AcceptReturns, endVars, listenVars
<1>4. CASE DropListener \/ IntoStd
  <2>1. /\ nbound' = nbound /\ acceptor' = NoFuture /\ sockets' \subseteq sockets
        /\ accepting' => accepting /\ sockets' = sockets
    BY <1>4 DEF DropListener, IntoStd, DropFuture, DropEnds, CloseSockets
  <2>2. accepting' => ListenBox(nbound) \in sockets'
    BY <1>0, <2>1 DEF OneListener
  <2> QED BY <1>11, <2>1, <2>2
<1>5. ASSUME NEW c \in Conns, NEW n \in Callers, NEW ok \in BOOLEAN, Connect(c, n, ok)
      PROVE  OneListener'
  <2>1. UNCHANGED <<nbound, accepting, acceptor>>
        /\ sockets \subseteq sockets' /\ sockets' \subseteq sockets \cup {ClientBox(c)}
    BY <1>5 DEF Connect, listenVars
  <2> QED BY <1>0, <2>1, BoxFacts DEF OneListener, Listening
<1>6. ASSUME NEW c \in Conns, NEW ok \in BOOLEAN, Accept(c, ok)
      PROVE  OneListener'
  BY <1>1, <1>6, AcceptFacts
<1>7. ASSUME NEW c \in Conns, NEW m \in msgs, Connected(c, m)
      PROVE  OneListener'
  BY <1>1, <1>7 DEF Connected, listenVars
<1>8. ASSUME NEW e \in Ends, DropHalf(e) PROVE OneListener'
  BY <1>1, <1>8 DEF DropHalf, listenVars
<1>9. ASSUME NEW e \in Ends, Close(e) \/ DropKilled(e)
      PROVE  OneListener'
  <2>1. /\ UNCHANGED <<nbound, accepting, acceptor>> /\ sockets' \subseteq sockets
        /\ DropKilled(e) => sockets' = sockets
        /\ Close(e) => sockets' = sockets \ SocketsDropped(e)
    BY <1>9 DEF Close, DropKilled, DropEnds, CloseSockets
  <2>2. accepting => ListenBox(nbound) \notin SocketsDropped(e)
    BY EndFacts, BoxFacts DEF SocketsDropped
  <2>3. accepting => ListenBox(nbound) \in sockets'
    BY <1>0, <1>9, <2>1, <2>2 DEF OneListener
  <2>4. ~accepting => acceptor = NoFuture
    BY <1>0 DEF OneListener
  <2> QED BY <1>11, <2>1, <2>3, <2>4
<1>10. ASSUME NEW n \in Crashing, Kill(n) PROVE OneListener'
  <2>1. BoxHost(ListenBox(nbound)) = Server
    BY <1>0, HostFacts
  <2>2. /\ sockets' = {b \in sockets : BoxHost(b) # n}
        /\ accepting' = (accepting /\ n # Server) /\ nbound' = nbound
        /\ acceptor' = IF n = Server THEN NoFuture ELSE acceptor
    BY <1>10, KillFacts
  <2> QED BY <1>0, <2>1, <2>2 DEF OneListener, Listening
<1> QED
  BY <1>2, <1>3, <1>4, <1>5, <1>6, <1>7, <1>8, <1>9, <1>10, StepCases

\* The accept future keeps the end it has answered with, until it returns it.
LEMMA AnsweredHeldStep ==
  ASSUME EndsInv, RequestsOnce, [Next]_vars
  PROVE  AnsweredHeld'
<1>0. AnsweredHeld /\ SocketsBound /\ OneListener /\ TypeOK
  BY DEF EndsInv
<1>1. ASSUME \A e \in Ends : /\ Alive(e)' <=> Alive(e)
                             /\ st'[e] \in {"answered", "connecting"} => st'[e] = st[e]
                             /\ acceptor' = Answered(e) =>
                                  acceptor = Answered(e) /\ st'[e] = st[e]
                             /\ acceptor = Answered(e) /\ st'[e] = "answered" =>
                                  acceptor' = Answered(e),
             UNCHANGED <<nbound, lbox>>
      PROVE  AnsweredHeld'
  BY <1>0, <1>1 DEF AnsweredHeld
<1>2. CASE UNCHANGED endVars
  <2>1. \A e \in Ends : Alive(e)' <=> Alive(e)
    BY <1>2 DEF endVars, Alive, Host
  <2> QED BY <1>1, <1>2, <2>1 DEF endVars, listenVars
<1>3. CASE Listen
  <2>1. \A e \in Ends : acceptor # Answered(e)
    <3> SUFFICES ASSUME NEW e \in Ends, acceptor = Answered(e) PROVE FALSE
      OBVIOUS
    <3>1. st[e] = "answered" /\ Alive(e) /\ e[2] = "server"
      BY <1>0 DEF AnsweredHeld
    <3>2. BoxOf(e) \in sockets
      BY <1>0, <3>1 DEF SocketsBound, Registered
    <3>3. BoxOf(e)[1] = "listener"
      BY <3>1, EndBoxes, BoxFacts
    <3> QED BY <1>3, <3>2, <3>3 DEF Listen, Listening
  <2>2. UNCHANGED <<acceptor, st, lbox>> /\ \A e \in Ends : Alive(e)' <=> Alive(e)
    BY <1>3 DEF Listen, Alive, Host
  <2> QED BY <1>0, <2>1, <2>2 DEF AnsweredHeld
<1>4. CASE PollAccept \/ \E m \in flight : Deliver(m)
  <2>1. /\ UNCHANGED <<nbound, lbox, st>> /\ \A e \in Ends : Alive(e)' <=> Alive(e)
        /\ \/ acceptor' = acceptor
           \/ /\ acceptor \in {NoFuture, Waiting}
              /\ acceptor' = Waiting \/ \E m : acceptor' = Got(m)
    BY <1>4 DEF PollAccept, Deliver, ForAcceptor, Alive, Host
  <2>2. \A e : acceptor' = Answered(e) <=> acceptor = Answered(e)
    BY <2>1, FutureFacts
  <2> QED BY <1>1, <2>1, <2>2
<1>5. CASE AcceptReturns
  <2>1. UNCHANGED <<nbound, lbox>> /\ \A e \in Ends : Alive(e)' <=> Alive(e)
    BY <1>5 DEF AcceptReturns, Alive, Host
  <2>2. \A e \in Ends : acceptor' # Answered(e)
    BY <1>5, AcceptReturnsFacts, FutureFacts
  <2>3. \A e \in Ends : IF acceptor = Answered(e) THEN st'[e] = "open" ELSE st'[e] = st[e]
    BY <1>5, AcceptReturnsFacts, FutureFacts, EndsTypes
  <2> QED BY <1>1, <2>1, <2>2, <2>3
<1>6. CASE DropListener \/ IntoStd
  <2>1. PICK D : DropStep(FutureEnds, D) /\ acceptor' = NoFuture
    BY <1>0, <1>6, DropSteps DEF DropListener, IntoStd, DropFuture
  <2>2. \A e \in Ends : acceptor = Answered(e) => e \in FutureEnds
    BY FutureFacts DEF FutureEnds
  <2>3. \A e \in Ends : acceptor' # Answered(e)
    BY <2>1, FutureFacts
  <2>4. /\ UNCHANGED <<nbound, lbox>> /\ \A e \in Ends : Alive(e)' <=> Alive(e)
        /\ \A e \in Ends : st'[e] = IF e \in FutureEnds THEN "closed" ELSE st[e]
    BY <2>1, DropFacts
  <2> QED BY <1>1, <2>2, <2>3, <2>4
<1>7. ASSUME NEW e \in Ends, Close(e) \/ DropKilled(e) PROVE AnsweredHeld'
  <2>1. PICK D : DropStep({e}, D) /\ UNCHANGED acceptor
    BY <1>0, <1>7, DropSteps DEF Close, DropKilled
  <2>2. /\ UNCHANGED <<nbound, lbox>> /\ \A f \in Ends : Alive(f)' <=> Alive(f)
        /\ \A f \in Ends : st'[f] = IF f = e THEN "closed" ELSE st[f]
    BY <2>1, DropFacts
  <2>3. acceptor # Answered(e)
    BY <1>0, <1>7 DEF AnsweredHeld, Close, DropKilled, Streams
  <2> QED BY <1>1, <2>1, <2>2, <2>3
<1>8. ASSUME NEW c \in Conns, NEW n \in Callers, NEW ok \in BOOLEAN, Connect(c, n, ok)
      PROVE  AnsweredHeld'
  <2> DEFINE e == <<c, "client">>
  <2>1. /\ e \in Ends /\ st[e] = "none" /\ st'[e] # "answered" /\ e[2] = "client"
        /\ UNCHANGED <<nbound, lbox, acceptor>>
        /\ \A f \in Ends \ {e} : st'[f] = st[f] /\ (Alive(f)' <=> Alive(f))
    BY <1>8, ConnectFacts, EndFacts DEF Alive, listenVars
  <2>2. acceptor # Answered(e)
    BY <1>0, <2>1 DEF AnsweredHeld
  <2> HIDE DEF e
  <2> QED BY <1>0, <2>1, <2>2 DEF AnsweredHeld
<1>9. ASSUME NEW c \in Conns, NEW ok \in BOOLEAN, Accept(c, ok)
      PROVE  AnsweredHeld'
  <2> DEFINE e == <<c, "server">>
  <2>1. /\ e \in Ends /\ e[2] = "server"
        /\ st'[e] = IF ok THEN "answered" ELSE "closed"
        /\ acceptor' = IF ok THEN Answered(e) ELSE NoFuture
        /\ Alive(e)' /\ lbox'[e[1]] = nbound /\ nbound' = nbound
    BY <1>9, AcceptFacts, AcceptAlive, EndFacts
  <2>2. \A f \in Ends \ {e} : /\ st'[f] = st[f] /\ (Alive(f)' <=> Alive(f))
                              /\ acceptor # Answered(f) /\ acceptor' # Answered(f)
    <3>1. acceptor[1] = "got"
      BY <1>9, AcceptFacts
    <3>2. \A f \in Ends \ {e} : st'[f] = st[f]
      BY <1>9, AcceptFacts
    <3>3. \A f \in Ends \ {e} : Alive(f)' <=> Alive(f)
      BY <1>9, AcceptAlive
    <3> QED BY <2>1, <3>1, <3>2, <3>3, FutureFacts
  <2> HIDE DEF e
  <2>3. ~ok => acceptor' # Answered(e)
    BY <2>1, FutureFacts
  <2> QED BY <1>0, <2>1, <2>2, <2>3 DEF AnsweredHeld
<1>10. ASSUME NEW e \in Ends, DropHalf(e) \/ \E c \in Conns, m \in msgs :
                                e = <<c, "client">> /\ Connected(c, m)
       PROVE  AnsweredHeld'
  <2>3. /\ UNCHANGED <<nbound, lbox, acceptor>> /\ \A f \in Ends : Alive(f)' <=> Alive(f)
    BY <1>10 DEF DropHalf, Connected, Alive, Host, listenVars
  <2>4. /\ st[e] # "answered"
        /\ \E x \in Streams : st' = [st EXCEPT ![e] = x]
    BY <1>10 DEF DropHalf, Connected, Streams
  <2>1. /\ UNCHANGED <<nbound, lbox, acceptor>> /\ \A f \in Ends : Alive(f)' <=> Alive(f)
        /\ st[e] # "answered" /\ st'[e] \in Streams /\ \A f \in Ends \ {e} : st'[f] = st[f]
    BY <1>10, <2>3, <2>4, EndsTypes
  <2>2. acceptor # Answered(e)
    BY <1>0, <2>1 DEF AnsweredHeld
  <2> QED BY <1>1, <2>1, <2>2 DEF Streams
<1>11. ASSUME NEW n \in Crashing, Kill(n) PROVE AnsweredHeld'
  <2>1. /\ UNCHANGED <<nbound, lbox>>
        /\ acceptor' = IF n = Server THEN NoFuture ELSE acceptor
        /\ \A e \in Ends : st'[e] = st[e] /\ (Alive(e)' <=> Alive(e) /\ Host(e) # n)
    BY <1>11, KillFacts DEF Kill
  <2>2. \A e \in Ends : e[2] = "server" => Host(e) = Server
    BY EndFacts DEF Host
  <2> QED BY <1>0, <2>1, <2>2, FutureFacts DEF AnsweredHeld
<1>12. \A c \in Conns, m \in msgs : Connected(c, m) =>
         \E e \in Ends : e = <<c, "client">> /\ Connected(c, m)
  BY EndFacts
<1> QED
  BY <1>2, <1>3, <1>4, <1>5, <1>6, <1>7, <1>8, <1>9, <1>10, <1>11, <1>12, StepCases

\* The sockets of living ends stay bound.
LEMMA SocketsBoundStep ==
  ASSUME EndsInv, [Next]_vars
  PROVE  SocketsBound'
<1>0. AnsweredHeld /\ SocketsBound /\ OneListener /\ TypeOK
  BY DEF EndsInv
<1>1. ASSUME \A e \in Ends : /\ Alive(e)' <=> Alive(e)
                             /\ st'[e] \in Registered => st[e] \in Registered,
             sockets \subseteq sockets', UNCHANGED lbox
      PROVE  SocketsBound'
  BY <1>0, <1>1 DEF SocketsBound, BoxOf
<1>2. CASE UNCHANGED endVars \/ Listen \/ PollAccept \/ \E m \in flight : Deliver(m)
  BY <1>1, <1>2 DEF endVars, Listen, PollAccept, Deliver, Alive, Host
<1>3. CASE AcceptReturns
  <2>1. UNCHANGED <<sockets, lbox>> /\ \A e \in Ends : Alive(e)' <=> Alive(e)
    BY <1>3 DEF AcceptReturns, Alive, Host
  <2>2. \A e \in Ends : st'[e] \in Registered => st[e] \in Registered
    BY <1>3, AcceptReturnsFacts, EndsTypes DEF Registered
  <2> QED BY <1>1, <2>1, <2>2
<1>4. ASSUME NEW E, NEW D, DropStep(E, D),
             \A e \in Ends \ E : st[e] \in Registered /\ Alive(e) => BoxOf(e) \notin D
      PROVE  SocketsBound'
  <2>1. /\ sockets' = sockets \ D
        /\ \A e \in Ends : /\ st'[e] = IF e \in E THEN "closed" ELSE st[e]
                           /\ BoxOf(e)' = BoxOf(e) /\ (Alive(e)' <=> Alive(e))
    BY <1>4, DropFacts
  <2>2. "closed" \notin Registered
    BY DEF Registered, Streams
  <2> QED BY <1>0, <1>4, <2>1, <2>2 DEF SocketsBound
<1>5. CASE DropListener
  <2> DEFINE D == IF Accepted(nbound) = {} THEN Listening ELSE {}
  <2>1. DropStep(FutureEnds, D)
    BY <1>0, <1>5, DropSteps
  <2>2. ASSUME NEW e \in Ends \ FutureEnds, st[e] \in Registered, Alive(e), BoxOf(e) \in D
        PROVE  FALSE
    <3>1. BoxOf(e)[1] = "listener" /\ BoxOf(e) \in sockets /\ Accepted(nbound) = {}
      BY <2>2 DEF Listening
    <3>2. e[2] = "server" /\ lbox[e[1]] = nbound
      BY <3>1, EndBoxes, EndFacts, BoxFacts
    <3>3. st[e] # "connecting" /\ st[e] # "answered"
      BY <1>0, <2>2, <3>2, FutureFacts DEF AnsweredHeld, FutureEnds
    <3> QED BY <2>2, <3>1, <3>2, <3>3 DEF Accepted, Registered
  <2> HIDE DEF D
  <2> QED BY <1>4, <2>1, <2>2
<1>6. CASE IntoStd
  BY <1>0, <1>4, <1>6, DropSteps
<1>7. ASSUME NEW e \in Ends, Close(e) PROVE SocketsBound'
  <2>1. DropStep({e}, SocketsDropped(e)) /\ st[e] \in Streams \cup {"connecting"}
    BY <1>0, <1>7, DropSteps DEF Close
  <2>2. ASSUME NEW f \in Ends \ {e}, st[f] \in Registered, Alive(f),
               BoxOf(f) \in SocketsDropped(e)
        PROVE  FALSE
    <3>1. BoxOf(f) = BoxOf(e)
      BY <2>2, EndBoxes DEF SocketsDropped
    <3>2. /\ e[2] = "server" /\ f[2] = "server" /\ lbox[e[1]] = lbox[f[1]]
      BY <2>2, <3>1, EndBoxes
    <3>3. ~accepting /\ Accepted(lbox[e[1]]) = {e}
      BY <2>2, <3>2 DEF SocketsDropped
    <3>4. st[f] # "connecting" /\ st[f] # "answered"
      BY <1>0, <2>2, <3>2, <3>3, FutureFacts DEF AnsweredHeld, OneListener
    <3> QED BY <2>2, <3>2, <3>3, <3>4 DEF Accepted, Registered
  <2> QED BY <1>4, <2>1, <2>2
<1>8. ASSUME NEW e \in Ends, DropKilled(e) PROVE SocketsBound'
  BY <1>0, <1>4, <1>8, DropSteps
<1>9. ASSUME NEW c \in Conns, NEW n \in Callers, NEW ok \in BOOLEAN, Connect(c, n, ok)
      PROVE  SocketsBound'
  <2> DEFINE e == <<c, "client">>
  <2>1. /\ e \in Ends /\ st'[e] = (IF ok THEN "connecting" ELSE "closed") /\ lbox' = lbox
        /\ \A f \in Ends \ {e} : st'[f] = st[f] /\ (Alive(f)' <=> Alive(f))
    BY <1>9, ConnectFacts DEF Alive
  <2>2. sockets \subseteq sockets' /\ (ok => BoxOf(e) \in sockets')
    <3>1. e \in Ends /\ BoxOf(e) = ClientBox(c)
      BY EndBoxes, EndFacts
    <3> QED BY <1>9, <3>1 DEF Connect
  <2>3. "closed" \notin Registered
    BY DEF Registered, Streams
  <2> HIDE DEF e
  <2> QED BY <1>0, <2>1, <2>2, <2>3 DEF SocketsBound, BoxOf
<1>10. ASSUME NEW c \in Conns, NEW ok \in BOOLEAN, Accept(c, ok)
       PROVE  SocketsBound'
  <2> DEFINE e == <<c, "server">>
  <2>1. /\ e \in Ends /\ e[2] = "server" /\ e[1] = c
        /\ sockets' = sockets /\ ListenBox(nbound) \in sockets
    BY <1>0, <1>10, AcceptFacts, EndFacts DEF OneListener
  <2>2. BoxOf(e)' = ListenBox(nbound)
    BY <1>10, <2>1, AcceptFacts DEF BoxOf
  <2>3. \A f \in Ends \ {e} : f[2] = "server" => f[1] # c /\ f[1] \in Conns
    BY EndFacts
  <2>4. \A f \in Ends \ {e} : st'[f] = st[f] /\ (Alive(f)' <=> Alive(f))
    <3>1. \A f \in Ends \ {e} : st'[f] = st[f]
      BY <1>10, AcceptFacts
    <3>2. \A f \in Ends \ {e} : Alive(f)' <=> Alive(f)
      BY <1>10, AcceptAlive
    <3> QED BY <3>1, <3>2
  <2>5. \A f \in Ends \ {e} : BoxOf(f)' = BoxOf(f)
    <3>1. \A d \in Conns \ {c} : lbox'[d] = lbox[d]
      BY <1>10, AcceptFacts
    <3>2. \A f \in Ends \ {e} : f[2] = "client" \/ lbox'[f[1]] = lbox[f[1]]
      BY <2>3, <3>1, EndFacts
    <3> QED BY <3>2 DEF BoxOf
  <2> HIDE DEF e
  <2> QED BY <1>0, <2>1, <2>2, <2>4, <2>5 DEF SocketsBound
<1>11. ASSUME NEW c \in Conns, NEW m \in msgs, Connected(c, m)
       PROVE  SocketsBound'
  <2>1. UNCHANGED <<sockets, lbox>> /\ \A e \in Ends : Alive(e)' <=> Alive(e)
    BY <1>11 DEF Connected, Alive, Host
  <2>2. \A e \in Ends : st'[e] \in Registered => st[e] \in Registered
    BY <1>11, EndsTypes DEF Connected, Registered
  <2> QED BY <1>1, <2>1, <2>2
<1>12. ASSUME NEW e \in Ends, DropHalf(e) PROVE SocketsBound'
  <2>1. UNCHANGED <<sockets, lbox>> /\ \A f \in Ends : Alive(f)' <=> Alive(f)
    BY <1>12 DEF DropHalf, Alive, Host
  <2>2. \A f \in Ends : st'[f] \in Registered => st[f] \in Registered
    BY <1>12, EndsTypes DEF DropHalf, Registered, Streams
  <2> QED BY <1>1, <2>1, <2>2
<1>13. ASSUME NEW n \in Crashing, Kill(n) PROVE SocketsBound'
  BY <1>0, <1>13, KillFacts, EndBoxes DEF SocketsBound
<1> QED
  BY <1>2, <1>3, <1>5, <1>6, <1>7, <1>8, <1>9, <1>10, <1>11, <1>12, <1>13, StepCases

\* The invariants about ends hold at first.
LEMMA EndsInit == Init => EndsInv
<1> SUFFICES ASSUME Init PROVE EndsInv
  OBVIOUS
<1>1. TypeOK
  <2>1. ListenType
    <3>1. nbound \in 0 .. MaxListen /\ lbox \in [Conns -> 0 .. MaxListen]
      BY TcpAssumption DEF Init
    <3>2. accepting \in BOOLEAN /\ acceptor = NoFuture
      BY DEF Init
    <3> QED BY <3>1, <3>2 DEF ListenType
  <2>4. NetType
    BY DEF Init, NetType
  <2>2. EndsType /\ IdsType
    BY TcpAssumption DEF Init, EndsType, IdsType
  <2>3. SeqsType /\ UnitsType
    BY TcpAssumption DEF Init, SeqsType, UnitsType
  <2> QED BY <2>1, <2>2, <2>3, <2>4, TypeParts
<1>2. ListenersNumbered /\ IdsUnique /\ IdsRegistered
  <2>1. \A e \in Ends : st[e] = "none"
    BY DEF Init
  <2>2. live = {} /\ "none" \notin Registered /\ accepting = FALSE
    BY DEF Init, Registered, Streams
  <2>3. ListenersNumbered
    BY <2>1, <2>2, EndFacts DEF ListenersNumbered
  <2>4. IdsUnique /\ IdsRegistered
    BY <2>1, <2>2 DEF IdsUnique, IdsRegistered
  <2> QED BY <2>3, <2>4
<1>3. EndsBorn
  BY HostFacts, <1>1 DEF Init, EndsBorn
<1>4. OneListener /\ AnsweredHeld /\ SocketsBound
  BY FutureFacts
  DEF Init, OneListener, Listening, AnsweredHeld, SocketsBound, Registered, Streams
<1> QED BY <1>1, <1>2, <1>3, <1>4 DEF EndsInv

\* The invariants about ends are kept by every step.
LEMMA EndsStep == EndsInv /\ RequestsOnce /\ [Next]_vars => EndsInv'
BY TypeStep, IdsUniqueStep, IdsRegisteredStep, NumberedStep, OneListenerStep,
   AnsweredHeldStep, SocketsBoundStep
DEF EndsInv

-----------------------------------------------------------------------------
(* Messages.                                                                *)

\* An end that was made stays made, with its id; what was sent stays sent.
Kept(e) ==
  /\ st[e] # "none" => st'[e] # "none" /\ id'[e] = id[e]
  /\ sent[e] \subseteq sent'[e]

\* The end that accept makes is new: the request it answers was not answered before.
LEMMA AcceptIsNew ==
  ASSUME EndsInv, RequestsOnce, NEW c \in Conns, NEW ok \in BOOLEAN, Accept(c, ok)
  PROVE  LET e == <<c, "server">>
             m == acceptor[2]
         IN
         /\ st[e] = "none" /\ Unanswered(m)
         /\ m.from = Peer(e) /\ m.val = id[Peer(e)] /\ st[Peer(e)] # "none"
         /\ \A r \in Requests : r.from # m.from
<1>1. acceptor[1] = "got" /\ acceptor[2].from \in Ends /\ acceptor[2].from[1] = c
  BY AcceptFacts
<1>2. Unanswered(acceptor[2]) /\ \A r \in Requests : r.from # acceptor[2].from
  BY <1>1 DEF RequestsOnce
<1>3. acceptor[2].from = <<c, "client">>
  BY <1>1, <1>2, EndFacts DEF Unanswered
<1>4. Peer(<<c, "server">>) = <<c, "client">> /\ Peer(<<c, "client">>) = <<c, "server">>
  BY EndFacts
<1> QED BY <1>2, <1>3, <1>4 DEF Unanswered

\* Ends are made once, and nothing that was sent is taken back.
LEMMA EndsKept ==
  ASSUME EndsInv, RequestsOnce, [Next]_vars
  PROVE  \A e \in Ends : Kept(e)
<1>0. AnsweredHeld /\ TypeOK /\ "none" \notin Registered
      /\ sent \in [Ends -> SUBSET (0 .. MaxSeq)]
  BY TypeParts DEF EndsInv, Registered, Streams, SeqsType
<1>1. ASSUME \A e \in Ends : st[e] # "none" => st'[e] # "none", UNCHANGED <<id, sent>>
      PROVE  \A e \in Ends : Kept(e)
  BY <1>1 DEF Kept
<1>2. CASE Listen \/ PollAccept \/ (\E m \in flight : Deliver(m)) \/ (UNCHANGED vars)
           \/ \E n \in Crashing : Kill(n)
  BY <1>1, <1>2 DEF Listen, PollAccept, Deliver, Kill, vars, streamVars
<1>3. CASE AcceptReturns
  <2>1. \A e \in Ends : st[e] # "none" => st'[e] # "none"
    BY <1>3, AcceptReturnsFacts, EndsTypes
  <2> QED BY <1>1, <1>3, <2>1 DEF AcceptReturns, streamVars
<1>4. ASSUME NEW E, NEW D, DropStep(E, D) PROVE \A e \in Ends : Kept(e)
  <2>1. \A e \in Ends : st[e] # "none" => st'[e] # "none"
    BY <1>4, DropFacts
  <2>2. UNCHANGED <<id, sent>>
    BY <1>4 DEF DropStep, DropEnds, streamVars
  <2> QED BY <1>1, <2>1, <2>2
<1>5. ASSUME NEW c \in Conns, NEW n \in Callers, NEW ok \in BOOLEAN, Connect(c, n, ok)
      PROVE  \A e \in Ends : Kept(e)
  <2>1. sent' = sent
    BY <1>5 DEF Connect, streamVars
  <2> QED BY <1>5, <2>1, ConnectFacts DEF Kept
<1>6. ASSUME NEW c \in Conns, NEW ok \in BOOLEAN, Accept(c, ok)
      PROVE  \A e \in Ends : Kept(e)
  <2>1. sent' = sent /\ st[<<c, "server">>] = "none"
    BY <1>6, AcceptIsNew DEF Accept
  <2> QED BY <1>6, <2>1, AcceptFacts DEF Kept
<1>7. ASSUME NEW c \in Conns, NEW m \in msgs, Connected(c, m)
      PROVE  \A e \in Ends : Kept(e)
  <2>1. \A e \in Ends : st[e] # "none" => st'[e] # "none"
    BY <1>7, EndsTypes DEF Connected
  <2> QED BY <1>1, <1>7, <2>1 DEF Connected
<1>8. ASSUME NEW e \in Ends, DropHalf(e) PROVE \A f \in Ends : Kept(f)
  <2>1. \A f \in Ends : st[f] # "none" => st'[f] # "none"
    BY <1>8, EndsTypes DEF DropHalf
  <2> QED BY <1>1, <1>8, <2>1 DEF DropHalf, streamVars
<1>9. ASSUME NEW e \in Ends, NEW ok \in BOOLEAN, Write(e, ok)
      PROVE  \A f \in Ends : Kept(f)
  BY <1>0, <1>9 DEF Write, Kept
<1>10. ASSUME NEW e \in Ends, ReadStep(e) \/ CancelRead(e)
       PROVE  \A f \in Ends : Kept(f)
  BY <1>1, <1>10
  DEF ReadStep, Read, Peek, PollRead, ReadBuffered, ReadMessage, ReadReset, ReadPending,
      CancelRead, streamVars
<1> QED
  BY <1>0, <1>2, <1>3, <1>4, <1>5, <1>6, <1>7, <1>8, <1>9, <1>10, DropSteps DEF Next

\* What is said of a message stays true while ends are kept.
LEMMA SaidStays ==
  ASSUME \A e \in Ends : Kept(e)
  PROVE  \A m \in Message :
           /\ Addressed(m) => Addressed(m)'
           /\ Unanswered(m) /\ st'[Peer(m.from)] = "none" => Unanswered(m)'
<1> SUFFICES ASSUME NEW m \in Message
             PROVE  /\ Addressed(m) => Addressed(m)'
                    /\ Unanswered(m) /\ st'[Peer(m.from)] = "none" => Unanswered(m)'
  OBVIOUS
<1>1. m.from \in Ends /\ Peer(m.from) \in Ends
  BY EndFacts DEF Message
<1>2. Kept(m.from) /\ Kept(Peer(m.from))
  BY <1>1
<1> QED BY <1>2 DEF Kept, Addressed, Unanswered

\* What the invariants about messages say, and the types they need.
LEMMA MessagesTypes ==
  ASSUME MessagesInv
  PROVE  /\ EndsInv /\ RequestsOnce /\ PeersKnown /\ AnswerFirst /\ MessagesAddressed
         /\ IdsUnique /\ TypeOK /\ NetType
         /\ rid \in [Ends -> Nat] /\ id \in [Ends -> Nat]
         /\ send_seq \in [Ends -> Nat] /\ recv_seq \in [Ends -> Nat]
         /\ sent \in [Ends -> SUBSET (0 .. MaxSeq)]
         /\ \A m \in flight \cup msgs : m \in Message /\ m.from \in Ends /\ m.val \in Nat
         /\ \A e \in Ends : st[e] # "none" => id[e] # 0
<1>1. EndsInv /\ RequestsOnce /\ PeersKnown /\ AnswerFirst /\ MessagesAddressed
  BY DEF MessagesInv
<1>2. IdsUnique /\ TypeOK /\ NetType /\ IdsType /\ SeqsType
  BY <1>1, TypeParts DEF EndsInv
<1>3. 0 .. MaxSeq + 1 \subseteq Nat
  BY TcpAssumption
<1>4. send_seq \in [Ends -> Nat] /\ recv_seq \in [Ends -> Nat]
  BY <1>2, <1>3 DEF SeqsType
<1>5. \A m \in flight \cup msgs : m \in Message /\ m.from \in Ends /\ m.val \in Nat
  BY <1>2 DEF NetType, Message
<1>6. \A e \in Ends : st[e] # "none" => id[e] # 0
  BY <1>2 DEF IdsUnique, IdsType
<1> QED BY <1>1, <1>2, <1>4, <1>5, <1>6 DEF IdsType, SeqsType

\* A tag with a tcp id in it is not the one reserved for requests.
LEMMA TagFacts == \A a, b \in Nat : a # 0 => <<a, b>> # ConnectTag
BY DEF ConnectTag

\* A request in flight, in a mailbox or with the accept future is in one place.
LEMMA RequestsOnceStep ==
  ASSUME MessagesInv, [Next]_vars
  PROVE  RequestsOnce'
<1>0. RequestsOnce /\ EndsInv /\ AnsweredHeld /\ TypeOK
  BY MessagesTypes DEF EndsInv
<1>k. \A e \in Ends : Kept(e)
  BY <1>0, EndsKept
<1>m. \A m \in flight \cup msgs : m \in Message
  BY MessagesTypes
<1>1. ASSUME \A m \in Requests' : m \in Requests,
             ~\E m \in Requests' : m \in flight' /\ m \in msgs',
             \A e \in Ends : st[e] = "none" /\ e[2] = "server" => st'[e] = "none",
             \/ acceptor'[1] # "got"
             \/ acceptor' = acceptor
             \/ \E m \in Requests \ Requests' : acceptor' = Got(m)
      PROVE  RequestsOnce'
  <2>1. \A m \in Message : Unanswered(m) => Unanswered(m)'
    <3>1. \A m \in Message : m.from \in Ends
      BY DEF Message
    <3>2. \A m \in Message : Unanswered(m) => st'[Peer(m.from)] = "none"
      BY <1>1, <3>1, EndFacts DEF Unanswered
    <3> QED BY <1>k, <3>2, SaidStays
  <2>2. \A m \in Requests' : m \in Requests /\ Unanswered(m)'
    BY <1>0, <1>1, <1>m, <2>1 DEF RequestsOnce, Requests
  <2>3. ASSUME acceptor'[1] = "got"
        PROVE  Unanswered(acceptor[2])' /\ \A m \in Requests' : m.from # acceptor'[2].from
    <3>1. CASE acceptor' = acceptor
      <4>1. acceptor[1] = "got" /\ acceptor[2] \in Message
        BY <2>3, <3>1, FutureCases, FutureFacts, <1>0
      <4>2. Unanswered(acceptor[2]) /\ \A m \in Requests : m.from # acceptor[2].from
        BY <1>0, <4>1 DEF RequestsOnce
      <4> QED BY <2>1, <2>2, <3>1, <4>1, <4>2 DEF Unanswered
    <3>2. CASE \E m \in Requests \ Requests' : acceptor' = Got(m)
      <4>1. PICK m \in Requests \ Requests' : acceptor' = Got(m)
        BY <3>2
      <4>2. acceptor'[2] = m /\ m \in Message /\ Unanswered(m)
        BY <1>0, <1>m, <4>1, FutureFacts DEF RequestsOnce, Requests
      <4>3. \A r \in Requests' : r.from # m.from
        BY <1>0, <2>2, <4>1 DEF RequestsOnce
      <4> QED BY <2>1, <4>2, <4>3 DEF Unanswered
    <3> QED BY <1>1, <2>3, <3>1, <3>2
  <2>4. \A m1, m2 \in Requests' : m1.from = m2.from => m1 = m2
    BY <1>0, <2>2 DEF RequestsOnce
  <2> QED BY <1>1, <2>2, <2>3, <2>4 DEF RequestsOnce
<1>2. ASSUME msgs' \subseteq msgs, \A m \in flight' : m.tag = ConnectTag => m \in flight,
             \A e \in Ends : st[e] = "none" => st'[e] = "none",
             acceptor' \in {acceptor, NoFuture}
      PROVE  RequestsOnce'
  <2>1. \A m \in Requests' : m \in Requests /\ ~(m \in flight' /\ m \in msgs')
    BY <1>0, <1>2 DEF RequestsOnce, Requests
  <2> QED BY <1>1, <1>2, <2>1, FutureFacts
<1>3. CASE Listen \/ (UNCHANGED vars) \/ \E e \in Ends : DropHalf(e) \/ CancelRead(e)
  <2>1. UNCHANGED <<msgs, flight, acceptor>>
    BY <1>3 DEF Listen, DropHalf, CancelRead, vars, listenVars
  <2>2. \A e \in Ends : st[e] = "none" => st'[e] = "none"
    BY <1>3, EndsTypes, <1>0 DEF Listen, DropHalf, CancelRead, vars
  <2> QED BY <1>2, <2>1, <2>2
<1>4. ASSUME NEW E, NEW D, DropStep(E, D), acceptor' \in {acceptor, NoFuture}
      PROVE  RequestsOnce'
  <2>1. msgs' \subseteq msgs /\ flight' = flight
    BY <1>4 DEF DropStep, DropEnds, CloseSockets
  <2>2. \A e \in Ends : st[e] = "none" => st'[e] = "none"
    BY <1>0, <1>4, DropFacts DEF Registered, Streams
  <2> QED BY <1>2, <1>4, <2>1, <2>2
<1>5. CASE AcceptReturns
  <2>1. \A e \in Ends : st[e] = "none" => st'[e] = "none"
    BY <1>0, <1>5, AcceptReturnsFacts, EndsTypes
  <2> QED BY <1>2, <1>5, <2>1 DEF AcceptReturns
<1>6. ASSUME NEW e \in Ends, NEW ok \in BOOLEAN, Write(e, ok) PROVE RequestsOnce'
  <2>1. /\ UNCHANGED <<msgs, acceptor, st>>
        /\ \A m \in flight' : m \in flight \/ m.tag = SendTag(e)
    BY <1>6 DEF Write, Send, listenVars
  <2>2. rid[e] # 0 /\ rid[e] \in Nat /\ send_seq[e] \in Nat
    BY <1>6, MessagesTypes, EndFacts DEF Write, HasWriter, Open, PeersKnown
  <2>3. SendTag(e) # ConnectTag
    BY <2>2, TagFacts DEF SendTag
  <2> QED BY <1>2, <2>1, <2>3
<1>7. ASSUME NEW e \in Ends, ReadStep(e) PROVE RequestsOnce'
  <2>1. msgs' \subseteq msgs /\ UNCHANGED <<flight, acceptor, st>>
    BY <1>7
    DEF ReadStep, Read, Peek, PollRead, ReadBuffered, ReadMessage, ReadReset, ReadPending,
        Taken, listenVars
  <2> QED BY <1>2, <2>1
<1>8. ASSUME NEW c \in Conns, NEW m \in msgs, Connected(c, m) PROVE RequestsOnce'
  <2>1. msgs' \subseteq msgs /\ UNCHANGED <<flight, acceptor>>
    BY <1>8 DEF Connected, Taken, listenVars
  <2>2. \A e \in Ends : st[e] = "none" => st'[e] = "none"
    BY <1>0, <1>8, EndsTypes DEF Connected
  <2> QED BY <1>2, <2>1, <2>2
<1>9. ASSUME NEW n \in Crashing, Kill(n) PROVE RequestsOnce'
  <2>1. /\ msgs' \subseteq msgs /\ flight' \subseteq flight /\ st' = st
        /\ acceptor' \in {acceptor, NoFuture}
    BY <1>9 DEF Kill, KillListener, CloseSockets
  <2> QED BY <1>2, <2>1
<1>10. CASE PollAccept
  <2>1. CASE UNCHANGED msgs /\ acceptor' = Waiting
    <3>1. \A m \in Requests' : m \in Requests /\ ~(m \in flight' /\ m \in msgs')
      BY <1>0, <1>10, <2>1 DEF RequestsOnce, Requests, PollAccept
    <3> QED BY <1>1, <1>10, <2>1, <3>1, FutureFacts DEF PollAccept
  <2>2. ASSUME NEW m \in Connecting, acceptor' = Got(m), msgs' = Taken(m)
        PROVE  RequestsOnce'
    <3>1. flight' = flight /\ st' = st
      BY <1>10 DEF PollAccept
    <3>2. m \in Requests \ Requests'
      BY <1>0, <2>2, <3>1 DEF Connecting, Requests, Taken, RequestsOnce
    <3>3. \A r \in Requests' : r \in Requests /\ ~(r \in flight' /\ r \in msgs')
      BY <1>0, <2>2, <3>1 DEF RequestsOnce, Requests, Taken
    <3> QED BY <1>1, <2>2, <3>1, <3>2, <3>3
  <2> QED BY <1>10, <2>1, <2>2 DEF PollAccept
<1>11. ASSUME NEW m \in flight, Deliver(m) PROVE RequestsOnce'
  <2>1. flight' = flight \ {m} /\ st' = st
    BY <1>11 DEF Deliver
  <2>2. CASE UNCHANGED msgs /\ acceptor' = acceptor
    BY <1>2, <2>1, <2>2
  <2>3. CASE msgs' = msgs \cup {m} /\ acceptor' = acceptor
    <3>1. \A r \in Requests' : r \in Requests /\ ~(r \in flight' /\ r \in msgs')
      BY <1>0, <2>1, <2>3 DEF RequestsOnce, Requests
    <3> QED BY <1>1, <2>1, <2>3, <3>1
  <2>4. CASE m.tag = ConnectTag /\ acceptor' = Got(m) /\ UNCHANGED msgs
    <3>1. m \in Requests \ Requests'
      BY <1>0, <2>1, <2>4 DEF Requests, RequestsOnce
    <3>2. \A r \in Requests' : r \in Requests /\ ~(r \in flight' /\ r \in msgs')
      BY <1>0, <2>1, <2>4 DEF RequestsOnce, Requests
    <3> QED BY <1>1, <2>1, <2>4, <3>1, <3>2
  <2> QED BY <1>11, <2>2, <2>3, <2>4 DEF Deliver, ForAcceptor
<1>12. ASSUME NEW c \in Conns, NEW n \in Callers, NEW ok \in BOOLEAN, Connect(c, n, ok)
       PROVE  RequestsOnce'
  <2> DEFINE e == <<c, "client">>
  <2>1. /\ e \in Ends /\ e[2] = "client" /\ Peer(e) \in Ends \ {e}
        /\ Peer(e)[2] = "server" /\ Peer(Peer(e)) = e
    BY EndFacts
  <2>2. /\ st[e] = "none" /\ st'[e] # "none" /\ id'[e] = next_tcp_id
        /\ \A f \in Ends \ {e} : st'[f] = st[f] /\ id'[f] = id[f]
        /\ UNCHANGED <<acceptor, msgs>>
    BY <1>0, <1>12, ConnectFacts DEF Connect, listenVars
  <2>3. st[Peer(e)] = "none"
    BY <2>1, <2>2, MessagesTypes DEF PeersKnown
  <2>4. \A m \in flight' \ flight : m.from = e /\ m.val = next_tcp_id
    BY <1>12 DEF Connect, Send
  <2>5. \A m1, m2 \in flight' \ flight : m1 = m2
    BY <1>12 DEF Connect, Send, Listening, ConnectTag
  <2> HIDE DEF e
  <2>6. \A m \in Message : Unanswered(m) => m.from # e /\ Unanswered(m)'
    <3>1. \A m \in Message : m.from \in Ends
      BY DEF Message
    <3>2. \A m \in Message : Unanswered(m) => m.from # e /\ Peer(m.from) \in Ends \ {e}
      BY <2>1, <2>2, <3>1, EndFacts DEF Unanswered
    <3>3. \A m \in Message : Unanswered(m) => st'[Peer(m.from)] = "none"
      BY <2>2, <3>1, <3>2 DEF Unanswered
    <3> QED BY <1>k, <3>2, <3>3, SaidStays
  <2>7. \A m \in Requests : m.from # e /\ Unanswered(m)' /\ ~(m \in flight /\ m \in msgs)
    BY <1>0, <1>m, <2>6 DEF RequestsOnce, Requests
  <2>8. \A m \in Requests' : m \in Requests \/ m \in flight' \ flight
    BY <2>2 DEF Requests
  <2>9. \A m \in flight' \ flight : Unanswered(m)'
    BY <2>1, <2>2, <2>3, <2>4 DEF Unanswered
  <2>10. \A m \in Requests' : ~(m \in flight' /\ m \in msgs')
    BY <2>2, <2>4, <2>7 DEF Requests
  <2>11. \A m1, m2 \in Requests' : m1.from = m2.from => m1 = m2
    BY <1>0, <2>4, <2>5, <2>7, <2>8 DEF RequestsOnce
  <2>12. ASSUME acceptor[1] = "got"
         PROVE  Unanswered(acceptor[2])' /\ \A m \in Requests' : m.from # acceptor[2].from
    <3>1. PICK a \in Message : a = acceptor[2]
      BY <1>0, <2>12, FutureCases, FutureFacts
    <3>2. Unanswered(a) /\ \A m \in Requests : m.from # a.from
      BY <1>0, <2>12, <3>1 DEF RequestsOnce
    <3>3. a.from # e /\ Unanswered(a)' /\ acceptor'[2] = a
      BY <2>2, <2>6, <3>1, <3>2
    <3>4. \A m \in Requests' : m.from # a.from
      BY <2>4, <2>8, <3>2, <3>3
    <3> QED BY <3>1, <3>3, <3>4 DEF Unanswered
  <2> QED BY <2>2, <2>7, <2>8, <2>9, <2>10, <2>11, <2>12 DEF RequestsOnce
<1>13. ASSUME NEW c \in Conns, NEW ok \in BOOLEAN, Accept(c, ok) PROVE RequestsOnce'
  <2> DEFINE e == <<c, "server">>
             a == acceptor[2]
  <2>1. /\ e \in Ends /\ a.from = Peer(e) /\ st[a.from] # "none"
        /\ a.val = id[a.from] /\ a.val \in Nat
        /\ \A r \in Requests : r.from # a.from
    BY <1>0, <1>13, AcceptIsNew, AcceptFacts DEF Message
  <2>2. \A f \in Ends \ {e} : st'[f] = st[f]
    BY <1>0, <1>13, AcceptFacts
  <2>3. /\ acceptor'[1] # "got"
        /\ msgs' = msgs /\ \A m \in flight' : m \in flight \/ m.tag = <<a.val, 0>>
    BY <1>13, FutureFacts DEF Accept, Send
  <2>4. <<a.val, 0>> # ConnectTag
    BY <2>1, TagFacts, MessagesTypes, EndFacts
  <2> HIDE DEF e, a
  <2>5. \A m \in Requests' : m \in Requests /\ (m \in flight' => m \in flight)
    BY <2>3, <2>4 DEF Requests
  <2>6. \A m \in Requests : st'[Peer(m.from)] = "none"
    <3>1. \A m \in Requests : m.from \in Ends /\ Unanswered(m) /\ m.from # a.from
      BY <1>0, <2>1, MessagesTypes DEF RequestsOnce, Requests
    <3> QED BY <2>1, <2>2, <3>1, EndFacts DEF Unanswered
  <2>7. \A m \in Requests : Unanswered(m)' /\ ~(m \in flight /\ m \in msgs)
    BY <1>0, <1>k, <1>m, <2>6, SaidStays DEF RequestsOnce, Requests
  <2>8. \A m1, m2 \in Requests' : m1.from = m2.from => m1 = m2
    BY <1>0, <2>5 DEF RequestsOnce
  <2> QED BY <2>3, <2>5, <2>7, <2>8 DEF RequestsOnce
<1>14. ASSUME NEW e \in Ends, Close(e) \/ DropKilled(e) PROVE RequestsOnce'
  BY <1>0, <1>4, <1>14, DropSteps DEF Close, DropKilled
<1>15. CASE DropListener \/ IntoStd
  BY <1>0, <1>4, <1>15, DropSteps DEF DropListener, IntoStd, DropFuture
<1> QED
  BY <1>3, <1>5, <1>6, <1>7, <1>8, <1>9, <1>10, <1>11, <1>12, <1>13, <1>14, <1>15 DEF Next

\* Streams keep the ids of their peers.
LEMMA PeersKnownStep ==
  ASSUME MessagesInv, [Next]_vars
  PROVE  PeersKnown'
<1>0. RequestsOnce /\ EndsInv /\ AnsweredHeld /\ TypeOK /\ PeersKnown
  BY MessagesTypes DEF EndsInv
<1>k. \A e \in Ends : Kept(e) /\ Kept(Peer(e))
  BY <1>0, EndsKept, EndFacts
<1>1. ASSUME \A e \in Ends :
               /\ st'[e] \in Streams \cup {"answered"} =>
                    st[e] \in Streams \cup {"answered"} /\ rid'[e] = rid[e]
               /\ st[e] = "none" => st'[e] = "none"
      PROVE  PeersKnown'
  BY <1>0, <1>1, <1>k DEF PeersKnown, Kept
<1>2. CASE \/ UNCHANGED vars \/ Listen \/ PollAccept
           \/ (\E m \in flight : Deliver(m))
           \/ (\E e \in Ends, ok \in BOOLEAN : Write(e, ok))
           \/ (\E e \in Ends : ReadStep(e) \/ CancelRead(e))
           \/ (\E n \in Crashing : Kill(n))
  <2>1. UNCHANGED <<st, rid>>
    <3>1. ASSUME NEW e \in Ends, ReadStep(e) \/ CancelRead(e)
          PROVE  UNCHANGED <<st, rid>>
      <4>1. ASSUME NEW n, NEW peek, NEW m,
                   \/ ReadBuffered(e, n, peek) \/ ReadMessage(e, m, n, peek)
                   \/ ReadReset(e) \/ ReadPending(e)
            PROVE  UNCHANGED <<st, rid>>
        BY <4>1 DEF ReadBuffered, ReadMessage, ReadReset, ReadPending, streamVars
      <4>2. CASE ReadStep(e)
        BY <4>1, <4>2 DEF ReadStep, Read, Peek, PollRead
      <4>3. CASE CancelRead(e)
        BY <4>3 DEF CancelRead, streamVars
      <4> QED BY <3>1, <4>2, <4>3
    <3>2. ASSUME \/ UNCHANGED vars \/ Listen \/ PollAccept
                 \/ (\E m \in flight : Deliver(m))
                 \/ (\E e \in Ends, ok \in BOOLEAN : Write(e, ok))
                 \/ (\E n \in Crashing : Kill(n))
          PROVE  UNCHANGED <<st, rid>>
      BY <3>2 DEF vars, Listen, PollAccept, Deliver, Write, Kill, streamVars
    <3> QED BY <1>2, <3>1, <3>2
  <2> QED BY <1>1, <2>1
<1>3. CASE AcceptReturns
  <2>1. rid' = rid
    BY <1>3 DEF AcceptReturns, streamVars
  <2> QED BY <1>0, <1>1, <1>3, <2>1, AcceptReturnsFacts, EndsTypes
<1>4. ASSUME NEW E, NEW D, DropStep(E, D) PROVE PeersKnown'
  <2>1. rid' = rid
    BY <1>4 DEF DropStep, DropEnds, streamVars
  <2>2. \A e \in Ends : /\ st'[e] \in {st[e], "closed"}
                        /\ st[e] = "none" => st'[e] = "none"
    BY <1>0, <1>4, DropFacts DEF Registered, Streams
  <2> QED BY <1>1, <2>1, <2>2 DEF Streams
<1>5. ASSUME NEW e \in Ends, DropHalf(e) PROVE PeersKnown'
  <2>1. rid' = rid /\ \A f \in Ends : /\ st[f] = "none" => st'[f] = "none"
                                      /\ st'[f] = st[f] \/ st[f] = "open"
    BY <1>0, <1>5, EndsTypes DEF DropHalf, streamVars
  <2> QED BY <1>1, <2>1 DEF Streams
<1>6. ASSUME NEW c \in Conns, NEW n \in Callers, NEW ok \in BOOLEAN, Connect(c, n, ok)
      PROVE  PeersKnown'
  <2> DEFINE e == <<c, "client">>
  <2>1. /\ e \in Ends /\ e[2] = "client" /\ st'[e] \in {"connecting", "closed"}
        /\ \A f \in Ends \ {e} : st'[f] = st[f]
    BY <1>0, <1>6, ConnectFacts, EndFacts
  <2>2. rid' = rid
    BY <1>6 DEF Connect, streamVars
  <2> HIDE DEF e
  <2> QED BY <1>0, <1>k, <2>1, <2>2 DEF PeersKnown, Kept, Streams
<1>7. ASSUME NEW c \in Conns, NEW ok \in BOOLEAN, Accept(c, ok) PROVE PeersKnown'
  <2> DEFINE e == <<c, "server">>
  <2>1. e \in Ends /\ acceptor[2].val = id[Peer(e)] /\ st[Peer(e)] # "none"
    <3>1. e \in Ends
      BY EndFacts
    <3> QED BY <1>0, <1>7, <3>1, AcceptIsNew
  <2>2. rid' = [rid EXCEPT ![e] = acceptor[2].val]
    BY <1>7 DEF Accept
  <2>3. \A f \in Ends \ {e} : st'[f] = st[f]
    BY <1>0, <1>7, AcceptFacts
  <2> HIDE DEF e
  <2>4. rid'[e] = id[Peer(e)] /\ \A f \in Ends \ {e} : rid'[f] = rid[f]
    BY <2>1, <2>2, MessagesTypes
  <2> QED BY <1>0, <1>k, <2>1, <2>3, <2>4 DEF PeersKnown, Kept
<1>8. ASSUME NEW c \in Conns, NEW m \in msgs, Connected(c, m) PROVE PeersKnown'
  <2> DEFINE e == <<c, "client">>
  <2>1. e \in Ends /\ e[2] = "client" /\ st[e] = "connecting"
    BY <1>8, EndFacts DEF Connected
  <2>2. m.tag = <<id[e], recv_seq[e]>>
    BY <1>8 DEF Connected, RecvTag
  <2>3. rid' = [rid EXCEPT ![e] = m.val] /\ st' = [st EXCEPT ![e] = "open"]
    BY <1>8 DEF Connected
  <2> HIDE DEF e
  <2>4. id[e] # 0 /\ id[e] \in Nat /\ recv_seq[e] = 0
    BY <2>1, MessagesTypes DEF AnswerFirst
  <2>5. m.from \in Ends /\ Addressed(m) /\ m.tag[1] = id[e] /\ m.tag[2] = 0
    <3>1. m.tag[1] = id[e] /\ m.tag[2] = 0 /\ m.tag # ConnectTag
      BY <2>2, <2>4 DEF ConnectTag
    <3> QED BY <3>1, MessagesTypes DEF MessagesAddressed
  <2>6. Peer(m.from) = e
    <3>1. Peer(m.from) \in Ends /\ st[Peer(m.from)] # "none" /\ id[Peer(m.from)] = id[e]
      BY <2>5, EndFacts DEF Addressed
    <3> QED BY <2>1, <3>1, MessagesTypes DEF IdsUnique
  <2>7. m.from = Peer(e) /\ m.from[2] = "server"
    BY <2>1, <2>5, <2>6, EndFacts
  <2>8. m.val = id[Peer(e)] /\ st[Peer(e)] # "none"
    BY <2>5, <2>7 DEF Addressed
  <2>9. /\ rid'[e] = id[Peer(e)] /\ \A f \in Ends \ {e} : rid'[f] = rid[f]
        /\ \A f \in Ends \ {e} : st'[f] = st[f]
    BY <1>0, <2>1, <2>3, <2>8, MessagesTypes, EndsTypes
  <2> QED BY <1>0, <1>k, <2>1, <2>8, <2>9 DEF PeersKnown, Kept
<1> QED
  BY <1>0, <1>2, <1>3, <1>4, <1>5, <1>6, <1>7, <1>8, DropSteps DEF Next

\* The answer is the first thing a server's end sends and a client's end receives.
LEMMA AnswerFirstStep ==
  ASSUME MessagesInv, [Next]_vars
  PROVE  AnswerFirst'
<1>0. EndsInv /\ AnsweredHeld /\ TypeOK /\ AnswerFirst /\ RequestsOnce
  BY MessagesTypes DEF EndsInv
<1>1. ASSUME \A e \in Ends :
               /\ st'[e] # "none" => st[e] # "none"
               /\ st'[e] \in {"none", "connecting"} => st'[e] = st[e]
               /\ send_seq'[e] = send_seq[e] /\ recv_seq'[e] = recv_seq[e]
      PROVE  AnswerFirst'
  BY <1>0, <1>1 DEF AnswerFirst
<1>2. CASE \/ UNCHANGED vars \/ Listen \/ PollAccept
           \/ (\E m \in flight : Deliver(m))
           \/ (\E e \in Ends : CancelRead(e) \/ ReadReset(e) \/ ReadPending(e))
           \/ (\E e \in Ends, n \in 1 .. 2, peek \in BOOLEAN : ReadBuffered(e, n, peek))
           \/ (\E n \in Crashing : Kill(n))
  <2>1. UNCHANGED <<st, send_seq, recv_seq>>
    BY <1>2
    DEF vars, Listen, PollAccept, Deliver, ReadBuffered, ReadReset, ReadPending,
        CancelRead, Kill, streamVars
  <2> QED BY <1>1, <2>1
<1>3. CASE AcceptReturns
  <2>1. UNCHANGED <<send_seq, recv_seq>>
    BY <1>3 DEF AcceptReturns, streamVars
  <2> QED BY <1>0, <1>1, <1>3, <2>1, AcceptReturnsFacts, EndsTypes
<1>4. ASSUME NEW E, NEW D, DropStep(E, D) PROVE AnswerFirst'
  <2>1. UNCHANGED <<send_seq, recv_seq>>
    BY <1>4 DEF DropStep, DropEnds, streamVars
  <2> QED BY <1>0, <1>1, <1>4, <2>1, DropFacts DEF Registered, Streams
<1>5. ASSUME NEW e \in Ends, DropHalf(e) PROVE AnswerFirst'
  <2>1. UNCHANGED <<send_seq, recv_seq>>
    BY <1>5 DEF DropHalf, streamVars
  <2> QED BY <1>0, <1>1, <1>5, <2>1, EndsTypes DEF DropHalf
<1>6. ASSUME NEW c \in Conns, NEW n \in Callers, NEW ok \in BOOLEAN, Connect(c, n, ok)
      PROVE  AnswerFirst'
  <2> DEFINE e == <<c, "client">>
  <2>1. /\ e \in Ends /\ e[2] = "client" /\ st[e] = "none"
        /\ \A f \in Ends \ {e} : st'[f] = st[f]
    BY <1>0, <1>6, ConnectFacts, EndFacts
  <2>2. UNCHANGED <<send_seq, recv_seq>>
    BY <1>6 DEF Connect, streamVars
  <2> HIDE DEF e
  <2> QED BY <1>0, <2>1, <2>2 DEF AnswerFirst
<1>7. ASSUME NEW c \in Conns, NEW ok \in BOOLEAN, Accept(c, ok) PROVE AnswerFirst'
  <2> DEFINE e == <<c, "server">>
  <2>1. /\ e \in Ends /\ st'[e] \in {"answered", "closed"}
        /\ \A f \in Ends \ {e} : st'[f] = st[f]
    BY <1>0, <1>7, AcceptFacts, EndFacts
  <2>2. send_seq' = [send_seq EXCEPT ![e] = 1] /\ recv_seq' = recv_seq
    BY <1>7 DEF Accept
  <2> HIDE DEF e
  <2>3. send_seq'[e] = 1 /\ \A f \in Ends \ {e} : send_seq'[f] = send_seq[f]
    BY <2>1, <2>2, MessagesTypes
  <2> QED BY <1>0, <2>1, <2>2, <2>3 DEF AnswerFirst
<1>8. ASSUME NEW e \in Ends, st[e] \notin {"none"}, st'[e] \in Streams,
             \A f \in Ends \ {e} : st'[f] = st[f] /\ recv_seq'[f] = recv_seq[f],
             send_seq' = send_seq
      PROVE  AnswerFirst'
  BY <1>0, <1>8 DEF AnswerFirst, Streams
<1>9. ASSUME NEW c \in Conns, NEW m \in msgs, Connected(c, m) PROVE AnswerFirst'
  <2>1. /\ <<c, "client">> \in Ends /\ send_seq' = send_seq
        /\ st[<<c, "client">>] = "connecting"
        /\ st' = [st EXCEPT ![<<c, "client">>] = "open"]
        /\ recv_seq' = [recv_seq EXCEPT ![<<c, "client">>] = @ + 1]
    BY <1>9, EndFacts DEF Connected
  <2> QED BY <1>0, <1>8, <2>1, MessagesTypes, EndsTypes DEF Streams
<1>10. ASSUME NEW e \in Ends, NEW m \in msgs, NEW n \in 1 .. 2, NEW peek \in BOOLEAN,
              ReadMessage(e, m, n, peek)
       PROVE  AnswerFirst'
  <2>1. /\ send_seq' = send_seq /\ st' = st /\ st[e] \in Streams
        /\ recv_seq' = [recv_seq EXCEPT ![e] = @ + 1]
    BY <1>10 DEF ReadMessage, MayPoll, HasReader, Open
  <2> QED BY <1>0, <1>8, <2>1, MessagesTypes DEF Streams
<1>11. ASSUME NEW e \in Ends, NEW ok \in BOOLEAN, Write(e, ok) PROVE AnswerFirst'
  <2>1. st' = st /\ recv_seq' = recv_seq /\ send_seq' = [send_seq EXCEPT ![e] = @ + 1]
    BY <1>11 DEF Write
  <2>2. \A f \in Ends : send_seq'[f] >= send_seq[f]
    BY <2>1, MessagesTypes
  <2> QED BY <1>0, <2>1, <2>2, MessagesTypes DEF AnswerFirst
<1> QED
  BY <1>0, <1>2, <1>3, <1>4, <1>5, <1>6, <1>7, <1>9, <1>10, <1>11, DropSteps
  DEF Next, ReadStep, Read, Peek, PollRead

\* Messages are for the peers of their senders.
LEMMA MessagesAddressedStep ==
  ASSUME MessagesInv, [Next]_vars
  PROVE  MessagesAddressed'
<1>0. EndsInv /\ AnsweredHeld /\ TypeOK /\ PeersKnown /\ RequestsOnce
  BY MessagesTypes DEF EndsInv
<1>k. \A e \in Ends : Kept(e)
  BY <1>0, EndsKept
<1>1. \A m \in flight \cup msgs : m.tag # ConnectTag => Addressed(m)'
  BY <1>k, SaidStays, MessagesTypes DEF MessagesAddressed
<1>2. ASSUME flight' \cup msgs' \subseteq flight \cup msgs
      PROVE  MessagesAddressed'
  BY <1>1, <1>2 DEF MessagesAddressed
<1>3. CASE \/ UNCHANGED vars \/ Listen \/ PollAccept \/ AcceptReturns
           \/ (\E m \in flight : Deliver(m))
           \/ (\E e \in Ends : ReadStep(e) \/ CancelRead(e) \/ DropHalf(e))
           \/ (\E c \in Conns, m \in msgs : Connected(c, m))
           \/ (\E n \in Crashing : Kill(n))
  <2>1. flight' \cup msgs' \subseteq flight \cup msgs
    <3>1. ASSUME NEW e \in Ends, ReadStep(e) \/ CancelRead(e) \/ DropHalf(e)
          PROVE  flight' = flight /\ msgs' \subseteq msgs
      BY <3>1
      DEF ReadStep, Read, Peek, PollRead, ReadBuffered, ReadMessage, ReadReset, ReadPending,
          CancelRead, DropHalf, Taken
    <3>2. CASE \/ UNCHANGED vars \/ Listen \/ AcceptReturns
               \/ (\E n \in Crashing : Kill(n))
      BY <3>2 DEF vars, Listen, AcceptReturns, Kill, CloseSockets
    <3>3. CASE \/ PollAccept \/ (\E m \in flight : Deliver(m))
               \/ (\E c \in Conns, m \in msgs : Connected(c, m))
      BY <3>3 DEF PollAccept, Taken, Deliver, Connected
    <3> QED BY <1>3, <3>1, <3>2, <3>3
  <2> QED BY <1>2, <2>1
<1>4. ASSUME NEW E, NEW D, DropStep(E, D) PROVE MessagesAddressed'
  BY <1>2, <1>4 DEF DropStep, DropEnds, CloseSockets
<1>5. ASSUME NEW c \in Conns, NEW n \in Callers, NEW ok \in BOOLEAN, Connect(c, n, ok)
      PROVE  MessagesAddressed'
  <2>1. msgs' = msgs /\ \A m \in flight' : m \in flight \/ m.tag = ConnectTag
    BY <1>5 DEF Connect, Send
  <2> QED BY <1>1, <2>1 DEF MessagesAddressed
<1>6. ASSUME NEW c \in Conns, NEW ok \in BOOLEAN, Accept(c, ok) PROVE MessagesAddressed'
  <2> DEFINE e == <<c, "server">>
  <2>1. /\ e \in Ends /\ e[2] = "server"
        /\ acceptor[2].val = id[Peer(e)] /\ st[Peer(e)] # "none"
    <3>1. e \in Ends /\ e[2] = "server"
      BY EndFacts
    <3> QED BY <1>0, <1>6, <3>1, AcceptIsNew
  <2>2. st'[e] = (IF ok THEN "answered" ELSE "closed") /\ id'[e] = next_tcp_id
    BY <1>0, <1>6, AcceptFacts
  <2>3. /\ msgs' = msgs
        /\ \A m \in flight' :
             \/ m \in flight
             \/ /\ m.tag = <<acceptor[2].val, 0>> /\ m.from = e /\ m.val = next_tcp_id
                /\ ok
    BY <1>6 DEF Accept, Send
  <2>4. st'[Peer(e)] # "none" /\ id'[Peer(e)] = id[Peer(e)]
    BY <1>k, <2>1, EndFacts DEF Kept
  <2>5. \A m \in flight' \ flight : Addressed(m)'
    BY <2>1, <2>2, <2>3, <2>4 DEF Addressed
  <2> QED BY <1>1, <2>3, <2>5 DEF MessagesAddressed
<1>7. ASSUME NEW e \in Ends, NEW ok \in BOOLEAN, Write(e, ok) PROVE MessagesAddressed'
  <2>1. /\ msgs' = msgs /\ UNCHANGED <<st, id>>
        /\ \A m \in flight' :
             \/ m \in flight
             \/ /\ m.tag = <<rid[e], send_seq[e]>> /\ m.from = e /\ m.val = send_seq[e]
                /\ ok
    BY <1>7 DEF Write, Send, SendTag
  <2>2. ok => send_seq[e] \in sent'[e]
    BY <1>7, MessagesTypes DEF Write
  <2>3. /\ st[e] # "none" /\ st[Peer(e)] # "none" /\ rid[e] = id[Peer(e)]
        /\ e[2] = "server" => send_seq[e] # 0
    BY <1>0, <1>7, MessagesTypes
    DEF Write, HasWriter, Open, Streams, PeersKnown, AnswerFirst
  <2>4. \A m \in flight' \ flight : Addressed(m)'
    BY <2>1, <2>2, <2>3 DEF Addressed
  <2> QED BY <1>1, <2>1, <2>4 DEF MessagesAddressed
<1> QED
  BY <1>0, <1>3, <1>4, <1>5, <1>6, <1>7, DropSteps DEF Next

\* The invariants about messages hold at first, and are kept by every step.
LEMMA MessagesInit == Init => MessagesInv
<1> SUFFICES ASSUME Init PROVE MessagesInv
  OBVIOUS
<1>1. flight = {} /\ msgs = {} /\ acceptor[1] # "got"
  BY FutureFacts DEF Init
<1>2. RequestsOnce /\ MessagesAddressed
  BY <1>1 DEF RequestsOnce, Requests, MessagesAddressed
<1>3. PeersKnown /\ AnswerFirst
  BY DEF Init, PeersKnown, AnswerFirst, Streams
<1> QED BY <1>2, <1>3, EndsInit DEF MessagesInv

\* Every step keeps the invariant of messages.
LEMMA MessagesStep == MessagesInv /\ [Next]_vars => MessagesInv'
BY EndsStep, RequestsOnceStep, PeersKnownStep, AnswerFirstStep, MessagesAddressedStep
DEF MessagesInv

-----------------------------------------------------------------------------
(* Readers.                                                                 *)

\* What an open end would take from its mailbox is the next payload of its peer.
LEMMA ExpectedIsPeers ==
  ASSUME MessagesInv, NEW e \in Ends, st[e] # "none", NEW m \in Expected(e)
  PROVE  /\ m \in flight \cup msgs /\ m.from = Peer(e)
         /\ m.tag[1] = id[e] /\ m.tag[2] = recv_seq[e] /\ Addressed(m)
<1>1. m \in msgs /\ m.tag = <<id[e], recv_seq[e]>> /\ id[e] # 0
  BY MessagesTypes DEF Expected, RecvTag
<1>2. m.tag[1] = id[e] /\ m.tag[2] = recv_seq[e] /\ m.tag # ConnectTag
  BY <1>1 DEF ConnectTag
<1>3. m.from \in Ends /\ Addressed(m)
  BY <1>1, <1>2, MessagesTypes DEF MessagesAddressed
<1>4. Peer(m.from) \in Ends /\ st[Peer(m.from)] # "none" /\ id[Peer(m.from)] = id[e]
  BY <1>2, <1>3, EndFacts DEF Addressed
<1>5. Peer(m.from) = e
  BY <1>4, MessagesTypes DEF IdsUnique
<1> QED BY <1>1, <1>2, <1>3, <1>5, EndFacts

\* The first sequence number of payloads: a server's end has used 0 for the answer.
LEMMA FirstSeqFacts ==
  \A e \in Ends : /\ FirstSeq(Peer(e)) = IF e[2] = "client" THEN 1 ELSE 0
                  /\ FirstSeq(Peer(e)) \in Nat
BY EndFacts DEF FirstSeq

\* What the invariants about readers say, and the types they need.
LEMMA ReadersTypes ==
  ASSUME ReadersInv
  PROVE  /\ MessagesInv /\ EndsInv /\ RequestsOnce /\ AnsweredHeld /\ TypeOK
         /\ OnlyStreamsRead /\ UnitsCounted /\ InOrder /\ WaiterNotForgotten
         /\ reading \in [Ends -> {"idle", "waiting", "woken"}]
         /\ st \in [Ends -> Registered \cup {"none", "closed"}]
         /\ recv_seq \in [Ends -> Nat] /\ id \in [Ends -> Nat]
         /\ buffer \in [Ends -> Seq(Unit)] /\ rcvd \in [Ends -> Seq(Unit)]
         /\ \A e \in Ends : Len(buffer[e]) <= 2
<1>1. MessagesInv /\ OnlyStreamsRead /\ UnitsCounted /\ InOrder /\ WaiterNotForgotten
  BY DEF ReadersInv
<1>2. EndsInv /\ RequestsOnce /\ AnsweredHeld /\ TypeOK
  BY <1>1, MessagesTypes DEF EndsInv
<1>3. EndsType /\ UnitsType
  BY <1>2, TypeParts
<1> QED BY <1>1, <1>2, <1>3, MessagesTypes DEF EndsType, UnitsType

\* What the readers of a step that reads nothing do: they go on waiting, or stop.
LEMMA WokenFacts ==
  ASSUME ReadersInv
  PROVE  \A W : \A e \in Ends :
           /\ Woken(W)[e] \in {reading[e], "woken"}
           /\ Woken(W)[e] # "idle" => reading[e] # "idle"
           /\ Woken(W)[e] = "waiting" =>
                reading[e] = "waiting" /\ \A w \in W : w.end # e
BY ReadersTypes DEF Woken

\* Only streams with a read half read.
LEMMA OnlyStreamsReadStep ==
  ASSUME ReadersInv, [Next]_vars
  PROVE  OnlyStreamsRead'
<1>0. /\ OnlyStreamsRead /\ EndsInv /\ AnsweredHeld /\ TypeOK
      /\ reading \in [Ends -> {"idle", "waiting", "woken"}]
      /\ st \in [Ends -> Registered \cup {"none", "closed"}]
      /\ recv_seq \in [Ends -> Nat]
      /\ \A e \in Ends : FirstSeq(Peer(e)) \in Nat
  BY ReadersTypes, FirstSeqFacts
<1>1. ASSUME UNCHANGED <<st, recv_seq>>,
             \A e \in Ends : reading'[e] # "idle" => reading[e] # "idle"
      PROVE  OnlyStreamsRead'
  BY <1>0, <1>1 DEF OnlyStreamsRead
<1>2. CASE \/ UNCHANGED vars \/ Listen \/ PollAccept
           \/ (\E e \in Ends, ok \in BOOLEAN : Write(e, ok))
           \/ (\E n \in Crashing : Kill(n))
  BY <1>1, <1>2 DEF vars, Listen, PollAccept, Write, Kill, streamVars
<1>3. ASSUME NEW m \in flight, Deliver(m) PROVE OnlyStreamsRead'
  <2>1. \A e \in Ends : reading'[e] # "idle" => reading[e] # "idle"
    BY <1>3, WokenFacts DEF Deliver
  <2> QED BY <1>1, <1>3, <2>1 DEF Deliver, streamVars
<1>4. ASSUME NEW e \in Ends, CancelRead(e) \/ ReadReset(e) \/ ReadPending(e)
             \/ \E n \in 1 .. 2, peek \in BOOLEAN : ReadBuffered(e, n, peek)
      PROVE  OnlyStreamsRead'
  <2>1. /\ UNCHANGED <<st, recv_seq>>
        /\ st[e] \in {"open", "reader"} \/ reading'[e] = "idle"
        /\ \A f \in Ends \ {e} : reading'[f] = reading[f]
    BY <1>0, <1>4
    DEF CancelRead, ReadReset, ReadPending, ReadBuffered, MayPoll, HasReader, Open,
        Streams, streamVars
  <2> QED BY <1>0, <2>1 DEF OnlyStreamsRead
<1>5. ASSUME NEW e \in Ends, NEW m \in msgs, NEW n \in 1 .. 2, NEW peek \in BOOLEAN,
             ReadMessage(e, m, n, peek)
      PROVE  OnlyStreamsRead'
  <2>1. /\ st' = st /\ reading' = [reading EXCEPT ![e] = "idle"]
        /\ recv_seq' = [recv_seq EXCEPT ![e] = @ + 1]
    BY <1>5 DEF ReadMessage
  <2>2. \A f \in Ends : recv_seq'[f] >= recv_seq[f] /\ recv_seq'[f] \in Nat
    BY <1>0, <2>1
  <2> QED BY <1>0, <2>1, <2>2 DEF OnlyStreamsRead
<1>6. CASE AcceptReturns
  <2>1. UNCHANGED <<reading, recv_seq>>
    BY <1>6 DEF AcceptReturns, streamVars
  <2>2. PICK a \in Ends : a[2] = "server" /\ st' = [st EXCEPT ![a] = "open"]
    BY <1>0, <1>6, AcceptReturnsFacts DEF AnsweredHeld
  <2>3. recv_seq[a] >= FirstSeq(Peer(a)) /\ recv_seq[a] \in Nat
    BY <1>0, <2>2, FirstSeqFacts
  <2>4. st'[a] = "open" /\ \A e \in Ends \ {a} : st'[e] = st[e]
    BY <1>0, <2>2
  <2> QED BY <1>0, <2>1, <2>3, <2>4 DEF OnlyStreamsRead, Streams
<1>7. ASSUME NEW E, NEW D, DropStep(E, D) PROVE OnlyStreamsRead'
  <2>1. recv_seq' = recv_seq
    BY <1>7 DEF DropStep, DropEnds, streamVars
  <2>2. \A e \in Ends : reading'[e] # "idle" => e \notin E /\ reading[e] # "idle"
    BY <1>7, WokenFacts DEF DropStep, DropEnds
  <2>3. \A e \in Ends : st'[e] = IF e \in E THEN "closed" ELSE st[e]
    BY <1>0, <1>7, DropFacts
  <2> QED BY <1>0, <2>1, <2>2, <2>3 DEF OnlyStreamsRead, Streams
<1>8. ASSUME NEW e \in Ends, DropHalf(e) PROVE OnlyStreamsRead'
  BY <1>0, <1>8 DEF DropHalf, OnlyStreamsRead, Streams, streamVars
<1>9. ASSUME NEW e \in Ends, st[e] = "none", st'[e] \notin Streams,
             \A f \in Ends \ {e} : st'[f] = st[f], UNCHANGED <<reading, recv_seq>>
      PROVE  OnlyStreamsRead'
  BY <1>0, <1>9 DEF OnlyStreamsRead
<1>10. ASSUME NEW c \in Conns, NEW n \in Callers, NEW ok \in BOOLEAN, Connect(c, n, ok)
       PROVE  OnlyStreamsRead'
  <2>1. UNCHANGED <<reading, recv_seq>>
    BY <1>10 DEF Connect, streamVars
  <2> QED BY <1>0, <1>9, <1>10, <2>1, ConnectFacts DEF Streams
<1>11. ASSUME NEW c \in Conns, NEW ok \in BOOLEAN, Accept(c, ok) PROVE OnlyStreamsRead'
  <2>1. UNCHANGED <<reading, recv_seq>>
    BY <1>11 DEF Accept
  <2>2. st[<<c, "server">>] = "none"
    BY <1>0, <1>11, AcceptIsNew, ReadersTypes
  <2> QED BY <1>0, <1>9, <1>11, <2>1, <2>2, AcceptFacts DEF Streams
<1>12. ASSUME NEW c \in Conns, NEW m \in msgs, Connected(c, m) PROVE OnlyStreamsRead'
  <2> DEFINE e == <<c, "client">>
  <2>1. e \in Ends /\ FirstSeq(Peer(e)) = 1
    <3>1. e \in Ends /\ e[2] = "client"
      BY EndFacts
    <3> QED BY <3>1, FirstSeqFacts
  <2>2. /\ reading' = reading /\ st' = [st EXCEPT ![e] = "open"]
        /\ recv_seq' = [recv_seq EXCEPT ![e] = @ + 1]
    BY <1>12 DEF Connected
  <2> HIDE DEF e
  <2>3. recv_seq'[e] >= 1 /\ \A f \in Ends \ {e} : recv_seq'[f] = recv_seq[f]
    BY <1>0, <2>1, <2>2
  <2> QED BY <1>0, <2>1, <2>2, <2>3 DEF OnlyStreamsRead, Streams
<1> QED
  BY <1>0, <1>2, <1>3, <1>4, <1>5, <1>6, <1>7, <1>8, <1>10, <1>11, <1>12, DropSteps
  DEF Next, ReadStep, Read, Peek, PollRead

\* A step that takes no message changes no sequence number that has been counted.
LEMMA ReadCases ==
  ASSUME ReadersInv, [Next]_vars
  PROVE  \/ \E e \in Ends, m \in msgs, n \in 1 .. 2, peek \in BOOLEAN :
              ReadMessage(e, m, n, peek)
         \/ \E c \in Conns, m \in msgs : Connected(c, m)
         \/ \E e \in Ends, n \in 1 .. 2, peek \in BOOLEAN : ReadBuffered(e, n, peek)
         \/ UNCHANGED <<recv_seq, buffer, rcvd>>
<1>1. CASE \/ UNCHANGED vars \/ Listen \/ PollAccept \/ AcceptReturns
           \/ DropListener \/ IntoStd
           \/ (\E m \in flight : Deliver(m))
           \/ (\E n \in Crashing : Kill(n))
  BY <1>1
  DEF vars, Listen, PollAccept, AcceptReturns, DropListener, IntoStd, DropFuture, DropEnds,
      Deliver, Kill, streamVars
<1>2. CASE \/ (\E e \in Ends, ok \in BOOLEAN : Write(e, ok))
           \/ (\E c \in Conns, n \in Callers, ok \in BOOLEAN : Connect(c, n, ok))
           \/ (\E c \in Conns, ok \in BOOLEAN : Accept(c, ok))
  BY <1>2 DEF Write, Connect, Accept, streamVars
<1>3. CASE \E e \in Ends : CancelRead(e) \/ DropHalf(e) \/ Close(e) \/ DropKilled(e)
                         \/ ReadReset(e) \/ ReadPending(e)
  BY <1>3
  DEF CancelRead, DropHalf, Close, DropKilled, DropEnds, ReadReset, ReadPending, streamVars
<1> QED BY <1>1, <1>2, <1>3 DEF Next, ReadStep, Read, Peek, PollRead

\* The units of the payload of sequence number first + k are the two after 2 * k.
LEMMA UnitNumbers ==
  \A k \in Nat : /\ (2 * k) \div 2 = k /\ (2 * k + 1) \div 2 = k
                 /\ (2 * k) % 2 = 0 /\ (2 * k + 1) % 2 = 1
OBVIOUS

\* Concatenation in the form used below.
LEMMA UnitsConcat ==
  \A s, t \in Seq(Unit) :
    /\ s \o t \in Seq(Unit) /\ Len(s) \in Nat /\ Len(s \o t) = Len(s) + Len(t)
    /\ \A i \in 1 .. Len(s) : (s \o t)[i] = s[i]
    /\ \A i \in 1 .. Len(t) : (s \o t)[Len(s) + i] = t[i]
    /\ s \o <<>> = s
<1> SUFFICES ASSUME NEW s \in Seq(Unit), NEW t \in Seq(Unit)
             PROVE  /\ s \o t \in Seq(Unit) /\ Len(s) \in Nat
                    /\ Len(s \o t) = Len(s) + Len(t)
                    /\ \A i \in 1 .. Len(s) : (s \o t)[i] = s[i]
                    /\ \A i \in 1 .. Len(t) : (s \o t)[Len(s) + i] = t[i]
                    /\ s \o <<>> = s
  OBVIOUS
<1>1. Len(s) \in Nat /\ Len(t) \in Nat
  BY LenProperties
<1>2. /\ s \o t \in Seq(Unit) /\ Len(s \o t) = Len(s) + Len(t)
      /\ \A i \in 1 .. Len(s) + Len(t) :
           (s \o t)[i] = IF i <= Len(s) THEN s[i] ELSE t[i - Len(s)]
  BY ConcatProperties
<1>3. \A i \in 1 .. Len(s) : (s \o t)[i] = s[i]
  BY <1>1, <1>2
<1>4. \A i \in 1 .. Len(t) : (s \o t)[Len(s) + i] = t[i]
  <2> TAKE i \in 1 .. Len(t)
  <2>1. Len(s) + i \in 1 .. Len(s) + Len(t) /\ ~(Len(s) + i <= Len(s))
        /\ (Len(s) + i) - Len(s) = i
    BY <1>1
  <2> QED BY <1>2, <2>1
<1>5. s \o <<>> = s
  BY ConcatEmptySeq
<1> QED BY <1>1, <1>2, <1>3, <1>4, <1>5

\* The message that is read is the payload of the sequence number that was expected,
\* which the peer sent with Ok.
LEMMA MessageSent ==
  ASSUME ReadersInv, NEW e \in Ends, NEW m \in msgs, NEW n \in 1 .. 2,
         NEW peek \in BOOLEAN, ReadMessage(e, m, n, peek)
  PROVE  /\ m.from = Peer(e) /\ m.val = recv_seq[e]
         /\ recv_seq[e] >= FirstSeq(Peer(e)) /\ recv_seq[e] \in sent[Peer(e)]
<1>1. st[e] \in Streams /\ m \in Expected(e)
  BY DEF ReadMessage, MayPoll, HasReader, Open
<1>2. st[e] # "none"
  BY <1>1 DEF Streams
<1>3. m.from = Peer(e) /\ m.tag[2] = recv_seq[e] /\ Addressed(m)
  BY <1>1, <1>2, ExpectedIsPeers, ReadersTypes
<1>4. recv_seq[e] >= FirstSeq(Peer(e)) /\ recv_seq[e] \in Nat
  BY <1>1, ReadersTypes DEF OnlyStreamsRead
<1>5. ~(m.from[2] = "server" /\ m.tag[2] = 0)
  BY <1>3, <1>4 DEF FirstSeq
<1> QED BY <1>3, <1>4, <1>5 DEF Addressed

\* What is appended when a message is read: that payload.
LEMMA MessageRead ==
  ASSUME ReadersInv, NEW e \in Ends, NEW m \in msgs, NEW n \in 1 .. 2,
         NEW peek \in BOOLEAN, ReadMessage(e, m, n, peek)
  PROVE  /\ recv_seq' = [recv_seq EXCEPT ![e] = @ + 1]
         /\ Arrived(e) = rcvd[e] /\ rcvd[e] \in Seq(Unit)
         /\ Arrived(e)' = rcvd[e] \o Payload(Peer(e), recv_seq[e])
         /\ \A f \in Ends \ {e} : Arrived(f)' = Arrived(f)
<1>1. /\ buffer[e] = <<>> /\ recv_seq' = [recv_seq EXCEPT ![e] = @ + 1]
      /\ ReadUnits(e, Payload(m.from, m.val), n, peek)
  BY DEF ReadMessage
<1>2. rcvd[e] \in Seq(Unit) /\ Arrived(e) = rcvd[e]
  BY <1>1, ReadersTypes, UnitsConcat DEF Arrived
<1>3. /\ Payload(Peer(e), recv_seq[e]) \in Seq(Unit)
      /\ Len(Payload(Peer(e), recv_seq[e])) <= 2
  <2>1. Peer(e) \in Ends /\ recv_seq[e] \in Nat
    BY EndFacts, ReadersTypes
  <2> QED BY <2>1, PayloadFacts
<1>4. ReadUnits(e, Payload(Peer(e), recv_seq[e]), n, peek)
  BY <1>1, MessageSent
<1>5. /\ rcvd'[e] \o buffer'[e] = rcvd[e] \o Payload(Peer(e), recv_seq[e])
      /\ \A f \in Ends : f # e => buffer'[f] = buffer[f] /\ rcvd'[f] = rcvd[f]
  BY <1>3, <1>4, UnitsRead, ReadersTypes
<1> QED BY <1>1, <1>2, <1>5 DEF Arrived

\* Reading from the buffer takes and leaves what had arrived.
LEMMA BufferRead ==
  ASSUME ReadersInv, NEW e \in Ends, NEW n \in 1 .. 2, NEW peek \in BOOLEAN,
         ReadBuffered(e, n, peek)
  PROVE  recv_seq' = recv_seq /\ \A f \in Ends : Arrived(f)' = Arrived(f)
<1>1. recv_seq' = recv_seq /\ ReadUnits(e, buffer[e], n, peek)
  BY DEF ReadBuffered
<1>2. buffer[e] \in Seq(Unit) /\ Len(buffer[e]) <= 2
  BY ReadersTypes
<1>3. /\ rcvd'[e] \o buffer'[e] = rcvd[e] \o buffer[e]
      /\ \A f \in Ends : f # e => buffer'[f] = buffer[f] /\ rcvd'[f] = rcvd[f]
  BY <1>1, <1>2, UnitsRead, ReadersTypes
<1> QED BY <1>1, <1>3 DEF Arrived

\* Two units arrive with each sequence number.
LEMMA UnitsCountedStep ==
  ASSUME ReadersInv, [Next]_vars
  PROVE  UnitsCounted'
<1>0. /\ UnitsCounted /\ recv_seq \in [Ends -> Nat]
      /\ \A e \in Ends : FirstSeq(Peer(e)) = (IF e[2] = "client" THEN 1 ELSE 0)
                         /\ FirstSeq(Peer(e)) \in Nat
  BY ReadersTypes, FirstSeqFacts
<1>1. ASSUME recv_seq' = recv_seq, \A e \in Ends : Arrived(e)' = Arrived(e)
      PROVE  UnitsCounted'
  BY <1>0, <1>1 DEF UnitsCounted
<1>2. ASSUME NEW e \in Ends, NEW m \in msgs, NEW n \in 1 .. 2, NEW peek \in BOOLEAN,
             ReadMessage(e, m, n, peek)
      PROVE  UnitsCounted'
  <2> DEFINE p == Payload(Peer(e), recv_seq[e])
  <2>1. p \in Seq(Unit) /\ Len(p) = 2
    BY <1>0, PayloadFacts, EndFacts
  <2>2. /\ recv_seq' = [recv_seq EXCEPT ![e] = @ + 1]
        /\ recv_seq[e] >= FirstSeq(Peer(e)) /\ recv_seq[e] \in Nat
        /\ Arrived(e) = rcvd[e] /\ rcvd[e] \in Seq(Unit) /\ Arrived(e)' = rcvd[e] \o p
        /\ \A f \in Ends \ {e} : Arrived(f)' = Arrived(f)
    BY <1>0, <1>2, MessageRead, MessageSent
  <2> HIDE DEF p
  <2>3. Len(Arrived(e)') = Len(Arrived(e)) + 2
    <3>1. Len(rcvd[e] \o p) = Len(rcvd[e]) + Len(p)
      BY <2>1, <2>2, UnitsConcat, Zenon
    <3> QED BY <2>1, <2>2, <3>1
  <2>4. Len(Arrived(e)) = 2 * (recv_seq[e] - FirstSeq(Peer(e)))
    BY <1>0, <2>2 DEF UnitsCounted
  <2>5. recv_seq'[e] = recv_seq[e] + 1 /\ \A f \in Ends \ {e} : recv_seq'[f] = recv_seq[f]
    BY <1>0, <2>2
  <2>6. Len(Arrived(e)') = 2 * (recv_seq'[e] - FirstSeq(Peer(e)))
        /\ ~(recv_seq'[e] < FirstSeq(Peer(e)))
    BY <1>0, <2>2, <2>3, <2>4, <2>5
  <2> QED BY <1>0, <2>2, <2>5, <2>6 DEF UnitsCounted
<1>3. ASSUME NEW c \in Conns, NEW m \in msgs, Connected(c, m) PROVE UnitsCounted'
  <2> DEFINE e == <<c, "client">>
  <2>1. e \in Ends /\ e[2] = "client"
    BY EndFacts
  <2>2. /\ st[e] = "connecting" /\ UNCHANGED <<buffer, rcvd>>
        /\ recv_seq' = [recv_seq EXCEPT ![e] = @ + 1]
    BY <1>3 DEF Connected
  <2> HIDE DEF e
  <2>3. recv_seq[e] = 0 /\ FirstSeq(Peer(e)) = 1
    BY <1>0, <2>1, <2>2, MessagesTypes, ReadersTypes DEF AnswerFirst
  <2>4. recv_seq'[e] = 1 /\ \A f \in Ends \ {e} : recv_seq'[f] = recv_seq[f]
    BY <1>0, <2>1, <2>2, <2>3
  <2>5. \A f \in Ends : Arrived(f)' = Arrived(f)
    BY <2>2 DEF Arrived
  <2> QED BY <1>0, <2>1, <2>3, <2>4, <2>5 DEF UnitsCounted
<1>4. ASSUME NEW e \in Ends, NEW n \in 1 .. 2, NEW peek \in BOOLEAN,
             ReadBuffered(e, n, peek)
      PROVE  UnitsCounted'
  BY <1>1, <1>4, BufferRead
<1>5. CASE UNCHANGED <<recv_seq, buffer, rcvd>>
  BY <1>1, <1>5 DEF Arrived
<1> QED BY <1>2, <1>3, <1>4, <1>5, ReadCases

\* What arrives is a gapless prefix of what the peer wrote with Ok.
LEMMA InOrderStep ==
  ASSUME ReadersInv, [Next]_vars
  PROVE  InOrder'
<1> DEFINE Right(e, u, i, S) ==
             LET s == FirstSeq(Peer(e)) + (i - 1) \div 2 IN
             u = <<Peer(e), s, 1 + ((i - 1) % 2)>> /\ s \in S
<1>0. \A e \in Ends : \A i \in 1 .. Len(Arrived(e)) : Right(e, Arrived(e)[i], i, sent[Peer(e)])
  BY ReadersTypes DEF InOrder, Arrived
<1>k. \A e \in Ends : sent[Peer(e)] \subseteq sent'[Peer(e)]
  BY ReadersTypes, EndsKept, EndFacts DEF Kept
<1> SUFFICES \A e \in Ends :
               \A i \in 1 .. Len(Arrived(e)') : Right(e, Arrived(e)'[i], i, sent'[Peer(e)])
  BY DEF InOrder, Arrived, FirstSeq, Peer
<1>1. ASSUME NEW e \in Ends, Arrived(e)' = Arrived(e)
      PROVE  \A i \in 1 .. Len(Arrived(e)') : Right(e, Arrived(e)'[i], i, sent'[Peer(e)])
  BY <1>0, <1>1, <1>k
<1>2. ASSUME NEW e \in Ends, NEW m \in msgs, NEW n \in 1 .. 2, NEW peek \in BOOLEAN,
             ReadMessage(e, m, n, peek)
      PROVE  \A i \in 1 .. Len(Arrived(e)') : Right(e, Arrived(e)'[i], i, sent'[Peer(e)])
  <2>1. /\ recv_seq[e] \in Nat /\ FirstSeq(Peer(e)) \in Nat /\ Peer(e) \in Ends
    BY ReadersTypes, FirstSeqFacts, EndFacts
  <2>2. /\ recv_seq[e] >= FirstSeq(Peer(e)) /\ recv_seq[e] \in sent[Peer(e)]
        /\ Arrived(e) = rcvd[e] /\ rcvd[e] \in Seq(Unit)
        /\ Arrived(e)' = rcvd[e] \o Payload(Peer(e), recv_seq[e])
    <3> HIDE DEF Right
    <3>1. Arrived(e)' = rcvd[e] \o Payload(Peer(e), recv_seq[e])
      BY <1>2, MessageRead
    <3>2. recv_seq[e] >= FirstSeq(Peer(e)) /\ recv_seq[e] \in sent[Peer(e)]
      BY <1>2, MessageSent
    <3>3. Arrived(e) = rcvd[e] /\ rcvd[e] \in Seq(Unit)
      BY <1>2, MessageRead
    <3> QED BY <3>1, <3>2, <3>3
  <2> DEFINE p == Payload(Peer(e), recv_seq[e])
             k == recv_seq[e] - FirstSeq(Peer(e))
  <2>3. /\ Arrived(e)' = rcvd[e] \o p /\ p \in Seq(Unit) /\ Len(p) = 2
        /\ p[1] = <<Peer(e), recv_seq[e], 1>> /\ p[2] = <<Peer(e), recv_seq[e], 2>>
    BY <2>1, <2>2, PayloadFacts
  <2>4. k \in Nat /\ FirstSeq(Peer(e)) + k = recv_seq[e] /\ Len(rcvd[e]) = 2 * k
    BY <2>1, <2>2, ReadersTypes DEF UnitsCounted
  <2> HIDE DEF p, k
  <2>5. /\ Len(Arrived(e)') = 2 * k + 2
        /\ \A i \in 1 .. 2 * k : Arrived(e)'[i] = Arrived(e)[i]
        /\ Arrived(e)'[2 * k + 1] = p[1] /\ Arrived(e)'[2 * k + 2] = p[2]
    <3>1. /\ Len(rcvd[e] \o p) = Len(rcvd[e]) + Len(p)
          /\ \A i \in 1 .. Len(rcvd[e]) : (rcvd[e] \o p)[i] = rcvd[e][i]
          /\ \A i \in 1 .. Len(p) : (rcvd[e] \o p)[Len(rcvd[e]) + i] = p[i]
      BY <2>2, <2>3, UnitsConcat, Zenon
    <3>2. Len(Arrived(e)') = 2 * k + 2
      BY <2>2, <2>3, <2>4, <3>1
    <3>3. \A i \in 1 .. 2 * k : Arrived(e)'[i] = Arrived(e)[i]
      BY <2>2, <2>3, <2>4, <3>1
    <3>4. /\ 1 \in 1 .. Len(p) /\ 2 \in 1 .. Len(p)
          /\ Len(rcvd[e]) + 1 = 2 * k + 1 /\ Len(rcvd[e]) + 2 = 2 * k + 2
      BY <2>3, <2>4
    <3>5. Arrived(e)'[2 * k + 1] = p[1] /\ Arrived(e)'[2 * k + 2] = p[2]
      BY <2>2, <2>3, <3>1, <3>4
    <3> QED BY <3>2, <3>3, <3>5
  <2>6. ASSUME NEW i \in 1 .. 2 * k
        PROVE  Right(e, Arrived(e)'[i], i, sent'[Peer(e)])
    BY <1>0, <1>k, <2>2, <2>4, <2>5, <2>6
  <2>7. Right(e, Arrived(e)'[2 * k + 1], 2 * k + 1, sent'[Peer(e)])
    <3>1. (2 * k + 1) - 1 = 2 * k /\ (2 * k) \div 2 = k /\ 1 + ((2 * k) % 2) = 1
      BY <2>4, UnitNumbers
    <3> QED BY <1>k, <2>2, <2>3, <2>4, <2>5, <3>1
  <2>8. Right(e, Arrived(e)'[2 * k + 2], 2 * k + 2, sent'[Peer(e)])
    <3>1. /\ (2 * k + 2) - 1 = 2 * k + 1 /\ (2 * k + 1) \div 2 = k
          /\ 1 + ((2 * k + 1) % 2) = 2
      BY <2>4, UnitNumbers
    <3>2. Arrived(e)'[2 * k + 2] = <<Peer(e), FirstSeq(Peer(e)) + k, 2>>
      BY <2>3, <2>4, <2>5, Zenon
    <3>3. FirstSeq(Peer(e)) + k \in sent'[Peer(e)]
      BY <1>k, <2>2, <2>4
    <3> QED BY <3>1, <3>2, <3>3
  <2>9. \A i \in 1 .. 2 * k + 2 : i \in 1 .. 2 * k \/ i = 2 * k + 1 \/ i = 2 * k + 2
    BY <2>4
  <2> HIDE DEF Right
  <2> QED BY <2>5, <2>6, <2>7, <2>8, <2>9
<1> HIDE DEF Right
<1>3. ASSUME NEW e \in Ends, NEW m \in msgs, NEW n \in 1 .. 2, NEW peek \in BOOLEAN,
             ReadMessage(e, m, n, peek), NEW f \in Ends \ {e}
      PROVE  Arrived(f)' = Arrived(f)
  <2>1. ReadUnits(e, Payload(m.from, m.val), n, peek)
    BY <1>3 DEF ReadMessage
  <2>2. buffer'[f] = buffer[f] /\ rcvd'[f] = rcvd[f]
    BY <2>1, ReadersTypes DEF ReadUnits
  <2> QED BY <2>2 DEF Arrived
<1>4. ASSUME NEW c \in Conns, NEW m \in msgs, Connected(c, m), NEW e \in Ends
      PROVE  Arrived(e)' = Arrived(e)
  BY <1>4 DEF Connected, Arrived
<1>5. CASE UNCHANGED <<recv_seq, buffer, rcvd>>
  BY <1>1, <1>5 DEF Arrived
<1> QED BY <1>1, <1>2, <1>3, <1>4, <1>5, ReadCases, BufferRead

\* The two halves of WaiterNotForgotten: the accept that waits, and the reads.
AcceptNotForgotten == acceptor = Waiting => Connecting = {}
HasWaker(e) == /\ Expected(e) = {}
               /\ \E w \in wakers : w.box = BoxOf(e) /\ w.tag = RecvTag(e) /\ w.end = e
ReadNotForgotten == \A e \in Ends : reading[e] = "waiting" /\ Alive(e) => HasWaker(e)

\* No request slips past an accept that waits.
LEMMA AcceptNotForgottenStep ==
  ASSUME ReadersInv, [Next]_vars
  PROVE  AcceptNotForgotten'
<1>0. AcceptNotForgotten /\ OneListener /\ EndsInv /\ AnsweredHeld /\ TypeOK
  BY ReadersTypes DEF WaiterNotForgotten, AcceptNotForgotten, EndsInv
<1>1. ASSUME acceptor' = Waiting => acceptor = Waiting, msgs' \subseteq msgs, nbound' = nbound
      PROVE  AcceptNotForgotten'
  BY <1>0, <1>1 DEF AcceptNotForgotten, Connecting
<1>2. CASE \/ UNCHANGED vars
           \/ (\E e \in Ends, ok \in BOOLEAN : Write(e, ok))
           \/ (\E e \in Ends : ReadStep(e) \/ CancelRead(e) \/ DropHalf(e))
           \/ (\E c \in Conns, n \in Callers, ok \in BOOLEAN : Connect(c, n, ok))
           \/ (\E c \in Conns, m \in msgs : Connected(c, m))
  <2>1. UNCHANGED <<acceptor, nbound>> /\ msgs' \subseteq msgs
    <3>1. ASSUME NEW e \in Ends, ReadStep(e) \/ CancelRead(e) \/ DropHalf(e)
          PROVE  UNCHANGED <<acceptor, nbound>> /\ msgs' \subseteq msgs
      BY <3>1
      DEF ReadStep, Read, Peek, PollRead, ReadBuffered, ReadMessage, ReadReset, ReadPending,
          CancelRead, DropHalf, Taken, listenVars
    <3>2. ASSUME \/ UNCHANGED vars
                 \/ (\E e \in Ends, ok \in BOOLEAN : Write(e, ok))
                 \/ (\E c \in Conns, n \in Callers, ok \in BOOLEAN : Connect(c, n, ok))
                 \/ (\E c \in Conns, m \in msgs : Connected(c, m))
          PROVE  UNCHANGED <<acceptor, nbound>> /\ msgs' \subseteq msgs
      BY <3>2 DEF vars, Write, Connect, Connected, Taken, listenVars
    <3> QED BY <1>2, <3>1, <3>2
  <2> QED BY <1>1, <2>1
<1>3. CASE AcceptReturns
  BY <1>1, <1>3, FutureFacts DEF AcceptReturns
<1>4. ASSUME NEW E, NEW D, DropEnds(E, D), acceptor' \in {acceptor, NoFuture}
      PROVE  AcceptNotForgotten'
  <2>1. msgs' \subseteq msgs /\ nbound' = nbound
    BY <1>4 DEF DropEnds, CloseSockets
  <2> QED BY <1>1, <1>4, <2>1, FutureFacts
<1>5. CASE \/ DropListener \/ IntoStd \/ \E e \in Ends : Close(e) \/ DropKilled(e)
  BY <1>4, <1>5 DEF DropListener, IntoStd, DropFuture, Close, DropKilled
<1>6. ASSUME NEW c \in Conns, NEW ok \in BOOLEAN, Accept(c, ok)
      PROVE  AcceptNotForgotten'
  BY <1>6, FutureFacts DEF Accept, AcceptNotForgotten
<1>7. CASE PollAccept
  BY <1>7, FutureFacts DEF PollAccept, AcceptNotForgotten, Connecting
<1>8. ASSUME NEW m \in flight, Deliver(m) PROVE AcceptNotForgotten'
  <2>1. CASE ForAcceptor(m) /\ acceptor' = Got(m)
    BY <2>1, FutureFacts DEF AcceptNotForgotten
  <2>2. CASE acceptor' = acceptor /\ msgs' = msgs
    BY <1>1, <1>8, <2>2 DEF Deliver
  <2>3. CASE acceptor' = acceptor /\ ~ForAcceptor(m) /\ msgs' = msgs \cup {m}
    <3>1. nbound' = nbound
      BY <1>8 DEF Deliver
    <3> QED BY <1>0, <2>3, <3>1 DEF AcceptNotForgotten, Connecting, ForAcceptor
  <2> QED BY <1>8, <2>1, <2>2, <2>3 DEF Deliver
<1>9. CASE Listen
  <2>1. acceptor = NoFuture
    BY <1>0, <1>9, BoxFacts DEF Listen, OneListener, Listening
  <2> QED BY <1>9, <2>1, FutureFacts DEF Listen, AcceptNotForgotten
<1>10. ASSUME NEW n \in Crashing, Kill(n) PROVE AcceptNotForgotten'
  BY <1>1, <1>10, FutureFacts DEF Kill, KillListener, CloseSockets
<1> QED
  BY <1>2, <1>3, <1>5, <1>6, <1>7, <1>8, <1>9, <1>10 DEF Next

\* No delivery slips past a read that waits, and its waker is where it is looked for.
LEMMA ReadNotForgottenStep ==
  ASSUME ReadersInv, [Next]_vars
  PROVE  ReadNotForgotten'
<1>0. ReadNotForgotten /\ EndsInv /\ AnsweredHeld /\ TypeOK /\ OnlyStreamsRead
      /\ SocketsBound' /\ RequestsOnce
  BY ReadersTypes, SocketsBoundStep
  DEF WaiterNotForgotten, ReadNotForgotten, HasWaker, EndsInv
<1>1. ASSUME NEW e \in Ends, HasWaker(e), BoxOf(e)' = BoxOf(e), RecvTag(e)' = RecvTag(e),
             msgs' \subseteq msgs,
             \A w \in wakers : w.box = BoxOf(e) /\ w.tag = RecvTag(e) /\ w.end = e =>
                               w \in wakers'
      PROVE  HasWaker(e)'
  BY <1>1 DEF HasWaker, Expected
<1>2. ASSUME \A e \in Ends : reading'[e] = "waiting" /\ Alive(e)' =>
               /\ reading[e] = "waiting" /\ Alive(e)
               /\ BoxOf(e)' = BoxOf(e) /\ RecvTag(e)' = RecvTag(e),
             msgs' \subseteq msgs, wakers \subseteq wakers'
      PROVE  ReadNotForgotten'
  <2> SUFFICES ASSUME NEW e \in Ends, reading'[e] = "waiting", Alive(e)'
               PROVE  HasWaker(e)'
    BY DEF ReadNotForgotten
  <2>1. HasWaker(e) /\ BoxOf(e)' = BoxOf(e) /\ RecvTag(e)' = RecvTag(e)
    BY <1>0, <1>2 DEF ReadNotForgotten
  <2> QED BY <1>1, <1>2, <2>1
<1>3. CASE \/ UNCHANGED vars \/ Listen \/ PollAccept \/ AcceptReturns
           \/ (\E e \in Ends, ok \in BOOLEAN : Write(e, ok))
           \/ (\E e \in Ends : DropHalf(e))
  <2>1. /\ UNCHANGED <<reading, einc, inc, home, lbox, id, recv_seq, wakers>>
        /\ msgs' \subseteq msgs
    BY <1>3
    DEF vars, Listen, PollAccept, AcceptReturns, Taken, Write, DropHalf, streamVars
  <2> QED BY <1>2, <2>1 DEF Alive, Host, BoxOf, RecvTag
<1>4. ASSUME NEW e \in Ends, reading'[e] = "idle",
             \A f \in Ends \ {e} : reading'[f] = reading[f] /\ recv_seq'[f] = recv_seq[f],
             UNCHANGED <<einc, inc, home, lbox, id, wakers>>, msgs' \subseteq msgs
      PROVE  ReadNotForgotten'
  BY <1>2, <1>4 DEF Alive, Host, BoxOf, RecvTag
<1>5. ASSUME NEW e \in Ends,
             \/ CancelRead(e) \/ ReadReset(e)
             \/ \E n \in 1 .. 2, peek \in BOOLEAN :
                  ReadBuffered(e, n, peek) \/ \E m \in msgs : ReadMessage(e, m, n, peek)
      PROVE  ReadNotForgotten'
  <2>1. /\ reading' = [reading EXCEPT ![e] = "idle"]
        /\ recv_seq' = recv_seq \/ recv_seq' = [recv_seq EXCEPT ![e] = @ + 1]
        /\ UNCHANGED <<einc, inc, home, lbox, id, wakers>> /\ msgs' \subseteq msgs
    BY <1>5 DEF CancelRead, ReadReset, ReadBuffered, ReadMessage, Taken, streamVars
  <2> QED BY <1>4, <2>1, ReadersTypes
<1>6. ASSUME NEW e \in Ends, ReadPending(e) PROVE ReadNotForgotten'
  <2> DEFINE w == [box |-> BoxOf(e), tag |-> RecvTag(e), end |-> e]
  <2>1. /\ Expected(e) = {} /\ wakers' = wakers \cup {w}
        /\ UNCHANGED <<einc, inc, home, lbox, id, recv_seq, msgs>>
        /\ reading' = [reading EXCEPT ![e] = "waiting"]
    BY <1>6 DEF ReadPending, RecvReady, streamVars
  <2>2. \A f \in Ends : /\ Alive(f)' <=> Alive(f)
                        /\ BoxOf(f)' = BoxOf(f) /\ RecvTag(f)' = RecvTag(f)
                        /\ Expected(f)' = Expected(f)
    BY <2>1 DEF Alive, Host, BoxOf, RecvTag, Expected
  <2>3. w \in wakers' /\ w.box = BoxOf(e) /\ w.tag = RecvTag(e) /\ w.end = e
    BY <2>1
  <2>4. HasWaker(e)'
    BY <2>1, <2>2, <2>3 DEF HasWaker
  <2>5. \A f \in Ends : HasWaker(f) => HasWaker(f)'
    BY <2>1, <2>2 DEF HasWaker
  <2> QED BY <1>0, <2>1, <2>2, <2>4, <2>5, ReadersTypes DEF ReadNotForgotten
<1>7. ASSUME NEW m \in flight, Deliver(m) PROVE ReadNotForgotten'
  <2> DEFINE W == {w \in wakers : w.box = m.box /\ w.tag = m.tag}
  <2>1. /\ UNCHANGED <<einc, inc, home, lbox, id, recv_seq>>
    BY <1>7 DEF Deliver, streamVars
  <2>2. \A f \in Ends : /\ Alive(f)' <=> Alive(f)
                        /\ BoxOf(f)' = BoxOf(f) /\ RecvTag(f)' = RecvTag(f)
    BY <2>1 DEF Alive, Host, BoxOf, RecvTag
  <2>3. CASE UNCHANGED <<msgs, wakers, reading>>
    BY <1>2, <2>2, <2>3
  <2>4. CASE /\ wakers' = wakers \ W /\ reading' = Woken(W)
             /\ msgs' \subseteq msgs \cup {m}
    <3> SUFFICES ASSUME NEW e \in Ends, reading'[e] = "waiting", Alive(e)'
                 PROVE  HasWaker(e)'
      BY DEF ReadNotForgotten
    <3>1. HasWaker(e) /\ \A w \in W : w.end # e
      BY <1>0, <2>2, <2>4, WokenFacts DEF ReadNotForgotten
    <3>2. PICK w \in wakers : w.box = BoxOf(e) /\ w.tag = RecvTag(e) /\ w.end = e
      BY <3>1 DEF HasWaker
    <3>3. w \in wakers' /\ ~(m.box = BoxOf(e) /\ m.tag = RecvTag(e))
      BY <2>4, <3>1, <3>2
    <3>4. Expected(e)' = {}
      BY <2>2, <2>4, <3>1, <3>3 DEF HasWaker, Expected
    <3> QED BY <2>2, <3>2, <3>3, <3>4 DEF HasWaker
  <2> QED BY <1>7, <2>3, <2>4 DEF Deliver
<1>8. ASSUME NEW E, NEW D, DropStep(E, D) PROVE ReadNotForgotten'
  <2> DEFINE W == UNION {HangupWakers(e) : e \in E}
  <2>1. /\ reading' = [e \in Ends |-> IF e \in E THEN "idle" ELSE Woken(W)[e]]
        /\ wakers' = {w \in wakers \ W : w.box \notin D}
        /\ msgs' \subseteq msgs /\ sockets' = sockets \ D /\ recv_seq' = recv_seq
    BY <1>8 DEF DropStep, DropEnds, CloseSockets, streamVars
  <2>2. \A e \in Ends : /\ Alive(e)' <=> Alive(e)
                        /\ BoxOf(e)' = BoxOf(e) /\ RecvTag(e)' = RecvTag(e)
                        /\ st'[e] = IF e \in E THEN "closed" ELSE st[e]
    BY <1>0, <1>8, <2>1, DropFacts DEF RecvTag
  <2> HIDE DEF W
  <2> SUFFICES ASSUME NEW e \in Ends, reading'[e] = "waiting", Alive(e)'
               PROVE  HasWaker(e)'
    BY DEF ReadNotForgotten
  <2>3. e \notin E /\ reading[e] = "waiting" /\ \A w \in W : w.end # e
    BY <2>1, WokenFacts
  <2>4. st'[e] \in {"open", "reader"}
    BY <1>0, <2>2, <2>3 DEF OnlyStreamsRead
  <2>5. BoxOf(e) \notin D
    BY <1>0, <2>1, <2>2, <2>4 DEF SocketsBound, Registered, Streams
  <2>6. HasWaker(e)
    BY <1>0, <2>2, <2>3 DEF ReadNotForgotten
  <2> QED BY <1>1, <2>1, <2>2, <2>3, <2>5, <2>6
<1>9. ASSUME NEW e \in Ends, reading[e] # "waiting", UNCHANGED <<reading, wakers>>,
             \A f \in Ends \ {e} : /\ Alive(f)' <=> Alive(f)
                                   /\ BoxOf(f)' = BoxOf(f) /\ RecvTag(f)' = RecvTag(f),
             msgs' \subseteq msgs
      PROVE  ReadNotForgotten'
  BY <1>2, <1>9
<1>10. ASSUME NEW c \in Conns, NEW n \in Callers, NEW ok \in BOOLEAN, Connect(c, n, ok)
       PROVE  ReadNotForgotten'
  <2> DEFINE e == <<c, "client">>
  <2>1. UNCHANGED <<reading, wakers, msgs, recv_seq>>
    BY <1>10 DEF Connect, streamVars
  <2>2. /\ e \in Ends /\ st[e] = "none" /\ lbox' = lbox
        /\ \A f \in Ends \ {e} : (Alive(f)' <=> Alive(f)) /\ id'[f] = id[f]
    BY <1>0, <1>10, ConnectFacts DEF Alive
  <2> HIDE DEF e
  <2>3. reading[e] # "waiting"
    BY <1>0, <2>2 DEF OnlyStreamsRead
  <2> QED BY <1>9, <2>1, <2>2, <2>3 DEF BoxOf, RecvTag
<1>11. ASSUME NEW c \in Conns, NEW ok \in BOOLEAN, Accept(c, ok) PROVE ReadNotForgotten'
  <2> DEFINE e == <<c, "server">>
  <2>1. UNCHANGED <<reading, wakers, msgs, recv_seq>>
    BY <1>11 DEF Accept
  <2>2. /\ e \in Ends /\ \A d \in Conns \ {c} : lbox'[d] = lbox[d]
        /\ \A f \in Ends \ {e} : (Alive(f)' <=> Alive(f)) /\ id'[f] = id[f]
    BY <1>0, <1>11, AcceptFacts DEF Alive
  <2>3. st[e] = "none"
    BY <1>0, <1>11, AcceptIsNew
  <2>4. \A f \in Ends \ {e} : f[2] = "client" \/ f[1] \in Conns \ {c}
    BY EndFacts
  <2> HIDE DEF e
  <2>5. reading[e] # "waiting"
    BY <1>0, <2>2, <2>3 DEF OnlyStreamsRead
  <2>6. \A f \in Ends \ {e} : BoxOf(f)' = BoxOf(f)
    BY <2>2, <2>4 DEF BoxOf
  <2> QED BY <1>9, <2>1, <2>2, <2>5, <2>6 DEF RecvTag
<1>12. ASSUME NEW c \in Conns, NEW m \in msgs, Connected(c, m) PROVE ReadNotForgotten'
  <2> DEFINE e == <<c, "client">>
  <2>1. /\ UNCHANGED <<reading, wakers, einc, inc, home, lbox, id>> /\ msgs' \subseteq msgs
        /\ recv_seq' = [recv_seq EXCEPT ![e] = @ + 1] /\ st[e] = "connecting"
    BY <1>12 DEF Connected, Taken
  <2>2. e \in Ends
    BY EndFacts
  <2> HIDE DEF e
  <2>3. reading[e] # "waiting"
    BY <1>0, <2>1, <2>2 DEF OnlyStreamsRead
  <2>4. \A f \in Ends \ {e} : recv_seq'[f] = recv_seq[f]
    BY <2>1, <2>2, ReadersTypes
  <2> QED BY <1>9, <2>1, <2>2, <2>3, <2>4 DEF Alive, Host, BoxOf, RecvTag
<1>13. ASSUME NEW n \in Crashing, Kill(n) PROVE ReadNotForgotten'
  <2>1. /\ UNCHANGED <<reading, id, recv_seq>> /\ msgs' \subseteq msgs
        /\ wakers' = {w \in wakers : BoxHost(w.box) # n}
    BY <1>13 DEF Kill, CloseSockets, streamVars
  <2> SUFFICES ASSUME NEW e \in Ends, reading'[e] = "waiting", Alive(e)'
               PROVE  HasWaker(e)'
    BY DEF ReadNotForgotten
  <2>2. Alive(e) /\ Host(e) # n /\ BoxOf(e)' = BoxOf(e)
    BY <1>0, <1>13, KillFacts
  <2>3. BoxHost(BoxOf(e)) # n /\ RecvTag(e)' = RecvTag(e)
    BY <1>0, <2>1, <2>2, EndBoxes DEF RecvTag
  <2>4. HasWaker(e)
    BY <1>0, <2>1, <2>2 DEF ReadNotForgotten
  <2> QED BY <1>1, <2>1, <2>2, <2>3, <2>4
<1> QED
  BY <1>0, <1>3, <1>5, <1>6, <1>7, <1>8, <1>10, <1>11, <1>12, <1>13, DropSteps
  DEF Next, ReadStep, Read, Peek, PollRead

\* The invariants about readers hold at first, and are kept by every step.
LEMMA ReadersInit == Init => ReadersInv
<1> SUFFICES ASSUME Init PROVE ReadersInv
  OBVIOUS
<1>1. OnlyStreamsRead /\ WaiterNotForgotten
  BY FutureFacts DEF Init, OnlyStreamsRead, WaiterNotForgotten, Streams, Connecting
<1>2. \A e \in Ends : Arrived(e) = <<>> /\ Len(Arrived(e)) = 0 /\ recv_seq[e] = 0
  BY UnitsConcat DEF Init, Arrived
<1>3. UnitsCounted
  BY <1>2, FirstSeqFacts DEF UnitsCounted
<1>4. InOrder
  <2>1. \A e \in Ends : \A i \in 1 .. Len(rcvd[e] \o buffer[e]) : FALSE
    <3> SUFFICES ASSUME NEW e \in Ends, NEW i \in 1 .. Len(rcvd[e] \o buffer[e])
                 PROVE  FALSE
      OBVIOUS
    <3>1. Len(rcvd[e] \o buffer[e]) = 0
      BY <1>2, Zenon DEF Arrived
    <3>2. i \in 1 .. 0
      BY <3>1, Zenon
    <3> QED BY <3>2
  <2> QED BY <2>1, Zenon DEF InOrder
<1> QED BY <1>1, <1>3, <1>4, MessagesInit DEF ReadersInv

\* Every step keeps the whole invariant.
LEMMA ReadersStep == ReadersInv /\ [Next]_vars => ReadersInv'
<1> SUFFICES ASSUME ReadersInv, [Next]_vars PROVE ReadersInv'
  OBVIOUS
<1>1. MessagesInv'
  BY MessagesStep DEF ReadersInv
<1>2. OnlyStreamsRead' /\ UnitsCounted' /\ InOrder'
  BY OnlyStreamsReadStep, UnitsCountedStep, InOrderStep
<1>3. WaiterNotForgotten'
  BY AcceptNotForgottenStep, ReadNotForgottenStep
  DEF WaiterNotForgotten, AcceptNotForgotten, ReadNotForgotten, HasWaker
<1> QED BY <1>1, <1>2, <1>3 DEF ReadersInv

-----------------------------------------------------------------------------
(* The theorems.                                                            *)

\* All of the invariants hold in every behaviour.
THEOREM TcpInvariant == Spec => []ReadersInv
BY ReadersInit, ReadersStep, PTL DEF Spec

\* Network and streams stay in their types; an end never buffers more than one
\* payload.
THEOREM TcpTypeCorrect == Spec => []TypeOK
<1>1. ReadersInv => TypeOK
  BY ReadersTypes
<1> QED BY <1>1, TcpInvariant, PTL

\* The asserts of register_tcp_id and deregister_tcp_id hold whatever is killed and
\* restarted between: the registered ids are those of the ends not dropped yet.
THEOREM IdsStayRegistered == Spec => []IdsRegistered
<1>1. ReadersInv => IdsRegistered
  BY ReadersTypes DEF EndsInv
<1> QED BY <1>1, TcpInvariant, PTL

\* Dropping streams, listeners and killed tasks never closes a port that a living
\* stream or listener still uses.
THEOREM OpenStaysBound == Spec => []BoundWhileOpen
<1>1. ReadersInv => BoundWhileOpen
  <2> SUFFICES ASSUME ReadersInv PROVE BoundWhileOpen
    OBVIOUS
  <2>1. SocketsBound /\ OneListener
    BY ReadersTypes DEF EndsInv
  <2> QED BY <2>1 DEF BoundWhileOpen, SocketsBound, OneListener, Open, Registered
<1> QED BY <1>1, TcpInvariant, PTL

\* In a mailbox that many streams share, an end finds what its own peer sent, and
\* nothing else.
THEOREM StreamsDoNotMix == Spec => []NoCrossTalk
<1>1. ReadersInv => NoCrossTalk
  <2> SUFFICES ASSUME ReadersInv, NEW e \in Ends, Open(e), NEW m \in Expected(e)
               PROVE  m.from = Peer(e)
    BY DEF NoCrossTalk
  <2>1. st[e] # "none"
    BY DEF Open, Streams
  <2> QED BY <2>1, ExpectedIsPeers, ReadersTypes
<1> QED BY <1>1, TcpInvariant, PTL

\* Whatever overtakes what, an end reads a gapless prefix of what its peer wrote.
THEOREM ReadsInOrder == Spec => []InOrder
<1>1. ReadersInv => InOrder
  BY ReadersTypes
<1> QED BY <1>1, TcpInvariant, PTL

\* No reader and no accept is left waiting for a message that is in its mailbox
\* already, or without the waker that the message will look for.
THEOREM WaitersKeepTheirWakers == Spec => []WaiterNotForgotten
<1>1. ReadersInv => WaiterNotForgotten
  BY ReadersTypes
<1> QED BY <1>1, TcpInvariant, PTL

=============================================================================
