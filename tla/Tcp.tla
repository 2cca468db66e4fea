-------------------------------- MODULE Tcp --------------------------------
(***************************************************************************)
(* Simulated TCP: the streams of msim-tokio (net.rs) over the tagged       *)
(* mailboxes of msim's network (network.rs) and its endpoints (mod.rs).    *)
(*                                                                         *)
(* Each end of a connection has a tcp id, unique in the simulation.  A     *)
(* message carries the tag <<id of the receiving end, sequence number>>;   *)
(* messages are delivered in any order into the mailbox of the receiver's  *)
(* socket, and a reader takes the one whose tag it expects next.  The ends *)
(* accepted by a listener share the listener's socket, and so its mailbox. *)
(*                                                                         *)
(* Node Server listens on one port.  A connection attempt is a member of   *)
(* Conns; its client end has a socket of its own, on a port that is not    *)
(* handed out twice.  A payload consists of two units, so that a read may  *)
(* take half of it.                                                        *)
(*                                                                         *)
(* A TcpListener keeps the future of poll_accept_internal in its Poller:   *)
(* accept may be given up and called again, the future stays.  It waits    *)
(* for a message through a one-shot channel registered in the mailbox.     *)
(* connect does so too, but on a mailbox of its own that goes when it is   *)
(* given up: there the channel is not told from the mailbox.               *)
(*                                                                         *)
(* A kill of a node stands for a kill followed sooner or later by the      *)
(* restart; the tasks of the killed incarnation, and with them their ends, *)
(* are dropped at some later time.  A send may fail for reasons of the     *)
(* network (clogged nodes and links, tcp_packet_loss).                     *)
(***************************************************************************)
EXTENDS Naturals, Sequences

CONSTANTS
  Conns,      \* connection attempts
  Nodes, Server,
  Callers,    \* bound: the nodes that connect
  Crashing,   \* bound: the nodes that are killed
  Writing,    \* bound: the sides of a connection that write, to be read by the other
  Splitting,  \* bound: the sides of a connection that are split into halves
  MaxInc,     \* bound: kills of a node
  MaxSeq,     \* bound: sequence numbers used by an end
  MaxListen   \* bound: listeners bound one after the other

ASSUME TcpAssumption ==
  /\ Server \in Nodes /\ Callers \subseteq Nodes /\ Crashing \subseteq Nodes
  /\ Writing \cup Splitting \subseteq {"client", "server"}
  /\ MaxInc \in Nat /\ MaxSeq \in Nat /\ MaxListen \in Nat

Ends == Conns \X {"client", "server"}
Peer(e) == <<e[1], IF e[2] = "client" THEN "server" ELSE "client">>

VARIABLES
  next_tcp_id,
  inc,          \* inc[n]: incarnation of node n
  home,         \* home[c]: node of the client end
  nbound,       \* listeners bound so far
  accepting,    \* the TcpListener of the last one exists
  acceptor,     \* the future in its Poller
  sockets,      \* mailboxes in the sockets of all nodes
  live,         \* live_tcp_ids: <<node, tcp id>>
  st, einc,     \* stage and incarnation of each end
  id, rid,      \* local_tcp_id, remote_tcp_id
  send_seq, recv_seq,
  buffer,       \* TcpStream.buffer
  reading,      \* what the task that reads from the end does
  lbox,         \* lbox[c]: listener that accepted c
  flight,       \* messages whose delivery timer is pending
  msgs,         \* Mailbox.msgs of all mailboxes
  wakers,       \* Mailbox.wakers of all mailboxes
  sent,         \* sent[e]: sequence numbers of the payloads e sent with Ok
  rcvd          \* rcvd[e]: units read from e

listenVars == <<nbound, accepting, acceptor>>
vars == <<next_tcp_id, inc, home, listenVars, sockets, live, st, einc, id, rid,
          send_seq, recv_seq, buffer, reading, lbox, flight, msgs, wakers, sent, rcvd>>
streamVars == <<rid, send_seq, recv_seq, buffer, sent, rcvd>>

ClientBox(c) == <<"stream", c>>
ListenBox(k) == <<"listener", k>>
Boxes == {ClientBox(c) : c \in Conns} \cup {ListenBox(k) : k \in 1 .. MaxListen}

Host(e) == IF e[2] = "client" THEN home[e[1]] ELSE Server
BoxHost(b) == IF b[1] = "stream" THEN home[b[2]] ELSE Server
BoxOf(e) == IF e[2] = "client" THEN ClientBox(e[1]) ELSE ListenBox(lbox[e[1]])
Alive(e) == einc[e] = inc[Host(e)]

\* The mailbox now bound at the address of e's peer: none or one.
RemoteBox(e) ==
  IF e[2] = "client" THEN {b \in sockets : b[1] = "listener"}
  ELSE {ClientBox(e[1])} \cap sockets

Unit == Ends \X Nat \X {1, 2}
Payload(e, s) == << <<e, s, 1>>, <<e, s, 2>> >>

\* A tag is <<tcp id of the receiving end, sequence number>>; ConnectTag is reserved.
ConnectTag == <<0, 0>>
Message == [box : Boxes, tag : Nat \X (0 .. MaxSeq), ty : {"TcpId", "Payload"},
            from : Ends, val : Nat]

\* The accept future: there is none; it waits for a connection; it has the message of
\* one; it has answered it, with an end of its own.
NoFuture == <<"none">>
Waiting == <<"waiting">>
Got(m) == <<"got", m>>
Answered(e) == <<"answered", e>>

Waker == [box : Boxes, tag : Nat \X Nat, end : Ends]

Init ==
  /\ next_tcp_id = 1
  /\ inc = [n \in Nodes |-> 0]
  /\ home = [c \in Conns |-> Server]
  /\ nbound = 0 /\ accepting = FALSE /\ acceptor = NoFuture
  /\ sockets = {} /\ live = {}
  /\ st = [e \in Ends |-> "none"]
  /\ einc = [e \in Ends |-> 0]
  /\ id = [e \in Ends |-> 0] /\ rid = [e \in Ends |-> 0]
  /\ send_seq = [e \in Ends |-> 0] /\ recv_seq = [e \in Ends |-> 0]
  /\ buffer = [e \in Ends |-> <<>>]
  /\ reading = [e \in Ends |-> "idle"]
  /\ lbox = [c \in Conns |-> 0]
  /\ flight = {} /\ msgs = {} /\ wakers = {}
  /\ sent = [e \in Ends |-> {}]
  /\ rcvd = [e \in Ends |-> <<>>]

-----------------------------------------------------------------------------
(* Mailboxes.                                                               *)

\* Network::send once nothing speaks against it: a timer of the receiver's node.
Send(b, tag, ty, e, v) ==
  flight' = flight \cup {[box |-> b, tag |-> tag, ty |-> ty, from |-> e, val |-> v]}

\* The wakers W are taken out and woken.
Woken(W) ==
  [e \in Ends |-> IF reading[e] = "waiting" /\ \E w \in W : w.end = e
                  THEN "woken" ELSE reading[e]]

\* A message is taken out of its mailbox.
Taken(m) == msgs \ {m}

\* The sockets D are closed: their mailboxes go with what they hold.
CloseSockets(D) ==
  /\ sockets' = sockets \ D
  /\ msgs' = {m \in msgs : m.box \notin D}

\* What recv_from_raw finds, and where the one-shot of the accept future belongs.
Connecting == {m \in msgs : m.box = ListenBox(nbound) /\ m.tag = ConnectTag}
ForAcceptor(m) == acceptor = Waiting /\ m.box = ListenBox(nbound) /\ m.tag = ConnectTag

\* Mutant: the message is saved and nobody is woken.
DeliverSilently(m) ==
  /\ m \in flight
  /\ flight' = flight \ {m}
  /\ msgs' = IF m.box \in sockets THEN msgs \cup {m} ELSE msgs
  /\ UNCHANGED <<next_tcp_id, inc, home, listenVars, sockets, live, st, einc, id,
                 lbox, wakers, reading, streamVars>>

\* The timer of a message fires (Mailbox::deliver): the wakers of its tag are woken,
\* and it goes to who is registered for it or is saved.  The mailbox may be gone.
Deliver(m) ==
  LET W == {w \in wakers : w.box = m.box /\ w.tag = m.tag} IN
  /\ m \in flight
  /\ flight' = flight \ {m}
  /\ IF m.box \in sockets
     THEN /\ wakers' = wakers \ W
          /\ reading' = Woken(W)
          /\ IF ForAcceptor(m) THEN acceptor' = Got(m) /\ UNCHANGED msgs
             ELSE msgs' = msgs \cup {m} /\ UNCHANGED acceptor
     ELSE UNCHANGED <<msgs, wakers, reading, acceptor>>
  /\ UNCHANGED <<next_tcp_id, inc, home, nbound, accepting, sockets, live, st,
                 einc, id, lbox, streamVars>>

\* The wakers that Network::deregister_tcp_id wakes when e is dropped: in the
\* mailbox of the peer, those whose tag has the tcp id of e.
HangupWakers(e) == {w \in wakers : w.box \in RemoteBox(e) /\ w.tag[1] = id[e]}

-----------------------------------------------------------------------------
(* Listener, connect, accept.                                               *)

Listening == {b \in sockets : b[1] = "listener"}

\* TcpListener::bind in a task of the server's current incarnation.
Listen ==
  /\ Listening = {} /\ nbound < MaxListen
  /\ nbound' = nbound + 1
  /\ accepting' = TRUE
  /\ sockets' = sockets \cup {ListenBox(nbound + 1)}
  /\ UNCHANGED <<next_tcp_id, inc, home, acceptor, live, st, einc, id, reading, lbox,
                 flight, msgs, wakers, streamVars>>

\* What a stream is: whole, or the one half that is left of it.
Streams == {"open", "reader", "writer"}
Accepted(k) == {e \in Ends : e[2] = "server" /\ lbox[e[1]] = k /\ st[e] \in Streams}

\* TcpState::drop of the ends in E: deregister_tcp_id, which wakes the peer; then the
\* endpoints, and with them the sockets D.
DropEnds(E, D) ==
  LET W == UNION {HangupWakers(e) : e \in E} IN
  /\ st' = [e \in Ends |-> IF e \in E THEN "closed" ELSE st[e]]
  /\ live' = live \ {<<Host(e), id[e]>> : e \in E}
  /\ reading' = [e \in Ends |-> IF e \in E THEN "idle" ELSE Woken(W)[e]]
  /\ CloseSockets(D)
  /\ wakers' = {w \in wakers \ W : w.box \notin D}
  /\ UNCHANGED <<next_tcp_id, inc, home, nbound, einc, id, lbox, flight, streamVars>>

\* The accept future is dropped: with the end it has answered with, and with the
\* message it has taken, which nobody will answer.
FutureEnds == IF acceptor[1] = "answered" THEN {acceptor[2]} ELSE {}
DropFuture(D) == DropEnds(FutureEnds, D) /\ acceptor' = NoFuture

\* The listener is dropped; its socket lives on while accepted streams hold the
\* endpoint.
DropListener ==
  /\ accepting
  /\ accepting' = FALSE
  /\ DropFuture(IF Accepted(nbound) = {} THEN Listening ELSE {})

\* into_std, and from_std again: the Poller of the new TcpListener is empty.
IntoStd ==
  /\ accepting /\ acceptor # NoFuture
  /\ DropFuture({})
  /\ UNCHANGED accepting

\* Endpoint::allocate_local_tcp_id, without the registration.
AllocateId(e) ==
  /\ id' = [id EXCEPT ![e] = next_tcp_id]
  /\ next_tcp_id' = next_tcp_id + 1

\* Network::register_tcp_id.
Register(n) == live' = live \cup {<<n, next_tcp_id>>}

\* TcpStream::connect up to the await of the answer: bind, allocate an id, send it
\* to the listener under tag 0.  If that send fails everything is dropped again.
Connect(c, n, ok) ==
  LET e == <<c, "client">> IN
  /\ st[e] = "none"
  /\ home' = [home EXCEPT ![c] = n]
  /\ einc' = [einc EXCEPT ![e] = inc[n]]
  /\ AllocateId(e)
  /\ IF ok
     THEN \E b \in Listening :
            /\ st' = [st EXCEPT ![e] = "connecting"]
            /\ Register(n)
            /\ sockets' = sockets \cup {ClientBox(c)}
            /\ Send(b, ConnectTag, "TcpId", e, next_tcp_id)
     ELSE /\ st' = [st EXCEPT ![e] = "closed"]
          /\ UNCHANGED <<live, sockets, flight>>
  /\ UNCHANGED <<inc, listenVars, reading, lbox, msgs, wakers, streamVars>>

\* poll_accept when there is no future: it looks into the mailbox and registers, or
\* takes a message.
PollAccept ==
  /\ accepting /\ acceptor = NoFuture
  /\ IF Connecting = {} THEN acceptor' = Waiting /\ UNCHANGED msgs
     ELSE \E m \in Connecting : acceptor' = Got(m) /\ msgs' = Taken(m)
  /\ UNCHANGED <<next_tcp_id, inc, home, nbound, accepting, sockets, live, st, einc,
                 id, reading, lbox, flight, wakers, streamVars>>

\* poll_accept_internal after the delay of recv_from_raw: allocate an id and send it
\* back with the first sequence number; if that fails the new state is dropped.
Accept(c, ok) ==
  LET e == <<c, "server">>
      m == acceptor[2]
  IN
  /\ accepting /\ acceptor[1] = "got" /\ m.from[1] = c
  /\ AllocateId(e)
  /\ rid' = [rid EXCEPT ![e] = m.val]
  /\ einc' = [einc EXCEPT ![e] = inc[Server]]
  /\ lbox' = [lbox EXCEPT ![c] = nbound]
  /\ send_seq' = [send_seq EXCEPT ![e] = 1]
  /\ IF ok
     THEN /\ ClientBox(c) \in sockets
          /\ acceptor' = Answered(e)
          /\ st' = [st EXCEPT ![e] = "answered"]
          /\ Register(Server)
          /\ Send(ClientBox(c), <<m.val, 0>>, "TcpId", e, next_tcp_id)
     ELSE /\ acceptor' = NoFuture
          /\ st' = [st EXCEPT ![e] = "closed"]
          /\ UNCHANGED <<live, flight>>
  /\ UNCHANGED <<inc, home, nbound, accepting, sockets, recv_seq, buffer, reading,
                 msgs, wakers, sent, rcvd>>

\* After the delay of send_to_raw, accept returns the stream.
AcceptReturns ==
  /\ accepting /\ acceptor[1] = "answered"
  /\ acceptor' = NoFuture
  /\ st' = [st EXCEPT ![acceptor[2]] = "open"]
  /\ UNCHANGED <<next_tcp_id, inc, home, nbound, accepting, sockets, live, einc, id,
                 reading, lbox, flight, msgs, wakers, streamVars>>

SendTag(e) == <<rid[e], send_seq[e]>>
RecvTag(e) == <<id[e], recv_seq[e]>>

\* connect receives the answer.
Connected(c, m) ==
  LET e == <<c, "client">> IN
  /\ st[e] = "connecting" /\ Alive(e)
  /\ m \in msgs /\ m.box = ClientBox(c) /\ m.tag = RecvTag(e)
  /\ st' = [st EXCEPT ![e] = "open"]
  /\ rid' = [rid EXCEPT ![e] = m.val]
  /\ recv_seq' = [recv_seq EXCEPT ![e] = @ + 1]
  /\ msgs' = Taken(m)
  /\ UNCHANGED <<next_tcp_id, inc, home, listenVars, sockets, live, einc, id,
                 send_seq, buffer, reading, lbox, flight, wakers, sent, rcvd>>

-----------------------------------------------------------------------------
(* Streams.                                                                 *)

Open(e) == st[e] \in Streams /\ Alive(e)
HasReader(e) == Open(e) /\ st[e] # "writer"
HasWriter(e) == Open(e) /\ st[e] # "reader"
PeerLive(e) == <<Host(Peer(e)), rid[e]>> \in live

\* poll_write: the sequence number is used up even if the send fails.
Write(e, ok) ==
  /\ HasWriter(e) /\ e[2] \in Writing /\ send_seq[e] <= MaxSeq
  /\ send_seq' = [send_seq EXCEPT ![e] = @ + 1]
  /\ IF ok
     THEN /\ PeerLive(e)
          /\ \E b \in RemoteBox(e) : Send(b, SendTag(e), "Payload", e, send_seq[e])
          /\ sent' = [sent EXCEPT ![e] = @ \cup {send_seq[e]}]
     ELSE UNCHANGED <<flight, sent>>
  /\ UNCHANGED <<next_tcp_id, inc, home, listenVars, sockets, live, st, einc,
                 id, rid, recv_seq, buffer, reading, lbox, msgs, wakers, rcvd>>

\* A task polls e for reading: on its own account, or because it was woken.
MayPoll(e) == HasReader(e) /\ Peer(e)[2] \in Writing /\ reading[e] # "waiting"

\* Buffer::read of at most n units; a peek leaves them in the buffer.
ReadUnits(e, units, n, peek) ==
  LET k == IF n <= Len(units) THEN n ELSE Len(units) IN
  /\ buffer' = [buffer EXCEPT ![e] = IF peek THEN units ELSE SubSeq(units, k + 1, Len(units))]
  /\ rcvd' = [rcvd EXCEPT ![e] = IF peek THEN @ ELSE @ \o SubSeq(units, 1, k)]

\* poll_read: something is left in the buffer.
ReadBuffered(e, n, peek) ==
  /\ MayPoll(e) /\ buffer[e] # <<>>
  /\ ReadUnits(e, buffer[e], n, peek)
  /\ reading' = [reading EXCEPT ![e] = "idle"]
  /\ UNCHANGED <<next_tcp_id, inc, home, listenVars, sockets, live, st, einc,
                 id, rid, send_seq, recv_seq, lbox, flight, msgs, wakers, sent>>

\* poll_read: the peer has hung up; looked at before the mailbox is.
ReadReset(e) ==
  /\ MayPoll(e) /\ buffer[e] = <<>> /\ ~PeerLive(e)
  /\ reading' = [reading EXCEPT ![e] = "idle"]
  /\ UNCHANGED <<next_tcp_id, inc, home, listenVars, sockets, live, st, einc,
                 id, lbox, flight, msgs, wakers, streamVars>>

\* Mutant: only the tcp id of the tag is compared.
ExpectedAnySeq(e) == {m \in msgs : m.box = BoxOf(e) /\ m.tag[1] = id[e]}

\* The messages that match the tag e expects next.
Expected(e) == {m \in msgs : m.box = BoxOf(e) /\ m.tag = RecvTag(e)}

RecvReady(e) == Expected(e) # {}

\* poll_read: the expected message is there.
ReadMessage(e, m, n, peek) ==
  /\ MayPoll(e) /\ buffer[e] = <<>> /\ PeerLive(e)
  /\ m \in Expected(e)
  /\ msgs' = Taken(m)
  /\ recv_seq' = [recv_seq EXCEPT ![e] = @ + 1]
  /\ ReadUnits(e, Payload(m.from, m.val), n, peek)
  /\ reading' = [reading EXCEPT ![e] = "idle"]
  /\ UNCHANGED <<next_tcp_id, inc, home, listenVars, sockets, live, st, einc,
                 id, rid, send_seq, lbox, flight, wakers, sent>>

\* Mutant: the waker is registered under the tag after the expected one.
ReadPendingNextTag(e) ==
  /\ MayPoll(e) /\ buffer[e] = <<>> /\ PeerLive(e) /\ ~RecvReady(e)
  /\ wakers' = wakers \cup {[box |-> BoxOf(e), tag |-> <<id[e], recv_seq[e] + 1>>,
                             end |-> e]}
  /\ reading' = [reading EXCEPT ![e] = "waiting"]
  /\ UNCHANGED <<next_tcp_id, inc, home, listenVars, sockets, live, st, einc,
                 id, lbox, flight, msgs, streamVars>>

\* poll_read: nothing there; the waker is left in the mailbox.
ReadPending(e) ==
  /\ MayPoll(e) /\ buffer[e] = <<>> /\ PeerLive(e) /\ ~RecvReady(e)
  /\ wakers' = wakers \cup {[box |-> BoxOf(e), tag |-> RecvTag(e), end |-> e]}
  /\ reading' = [reading EXCEPT ![e] = "waiting"]
  /\ UNCHANGED <<next_tcp_id, inc, home, listenVars, sockets, live, st, einc,
                 id, lbox, flight, msgs, streamVars>>

\* The read is given up (a timeout, another branch of a select!).
CancelRead(e) ==
  /\ Open(e) /\ reading[e] # "idle"
  /\ reading' = [reading EXCEPT ![e] = "idle"]
  /\ UNCHANGED <<next_tcp_id, inc, home, listenVars, sockets, live, st, einc,
                 id, lbox, flight, msgs, wakers, streamVars>>

PollRead(e, peek) ==
  \/ \E n \in 1 .. 2 :
       ReadBuffered(e, n, peek) \/ \E m \in msgs : ReadMessage(e, m, n, peek)
  \/ ReadReset(e) \/ ReadPending(e)

Read(e) == PollRead(e, FALSE)
Peek(e) == PollRead(e, TRUE)
ReadStep(e) == Read(e) \/ Peek(e)

\* The sockets an end takes with it: its own, or the listener's if nobody else
\* holds that endpoint.
SocketsDropped(e) ==
  IF e[2] = "client" THEN {ClientBox(e[1])}
  ELSE IF ~accepting /\ Accepted(lbox[e[1]]) = {e} THEN {BoxOf(e)} ELSE {}

\* into_split, and one half is dropped: the peer is not told, whichever it is
\* (_shutdown_on_drop is not looked at).
DropHalf(e) ==
  /\ st[e] = "open" /\ Alive(e) /\ e[2] \in Splitting
  /\ \/ st' = [st EXCEPT ![e] = "reader"]
     \/ reading[e] = "idle" /\ st' = [st EXCEPT ![e] = "writer"]
  /\ UNCHANGED <<next_tcp_id, inc, home, listenVars, sockets, live, einc, id, reading,
                 lbox, flight, msgs, wakers, streamVars>>

\* A living task drops the stream, or what is left of it (or gives up a connect).
Close(e) ==
  /\ st[e] \in Streams \cup {"connecting"} /\ Alive(e)
  /\ DropEnds({e}, SocketsDropped(e))
  /\ UNCHANGED <<accepting, acceptor>>

Registered == Streams \cup {"connecting", "answered"}

\* Mutant: Endpoint::drop closes the port although the task was killed.
DropKilledCloses(e) ==
  /\ st[e] \in Registered /\ ~Alive(e)
  /\ DropEnds({e}, IF e[2] = "server" THEN Listening ELSE {})
  /\ UNCHANGED <<accepting, acceptor>>

\* The executor drops a task of a killed incarnation; Endpoint::drop returns early
\* then, and the sockets are gone already.
DropKilled(e) ==
  /\ st[e] \in Registered /\ ~Alive(e)
  /\ DropEnds({e}, {})
  /\ UNCHANGED <<accepting, acceptor>>

-----------------------------------------------------------------------------
\* The listener of a killed task is used no more; what it holds is dropped later.
KillListener(n) ==
  /\ accepting' = (accepting /\ n # Server)
  /\ acceptor' = IF n = Server THEN NoFuture ELSE acceptor

\* Mutant: resetting a node starts the tcp ids over.
KillReusesIds(n) ==
  /\ inc[n] < MaxInc
  /\ inc' = [inc EXCEPT ![n] = @ + 1]
  /\ KillListener(n)
  /\ CloseSockets({b \in sockets : BoxHost(b) = n})
  /\ flight' = {m \in flight : BoxHost(m.box) # n}
  /\ wakers' = {w \in wakers : BoxHost(w.box) # n}
  /\ next_tcp_id' = 1
  /\ UNCHANGED <<home, nbound, live, st, einc, id, reading, lbox, streamVars>>

\* Mutant: resetting a node forgets its tcp ids.
KillForgetsIds(n) ==
  /\ inc[n] < MaxInc
  /\ inc' = [inc EXCEPT ![n] = @ + 1]
  /\ KillListener(n)
  /\ CloseSockets({b \in sockets : BoxHost(b) = n})
  /\ flight' = {m \in flight : BoxHost(m.box) # n}
  /\ wakers' = {w \in wakers : BoxHost(w.box) # n}
  /\ live' = {l \in live : l[1] # n}
  /\ UNCHANGED <<next_tcp_id, home, nbound, st, einc, id, reading, lbox, streamVars>>

\* Handle::kill (restart): the timers of n are cancelled, its sockets cleared; its
\* tcp ids stay registered until the killed tasks are dropped.
Kill(n) ==
  /\ inc[n] < MaxInc
  /\ inc' = [inc EXCEPT ![n] = @ + 1]
  /\ KillListener(n)
  /\ CloseSockets({b \in sockets : BoxHost(b) = n})
  /\ flight' = {m \in flight : BoxHost(m.box) # n}
  /\ wakers' = {w \in wakers : BoxHost(w.box) # n}
  /\ UNCHANGED <<next_tcp_id, home, nbound, live, st, einc, id, reading, lbox,
                 streamVars>>

Next ==
  \/ Listen \/ DropListener \/ IntoStd \/ PollAccept \/ AcceptReturns
  \/ \E c \in Conns, n \in Callers, ok \in BOOLEAN : Connect(c, n, ok)
  \/ \E c \in Conns, ok \in BOOLEAN : Accept(c, ok)
  \/ \E c \in Conns, m \in msgs : Connected(c, m)
  \/ \E m \in flight : Deliver(m)
  \/ \E e \in Ends, ok \in BOOLEAN : Write(e, ok)
  \/ \E e \in Ends : ReadStep(e) \/ CancelRead(e) \/ DropHalf(e) \/ Close(e) \/ DropKilled(e)
  \/ \E n \in Crashing : Kill(n)

Spec == Init /\ [][Next]_vars

\* Timers fire in the order of their deadlines and all of them do; the executor polls
\* what was woken and drops the tasks of killed incarnations.
Fairness ==
  /\ \A f \in Ends, s \in 0 .. MaxSeq, ty \in {"TcpId", "Payload"} :
       WF_vars(\E m \in flight : m.from = f /\ m.tag[2] = s /\ m.ty = ty /\ Deliver(m))
  /\ \A e \in Ends : /\ WF_vars(reading[e] = "woken" /\ ReadStep(e))
                     /\ WF_vars(DropKilled(e))

FairSpec == Spec /\ Fairness

-----------------------------------------------------------------------------
(* Properties.                                                              *)

\* Type correctness of the network and of the streams; a stream buffers at most one
\* payload, for poll_read_priv looks at the mailbox only when its buffer is empty.
TypeOK ==
  /\ next_tcp_id \in Nat \ {0}
  /\ inc \in [Nodes -> 0 .. MaxInc] /\ home \in [Conns -> Nodes]
  /\ nbound \in 0 .. MaxListen /\ accepting \in BOOLEAN
  /\ acceptor \in {NoFuture, Waiting} \cup ({"got"} \X Message)
                   \cup ({"answered"} \X Ends)
  /\ sockets \subseteq Boxes /\ live \subseteq Nodes \X Nat
  /\ st \in [Ends -> Registered \cup {"none", "closed"}]
  /\ einc \in [Ends -> 0 .. MaxInc]
  /\ id \in [Ends -> Nat] /\ rid \in [Ends -> Nat]
  /\ send_seq \in [Ends -> 0 .. MaxSeq + 1] /\ recv_seq \in [Ends -> 0 .. MaxSeq + 1]
  /\ buffer \in [Ends -> Seq(Unit)] /\ \A e \in Ends : Len(buffer[e]) <= 2
  /\ reading \in [Ends -> {"idle", "waiting", "woken"}]
  /\ lbox \in [Conns -> 0 .. MaxListen]
  /\ flight \subseteq Message /\ msgs \subseteq Message /\ wakers \subseteq Waker
  /\ sent \in [Ends -> SUBSET (0 .. MaxSeq)]
  /\ rcvd \in [Ends -> Seq(Unit)]

\* The asserts of register_tcp_id and deregister_tcp_id hold when a stream is dropped
\* at last, however many kills and restarts of its node lie between: the ids that
\* are registered are the ids of the ends that have not been dropped.
IdsRegistered ==
  live = {<<Host(e), id[e]>> : e \in {f \in Ends : st[f] \in Registered}}

\* A stream or a listener that can still be used has its socket (send, recv_ready and
\* recv_sync index Node.sockets and would panic): dropping the streams of a killed
\* incarnation does not close the port its successor has bound again.
BoundWhileOpen ==
  /\ \A e \in Ends : Open(e) => BoxOf(e) \in sockets
  /\ accepting => ListenBox(nbound) \in sockets

\* A mailbox is shared by all streams of a listener, and a port by the listeners bound
\* to it one after the other: whatever an end would take out of its mailbox was
\* sent by the other end of its own connection (debug_assert_eq!(from, remote_sock)).
NoCrossTalk ==
  \A e \in Ends : Open(e) => \A m \in Expected(e) : m.from = Peer(e)

\* What an end has read and buffered is a gapless prefix of what its peer wrote, every
\* write of which was acknowledged with Ok, although messages overtake each other.
FirstSeq(e) == IF e[2] = "server" THEN 1 ELSE 0
InOrder ==
  \A e \in Ends : LET got == rcvd[e] \o buffer[e] IN
    \A i \in 1 .. Len(got) :
      LET s == FirstSeq(Peer(e)) + (i - 1) \div 2 IN
      got[i] = <<Peer(e), s, 1 + ((i - 1) % 2)>> /\ s \in sent[Peer(e)]

\* A reader that was told Pending has a waker under the tag it waits for, and the
\* message it waits for has not arrived: no delivery slips in between.  Nor does one
\* past an accept that waits, however often the task gave up and called again.
WaiterNotForgotten ==
  /\ acceptor = Waiting => Connecting = {}
  /\ \A e \in Ends : (reading[e] = "waiting" /\ Alive(e)) =>
    /\ Expected(e) = {}
    /\ \E w \in wakers : w.box = BoxOf(e) /\ w.tag = RecvTag(e) /\ w.end = e

\* A pending read ends once the peer's write of the payload it waits for returned Ok.
DataArrives ==
  \A e \in Ends :
    (reading[e] = "waiting" /\ recv_seq[e] \in sent[Peer(e)]) ~> (reading[e] = "idle")

\* A pending read ends when the peer hangs up: "wake the remote end in case it is
\* waiting on a read" (deregister_tcp_id).
HangupSeen ==
  \A e \in Ends : (reading[e] = "waiting" /\ ~PeerLive(e)) ~> (reading[e] = "idle")
=============================================================================
