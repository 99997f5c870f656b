-------------------------------- MODULE Ports --------------------------------
(***************************************************************************)
(* The ports layer of Mojo (mojo/core/ports): nodes that hold ports, the   *)
(* routes between the ports, and the events with which nodes move ports,   *)
(* shorten routes that go through proxies, and announce closure.           *)
(*                                                                         *)
(* A port is addressed by a pair <<node, name>>.  One step of the model is *)
(* one Node call or one accepted event, with the events it hands to        *)
(* NodeDelegate::ForwardEvent.  Most calls are one port-locked section;    *)
(* those that begin to proxy or merge unlock the ports and lock them again *)
(* (MergePortsInternal, BeginProxying, ForwardUserMessagesFromProxy), and  *)
(* what other threads of the process may do in between is not modelled.    *)
(* The threads of a process call into its Node concurrently, so an event   *)
(* handed over later may overtake an earlier one; `net' is therefore a     *)
(* bag, and every event in it may be accepted next.                        *)
(***************************************************************************)
EXTENDS Integers, FiniteSets, Bags

CONSTANTS
  Node,        \* the processes, one Node each
  Topologies,  \* sets of pairs of addresses: what may be connected at first
  Sends,       \* end -> how often the embedder calls SendUserMessage on it
  Readers,     \* ends on which the embedder calls GetMessage
  Movable,     \* ends the embedder attaches to messages
  Closers,     \* ends the embedder closes
  MergePairs,  \* pairs <<e, f>> of ends the embedder merges
  Reserved,    \* ends without a handle, kept for a merge (reserved_ports_)
  MaxAttach,   \* bound: ports attached to one message
  MaxName,     \* bound: CreatePortPair draws no name above this one
  Broker,      \* the node that introduces the others to each other
  Mortal,      \* processes that may die, each given by a port it starts with
  SeqModulus   \* 2^32: width of UserMessageEvent::sequence_num()

PortName == Nat \ {0}
NoName   == 0                      \* kInvalidPortName
Addr     == Node \X PortName
NoAddr   == << >>                  \* kInvalidNodeName, kInvalidPortName

PortsOf(pipes) == {pq[1] : pq \in pipes} \cup {pq[2] : pq \in pipes}
EndsOf(pipes)  == {a[2] : a \in PortsOf(pipes)}

InitialPorts == UNION {PortsOf(pipes) : pipes \in Topologies}
InitialEnds  == UNION {EndsOf(pipes) : pipes \in Topologies}

\* k is the largest name in a topology.
IsLastName(pipes, k) ==
  k \in EndsOf(pipes) \cup {0} /\ \A e \in EndsOf(pipes) : e <= k

ASSUME NodeAssumption == IsFiniteSet(Node) /\ Broker \in Node
ASSUME PipesAssumption ==
  \A pipes \in Topologies :
    /\ pipes \subseteq Addr \X Addr
    /\ \A a, b \in PortsOf(pipes) : a[2] = b[2] => a = b
    /\ \A pq \in pipes : pq[1] # pq[2]
    /\ \A pq, rs \in pipes : {pq[1], pq[2]} \cap {rs[1], rs[2]} # {} => pq = rs
    /\ \E k \in EndsOf(pipes) \cup {0} : IsLastName(pipes, k)
ASSUME BoundsAssumption ==
  /\ MaxAttach \in Nat
  /\ MaxName \in Nat
  /\ SeqModulus \in Nat \ {0}

\* Mutant of kInitialSequenceNum: counting from zero.
kZeroSequenceNum == 0

kInitialSequenceNum == 1
kInvalidSequenceNum == -1          \* the largest uint64: -x stands for 2^64 - x

VARIABLES
  ports,      \* address -> port; the union of the nodes' ports_ maps
  net,        \* bag of events handed to ForwardEvent and not yet accepted
  orphans,    \* ports a thread is about to close in a loop over ports
  lastName,   \* port names up to this one have been generated
  alive,      \* nodes whose process runs
  peers,      \* pairs <<n, m>>: n has, or waits to get, a channel to m
  held,       \* (embedder) ports it holds a handle to
  notified,   \* (embedder) ports with a PortStatusChanged still to serve
  ends,       \* (history) end -> its conjugate end, messages sent, status
  oops        \* (history) OOPS, DCHECK and lost-message paths taken

vars == <<ports, net, orphans, lastName, alive, peers, held, notified, ends,
          oops>>

(***************************************************************************)
(* Data.  `num', `from' and `end' are history fields: the index of a       *)
(* message among those of its sender, the end that sent it, and the end of *)
(* a pipe that a port stands for.  An end is named by its first port.      *)
(***************************************************************************)
State == {"receiving", "buffering", "proxying"}

\* The paths that the code takes for impossible.
Oops == {"begin proxying", "ack state", "port unknown", "get message",
         "stash overwritten"}

\* What a message says of an attached port: of one that moves, all that the
\* new port starts with; of one that stays on its node, only the name.
Moved ==
  [name: PortName, peer: Addr, referring: Addr,
   nextSend: Int, nextRecv: Nat \ {0}, lastRecv: Int,
   peerClosed: BOOLEAN, end: PortName]
Staying ==
  [name: PortName, peer: {NoAddr}, referring: {NoAddr},
   nextSend: Int, nextRecv: Nat \ {0}, lastRecv: Int,
   peerClosed: BOOLEAN, end: PortName]
Descriptor == Moved \cup Staying

FiniteSubset(S) == {T \in SUBSET S : IsFiniteSet(T)}

Message ==
  [seq: Nat, num: Int, from: PortName, att: FiniteSubset(Descriptor)]

Port ==
  [state: State, peer: Addr, nextSend: Int, nextRecv: Nat \ {0},
   lastRecv: Int, queue: FiniteSubset(Message), signalable: BOOLEAN,
   sendOnRemoval: Addr \cup {NoAddr}, removeOnLast: BOOLEAN,
   peerClosed: BOOLEAN, end: PortName]

UserMessage(n, to, m) ==
  [type |-> "UserMessage", src |-> n, to |-> to, msg |-> m]
PortAccepted(n, to) == [type |-> "PortAccepted", src |-> n, to |-> to]
ObserveProxy(n, to, proxy, target) ==
  [type |-> "ObserveProxy", src |-> n, to |-> to, proxy |-> proxy,
   target |-> target]
ObserveProxyAck(n, to, last) ==
  [type |-> "ObserveProxyAck", src |-> n, to |-> to, last |-> last]
ObserveClosure(n, to, last) ==
  [type |-> "ObserveClosure", src |-> n, to |-> to, last |-> last]
MergePort(n, to, d) ==
  [type |-> "MergePort", src |-> n, to |-> to, new |-> d]
\* An ObserveProxy event with an invalid port name, broadcast to every node.
ProxyDied(n, m, proxy) ==
  [type |-> "ProxyDied", src |-> n, to |-> <<m, NoName>>, proxy |-> proxy]

Event ==
  [type: {"UserMessage"}, src: Node, to: Addr, msg: Message]
  \cup [type: {"PortAccepted"}, src: Node, to: Addr]
  \cup [type: {"ObserveProxy"}, src: Node, to: Addr, proxy: Addr,
        target: Addr]
  \cup [type: {"ObserveProxyAck"}, src: Node, to: Addr, last: Int]
  \cup [type: {"ObserveClosure"}, src: Node, to: Addr, last: Int]
  \cup [type: {"MergePort"}, src: Node, to: Addr, new: Moved]
  \cup [type: {"ProxyDied"}, src: Node, to: Node \X {NoName}, proxy: Addr]

-----------------------------------------------------------------------------
(***************************************************************************)
(* Ports and their message queues.                                         *)
(***************************************************************************)
NewPort(peer, end) ==
  [state |-> "receiving", peer |-> peer, nextSend |-> kInitialSequenceNum,
   nextRecv |-> kInitialSequenceNum, lastRecv |-> 0, queue |-> {},
   signalable |-> TRUE, sendOnRemoval |-> NoAddr, removeOnLast |-> FALSE,
   peerClosed |-> FALSE, end |-> end]

AcceptedPort(d) ==
  [NewPort(d.peer, d.end) EXCEPT
     !.nextSend = d.nextSend, !.nextRecv = d.nextRecv,
     !.lastRecv = d.lastRecv, !.peerClosed = d.peerClosed,
     !.signalable = FALSE]

\* A port attached to a message that stays on its node.
LocalPort(p, end) ==
  [name |-> p, peer |-> NoAddr, referring |-> NoAddr,
   nextSend |-> kInitialSequenceNum, nextRecv |-> kInitialSequenceNum,
   lastRecv |-> 0, peerClosed |-> FALSE, end |-> end]

CanAcceptMoreMessages(r) ==
  ~ (/\ r.peerClosed \/ r.removeOnLast
     /\ r.lastRecv = r.nextRecv - 1)

\* The heap's first element, the message of least number, is the next one.
HasNextMessage(r) ==
  /\ \E m \in r.queue : m.seq = r.nextRecv
  /\ \A m \in r.queue : m.seq >= r.nextRecv

\* What GetNextMessage returns when it is called until it returns nothing.
Sequential(r) ==
  IF HasNextMessage(r)
  THEN {m \in r.queue : \A s \in r.nextRecv .. m.seq :
                           \E m2 \in r.queue : m2.seq = s}
  ELSE {}

Attached(M) == {d.name : d \in UNION {m.att : m \in M}}

On(n, S) == {a \in S : a[1] = n}

Erase(ps, a) == [b \in DOMAIN ps \ {a} |-> ps[b]]

\* The entries of f, and those of g for the keys that f has not.
Extend(f, g) ==
  [x \in DOMAIN f \cup DOMAIN g |-> IF x \in DOMAIN f THEN f[x] ELSE g[x]]

-----------------------------------------------------------------------------
(***************************************************************************)
(* The private operations of Node, as functions of what a handler has done *)
(* so far: the ports, the events forwarded, the port names generated, the  *)
(* status changes reported, the ports left to be closed, and whether the   *)
(* last operation returned OK.                                             *)
(***************************************************************************)
Begin ==
  [ports |-> ports, out |-> {}, lastName |-> lastName, changed |-> {},
   orphans |-> {}, peers |-> peers, oops |-> oops, ok |-> TRUE]

\* Mutant of ConvertToProxy: the port that has been sent away still receives.
StayReceiving(r, to) == [r EXCEPT !.removeOnLast = @ \/ r.peerClosed,
                                  !.peer = to]

ConvertToProxy(r, to) ==
  [r EXCEPT !.state = "buffering", !.removeOnLast = @ \/ r.peerClosed,
            !.peer = to]

\* Mutant of DescriptorOf: the new port numbers its messages from the start.
DescriptorRestarted(a, r, name) ==
  [name |-> name, peer |-> r.peer, referring |-> a,
   nextSend |-> kInitialSequenceNum, nextRecv |-> r.nextRecv,
   lastRecv |-> r.lastRecv, peerClosed |-> r.peerClosed, end |-> r.end]

DescriptorOf(a, r, name) ==
  [name |-> name, peer |-> r.peer, referring |-> a,
   nextSend |-> r.nextSend, nextRecv |-> r.nextRecv,
   lastRecv |-> r.lastRecv, peerClosed |-> r.peerClosed, end |-> r.end]

\* GenerateRandomPortName for each name in S: unused and distinct.
Fresh(last, S) == [p \in S |-> last + Cardinality({q \in S : q <= p})]

\* An attached port that cannot be sent from port a.
Unsendable(st, a, p) ==
  \/ <<a[1], p>> \notin DOMAIN st.ports
  \/ st.ports[<<a[1], p>>].state # "receiving"
  \/ p = st.ports[a].peer[2]

\* Forwards the numbered messages M from port a; ports attached to a message
\* for another node become buffering proxies to ports with new names there.
PrepareToForwardUserMessage(st, a, M) ==
  LET n == a[1]
      to == st.ports[a].peer
      moved == IF to[1] = n THEN {} ELSE Attached(M)
      fresh == Fresh(st.lastName, moved)
      Rewritten(d) ==
        IF d.name \in moved
        THEN DescriptorOf(<<n, d.name>>, st.ports[<<n, d.name>>],
                          fresh[d.name])
        ELSE d
  IN [st EXCEPT
        !.ports = [b \in DOMAIN st.ports |->
                     IF b[1] = n /\ b[2] \in moved
                     THEN ConvertToProxy(st.ports[b], <<to[1], fresh[b[2]]>>)
                     ELSE st.ports[b]],
        !.out = @ \cup {UserMessage(n, to,
                          [m EXCEPT !.att = {Rewritten(d) : d \in m.att}])
                       : m \in M},
        !.lastName = @ + Cardinality(moved),
        !.changed = @ \cup {b \in DOMAIN st.ports :
                      b[1] = n /\ \E p \in moved :
                                     st.ports[<<n, p>>].peer = b}]

\* Messages go out in order up to the first one that cannot be forwarded; that
\* one is destroyed, which closes the ports attached to it, and the sequence
\* number "backpedals" although the proxy had not assigned it.
ForwardUserMessagesFromProxy(st, a) ==
  LET r == st.ports[a]
      M == Sequential(r)
      bad == {m \in M : \E p \in Attached({m}) : Unsendable(st, a, p)}
      lost == {m \in bad : \A x \in bad : m.seq <= x.seq}
      sent == {m \in M : \A x \in bad : m.seq < x.seq}
      taken == [st EXCEPT
                  !.ports[a] = [r EXCEPT
                     !.queue = @ \ (sent \cup lost),
                     !.nextRecv = @ + Cardinality(sent \cup lost),
                     !.nextSend = @ - Cardinality(lost)],
                  !.orphans = @ \cup {<<a[1], p>> : p \in Attached(lost)},
                  !.ok = lost = {}]
  IN PrepareToForwardUserMessage(taken, a, sent)

\* Mutant of TryRemoveProxy: the acknowledgement held back is never sent.
RemoveProxySilently(st, a) ==
  LET r == st.ports[a] IN
  IF r.removeOnLast /\ ~CanAcceptMoreMessages(r)
  THEN [st EXCEPT
          !.ports = Erase(@, a),
          !.orphans = @ \cup {<<a[1], p>> : p \in Attached(r.queue)}]
  ELSE st

\* ErasePort destroys the messages still queued.
TryRemoveProxy(st, a) ==
  LET r == st.ports[a] IN
  IF r.removeOnLast /\ ~CanAcceptMoreMessages(r)
  THEN [st EXCEPT
          !.ports = Erase(@, a),
          !.orphans = @ \cup {<<a[1], p>> : p \in Attached(r.queue)},
          !.out = IF r.sendOnRemoval = NoAddr THEN @
                  ELSE @ \cup {ObserveProxyAck(a[1], r.sendOnRemoval,
                                              kInvalidSequenceNum)}]
  ELSE st

InitiateProxyRemoval(st, a) ==
  LET to == st.ports[a].peer
  IN [st EXCEPT !.out = @ \cup {ObserveProxy(a[1], to, a, to)}]

\* Mutant of Close: the number of the next message for that of the last one.
CloseOffByOne(st, a) ==
  LET r == st.ports[a] IN
  IF r.state = "receiving"
  THEN [st EXCEPT
          !.ports = Erase(@, a),
          !.out = @ \cup {ObserveClosure(a[1], r.peer, r.nextSend)},
          !.orphans = @ \cup {<<a[1], p>> : p \in Attached(r.queue)}]
  ELSE st

\* ClosePort up to its loop over the ports of undelivered messages, which
\* are left in orphans and closed by CloseOrphan.
Close(st, a) ==
  LET r == st.ports[a] IN
  IF r.state = "receiving"
  THEN [st EXCEPT
          !.ports = Erase(@, a),
          !.out = @ \cup {ObserveClosure(a[1], r.peer, r.nextSend - 1)},
          !.orphans = @ \cup {<<a[1], p>> : p \in Attached(r.queue)}]
  ELSE st

\* AcceptPort for every descriptor in D, at node n.
AcceptPorts(st, n, D) ==
  [st EXCEPT
     !.ports = Extend(@, [b \in {<<n, d.name>> : d \in D} |->
                            AcceptedPort(CHOOSE d \in D : d.name = b[2])]),
     !.out = @ \cup {PortAccepted(n, d.referring) : d \in D},
     !.ok = \A d \in D : <<n, d.name>> \notin DOMAIN st.ports]

\* How a port that now proxies leaves the route: at once if no message is to
\* come, passing closure on; otherwise by announcing itself to its route.
StartRemoval(st, a) ==
  LET r == st.ports[a]
      closure == ObserveClosure(a[1], r.peer, r.lastRecv)
  IN IF r.removeOnLast
     THEN TryRemoveProxy([st EXCEPT !.out = @ \cup {closure}], a)
     ELSE InitiateProxyRemoval(st, a)

BeginProxying(st, a) ==
  LET forwarded == ForwardUserMessagesFromProxy(
                     [st EXCEPT !.ports[a].state = "proxying"], a)
  IN IF st.ports[a].state # "buffering"
     THEN [st EXCEPT !.oops = @ \cup {"begin proxying"}]
     ELSE IF forwarded.ok THEN StartRemoval(forwarded, a) ELSE forwarded

CanMerge(st, a, b) ==
  /\ st.ports[a].state = "receiving" /\ st.ports[b].state = "receiving"
  /\ st.ports[a].peer # b /\ st.ports[b].peer # a
  /\ st.ports[a].nextSend = kInitialSequenceNum
  /\ st.ports[b].nextSend = kInitialSequenceNum

\* Mutant of SwapPeers: the second port is given its own former peer.
SwapHalf(st, a, b) ==
  LET Proxy(r, peer) ==
        [r EXCEPT !.state = "proxying", !.peer = peer,
                  !.removeOnLast = @ \/ r.peerClosed]
  IN [st EXCEPT !.ports[a] = Proxy(st.ports[a], st.ports[b].peer),
                !.ports[b] = Proxy(st.ports[b], st.ports[b].peer)]

\* Both ports become proxies with exchanged peers.
SwapPeers(st, a, b) ==
  LET Proxy(r, peer) ==
        [r EXCEPT !.state = "proxying", !.peer = peer,
                  !.removeOnLast = @ \/ r.peerClosed]
  IN [st EXCEPT !.ports[a] = Proxy(st.ports[a], st.ports[b].peer),
                !.ports[b] = Proxy(st.ports[b], st.ports[a].peer)]

UndoSwap(st, a, b) ==
  LET Receiving(r, peer) ==
        [r EXCEPT !.state = "receiving", !.peer = peer,
                  !.removeOnLast = FALSE]
  IN [st EXCEPT !.ports[a] = Receiving(st.ports[a], st.ports[b].peer),
                !.ports[b] = Receiving(st.ports[b], st.ports[a].peer)]

MergePortsInternal(st, a, b, allowClose) ==
  LET first == ForwardUserMessagesFromProxy(SwapPeers(st, a, b), a)
      flushed == IF first.ok THEN ForwardUserMessagesFromProxy(first, b)
                 ELSE first
      CloseIf(s, c) == IF allowClose \/ s.ports[c].state = "receiving"
                       THEN Close(s, c) ELSE s
  IN IF ~CanMerge(st, a, b)
     THEN [CloseIf(CloseIf(st, a), b) EXCEPT !.ok = FALSE]
     ELSE IF flushed.ok
     THEN StartRemoval(StartRemoval(flushed, a), b)
     ELSE Close(Close(UndoSwap(flushed, a, b), a), b)

\* The ports of node n that DestroyAllPortsWithPeer visits if it starts with
\* S: it calls itself for the ports of n that point to a proxy it erases.
Stranded(st, n, S) ==
  LET Proxies(T) == {b \in T : st.ports[b].state # "receiving"}
      visited[k \in Nat] ==
        IF k = 0 THEN S
        ELSE visited[k - 1] \cup {b \in On(n, DOMAIN st.ports) :
                                    st.ports[b].peer \in Proxies(visited[k - 1])}
  IN On(n, DOMAIN st.ports) \cap visited[Cardinality(DOMAIN st.ports)]

\* BroadcastEvent: through the broker, if n has a channel to it, to all that
\* the broker has a channel to; never to the broker's own Node.
Audience(st, n) ==
  LET relay == IF <<n, Broker>> \in st.peers THEN Broker ELSE n
  IN {m \in Node : <<relay, m>> \in st.peers}

DestroyAllPortsWithPeer(st, n, S) ==
  LET all == Stranded(st, n, S)
      dead == {b \in all : st.ports[b].state # "receiving"}
      fresh == {b \in all \ dead : ~st.ports[b].peerClosed}
  IN [st EXCEPT
        !.ports = [b \in DOMAIN st.ports \ dead |->
                     IF b \in fresh
                     THEN [st.ports[b] EXCEPT !.peerClosed = TRUE,
                             !.lastRecv = st.ports[b].nextRecv - 1]
                     ELSE st.ports[b]],
        !.out = @ \cup {ProxyDied(n, m, b) : m \in Audience(st, n), b \in dead},
        !.changed = @ \cup fresh,
        !.orphans = @ \cup {<<n, p>> :
                      p \in UNION {Attached(st.ports[b].queue) : b \in dead}}]

\* Mutant of Introduced: nobody hears that a peer cannot be introduced.
DropForDead(out) ==
  LET sent == {<<e.src, e.to[1]>> : e \in {x \in out : x.type # "ProxyDied"}}
  IN {nm \in Node \X Node :
        nm[1] # nm[2] /\ {nm, <<nm[2], nm[1]>>} \cap sent # {}
          /\ {nm[1], nm[2]} \subseteq alive}

\* SendPeerEvent asks the broker for an introduction to an unknown peer, which
\* connects both; for a peer that is gone the answer is LostConnectionToNode.
\* The broker itself knows everybody: it drops the event.
Introduced(out) ==
  LET sent == {<<e.src, e.to[1]>> : e \in {x \in out : x.type # "ProxyDied"}}
  IN {nm \in sent : nm[1] # nm[2] /\ (nm[2] \in alive \/ nm[1] # Broker)}
       \cup {nm \in Node \X Node : nm[1] # nm[2] /\ nm[1] \in alive
                                     /\ <<nm[2], nm[1]>> \in sent}

\* The end of a handler.  Events for a dead process are lost.
Commit(st, pending, closing) ==
  /\ ports' = st.ports
  /\ net' = pending (+) SetToBag({e \in st.out : e.to[1] \in alive})
  /\ lastName' = st.lastName
  /\ notified' = notified \cup st.changed
  /\ orphans' = closing \cup st.orphans
  /\ peers' = st.peers \cup Introduced(st.out)
  /\ oops' = st.oops

-----------------------------------------------------------------------------
(***************************************************************************)
(* What the embedder calls.                                                *)
(***************************************************************************)
Conjugate(e) == ends[e].conj

\* A receiving port the embedder has a handle to.
Usable(a) ==
  /\ a \in held \cap DOMAIN ports
  /\ ports[a].state = "receiving"

\* A port without a handle, kept for a merge.
Idle(a) ==
  /\ a \in DOMAIN ports
  /\ a[2] \in Reserved
  /\ ports[a].state = "receiving"

CreatePortPair(n) ==
  LET p == lastName + 1
      q == lastName + 2
      Other(x) == IF x = p THEN q ELSE p
      new == {<<n, p>>, <<n, q>>}
  IN /\ n \in alive
     /\ q <= MaxName
     /\ ports' = Extend(ports, [b \in new |->
                                  NewPort(<<n, Other(b[2])>>, b[2])])
     /\ lastName' = q
     /\ held' = held \cup new
     /\ notified' = notified \cup new
     /\ ends' = Extend(ends, [x \in {p, q} |->
                                [conj |-> Other(x), sent |-> 0]])
     /\ UNCHANGED <<net, orphans, alive, peers, oops>>

\* Why SendUserMessage refuses: it sends nothing and closes the ports A.
RefusedAtOnce(a, A) == a \in A \/ ports[a].peerClosed
Refused(a, A) == \/ RefusedAtOnce(a, A)
                 \/ \E b \in A : Unsendable(Begin, a, b[2])

\* Mutant of Backpedal: the number of a refused message is used up.
NoBackpedal(st, a) == st

\* A message that turns out not to be sendable gives its number back.
Backpedal(st, a) == [st EXCEPT !.ports[a].nextSend = @ - 1]

\* What the embedder attaches: handles it has.  HandleTable refuses others; it
\* and Node refuse the port itself and its direct peer.  The far end of the
\* same pipe behind a proxy goes undetected: it would wait in its own queue.
\* This embedder does not do that.
MayAttach(a, A) ==
  /\ \A b \in A : Usable(b) /\ b[1] = a[1] /\ ports[b].end \in Movable
  /\ \A b \in A : ports[b].end = Conjugate(ports[a].end)
                   => b = ports[a].peer

SendUserMessage(a, A) ==
  LET r == ports[a]
      m == [seq |-> r.nextSend % SeqModulus, num |-> r.nextSend, from |-> r.end,
            att |-> {LocalPort(b[2], ports[b].end) : b \in A}]
      numbered == [Begin EXCEPT !.ports[a].nextSend = @ + 1]
      refused == IF RefusedAtOnce(a, A) THEN Begin ELSE Backpedal(numbered, a)
  IN /\ Usable(a)
     /\ MayAttach(a, A)
     /\ r.end \in DOMAIN Sends
     /\ r.nextSend <= Sends[r.end]
     /\ held' = held \ (A \ {a})
     /\ \/ /\ ~Refused(a, A)
           /\ Commit(PrepareToForwardUserMessage(numbered, a, {m}), net, orphans)
           /\ ends' = [ends EXCEPT ![r.end].sent = @ + 1]
        \/ /\ Refused(a, A)
           /\ Commit([refused EXCEPT !.orphans = A \ {a}], net, orphans)
           /\ UNCHANGED ends
     /\ UNCHANGED alive

\* Mutant of SetSignalable: ports in messages stay silent.
StaySilent(ps, new) == ps

\* Ports that come out with a message may call PortStatusChanged from now on.
SetSignalable(ps, new) ==
  [b \in DOMAIN ps |-> IF b \in new THEN [ps[b] EXCEPT !.signalable = TRUE]
                       ELSE ps[b]]

\* The embedder reads; a null message or closure ends the notification.
GetMessage(a) ==
  LET r == ports[a]
      m == CHOOSE x \in r.queue : x.seq = r.nextRecv
      new == {<<a[1], p>> : p \in Attached({m})}
      taken == [ports EXCEPT ![a] = [r EXCEPT !.queue = @ \ {m},
                                              !.nextRecv = @ + 1]]
      found == \A b \in new : b \in DOMAIN ports /\ ports[b].state = "receiving"
  IN /\ Usable(a)
     /\ r.end \in Readers
     /\ \/ /\ CanAcceptMoreMessages(r) /\ HasNextMessage(r)
           /\ ports' = SetSignalable(taken, new)
           /\ oops' = IF found THEN oops ELSE oops \cup {"get message"}
           /\ held' = held \cup (new \cap DOMAIN ports)
           /\ notified' = notified \cup (new \cap DOMAIN ports)
        \/ /\ ~(CanAcceptMoreMessages(r) /\ HasNextMessage(r))
           /\ a \in notified
           /\ notified' = notified \ {a}
           /\ UNCHANGED <<ports, oops, held>>
     /\ UNCHANGED <<net, orphans, lastName, alive, peers, ends>>

ClosePort(a) ==
  /\ Usable(a) \/ Idle(a)
  /\ ports[a].end \in Closers
  /\ Commit(Close(Begin, a), net, orphans)
  /\ held' = held \ {a}
  /\ UNCHANGED <<alive, ends>>

\* The next turn of a loop that closes ports which were found in messages.
CloseOrphan(a) ==
  LET st == IF a \in DOMAIN ports THEN Close(Begin, a) ELSE Begin
  IN /\ a \in orphans
     /\ Commit(st, net, orphans \ {a})
     /\ UNCHANGED <<alive, held, ends>>

\* Ends e and f have been merged: their conjugates now face each other.
Joined(e, f) ==
  [ends EXCEPT ![Conjugate(e)].conj = Conjugate(f),
               ![Conjugate(f)].conj = Conjugate(e)]

MergeLocalPorts(a, b) ==
  /\ Usable(a) /\ Usable(b) /\ a[1] = b[1] /\ a # b
  /\ <<ports[a].end, ports[b].end>> \in MergePairs
  /\ Commit(MergePortsInternal(Begin, a, b, TRUE), net, orphans)
  /\ held' = held \ {a, b}
  /\ ends' = IF MergePortsInternal(Begin, a, b, TRUE).ok
             THEN Joined(ports[a].end, ports[b].end) ELSE ends
  /\ UNCHANGED alive

\* OnRequestPortMerge: the inviter's reserved port a is merged with the port b
\* that the invitee keeps for it, wherever the conjugates have gone.
MergePorts(a, b) ==
  LET r == ports[a]
      to == <<b[1], lastName + 1>>
      n == a[1]
  IN /\ Idle(a) /\ a \notin orphans
     /\ b \in InitialPorts
     /\ <<r.end, b[2]>> \in MergePairs
     /\ Commit([Begin EXCEPT
                  !.ports[a] = ConvertToProxy(r, to),
                  !.lastName = @ + 1,
                  !.changed = {c \in DOMAIN ports :
                                 c = r.peer /\ c[1] = n /\ b[1] # n},
                  !.out = {MergePort(n, b, DescriptorOf(a, r, to[2]))}],
               net, orphans)
     /\ UNCHANGED <<alive, held, ends>>

-----------------------------------------------------------------------------
(***************************************************************************)
(* Node::AcceptEvent: one handler per type of event.                       *)
(***************************************************************************)
Without(e) == net (-) SetToBag({e})

OnUserMessage(e) ==
  LET n == e.to[1]
      a == e.to
      here == {<<n, d.name>> : d \in e.msg.att}
      st == AcceptPorts(Begin, n, {d \in e.msg.att : d.referring # NoAddr})
      m == [e.msg EXCEPT !.att = {LocalPort(d.name, d.end) : d \in e.msg.att}]
      queued == [st EXCEPT !.ports[a].queue = @ \cup {m}]
      r == queued.ports[a]
      forwarded == ForwardUserMessagesFromProxy(queued, a)
      accepted ==
        CASE r.state = "proxying" ->
               IF forwarded.ok THEN TryRemoveProxy(forwarded, a) ELSE forwarded
          [] r.state = "buffering" -> queued
          [] r.state = "receiving" ->
               [queued EXCEPT !.changed = IF r.signalable /\ HasNextMessage(r)
                                          THEN {a} ELSE {}]
  IN /\ e.type = "UserMessage"
     /\ Commit(IF ~st.ok \/ ~(here \subseteq DOMAIN st.ports)
               THEN [st EXCEPT !.oops = @ \cup {"port unknown"}]
               ELSE IF a \in DOMAIN st.ports /\ CanAcceptMoreMessages(st.ports[a])
               THEN accepted
               ELSE [st EXCEPT !.orphans = here],
               Without(e), orphans)
     /\ UNCHANGED <<alive, held, ends>>

OnPortAccepted(e) ==
  /\ e.type = "PortAccepted"
  /\ Commit(IF e.to \in DOMAIN ports THEN BeginProxying(Begin, e.to)
            ELSE Begin, Without(e), orphans)
  /\ UNCHANGED <<alive, held, ends>>

\* Mutant of Bypass: the new peer is taken for an open one.
BypassReopens(st, a, e) ==
  [st EXCEPT !.ports[a].peer = e.target,
             !.ports[a].peerClosed = FALSE,
             !.out = @ \cup {ObserveProxyAck(a[1], e.proxy,
                                            st.ports[a].nextSend - 1)},
             !.changed = @ \cup {a}]

\* A receiving port skips the proxy it points to and tells it how many
\* messages are still to come.
Bypass(st, a, e) ==
  [st EXCEPT !.ports[a].peer = e.target,
             !.out = @ \cup {ObserveProxyAck(a[1], e.proxy,
                                            st.ports[a].nextSend - 1)},
             !.changed = @ \cup {a}]

\* Mutant of StashAck: the proxy answers like a port that sends messages.
AckAsSender(st, a, e) ==
  [st EXCEPT !.ports[a].peer = e.target,
             !.out = @ \cup {ObserveProxyAck(a[1], e.proxy,
                                            st.ports[a].nextSend - 1)}]

\* A proxy that points to the proxy answers when it has left the route.
StashAck(st, a, e) ==
  [st EXCEPT !.ports[a].sendOnRemoval = e.proxy,
             !.oops = IF st.ports[a].sendOnRemoval = NoAddr THEN @
                      ELSE @ \cup {"stash overwritten"}]

OnObserveProxy(e) ==
  LET a == e.to
      r == ports[a]
      pass == ObserveProxy(a[1], r.peer, e.proxy, e.target)
  IN /\ e.type = "ObserveProxy"
     /\ Commit(CASE a \notin DOMAIN ports -> Begin
                 [] a \in DOMAIN ports /\ r.peer # e.proxy ->
                      [Begin EXCEPT !.out = {pass}]
                 [] a \in DOMAIN ports /\ r.peer = e.proxy ->
                      IF r.state = "receiving" THEN Bypass(Begin, a, e)
                      ELSE StashAck(Begin, a, e),
               Without(e), orphans)
     /\ UNCHANGED <<alive, held, ends>>

OnObserveProxyAck(e) ==
  LET a == e.to
      flagged == [Begin EXCEPT !.ports[a].removeOnLast = TRUE,
                               !.ports[a].lastRecv = e.last]
  IN /\ e.type = "ObserveProxyAck"
     /\ Commit(IF a \notin DOMAIN ports THEN Begin
               ELSE IF ports[a].state # "proxying"
               THEN [Begin EXCEPT !.oops = @ \cup {"ack state"}]
               ELSE IF e.last = kInvalidSequenceNum
               THEN InitiateProxyRemoval(Begin, a)
               ELSE TryRemoveProxy(flagged, a),
               Without(e), orphans)
     /\ UNCHANGED <<alive, held, ends>>

\* Mutant of ObservedClosure: closure is not passed on by a proxy.
ClosureNotForwarded(st, a, last) ==
  LET r == st.ports[a] IN
  [st EXCEPT
     !.ports[a] = [r EXCEPT !.peerClosed = TRUE, !.lastRecv = last,
                     !.removeOnLast = @ \/ r.state # "receiving"],
     !.changed = IF r.state = "receiving" THEN @ \cup {a} ELSE @]

\* Closure passes a port: the number it carries on is that of the messages to
\* come, or, behind a receiving port, of those this port has sent.
ObservedClosure(st, a, last) ==
  LET r == st.ports[a]
      rest == IF r.state = "receiving" THEN r.nextSend - 1 ELSE last
  IN [st EXCEPT
        !.ports[a] = [r EXCEPT !.peerClosed = TRUE, !.lastRecv = last,
                        !.removeOnLast = @ \/ r.state # "receiving"],
        !.out = @ \cup {ObserveClosure(a[1], r.peer, rest)},
        !.changed = IF r.state = "receiving" THEN @ \cup {a} ELSE @]

OnObserveClosure(e) ==
  LET observed == ObservedClosure(Begin, e.to, e.last)
  IN /\ e.type = "ObserveClosure"
     /\ Commit(CASE e.to \notin DOMAIN ports -> Begin
                 [] e.to \in DOMAIN ports ->
                      IF ports[e.to].state = "proxying"
                      THEN TryRemoveProxy(observed, e.to) ELSE observed,
               Without(e), orphans)
     /\ UNCHANGED <<alive, held, ends>>

OnMergePort(e) ==
  LET n == e.to[1]
      b == <<n, e.new.name>>
      st == AcceptPorts(Begin, n, {e.new})
      merged == MergePortsInternal(st, e.to, b, FALSE)
      found == e.to \in DOMAIN ports
  IN /\ e.type = "MergePort"
     /\ Commit(CASE st.ok /\ found  -> merged
                 [] st.ok /\ ~found -> Close(st, b)
                 [] ~st.ok /\ found -> Close(Begin, e.to)
                 [] ~st.ok /\ ~found -> Begin,
               Without(e), orphans)
     /\ ends' = IF found /\ st.ok /\ merged.ok
                THEN Joined(ports[e.to].end, e.new.end) ELSE ends
     /\ UNCHANGED <<alive, held>>

OnProxyDied(e) ==
  LET n == e.to[1] IN
  /\ e.type = "ProxyDied"
  /\ Commit(DestroyAllPortsWithPeer(Begin, n,
              {b \in DOMAIN ports : b[1] = n /\ ports[b].peer = e.proxy}),
            Without(e), orphans)
  /\ UNCHANGED <<alive, held, ends>>

AcceptEvent(e) ==
  \/ OnUserMessage(e)
  \/ OnPortAccepted(e)
  \/ OnObserveProxy(e)
  \/ OnObserveProxyAck(e)
  \/ OnObserveClosure(e)
  \/ OnMergePort(e)
  \/ OnProxyDied(e)

-----------------------------------------------------------------------------
(***************************************************************************)
(* Death of a process, and its discovery by the others.                    *)
(***************************************************************************)
Crash(m) ==
  LET keep == {e \in BagToSet(net) : e.to[1] # m}
  IN /\ m \in alive
     /\ \E a \in Mortal : a[1] = m /\ a[2] \in DOMAIN ends
     /\ alive' = alive \ {m}
     /\ ports' = [a \in DOMAIN ports \ On(m, DOMAIN ports) |-> ports[a]]
     /\ net' = [e \in keep |-> net[e]]
     /\ orphans' = orphans \ On(m, orphans)
     /\ peers' = peers \ On(m, peers)
     /\ held' = held \ On(m, held)
     /\ notified' = notified \ On(m, notified)
     /\ UNCHANGED <<lastName, ends, oops>>

\* The ports that n has reserved for m; DropPeer closes them one by one.
ReservedFor(n, m) ==
  {a \in On(n, DOMAIN ports) :
     Idle(a) /\ \E b \in InitialPorts : /\ b[1] = m
                                       /\ <<ports[a].end, b[2]>> \in MergePairs}

Dropped(n, m) == [Begin EXCEPT !.peers = @ \ {<<n, m>>},
                               !.orphans = ReservedFor(n, m)]

\* DropPeer: node n learns that m is gone, by a channel error or because it
\* cannot be introduced to m.  What m had sent and n has not read is lost.
LostConnectionToNode(n, m) ==
  LET S == {b \in On(n, DOMAIN ports) : ports[b].peer[1] = m}
      keep == {e \in BagToSet(net) : ~(e.src = m /\ e.to[1] = n)}
      st == DestroyAllPortsWithPeer(Dropped(n, m), n, S)
  IN /\ <<n, m>> \in peers /\ m \notin alive
     /\ Commit(st, [e \in keep |-> net[e]], orphans)
     /\ UNCHANGED <<alive, held, ends>>

-----------------------------------------------------------------------------
\* Mutant of CanShutdownCleanly: proxies that only forward are disregarded.
ShutdownDespiteProxies(n) ==
  \A a \in On(n, DOMAIN ports) :
    ports[a].peer[1] # n => ports[a].state # "buffering"

\* Node::CanShutdownCleanly(ALLOW_LOCAL_PORTS).
CanShutdownCleanly(n) ==
  \A a \in On(n, DOMAIN ports) :
    ports[a].peer[1] # n => ports[a].state = "receiving"

InitWith(pipes) ==
  LET Peer(a) == CHOOSE b \in PortsOf(pipes) : \/ <<a, b>> \in pipes
                                               \/ <<b, a>> \in pipes
      At(e) == CHOOSE a \in PortsOf(pipes) : a[2] = e
      handles == {a \in PortsOf(pipes) : a[2] \notin Reserved}
  IN /\ ports = [a \in PortsOf(pipes) |-> NewPort(Peer(a), a[2])]
     /\ net = EmptyBag
     /\ orphans = {}
     /\ lastName = CHOOSE k \in EndsOf(pipes) \cup {0} : IsLastName(pipes, k)
     /\ alive = Node
     /\ peers = {nm \in Node \X Node :
                   /\ nm[1] # nm[2]
                   /\ \/ Broker \in {nm[1], nm[2]}
                      \/ \E a \in On(nm[1], PortsOf(pipes)) : Peer(a)[1] = nm[2]}
     /\ held = handles
     /\ notified = handles
     /\ ends = [e \in EndsOf(pipes) |-> [conj |-> Peer(At(e))[2], sent |-> 0]]
     /\ oops = {}

Init == \E pipes \in Topologies : InitWith(pipes)

Embedder ==
  \/ \E n \in Node : CreatePortPair(n)
  \/ \E a \in held :
       \/ GetMessage(a)
       \/ \E A \in FiniteSubset({b \in held : b[1] = a[1]}) :
            Cardinality(A) <= MaxAttach /\ SendUserMessage(a, A)
       \/ \E b \in held : MergeLocalPorts(a, b)
  \/ \E a \in DOMAIN ports : ClosePort(a)
  \/ \E a \in DOMAIN ports, b \in InitialPorts : MergePorts(a, b)

Internal ==
  \/ \E e \in BagToSet(net) : AcceptEvent(e)
  \/ \E a \in orphans : CloseOrphan(a)

Failure ==
  \/ \E m \in Node : Crash(m)
  \/ \E n, m \in Node : LostConnectionToNode(n, m)

Next == Embedder \/ Internal \/ Failure

Spec == Init /\ [][Next]_vars

-----------------------------------------------------------------------------
(***************************************************************************)
(* Properties.                                                             *)
(***************************************************************************)
\* Ports, events and the embedder's view of them keep their types.
TypeOK ==
  /\ ports = [a \in DOMAIN ports |-> ports[a]]
  /\ DOMAIN ports \subseteq Addr
  /\ \A a \in DOMAIN ports : ports[a] \in Port
  /\ BagToSet(net) \subseteq Event
  /\ orphans \subseteq Addr
  /\ lastName \in Nat
  /\ alive \subseteq Node
  /\ peers \subseteq Node \X Node
  /\ held \subseteq Addr /\ notified \subseteq Addr
  /\ oops \subseteq Oops

\* No thread of any process meets a state the code declares impossible: the
\* OOPS of BeginProxying, OnObserveProxyAck and AddPortWithName, the DCHECKs
\* of GetMessage, the port that OnUserMessage expects to find, and a second
\* ObserveProxyAck stashed over one not yet sent (which loses a proxy's only
\* prompt to leave).
NoOops == oops = {}

\* All copies of messages: queued in a port, and under way.
Queued   == UNION {ports[a].queue : a \in DOMAIN ports}
UnderWay == {e.msg : e \in {x \in BagToSet(net) : x.type = "UserMessage"}}

\* Where an end is: the port in receiving state that stands for it, or the
\* descriptor that will make one.
PortSeats(e) == {a \in DOMAIN ports : /\ ports[a].state = "receiving"
                                      /\ ports[a].end = e}
WireSeats(e) ==
  {d \in UNION {m.att : m \in UnderWay} : d.referring # NoAddr /\ d.end = e}
    \cup {x.new : x \in {y \in BagToSet(net) :
                           y.type = "MergePort" /\ y.new.end = e}}
NextRecvOf(e) == {ports[a].nextRecv : a \in PortSeats(e)}
                   \cup {d.nextRecv : d \in WireSeats(e)}

\* An end of a pipe is in one place: however often it is sent on, there is at
\* most one receiving port, or one descriptor under way, that stands for it.
UniqueReceiver ==
  \A e \in DOMAIN ends :
    Cardinality(PortSeats(e)) + Cardinality(WireSeats(e)) <= 1

\* As long as no process dies, a message sent to an end that still exists and
\* has not read it is queued in some port or under way to one: no proxy
\* leaves the route, and no closure is observed, before the messages that
\* were to pass have passed.
NoMessageLost ==
  alive = Node =>
    \A e \in DOMAIN ends : \A k \in NextRecvOf(e) :
      \A i \in k .. ends[Conjugate(e)].sent :
        \E m \in Queued \cup UnderWay : m.from = Conjugate(e) /\ m.num = i

\* No two copies of a message: none is queued twice, under way twice, or both,
\* however often proxies forward it.
Same(m, x) == m.from = x.from /\ m.num = x.num
NoCopies ==
  LET msgs == {e \in BagToSet(net) : e.type = "UserMessage"}
  IN /\ \A a, b \in DOMAIN ports :
          \A m \in ports[a].queue, x \in ports[b].queue :
            Same(m, x) => a = b /\ m = x
     /\ \A e \in msgs : net[e] = 1 /\ \A f \in msgs :
                          Same(e.msg, f.msg) => e = f
     /\ \A e \in msgs : \A m \in Queued : ~Same(e.msg, m)

\* A message is never duplicated by the rerouting, never comes back to a port
\* that has read it, and reaches no port but the end it was sent to.
DeliveredOnce ==
  /\ NoCopies
  /\ \A e \in DOMAIN ends : \A k \in NextRecvOf(e) :
       \A m \in Queued \cup UnderWay : m.from = Conjugate(e) => m.num >= k
  /\ \A a \in DOMAIN ports : ports[a].state = "receiving" =>
       \A m \in ports[a].queue : m.from = Conjugate(ports[a].end)

\* A port learns of closure only when its conjugate has been closed, and with
\* the number of the last message that was sent to it, so that it reads all
\* of them and then reports the closure (comment in Node::ClosePort).
ClosureExact ==
  alive = Node =>
    \A a \in DOMAIN ports :
      ports[a].state = "receiving" /\ ports[a].peerClosed =>
        LET c == Conjugate(ports[a].end)
        IN /\ PortSeats(c) = {} /\ WireSeats(c) = {}
           /\ ports[a].lastRecv = ends[c].sent

\* Nothing is under way, no loop over ports is unfinished and every death has
\* been noticed by those that had a channel.
Quiet == /\ net = EmptyBag
         /\ orphans = {}
         /\ \A nm \in peers : nm[2] \in alive

\* Nobody waits for a dead process: when all is quiet, a port that faces one
\* has been told, also if it arrived, or learnt of that peer, only after its
\* node had dropped the channel (LostConnectionToNode, OnIntroduce with an
\* invalid channel).  Ports on the broker are excepted: nothing tells them.
DeathNoticed ==
  Quiet => \A a \in DOMAIN ports :
             /\ ports[a].state = "receiving"
             /\ a[1] # Broker
             /\ ports[a].peer[1] \notin alive
             => ports[a].peerClosed

\* Both ends of a broken pipe observe it (bindings/README.md, Connection
\* Errors): when all is quiet, a port whose conjugate is no more has been
\* told; nothing else will ever tell it.
NobodyStranded ==
  Quiet => \A a \in DOMAIN ports :
             LET c == Conjugate(ports[a].end)
             IN ports[a].state = "receiving" /\ PortSeats(c) = {}
                  => ports[a].peerClosed

\* A message that can be read does not wait unannounced: the embedder has a
\* PortStatusChanged for the port still to serve.  (A port taken from a
\* message was not signalable while messages reached it.)
NoLostWakeup ==
  \A a \in held \cap DOMAIN ports :
    /\ ports[a].state = "receiving"
    /\ HasNextMessage(ports[a])
    /\ CanAcceptMoreMessages(ports[a])
    => a \in notified

\* A process that CanShutdownCleanly carries nobody else's messages: none is
\* queued in its ports, or under way to it, for an end that lives elsewhere.
ShutdownSafe ==
  alive = Node => \A n \in Node : CanShutdownCleanly(n) =>
    \A m \in (UNION {ports[a].queue : a \in On(n, DOMAIN ports)})
               \cup {e.msg : e \in {x \in BagToSet(net) :
                               x.type = "UserMessage" /\ x.to[1] = n}} :
      PortSeats(Conjugate(m.from)) \subseteq On(n, DOMAIN ports)

\* How a port may differ later on: it never leaves proxying, and leaves
\* buffering only for proxying.
Later(r, q) ==
  /\ r.state = "buffering" => q.state \in {"buffering", "proxying"}
  /\ r.state = "proxying" => q.state = "proxying"
  /\ q.nextRecv >= r.nextRecv
  /\ q.state = "receiving" => q.nextSend >= r.nextSend
  /\ r.peerClosed => q.peerClosed
  /\ q.end = r.end
Advances == \A a \in DOMAIN ports \cap DOMAIN ports' :
              Later(ports[a], ports'[a])

\* A port that stays in ports_ only advances: one that has moved away never
\* receives again, closure once observed is not forgotten, and the numbers of
\* messages sent and received only grow, whatever backpedalling does.
PortStateMachine == [][Advances]_vars

\* Once the embedder has been told that the peer is closed and all messages
\* have been read (ERROR_PORT_PEER_CLOSED), it stays so.
ClosureFinal ==
  [][\A a \in DOMAIN ports \cap DOMAIN ports' :
       /\ ports[a].state = "receiving"
       /\ ~CanAcceptMoreMessages(ports[a])
       => ~CanAcceptMoreMessages(ports'[a])]_vars

==============================================================================
