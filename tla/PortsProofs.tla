----------------------------- MODULE PortsProofs -----------------------------
(***************************************************************************)
(* Proofs about Ports, for any nodes, pipes, bounds and behaviour of the   *)
(* embedder.  A handler is a composition of operations on a handler state, *)
(* so each operation has a lemma: it takes handler states to handler       *)
(* states.  The type invariant is inductive because of these lemmas.  From *)
(* the same composition it follows that a port only advances.              *)
(***************************************************************************)
EXTENDS Ports, FiniteSetTheorems, TLAPS

PortMap == UNION {[S -> Port] : S \in SUBSET Addr}

\* What Begin is, and what the private operations of Node make of it.
HandlerState ==
  [ports: PortMap, out: SUBSET Event, lastName: Nat, changed: SUBSET Addr,
   orphans: SUBSET Addr, peers: SUBSET (Node \X Node), oops: SUBSET Oops,
   ok: BOOLEAN]

-----------------------------------------------------------------------------
(***************************************************************************)
(* Functions and finite sets.                                              *)
(***************************************************************************)
\* A set of ports is typed as a whole iff it is typed port by port.
LEMMA PortMapCharacterised ==
  ASSUME NEW ps
  PROVE  ps \in PortMap <=> /\ ps = [a \in DOMAIN ps |-> ps[a]]
                            /\ DOMAIN ps \subseteq Addr
                            /\ \A a \in DOMAIN ps : ps[a] \in Port
BY DEF PortMap

\* The values of a function on a finite set are finitely many.
LEMMA FiniteValues ==
  ASSUME NEW f, IsFiniteSet(DOMAIN f)
  PROVE  IsFiniteSet({f[x] : x \in DOMAIN f})
<1> DEFINE S == DOMAIN f
           T == {f[x] : x \in S}
           g == [x \in S |-> f[x]]
<1>1. g \in Surjection(S, T)
  BY DEF Surjection
<1>2. QED
  BY <1>1, FS_Surjection

\* Ports attached to finitely many messages are finitely many.
LEMMA AttachedFinite ==
  ASSUME NEW M \in FiniteSubset(Message)
  PROVE  /\ Attached(M) \subseteq PortName
         /\ IsFiniteSet(Attached(M))
<1> DEFINE f == [m \in M |-> m.att]
           U == UNION {m.att : m \in M}
           g == [d \in U |-> d.name]
<1>1. IsFiniteSet({f[m] : m \in DOMAIN f})
  <2>1. IsFiniteSet(DOMAIN f)
    BY DEF FiniteSubset
  <2>2. QED
    BY <2>1, FiniteValues
<1>2. {f[m] : m \in DOMAIN f} = {m.att : m \in M}
  OBVIOUS
<1>3. \A T \in {m.att : m \in M} : IsFiniteSet(T) /\ T \subseteq Descriptor
  BY DEF FiniteSubset, Message
<1>4. IsFiniteSet(U) /\ U \subseteq Descriptor
  BY <1>1, <1>2, <1>3, FS_UNION
<1>5. IsFiniteSet({g[d] : d \in DOMAIN g})
  BY <1>4, FiniteValues
<1>6. {g[d] : d \in DOMAIN g} = Attached(M)
  BY DEF Attached
<1>7. Attached(M) \subseteq PortName
  BY <1>4 DEF Attached, Descriptor, Moved, Staying
<1>8. QED
  BY <1>5, <1>6, <1>7

\* The ports attached to one message.
LEMMA AttachedToOne ==
  ASSUME NEW m
  PROVE  Attached({m}) = {d.name : d \in m.att}
<1>1. UNION {x.att : x \in {m}} = m.att
  OBVIOUS
<1>2. QED
  BY <1>1 DEF Attached

\* Subsets of the messages of a queue are finite sets of messages.
LEMMA SubsetOfFinite ==
  ASSUME NEW S, NEW Q \in FiniteSubset(S), NEW T, T \subseteq Q
  PROVE  /\ T \in FiniteSubset(S)
         /\ Cardinality(T) \in Nat
<1>1. IsFiniteSet(Q) /\ Q \subseteq S
  BY DEF FiniteSubset
<1>2. T \in SUBSET Q
  OBVIOUS
<1>3. IsFiniteSet(T)
  BY <1>1, <1>2, FS_Subset
<1>4. QED
  BY <1>1, <1>3, FS_CardinalityType DEF FiniteSubset

\* Fresh names are names above those generated before.
LEMMA FreshNames ==
  ASSUME NEW last \in Nat, NEW S \in SUBSET PortName, IsFiniteSet(S)
  PROVE  /\ Fresh(last, S) \in [S -> PortName]
         /\ \A p \in S : Fresh(last, S)[p] > last
         /\ Cardinality(S) \in Nat
<1>1. ASSUME NEW p \in S
      PROVE  Cardinality({q \in S : q <= p}) \in Nat \ {0}
  <2> DEFINE T == {q \in S : q <= p}
  <2>1. IsFiniteSet(T)
    BY FS_Subset
  <2>2. p \in T
    BY DEF PortName
  <2>3. QED
    BY <2>1, <2>2, FS_CardinalityType, FS_EmptySet
<1>2. \A p \in S : Fresh(last, S)[p] =
                     last + Cardinality({q \in S : q <= p})
  BY DEF Fresh
<1>3. ASSUME NEW p \in S
      PROVE  Fresh(last, S)[p] \in PortName /\ Fresh(last, S)[p] > last
  <2> DEFINE k == Cardinality({q \in S : q <= p})
  <2>1. k \in Nat \ {0}
    BY <1>1
  <2>2. Fresh(last, S)[p] = last + k
    BY <1>2
  <2> HIDE DEF k
  <2>3. QED
    BY <2>1, <2>2 DEF PortName
<1>4. DOMAIN Fresh(last, S) = S /\ Fresh(last, S) = [p \in S |-> Fresh(last, S)[p]]
  BY DEF Fresh
<1>5. QED
  BY <1>3, <1>4, FS_CardinalityType

-----------------------------------------------------------------------------
(***************************************************************************)
(* Ports, descriptors and events.                                          *)
(***************************************************************************)
\* The port that CreatePortPair puts into ports_ is well-typed.
LEMMA NewPortType ==
  ASSUME NEW peer \in Addr, NEW end \in PortName
  PROVE  NewPort(peer, end) \in Port
<1>1. {} \in FiniteSubset(Message)
  BY FS_EmptySet DEF FiniteSubset
<1>2. QED
  BY <1>1 DEF NewPort, Port, State, kInitialSequenceNum

\* AcceptPort makes a well-typed port of every descriptor of a port that has
\* moved.
LEMMA AcceptedPortType ==
  ASSUME NEW d \in Moved
  PROVE  AcceptedPort(d) \in Port
<1>1. /\ d.peer \in Addr /\ d.end \in PortName
      /\ d.nextSend \in Int /\ d.nextRecv \in Nat \ {0} /\ d.lastRecv \in Int
      /\ d.peerClosed \in BOOLEAN
  BY DEF Moved
<1>2. NewPort(d.peer, d.end) \in Port
  BY <1>1, NewPortType
<1>3. QED
  BY <1>1, <1>2 DEF AcceptedPort, Port

\* A port attached to a message for its own node is described by its name
\* alone, as a port that stays.
LEMMA LocalPortType ==
  ASSUME NEW p \in PortName, NEW end \in PortName
  PROVE  LocalPort(p, end) \in Staying
BY DEF LocalPort, Staying, kInitialSequenceNum

\* ConvertToProxy gives a well-typed port: the proxy has a valid target.
LEMMA ConvertToProxyType ==
  ASSUME NEW r \in Port, NEW to \in Addr
  PROVE  ConvertToProxy(r, to) \in Port
BY DEF ConvertToProxy, Port, State

\* The descriptor written for a port that leaves is one from which the
\* receiving node can make a port.
LEMMA DescriptorOfType ==
  ASSUME NEW a \in Addr, NEW r \in Port, NEW name \in PortName
  PROVE  DescriptorOf(a, r, name) \in Moved
BY DEF DescriptorOf, Moved, Port

\* Each constructor of events, given a valid target, gives a well-typed event.
LEMMA EventTypes ==
  ASSUME NEW n \in Node, NEW to \in Addr
  PROVE  /\ \A m \in Message : UserMessage(n, to, m) \in Event
         /\ PortAccepted(n, to) \in Event
         /\ \A p, t \in Addr : ObserveProxy(n, to, p, t) \in Event
         /\ \A l \in Int : ObserveProxyAck(n, to, l) \in Event
         /\ \A l \in Int : ObserveClosure(n, to, l) \in Event
         /\ \A d \in Moved : MergePort(n, to, d) \in Event
BY DEF Event, UserMessage, PortAccepted, ObserveProxy, ObserveProxyAck,
       ObserveClosure, MergePort

\* An address on a node, built from its parts.
LEMMA AddrParts ==
  /\ \A a \in Addr : a[1] \in Node /\ a[2] \in PortName /\ a = <<a[1], a[2]>>
  /\ \A n \in Node, p \in PortName : <<n, p>> \in Addr
BY DEF Addr

-----------------------------------------------------------------------------
(***************************************************************************)
(* The private operations of Node keep the type of the handler state.      *)
(***************************************************************************)
\* Replacing one port by a port.
LEMMA SetPort ==
  ASSUME NEW st \in HandlerState, NEW a \in DOMAIN st.ports, NEW r \in Port
  PROVE  /\ [st EXCEPT !.ports[a] = r] \in HandlerState
         /\ [st.ports EXCEPT ![a] = r] \in PortMap
<1>1. PICK S \in SUBSET Addr : st.ports \in [S -> Port]
  BY DEF HandlerState, PortMap
<1>2. [st.ports EXCEPT ![a] = r] \in [S -> Port]
  BY <1>1
<1>3. [st.ports EXCEPT ![a] = r] \in PortMap
  BY <1>2 DEF PortMap
<1>4. QED
  BY <1>3 DEF HandlerState

\* The facts about a port of a handler state that the other lemmas use.
LEMMA PortOfState ==
  ASSUME NEW st \in HandlerState, NEW a \in DOMAIN st.ports
  PROVE  /\ a \in Addr /\ a[1] \in Node /\ a[2] \in PortName
         /\ st.ports[a] \in Port
         /\ st.ports[a].peer \in Addr
         /\ st.ports[a].queue \in FiniteSubset(Message)
         /\ st.ports[a].nextSend \in Int
         /\ st.ports[a].nextRecv \in Nat \ {0}
         /\ st.ports[a].lastRecv \in Int
         /\ st.ports[a].sendOnRemoval \in Addr \cup {NoAddr}
<1>1. st.ports \in PortMap
  BY DEF HandlerState
<1>2. a \in Addr /\ st.ports[a] \in Port
  BY <1>1, PortMapCharacterised
<1>3. QED
  BY <1>2, AddrParts DEF Port

\* A message with rewritten attachments is a message.
LEMMA RewrittenMessage ==
  ASSUME NEW m \in Message, NEW f \in [m.att -> Descriptor]
  PROVE  [m EXCEPT !.att = {f[d] : d \in m.att}] \in Message
<1>1. IsFiniteSet(DOMAIN f)
  BY DEF Message, FiniteSubset
<1>2. IsFiniteSet({f[d] : d \in m.att})
  BY <1>1, FiniteValues
<1>3. {f[d] : d \in m.att} \in FiniteSubset(Descriptor)
  BY <1>2 DEF FiniteSubset
<1>4. QED
  BY <1>3 DEF Message

\* The fields of a handler state that the forwarding of messages changes.
Updated(st, ps, sent, k, told) ==
  [st EXCEPT !.ports = ps, !.out = @ \cup sent, !.lastName = @ + k,
             !.changed = @ \cup told]

\* Values of these types in these fields make a handler state.
LEMMA UpdateState ==
  ASSUME NEW st \in HandlerState, NEW ps \in PortMap,
         NEW sent \in SUBSET Event, NEW k \in Nat, NEW told \in SUBSET Addr
  PROVE  /\ Updated(st, ps, sent, k, told) \in HandlerState
         /\ Updated(st, ps, sent, k, told).ports = ps
         /\ Updated(st, ps, sent, k, told).ok = st.ok
<1>1. st.lastName + k \in Nat
  BY DEF HandlerState
<1>2. QED
  BY <1>1 DEF HandlerState, Updated

\* Forwarding messages whose attached ports are on the node.
LEMMA PrepareToForwardType ==
  ASSUME NEW st \in HandlerState, NEW a \in DOMAIN st.ports,
         NEW M \in FiniteSubset(Message),
         \A p \in Attached(M) : <<a[1], p>> \in DOMAIN st.ports
  PROVE  LET new == PrepareToForwardUserMessage(st, a, M)
         IN  /\ new \in HandlerState
             /\ DOMAIN new.ports = DOMAIN st.ports
             /\ new.ok = st.ok
<1> DEFINE n == a[1]
           to == st.ports[a].peer
           moved == IF to[1] = n THEN {} ELSE Attached(M)
           fresh == Fresh(st.lastName, moved)
           Rewritten(d) ==
             IF d.name \in moved
             THEN DescriptorOf(<<n, d.name>>, st.ports[<<n, d.name>>],
                               fresh[d.name])
             ELSE d
           ps == [b \in DOMAIN st.ports |->
                    IF b[1] = n /\ b[2] \in moved
                    THEN ConvertToProxy(st.ports[b], <<to[1], fresh[b[2]]>>)
                    ELSE st.ports[b]]
           sent == {UserMessage(n, to,
                      [m EXCEPT !.att = {Rewritten(d) : d \in m.att}])
                    : m \in M}
           told == {b \in DOMAIN st.ports :
                      b[1] = n /\ \E p \in moved :
                                     st.ports[<<n, p>>].peer = b}
<1>1. PrepareToForwardUserMessage(st, a, M) =
        [st EXCEPT !.ports = ps, !.out = @ \cup sent,
                   !.lastName = @ + Cardinality(moved),
                   !.changed = @ \cup told]
  BY DEF PrepareToForwardUserMessage
<1>2. n \in Node /\ to \in Addr /\ to[1] \in Node /\ st.lastName \in Nat
  BY PortOfState, AddrParts DEF HandlerState
<1>3. moved \in SUBSET PortName /\ IsFiniteSet(moved)
  BY AttachedFinite, FS_EmptySet
<1>4. /\ fresh \in [moved -> PortName]
      /\ Cardinality(moved) \in Nat
  BY <1>2, <1>3, FreshNames
<1>5. \A p \in moved : <<n, p>> \in DOMAIN st.ports /\ <<n, p>> \in Addr
  BY PortOfState
<1> HIDE DEF moved, fresh
<1>6. ps \in PortMap /\ DOMAIN ps = DOMAIN st.ports
  <2>1. ASSUME NEW b \in DOMAIN st.ports
        PROVE  b \in Addr /\ ps[b] \in Port
    <3>1. b \in Addr /\ st.ports[b] \in Port
      BY PortOfState
    <3>2. CASE b[1] = n /\ b[2] \in moved
      <4>1. <<to[1], fresh[b[2]]>> \in Addr
        BY <1>2, <1>4, <3>2, AddrParts
      <4>2. ConvertToProxy(st.ports[b], <<to[1], fresh[b[2]]>>) \in Port
        BY <3>1, <4>1, ConvertToProxyType
      <4>3. QED
        BY <3>1, <3>2, <4>2
    <3>3. CASE ~(b[1] = n /\ b[2] \in moved)
      BY <3>1, <3>3
    <3>4. QED
      BY <3>2, <3>3
  <2>2. QED
    BY <2>1, PortMapCharacterised
<1>7. sent \subseteq Event
  <2>1. ASSUME NEW m \in M
        PROVE  [m EXCEPT !.att = {Rewritten(d) : d \in m.att}] \in Message
    <3>1. m \in Message
      BY DEF FiniteSubset
    <3>2. \A d \in m.att : Rewritten(d) \in Descriptor
      <4>1. SUFFICES ASSUME NEW d \in m.att
                     PROVE  Rewritten(d) \in Descriptor
        OBVIOUS
      <4>2. d \in Descriptor
        BY <3>1 DEF Message, FiniteSubset
      <4>3. CASE d.name \in moved
        <5>1. /\ <<n, d.name>> \in DOMAIN st.ports /\ <<n, d.name>> \in Addr
              /\ fresh[d.name] \in PortName
          BY <1>4, <1>5, <4>3
        <5>2. st.ports[<<n, d.name>>] \in Port
          BY <5>1, PortOfState
        <5>3. DescriptorOf(<<n, d.name>>, st.ports[<<n, d.name>>],
                           fresh[d.name]) \in Moved
          BY <5>1, <5>2, DescriptorOfType
        <5>4. QED
          BY <4>3, <5>3 DEF Descriptor
      <4>4. QED
        BY <4>2, <4>3
    <3> DEFINE f == [d \in m.att |-> Rewritten(d)]
    <3>3. f \in [m.att -> Descriptor]
      BY <3>2
    <3>4. {f[d] : d \in m.att} = {Rewritten(d) : d \in m.att}
      OBVIOUS
    <3>5. [m EXCEPT !.att = {f[d] : d \in m.att}] \in Message
      BY <3>1, <3>3, RewrittenMessage
    <3>6. QED
      BY <3>4, <3>5
  <2>2. QED
    BY <1>2, <2>1, EventTypes
<1>8. told \subseteq Addr
  BY PortOfState
<1> HIDE DEF ps, sent, told, Rewritten
<1>9. ps \in PortMap /\ sent \in SUBSET Event /\ told \in SUBSET Addr
  BY <1>6, <1>7, <1>8
<1>10. PrepareToForwardUserMessage(st, a, M)
         = Updated(st, ps, sent, Cardinality(moved), told)
  BY <1>1 DEF Updated
<1>11. QED
  BY <1>4, <1>6, <1>9, <1>10, UpdateState
\* Taking messages from a port leaves a port.
LEMMA TakenPort ==
  ASSUME NEW r \in Port, NEW T, T \subseteq r.queue, NEW i \in Nat, NEW j \in Nat
  PROVE  [r EXCEPT !.queue = @ \ T, !.nextRecv = @ + i, !.nextSend = @ - j]
           \in Port
<1>1. r.queue \in FiniteSubset(Message) /\ r.nextSend \in Int
        /\ r.nextRecv \in Nat \ {0}
  BY DEF Port
<1>2. r.queue \ T \in FiniteSubset(Message)
  BY <1>1, SubsetOfFinite
<1>3. r.nextSend - j \in Int /\ r.nextRecv + i \in Nat \ {0}
  BY <1>1
<1>4. QED
  BY <1>2, <1>3 DEF Port

\* A port, the ports left to be closed and the result change together.
Taken(st, a, r, left, ok) ==
  [st EXCEPT !.ports[a] = r, !.orphans = @ \cup left, !.ok = ok]

\* Such a change leaves a handler state.
LEMMA SetPortAndRest ==
  ASSUME NEW st \in HandlerState, NEW a \in DOMAIN st.ports, NEW r \in Port,
         NEW left \in SUBSET Addr, NEW ok \in BOOLEAN
  PROVE  /\ Taken(st, a, r, left, ok) \in HandlerState
         /\ DOMAIN Taken(st, a, r, left, ok).ports = DOMAIN st.ports
<1>1. [st.ports EXCEPT ![a] = r] \in PortMap
  BY SetPort
<1>2. QED
  BY <1>1 DEF HandlerState, Taken

\* The addresses of ports that were attached to messages.
LEMMA AttachedAddrs ==
  ASSUME NEW n \in Node, NEW M \in FiniteSubset(Message)
  PROVE  {<<n, p>> : p \in Attached(M)} \subseteq Addr
BY AttachedFinite, AddrParts

\* Forwarding what is queued in a proxy.
LEMMA ForwardFromProxyType ==
  ASSUME NEW st \in HandlerState, NEW a \in DOMAIN st.ports
  PROVE  /\ ForwardUserMessagesFromProxy(st, a) \in HandlerState
         /\ DOMAIN ForwardUserMessagesFromProxy(st, a).ports = DOMAIN st.ports
<1> DEFINE r == st.ports[a]
           M == Sequential(r)
           bad == {m \in M : \E p \in Attached({m}) : Unsendable(st, a, p)}
           lost == {m \in bad : \A x \in bad : m.seq <= x.seq}
           sent == {m \in M : \A x \in bad : m.seq < x.seq}
           port == [r EXCEPT !.queue = @ \ (sent \cup lost),
                             !.nextRecv = @ + Cardinality(sent \cup lost),
                             !.nextSend = @ - Cardinality(lost)]
           left == {<<a[1], p>> : p \in Attached(lost)}
           none == lost = {}
           taken == Taken(st, a, port, left, none)
<1>1. ForwardUserMessagesFromProxy(st, a)
        = PrepareToForwardUserMessage(taken, a, sent)
  BY DEF ForwardUserMessagesFromProxy, Taken
<1>2. r \in Port /\ r.queue \in FiniteSubset(Message) /\ a[1] \in Node
  BY PortOfState
<1>3. M \subseteq r.queue
  BY DEF Sequential
<1>4. ASSUME NEW m \in sent, NEW p \in Attached({m})
      PROVE  <<a[1], p>> \in DOMAIN st.ports
  <2>1. m.seq \in Nat
    BY <1>2, <1>3 DEF FiniteSubset, Message
  <2>2. m \notin bad
    BY <2>1
  <2>3. QED
    BY <2>2 DEF Unsendable
<1>5. /\ lost \subseteq r.queue /\ sent \subseteq r.queue
      /\ sent \cup lost \subseteq r.queue
  BY <1>3
<1> HIDE DEF r, M, lost, sent
<1>6. /\ lost \in FiniteSubset(Message) /\ sent \in FiniteSubset(Message)
      /\ Cardinality(lost) \in Nat /\ Cardinality(sent \cup lost) \in Nat
  BY <1>2, <1>5, SubsetOfFinite
<1>7. port \in Port
  BY <1>2, <1>5, <1>6, TakenPort
<1>8. left \in SUBSET Addr
  BY <1>2, <1>6, AttachedAddrs
<1>9. none \in BOOLEAN
  OBVIOUS
<1> HIDE DEF port, left, none
<1>10. taken \in HandlerState /\ DOMAIN taken.ports = DOMAIN st.ports
  BY <1>7, <1>8, <1>9, SetPortAndRest
<1> HIDE DEF taken
<1>11. \A p \in Attached(sent) : <<a[1], p>> \in DOMAIN taken.ports
  BY <1>4, <1>10 DEF Attached
<1>12. QED
  BY <1>1, <1>6, <1>10, <1>11, PrepareToForwardType
\* A port is erased, events are sent and ports are left to be closed.
Erased(st, a, sent, left) ==
  [st EXCEPT !.ports = Erase(@, a), !.out = @ \cup sent,
             !.orphans = @ \cup left]

\* Erasing a port leaves a handler state with the other ports.
LEMMA ErasePort ==
  ASSUME NEW st \in HandlerState, NEW a, NEW sent \in SUBSET Event,
         NEW left \in SUBSET Addr
  PROVE  /\ Erased(st, a, sent, left) \in HandlerState
         /\ DOMAIN Erased(st, a, sent, left).ports = DOMAIN st.ports \ {a}
         /\ Erased(st, a, sent, left).ok = st.ok
<1>1. st.ports \in PortMap
  BY DEF HandlerState
<1>2. Erase(st.ports, a) \in PortMap
  BY <1>1, PortMapCharacterised DEF Erase
<1>3. DOMAIN Erase(st.ports, a) = DOMAIN st.ports \ {a}
  BY DEF Erase
<1>4. QED
  BY <1>2, <1>3 DEF HandlerState, Erased

\* Sending events leaves a handler state.
LEMMA SendEvents ==
  ASSUME NEW st \in HandlerState, NEW sent \in SUBSET Event
  PROVE  /\ [st EXCEPT !.out = @ \cup sent] \in HandlerState
         /\ [st EXCEPT !.out = @ \cup sent].ports = st.ports
         /\ [st EXCEPT !.out = @ \cup sent].ok = st.ok
BY DEF HandlerState

\* A proxy may leave; the other ports stay.
LEMMA TryRemoveProxyType ==
  ASSUME NEW st \in HandlerState, NEW a \in DOMAIN st.ports
  PROVE  /\ TryRemoveProxy(st, a) \in HandlerState
         /\ DOMAIN st.ports \ {a} \subseteq DOMAIN TryRemoveProxy(st, a).ports
<1> DEFINE r == st.ports[a]
           ack == IF r.sendOnRemoval = NoAddr THEN {}
                  ELSE {ObserveProxyAck(a[1], r.sendOnRemoval,
                                        kInvalidSequenceNum)}
           left == {<<a[1], p>> : p \in Attached(r.queue)}
<1>1. ack \in SUBSET Event
  <2>1. CASE r.sendOnRemoval = NoAddr
    BY <2>1
  <2>2. CASE r.sendOnRemoval # NoAddr
    <3>1. r.sendOnRemoval \in Addr /\ a[1] \in Node
      BY <2>2, PortOfState
    <3>2. kInvalidSequenceNum \in Int
      BY DEF kInvalidSequenceNum
    <3>3. QED
      BY <3>1, <3>2, EventTypes
  <2>3. QED
    BY <2>1, <2>2
<1>2. left \in SUBSET Addr
  BY PortOfState, AttachedAddrs
<1>3. \/ TryRemoveProxy(st, a) = st
      \/ TryRemoveProxy(st, a) = Erased(st, a, ack, left)
  BY DEF TryRemoveProxy, Erased, HandlerState
<1>4. QED
  BY <1>1, <1>2, <1>3, ErasePort

\* A proxy announces itself.
LEMMA InitiateProxyRemovalType ==
  ASSUME NEW st \in HandlerState, NEW a \in DOMAIN st.ports
  PROVE  /\ InitiateProxyRemoval(st, a) \in HandlerState
         /\ InitiateProxyRemoval(st, a).ports = st.ports
<1> DEFINE to == st.ports[a].peer
           sent == {ObserveProxy(a[1], to, a, to)}
<1>1. a \in Addr /\ a[1] \in Node /\ to \in Addr
  BY PortOfState
<1>2. sent \in SUBSET Event
  BY <1>1, EventTypes
<1>3. InitiateProxyRemoval(st, a) = [st EXCEPT !.out = @ \cup sent]
  BY DEF InitiateProxyRemoval
<1>4. QED
  BY <1>2, <1>3, SendEvents

\* A port may be closed; the other ports stay.
LEMMA CloseType ==
  ASSUME NEW st \in HandlerState, NEW a \in DOMAIN st.ports
  PROVE  /\ Close(st, a) \in HandlerState
         /\ DOMAIN st.ports \ {a} \subseteq DOMAIN Close(st, a).ports
<1> DEFINE r == st.ports[a]
           sent == {ObserveClosure(a[1], r.peer, r.nextSend - 1)}
           left == {<<a[1], p>> : p \in Attached(r.queue)}
<1>1. a[1] \in Node /\ r.peer \in Addr /\ r.nextSend - 1 \in Int
  BY PortOfState
<1>2. sent \in SUBSET Event
  BY <1>1, EventTypes
<1>3. left \in SUBSET Addr
  BY PortOfState, AttachedAddrs
<1>4. \/ Close(st, a) = st
      \/ Close(st, a) = Erased(st, a, sent, left)
  BY DEF Close, Erased
<1>5. QED
  BY <1>2, <1>3, <1>4, ErasePort
\* Two ports are replaced.
TwoPorts(st, a, r, b, q) == [st EXCEPT !.ports[a] = r, !.ports[b] = q]

\* Replacing two ports by ports.
LEMMA SetTwoPorts ==
  ASSUME NEW st \in HandlerState, NEW a \in DOMAIN st.ports,
         NEW b \in DOMAIN st.ports, NEW r \in Port, NEW q \in Port
  PROVE  /\ TwoPorts(st, a, r, b, q) \in HandlerState
         /\ DOMAIN TwoPorts(st, a, r, b, q).ports = DOMAIN st.ports
<1> DEFINE s == [st EXCEPT !.ports[a] = r]
<1>1. s \in HandlerState
  BY SetPort
<1>2. s.ports = [st.ports EXCEPT ![a] = r]
  BY DEF HandlerState
<1>3. b \in DOMAIN s.ports
  BY <1>2
<1>4. [s.ports EXCEPT ![b] = q] \in PortMap
  BY <1>1, <1>3, SetPort
<1>5. TwoPorts(st, a, r, b, q)
        = [st EXCEPT !.ports = [s.ports EXCEPT ![b] = q]]
  BY <1>2 DEF HandlerState, TwoPorts
<1> HIDE DEF s
<1>6. DOMAIN [s.ports EXCEPT ![b] = q] = DOMAIN st.ports
  BY <1>2
<1>7. QED
  BY <1>4, <1>5, <1>6 DEF HandlerState

\* The exchange of peers, and its undoing, keep the ports.
LEMMA SwapType ==
  ASSUME NEW st \in HandlerState, NEW a \in DOMAIN st.ports,
         NEW b \in DOMAIN st.ports
  PROVE  /\ SwapPeers(st, a, b) \in HandlerState
         /\ DOMAIN SwapPeers(st, a, b).ports = DOMAIN st.ports
         /\ UndoSwap(st, a, b) \in HandlerState
         /\ DOMAIN UndoSwap(st, a, b).ports = DOMAIN st.ports
<1> DEFINE Proxy(r, peer) ==
             [r EXCEPT !.state = "proxying", !.peer = peer,
                       !.removeOnLast = @ \/ r.peerClosed]
           Receiving(r, peer) ==
             [r EXCEPT !.state = "receiving", !.peer = peer,
                       !.removeOnLast = FALSE]
<1>1. \A r \in Port, peer \in Addr :
        Proxy(r, peer) \in Port /\ Receiving(r, peer) \in Port
  BY DEF Port, State
<1>2. /\ st.ports[a] \in Port /\ st.ports[b] \in Port
      /\ st.ports[a].peer \in Addr /\ st.ports[b].peer \in Addr
  BY PortOfState
<1>3. /\ SwapPeers(st, a, b) =
           TwoPorts(st, a, Proxy(st.ports[a], st.ports[b].peer),
                    b, Proxy(st.ports[b], st.ports[a].peer))
      /\ UndoSwap(st, a, b) =
           TwoPorts(st, a, Receiving(st.ports[a], st.ports[b].peer),
                    b, Receiving(st.ports[b], st.ports[a].peer))
  BY DEF SwapPeers, UndoSwap, TwoPorts
<1> HIDE DEF Proxy, Receiving
<1>4. /\ Proxy(st.ports[a], st.ports[b].peer) \in Port
      /\ Proxy(st.ports[b], st.ports[a].peer) \in Port
      /\ Receiving(st.ports[a], st.ports[b].peer) \in Port
      /\ Receiving(st.ports[b], st.ports[a].peer) \in Port
  BY <1>1, <1>2
<1>5. QED
  BY <1>3, <1>4, SetTwoPorts

\* A port that now proxies may leave; the other ports stay.
LEMMA StartRemovalType ==
  ASSUME NEW st \in HandlerState, NEW a \in DOMAIN st.ports
  PROVE  /\ StartRemoval(st, a) \in HandlerState
         /\ DOMAIN st.ports \ {a} \subseteq DOMAIN StartRemoval(st, a).ports
<1> DEFINE r == st.ports[a]
           sent == {ObserveClosure(a[1], r.peer, r.lastRecv)}
           s == [st EXCEPT !.out = @ \cup sent]
<1>1. sent \in SUBSET Event
  BY PortOfState, EventTypes
<1>2. s \in HandlerState /\ s.ports = st.ports
  BY <1>1, SendEvents
<1>3. \/ StartRemoval(st, a) = TryRemoveProxy(s, a)
      \/ StartRemoval(st, a) = InitiateProxyRemoval(st, a)
  BY DEF StartRemoval
<1> HIDE DEF s
<1>4. QED
  BY <1>2, <1>3, TryRemoveProxyType, InitiateProxyRemovalType

\* A port that begins proxying forwards what it has buffered.
LEMMA BeginProxyingType ==
  ASSUME NEW st \in HandlerState, NEW a \in DOMAIN st.ports
  PROVE  BeginProxying(st, a) \in HandlerState
<1> DEFINE s == [st EXCEPT !.ports[a].state = "proxying"]
           port == [st.ports[a] EXCEPT !.state = "proxying"]
           forwarded == ForwardUserMessagesFromProxy(s, a)
           reported == [st EXCEPT !.oops = @ \cup {"begin proxying"}]
<1>1. port \in Port
  BY PortOfState DEF Port, State
<1>2. s = [st EXCEPT !.ports[a] = port]
  BY DEF HandlerState
<1> HIDE DEF port
<1>3. s \in HandlerState /\ DOMAIN s.ports = DOMAIN st.ports
  BY <1>1, <1>2, SetPort DEF HandlerState
<1>4. \/ BeginProxying(st, a) = reported
      \/ BeginProxying(st, a) = forwarded
      \/ BeginProxying(st, a) = StartRemoval(forwarded, a)
  BY DEF BeginProxying
<1> HIDE DEF s
<1>5. forwarded \in HandlerState /\ a \in DOMAIN forwarded.ports
  BY <1>3, ForwardFromProxyType
<1> HIDE DEF forwarded
<1>6. reported \in HandlerState
  BY DEF HandlerState, Oops
<1> HIDE DEF reported
<1>7. StartRemoval(forwarded, a) \in HandlerState
  BY <1>5, StartRemovalType
<1>8. QED
  BY <1>4, <1>5, <1>6, <1>7
\* Accepting moved ports adds ports.
LEMMA AcceptPortsType ==
  ASSUME NEW st \in HandlerState, NEW n \in Node, NEW D \in SUBSET Moved
  PROVE  /\ AcceptPorts(st, n, D) \in HandlerState
         /\ DOMAIN AcceptPorts(st, n, D).ports
              = DOMAIN st.ports \cup {<<n, d.name>> : d \in D}
         /\ AcceptPorts(st, n, D).ok
              <=> \A d \in D : <<n, d.name>> \notin DOMAIN st.ports
<1> DEFINE B == {<<n, d.name>> : d \in D}
           new == [b \in B |-> AcceptedPort(CHOOSE d \in D : d.name = b[2])]
           ps == Extend(st.ports, new)
           sent == {PortAccepted(n, d.referring) : d \in D}
           ok == \A d \in D : <<n, d.name>> \notin DOMAIN st.ports
<1>1. ASSUME NEW b \in B
      PROVE  b \in Addr /\ new[b] \in Port
  <2>1. PICK d \in D : b = <<n, d.name>>
    OBVIOUS
  <2>2. d.name \in PortName /\ d.name = b[2]
    BY <2>1 DEF Moved
  <2> DEFINE c == CHOOSE x \in D : x.name = b[2]
  <2>3. c \in D
    BY <2>2
  <2> HIDE DEF c
  <2>4. AcceptedPort(c) \in Port
    BY <2>3, AcceptedPortType
  <2>5. new[b] = AcceptedPort(c)
    BY DEF c
  <2>6. QED
    BY <2>1, <2>2, <2>4, <2>5, AddrParts
<1>2. st.ports \in PortMap
  BY DEF HandlerState
<1>3. DOMAIN ps = DOMAIN st.ports \cup B
  BY DEF Extend
<1>4. ASSUME NEW b \in DOMAIN ps
      PROVE  b \in Addr /\ ps[b] \in Port
  <2>1. CASE b \in DOMAIN st.ports
    BY <1>2, <2>1, PortMapCharacterised DEF Extend
  <2>2. CASE b \in B /\ b \notin DOMAIN st.ports
    <3>1. ps[b] = new[b]
      BY <2>2 DEF Extend
    <3>2. QED
      BY <1>1, <2>2, <3>1
  <2>3. QED
    BY <1>3, <2>1, <2>2
<1>5. ps = [b \in DOMAIN ps |-> ps[b]]
  BY DEF Extend
<1> HIDE DEF ps
<1>6. ps \in PortMap
  BY <1>4, <1>5, PortMapCharacterised
<1>7. sent \in SUBSET Event
  <2>1. ASSUME NEW d \in D
        PROVE  PortAccepted(n, d.referring) \in Event
    <3>1. d.referring \in Addr
      BY DEF Moved
    <3>2. QED
      BY <3>1, EventTypes
  <2>2. QED
    BY <2>1
<1>8. ok \in BOOLEAN
  OBVIOUS
<1>9. AcceptPorts(st, n, D)
        = [st EXCEPT !.ports = ps, !.out = @ \cup sent, !.ok = ok]
  BY DEF AcceptPorts, ps
<1> HIDE DEF sent, new
<1>10. [st EXCEPT !.ports = ps, !.out = @ \cup sent, !.ok = ok] \in HandlerState
  BY <1>6, <1>7, <1>8 DEF HandlerState
<1>11. AcceptPorts(st, n, D).ports = ps /\ AcceptPorts(st, n, D).ok = ok
  BY <1>9 DEF HandlerState
<1>12. QED
  BY <1>3, <1>9, <1>10, <1>11

\* Merging two ports.
LEMMA MergeType ==
  ASSUME NEW st \in HandlerState, NEW a \in DOMAIN st.ports,
         NEW b \in DOMAIN st.ports, a # b, NEW allowClose
  PROVE  MergePortsInternal(st, a, b, allowClose) \in HandlerState
<1> DEFINE first == ForwardUserMessagesFromProxy(SwapPeers(st, a, b), a)
           flushed == IF first.ok THEN ForwardUserMessagesFromProxy(first, b)
                      ELSE first
           CloseIf(s, c) == IF allowClose \/ s.ports[c].state = "receiving"
                            THEN Close(s, c) ELSE s
           undone == UndoSwap(flushed, a, b)
           closed == CloseIf(CloseIf(st, a), b)
<1>1. \/ MergePortsInternal(st, a, b, allowClose) = [closed EXCEPT !.ok = FALSE]
      \/ MergePortsInternal(st, a, b, allowClose)
           = StartRemoval(StartRemoval(flushed, a), b)
      \/ MergePortsInternal(st, a, b, allowClose)
           = Close(Close(undone, a), b)
  BY DEF MergePortsInternal
<1>2. first \in HandlerState /\ DOMAIN first.ports = DOMAIN st.ports
  <2>1. /\ SwapPeers(st, a, b) \in HandlerState
        /\ DOMAIN SwapPeers(st, a, b).ports = DOMAIN st.ports
    BY SwapType
  <2>2. QED
    BY <2>1, ForwardFromProxyType
<1> HIDE DEF first
<1>3. flushed \in HandlerState /\ DOMAIN flushed.ports = DOMAIN st.ports
  BY <1>2, ForwardFromProxyType
<1>4. CloseIf(st, a) \in HandlerState /\ b \in DOMAIN CloseIf(st, a).ports
  BY CloseType
<1>5. closed \in HandlerState
  BY <1>4, CloseType
<1> HIDE DEF flushed, closed
<1>6. [closed EXCEPT !.ok = FALSE] \in HandlerState
  BY <1>5 DEF HandlerState
<1>7. undone \in HandlerState /\ DOMAIN undone.ports = DOMAIN st.ports
  BY <1>3, SwapType
<1> HIDE DEF undone
<1>8. Close(Close(undone, a), b) \in HandlerState
  <2>1. Close(undone, a) \in HandlerState /\ b \in DOMAIN Close(undone, a).ports
    BY <1>7, CloseType
  <2>2. QED
    BY <2>1, CloseType
<1>9. StartRemoval(StartRemoval(flushed, a), b) \in HandlerState
  <2>1. /\ StartRemoval(flushed, a) \in HandlerState
        /\ b \in DOMAIN StartRemoval(flushed, a).ports
    BY <1>3, StartRemovalType
  <2>2. QED
    BY <2>1, StartRemovalType
<1>10. QED
  BY <1>1, <1>6, <1>8, <1>9
\* Destroying the ports of a node that a death or a destroyed proxy strands.
LEMMA DestroyType ==
  ASSUME NEW st \in HandlerState, NEW n \in Node, NEW S
  PROVE  DestroyAllPortsWithPeer(st, n, S) \in HandlerState
<1> DEFINE all == Stranded(st, n, S)
           dead == {b \in all : st.ports[b].state # "receiving"}
           fresh == {b \in all \ dead : ~st.ports[b].peerClosed}
           ps == [b \in DOMAIN st.ports \ dead |->
                    IF b \in fresh
                    THEN [st.ports[b] EXCEPT !.peerClosed = TRUE,
                            !.lastRecv = st.ports[b].nextRecv - 1]
                    ELSE st.ports[b]]
           sent == {ProxyDied(n, m, b) : m \in Audience(st, n), b \in dead}
           left == {<<n, p>> :
                      p \in UNION {Attached(st.ports[b].queue) : b \in dead}}
<1>1. all \subseteq DOMAIN st.ports
  BY DEF Stranded, On
<1>2. DestroyAllPortsWithPeer(st, n, S)
        = [st EXCEPT !.ports = ps, !.out = @ \cup sent,
                     !.changed = @ \cup fresh, !.orphans = @ \cup left]
  BY DEF DestroyAllPortsWithPeer
<1> HIDE DEF all
<1>3. dead \subseteq DOMAIN st.ports /\ fresh \subseteq DOMAIN st.ports
  BY <1>1
<1>4. DOMAIN st.ports \subseteq Addr
  BY PortOfState
<1>5. ASSUME NEW b \in DOMAIN st.ports \ dead
      PROVE  ps[b] \in Port
  <2>1. st.ports[b] \in Port /\ st.ports[b].nextRecv - 1 \in Int
    BY PortOfState
  <2>2. [st.ports[b] EXCEPT !.peerClosed = TRUE,
                            !.lastRecv = st.ports[b].nextRecv - 1] \in Port
    BY <2>1 DEF Port
  <2>3. QED
    BY <2>1, <2>2
<1>6. ps \in PortMap
  <2>1. DOMAIN ps = DOMAIN st.ports \ dead /\ ps = [b \in DOMAIN ps |-> ps[b]]
    OBVIOUS
  <2> HIDE DEF ps, dead
  <2>2. QED
    BY <1>4, <1>5, <2>1, PortMapCharacterised
<1>7. sent \in SUBSET Event
  <2>1. ASSUME NEW m \in Node, NEW b \in dead
        PROVE  ProxyDied(n, m, b) \in Event
    BY <1>3, <1>4 DEF ProxyDied, Event
  <2>2. Audience(st, n) \subseteq Node
    BY DEF Audience
  <2>3. QED
    BY <2>1, <2>2
<1>8. left \in SUBSET Addr
  <2>1. ASSUME NEW b \in dead, NEW p \in Attached(st.ports[b].queue)
        PROVE  p \in PortName
    BY <1>3, PortOfState, AttachedFinite
  <2>2. QED
    BY <2>1, AddrParts
<1> HIDE DEF ps, sent, left, fresh
<1>9. fresh \in SUBSET Addr
  BY <1>3, <1>4
<1>10. QED
  BY <1>2, <1>6, <1>7, <1>8, <1>9 DEF HandlerState

\* A port observes that its peer is a proxy.
LEMMA ObserveProxyType ==
  ASSUME NEW st \in HandlerState, NEW a \in DOMAIN st.ports,
         NEW e, e.proxy \in Addr, e.target \in Addr
  PROVE  Bypass(st, a, e) \in HandlerState /\ StashAck(st, a, e) \in HandlerState
<1> DEFINE r == st.ports[a]
           bypassing == [r EXCEPT !.peer = e.target]
           stashing == [r EXCEPT !.sendOnRemoval = e.proxy]
           ack == {ObserveProxyAck(a[1], e.proxy, r.nextSend - 1)}
           told == {a}
           ps == [st.ports EXCEPT ![a] = bypassing]
           qs == [st.ports EXCEPT ![a] = stashing]
<1>1. r \in Port /\ a \in Addr /\ a[1] \in Node /\ r.nextSend - 1 \in Int
  BY PortOfState
<1>2. bypassing \in Port /\ stashing \in Port
  BY <1>1 DEF Port
<1>3. ack \in SUBSET Event /\ told \in SUBSET Addr
  BY <1>1, EventTypes
<1>4. ps \in PortMap /\ qs \in PortMap
  <2> HIDE DEF bypassing, stashing
  <2>1. QED
    BY <1>2, SetPort
<1>5. Bypass(st, a, e) =
        [st EXCEPT !.ports = ps,
                   !.out = @ \cup ack, !.changed = @ \cup told]
  BY DEF Bypass, HandlerState
<1>6. \/ StashAck(st, a, e) =
           [st EXCEPT !.ports = qs]
      \/ StashAck(st, a, e) =
           [st EXCEPT !.ports = qs,
                      !.oops = @ \cup {"stash overwritten"}]
  <2>1. CASE r.sendOnRemoval = NoAddr
    BY <2>1 DEF StashAck, HandlerState
  <2>2. CASE r.sendOnRemoval # NoAddr
    BY <2>2 DEF StashAck, HandlerState
  <2>3. QED
    BY <2>1, <2>2
<1> HIDE DEF ack, told, ps, qs
<1>7. Bypass(st, a, e) \in HandlerState
  BY <1>3, <1>4, <1>5 DEF HandlerState
<1>8. StashAck(st, a, e) \in HandlerState
  BY <1>4, <1>6 DEF HandlerState, Oops
<1>9. QED
  BY <1>7, <1>8

\* A port observes closure.
LEMMA ObservedClosureType ==
  ASSUME NEW st \in HandlerState, NEW a \in DOMAIN st.ports, NEW last \in Int
  PROVE  /\ ObservedClosure(st, a, last) \in HandlerState
         /\ DOMAIN ObservedClosure(st, a, last).ports = DOMAIN st.ports
<1> DEFINE r == st.ports[a]
           rest == IF r.state = "receiving" THEN r.nextSend - 1 ELSE last
           port == [r EXCEPT !.peerClosed = TRUE, !.lastRecv = last,
                             !.removeOnLast = @ \/ r.state # "receiving"]
           told == IF r.state = "receiving" THEN {a} ELSE {}
           sent == {ObserveClosure(a[1], r.peer, rest)}
           ps == [st.ports EXCEPT ![a] = port]
<1>1. /\ r \in Port /\ a \in Addr /\ a[1] \in Node /\ r.peer \in Addr
      /\ rest \in Int
  BY PortOfState
<1>2. port \in Port
  BY <1>1 DEF Port
<1>3. sent \in SUBSET Event
  BY <1>1, EventTypes
<1>4. told \in SUBSET Addr
  BY <1>1
<1>5. ps \in PortMap /\ DOMAIN ps = DOMAIN st.ports
  <2> HIDE DEF port
  <2>1. QED
    BY <1>2, SetPort
<1>6. ObservedClosure(st, a, last) =
        [st EXCEPT !.ports = ps,
                   !.out = @ \cup sent, !.changed = @ \cup told]
  <2>1. CASE r.state = "receiving"
    BY <2>1 DEF ObservedClosure, HandlerState
  <2>2. CASE r.state # "receiving"
    BY <2>2 DEF ObservedClosure, HandlerState
  <2>3. QED
    BY <2>1, <2>2
<1> HIDE DEF ps, sent, told
<1>7. QED
  BY <1>3, <1>4, <1>5, <1>6 DEF HandlerState
-----------------------------------------------------------------------------
(***************************************************************************)
(* The beginning and the end of a handler.                                 *)
(***************************************************************************)
\* What an event of each type carries.
LEMMA EventParts ==
  ASSUME NEW e \in Event
  PROVE  /\ e.src \in Node /\ e.to[1] \in Node
         /\ e.type # "ProxyDied" => e.to \in Addr
         /\ e.type = "UserMessage" => e.msg \in Message
         /\ e.type = "ObserveProxy" => e.proxy \in Addr /\ e.target \in Addr
         /\ e.type = "ObserveProxyAck" => e.last \in Int
         /\ e.type = "ObserveClosure" => e.last \in Int
         /\ e.type = "MergePort" => e.new \in Moved
BY DEF Event, Addr

\* A handler begins with the state of the node.
LEMMA BeginType ==
  ASSUME TypeOK
  PROVE  Begin \in HandlerState /\ Begin.ports = ports /\ Begin.ok
<1>1. ports \in PortMap
  BY PortMapCharacterised DEF TypeOK
<1>2. QED
  BY <1>1 DEF TypeOK, Begin, HandlerState

\* Introductions connect nodes.
LEMMA IntroducedType ==
  ASSUME NEW out \in SUBSET Event
  PROVE  Introduced(out) \subseteq Node \X Node
<1> DEFINE sent == {<<e.src, e.to[1]>> :
                      e \in {x \in out : x.type # "ProxyDied"}}
<1>1. sent \subseteq Node \X Node
  BY EventParts
<1>2. QED
  BY <1>1 DEF Introduced

\* The events added to, and taken from, a bag of events.
LEMMA BagTypes ==
  ASSUME NEW B, DOMAIN B \subseteq Event, NEW S \in SUBSET Event
  PROVE  /\ DOMAIN (B (+) SetToBag(S)) \subseteq Event
         /\ DOMAIN (B (-) SetToBag(S)) \subseteq Event
<1>1. DOMAIN (B (+) SetToBag(S)) = DOMAIN B \cup S
  BY DEF (+), SetToBag
<1>2. DOMAIN (B (-) SetToBag(S)) \subseteq DOMAIN B
  BY DEF (-), SetToBag
<1>3. QED
  BY <1>1, <1>2

\* A handler that ends with a handler state.
Committed ==
  \E st \in HandlerState : \E pending : \E closing \in SUBSET Addr :
    DOMAIN pending \subseteq Event /\ Commit(st, pending, closing)

\* The end of a handler keeps the types of the state.
LEMMA CommitType ==
  ASSUME TypeOK, Committed, alive' = alive, held' \subseteq Addr
  PROVE  TypeOK'
<1>1. PICK st \in HandlerState : \E pending : \E closing \in SUBSET Addr :
        DOMAIN pending \subseteq Event /\ Commit(st, pending, closing)
  BY DEF Committed
<1>2. PICK pending : \E closing \in SUBSET Addr :
        DOMAIN pending \subseteq Event /\ Commit(st, pending, closing)
  BY <1>1
<1>3. PICK closing \in SUBSET Addr :
        DOMAIN pending \subseteq Event /\ Commit(st, pending, closing)
  BY <1>2
<1>4. /\ st.ports \in PortMap /\ st.out \in SUBSET Event /\ st.lastName \in Nat
      /\ st.changed \in SUBSET Addr /\ st.orphans \in SUBSET Addr
      /\ st.peers \in SUBSET (Node \X Node) /\ st.oops \in SUBSET Oops
  BY DEF HandlerState
<1>5. /\ ports' = [a \in DOMAIN ports' |-> ports'[a]]
      /\ DOMAIN ports' \subseteq Addr
      /\ \A a \in DOMAIN ports' : ports'[a] \in Port
  <2>1. ports' = st.ports
    BY <1>3 DEF Commit
  <2>2. QED
    BY <1>4, <2>1, PortMapCharacterised
<1>6. DOMAIN net' \subseteq Event
  <2> DEFINE S == {e \in st.out : e.to[1] \in alive}
  <2>1. S \in SUBSET Event
    BY <1>4
  <2>2. net' = pending (+) SetToBag(S)
    BY <1>3 DEF Commit
  <2> HIDE DEF S
  <2>3. QED
    BY <1>3, <2>1, <2>2, BagTypes
<1>7. peers' \subseteq Node \X Node
  <2>1. Introduced(st.out) \subseteq Node \X Node
    BY <1>4, IntroducedType
  <2>2. QED
    BY <1>3, <1>4, <2>1 DEF Commit
<1>8. /\ orphans' \subseteq Addr /\ lastName' \in Nat
      /\ notified' \subseteq Addr /\ oops' \subseteq Oops
  BY <1>3, <1>4 DEF Commit, TypeOK
<1>9. alive' \subseteq Node
  BY DEF TypeOK
<1>10. QED
  BY <1>5, <1>6, <1>7, <1>8, <1>9 DEF TypeOK, BagToSet
-----------------------------------------------------------------------------
(***************************************************************************)
(* Every action keeps the types.                                           *)
(***************************************************************************)
\* A port of a typed state.
LEMMA PortType ==
  ASSUME TypeOK, NEW a \in DOMAIN ports
  PROVE  /\ a \in Addr /\ a[1] \in Node /\ a[2] \in PortName
         /\ ports[a] \in Port
         /\ ports[a].peer \in Addr
         /\ ports[a].queue \in FiniteSubset(Message)
         /\ ports[a].nextSend \in Int
         /\ ports[a].nextRecv \in Nat \ {0}
         /\ ports[a].lastRecv \in Int
         /\ ports[a].end \in PortName
<1>1. a \in Addr /\ ports[a] \in Port
  BY DEF TypeOK
<1>2. QED
  BY <1>1, AddrParts DEF Port

\* CreatePortPair adds two ports.
LEMMA CreatePortPairStep ==
  ASSUME TypeOK, NEW n \in Node, CreatePortPair(n)
  PROVE  TypeOK'
<1> DEFINE p == lastName + 1
           q == lastName + 2
           Other(x) == IF x = p THEN q ELSE p
           new == {<<n, p>>, <<n, q>>}
           f == [b \in new |-> NewPort(<<n, Other(b[2])>>, b[2])]
<1>1. p \in PortName /\ q \in PortName /\ q \in Nat
  BY DEF TypeOK, PortName
<1>2. new \subseteq Addr
  BY <1>1, AddrParts
<1>3. \A b \in new : f[b] \in Port
  BY <1>1, AddrParts, NewPortType
<1>4. ports' = Extend(ports, f)
  BY DEF CreatePortPair
<1> HIDE DEF f, new
<1>5. DOMAIN f = new
  BY DEF f
<1>6. /\ ports' = [a \in DOMAIN ports' |-> ports'[a]]
      /\ DOMAIN ports' \subseteq Addr
      /\ \A a \in DOMAIN ports' : ports'[a] \in Port
  BY <1>2, <1>3, <1>4, <1>5 DEF TypeOK, Extend
<1>7. QED
  BY <1>1, <1>2, <1>6 DEF TypeOK, CreatePortPair, new

\* A message that the embedder sends.
LEMMA SentMessage ==
  ASSUME TypeOK, NEW a \in DOMAIN ports, NEW A \in FiniteSubset(DOMAIN ports)
  PROVE  LET m == [seq |-> ports[a].nextSend % SeqModulus,
                   num |-> ports[a].nextSend, from |-> ports[a].end,
                   att |-> {LocalPort(b[2], ports[b].end) : b \in A}]
         IN  /\ m \in Message
             /\ {m} \in FiniteSubset(Message)
             /\ Attached({m}) = {b[2] : b \in A}
<1> DEFINE f == [b \in A |-> LocalPort(b[2], ports[b].end)]
           att == {LocalPort(b[2], ports[b].end) : b \in A}
           m == [seq |-> ports[a].nextSend % SeqModulus,
                 num |-> ports[a].nextSend, from |-> ports[a].end,
                 att |-> att]
<1>1. /\ A \subseteq DOMAIN ports /\ IsFiniteSet(A)
  BY DEF FiniteSubset
<1>2. \A b \in A : LocalPort(b[2], ports[b].end) \in Descriptor
  BY <1>1, PortType, LocalPortType DEF Descriptor
<1>3. IsFiniteSet({f[b] : b \in DOMAIN f})
  BY <1>1, FiniteValues
<1>4. {f[b] : b \in DOMAIN f} = att
  OBVIOUS
<1>5. att \in FiniteSubset(Descriptor)
  BY <1>2, <1>3, <1>4 DEF FiniteSubset
<1>6. Attached({m}) = {b[2] : b \in A}
  <2>1. Attached({m}) = {d.name : d \in att}
    <3>1. Attached({m}) = {d.name : d \in m.att}
      BY AttachedToOne
    <3>2. m.att = att
      OBVIOUS
    <3>3. QED
      BY <3>1, <3>2
  <2>2. \A b \in A : LocalPort(b[2], ports[b].end).name = b[2]
    BY DEF LocalPort
  <2>3. QED
    BY <2>1, <2>2
<1> HIDE DEF att
<1>7. ports[a].nextSend % SeqModulus \in Nat
  BY PortType, BoundsAssumption
<1>8. m \in Message
  BY <1>5, <1>7, PortType DEF Message
<1> HIDE DEF m
<1>9. {m} \in FiniteSubset(Message)
  BY <1>8, FS_Singleton DEF FiniteSubset
<1>10. QED
  BY <1>6, <1>8, <1>9 DEF m, att
\* The numbering of a message, and its taking back, keep the ports.
LEMMA NumberedType ==
  ASSUME NEW st \in HandlerState, NEW a \in DOMAIN st.ports
  PROVE  /\ [st EXCEPT !.ports[a].nextSend = @ + 1] \in HandlerState
         /\ DOMAIN [st EXCEPT !.ports[a].nextSend = @ + 1].ports
              = DOMAIN st.ports
         /\ Backpedal(st, a) \in HandlerState
<1> DEFINE r == st.ports[a]
           up == [r EXCEPT !.nextSend = @ + 1]
           down == [r EXCEPT !.nextSend = @ - 1]
<1>1. r \in Port /\ r.nextSend + 1 \in Int /\ r.nextSend - 1 \in Int
  BY PortOfState
<1>2. up \in Port /\ down \in Port
  BY <1>1 DEF Port
<1>3. /\ [st EXCEPT !.ports[a].nextSend = @ + 1] = [st EXCEPT !.ports[a] = up]
      /\ Backpedal(st, a) = [st EXCEPT !.ports[a] = down]
  BY DEF Backpedal, HandlerState
<1>4. DOMAIN [st EXCEPT !.ports[a] = up].ports = DOMAIN st.ports
  BY DEF HandlerState
<1> HIDE DEF up, down
<1>5. /\ [st EXCEPT !.ports[a] = up] \in HandlerState
      /\ [st EXCEPT !.ports[a] = down] \in HandlerState
  BY <1>2, SetPort
<1> DEFINE numbered == [st EXCEPT !.ports[a].nextSend = @ + 1]
<1>6. numbered \in HandlerState /\ Backpedal(st, a) \in HandlerState
  BY <1>3, <1>5, Zenon
<1>7. DOMAIN numbered.ports = DOMAIN st.ports
  BY <1>3, <1>4, Zenon
<1>8. QED
  BY <1>6, <1>7

\* SendUserMessage forwards a message or leaves its ports to be closed.
LEMMA SendUserMessageStep ==
  ASSUME TypeOK, NEW a \in held, NEW A \in FiniteSubset(held),
         SendUserMessage(a, A)
  PROVE  TypeOK'
<1> DEFINE r == ports[a]
           m == [seq |-> r.nextSend % SeqModulus, num |-> r.nextSend,
                 from |-> r.end,
                 att |-> {LocalPort(b[2], ports[b].end) : b \in A}]
           numbered == [Begin EXCEPT !.ports[a].nextSend = @ + 1]
           refused == IF RefusedAtOnce(a, A) THEN Begin
                      ELSE Backpedal(numbered, a)
           sending == PrepareToForwardUserMessage(numbered, a, {m})
           refusing == [refused EXCEPT !.orphans = A \ {a}]
<1>1. a \in DOMAIN ports /\ A \in FiniteSubset(DOMAIN ports) /\ A \subseteq Addr
  BY DEF SendUserMessage, MayAttach, Usable, FiniteSubset, TypeOK
<1>2. Begin \in HandlerState /\ Begin.ports = ports
  BY BeginType
<1>3. numbered \in HandlerState /\ DOMAIN numbered.ports = DOMAIN ports
  BY <1>1, <1>2, NumberedType
<1>4. refused \in HandlerState
  BY <1>1, <1>2, <1>3, NumberedType
<1>5. held' \subseteq Addr /\ alive' = alive
  BY DEF SendUserMessage, TypeOK
<1>6. \/ ~Refused(a, A) /\ Commit(sending, net, orphans)
      \/ Commit(refusing, net, orphans)
  BY DEF SendUserMessage
<1> HIDE DEF numbered, refused
<1>7. DOMAIN net \subseteq Event /\ orphans \in SUBSET Addr
  BY DEF TypeOK, BagToSet
<1>8. CASE ~Refused(a, A) /\ Commit(sending, net, orphans)
  <2>1. m \in Message /\ {m} \in FiniteSubset(Message)
          /\ Attached({m}) = {b[2] : b \in A}
    BY <1>1, SentMessage
  <2> HIDE DEF m
  <2>2. \A p \in Attached({m}) : <<a[1], p>> \in DOMAIN numbered.ports
    BY <1>2, <1>3, <1>8, <2>1 DEF Refused, Unsendable
  <2>3. sending \in HandlerState
    BY <1>1, <1>3, <2>1, <2>2, PrepareToForwardType
  <2> HIDE DEF sending
  <2>4. Committed
    BY <1>7, <1>8, <2>3 DEF Committed
  <2>5. QED
    BY <1>5, <2>4, CommitType
<1>9. CASE Commit(refusing, net, orphans)
  <2>1. refusing \in HandlerState
    BY <1>1, <1>4 DEF HandlerState
  <2> HIDE DEF refusing
  <2>2. Committed
    BY <1>7, <1>9, <2>1 DEF Committed
  <2>3. QED
    BY <1>5, <2>2, CommitType
<1>10. QED
  BY <1>6, <1>8, <1>9

\* GetMessage takes a message from the queue of a port.
LEMMA GetMessageStep ==
  ASSUME TypeOK, NEW a \in held, GetMessage(a)
  PROVE  TypeOK'
<1> DEFINE r == ports[a]
           m == CHOOSE x \in r.queue : x.seq = r.nextRecv
           new == {<<a[1], p>> : p \in Attached({m})}
           port == [r EXCEPT !.queue = @ \ {m}, !.nextRecv = @ + 1]
           taken == [ports EXCEPT ![a] = port]
<1>1. a \in DOMAIN ports
  BY DEF GetMessage, Usable
<1>2. port \in Port
  <2>1. r \in Port /\ r.queue \in FiniteSubset(Message)
          /\ r.nextRecv + 1 \in Nat \ {0}
    BY <1>1, PortType
  <2>2. r.queue \ {m} \in FiniteSubset(Message)
    BY <2>1, SubsetOfFinite
  <2>3. QED
    BY <2>1, <2>2 DEF Port
<1>3. \/ /\ ports' = SetSignalable(taken, new)
         /\ oops' = oops \/ oops' = oops \cup {"get message"}
         /\ held' = held \cup (new \cap DOMAIN ports)
         /\ notified' = notified \cup (new \cap DOMAIN ports)
      \/ /\ notified' = notified \ {a}
         /\ UNCHANGED <<ports, oops, held>>
  BY DEF GetMessage
<1>4. UNCHANGED <<net, orphans, lastName, alive, peers>>
  BY DEF GetMessage
<1> HIDE DEF port, new
<1>5. /\ taken = [b \in DOMAIN ports |-> IF b = a THEN port ELSE ports[b]]
  BY <1>1 DEF TypeOK
<1> HIDE DEF taken
<1>6. /\ SetSignalable(taken, new)
           = [b \in DOMAIN ports |-> IF b \in new
                                     THEN [taken[b] EXCEPT !.signalable = TRUE]
                                     ELSE taken[b]]
      /\ \A b \in DOMAIN ports : taken[b] \in Port
  BY <1>2, <1>5 DEF SetSignalable, TypeOK
<1>7. \A b \in DOMAIN ports : [taken[b] EXCEPT !.signalable = TRUE] \in Port
  BY <1>6 DEF Port
<1>8. /\ ports' = [b \in DOMAIN ports' |-> ports'[b]]
      /\ DOMAIN ports' \subseteq Addr
      /\ \A b \in DOMAIN ports' : ports'[b] \in Port
  <2>1. CASE ports' = ports
    BY <2>1 DEF TypeOK
  <2>2. CASE ports' = SetSignalable(taken, new)
    <3>1. /\ DOMAIN ports' = DOMAIN ports
          /\ ports' = [b \in DOMAIN ports' |-> ports'[b]]
      BY <1>6, <2>2
    <3>2. \A b \in DOMAIN ports : ports'[b] \in Port
      BY <1>6, <1>7, <2>2
    <3>3. QED
      BY <3>1, <3>2 DEF TypeOK
  <2>3. QED
    BY <1>3, <2>1, <2>2
<1>9. /\ held' \subseteq Addr /\ notified' \subseteq Addr
      /\ oops' \subseteq Oops
  BY <1>3 DEF TypeOK, Oops
<1>10. QED
  BY <1>4, <1>8, <1>9 DEF TypeOK, BagToSet
\* ClosePort and the closing of a port that was found in a message.
LEMMA CloseStep ==
  ASSUME TypeOK, NEW a, ClosePort(a) \/ CloseOrphan(a)
  PROVE  TypeOK'
<1>1. Begin \in HandlerState /\ Begin.ports = ports
  BY BeginType
<1>2. a \in DOMAIN ports => Close(Begin, a) \in HandlerState
  BY <1>1, CloseType
<1>3. /\ DOMAIN net \subseteq Event
      /\ orphans \in SUBSET Addr /\ orphans \ {a} \in SUBSET Addr
  BY DEF TypeOK, BagToSet
<1>4. CASE ClosePort(a)
  <2>1. a \in DOMAIN ports /\ Commit(Close(Begin, a), net, orphans)
    BY <1>4 DEF ClosePort, Usable, Idle
  <2>2. Committed
    BY <1>2, <1>3, <2>1 DEF Committed
  <2>3. held' \subseteq Addr /\ alive' = alive
    BY <1>4 DEF ClosePort, TypeOK
  <2>4. QED
    BY <2>2, <2>3, CommitType
<1>5. CASE CloseOrphan(a)
  <2> DEFINE st == IF a \in DOMAIN ports THEN Close(Begin, a) ELSE Begin
  <2>1. Commit(st, net, orphans \ {a}) /\ held' = held /\ alive' = alive
    BY <1>5 DEF CloseOrphan
  <2>2. st \in HandlerState
    BY <1>1, <1>2
  <2> HIDE DEF st
  <2>3. Committed
    BY <1>3, <2>1, <2>2 DEF Committed
  <2>4. QED
    BY <2>1, <2>3, CommitType DEF TypeOK
<1>6. QED
  BY <1>4, <1>5

\* MergeLocalPorts merges two ports of the embedder.
LEMMA MergeLocalPortsStep ==
  ASSUME TypeOK, NEW a, NEW b, MergeLocalPorts(a, b)
  PROVE  TypeOK'
<1>1. Begin \in HandlerState /\ Begin.ports = ports
  BY BeginType
<1>2. a \in DOMAIN ports /\ b \in DOMAIN ports /\ a # b
  BY DEF MergeLocalPorts, Usable
<1>3. MergePortsInternal(Begin, a, b, TRUE) \in HandlerState
  BY <1>1, <1>2, MergeType
<1>4. Commit(MergePortsInternal(Begin, a, b, TRUE), net, orphans)
  BY DEF MergeLocalPorts
<1>5. held' \subseteq Addr /\ alive' = alive
  BY DEF MergeLocalPorts, TypeOK
<1>6. DOMAIN net \subseteq Event /\ orphans \in SUBSET Addr
  BY DEF TypeOK, BagToSet
<1>7. Committed
  BY <1>3, <1>4, <1>6 DEF Committed
<1>8. QED
  BY <1>5, <1>7, CommitType

\* MergePorts sends a reserved port away.
LEMMA MergePortsStep ==
  ASSUME TypeOK, NEW a, NEW b \in Addr, MergePorts(a, b)
  PROVE  TypeOK'
<1> DEFINE r == ports[a]
           to == <<b[1], lastName + 1>>
           port == ConvertToProxy(r, to)
           told == {c \in DOMAIN ports : c = r.peer /\ c[1] = a[1] /\ b[1] # a[1]}
           sent == {MergePort(a[1], b, DescriptorOf(a, r, to[2]))}
           st == [Begin EXCEPT !.ports[a] = port, !.lastName = @ + 1,
                               !.changed = told, !.out = sent]
           ps == [ports EXCEPT ![a] = port]
<1>1. Begin \in HandlerState /\ Begin.ports = ports /\ Begin.lastName = lastName
  BY BeginType DEF Begin
<1>2. a \in DOMAIN ports
  BY DEF MergePorts, Idle
<1>3. lastName + 1 \in PortName /\ lastName + 1 \in Nat
  BY DEF TypeOK, PortName
<1>4. to \in Addr /\ r \in Port /\ a \in Addr /\ a[1] \in Node
  BY <1>2, <1>3, AddrParts, PortType
<1>5. port \in Port
  BY <1>4, ConvertToProxyType
<1>6. sent \in SUBSET Event
  <2>1. DescriptorOf(a, r, to[2]) \in Moved
    BY <1>3, <1>4, DescriptorOfType
  <2>2. QED
    BY <1>4, <2>1, EventTypes
<1>7. told \in SUBSET Addr
  BY DEF TypeOK
<1> HIDE DEF port, told, sent
<1>8. ps \in PortMap
  BY <1>1, <1>2, <1>5, SetPort
<1>9. st = [Begin EXCEPT !.ports = ps, !.lastName = lastName + 1,
                         !.changed = told, !.out = sent]
  BY <1>1 DEF Begin
<1> HIDE DEF ps
<1>10. st \in HandlerState
  BY <1>1, <1>3, <1>6, <1>7, <1>8, <1>9 DEF HandlerState
<1>11. Commit(st, net, orphans) /\ held' = held /\ alive' = alive
  BY DEF MergePorts, port, told, sent
<1>12. DOMAIN net \subseteq Event /\ orphans \in SUBSET Addr
  BY DEF TypeOK, BagToSet
<1> HIDE DEF st
<1>13. Committed
  BY <1>10, <1>11, <1>12 DEF Committed
<1>14. QED
  BY <1>11, <1>13, CommitType DEF TypeOK

\* What is left of the bag when an event is accepted.
LEMMA WithoutType ==
  ASSUME TypeOK, NEW e \in BagToSet(net)
  PROVE  e \in Event /\ DOMAIN Without(e) \subseteq Event
<1>1. DOMAIN net \subseteq Event /\ e \in Event
  BY DEF TypeOK, BagToSet
<1>2. QED
  BY <1>1, BagTypes DEF Without
\* An event handler that ends with a handler state keeps the types.
LEMMA HandlerEnd ==
  ASSUME TypeOK, NEW e \in BagToSet(net),
         \E st \in HandlerState : Commit(st, Without(e), orphans),
         alive' = alive, held' = held
  PROVE  TypeOK'
<1>1. DOMAIN Without(e) \subseteq Event
  BY WithoutType
<1>2. Committed
  BY <1>1 DEF Committed, TypeOK
<1>3. QED
  BY <1>2, CommitType DEF TypeOK

\* A message whose attached ports have been made local is a message.
LEMMA LocalMessage ==
  ASSUME NEW m \in Message
  PROVE  [m EXCEPT !.att = {LocalPort(d.name, d.end) : d \in m.att}] \in Message
<1> DEFINE f == [d \in m.att |-> LocalPort(d.name, d.end)]
<1>1. f \in [m.att -> Descriptor]
  <2>1. ASSUME NEW d \in m.att
        PROVE  LocalPort(d.name, d.end) \in Descriptor
    <3>1. d \in Descriptor
      BY DEF Message, FiniteSubset
    <3>2. d.name \in PortName /\ d.end \in PortName
      BY <3>1 DEF Descriptor, Moved, Staying
    <3>3. QED
      BY <3>2, LocalPortType DEF Descriptor
  <2>2. QED
    BY <2>1
<1>2. {f[d] : d \in m.att} = {LocalPort(d.name, d.end) : d \in m.att}
  OBVIOUS
<1>3. [m EXCEPT !.att = {f[d] : d \in m.att}] \in Message
  BY <1>1, RewrittenMessage
<1>4. QED
  BY <1>2, <1>3

\* Queueing a message leaves a port, in a handler state with the same ports.
LEMMA QueuedType ==
  ASSUME NEW st \in HandlerState, NEW a \in DOMAIN st.ports, NEW m \in Message
  PROVE  /\ [st EXCEPT !.ports[a].queue = @ \cup {m}] \in HandlerState
         /\ DOMAIN [st EXCEPT !.ports[a].queue = @ \cup {m}].ports
              = DOMAIN st.ports
<1> DEFINE r == st.ports[a]
           port == [r EXCEPT !.queue = @ \cup {m}]
           queued == [st EXCEPT !.ports[a].queue = @ \cup {m}]
<1>1. r \in Port /\ r.queue \in FiniteSubset(Message)
  BY PortOfState
<1>2. r.queue \cup {m} \in FiniteSubset(Message)
  BY <1>1, FS_AddElement DEF FiniteSubset
<1>3. port \in Port
  BY <1>1, <1>2 DEF Port
<1>4. queued = [st EXCEPT !.ports[a] = port]
  BY DEF HandlerState
<1>5. DOMAIN queued.ports = DOMAIN st.ports
  BY DEF HandlerState
<1> HIDE DEF port
<1>6. [st EXCEPT !.ports[a] = port] \in HandlerState
  BY <1>3, SetPort
<1>7. queued \in HandlerState
  BY <1>4, <1>6, Zenon
<1>8. QED
  BY <1>5, <1>7

\* OnUserMessage queues, forwards or destroys the message.
LEMMA OnUserMessageStep ==
  ASSUME TypeOK, NEW e \in BagToSet(net), OnUserMessage(e)
  PROVE  TypeOK'
<1> DEFINE n == e.to[1]
           a == e.to
           here == {<<n, d.name>> : d \in e.msg.att}
           D == {d \in e.msg.att : d.referring # NoAddr}
           st == AcceptPorts(Begin, n, D)
           m == [e.msg EXCEPT !.att = {LocalPort(d.name, d.end) : d \in e.msg.att}]
           queued == [st EXCEPT !.ports[a].queue = @ \cup {m}]
           r == queued.ports[a]
           forwarded == ForwardUserMessagesFromProxy(queued, a)
           told == IF r.signalable /\ HasNextMessage(r) THEN {a} ELSE {}
           accepted ==
             CASE r.state = "proxying" ->
                    IF forwarded.ok THEN TryRemoveProxy(forwarded, a)
                    ELSE forwarded
               [] r.state = "buffering" -> queued
               [] r.state = "receiving" -> [queued EXCEPT !.changed = told]
           unknown == [st EXCEPT !.oops = @ \cup {"port unknown"}]
           rejected == [st EXCEPT !.orphans = here]
<1>1. /\ e \in Event /\ e.to \in Addr /\ e.to[1] \in Node /\ e.msg \in Message
  BY WithoutType, EventParts DEF OnUserMessage
<1>2. Begin \in HandlerState
  BY BeginType
<1>3. \A d \in e.msg.att : d \in Descriptor
  BY <1>1 DEF Message, FiniteSubset
<1>4. D \in SUBSET Moved
  BY <1>3 DEF Descriptor, Staying
<1>5. here \in SUBSET Addr
  <2>1. \A d \in e.msg.att : d.name \in PortName
    BY <1>3 DEF Descriptor, Moved, Staying
  <2>2. QED
    BY <1>1, <2>1, AddrParts
<1>6. m \in Message
  BY <1>1, LocalMessage
<1>7. st \in HandlerState
  BY <1>1, <1>2, <1>4, AcceptPortsType
<1>8. \/ Commit(unknown, Without(e), orphans)
      \/ a \in DOMAIN st.ports /\ Commit(accepted, Without(e), orphans)
      \/ Commit(rejected, Without(e), orphans)
  BY DEF OnUserMessage
<1> HIDE DEF st, here, m
<1>9. unknown \in HandlerState /\ rejected \in HandlerState
  BY <1>5, <1>7 DEF HandlerState, Oops
<1>10. ASSUME a \in DOMAIN st.ports
       PROVE  accepted \in HandlerState
  <2>1. queued \in HandlerState /\ DOMAIN queued.ports = DOMAIN st.ports
    BY <1>6, <1>7, <1>10, QueuedType
  <2> HIDE DEF queued
  <2>2. r \in Port
    BY <1>10, <2>1, PortOfState
  <2>3. forwarded \in HandlerState /\ a \in DOMAIN forwarded.ports
    BY <1>10, <2>1, ForwardFromProxyType
  <2> HIDE DEF forwarded
  <2>4. TryRemoveProxy(forwarded, a) \in HandlerState
    BY <2>3, TryRemoveProxyType
  <2>5. told \in SUBSET Addr
    BY <1>1
  <2> HIDE DEF told, r
  <2>6. [queued EXCEPT !.changed = told] \in HandlerState
    BY <2>1, <2>5 DEF HandlerState
  <2>7. r.state \in {"receiving", "buffering", "proxying"}
    BY <2>2 DEF Port, State
  <2>8. QED
    BY <2>1, <2>3, <2>4, <2>6, <2>7
<1> HIDE DEF unknown, rejected, accepted
<1>11. \E s \in HandlerState : Commit(s, Without(e), orphans)
  BY <1>8, <1>9, <1>10
<1>12. alive' = alive /\ held' = held
  BY DEF OnUserMessage
<1>13. QED
  BY <1>11, <1>12, HandlerEnd
\* OnPortAccepted lets a buffering port begin proxying.
LEMMA OnPortAcceptedStep ==
  ASSUME TypeOK, NEW e \in BagToSet(net), OnPortAccepted(e)
  PROVE  TypeOK'
<1> DEFINE st == IF e.to \in DOMAIN ports THEN BeginProxying(Begin, e.to)
                 ELSE Begin
<1>1. Begin \in HandlerState /\ Begin.ports = ports
  BY BeginType
<1>2. st \in HandlerState
  BY <1>1, BeginProxyingType
<1>3. Commit(st, Without(e), orphans) /\ alive' = alive /\ held' = held
  BY DEF OnPortAccepted
<1> HIDE DEF st
<1>4. QED
  BY <1>2, <1>3, HandlerEnd

\* OnObserveProxy bypasses the proxy, stashes the answer or passes on.
LEMMA OnObserveProxyStep ==
  ASSUME TypeOK, NEW e \in BagToSet(net), OnObserveProxy(e)
  PROVE  TypeOK'
<1> DEFINE a == e.to
           pass == {ObserveProxy(a[1], ports[a].peer, e.proxy, e.target)}
           passing == [Begin EXCEPT !.out = pass]
<1>1. /\ e.to \in Addr /\ a[1] \in Node /\ e.proxy \in Addr /\ e.target \in Addr
  BY WithoutType, EventParts DEF OnObserveProxy
<1>2. Begin \in HandlerState /\ Begin.ports = ports
  BY BeginType
<1>3. \/ Commit(Begin, Without(e), orphans)
      \/ a \in DOMAIN ports /\ Commit(passing, Without(e), orphans)
      \/ a \in DOMAIN ports /\ Commit(Bypass(Begin, a, e), Without(e), orphans)
      \/ a \in DOMAIN ports /\ Commit(StashAck(Begin, a, e), Without(e), orphans)
  <2>1. CASE a \notin DOMAIN ports
    BY <2>1 DEF OnObserveProxy
  <2>2. CASE a \in DOMAIN ports /\ ports[a].peer # e.proxy
    BY <2>2 DEF OnObserveProxy
  <2>3. CASE a \in DOMAIN ports /\ ports[a].peer = e.proxy
    BY <2>3 DEF OnObserveProxy
  <2>4. QED
    BY <2>1, <2>2, <2>3
<1>4. ASSUME a \in DOMAIN ports
      PROVE  passing \in HandlerState
  <2>1. pass \in SUBSET Event
    BY <1>1, <1>4, PortType, EventTypes
  <2> HIDE DEF pass
  <2>2. QED
    BY <1>2, <2>1 DEF HandlerState
<1>5. ASSUME a \in DOMAIN ports
      PROVE  Bypass(Begin, a, e) \in HandlerState
               /\ StashAck(Begin, a, e) \in HandlerState
  BY <1>1, <1>2, <1>5, ObserveProxyType
<1> HIDE DEF passing
<1>6. \E s \in HandlerState : Commit(s, Without(e), orphans)
  BY <1>2, <1>3, <1>4, <1>5
<1>7. alive' = alive /\ held' = held
  BY DEF OnObserveProxy
<1>8. QED
  BY <1>6, <1>7, HandlerEnd

\* OnObserveProxyAck lets the proxy leave or announce itself again.
LEMMA OnObserveProxyAckStep ==
  ASSUME TypeOK, NEW e \in BagToSet(net), OnObserveProxyAck(e)
  PROVE  TypeOK'
<1> DEFINE a == e.to
           port == [ports[a] EXCEPT !.removeOnLast = TRUE, !.lastRecv = e.last]
           flagged == [Begin EXCEPT !.ports[a].removeOnLast = TRUE,
                                    !.ports[a].lastRecv = e.last]
           wrong == [Begin EXCEPT !.oops = @ \cup {"ack state"}]
<1>1. e.last \in Int
  BY WithoutType, EventParts DEF OnObserveProxyAck
<1>2. Begin \in HandlerState /\ Begin.ports = ports
  BY BeginType
<1>3. \/ Commit(Begin, Without(e), orphans)
      \/ Commit(wrong, Without(e), orphans)
      \/ a \in DOMAIN ports
           /\ Commit(InitiateProxyRemoval(Begin, a), Without(e), orphans)
      \/ a \in DOMAIN ports
           /\ Commit(TryRemoveProxy(flagged, a), Without(e), orphans)
  BY DEF OnObserveProxyAck
<1>4. wrong \in HandlerState
  BY <1>2 DEF HandlerState, Oops
<1>5. ASSUME a \in DOMAIN ports
      PROVE  InitiateProxyRemoval(Begin, a) \in HandlerState
  BY <1>2, <1>5, InitiateProxyRemovalType
<1>6. ASSUME a \in DOMAIN ports
      PROVE  TryRemoveProxy(flagged, a) \in HandlerState
  <2>1. port \in Port
    BY <1>1, <1>6, PortType DEF Port
  <2>2. flagged = [Begin EXCEPT !.ports[a] = port]
    BY <1>2, <1>6 DEF HandlerState
  <2>3. DOMAIN flagged.ports = DOMAIN ports
    BY <1>2 DEF HandlerState
  <2> HIDE DEF port
  <2>4. [Begin EXCEPT !.ports[a] = port] \in HandlerState
    BY <1>2, <1>6, <2>1, SetPort
  <2>5. flagged \in HandlerState
    BY <2>2, <2>4, Zenon
  <2> HIDE DEF flagged
  <2>6. QED
    BY <1>6, <2>3, <2>5, TryRemoveProxyType
<1> HIDE DEF wrong, flagged
<1>7. \E s \in HandlerState : Commit(s, Without(e), orphans)
  BY <1>2, <1>3, <1>4, <1>5, <1>6
<1>8. alive' = alive /\ held' = held
  BY DEF OnObserveProxyAck
<1>9. QED
  BY <1>7, <1>8, HandlerEnd

\* OnObserveClosure flags the port and passes closure on.
LEMMA OnObserveClosureStep ==
  ASSUME TypeOK, NEW e \in BagToSet(net), OnObserveClosure(e)
  PROVE  TypeOK'
<1> DEFINE a == e.to
           observed == ObservedClosure(Begin, a, e.last)
<1>1. e.last \in Int
  BY WithoutType, EventParts DEF OnObserveClosure
<1>2. Begin \in HandlerState /\ Begin.ports = ports
  BY BeginType
<1>3. \/ Commit(Begin, Without(e), orphans)
      \/ a \in DOMAIN ports /\ Commit(observed, Without(e), orphans)
      \/ a \in DOMAIN ports
           /\ Commit(TryRemoveProxy(observed, a), Without(e), orphans)
  <2>1. CASE a \notin DOMAIN ports
    BY <2>1 DEF OnObserveClosure
  <2>2. CASE a \in DOMAIN ports
    BY <2>2 DEF OnObserveClosure
  <2>3. QED
    BY <2>1, <2>2
<1>4. ASSUME a \in DOMAIN ports
      PROVE  observed \in HandlerState /\ a \in DOMAIN observed.ports
  BY <1>1, <1>2, <1>4, ObservedClosureType
<1> HIDE DEF observed
<1>5. ASSUME a \in DOMAIN ports
      PROVE  TryRemoveProxy(observed, a) \in HandlerState
  BY <1>4, <1>5, TryRemoveProxyType
<1>6. \E s \in HandlerState : Commit(s, Without(e), orphans)
  BY <1>2, <1>3, <1>4, <1>5
<1>7. alive' = alive /\ held' = held
  BY DEF OnObserveClosure
<1>8. QED
  BY <1>6, <1>7, HandlerEnd

\* OnMergePort accepts the port and merges, or closes what there is.
LEMMA OnMergePortStep ==
  ASSUME TypeOK, NEW e \in BagToSet(net), OnMergePort(e)
  PROVE  TypeOK'
<1> DEFINE n == e.to[1]
           b == <<n, e.new.name>>
           st == AcceptPorts(Begin, n, {e.new})
           merged == MergePortsInternal(st, e.to, b, FALSE)
           found == e.to \in DOMAIN ports
<1>1. n \in Node /\ e.new \in Moved
  BY WithoutType, EventParts DEF OnMergePort
<1>2. Begin \in HandlerState /\ Begin.ports = ports
  BY BeginType
<1>3. /\ st \in HandlerState
      /\ DOMAIN st.ports = DOMAIN ports \cup {b}
      /\ st.ok <=> b \notin DOMAIN ports
  <2>1. {e.new} \in SUBSET Moved
    BY <1>1
  <2>2. /\ st \in HandlerState
        /\ DOMAIN st.ports = DOMAIN ports \cup {<<n, d.name>> : d \in {e.new}}
        /\ st.ok <=> \A d \in {e.new} : <<n, d.name>> \notin DOMAIN ports
    BY <1>1, <1>2, <2>1, AcceptPortsType
  <2> HIDE DEF st
  <2>3. QED
    BY <2>2
<1>4. \/ st.ok /\ found /\ Commit(merged, Without(e), orphans)
      \/ Commit(Close(st, b), Without(e), orphans)
      \/ found /\ Commit(Close(Begin, e.to), Without(e), orphans)
      \/ Commit(Begin, Without(e), orphans)
  <2> HIDE DEF st, merged
  <2>1. /\ st.ok /\ found => Commit(merged, Without(e), orphans)
        /\ st.ok /\ ~found => Commit(Close(st, b), Without(e), orphans)
        /\ ~st.ok /\ found => Commit(Close(Begin, e.to), Without(e), orphans)
        /\ ~st.ok /\ ~found => Commit(Begin, Without(e), orphans)
    BY DEF OnMergePort, st, merged
  <2>2. QED
    BY <2>1
<1> HIDE DEF st
<1>5. ASSUME st.ok, found
      PROVE  merged \in HandlerState
  BY <1>3, <1>5, MergeType
<1>6. Close(st, b) \in HandlerState
  BY <1>3, CloseType
<1>7. ASSUME found
      PROVE  Close(Begin, e.to) \in HandlerState
  BY <1>2, <1>7, CloseType
<1> HIDE DEF merged, found
<1>8. \E s \in HandlerState : Commit(s, Without(e), orphans)
  BY <1>2, <1>4, <1>5, <1>6, <1>7
<1>9. alive' = alive /\ held' = held
  BY DEF OnMergePort
<1>10. QED
  BY <1>8, <1>9, HandlerEnd

\* A broadcast of a destroyed proxy destroys the ports that point to it.
LEMMA OnProxyDiedStep ==
  ASSUME TypeOK, NEW e \in BagToSet(net), OnProxyDied(e)
  PROVE  TypeOK'
<1> DEFINE n == e.to[1]
           S == {b \in DOMAIN ports : b[1] = n /\ ports[b].peer = e.proxy}
           st == DestroyAllPortsWithPeer(Begin, n, S)
<1>1. n \in Node /\ Begin \in HandlerState
  BY WithoutType, EventParts, BeginType
<1>2. Commit(st, Without(e), orphans) /\ alive' = alive /\ held' = held
  BY DEF OnProxyDied
<1> HIDE DEF S
<1>3. st \in HandlerState
  BY <1>1, DestroyType
<1> HIDE DEF st
<1>4. QED
  BY <1>2, <1>3, HandlerEnd
\* The death of a process removes what it held.
LEMMA CrashStep ==
  ASSUME TypeOK, NEW m \in Node, Crash(m)
  PROVE  TypeOK'
<1>1. /\ ports' = [a \in DOMAIN ports \ On(m, DOMAIN ports) |-> ports[a]]
      /\ net' = [e \in {x \in BagToSet(net) : x.to[1] # m} |-> net[e]]
  BY DEF Crash
<1>2. /\ ports' = [a \in DOMAIN ports' |-> ports'[a]]
      /\ DOMAIN ports' \subseteq Addr
      /\ \A a \in DOMAIN ports' : ports'[a] \in Port
  BY <1>1 DEF TypeOK
<1>3. BagToSet(net)' \subseteq Event
  BY <1>1 DEF TypeOK, BagToSet
<1>4. QED
  BY <1>2, <1>3 DEF TypeOK, Crash

\* DropPeer changes neither ports nor events before it closes ports.
LEMMA DroppedType ==
  ASSUME TypeOK, NEW n \in Node, NEW m \in Node
  PROVE  /\ Dropped(n, m) \in HandlerState
         /\ Dropped(n, m).ports = Begin.ports /\ Dropped(n, m).out = Begin.out
         /\ Dropped(n, m).lastName = Begin.lastName
         /\ Dropped(n, m).changed = Begin.changed
<1> DEFINE left == Begin.peers \ {<<n, m>>}
           closing == ReservedFor(n, m)
<1>1. Begin \in HandlerState
  BY BeginType
<1>2. left \in SUBSET (Node \X Node)
  BY <1>1 DEF HandlerState
<1>3. closing \in SUBSET Addr
  BY DEF ReservedFor, On, TypeOK
<1>4. Dropped(n, m) = [Begin EXCEPT !.peers = left, !.orphans = closing]
  BY DEF Dropped
<1> HIDE DEF left, closing
<1>5. QED
  BY <1>1, <1>2, <1>3, <1>4 DEF HandlerState

\* The discovery of a death destroys the ports that point to the dead node.
LEMMA LostConnectionStep ==
  ASSUME TypeOK, NEW n \in Node, NEW m \in Node, LostConnectionToNode(n, m)
  PROVE  TypeOK'
<1> DEFINE S == {b \in On(n, DOMAIN ports) : ports[b].peer[1] = m}
           keep == {e \in BagToSet(net) : ~(e.src = m /\ e.to[1] = n)}
           pending == [e \in keep |-> net[e]]
           st == DestroyAllPortsWithPeer(Dropped(n, m), n, S)
<1>1. Commit(st, pending, orphans) /\ alive' = alive /\ held' = held
  BY DEF LostConnectionToNode
<1>2. DOMAIN pending \subseteq Event /\ orphans \in SUBSET Addr
        /\ held' \subseteq Addr
  BY <1>1 DEF TypeOK, BagToSet
<1> HIDE DEF S, pending
<1>3. st \in HandlerState
  BY DroppedType, DestroyType
<1> HIDE DEF st
<1>4. Committed
  BY <1>1, <1>2, <1>3 DEF Committed
<1>5. QED
  BY <1>1, <1>2, <1>4, CommitType

-----------------------------------------------------------------------------
(***************************************************************************)
(* The type invariant.                                                     *)
(***************************************************************************)
\* The ports of a topology have addresses, and peers among themselves.
LEMMA InitialPeers ==
  ASSUME NEW pipes \in Topologies, NEW a \in PortsOf(pipes)
  PROVE  LET peer == CHOOSE b \in PortsOf(pipes) : \/ <<a, b>> \in pipes
                                                   \/ <<b, a>> \in pipes
         IN  a \in Addr /\ peer \in PortsOf(pipes) /\ peer \in Addr
<1>1. \A pq \in pipes : pq \in Addr \X Addr /\ pq = <<pq[1], pq[2]>>
  BY PipesAssumption
<1>2. PortsOf(pipes) \subseteq Addr
  BY <1>1 DEF PortsOf
<1>3. \E b \in PortsOf(pipes) : <<a, b>> \in pipes \/ <<b, a>> \in pipes
  BY <1>1 DEF PortsOf
<1>4. QED
  BY <1>2, <1>3

\* The initial states are typed.
LEMMA InitTypeOK == Init => TypeOK
<1> SUFFICES ASSUME NEW pipes \in Topologies, InitWith(pipes)
             PROVE  TypeOK
  BY DEF Init
<1> DEFINE Peer(a) == CHOOSE b \in PortsOf(pipes) : \/ <<a, b>> \in pipes
                                                    \/ <<b, a>> \in pipes
<1>1. ASSUME NEW a \in PortsOf(pipes)
      PROVE  a \in Addr /\ a[2] \in PortName /\ Peer(a) \in Addr
  <2>1. a \in Addr /\ Peer(a) \in Addr
    BY InitialPeers
  <2>2. QED
    BY <2>1, AddrParts
<1>2. ports = [a \in PortsOf(pipes) |-> NewPort(Peer(a), a[2])]
  BY DEF InitWith
<1> HIDE DEF Peer
<1>3. \A a \in PortsOf(pipes) : NewPort(Peer(a), a[2]) \in Port
  BY <1>1, NewPortType
<1>4. /\ ports = [a \in DOMAIN ports |-> ports[a]]
      /\ DOMAIN ports \subseteq Addr
      /\ \A a \in DOMAIN ports : ports[a] \in Port
  BY <1>1, <1>2, <1>3
<1>5. lastName \in Nat
  <2>1. lastName \in EndsOf(pipes) \cup {0}
    BY PipesAssumption DEF InitWith
  <2>2. EndsOf(pipes) \subseteq Nat
    BY <1>1 DEF EndsOf, PortName
  <2>3. QED
    BY <2>1, <2>2
<1>6. BagToSet(net) \subseteq Event
  BY DEF InitWith, EmptyBag, SetToBag, BagToSet
<1>7. /\ held \subseteq PortsOf(pipes) /\ notified \subseteq PortsOf(pipes)
      /\ peers \subseteq Node \X Node /\ alive \subseteq Node
      /\ orphans \subseteq Addr /\ oops \subseteq Oops
  BY DEF InitWith
<1>8. QED
  BY <1>1, <1>4, <1>5, <1>6, <1>7 DEF TypeOK

\* Every step keeps the types.
LEMMA NextTypeOK == TypeOK /\ [Next]_vars => TypeOK'
<1> SUFFICES ASSUME TypeOK, [Next]_vars
             PROVE  TypeOK'
  OBVIOUS
<1>1. CASE Embedder
  <2>1. ASSUME NEW n \in Node, CreatePortPair(n)
        PROVE  TypeOK'
    BY <2>1, CreatePortPairStep
  <2>2. ASSUME NEW a \in held, GetMessage(a)
        PROVE  TypeOK'
    BY <2>2, GetMessageStep
  <2>3. ASSUME NEW a \in held,
               NEW A \in FiniteSubset({b \in held : b[1] = a[1]}),
               SendUserMessage(a, A)
        PROVE  TypeOK'
    <3>1. A \in FiniteSubset(held)
      BY DEF FiniteSubset
    <3>2. QED
      BY <2>3, <3>1, SendUserMessageStep
  <2>4. ASSUME NEW a \in held, NEW b \in held, MergeLocalPorts(a, b)
        PROVE  TypeOK'
    BY <2>4, MergeLocalPortsStep
  <2>5. ASSUME NEW a \in DOMAIN ports, ClosePort(a)
        PROVE  TypeOK'
    BY <2>5, CloseStep
  <2>6. ASSUME NEW a \in DOMAIN ports, NEW b \in InitialPorts, MergePorts(a, b)
        PROVE  TypeOK'
    <3>1. PICK pipes \in Topologies : b \in PortsOf(pipes)
      BY DEF InitialPorts
    <3>2. b \in Addr
      BY <3>1, InitialPeers
    <3>3. QED
      BY <2>6, <3>2, MergePortsStep
  <2>7. QED
    BY <1>1, <2>1, <2>2, <2>3, <2>4, <2>5, <2>6 DEF Embedder
<1>2. CASE Internal
  <2>1. ASSUME NEW e \in BagToSet(net), AcceptEvent(e)
        PROVE  TypeOK'
    BY <2>1, OnUserMessageStep, OnPortAcceptedStep, OnObserveProxyStep,
       OnObserveProxyAckStep, OnObserveClosureStep, OnMergePortStep,
       OnProxyDiedStep DEF AcceptEvent
  <2>2. ASSUME NEW a \in orphans, CloseOrphan(a)
        PROVE  TypeOK'
    BY <2>2, CloseStep
  <2>3. QED
    BY <1>2, <2>1, <2>2 DEF Internal
<1>3. CASE Failure
  BY <1>3, CrashStep, LostConnectionStep DEF Failure
<1>4. CASE UNCHANGED vars
  BY <1>4 DEF TypeOK, vars, BagToSet
<1>5. QED
  BY <1>1, <1>2, <1>3, <1>4 DEF Next

\* In every reachable state of the ports layer, for any nodes, pipes, bounds
\* and any use the embedder makes of it, ports, queued messages, events under
\* way and the embedder's view of the ports are well-typed: whatever handlers
\* run in whatever order, a port has a valid peer, every event a valid target,
\* a descriptor of a port that has moved all that AcceptPort needs, and message
\* queues stay finite.
THEOREM TypeCorrect == Spec => []TypeOK
<1>1. Init => TypeOK
  BY InitTypeOK
<1>2. TypeOK /\ [Next]_vars => TypeOK'
  BY NextTypeOK
<1>3. QED
  BY <1>1, <1>2, PTL DEF Spec

-----------------------------------------------------------------------------
(***************************************************************************)
(* A port only advances (PortStateMachine).  Each private operation of     *)
(* Node has a second lemma: the ports it leaves are later stages of the    *)
(* ones it found.  Failed merges are the exception: they take two ports    *)
(* back to receiving, but close them before the handler ends.              *)
(***************************************************************************)
\* No port is added, and those that stay advance.
Evolves(ps, qs) ==
  /\ DOMAIN qs \subseteq DOMAIN ps
  /\ \A a \in DOMAIN qs : Later(ps[a], qs[a])

\* The fields of a port that matter.
LEMMA PortFields ==
  ASSUME NEW r \in Port
  PROVE  /\ r.state \in {"receiving", "buffering", "proxying"}
         /\ r.nextRecv \in Int /\ r.nextSend \in Int
         /\ r.peerClosed \in BOOLEAN
BY DEF Port, State

\* Advancing is reflexive and transitive.
LEMMA LaterOrder ==
  /\ \A r \in Port : Later(r, r)
  /\ \A r, s, q \in Port : Later(r, s) /\ Later(s, q) => Later(r, q)
<1>1. ASSUME NEW r \in Port
      PROVE  Later(r, r)
  BY PortFields DEF Later
<1>2. ASSUME NEW r \in Port, NEW s \in Port, NEW q \in Port,
             Later(r, s), Later(s, q)
      PROVE  Later(r, q)
  <2>1. /\ r.state = "buffering" => q.state \in {"buffering", "proxying"}
        /\ r.state = "proxying" => q.state = "proxying"
    BY <1>2 DEF Later
  <2>2. q.nextRecv >= r.nextRecv
    BY <1>2, PortFields DEF Later
  <2>3. q.state = "receiving" => q.nextSend >= r.nextSend
    <3>1. ASSUME q.state = "receiving"
          PROVE  s.state = "receiving"
      BY <1>2, <3>1, PortFields DEF Later
    <3>2. QED
      BY <1>2, <3>1, PortFields DEF Later
  <2>4. r.peerClosed => q.peerClosed
    BY <1>2 DEF Later
  <2>5. QED
    BY <1>2, <2>1, <2>2, <2>3, <2>4 DEF Later
<1>3. QED
  BY <1>1, <1>2

\* So it is for sets of ports.
LEMMA EvolvesOrder ==
  /\ \A st \in HandlerState : Evolves(st.ports, st.ports)
  /\ \A st, s, t \in HandlerState :
       Evolves(st.ports, s.ports) /\ Evolves(s.ports, t.ports)
         => Evolves(st.ports, t.ports)
<1>1. ASSUME NEW st \in HandlerState
      PROVE  Evolves(st.ports, st.ports)
  BY PortOfState, LaterOrder DEF Evolves
<1>2. ASSUME NEW st \in HandlerState, NEW s \in HandlerState,
             NEW t \in HandlerState,
             Evolves(st.ports, s.ports), Evolves(s.ports, t.ports)
      PROVE  Evolves(st.ports, t.ports)
  <2>1. DOMAIN t.ports \subseteq DOMAIN s.ports
          /\ DOMAIN s.ports \subseteq DOMAIN st.ports
    BY <1>2 DEF Evolves
  <2>2. ASSUME NEW a \in DOMAIN t.ports
        PROVE  Later(st.ports[a], t.ports[a])
    <3>1. /\ st.ports[a] \in Port /\ s.ports[a] \in Port /\ t.ports[a] \in Port
      BY <2>1, PortOfState
    <3>2. Later(st.ports[a], s.ports[a]) /\ Later(s.ports[a], t.ports[a])
      BY <1>2, <2>1 DEF Evolves
    <3>3. QED
      BY <3>1, <3>2, LaterOrder
  <2>3. QED
    BY <2>1, <2>2 DEF Evolves
<1>3. QED
  BY <1>1, <1>2

\* Replacing a port by one that is later.
LEMMA ReplaceEvolves ==
  ASSUME NEW st \in HandlerState, NEW a \in DOMAIN st.ports, NEW r \in Port,
         Later(st.ports[a], r), NEW ps, ps = [st.ports EXCEPT ![a] = r]
  PROVE  Evolves(st.ports, ps)
BY PortOfState, LaterOrder DEF Evolves
-----------------------------------------------------------------------------
(***************************************************************************)
(* The private operations of Node.                                         *)
(***************************************************************************)
\* A port that becomes a buffering proxy was receiving.
LEMMA ConvertLater ==
  ASSUME NEW r \in Port, r.state = "receiving", NEW to
  PROVE  Later(r, ConvertToProxy(r, to))
<1> DEFINE q == ConvertToProxy(r, to)
<1>1. /\ q.state = "buffering" /\ q.nextRecv = r.nextRecv
      /\ q.peerClosed = r.peerClosed /\ q.end = r.end
  BY DEF ConvertToProxy, Port
<1> HIDE DEF q
<1>2. Later(r, q)
  BY <1>1, PortFields DEF Later
<1>3. QED
  BY <1>2 DEF q

\* Ports that are sent away were receiving, and become buffering.
LEMMA PrepareToForwardEvolves ==
  ASSUME NEW st \in HandlerState, NEW a \in DOMAIN st.ports,
         NEW M \in FiniteSubset(Message),
         \A p \in Attached(M) : /\ <<a[1], p>> \in DOMAIN st.ports
                                /\ st.ports[<<a[1], p>>].state = "receiving"
  PROVE  Evolves(st.ports, PrepareToForwardUserMessage(st, a, M).ports)
<1> DEFINE n == a[1]
           to == st.ports[a].peer
           moved == IF to[1] = n THEN {} ELSE Attached(M)
           fresh == Fresh(st.lastName, moved)
           ps == [b \in DOMAIN st.ports |->
                    IF b[1] = n /\ b[2] \in moved
                    THEN ConvertToProxy(st.ports[b], <<to[1], fresh[b[2]]>>)
                    ELSE st.ports[b]]
<1>1. PrepareToForwardUserMessage(st, a, M).ports = ps
  BY DEF PrepareToForwardUserMessage, HandlerState
<1>2. \A p \in moved : st.ports[<<n, p>>].state = "receiving"
  OBVIOUS
<1> HIDE DEF moved, fresh
<1>3. ASSUME NEW b \in DOMAIN st.ports
      PROVE  Later(st.ports[b], ps[b])
  <2>1. st.ports[b] \in Port /\ b = <<b[1], b[2]>>
    BY PortOfState, AddrParts
  <2>2. CASE b[1] = n /\ b[2] \in moved
    <3>1. st.ports[b].state = "receiving"
      BY <1>2, <2>1, <2>2
    <3>2. ps[b] = ConvertToProxy(st.ports[b], <<to[1], fresh[b[2]]>>)
      BY <2>2
    <3>3. QED
      BY <2>1, <3>1, <3>2, ConvertLater
  <2>3. CASE ~(b[1] = n /\ b[2] \in moved)
    <3>1. ps[b] = st.ports[b]
      BY <2>3
    <3>2. QED
      BY <2>1, <3>1, LaterOrder
  <2>4. QED
    BY <2>2, <2>3
<1>4. QED
  BY <1>1, <1>3 DEF Evolves

\* A proxy only takes from its queue; what it forwards was receiving.
LEMMA ForwardFromProxyEvolves ==
  ASSUME NEW st \in HandlerState, NEW a \in DOMAIN st.ports,
         st.ports[a].state = "proxying"
  PROVE  Evolves(st.ports, ForwardUserMessagesFromProxy(st, a).ports)
<1> DEFINE r == st.ports[a]
           M == Sequential(r)
           bad == {m \in M : \E p \in Attached({m}) : Unsendable(st, a, p)}
           lost == {m \in bad : \A x \in bad : m.seq <= x.seq}
           sent == {m \in M : \A x \in bad : m.seq < x.seq}
           port == [r EXCEPT !.queue = @ \ (sent \cup lost),
                             !.nextRecv = @ + Cardinality(sent \cup lost),
                             !.nextSend = @ - Cardinality(lost)]
           left == {<<a[1], p>> : p \in Attached(lost)}
           none == lost = {}
           taken == Taken(st, a, port, left, none)
<1>1. ForwardUserMessagesFromProxy(st, a)
        = PrepareToForwardUserMessage(taken, a, sent)
  BY DEF ForwardUserMessagesFromProxy, Taken
<1>2. r \in Port /\ r.queue \in FiniteSubset(Message) /\ a[1] \in Node
  BY PortOfState
<1>3. M \subseteq r.queue
  BY DEF Sequential
<1>4. ASSUME NEW m \in sent, NEW p \in Attached({m})
      PROVE  <<a[1], p>> \in DOMAIN st.ports
               /\ st.ports[<<a[1], p>>].state = "receiving"
  <2>1. m.seq \in Nat
    BY <1>2, <1>3 DEF FiniteSubset, Message
  <2>2. m \notin bad
    BY <2>1
  <2>3. QED
    BY <2>2 DEF Unsendable
<1>5. /\ lost \subseteq r.queue /\ sent \subseteq r.queue
      /\ sent \cup lost \subseteq r.queue
  BY <1>3
<1> HIDE DEF M, lost, sent
<1>6. /\ lost \in FiniteSubset(Message) /\ sent \in FiniteSubset(Message)
      /\ Cardinality(lost) \in Nat /\ Cardinality(sent \cup lost) \in Nat
  BY <1>2, <1>5, SubsetOfFinite
<1>7. port \in Port
  BY <1>2, <1>5, <1>6, TakenPort
<1>8. left \in SUBSET Addr
  BY <1>2, <1>6, AttachedAddrs
<1>9. none \in BOOLEAN
  OBVIOUS
<1>10. Later(r, port)
  BY <1>2, <1>6, PortFields DEF Later, Port
<1> HIDE DEF port, left, none
<1>11. taken \in HandlerState /\ DOMAIN taken.ports = DOMAIN st.ports
  BY <1>7, <1>8, <1>9, SetPortAndRest
<1>12. taken.ports = [st.ports EXCEPT ![a] = port]
  BY DEF Taken, HandlerState
<1> HIDE DEF taken
<1>13. Evolves(st.ports, taken.ports)
  BY <1>7, <1>10, <1>12, ReplaceEvolves
<1>14. \A p \in Attached(sent) : /\ <<a[1], p>> \in DOMAIN taken.ports
                                 /\ taken.ports[<<a[1], p>>].state = "receiving"
  <2>1. \A p \in Attached(sent) : /\ <<a[1], p>> \in DOMAIN st.ports
                                  /\ st.ports[<<a[1], p>>].state = "receiving"
    BY <1>4 DEF Attached
  <2>2. \A b \in DOMAIN st.ports : b # a => taken.ports[b] = st.ports[b]
    BY <1>12
  <2>3. QED
    BY <1>11, <2>1, <2>2
<1>15. PrepareToForwardUserMessage(taken, a, sent) \in HandlerState
  BY <1>6, <1>11, <1>14, PrepareToForwardType
<1>16. Evolves(taken.ports, PrepareToForwardUserMessage(taken, a, sent).ports)
  BY <1>6, <1>11, <1>14, PrepareToForwardEvolves
<1>17. QED
  BY <1>1, <1>11, <1>13, <1>15, <1>16, EvolvesOrder

\* Erasing a port.
LEMMA ErasedEvolves ==
  ASSUME NEW st \in HandlerState, NEW a, NEW sent, NEW left
  PROVE  Evolves(st.ports, Erased(st, a, sent, left).ports)
<1>1. Erased(st, a, sent, left).ports = Erase(st.ports, a)
  BY DEF Erased, HandlerState
<1>2. QED
  BY <1>1, PortOfState, LaterOrder DEF Evolves, Erase

\* Removal and closing change no port but the one they erase.
LEMMA RemovalEvolves ==
  ASSUME NEW st \in HandlerState, NEW a \in DOMAIN st.ports
  PROVE  /\ Evolves(st.ports, TryRemoveProxy(st, a).ports)
         /\ Evolves(st.ports, InitiateProxyRemoval(st, a).ports)
         /\ Evolves(st.ports, StartRemoval(st, a).ports)
         /\ Evolves(st.ports, Close(st, a).ports)
<1>1. ASSUME NEW s \in HandlerState, a \in DOMAIN s.ports
      PROVE  Evolves(s.ports, TryRemoveProxy(s, a).ports)
  <2> DEFINE r == s.ports[a]
             ack == IF r.sendOnRemoval = NoAddr THEN {}
                    ELSE {ObserveProxyAck(a[1], r.sendOnRemoval,
                                          kInvalidSequenceNum)}
             left == {<<a[1], p>> : p \in Attached(r.queue)}
  <2>1. \/ TryRemoveProxy(s, a) = s
        \/ TryRemoveProxy(s, a) = Erased(s, a, ack, left)
    BY DEF TryRemoveProxy, Erased, HandlerState
  <2>2. QED
    BY <2>1, ErasedEvolves, EvolvesOrder
<1>2. Evolves(st.ports, InitiateProxyRemoval(st, a).ports)
  BY InitiateProxyRemovalType, EvolvesOrder
<1>3. Evolves(st.ports, StartRemoval(st, a).ports)
  <2> DEFINE r == st.ports[a]
             sent == {ObserveClosure(a[1], r.peer, r.lastRecv)}
             s == [st EXCEPT !.out = @ \cup sent]
  <2>1. sent \in SUBSET Event
    BY PortOfState, EventTypes
  <2>2. s \in HandlerState /\ s.ports = st.ports
    BY <2>1, SendEvents
  <2>3. \/ StartRemoval(st, a) = TryRemoveProxy(s, a)
        \/ StartRemoval(st, a) = InitiateProxyRemoval(st, a)
    BY DEF StartRemoval
  <2> HIDE DEF s
  <2>4. QED
    BY <1>1, <1>2, <2>2, <2>3
<1>4. Evolves(st.ports, Close(st, a).ports)
  <2> DEFINE r == st.ports[a]
             sent == {ObserveClosure(a[1], r.peer, r.nextSend - 1)}
             left == {<<a[1], p>> : p \in Attached(r.queue)}
  <2>1. \/ Close(st, a) = st
        \/ Close(st, a) = Erased(st, a, sent, left)
    BY DEF Close, Erased
  <2>2. QED
    BY <2>1, ErasedEvolves, EvolvesOrder
<1>5. QED
  BY <1>1, <1>2, <1>3, <1>4
\* Beginning to proxy.
LEMMA BeginProxyingEvolves ==
  ASSUME NEW st \in HandlerState, NEW a \in DOMAIN st.ports
  PROVE  Evolves(st.ports, BeginProxying(st, a).ports)
<1> DEFINE s == [st EXCEPT !.ports[a].state = "proxying"]
           port == [st.ports[a] EXCEPT !.state = "proxying"]
           forwarded == ForwardUserMessagesFromProxy(s, a)
           reported == [st EXCEPT !.oops = @ \cup {"begin proxying"}]
<1>1. port \in Port
  BY PortOfState DEF Port, State
<1>2. s = [st EXCEPT !.ports[a] = port] /\ s.ports = [st.ports EXCEPT ![a] = port]
  BY DEF HandlerState
<1>3. Later(st.ports[a], port) /\ port.state = "proxying"
  BY PortOfState, PortFields DEF Later, Port
<1> HIDE DEF port
<1>4. s \in HandlerState /\ DOMAIN s.ports = DOMAIN st.ports
  BY <1>1, <1>2, SetPort DEF HandlerState
<1>5. \/ BeginProxying(st, a) = reported
      \/ BeginProxying(st, a) = forwarded
      \/ BeginProxying(st, a) = StartRemoval(forwarded, a)
  BY DEF BeginProxying
<1>6. reported.ports = st.ports
  BY DEF HandlerState
<1> HIDE DEF s, reported
<1>7. Evolves(st.ports, s.ports)
  BY <1>1, <1>2, <1>3, ReplaceEvolves
<1>8. s.ports[a].state = "proxying"
  BY <1>2, <1>3
<1>9. forwarded \in HandlerState /\ a \in DOMAIN forwarded.ports
  BY <1>4, ForwardFromProxyType
<1>10. Evolves(st.ports, forwarded.ports)
  <2>1. Evolves(s.ports, forwarded.ports)
    BY <1>4, <1>8, ForwardFromProxyEvolves
  <2>2. QED
    BY <1>4, <1>7, <1>9, <2>1, EvolvesOrder
<1> HIDE DEF forwarded
<1>11. Evolves(st.ports, StartRemoval(forwarded, a).ports)
  <2>1. Evolves(forwarded.ports, StartRemoval(forwarded, a).ports)
    BY <1>9, RemovalEvolves
  <2>2. StartRemoval(forwarded, a) \in HandlerState
    BY <1>9, StartRemovalType
  <2>3. QED
    BY <1>9, <1>10, <2>1, <2>2, EvolvesOrder
<1>12. Evolves(st.ports, reported.ports)
  BY <1>6, EvolvesOrder
<1>13. QED
  BY <1>5, <1>10, <1>11, <1>12

\* Destroying ports marks or erases them.
LEMMA DestroyEvolves ==
  ASSUME NEW st \in HandlerState, NEW n, NEW S
  PROVE  Evolves(st.ports, DestroyAllPortsWithPeer(st, n, S).ports)
<1> DEFINE all == Stranded(st, n, S)
           dead == {b \in all : st.ports[b].state # "receiving"}
           fresh == {b \in all \ dead : ~st.ports[b].peerClosed}
           ps == [b \in DOMAIN st.ports \ dead |->
                    IF b \in fresh
                    THEN [st.ports[b] EXCEPT !.peerClosed = TRUE,
                            !.lastRecv = st.ports[b].nextRecv - 1]
                    ELSE st.ports[b]]
<1>1. DestroyAllPortsWithPeer(st, n, S).ports = ps
  BY DEF DestroyAllPortsWithPeer, HandlerState
<1> HIDE DEF all
<1>2. ASSUME NEW b \in DOMAIN st.ports \ dead
      PROVE  Later(st.ports[b], ps[b])
  <2>1. st.ports[b] \in Port
    BY PortOfState
  <2> DEFINE r == st.ports[b]
             q == [r EXCEPT !.peerClosed = TRUE, !.lastRecv = r.nextRecv - 1]
  <2>2. /\ q.state = r.state /\ q.nextRecv = r.nextRecv
        /\ q.nextSend = r.nextSend /\ q.peerClosed = TRUE /\ q.end = r.end
    BY <2>1 DEF Port
  <2>3. ps[b] = q \/ ps[b] = r
    OBVIOUS
  <2> HIDE DEF r, q, ps
  <2>4. Later(r, q)
    BY <2>1, <2>2, PortFields DEF Later, r
  <2>5. Later(r, r)
    BY <2>1, LaterOrder DEF r
  <2>6. QED
    BY <2>3, <2>4, <2>5 DEF r
<1>3. DOMAIN ps \subseteq DOMAIN st.ports
  OBVIOUS
<1>4. DOMAIN ps = DOMAIN st.ports \ dead
  OBVIOUS
<1> HIDE DEF ps, dead
<1>5. QED
  BY <1>1, <1>2, <1>3, <1>4 DEF Evolves

\* Observing a proxy or a closure.
LEMMA ObservedEvolves ==
  ASSUME NEW st \in HandlerState, NEW a \in DOMAIN st.ports,
         NEW e, e.proxy \in Addr, e.target \in Addr
  PROVE  /\ Evolves(st.ports, Bypass(st, a, e).ports)
         /\ Evolves(st.ports, StashAck(st, a, e).ports)
<1> DEFINE r == st.ports[a]
           bypassing == [r EXCEPT !.peer = e.target]
           stashing == [r EXCEPT !.sendOnRemoval = e.proxy]
<1>1. r \in Port
  BY PortOfState
<1>2. bypassing \in Port /\ stashing \in Port
  BY <1>1 DEF Port
<1>3. Later(r, bypassing) /\ Later(r, stashing)
  BY <1>1, PortFields DEF Later, Port
<1>4. /\ Bypass(st, a, e).ports = [st.ports EXCEPT ![a] = bypassing]
      /\ StashAck(st, a, e).ports = [st.ports EXCEPT ![a] = stashing]
  BY DEF Bypass, StashAck, HandlerState
<1> HIDE DEF bypassing, stashing
<1>5. QED
  BY <1>2, <1>3, <1>4, ReplaceEvolves

\* Observing closure.
LEMMA ClosureEvolves ==
  ASSUME NEW st \in HandlerState, NEW a \in DOMAIN st.ports, NEW last \in Int
  PROVE  Evolves(st.ports, ObservedClosure(st, a, last).ports)
<1> DEFINE r == st.ports[a]
           port == [r EXCEPT !.peerClosed = TRUE, !.lastRecv = last,
                             !.removeOnLast = @ \/ r.state # "receiving"]
<1>1. r \in Port
  BY PortOfState
<1>2. port \in Port
  BY <1>1 DEF Port
<1>3. Later(r, port)
  <2>1. /\ port.state = r.state /\ port.nextRecv = r.nextRecv
        /\ port.nextSend = r.nextSend /\ port.peerClosed = TRUE
        /\ port.end = r.end
    BY <1>1 DEF Port
  <2> HIDE DEF port
  <2>2. QED
    BY <1>1, <2>1, PortFields DEF Later
<1>4. ObservedClosure(st, a, last).ports = [st.ports EXCEPT ![a] = port]
  BY DEF ObservedClosure, HandlerState
<1> HIDE DEF port
<1>5. QED
  BY <1>2, <1>3, <1>4, ReplaceEvolves
\* The ports that exchange peers become proxies, which they may from any state.
LEMMA SwapEvolves ==
  ASSUME NEW st \in HandlerState, NEW a \in DOMAIN st.ports,
         NEW b \in DOMAIN st.ports, a # b
  PROVE  /\ Evolves(st.ports, SwapPeers(st, a, b).ports)
         /\ SwapPeers(st, a, b).ports[a].state = "proxying"
         /\ SwapPeers(st, a, b).ports[b].state = "proxying"
<1> DEFINE Proxy(r, peer) ==
             [r EXCEPT !.state = "proxying", !.peer = peer,
                       !.removeOnLast = @ \/ r.peerClosed]
           pa == Proxy(st.ports[a], st.ports[b].peer)
           pb == Proxy(st.ports[b], st.ports[a].peer)
           ps == [[st.ports EXCEPT ![a] = pa] EXCEPT ![b] = pb]
<1>1. SwapPeers(st, a, b).ports = ps
  BY DEF SwapPeers, HandlerState
<1>2. ASSUME NEW r \in Port, NEW peer
      PROVE  Later(r, Proxy(r, peer)) /\ Proxy(r, peer).state = "proxying"
  <2> DEFINE q == Proxy(r, peer)
  <2>1. /\ q.state = "proxying" /\ q.nextRecv = r.nextRecv
        /\ q.peerClosed = r.peerClosed /\ q.end = r.end
    BY DEF Port
  <2> HIDE DEF q
  <2>2. Later(r, q)
    BY <2>1, PortFields DEF Later
  <2>3. QED
    BY <2>1, <2>2 DEF q
<1>3. st.ports[a] \in Port /\ st.ports[b] \in Port
  BY PortOfState
<1> HIDE DEF Proxy
<1>4. /\ Later(st.ports[a], pa) /\ pa.state = "proxying"
      /\ Later(st.ports[b], pb) /\ pb.state = "proxying"
  BY <1>2, <1>3
<1> HIDE DEF pa, pb
<1>5. /\ DOMAIN ps = DOMAIN st.ports
      /\ \A c \in DOMAIN st.ports : ps[c] = IF c = b THEN pb
                                            ELSE IF c = a THEN pa
                                            ELSE st.ports[c]
  OBVIOUS
<1> HIDE DEF ps
<1>6. \A c \in DOMAIN st.ports : Later(st.ports[c], ps[c])
  BY <1>4, <1>5, PortOfState, LaterOrder
<1>7. QED
  BY <1>1, <1>4, <1>5, <1>6 DEF Evolves

\* Closing a receiving port erases it.
LEMMA CloseErases ==
  ASSUME NEW st \in HandlerState, NEW a \in DOMAIN st.ports,
         st.ports[a].state = "receiving"
  PROVE  Close(st, a).ports = Erase(st.ports, a)
BY DEF Close, HandlerState

\* A merge that fails half-way closes both ports; the others have evolved.
LEMMA UndoEvolves ==
  ASSUME NEW st \in HandlerState, NEW a \in DOMAIN st.ports,
         NEW b \in DOMAIN st.ports, a # b
  PROVE  Evolves(st.ports, Close(Close(UndoSwap(st, a, b), a), b).ports)
<1> DEFINE Receiving(r, peer) ==
             [r EXCEPT !.state = "receiving", !.peer = peer,
                       !.removeOnLast = FALSE]
           pa == Receiving(st.ports[a], st.ports[b].peer)
           pb == Receiving(st.ports[b], st.ports[a].peer)
           undone == UndoSwap(st, a, b)
           first == Close(undone, a)
           second == Close(first, b)
<1>1. undone.ports = [[st.ports EXCEPT ![a] = pa] EXCEPT ![b] = pb]
  BY DEF UndoSwap, HandlerState
<1>2. pa.state = "receiving" /\ pb.state = "receiving"
  BY PortOfState DEF Port
<1>3. undone \in HandlerState /\ DOMAIN undone.ports = DOMAIN st.ports
  BY SwapType
<1> HIDE DEF pa, pb, undone
<1>4. /\ undone.ports[a].state = "receiving"
      /\ undone.ports[b].state = "receiving"
      /\ \A c \in DOMAIN st.ports \ {a, b} : undone.ports[c] = st.ports[c]
  BY <1>1, <1>2
<1>5. first \in HandlerState /\ first.ports = Erase(undone.ports, a)
  BY <1>3, <1>4, CloseType, CloseErases
<1> HIDE DEF first
<1>6. /\ DOMAIN first.ports = DOMAIN st.ports \ {a}
      /\ first.ports[b].state = "receiving"
      /\ \A c \in DOMAIN st.ports \ {a, b} : first.ports[c] = st.ports[c]
  BY <1>3, <1>4, <1>5 DEF Erase
<1>7. second.ports = Erase(first.ports, b)
  BY <1>5, <1>6, CloseErases
<1>8. /\ DOMAIN second.ports = DOMAIN st.ports \ {a, b}
      /\ \A c \in DOMAIN st.ports \ {a, b} : second.ports[c] = st.ports[c]
  BY <1>6, <1>7 DEF Erase
<1> HIDE DEF second
<1>9. Evolves(st.ports, second.ports)
  BY <1>8, PortOfState, LaterOrder DEF Evolves
<1>10. QED
  BY <1>9 DEF second, first, undone

\* Merging two ports.
LEMMA MergeEvolves ==
  ASSUME NEW st \in HandlerState, NEW a \in DOMAIN st.ports,
         NEW b \in DOMAIN st.ports, a # b, NEW allowClose
  PROVE  Evolves(st.ports, MergePortsInternal(st, a, b, allowClose).ports)
<1> DEFINE swapped == SwapPeers(st, a, b)
           first == ForwardUserMessagesFromProxy(swapped, a)
           flushed == IF first.ok THEN ForwardUserMessagesFromProxy(first, b)
                      ELSE first
           CloseIf(s, c) == IF allowClose \/ s.ports[c].state = "receiving"
                            THEN Close(s, c) ELSE s
           once == CloseIf(st, a)
           closed == CloseIf(once, b)
           undone == Close(Close(UndoSwap(flushed, a, b), a), b)
           started == StartRemoval(flushed, a)
           merged == MergePortsInternal(st, a, b, allowClose)
<1>1. \/ merged = [closed EXCEPT !.ok = FALSE]
      \/ merged = StartRemoval(started, b)
      \/ merged = undone
  BY DEF MergePortsInternal
<1>2. /\ swapped \in HandlerState /\ DOMAIN swapped.ports = DOMAIN st.ports
      /\ Evolves(st.ports, swapped.ports)
      /\ swapped.ports[a].state = "proxying"
      /\ swapped.ports[b].state = "proxying"
  BY SwapType, SwapEvolves
<1> HIDE DEF swapped
<1>3. /\ first \in HandlerState /\ DOMAIN first.ports = DOMAIN st.ports
      /\ Evolves(swapped.ports, first.ports)
  BY <1>2, ForwardFromProxyType, ForwardFromProxyEvolves
<1>4. first.ports[b].state = "proxying"
  BY <1>2, <1>3 DEF Evolves, Later
<1> HIDE DEF first
<1>5. Evolves(st.ports, first.ports)
  BY <1>2, <1>3, EvolvesOrder
<1>6. /\ flushed \in HandlerState /\ DOMAIN flushed.ports = DOMAIN st.ports
      /\ Evolves(first.ports, flushed.ports)
  BY <1>3, <1>4, ForwardFromProxyType, ForwardFromProxyEvolves, EvolvesOrder
<1> HIDE DEF flushed
<1>7. Evolves(st.ports, flushed.ports)
  BY <1>3, <1>5, <1>6, EvolvesOrder
<1>8. ASSUME merged = [closed EXCEPT !.ok = FALSE]
      PROVE  Evolves(st.ports, merged.ports)
  <2>1. once \in HandlerState /\ b \in DOMAIN once.ports
          /\ Evolves(st.ports, once.ports)
    BY CloseType, RemovalEvolves, EvolvesOrder
  <2> HIDE DEF once
  <2>2. closed \in HandlerState /\ Evolves(once.ports, closed.ports)
    BY <2>1, CloseType, RemovalEvolves, EvolvesOrder
  <2> HIDE DEF closed, merged
  <2>3. merged.ports = closed.ports
    BY <1>8, <2>2 DEF HandlerState
  <2>4. QED
    BY <2>1, <2>2, <2>3, EvolvesOrder
<1>9. ASSUME merged = StartRemoval(started, b)
      PROVE  Evolves(st.ports, merged.ports)
  <2>1. /\ started \in HandlerState /\ b \in DOMAIN started.ports
        /\ Evolves(flushed.ports, started.ports)
    BY <1>6, StartRemovalType, RemovalEvolves
  <2> HIDE DEF started
  <2>2. /\ StartRemoval(started, b) \in HandlerState
        /\ Evolves(started.ports, StartRemoval(started, b).ports)
    BY <2>1, StartRemovalType, RemovalEvolves
  <2>3. Evolves(st.ports, started.ports)
    BY <1>6, <1>7, <2>1, EvolvesOrder
  <2>4. QED
    BY <1>9, <2>1, <2>2, <2>3, EvolvesOrder
<1>10. ASSUME merged = undone
       PROVE  Evolves(st.ports, merged.ports)
  <2>1. Evolves(flushed.ports, undone.ports)
    BY <1>6, UndoEvolves
  <2>2. merged \in HandlerState
    BY MergeType
  <2> HIDE DEF undone, merged
  <2>3. QED
    BY <1>6, <1>7, <1>10, <2>1, <2>2, EvolvesOrder
<1>11. QED
  BY <1>1, <1>8, <1>9, <1>10
-----------------------------------------------------------------------------
(***************************************************************************)
(* Every action lets the ports advance.                                    *)
(***************************************************************************)
\* A handler whose operations let the node's ports evolve.
LEMMA BeginEvolves ==
  ASSUME TypeOK, NEW st, Evolves(Begin.ports, st.ports), ports' = st.ports
  PROVE  Advances
<1>1. Begin.ports = ports
  BY BeginType
<1>2. QED
  BY <1>1 DEF Evolves, Advances

\* A handler that leaves the ports alone.
LEMMA SamePorts ==
  ASSUME TypeOK, ports' = ports
  PROVE  Advances
BY PortType, LaterOrder DEF Advances

\* Accepted ports are new ones; the others then evolve.
LEMMA AcceptEvolves ==
  ASSUME TypeOK, NEW n \in Node, NEW D \in SUBSET Moved,
         NEW st, Evolves(AcceptPorts(Begin, n, D).ports, st.ports),
         ports' = st.ports
  PROVE  Advances
<1> DEFINE new == [b \in {<<n, d.name>> : d \in D} |->
                     AcceptedPort(CHOOSE d \in D : d.name = b[2])]
<1>1. Begin \in HandlerState /\ Begin.ports = ports
  BY BeginType
<1>2. AcceptPorts(Begin, n, D).ports = Extend(ports, new)
  BY <1>1 DEF AcceptPorts, HandlerState
<1> HIDE DEF new
<1>3. \A a \in DOMAIN ports : AcceptPorts(Begin, n, D).ports[a] = ports[a]
  BY <1>2 DEF Extend
<1>4. QED
  BY <1>3 DEF Evolves, Advances

\* CreatePortPair, ClosePort and its loop, and the merges.
LEMMA CreatePortPairAdvances ==
  ASSUME TypeOK, NEW n \in Node, CreatePortPair(n)
  PROVE  Advances
<1> DEFINE p == lastName + 1
           q == lastName + 2
           Other(x) == IF x = p THEN q ELSE p
           f == [b \in {<<n, p>>, <<n, q>>} |->
                   NewPort(<<n, Other(b[2])>>, b[2])]
<1>1. ports' = Extend(ports, f)
  BY DEF CreatePortPair
<1> HIDE DEF f
<1>2. \A a \in DOMAIN ports : ports'[a] = ports[a]
  BY <1>1 DEF Extend
<1>3. QED
  BY <1>2, PortType, LaterOrder DEF Advances

\* ClosePort and CloseOrphan.
LEMMA CloseAdvances ==
  ASSUME TypeOK, NEW a, ClosePort(a) \/ CloseOrphan(a)
  PROVE  Advances
<1>1. Begin \in HandlerState /\ Begin.ports = ports
  BY BeginType
<1>2. \/ a \in DOMAIN ports /\ ports' = Close(Begin, a).ports
      \/ ports' = Begin.ports
  BY DEF ClosePort, CloseOrphan, Usable, Idle, Commit
<1>3. CASE ports' = Begin.ports
  BY <1>1, <1>3, SamePorts
<1>4. CASE a \in DOMAIN ports /\ ports' = Close(Begin, a).ports
  <2>1. Evolves(Begin.ports, Close(Begin, a).ports)
    BY <1>1, <1>4, RemovalEvolves
  <2>2. QED
    BY <1>4, <2>1, BeginEvolves
<1>5. QED
  BY <1>2, <1>3, <1>4

\* MergeLocalPorts.
LEMMA MergeLocalPortsAdvances ==
  ASSUME TypeOK, NEW a, NEW b, MergeLocalPorts(a, b)
  PROVE  Advances
<1>1. Begin \in HandlerState /\ Begin.ports = ports
  BY BeginType
<1>2. /\ a \in DOMAIN ports /\ b \in DOMAIN ports /\ a # b
      /\ ports' = MergePortsInternal(Begin, a, b, TRUE).ports
  BY DEF MergeLocalPorts, Usable, Commit
<1>3. Evolves(Begin.ports, MergePortsInternal(Begin, a, b, TRUE).ports)
  BY <1>1, <1>2, MergeEvolves
<1>4. QED
  BY <1>2, <1>3, BeginEvolves

\* MergePorts sends away a port that was receiving.
LEMMA MergePortsAdvances ==
  ASSUME TypeOK, NEW a, NEW b, MergePorts(a, b)
  PROVE  Advances
<1> DEFINE to == <<b[1], lastName + 1>>
           port == ConvertToProxy(ports[a], to)
<1>1. a \in DOMAIN ports /\ ports[a].state = "receiving"
  BY DEF MergePorts, Idle
<1>2. ports' = [ports EXCEPT ![a] = port]
  BY DEF MergePorts, Commit, Begin
<1>3. Later(ports[a], port)
  BY <1>1, PortType, ConvertLater
<1> HIDE DEF port
<1>4. QED
  BY <1>1, <1>2, <1>3, PortType, LaterOrder DEF Advances

\* SendUserMessage numbers a message, or takes the number back.
LEMMA SendUserMessageAdvances ==
  ASSUME TypeOK, NEW a \in held, NEW A \in FiniteSubset(held),
         SendUserMessage(a, A)
  PROVE  Advances
<1> DEFINE r == ports[a]
           m == [seq |-> r.nextSend % SeqModulus, num |-> r.nextSend,
                 from |-> r.end,
                 att |-> {LocalPort(b[2], ports[b].end) : b \in A}]
           up == [r EXCEPT !.nextSend = @ + 1]
           down == [up EXCEPT !.nextSend = @ - 1]
           numbered == [Begin EXCEPT !.ports[a].nextSend = @ + 1]
           refused == IF RefusedAtOnce(a, A) THEN Begin
                      ELSE Backpedal(numbered, a)
           sending == PrepareToForwardUserMessage(numbered, a, {m})
<1>1. /\ a \in DOMAIN ports /\ A \in FiniteSubset(DOMAIN ports)
      /\ r.state = "receiving"
  BY DEF SendUserMessage, MayAttach, Usable, FiniteSubset
<1>2. Begin \in HandlerState /\ Begin.ports = ports
  BY BeginType
<1>3. numbered \in HandlerState /\ DOMAIN numbered.ports = DOMAIN ports
  BY <1>1, <1>2, NumberedType
<1>4. numbered.ports = [ports EXCEPT ![a] = up]
  BY <1>2 DEF HandlerState
<1>5. up \in Port /\ Later(r, up) /\ up.state = "receiving"
  <2>1. r \in Port /\ r.nextSend \in Int /\ r.nextSend + 1 \in Int
    BY <1>1, PortType
  <2>2. /\ up.state = r.state /\ up.nextRecv = r.nextRecv
        /\ up.nextSend = r.nextSend + 1 /\ up.peerClosed = r.peerClosed
        /\ up.end = r.end /\ up \in Port
    BY <2>1 DEF Port
  <2> HIDE DEF up
  <2>3. QED
    BY <1>1, <2>1, <2>2, PortFields DEF Later
<1>6. \/ ~Refused(a, A) /\ ports' = sending.ports
      \/ ports' = refused.ports
  BY DEF SendUserMessage, Commit, Begin, Backpedal
<1>7. CASE ~Refused(a, A) /\ ports' = sending.ports
  <2>1. m \in Message /\ {m} \in FiniteSubset(Message)
          /\ Attached({m}) = {b[2] : b \in A}
    BY <1>1, SentMessage
  <2>2. \A p \in Attached({m}) : /\ <<a[1], p>> \in DOMAIN ports
                                 /\ ports[<<a[1], p>>].state = "receiving"
    BY <1>2, <1>7, <2>1 DEF Refused, Unsendable
  <2> HIDE DEF m, numbered, up
  <2>3. \A p \in Attached({m}) :
           /\ <<a[1], p>> \in DOMAIN numbered.ports
           /\ numbered.ports[<<a[1], p>>].state = "receiving"
    BY <1>1, <1>3, <1>4, <1>5, <2>2
  <2>4. Evolves(numbered.ports, sending.ports)
    BY <1>1, <1>3, <2>1, <2>3, PrepareToForwardEvolves
  <2>5. sending \in HandlerState
    BY <1>1, <1>3, <2>1, <2>3, PrepareToForwardType
  <2>6. Evolves(Begin.ports, numbered.ports)
    BY <1>1, <1>2, <1>4, <1>5, ReplaceEvolves
  <2> HIDE DEF sending
  <2>7. Evolves(Begin.ports, sending.ports)
    BY <1>2, <1>3, <2>4, <2>5, <2>6, EvolvesOrder
  <2>8. QED
    BY <1>7, <2>7, BeginEvolves
<1>8. CASE ports' = refused.ports
  <2>1. CASE RefusedAtOnce(a, A)
    BY <1>2, <1>8, <2>1, SamePorts
  <2>2. CASE ~RefusedAtOnce(a, A)
    <3>1. ports' = Backpedal(numbered, a).ports
      BY <1>8, <2>2
    <3>2. Backpedal(numbered, a).ports = [numbered.ports EXCEPT ![a] = down]
      BY <1>3, <1>4 DEF Backpedal, HandlerState
    <3>3. Later(r, down)
      <4>1. r \in Port /\ r.nextSend \in Int
        BY <1>1, PortType
      <4>2. /\ down.state = r.state /\ down.nextRecv = r.nextRecv
            /\ down.nextSend = (r.nextSend + 1) - 1
            /\ down.peerClosed = r.peerClosed /\ down.end = r.end
        BY <4>1 DEF Port
      <4> HIDE DEF down
      <4>3. QED
        BY <4>1, <4>2, PortFields DEF Later
    <3> HIDE DEF down, numbered, up
    <3>4. /\ ports'[a] = down
          /\ \A b \in DOMAIN ports : b # a => ports'[b] = ports[b]
      BY <1>1, <1>4, <3>1, <3>2
    <3>5. QED
      BY <3>3, <3>4, PortType, LaterOrder DEF Advances
  <2>3. QED
    BY <2>1, <2>2
<1>9. QED
  BY <1>6, <1>7, <1>8

\* GetMessage counts the message it takes.
LEMMA GetMessageAdvances ==
  ASSUME TypeOK, NEW a \in held, GetMessage(a)
  PROVE  Advances
<1> DEFINE r == ports[a]
           m == CHOOSE x \in r.queue : x.seq = r.nextRecv
           new == {<<a[1], p>> : p \in Attached({m})}
           port == [r EXCEPT !.queue = @ \ {m}, !.nextRecv = @ + 1]
           taken == [ports EXCEPT ![a] = port]
<1>1. a \in DOMAIN ports
  BY DEF GetMessage, Usable
<1>2. ports' = SetSignalable(taken, new) \/ ports' = ports
  BY DEF GetMessage
<1>3. r \in Port
  BY <1>1, PortType
<1> HIDE DEF m, new
<1>4. /\ port.state = r.state /\ port.nextRecv = r.nextRecv + 1
      /\ port.nextSend = r.nextSend /\ port.peerClosed = r.peerClosed
      /\ port.end = r.end
  BY <1>3 DEF Port
<1>5. port \in Port
  <2>1. r.queue \in FiniteSubset(Message) /\ r.nextRecv + 1 \in Nat \ {0}
    BY <1>1, PortType
  <2>2. r.queue \ {m} \in FiniteSubset(Message)
    BY <2>1, SubsetOfFinite
  <2>3. QED
    BY <1>3, <2>1, <2>2 DEF Port
<1> HIDE DEF port
<1>6. ASSUME NEW b \in DOMAIN ports, ports' = SetSignalable(taken, new)
      PROVE  Later(ports[b], ports'[b])
  <2> DEFINE t == taken[b]
  <2>1. ports[b] \in Port
    BY PortType
  <2>2. ports'[b] = t \/ ports'[b] = [t EXCEPT !.signalable = TRUE]
    BY <1>6 DEF SetSignalable
  <2>3. t = ports[b] \/ (b = a /\ t = port)
    OBVIOUS
  <2> HIDE DEF t
  <2>4. Later(ports[b], t)
    BY <1>3, <1>4, <2>1, <2>3, PortFields DEF Later
  <2>5. /\ [t EXCEPT !.signalable = TRUE].state = t.state
        /\ [t EXCEPT !.signalable = TRUE].nextRecv = t.nextRecv
        /\ [t EXCEPT !.signalable = TRUE].nextSend = t.nextSend
        /\ [t EXCEPT !.signalable = TRUE].peerClosed = t.peerClosed
        /\ [t EXCEPT !.signalable = TRUE].end = t.end
    <3>1. t \in Port
      BY <1>5, <2>1, <2>3
    <3>2. QED
      BY <3>1 DEF Port
  <2>6. QED
    BY <2>2, <2>4, <2>5 DEF Later
<1>7. QED
  BY <1>2, <1>6, SamePorts DEF Advances
\* OnUserMessage.
LEMMA OnUserMessageAdvances ==
  ASSUME TypeOK, NEW e \in BagToSet(net), OnUserMessage(e)
  PROVE  Advances
<1> DEFINE n == e.to[1]
           a == e.to
           here == {<<n, d.name>> : d \in e.msg.att}
           D == {d \in e.msg.att : d.referring # NoAddr}
           st == AcceptPorts(Begin, n, D)
           m == [e.msg EXCEPT !.att = {LocalPort(d.name, d.end) : d \in e.msg.att}]
           queued == [st EXCEPT !.ports[a].queue = @ \cup {m}]
           r == queued.ports[a]
           forwarded == ForwardUserMessagesFromProxy(queued, a)
           told == IF r.signalable /\ HasNextMessage(r) THEN {a} ELSE {}
           accepted ==
             CASE r.state = "proxying" ->
                    IF forwarded.ok THEN TryRemoveProxy(forwarded, a)
                    ELSE forwarded
               [] r.state = "buffering" -> queued
               [] r.state = "receiving" -> [queued EXCEPT !.changed = told]
           unknown == [st EXCEPT !.oops = @ \cup {"port unknown"}]
           rejected == [st EXCEPT !.orphans = here]
<1>1. /\ e \in Event /\ e.to \in Addr /\ e.to[1] \in Node /\ e.msg \in Message
  BY WithoutType, EventParts DEF OnUserMessage
<1>2. D \in SUBSET Moved
  BY <1>1 DEF Message, FiniteSubset, Descriptor, Staying
<1>3. m \in Message
  BY <1>1, LocalMessage
<1>4. st \in HandlerState
  BY <1>1, <1>2, BeginType, AcceptPortsType
<1>5. \/ ports' = unknown.ports
      \/ a \in DOMAIN st.ports /\ ports' = accepted.ports
      \/ ports' = rejected.ports
  BY DEF OnUserMessage, Commit
<1> HIDE DEF m
<1>6. ASSUME NEW s, Evolves(st.ports, s.ports), ports' = s.ports
      PROVE  Advances
  BY <1>1, <1>2, <1>6, AcceptEvolves
<1> HIDE DEF st, here
<1>7. unknown.ports = st.ports /\ rejected.ports = st.ports
  BY <1>4 DEF HandlerState
<1>8. CASE ports' = unknown.ports \/ ports' = rejected.ports
  BY <1>4, <1>6, <1>7, <1>8, EvolvesOrder
<1>9. CASE a \in DOMAIN st.ports /\ ports' = accepted.ports
  <2> DEFINE port == [st.ports[a] EXCEPT !.queue = @ \cup {m}]
  <2>1. queued \in HandlerState /\ DOMAIN queued.ports = DOMAIN st.ports
    BY <1>3, <1>4, <1>9, QueuedType
  <2>2. queued.ports = [st.ports EXCEPT ![a] = port]
    BY <1>4 DEF HandlerState
  <2> HIDE DEF queued
  <2>3. r \in Port /\ r = port
    BY <1>9, <2>1, <2>2, PortOfState
  <2>4. Later(st.ports[a], port)
    <3>1. st.ports[a] \in Port
      BY <1>4, <1>9, PortOfState
    <3>2. /\ port.state = st.ports[a].state
          /\ port.nextRecv = st.ports[a].nextRecv
          /\ port.nextSend = st.ports[a].nextSend
          /\ port.peerClosed = st.ports[a].peerClosed
          /\ port.end = st.ports[a].end
      BY <3>1 DEF Port
    <3> HIDE DEF port
    <3>3. QED
      BY <3>1, <3>2, PortFields DEF Later
  <2> HIDE DEF port
  <2>5. Evolves(st.ports, queued.ports)
    BY <1>4, <1>9, <2>2, <2>3, <2>4, ReplaceEvolves
  <2> HIDE DEF told
  <2>6. CASE r.state = "proxying"
    <3>1. /\ forwarded \in HandlerState /\ a \in DOMAIN forwarded.ports
          /\ Evolves(queued.ports, forwarded.ports)
      BY <1>9, <2>1, <2>6, ForwardFromProxyType, ForwardFromProxyEvolves
    <3>2. accepted = forwarded \/ accepted = TryRemoveProxy(forwarded, a)
      BY <2>6
    <3> HIDE DEF forwarded, accepted, r
    <3>3. Evolves(st.ports, forwarded.ports)
      BY <1>4, <2>1, <2>5, <3>1, EvolvesOrder
    <3>4. /\ TryRemoveProxy(forwarded, a) \in HandlerState
          /\ Evolves(forwarded.ports, TryRemoveProxy(forwarded, a).ports)
      BY <3>1, TryRemoveProxyType, RemovalEvolves
    <3>5. Evolves(st.ports, TryRemoveProxy(forwarded, a).ports)
      BY <1>4, <3>1, <3>3, <3>4, EvolvesOrder
    <3>6. QED
      BY <1>6, <1>9, <3>2, <3>3, <3>5
  <2>7. CASE r.state # "proxying"
    <3>1. r.state = "receiving" \/ r.state = "buffering"
      BY <2>3, <2>7, PortFields
    <3>2. accepted = queued \/ accepted = [queued EXCEPT !.changed = told]
      <4> HIDE DEF r
      <4>1. QED
        BY <3>1
    <3> HIDE DEF accepted
    <3>3. accepted.ports = queued.ports
      BY <2>1, <3>2 DEF HandlerState
    <3>4. QED
      BY <1>6, <1>9, <2>5, <3>3
  <2>8. QED
    BY <2>6, <2>7
<1>10. QED
  BY <1>5, <1>8, <1>9

\* The handlers of the events that move no port.
LEMMA HandlersAdvance ==
  ASSUME TypeOK, NEW e \in BagToSet(net),
         OnPortAccepted(e) \/ OnObserveProxy(e) \/ OnObserveProxyAck(e)
           \/ OnObserveClosure(e) \/ OnProxyDied(e)
  PROVE  Advances
<1> DEFINE a == e.to
<1>1. Begin \in HandlerState /\ Begin.ports = ports
  BY BeginType
<1>2. CASE OnPortAccepted(e)
  <2>1. \/ ports' = Begin.ports
        \/ a \in DOMAIN ports /\ ports' = BeginProxying(Begin, a).ports
    BY <1>2 DEF OnPortAccepted, Commit
  <2>2. a \in DOMAIN ports => Evolves(Begin.ports, BeginProxying(Begin, a).ports)
    BY <1>1, BeginProxyingEvolves
  <2>3. QED
    BY <1>1, <2>1, <2>2, SamePorts, BeginEvolves
<1>3. CASE OnObserveProxy(e)
  <2>1. e.proxy \in Addr /\ e.target \in Addr
    BY <1>3, WithoutType, EventParts DEF OnObserveProxy
  <2>2. \/ ports' = Begin.ports
        \/ a \in DOMAIN ports /\ ports' = Bypass(Begin, a, e).ports
        \/ a \in DOMAIN ports /\ ports' = StashAck(Begin, a, e).ports
    <3>1. CASE a \notin DOMAIN ports
      BY <1>3, <3>1 DEF OnObserveProxy, Commit
    <3>2. CASE a \in DOMAIN ports /\ ports[a].peer # e.proxy
      BY <1>3, <3>2 DEF OnObserveProxy, Commit, Begin
    <3>3. CASE a \in DOMAIN ports /\ ports[a].peer = e.proxy
      BY <1>3, <3>3 DEF OnObserveProxy, Commit
    <3>4. QED
      BY <3>1, <3>2, <3>3
  <2>3. a \in DOMAIN ports => /\ Evolves(Begin.ports, Bypass(Begin, a, e).ports)
                              /\ Evolves(Begin.ports, StashAck(Begin, a, e).ports)
    BY <1>1, <2>1, ObservedEvolves
  <2>4. QED
    BY <1>1, <2>2, <2>3, SamePorts, BeginEvolves
<1>4. CASE OnObserveProxyAck(e)
  <2> DEFINE port == [ports[a] EXCEPT !.removeOnLast = TRUE, !.lastRecv = e.last]
             flagged == [Begin EXCEPT !.ports[a].removeOnLast = TRUE,
                                      !.ports[a].lastRecv = e.last]
  <2>1. e.last \in Int
    BY <1>4, WithoutType, EventParts DEF OnObserveProxyAck
  <2>2. \/ ports' = Begin.ports
        \/ a \in DOMAIN ports /\ ports' = InitiateProxyRemoval(Begin, a).ports
        \/ a \in DOMAIN ports /\ ports' = TryRemoveProxy(flagged, a).ports
    BY <1>4 DEF OnObserveProxyAck, Commit, Begin
  <2>3. ASSUME a \in DOMAIN ports
        PROVE  Evolves(Begin.ports, TryRemoveProxy(flagged, a).ports)
    <3>1. ports[a] \in Port
      BY <2>3, PortType
    <3>2. port \in Port
      BY <2>1, <3>1 DEF Port
    <3>3. Later(ports[a], port)
      BY <3>1, PortFields DEF Later, Port
    <3>4. /\ flagged = [Begin EXCEPT !.ports[a] = port]
          /\ flagged.ports = [Begin.ports EXCEPT ![a] = port]
      BY <1>1, <2>3 DEF HandlerState
    <3> HIDE DEF port
    <3>5. [Begin EXCEPT !.ports[a] = port] \in HandlerState
      BY <1>1, <2>3, <3>2, SetPort
    <3>6. flagged \in HandlerState
      BY <3>4, <3>5, Zenon
    <3> HIDE DEF flagged
    <3>7. Evolves(Begin.ports, flagged.ports)
      BY <1>1, <2>3, <3>2, <3>3, <3>4, ReplaceEvolves
    <3>8. a \in DOMAIN flagged.ports
      BY <1>1, <2>3, <3>4
    <3>9. /\ TryRemoveProxy(flagged, a) \in HandlerState
          /\ Evolves(flagged.ports, TryRemoveProxy(flagged, a).ports)
      BY <3>6, <3>8, TryRemoveProxyType, RemovalEvolves
    <3>10. QED
      BY <1>1, <3>6, <3>7, <3>9, EvolvesOrder
  <2>4. a \in DOMAIN ports =>
          Evolves(Begin.ports, InitiateProxyRemoval(Begin, a).ports)
    BY <1>1, RemovalEvolves
  <2> HIDE DEF flagged
  <2>5. QED
    BY <1>1, <2>2, <2>3, <2>4, SamePorts, BeginEvolves
<1>5. CASE OnObserveClosure(e)
  <2> DEFINE observed == ObservedClosure(Begin, a, e.last)
  <2>1. e.last \in Int
    BY <1>5, WithoutType, EventParts DEF OnObserveClosure
  <2>2. \/ ports' = Begin.ports
        \/ a \in DOMAIN ports /\ ports' = observed.ports
        \/ a \in DOMAIN ports /\ ports' = TryRemoveProxy(observed, a).ports
    <3>1. CASE a \notin DOMAIN ports
      BY <1>5, <3>1 DEF OnObserveClosure, Commit
    <3>2. CASE a \in DOMAIN ports
      BY <1>5, <3>2 DEF OnObserveClosure, Commit
    <3>3. QED
      BY <3>1, <3>2
  <2>3. ASSUME a \in DOMAIN ports
        PROVE  /\ observed \in HandlerState /\ a \in DOMAIN observed.ports
               /\ Evolves(Begin.ports, observed.ports)
    BY <1>1, <2>1, <2>3, ObservedClosureType, ClosureEvolves
  <2> HIDE DEF observed
  <2>4. ASSUME a \in DOMAIN ports
        PROVE  Evolves(Begin.ports, TryRemoveProxy(observed, a).ports)
    <3>1. /\ TryRemoveProxy(observed, a) \in HandlerState
          /\ Evolves(observed.ports, TryRemoveProxy(observed, a).ports)
      BY <2>3, <2>4, TryRemoveProxyType, RemovalEvolves
    <3>2. QED
      BY <1>1, <2>3, <2>4, <3>1, EvolvesOrder
  <2>5. QED
    BY <1>1, <2>2, <2>3, <2>4, SamePorts, BeginEvolves
<1>6. CASE OnProxyDied(e)
  <2> DEFINE S == {b \in DOMAIN ports : b[1] = e.to[1] /\ ports[b].peer = e.proxy}
  <2>1. ports' = DestroyAllPortsWithPeer(Begin, e.to[1], S).ports
    BY <1>6 DEF OnProxyDied, Commit
  <2> HIDE DEF S
  <2>2. QED
    BY <1>1, <2>1, DestroyEvolves, BeginEvolves
<1>7. QED
  BY <1>2, <1>3, <1>4, <1>5, <1>6

\* OnMergePort.
LEMMA OnMergePortAdvances ==
  ASSUME TypeOK, NEW e \in BagToSet(net), OnMergePort(e)
  PROVE  Advances
<1> DEFINE n == e.to[1]
           b == <<n, e.new.name>>
           st == AcceptPorts(Begin, n, {e.new})
           merged == MergePortsInternal(st, e.to, b, FALSE)
           found == e.to \in DOMAIN ports
<1>1. n \in Node /\ e.new \in Moved /\ {e.new} \in SUBSET Moved
  BY WithoutType, EventParts DEF OnMergePort
<1>2. Begin \in HandlerState /\ Begin.ports = ports
  BY BeginType
<1>3. /\ st \in HandlerState
      /\ DOMAIN st.ports = DOMAIN ports \cup {b}
      /\ st.ok <=> b \notin DOMAIN ports
  <2>1. /\ st \in HandlerState
        /\ DOMAIN st.ports = DOMAIN ports \cup {<<n, d.name>> : d \in {e.new}}
        /\ st.ok <=> \A d \in {e.new} : <<n, d.name>> \notin DOMAIN ports
    BY <1>1, <1>2, AcceptPortsType
  <2> HIDE DEF st
  <2>2. QED
    BY <2>1
<1>4. \/ st.ok /\ found /\ ports' = merged.ports
      \/ ports' = Close(st, b).ports
      \/ found /\ ports' = Close(Begin, e.to).ports
      \/ ports' = Begin.ports
  <2> HIDE DEF st, merged
  <2>1. /\ st.ok /\ found => Commit(merged, Without(e), orphans)
        /\ st.ok /\ ~found => Commit(Close(st, b), Without(e), orphans)
        /\ ~st.ok /\ found => Commit(Close(Begin, e.to), Without(e), orphans)
        /\ ~st.ok /\ ~found => Commit(Begin, Without(e), orphans)
    BY DEF OnMergePort, st, merged
  <2>2. QED
    BY <2>1 DEF Commit
<1>5. ASSUME NEW s, Evolves(st.ports, s.ports), ports' = s.ports
      PROVE  Advances
  BY <1>1, <1>5, AcceptEvolves
<1> HIDE DEF st
<1>6. ASSUME st.ok, found
      PROVE  Evolves(st.ports, merged.ports)
  BY <1>3, <1>6, MergeEvolves
<1>7. Evolves(st.ports, Close(st, b).ports)
  BY <1>3, RemovalEvolves
<1>8. ASSUME found
      PROVE  Evolves(Begin.ports, Close(Begin, e.to).ports)
  BY <1>2, <1>8, RemovalEvolves
<1> HIDE DEF merged, found
<1>9. QED
  BY <1>2, <1>4, <1>5, <1>6, <1>7, <1>8, SamePorts, BeginEvolves

\* The death of a process and its discovery.
LEMMA FailureAdvances ==
  ASSUME TypeOK, Failure
  PROVE  Advances
<1>1. ASSUME NEW m \in Node, Crash(m)
      PROVE  Advances
  BY <1>1, PortType, LaterOrder DEF Crash, Advances
<1>2. ASSUME NEW n \in Node, NEW m \in Node, LostConnectionToNode(n, m)
      PROVE  Advances
  <2> DEFINE S == {b \in On(n, DOMAIN ports) : ports[b].peer[1] = m}
             dropped == Dropped(n, m)
             st == DestroyAllPortsWithPeer(dropped, n, S)
  <2>1. ports' = st.ports
    BY <1>2 DEF LostConnectionToNode, Commit
  <2>2. dropped \in HandlerState /\ dropped.ports = Begin.ports
    BY DroppedType
  <2> HIDE DEF S, dropped
  <2>3. st \in HandlerState /\ Evolves(Begin.ports, st.ports)
    BY <2>2, DestroyType, DestroyEvolves
  <2> HIDE DEF st
  <2>4. QED
    BY <2>1, <2>3, BeginEvolves
<1>3. QED
  BY <1>1, <1>2 DEF Failure

-----------------------------------------------------------------------------
\* Every step lets the ports advance.
LEMMA NextAdvances == TypeOK /\ [Next]_vars => [Advances]_vars
<1> SUFFICES ASSUME TypeOK, Next
             PROVE  Advances
  BY DEF vars
<1>1. CASE Embedder
  <2>1. ASSUME NEW a \in held,
               NEW A \in FiniteSubset({b \in held : b[1] = a[1]}),
               SendUserMessage(a, A)
        PROVE  Advances
    <3>1. A \in FiniteSubset(held)
      BY DEF FiniteSubset
    <3>2. QED
      BY <2>1, <3>1, SendUserMessageAdvances
  <2>2. QED
    BY <1>1, <2>1, CreatePortPairAdvances, GetMessageAdvances, CloseAdvances,
       MergeLocalPortsAdvances, MergePortsAdvances DEF Embedder
<1>2. CASE Internal
  BY <1>2, OnUserMessageAdvances, HandlersAdvance, OnMergePortAdvances,
     CloseAdvances DEF Internal, AcceptEvent
<1>3. CASE Failure
  BY <1>3, FailureAdvances
<1>4. QED
  BY <1>1, <1>2, <1>3 DEF Next

\* A port that stays in a node's ports_ only advances, in every step of every
\* thread, merge, retry and failure: once it has been sent away it never
\* receives again, an observed closure is not forgotten, while it
\* receives the numbers of the messages it has sent and read never fall, and
\* it stands for the same end of its pipe.
THEOREM PortsOnlyAdvance == Spec => PortStateMachine
<1>1. TypeOK /\ [Next]_vars => [Advances]_vars
  BY NextAdvances
<1>2. QED
  BY <1>1, TypeCorrect, PTL DEF Spec, PortStateMachine

==============================================================================
