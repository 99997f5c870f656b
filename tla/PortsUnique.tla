----------------------------- MODULE PortsUnique -----------------------------
(***************************************************************************)
(* However ports are moved, fused, bypassed and lost, there is one port    *)
(* that receives for an end of a pipe, and one copy of a message.  From    *)
(* this it follows that no port the embedder holds changes unannounced.    *)
(*                                                                         *)
(* The invariant is about ports, the events under way (also those of a     *)
(* handler that has not ended), the names drawn and the handles; `ps',     *)
(* `ev', `last' and `hd' below.                                            *)
(***************************************************************************)
EXTENDS PortsProofs

\* Events that carry ports, and those of their descriptors that will make one.
IsMessage(e) == e.type = "UserMessage"
IsMerge(e)   == e.type = "MergePort"
Carrier(e)   == IsMessage(e) \/ IsMerge(e)
Carried(e)   == IF IsMessage(e) THEN e.msg.att ELSE {e.new}
Wire(e)      == IF IsMessage(e) THEN {d \in e.msg.att : d.referring # NoAddr}
                ELSE {e.new}

\* Names, and with them ends, have been drawn before they are used.
NamesDrawn(ps, ev, last, hd) ==
  /\ \A a \in DOMAIN ps :
       /\ a[2] <= last /\ ps[a].end <= last
       /\ \A m \in ps[a].queue :
            /\ m.from <= last
            /\ \A d \in m.att : d.name <= last /\ d.referring = NoAddr
  /\ \A e \in ev : Carrier(e) =>
       /\ \A d \in Carried(e) : d.name <= last
       /\ \A d \in Wire(e) : d.end <= last
       /\ IsMessage(e) => e.msg.from <= last
  /\ \A b \in hd : b[2] <= last

\* A name belongs to one port, whose handle is in one place: with the embedder
\* or in one message; a port that is still to be made does not exist yet.
OnePlace(ps, ev, hd) ==
  /\ \A a, b \in DOMAIN ps : a[2] = b[2] => a = b
  /\ \A a, b \in hd : a[2] = b[2] => a = b
  /\ \A a, b \in DOMAIN ps : \A m \in ps[a].queue, x \in ps[b].queue :
       \A d \in m.att, c \in x.att : d.name = c.name => a = b /\ m = x
  /\ \A e, f \in ev : Carrier(e) /\ Carrier(f) =>
       \A d \in Carried(e), c \in Carried(f) : d.name = c.name => e = f
  /\ \A e \in ev : Carrier(e) => \A d \in Carried(e) :
       /\ \A a \in DOMAIN ps : \A m \in ps[a].queue : \A c \in m.att : c.name # d.name
       /\ \A b \in hd : b[2] # d.name
       /\ d \in Wire(e) => \A a \in DOMAIN ps : a[2] # d.name
  /\ \A a \in DOMAIN ps : \A m \in ps[a].queue : \A d \in m.att :
       \A b \in hd : b[2] # d.name

\* One port receives for an end, or one descriptor will make such a port.
OneSeat(ps, ev) ==
  /\ \A a, b \in DOMAIN ps :
       /\ ps[a].state = "receiving" /\ ps[b].state = "receiving"
       /\ ps[a].end = ps[b].end
       => a = b
  /\ \A e, f \in ev : Carrier(e) /\ Carrier(f) =>
       \A d \in Wire(e), c \in Wire(f) : d.end = c.end => e = f /\ d = c
  /\ \A e \in ev : Carrier(e) => \A d \in Wire(e), a \in DOMAIN ps :
       ps[a].state = "receiving" => ps[a].end # d.end

\* A message is in one place.
OneCopy(ps, ev) ==
  /\ \A a, b \in DOMAIN ps : \A m \in ps[a].queue, x \in ps[b].queue :
       Same(m, x) => a = b /\ m = x
  /\ \A e, f \in ev : IsMessage(e) /\ IsMessage(f) /\ Same(e.msg, f.msg) => e = f
  /\ \A e \in ev : IsMessage(e) =>
       \A a \in DOMAIN ps : \A m \in ps[a].queue : ~Same(e.msg, m)

\* Message m has a number that whoever sends for its end has used.
NumberUsed(ps, ev, m) ==
  /\ \A a \in DOMAIN ps :
       ps[a].state = "receiving" /\ ps[a].end = m.from => m.num < ps[a].nextSend
  /\ \A e \in ev : Carrier(e) =>
       \A d \in Wire(e) : d.end = m.from => m.num < d.nextSend

NumbersUsed(ps, ev) ==
  /\ \A a \in DOMAIN ps : \A m \in ps[a].queue : NumberUsed(ps, ev, m)
  /\ \A e \in ev : IsMessage(e) => NumberUsed(ps, ev, e.msg)

Sound(ps, ev, last, hd) ==
  /\ NamesDrawn(ps, ev, last, hd)
  /\ OnePlace(ps, ev, hd)
  /\ OneSeat(ps, ev)
  /\ OneCopy(ps, ev)
  /\ NumbersUsed(ps, ev)

\* An event that carries something is under way once.
Single(bag) == \A e \in DOMAIN bag : Carrier(e) => bag[e] = 1

UniqueInv == Sound(ports, DOMAIN net, lastName, held) /\ Single(net)

-----------------------------------------------------------------------------
(***************************************************************************)
(* The invariant survives when ports advance, queues get shorter, events   *)
(* and handles vanish, and events are sent that carry nothing.             *)
(***************************************************************************)
\* What is known of numbers in ports and events.
LEMMA Numbers ==
  /\ \A ps \in PortMap : \A a \in DOMAIN ps :
       /\ a \in Addr /\ a[1] \in Node /\ a[2] \in Nat
       /\ ps[a] \in Port /\ ps[a].end \in Nat /\ ps[a].nextSend \in Int
       /\ ps[a].state \in {"receiving", "buffering", "proxying"}
       /\ ps[a].peer \in Addr
       /\ ps[a].queue \in FiniteSubset(Message) /\ ps[a].queue \subseteq Message
  /\ \A m \in Message :
       /\ m.num \in Int /\ m.from \in Nat
       /\ m.att \subseteq Descriptor /\ m.att \in FiniteSubset(Descriptor)
  /\ \A d \in Descriptor : d.name \in Nat /\ d.end \in Nat /\ d.nextSend \in Int
  /\ \A e \in Event : IsMessage(e) => e.msg \in Message
  /\ \A e \in Event : IsMerge(e) => e.new \in Moved
<1>1. ASSUME NEW ps \in PortMap, NEW a \in DOMAIN ps
      PROVE  /\ a \in Addr /\ a[1] \in Node /\ a[2] \in Nat
             /\ ps[a] \in Port /\ ps[a].end \in Nat /\ ps[a].nextSend \in Int
             /\ ps[a].state \in {"receiving", "buffering", "proxying"}
             /\ ps[a].peer \in Addr
             /\ ps[a].queue \in FiniteSubset(Message) /\ ps[a].queue \subseteq Message
  <2>1. a \in Addr /\ ps[a] \in Port
    BY PortMapCharacterised
  <2>2. a[1] \in Node /\ a[2] \in Nat
    BY <2>1, AddrParts DEF PortName
  <2>3. QED
    BY <2>1, <2>2 DEF Port, State, PortName, FiniteSubset
<1>2. \A m \in Message :
       /\ m.num \in Int /\ m.from \in Nat
       /\ m.att \subseteq Descriptor /\ m.att \in FiniteSubset(Descriptor)
  BY DEF Message, FiniteSubset, PortName
<1>3. \A d \in Descriptor : d.name \in Nat /\ d.end \in Nat /\ d.nextSend \in Int
  BY DEF Descriptor, Moved, Staying, PortName
<1>4. \A e \in Event : IsMessage(e) => e.msg \in Message
  BY EventParts DEF IsMessage
<1>5. \A e \in Event : IsMerge(e) => e.new \in Moved
  BY EventParts DEF IsMerge
<1>6. QED
  BY <1>1, <1>2, <1>3, <1>4, <1>5

\* The descriptors an event carries.
LEMMA CarriedType ==
  ASSUME NEW e \in Event, Carrier(e)
  PROVE  /\ Carried(e) \subseteq Descriptor
         /\ Wire(e) \subseteq Moved
         /\ Wire(e) \subseteq Carried(e)
<1>1. CASE IsMessage(e)
  <2>1. e.msg.att \subseteq Descriptor
    BY <1>1, Numbers
  <2>2. \A d \in Descriptor : d.referring # NoAddr => d \in Moved
    BY DEF Descriptor, Staying
  <2>3. QED
    BY <1>1, <2>1, <2>2 DEF Carried, Wire
<1>2. CASE ~IsMessage(e)
  <2>1. e.new \in Moved
    BY <1>2, Numbers DEF Carrier
  <2>2. QED
    BY <1>2, <2>1 DEF Carried, Wire, Descriptor
<1>3. QED
  BY <1>1, <1>2

\* Ports that are left have advanced, and have no new messages.
Shrinks(ps, qs) ==
  /\ Evolves(ps, qs)
  /\ \A a \in DOMAIN qs : qs[a].queue \subseteq ps[a].queue

\* What shrinking leaves of a port.
LEMMA ShrinkFacts ==
  ASSUME NEW ps \in PortMap, NEW qs \in PortMap, Shrinks(ps, qs)
  PROVE  /\ DOMAIN qs \subseteq DOMAIN ps
         /\ \A a \in DOMAIN qs :
              /\ qs[a].queue \subseteq ps[a].queue
              /\ qs[a].end = ps[a].end
              /\ qs[a].state = "receiving" => /\ ps[a].state = "receiving"
                                              /\ qs[a].nextSend >= ps[a].nextSend
<1>1. DOMAIN qs \subseteq DOMAIN ps
  BY DEF Shrinks, Evolves
<1>2. ASSUME NEW a \in DOMAIN qs
      PROVE  /\ qs[a].queue \subseteq ps[a].queue
             /\ qs[a].end = ps[a].end
             /\ qs[a].state = "receiving" => /\ ps[a].state = "receiving"
                                             /\ qs[a].nextSend >= ps[a].nextSend
  <2>1. Later(ps[a], qs[a]) /\ qs[a].queue \subseteq ps[a].queue
    BY DEF Shrinks, Evolves
  <2>2. ps[a].state \in {"receiving", "buffering", "proxying"}
    BY <1>1, Numbers
  <2>3. QED
    BY <2>1, <2>2 DEF Later
<1>3. QED
  BY <1>1, <1>2

\* A number that has been used stays used.
LEMMA NumberUsedShrinks ==
  ASSUME NEW ps \in PortMap, NEW qs \in PortMap, Shrinks(ps, qs),
         NEW ev, NEW fv, \A e \in fv : Carrier(e) => e \in ev,
         NEW m \in Message, NumberUsed(ps, ev, m)
  PROVE  NumberUsed(qs, fv, m)
<1>1. ASSUME NEW a \in DOMAIN qs, qs[a].state = "receiving", qs[a].end = m.from
      PROVE  m.num < qs[a].nextSend
  <2>1. a \in DOMAIN ps /\ m.num < ps[a].nextSend /\ qs[a].nextSend >= ps[a].nextSend
    BY <1>1, ShrinkFacts DEF NumberUsed
  <2>2. m.num \in Int /\ ps[a].nextSend \in Int /\ qs[a].nextSend \in Int
    BY <2>1, Numbers
  <2>3. QED
    BY <2>1, <2>2
<1>2. QED
  BY <1>1 DEF NumberUsed

\* Less of everything is sound.
LEMMA ShrinkSound ==
  ASSUME NEW ps \in PortMap, NEW qs \in PortMap, Shrinks(ps, qs),
         NEW ev \in SUBSET Event, NEW fv \in SUBSET Event,
         \A e \in fv : Carrier(e) => e \in ev,
         NEW last \in Nat, NEW hd, NEW gd, gd \subseteq hd,
         Sound(ps, ev, last, hd)
  PROVE  Sound(qs, fv, last, gd)
<1>1. /\ DOMAIN qs \subseteq DOMAIN ps
      /\ \A a \in DOMAIN qs :
              /\ qs[a].queue \subseteq ps[a].queue
              /\ qs[a].end = ps[a].end
              /\ qs[a].state = "receiving" => /\ ps[a].state = "receiving"
                                              /\ qs[a].nextSend >= ps[a].nextSend
  BY ShrinkFacts
<1>2. NamesDrawn(qs, fv, last, gd)
  BY <1>1 DEF Sound, NamesDrawn
<1>3. OnePlace(qs, fv, gd)
  BY <1>1 DEF Sound, OnePlace
<1>4. OneSeat(qs, fv)
  BY <1>1 DEF Sound, OneSeat
<1>5. OneCopy(qs, fv)
  BY <1>1 DEF Sound, OneCopy, Carrier
<1>6. \A m \in Message : NumberUsed(ps, ev, m) => NumberUsed(qs, fv, m)
  BY NumberUsedShrinks
<1>7. NumbersUsed(qs, fv)
  <2>1. \A a \in DOMAIN qs : \A m \in qs[a].queue : NumberUsed(qs, fv, m)
    <3>1. ASSUME NEW a \in DOMAIN qs, NEW m \in qs[a].queue
          PROVE  NumberUsed(qs, fv, m)
      <4>1. m \in ps[a].queue /\ m \in Message /\ a \in DOMAIN ps
        BY <1>1, Numbers
      <4>2. NumberUsed(ps, ev, m)
        BY <4>1 DEF Sound, NumbersUsed
      <4>3. QED
        BY <1>6, <4>1, <4>2
    <3>2. QED
      BY <3>1
  <2>2. ASSUME NEW e \in fv, IsMessage(e)
        PROVE  NumberUsed(qs, fv, e.msg)
    <3>1. e \in ev /\ e.msg \in Message
      BY <2>2, Numbers DEF Carrier
    <3>2. NumberUsed(ps, ev, e.msg)
      BY <2>2, <3>1 DEF Sound, NumbersUsed
    <3>3. QED
      BY <1>6, <3>1, <3>2
  <2>3. QED
    BY <2>1, <2>2 DEF NumbersUsed
<1>8. QED
  BY <1>2, <1>3, <1>4, <1>5, <1>7 DEF Sound

-----------------------------------------------------------------------------
(***************************************************************************)
(* Handlers.  E are the events under way that the handler has not sent.    *)
(***************************************************************************)
HandlerSound(st, E, hd) ==
  /\ Sound(st.ports, E \cup st.out, st.lastName, hd)
  /\ \A e \in st.out : Carrier(e) => e \notin E

\* Operations that shrink, and send only events that carry nothing.
Calm(st, s) ==
  /\ Shrinks(st.ports, s.ports)
  /\ s.lastName = st.lastName
  /\ \A e \in s.out : Carrier(e) => e \in st.out

\* The parts of a handler state that the invariant is about.
LEMMA HandlerParts ==
  ASSUME NEW st \in HandlerState
  PROVE  st.ports \in PortMap /\ st.out \in SUBSET Event /\ st.lastName \in Nat
BY DEF HandlerState

\* Calm operations keep the invariant, also with fewer handles.
LEMMA CalmSound ==
  ASSUME NEW st \in HandlerState, NEW s \in HandlerState, Calm(st, s),
         NEW E \in SUBSET Event, NEW hd, NEW gd, gd \subseteq hd,
         HandlerSound(st, E, hd)
  PROVE  HandlerSound(s, E, gd)
<1>1. /\ st.ports \in PortMap /\ s.ports \in PortMap
      /\ E \cup st.out \in SUBSET Event /\ E \cup s.out \in SUBSET Event
      /\ st.lastName \in Nat
  BY HandlerParts
<1>2. \A e \in E \cup s.out : Carrier(e) => e \in E \cup st.out
  BY DEF Calm
<1>3. Sound(s.ports, E \cup s.out, st.lastName, gd)
  BY <1>1, <1>2, ShrinkSound DEF Calm, HandlerSound
<1>4. QED
  BY <1>3 DEF HandlerSound, Calm

\* Calm operations compose.
LEMMA CalmOrder ==
  /\ \A st \in HandlerState : Calm(st, st)
  /\ \A st, s, t \in HandlerState : Calm(st, s) /\ Calm(s, t) => Calm(st, t)
<1>1. ASSUME NEW st \in HandlerState
      PROVE  Calm(st, st)
  BY EvolvesOrder DEF Calm, Shrinks
<1>2. ASSUME NEW st \in HandlerState, NEW s \in HandlerState, NEW t \in HandlerState,
             Calm(st, s), Calm(s, t)
      PROVE  Calm(st, t)
  <2>1. Evolves(st.ports, t.ports)
    BY <1>2, EvolvesOrder DEF Calm, Shrinks
  <2>2. DOMAIN t.ports \subseteq DOMAIN s.ports
    BY <1>2 DEF Calm, Shrinks, Evolves
  <2>3. \A a \in DOMAIN t.ports : t.ports[a].queue \subseteq st.ports[a].queue
    BY <1>2, <2>2 DEF Calm, Shrinks
  <2>4. QED
    BY <1>2, <2>1, <2>3 DEF Calm, Shrinks
<1>3. QED
  BY <1>1, <1>2

\* Events that carry nothing.
LEMMA Empty ==
  /\ \A n, to : ~Carrier(PortAccepted(n, to))
  /\ \A n, to, p, t : ~Carrier(ObserveProxy(n, to, p, t))
  /\ \A n, to, l : ~Carrier(ObserveProxyAck(n, to, l))
  /\ \A n, to, l : ~Carrier(ObserveClosure(n, to, l))
  /\ \A n, m, p : ~Carrier(ProxyDied(n, m, p))
BY DEF Carrier, IsMessage, IsMerge, PortAccepted, ObserveProxy, ObserveProxyAck,
       ObserveClosure, ProxyDied

\* Nothing happens to the ports.
LEMMA CalmSend ==
  ASSUME NEW st \in HandlerState, NEW s \in HandlerState, s.ports = st.ports,
         s.lastName = st.lastName, \A e \in s.out : Carrier(e) => e \in st.out
  PROVE  Calm(st, s)
BY EvolvesOrder DEF Calm, Shrinks

\* One port advances and gets no message.
LEMMA CalmReplace ==
  ASSUME NEW st \in HandlerState, NEW s, NEW a \in DOMAIN st.ports,
         NEW r \in Port, Later(st.ports[a], r), r.queue \subseteq st.ports[a].queue,
         s.ports = [st.ports EXCEPT ![a] = r], s.lastName = st.lastName,
         \A e \in s.out : Carrier(e) => e \in st.out
  PROVE  Calm(st, s)
<1>1. Evolves(st.ports, s.ports)
  BY ReplaceEvolves
<1>2. \A b \in DOMAIN s.ports : s.ports[b].queue \subseteq st.ports[b].queue
  OBVIOUS
<1>3. QED
  BY <1>1, <1>2 DEF Calm, Shrinks

\* Erasing a port.
LEMMA CalmErase ==
  ASSUME NEW st \in HandlerState, NEW a, NEW sent, NEW left,
         \A e \in sent : ~Carrier(e)
  PROVE  Calm(st, Erased(st, a, sent, left))
<1>1. /\ Erased(st, a, sent, left).ports = Erase(st.ports, a)
      /\ Erased(st, a, sent, left).lastName = st.lastName
      /\ Erased(st, a, sent, left).out = st.out \cup sent
  BY DEF Erased, HandlerState
<1>2. Evolves(st.ports, Erase(st.ports, a))
  BY <1>1, ErasedEvolves
<1>3. \A b \in DOMAIN Erase(st.ports, a) :
        Erase(st.ports, a)[b].queue \subseteq st.ports[b].queue
  BY DEF Erase
<1>4. QED
  BY <1>1, <1>2, <1>3 DEF Calm, Shrinks

\* Closing a port, and the steps by which a proxy leaves.
LEMMA CalmRemoval ==
  ASSUME NEW st \in HandlerState, NEW a \in DOMAIN st.ports
  PROVE  /\ Calm(st, TryRemoveProxy(st, a))
         /\ Calm(st, InitiateProxyRemoval(st, a))
         /\ Calm(st, StartRemoval(st, a))
         /\ Calm(st, Close(st, a))
<1>1. ASSUME NEW s \in HandlerState, a \in DOMAIN s.ports
      PROVE  Calm(s, TryRemoveProxy(s, a))
  <2> DEFINE r == s.ports[a]
             ack == IF r.sendOnRemoval = NoAddr THEN {}
                    ELSE {ObserveProxyAck(a[1], r.sendOnRemoval,
                                          kInvalidSequenceNum)}
             left == {<<a[1], p>> : p \in Attached(r.queue)}
  <2>1. \/ TryRemoveProxy(s, a) = s
        \/ TryRemoveProxy(s, a) = Erased(s, a, ack, left)
    BY DEF TryRemoveProxy, Erased, HandlerState
  <2>2. \A e \in ack : ~Carrier(e)
    BY Empty
  <2> HIDE DEF ack, left
  <2>3. Calm(s, Erased(s, a, ack, left))
    BY <2>2, CalmErase
  <2>4. QED
    BY <2>1, <2>3, CalmOrder
<1>2. Calm(st, InitiateProxyRemoval(st, a))
  <2> DEFINE s == InitiateProxyRemoval(st, a)
             e == ObserveProxy(a[1], st.ports[a].peer, a, st.ports[a].peer)
  <2>1. s \in HandlerState /\ s.ports = st.ports
    BY InitiateProxyRemovalType
  <2>2. s.lastName = st.lastName /\ s.out = st.out \cup {e}
    BY DEF InitiateProxyRemoval, HandlerState
  <2>3. ~Carrier(e)
    BY Empty
  <2> HIDE DEF s, e
  <2>4. Calm(st, s)
    BY <2>1, <2>2, <2>3, CalmSend
  <2>5. QED
    BY <2>4 DEF s
<1>3. Calm(st, StartRemoval(st, a))
  <2> DEFINE r == st.ports[a]
             sent == {ObserveClosure(a[1], r.peer, r.lastRecv)}
             s == [st EXCEPT !.out = @ \cup sent]
  <2>1. sent \in SUBSET Event /\ \A e \in sent : ~Carrier(e)
    BY PortOfState, EventTypes, Empty
  <2>2. s \in HandlerState /\ s.ports = st.ports
    BY <2>1, SendEvents
  <2>3. s.lastName = st.lastName /\ s.out = st.out \cup sent
    BY DEF HandlerState
  <2>4. \/ StartRemoval(st, a) = TryRemoveProxy(s, a)
        \/ StartRemoval(st, a) = InitiateProxyRemoval(st, a)
    BY DEF StartRemoval
  <2> HIDE DEF s, sent
  <2>5. Calm(st, s)
    BY <2>1, <2>2, <2>3, CalmSend
  <2>6. Calm(s, TryRemoveProxy(s, a)) /\ TryRemoveProxy(s, a) \in HandlerState
    BY <1>1, <2>2, TryRemoveProxyType
  <2>7. Calm(st, TryRemoveProxy(s, a))
    BY <2>2, <2>5, <2>6, CalmOrder
  <2>8. QED
    BY <1>2, <2>4, <2>7
<1>4. Calm(st, Close(st, a))
  <2> DEFINE r == st.ports[a]
             sent == {ObserveClosure(a[1], r.peer, r.nextSend - 1)}
             left == {<<a[1], p>> : p \in Attached(r.queue)}
  <2>1. \/ Close(st, a) = st
        \/ Close(st, a) = Erased(st, a, sent, left)
    BY DEF Close, Erased
  <2>2. \A e \in sent : ~Carrier(e)
    BY Empty
  <2> HIDE DEF sent, left
  <2>3. Calm(st, Erased(st, a, sent, left))
    BY <2>2, CalmErase
  <2>4. QED
    BY <2>1, <2>3, CalmOrder
<1>5. QED
  BY <1>1, <1>2, <1>3, <1>4

\* DestroyAllPortsWithPeer.
LEMMA CalmDestroy ==
  ASSUME NEW st \in HandlerState, NEW n, NEW S
  PROVE  Calm(st, DestroyAllPortsWithPeer(st, n, S))
<1> DEFINE all == Stranded(st, n, S)
           dead == {b \in all : st.ports[b].state # "receiving"}
           fresh == {b \in all \ dead : ~st.ports[b].peerClosed}
           ps == [b \in DOMAIN st.ports \ dead |->
                    IF b \in fresh
                    THEN [st.ports[b] EXCEPT !.peerClosed = TRUE,
                            !.lastRecv = st.ports[b].nextRecv - 1]
                    ELSE st.ports[b]]
           sent == {ProxyDied(n, m, b) : m \in Audience(st, n), b \in dead}
           s == DestroyAllPortsWithPeer(st, n, S)
<1>1. s.ports = ps /\ s.out = st.out \cup sent /\ s.lastName = st.lastName
  BY DEF DestroyAllPortsWithPeer, HandlerState
<1>2. Evolves(st.ports, ps)
  BY <1>1, DestroyEvolves
<1>3. \A e \in sent : ~Carrier(e)
  BY Empty
<1> HIDE DEF all, sent
<1>4. ASSUME NEW b \in DOMAIN ps
      PROVE  ps[b].queue \subseteq st.ports[b].queue
  <2>1. st.ports[b] \in Port
    BY PortOfState
  <2>2. QED
    BY <2>1 DEF Port
<1> HIDE DEF ps, s
<1>5. Calm(st, s)
  BY <1>1, <1>2, <1>3, <1>4 DEF Calm, Shrinks
<1>6. QED
  BY <1>5 DEF s

\* A port is told of a proxy.
LEMMA CalmObserve ==
  ASSUME NEW st \in HandlerState, NEW a \in DOMAIN st.ports,
         NEW e, e.proxy \in Addr, e.target \in Addr
  PROVE  Calm(st, Bypass(st, a, e)) /\ Calm(st, StashAck(st, a, e))
<1> DEFINE r == st.ports[a]
           bypassing == [r EXCEPT !.peer = e.target]
           stashing == [r EXCEPT !.sendOnRemoval = e.proxy]
           ack == ObserveProxyAck(a[1], e.proxy, st.ports[a].nextSend - 1)
<1>1. r \in Port
  BY PortOfState
<1>2. bypassing \in Port /\ stashing \in Port
  BY <1>1 DEF Port
<1>3. /\ Later(r, bypassing) /\ Later(r, stashing)
      /\ bypassing.queue = r.queue /\ stashing.queue = r.queue
  BY <1>1, PortFields DEF Later, Port
<1>4. /\ Bypass(st, a, e).ports = [st.ports EXCEPT ![a] = bypassing]
      /\ StashAck(st, a, e).ports = [st.ports EXCEPT ![a] = stashing]
      /\ Bypass(st, a, e).out = st.out \cup {ack}
      /\ StashAck(st, a, e).out = st.out
      /\ Bypass(st, a, e).lastName = st.lastName
      /\ StashAck(st, a, e).lastName = st.lastName
  BY DEF Bypass, StashAck, HandlerState
<1>5. ~Carrier(ack)
  BY Empty
<1> HIDE DEF bypassing, stashing, ack
<1>6. Calm(st, Bypass(st, a, e))
  BY <1>2, <1>3, <1>4, <1>5, CalmReplace
<1>7. Calm(st, StashAck(st, a, e))
  BY <1>2, <1>3, <1>4, <1>5, CalmReplace
<1>8. QED
  BY <1>6, <1>7

\* A port is told of closure.
LEMMA CalmClosure ==
  ASSUME NEW st \in HandlerState, NEW a \in DOMAIN st.ports, NEW last \in Int
  PROVE  Calm(st, ObservedClosure(st, a, last))
<1> DEFINE r == st.ports[a]
           rest == IF r.state = "receiving" THEN r.nextSend - 1 ELSE last
           sent == ObserveClosure(a[1], r.peer, rest)
           port == [r EXCEPT !.peerClosed = TRUE, !.lastRecv = last,
                             !.removeOnLast = @ \/ r.state # "receiving"]
           s == ObservedClosure(st, a, last)
<1>1. r \in Port
  BY PortOfState
<1>2. port \in Port
  BY <1>1 DEF Port
<1>3. s.ports = [st.ports EXCEPT ![a] = port] /\ s.out = st.out \cup {sent}
        /\ s.lastName = st.lastName
  BY DEF ObservedClosure, HandlerState
<1>4. /\ port.state = r.state /\ port.nextRecv = r.nextRecv
      /\ port.nextSend = r.nextSend /\ port.peerClosed = TRUE
      /\ port.end = r.end /\ port.queue = r.queue
  BY <1>1 DEF Port
<1>5. ~Carrier(sent)
  BY Empty
<1> HIDE DEF port, sent, s
<1>6. Later(r, port)
  BY <1>1, <1>4, PortFields DEF Later
<1>7. Calm(st, s)
  BY <1>2, <1>3, <1>4, <1>5, <1>6, CalmReplace
<1>8. QED
  BY <1>7 DEF s

\* Two receiving ports become proxies for each other.
LEMMA CalmSwap ==
  ASSUME NEW st \in HandlerState, NEW a \in DOMAIN st.ports,
         NEW b \in DOMAIN st.ports, a # b
  PROVE  Calm(st, SwapPeers(st, a, b))
<1> DEFINE Proxy(r, peer) ==
             [r EXCEPT !.state = "proxying", !.peer = peer,
                       !.removeOnLast = @ \/ r.peerClosed]
           pa == Proxy(st.ports[a], st.ports[b].peer)
           pb == Proxy(st.ports[b], st.ports[a].peer)
           s == SwapPeers(st, a, b)
<1>1. /\ s.ports = [[st.ports EXCEPT ![a] = pa] EXCEPT ![b] = pb]
      /\ s.out = st.out /\ s.lastName = st.lastName
  BY DEF SwapPeers, HandlerState
<1>2. pa.queue = st.ports[a].queue /\ pb.queue = st.ports[b].queue
  BY PortOfState DEF Port
<1>3. Evolves(st.ports, s.ports)
  BY SwapEvolves
<1> HIDE DEF pa, pb, s
<1>4. \A c \in DOMAIN s.ports : s.ports[c].queue \subseteq st.ports[c].queue
  BY <1>1, <1>2
<1>5. Calm(st, s)
  BY <1>1, <1>3, <1>4 DEF Calm, Shrinks
<1>6. QED
  BY <1>5 DEF s

\* A merge taken back closes both ports.
LEMMA CalmUndo ==
  ASSUME NEW st \in HandlerState, NEW a \in DOMAIN st.ports,
         NEW b \in DOMAIN st.ports, a # b
  PROVE  Calm(st, Close(Close(UndoSwap(st, a, b), a), b))
<1> DEFINE Receiving(r, peer) ==
             [r EXCEPT !.state = "receiving", !.peer = peer,
                       !.removeOnLast = FALSE]
           pa == Receiving(st.ports[a], st.ports[b].peer)
           pb == Receiving(st.ports[b], st.ports[a].peer)
           undone == UndoSwap(st, a, b)
           first == Close(undone, a)
           second == Close(first, b)
<1>1. /\ undone.ports = [[st.ports EXCEPT ![a] = pa] EXCEPT ![b] = pb]
      /\ undone.out = st.out /\ undone.lastName = st.lastName
  BY DEF UndoSwap, HandlerState
<1>2. pa.queue = st.ports[a].queue /\ pb.queue = st.ports[b].queue
  BY PortOfState DEF Port
<1>3. undone \in HandlerState /\ DOMAIN undone.ports = DOMAIN st.ports
  BY SwapType
<1>4. Evolves(st.ports, second.ports)
  BY UndoEvolves
<1> HIDE DEF pa, pb, undone
<1>5. \A c \in DOMAIN undone.ports : undone.ports[c].queue \subseteq st.ports[c].queue
  BY <1>1, <1>2
<1>6. Calm(undone, first) /\ first \in HandlerState
        /\ DOMAIN undone.ports \ {a} \subseteq DOMAIN first.ports
  BY <1>3, CalmRemoval, CloseType
<1> HIDE DEF first
<1>7. b \in DOMAIN first.ports
  BY <1>3, <1>6
<1>8. Calm(first, second) /\ second \in HandlerState
  BY <1>6, <1>7, CalmRemoval, CloseType
<1> HIDE DEF second
<1>9. Calm(undone, second)
  BY <1>3, <1>6, <1>8, CalmOrder
<1>10. DOMAIN second.ports \subseteq DOMAIN undone.ports
  BY <1>9 DEF Calm, Shrinks, Evolves
<1>11. \A c \in DOMAIN second.ports : second.ports[c].queue \subseteq st.ports[c].queue
  BY <1>5, <1>9, <1>10 DEF Calm, Shrinks
<1>12. Calm(st, second)
  BY <1>1, <1>4, <1>9, <1>11 DEF Calm, Shrinks
<1>13. QED
  BY <1>12 DEF second, first, undone
-----------------------------------------------------------------------------
(***************************************************************************)
(* Forwarding messages.                                                    *)
(***************************************************************************)
\* Messages M are in a handler's hands: nowhere else, and neither are the ports
\* attached to them.
Loose(ps, ev, last, hd, M) ==
  /\ \A m \in M :
       /\ m.from <= last
       /\ NumberUsed(ps, ev, m)
       /\ \A d \in m.att :
            /\ d.referring = NoAddr /\ d.name <= last
            /\ \A a \in DOMAIN ps : \A x \in ps[a].queue : \A c \in x.att : c.name # d.name
            /\ \A e \in ev : Carrier(e) => \A c \in Carried(e) : c.name # d.name
            /\ \A b \in hd : b[2] # d.name
       /\ \A a \in DOMAIN ps : \A x \in ps[a].queue : ~Same(m, x)
       /\ \A e \in ev : IsMessage(e) => ~Same(m, e.msg)
  /\ \A m, x \in M : Same(m, x) => m = x
  /\ \A m, x \in M : \A d \in m.att, c \in x.att : d.name = c.name => m = x

Plain(sent, M, n, to) == \A e \in sent : \E m \in M : e = UserMessage(n, to, m)

\* The messages are sent as they are.
LEMMA SendLocally ==
  ASSUME NEW ps \in PortMap, NEW ev \in SUBSET Event, NEW last \in Nat, NEW hd,
         NEW M \in SUBSET Message, Sound(ps, ev, last, hd), Loose(ps, ev, last, hd, M),
         NEW n, NEW to, NEW sent, Plain(sent, M, n, to)
  PROVE  /\ Sound(ps, ev \cup sent, last, hd)
         /\ \A e \in sent : e \notin ev
<1> USE DEF Plain
<1>1. /\ \A e \in sent : /\ IsMessage(e) /\ ~IsMerge(e) /\ e.msg \in M
                         /\ Carried(e) = e.msg.att
                         /\ Wire(e) = {}
      /\ \A e, f \in sent : e.msg = f.msg => e = f
  BY DEF UserMessage, IsMessage, IsMerge, Carried, Wire, Loose
<1>2. \A e \in sent : e \notin ev
  BY <1>1 DEF Loose, Same
<1>3. NamesDrawn(ps, ev \cup sent, last, hd)
  BY <1>1 DEF Sound, NamesDrawn, Loose
<1>4. OnePlace(ps, ev \cup sent, hd)
  BY <1>1 DEF Sound, OnePlace, Loose
<1>5. OneSeat(ps, ev \cup sent)
  BY <1>1 DEF Sound, OneSeat
<1>6. OneCopy(ps, ev \cup sent)
  BY <1>1 DEF Sound, OneCopy, Loose, Same
<1>7. NumbersUsed(ps, ev \cup sent)
  <2>1. \A m : NumberUsed(ps, ev, m) => NumberUsed(ps, ev \cup sent, m)
    BY <1>1 DEF NumberUsed
  <2>2. QED
    BY <1>1, <2>1 DEF Sound, NumbersUsed, Loose
<1>8. QED
  BY <1>2, <1>3, <1>4, <1>5, <1>6, <1>7 DEF Sound

\* The messages M are sent as the events G, and the ports with the names in S
\* that are attached to them are moved: D has their descriptors.
Moves(ps, qs, n, S, D, last, top) ==
  /\ DOMAIN qs = DOMAIN ps
  /\ \A b \in DOMAIN qs :
       /\ qs[b].queue = ps[b].queue /\ qs[b].end = ps[b].end
       /\ qs[b].state = "receiving" => /\ ps[b].state = "receiving" /\ b[2] \notin S
                                       /\ qs[b].nextSend = ps[b].nextSend
  /\ \A p \in S :
       /\ D[p] \in Moved
       /\ <<n, p>> \in DOMAIN ps
       /\ ps[<<n, p>>].state = "receiving"
       /\ D[p].end = ps[<<n, p>>].end
       /\ D[p].nextSend = ps[<<n, p>>].nextSend
       /\ last < D[p].name /\ D[p].name <= top
  /\ \A p, q \in S : D[p].name = D[q].name => p = q

Carries(M, S, D, G) ==
  /\ \A m \in M :
       /\ IsMessage(G[m]) /\ ~IsMerge(G[m])
       /\ G[m].msg.from = m.from /\ G[m].msg.num = m.num
       /\ \A d \in Carried(G[m]) : \E c \in m.att : c.name \in S /\ d = D[c.name]
       /\ \A d \in Wire(G[m]) : d \in Carried(G[m])

Values(sent, M, G) == \A e \in sent : \E m \in M : e = G[m]

\* The messages are sent with ports that move: the descriptors take the seats.
LEMMA SendMoved ==
  ASSUME NEW ps \in PortMap, NEW qs \in PortMap, NEW ev \in SUBSET Event,
         NEW last \in Nat, NEW top \in Nat, last <= top, NEW hd \in SUBSET Addr,
         NEW M \in SUBSET Message, Sound(ps, ev, last, hd), Loose(ps, ev, last, hd, M),
         NEW n, NEW S, NEW D, Moves(ps, qs, n, S, D, last, top),
         NEW G, Carries(M, S, D, G),
         NEW sent, Values(sent, M, G)
  PROVE  /\ Sound(qs, ev \cup sent, top, hd)
         /\ \A e \in sent : e \notin ev
<1> USE DEF Values
<1>1. /\ \A p \in S : D[p].name \in Nat /\ D[p].end \in Nat /\ D[p].nextSend \in Int
      /\ \A p \in S : /\ last < D[p].name /\ D[p].name <= top /\ D[p].end <= last
                      /\ <<n, p>> \in DOMAIN ps /\ ps[<<n, p>>].state = "receiving"
                      /\ ps[<<n, p>>].end = D[p].end
                      /\ ps[<<n, p>>].nextSend = D[p].nextSend
  <2>1. \A p \in S : D[p] \in Descriptor
    BY DEF Descriptor, Moves
  <2>2. \A p \in S : D[p].name \in Nat /\ D[p].end \in Nat /\ D[p].nextSend \in Int
    BY <2>1, Numbers
  <2>3. \A p \in S : ps[<<n, p>>].end <= last
    BY DEF Moves, Sound, NamesDrawn
  <2>4. QED
    BY <2>2, <2>3 DEF Moves
<1>2. \A e \in sent : e \notin ev
  BY DEF Loose, Same, Carries
<1>3. \A k \in Nat : k <= last => k <= top
  OBVIOUS
<1>4. NamesDrawn(qs, ev \cup sent, top, hd)
  <2>1. ASSUME NEW a \in DOMAIN qs
        PROVE  /\ a[2] <= top /\ qs[a].end <= top
               /\ \A m \in qs[a].queue :
                    /\ m.from <= top
                    /\ \A d \in m.att : d.name <= top /\ d.referring = NoAddr
    <3>1. /\ a[2] <= last /\ qs[a].end <= last
          /\ \A m \in qs[a].queue :
               /\ m.from <= last
               /\ \A d \in m.att : d.name <= last /\ d.referring = NoAddr
      BY DEF Moves, Sound, NamesDrawn
    <3>2. a[2] \in Nat /\ qs[a].end \in Nat /\ qs[a].queue \subseteq Message
      BY Numbers
    <3>3. \A m \in qs[a].queue : m.from \in Nat /\ \A d \in m.att : d.name \in Nat
      BY <3>2, Numbers
    <3>4. QED
      BY <1>3, <3>1, <3>2, <3>3
  <2>2. ASSUME NEW e \in ev, Carrier(e)
        PROVE  /\ \A d \in Carried(e) : d.name <= top
               /\ \A d \in Wire(e) : d.end <= top
               /\ IsMessage(e) => e.msg.from <= top
    <3>1. /\ \A d \in Carried(e) : d.name <= last
          /\ \A d \in Wire(e) : d.end <= last
          /\ IsMessage(e) => e.msg.from <= last
      BY <2>2 DEF Sound, NamesDrawn
    <3>2. /\ \A d \in Carried(e) : d.name \in Nat
          /\ \A d \in Wire(e) : d.end \in Nat
          /\ IsMessage(e) => e.msg.from \in Nat
      BY <2>2, CarriedType, Numbers
    <3>3. QED
      BY <1>3, <3>1, <3>2
  <2>3. ASSUME NEW m \in M
        PROVE  /\ \A d \in Carried(G[m]) : d.name <= top
               /\ \A d \in Wire(G[m]) : d.end <= top
               /\ G[m].msg.from <= top
    <3>1. /\ \A d \in Carried(G[m]) : d.name <= top /\ d.end <= last /\ d.end \in Nat
          /\ \A d \in Wire(G[m]) : d \in Carried(G[m])
      BY <1>1 DEF Carries
    <3>2. G[m].msg.from <= last /\ m.from \in Nat /\ G[m].msg.from = m.from
      BY Numbers DEF Carries, Loose
    <3>3. QED
      BY <1>3, <3>1, <3>2
  <2>4. ASSUME NEW b \in hd
        PROVE  b[2] <= top
    BY <1>3, AddrParts DEF Sound, NamesDrawn, PortName
  <2>5. QED
    BY <2>1, <2>2, <2>3, <2>4 DEF NamesDrawn
<1>5. /\ \A m \in M : \A d \in Carried(G[m]) : d.name \in Nat /\ ~(d.name <= last)
      /\ \A m, x \in M : \A d \in Carried(G[m]), c \in Carried(G[x]) :
           d.name = c.name => m = x /\ d = c
  <2>1. ASSUME NEW m \in M, NEW d \in Carried(G[m])
        PROVE  d.name \in Nat /\ ~(d.name <= last)
    <3>1. PICK c \in m.att : c.name \in S /\ d = D[c.name]
      BY DEF Carries
    <3>2. d.name \in Nat /\ last < d.name
      BY <1>1, <3>1
    <3>3. QED
      BY <3>2
  <2>2. ASSUME NEW m \in M, NEW x \in M, NEW d \in Carried(G[m]), NEW c \in Carried(G[x]),
               d.name = c.name
        PROVE  m = x /\ d = c
    <3>1. PICK d1 \in m.att : d1.name \in S /\ d = D[d1.name]
      BY DEF Carries
    <3>2. PICK c1 \in x.att : c1.name \in S /\ c = D[c1.name]
      BY DEF Carries
    <3>3. d1.name = c1.name
      BY <2>2, <3>1, <3>2 DEF Moves
    <3>4. QED
      BY <3>1, <3>2, <3>3 DEF Loose
  <2>3. QED
    BY <2>1, <2>2
<1>6. OnePlace(qs, ev \cup sent, hd)
  <2>1. ASSUME NEW e \in ev \cup sent, NEW f \in ev \cup sent, Carrier(e), Carrier(f),
               NEW d \in Carried(e), NEW c \in Carried(f), d.name = c.name
        PROVE  e = f
    <3>1. CASE e \in ev /\ f \in ev
      BY <2>1, <3>1 DEF Sound, OnePlace
    <3>2. CASE e \in sent /\ f \in sent
      BY <1>5, <2>1, <3>2
    <3>3. CASE e \in ev /\ f \in sent
      BY <1>5, <2>1, <3>3 DEF Sound, NamesDrawn
    <3>4. CASE e \in sent /\ f \in ev
      BY <1>5, <2>1, <3>4 DEF Sound, NamesDrawn
    <3>5. QED
      BY <3>1, <3>2, <3>3, <3>4
  <2>2. ASSUME NEW e \in ev \cup sent, Carrier(e), NEW d \in Carried(e)
        PROVE  /\ \A a \in DOMAIN qs : \A m \in qs[a].queue : \A c \in m.att : c.name # d.name
               /\ \A b \in hd : b[2] # d.name
               /\ d \in Wire(e) => \A a \in DOMAIN qs : a[2] # d.name
    <3>1. CASE e \in ev
      BY <2>2, <3>1 DEF Sound, OnePlace, Moves
    <3>2. CASE e \in sent
      BY <1>5, <2>2, <3>2 DEF Sound, NamesDrawn, Moves
    <3>3. QED
      BY <3>1, <3>2
  <2>3. /\ \A a, b \in DOMAIN qs : a[2] = b[2] => a = b
        /\ \A a, b \in hd : a[2] = b[2] => a = b
        /\ \A a, b \in DOMAIN qs : \A m \in qs[a].queue, x \in qs[b].queue :
             \A d \in m.att, c \in x.att : d.name = c.name => a = b /\ m = x
        /\ \A a \in DOMAIN qs : \A m \in qs[a].queue : \A d \in m.att :
             \A b \in hd : b[2] # d.name
    BY DEF Sound, OnePlace, Moves
  <2>4. QED
    BY <2>1, <2>2, <2>3 DEF OnePlace
<1>7. /\ \A m \in M : \A d \in Wire(G[m]) :
           \E p \in S : d = D[p] /\ \E c \in m.att : c.name = p
      /\ \A m \in M : Wire(G[m]) \subseteq Carried(G[m])
  BY DEF Carries
<1>8. OneSeat(qs, ev \cup sent)
  <2>1. ASSUME NEW a \in DOMAIN qs, NEW b \in DOMAIN qs, qs[a].state = "receiving",
               qs[b].state = "receiving", qs[a].end = qs[b].end
        PROVE  a = b
    BY <2>1 DEF Sound, OneSeat, Moves
  <2>2. ASSUME NEW e \in ev \cup sent, Carrier(e), NEW d \in Wire(e), NEW a \in DOMAIN qs,
               qs[a].state = "receiving"
        PROVE  qs[a].end # d.end
    <3>1. CASE e \in ev
      BY <2>2, <3>1 DEF Sound, OneSeat, Moves
    <3>2. CASE e \in sent
      <4>1. PICK p \in S : d = D[p]
        BY <1>7, <2>2, <3>2
      <4>2. a \in DOMAIN ps /\ ps[a].state = "receiving" /\ a[2] \notin S
              /\ ps[a].end = qs[a].end
        BY <2>2 DEF Moves
      <4>3. <<n, p>> \in DOMAIN ps /\ ps[<<n, p>>].state = "receiving"
              /\ ps[<<n, p>>].end = d.end /\ <<n, p>>[2] = p
        BY <1>1, <4>1
      <4>4. <<n, p>> # a
        BY <4>2, <4>3
      <4>5. QED
        BY <4>2, <4>3, <4>4 DEF Sound, OneSeat
    <3>3. QED
      BY <3>1, <3>2
  <2>3. ASSUME NEW e \in ev, Carrier(e), NEW m \in M, NEW d \in Wire(e), NEW c \in Wire(G[m])
        PROVE  d.end # c.end
    <3>1. PICK p \in S : c = D[p]
      BY <1>7
    <3>2. PICK b \in DOMAIN ps : ps[b].state = "receiving" /\ ps[b].end = c.end
      BY <1>1, <3>1
    <3>3. QED
      BY <2>3, <3>2 DEF Sound, OneSeat
  <2>4. ASSUME NEW m \in M, NEW x \in M, NEW d \in Wire(G[m]), NEW c \in Wire(G[x]),
               d.end = c.end
        PROVE  m = x /\ d = c
    <3>1. PICK p \in S : d = D[p]
      BY <1>7
    <3>2. PICK q \in S : c = D[q]
      BY <1>7
    <3>3. <<n, p>> = <<n, q>>
      <4>1. /\ <<n, p>> \in DOMAIN ps /\ ps[<<n, p>>].state = "receiving"
            /\ ps[<<n, p>>].end = d.end
        BY <1>1, <3>1
      <4>2. /\ <<n, q>> \in DOMAIN ps /\ ps[<<n, q>>].state = "receiving"
            /\ ps[<<n, q>>].end = c.end
        BY <1>1, <3>2
      <4>3. QED
        BY <2>4, <4>1, <4>2 DEF Sound, OneSeat
    <3>4. p = q
      BY <3>3
    <3>5. QED
      BY <1>5, <1>7, <3>1, <3>2, <3>4
  <2>5. ASSUME NEW e \in ev \cup sent, NEW f \in ev \cup sent, Carrier(e), Carrier(f),
               NEW d \in Wire(e), NEW c \in Wire(f), d.end = c.end
        PROVE  e = f /\ d = c
    <3>1. CASE e \in ev /\ f \in ev
      BY <2>5, <3>1 DEF Sound, OneSeat
    <3>2. CASE e \in sent /\ f \in sent
      BY <2>4, <2>5, <3>2
    <3>3. CASE e \in ev /\ f \in sent
      BY <2>3, <2>5, <3>3
    <3>4. CASE e \in sent /\ f \in ev
      BY <2>3, <2>5, <3>4
    <3>5. QED
      BY <3>1, <3>2, <3>3, <3>4
  <2>6. QED
    BY <2>1, <2>2, <2>5 DEF OneSeat
<1>9. OneCopy(qs, ev \cup sent)
  <2>1. ASSUME NEW e \in ev \cup sent, NEW f \in ev \cup sent, IsMessage(e), IsMessage(f),
               Same(e.msg, f.msg)
        PROVE  e = f
    <3>1. CASE e \in ev /\ f \in ev
      BY <2>1, <3>1 DEF Sound, OneCopy
    <3>2. CASE e \in sent /\ f \in sent
      BY <2>1, <3>2 DEF Loose, Carries, Same
    <3>3. CASE e \in ev /\ f \in sent
      BY <2>1, <3>3 DEF Loose, Carries, Same
    <3>4. CASE e \in sent /\ f \in ev
      BY <2>1, <3>4 DEF Loose, Carries, Same
    <3>5. QED
      BY <3>1, <3>2, <3>3, <3>4
  <2>2. ASSUME NEW e \in ev \cup sent, IsMessage(e), NEW a \in DOMAIN qs, NEW m \in qs[a].queue
        PROVE  ~Same(e.msg, m)
    <3>1. CASE e \in ev
      BY <2>2, <3>1 DEF Sound, OneCopy, Moves
    <3>2. CASE e \in sent
      BY <2>2, <3>2 DEF Loose, Carries, Same, Moves
    <3>3. QED
      BY <3>1, <3>2
  <2>3. \A a, b \in DOMAIN qs : \A m \in qs[a].queue, x \in qs[b].queue :
          Same(m, x) => a = b /\ m = x
    BY DEF Sound, OneCopy, Moves
  <2>4. QED
    BY <2>1, <2>2, <2>3 DEF OneCopy
<1>10. NumbersUsed(qs, ev \cup sent)
  <2>1. ASSUME NEW m, NumberUsed(ps, ev, m)
        PROVE  NumberUsed(qs, ev \cup sent, m)
    <3>1. ASSUME NEW a \in DOMAIN qs, qs[a].state = "receiving", qs[a].end = m.from
          PROVE  m.num < qs[a].nextSend
      BY <2>1, <3>1 DEF NumberUsed, Moves
    <3>2. ASSUME NEW e \in ev \cup sent, Carrier(e), NEW d \in Wire(e), d.end = m.from
          PROVE  m.num < d.nextSend
      <4>1. CASE e \in ev
        BY <2>1, <3>2, <4>1 DEF NumberUsed
      <4>2. CASE e \in sent
        <5>1. PICK p \in S : d = D[p]
          BY <1>7, <3>2, <4>2
        <5>2. QED
          BY <1>1, <2>1, <3>2, <5>1 DEF NumberUsed
      <4>3. QED
        BY <4>1, <4>2
    <3>3. QED
      BY <3>1, <3>2 DEF NumberUsed
  <2>2. \A a \in DOMAIN qs : \A m \in qs[a].queue : NumberUsed(qs, ev \cup sent, m)
    BY <2>1 DEF Sound, NumbersUsed, Moves
  <2>3. \A e \in ev : IsMessage(e) => NumberUsed(qs, ev \cup sent, e.msg)
    BY <2>1 DEF Sound, NumbersUsed
  <2>4. ASSUME NEW m \in M
        PROVE  NumberUsed(qs, ev \cup sent, G[m].msg)
    <3>1. G[m].msg.from = m.from /\ G[m].msg.num = m.num /\ NumberUsed(ps, ev, m)
      BY DEF Carries, Loose
    <3>2. NumberUsed(ps, ev, G[m].msg)
      BY <3>1 DEF NumberUsed
    <3>3. QED
      BY <2>1, <3>2
  <2>5. QED
    BY <2>2, <2>3, <2>4 DEF NumbersUsed
<1>11. QED
  BY <1>2, <1>4, <1>6, <1>8, <1>9, <1>10 DEF Sound

\* Fresh names are distinct.
LEMMA FreshDistinct ==
  ASSUME NEW last \in Nat, NEW S \in SUBSET PortName, IsFiniteSet(S)
  PROVE  /\ \A p \in S : Fresh(last, S)[p] <= last + Cardinality(S)
         /\ \A p, q \in S : Fresh(last, S)[p] = Fresh(last, S)[q] => p = q
<1> DEFINE Upto(p) == {q \in S : q <= p}
           k == [p \in S |-> Cardinality(Upto(p))]
<1>0. \A p \in S : p \in Nat
  BY DEF PortName
<1>1. /\ Cardinality(S) \in Nat
      /\ \A p \in S : k[p] \in Nat /\ k[p] <= Cardinality(S)
  BY FS_Subset, FS_CardinalityType
<1>2. \A p \in S : Fresh(last, S)[p] = last + k[p]
  BY DEF Fresh
<1>3. ASSUME NEW p \in S, NEW q \in S, p < q
      PROVE  k[p] # k[q]
  <2>1. Upto(p) \subseteq Upto(q) /\ q \in Upto(q) /\ q \notin Upto(p)
    BY <1>0, <1>3
  <2>2. IsFiniteSet(Upto(q))
    BY FS_Subset
  <2> HIDE DEF Upto
  <2>3. Cardinality(Upto(q)) # Cardinality(Upto(p))
    BY <2>1, <2>2, FS_Subset
  <2>4. QED
    BY <2>3
<1> HIDE DEF k, Upto
<1>4. ASSUME NEW p \in S, NEW q \in S, Fresh(last, S)[p] = Fresh(last, S)[q]
      PROVE  p = q
  <2>1. k[p] = k[q]
    <3>1. k[p] \in Nat /\ k[q] \in Nat /\ last + k[p] = last + k[q]
      BY <1>1, <1>2, <1>4
    <3>2. QED
      BY <3>1
  <2>2. p \in Nat /\ q \in Nat
    BY <1>0
  <2>3. QED
    BY <1>3, <2>1, <2>2
<1>5. ASSUME NEW p \in S
      PROVE  Fresh(last, S)[p] <= last + Cardinality(S)
  <2>1. k[p] \in Nat /\ k[p] <= Cardinality(S) /\ Cardinality(S) \in Nat
    BY <1>1
  <2>2. last + k[p] <= last + Cardinality(S)
    BY <2>1
  <2>3. QED
    BY <1>2, <2>2
<1>6. QED
  BY <1>4, <1>5

\* PrepareToForwardUserMessage, for messages that are nowhere else.
LEMMA PrepareSound ==
  ASSUME NEW st \in HandlerState, NEW a \in DOMAIN st.ports,
         NEW M \in FiniteSubset(Message),
         \A p \in Attached(M) : /\ <<a[1], p>> \in DOMAIN st.ports
                                /\ st.ports[<<a[1], p>>].state = "receiving",
         NEW E \in SUBSET Event, NEW hd \in SUBSET Addr, HandlerSound(st, E, hd),
         Loose(st.ports, E \cup st.out, st.lastName, hd, M)
  PROVE  HandlerSound(PrepareToForwardUserMessage(st, a, M), E, hd)
<1> DEFINE n == a[1]
           to == st.ports[a].peer
           moved == IF to[1] = n THEN {} ELSE Attached(M)
           fresh == Fresh(st.lastName, moved)
           Rewritten(d) ==
             IF d.name \in moved
             THEN DescriptorOf(<<n, d.name>>, st.ports[<<n, d.name>>],
                               fresh[d.name])
             ELSE d
           New(m) == [m EXCEPT !.att = {Rewritten(d) : d \in m.att}]
           ps == [b \in DOMAIN st.ports |->
                    IF b[1] = n /\ b[2] \in moved
                    THEN ConvertToProxy(st.ports[b], <<to[1], fresh[b[2]]>>)
                    ELSE st.ports[b]]
           sent == {UserMessage(n, to, New(m)) : m \in M}
           s == PrepareToForwardUserMessage(st, a, M)
           ev == E \cup st.out
           top == st.lastName + Cardinality(moved)
<1>1. s.ports = ps /\ s.out = st.out \cup sent /\ s.lastName = top
  BY DEF PrepareToForwardUserMessage, HandlerState
<1>2. s \in HandlerState
  BY PrepareToForwardType
<1>3. /\ n \in Node /\ to \in Addr /\ to[1] \in Node /\ st.lastName \in Nat
      /\ st.ports \in PortMap /\ ps \in PortMap /\ ev \in SUBSET Event
      /\ M \in SUBSET Message
  BY <1>1, <1>2, PortOfState, AddrParts, HandlerParts DEF FiniteSubset
<1>4. moved \in SUBSET PortName /\ IsFiniteSet(moved)
  BY AttachedFinite, FS_EmptySet
<1>5. /\ fresh \in [moved -> PortName] /\ Cardinality(moved) \in Nat
      /\ \A p \in moved : fresh[p] > st.lastName /\ fresh[p] <= top
      /\ \A p, q \in moved : fresh[p] = fresh[q] => p = q
  BY <1>3, <1>4, FreshNames, FreshDistinct
<1>6. ASSUME Sound(ps, ev \cup sent, top, hd), \A e \in sent : e \notin ev
      PROVE  HandlerSound(s, E, hd)
  <2>1. E \cup s.out = ev \cup sent
    BY <1>1
  <2>2. \A e \in s.out : Carrier(e) => e \notin E
    BY <1>1, <1>6 DEF HandlerSound
  <2> HIDE DEF s, ps, sent, ev, top
  <2>3. QED
    BY <1>1, <1>6, <2>1, <2>2 DEF HandlerSound
<1>7. CASE to[1] = n
  <2>1. moved = {} /\ top = st.lastName
    BY <1>3, <1>7, FS_EmptySet
  <2>2. ps = st.ports
    <3>1. ps = [b \in DOMAIN st.ports |-> st.ports[b]]
      BY <2>1
    <3>2. QED
      BY <1>3, <3>1, PortMapCharacterised
  <2>3. ASSUME NEW m \in M
        PROVE  New(m) = m
    <3>1. {Rewritten(d) : d \in m.att} = m.att
      BY <2>1
    <3>2. m \in Message
      BY <1>3
    <3> HIDE DEF Rewritten
    <3>3. QED
      BY <3>1, <3>2 DEF Message
  <2>4. Plain(sent, M, n, to)
    <3> HIDE DEF New
    <3>1. QED
      BY <2>3 DEF Plain
  <2> HIDE DEF sent, ps, moved, ev, top
  <2>5. /\ Sound(st.ports, ev \cup sent, st.lastName, hd)
        /\ \A e \in sent : e \notin ev
    <3>1. Sound(st.ports, ev, st.lastName, hd) /\ Loose(st.ports, ev, st.lastName, hd, M)
      BY DEF HandlerSound, ev
    <3>2. st.ports \in PortMap /\ ev \in SUBSET Event /\ st.lastName \in Nat /\ M \in SUBSET Message
      BY <1>3
    <3> HIDE DEF n, to, fresh, Rewritten, New, s
    <3>3. QED
      BY <2>4, <3>1, <3>2, SendLocally
  <2>6. QED
    BY <1>6, <2>1, <2>2, <2>5
<1>8. CASE to[1] # n
  <2>1. moved = Attached(M)
    BY <1>8
  <2>2. \A m \in M : \A d \in m.att : d.name \in moved
    BY <2>1 DEF Attached
  <2> DEFINE D == [p \in moved |-> DescriptorOf(<<n, p>>, st.ports[<<n, p>>], fresh[p])]
             G == [m \in M |-> UserMessage(n, to, New(m))]
  <2>3. \A p \in moved : /\ <<n, p>> \in DOMAIN st.ports /\ <<n, p>> \in Addr
                         /\ st.ports[<<n, p>>].state = "receiving"
                         /\ st.ports[<<n, p>>] \in Port
    BY <2>1, PortOfState
  <2>4. ASSUME NEW p \in moved
        PROVE  D[p] \in Moved
    BY <1>5, <2>3, DescriptorOfType
  <2>5. \A p \in moved : /\ D[p].name = fresh[p]
                         /\ D[p].end = st.ports[<<n, p>>].end
                         /\ D[p].nextSend = st.ports[<<n, p>>].nextSend
    BY DEF DescriptorOf
  <2>6. Moves(st.ports, ps, n, moved, D, st.lastName, top)
    <3>1. DOMAIN ps = DOMAIN st.ports
      OBVIOUS
    <3>2. ASSUME NEW b \in DOMAIN ps
          PROVE  /\ ps[b].queue = st.ports[b].queue /\ ps[b].end = st.ports[b].end
                 /\ ps[b].state = "receiving" =>
                      /\ st.ports[b].state = "receiving" /\ b[2] \notin moved
                      /\ ps[b].nextSend = st.ports[b].nextSend
      <4>1. st.ports[b] \in Port /\ b \in DOMAIN st.ports
        BY PortOfState
      <4>2. CASE b[1] = n /\ b[2] \in moved
        <5>1. ps[b] = ConvertToProxy(st.ports[b], <<to[1], fresh[b[2]]>>)
          BY <4>2
        <5>2. QED
          BY <4>1, <5>1 DEF ConvertToProxy, Port
      <4>3. CASE ~(b[1] = n /\ b[2] \in moved)
        <5>1. ps[b] = st.ports[b]
          BY <4>3
        <5>2. b[2] \notin moved
          <6>1. SUFFICES ASSUME b[2] \in moved
                         PROVE  FALSE
            OBVIOUS
          <6>2. <<n, b[2]>> \in DOMAIN st.ports /\ <<n, b[2]>>[2] = b[2] /\ <<n, b[2]>>[1] = n
            BY <2>3, <6>1
          <6>3. <<n, b[2]>> = b
            BY <4>1, <6>2 DEF HandlerSound, Sound, OnePlace
          <6>4. QED
            BY <4>3, <6>1, <6>2, <6>3
        <5>3. QED
          BY <5>1, <5>2
      <4>4. QED
        BY <4>2, <4>3
    <3> HIDE DEF ps, D, fresh, moved, top
    <3>3. ASSUME NEW p \in moved, NEW q \in moved, D[p].name = D[q].name
          PROVE  p = q
      <4>1. fresh[p] = fresh[q]
        BY <2>5, <3>3
      <4>2. QED
        BY <1>5, <4>1
    <3>4. \A p \in moved : st.lastName < fresh[p] /\ fresh[p] <= top
      BY <1>3, <1>5 DEF PortName
    <3>5. QED
      BY <2>3, <2>4, <2>5, <3>1, <3>2, <3>3, <3>4 DEF Moves
  <2>7. Carries(M, moved, D, G)
    <3>1. ASSUME NEW m \in M
          PROVE  /\ IsMessage(G[m]) /\ ~IsMerge(G[m])
                 /\ G[m].msg.from = m.from /\ G[m].msg.num = m.num
                 /\ \A d \in Carried(G[m]) : \E c \in m.att : c.name \in moved /\ d = D[c.name]
                 /\ \A d \in Wire(G[m]) : d \in Carried(G[m])
      <4>1. m \in Message
        BY <1>3
      <4>2. /\ New(m).from = m.from /\ New(m).num = m.num
            /\ New(m).att = {Rewritten(d) : d \in m.att}
        BY <4>1 DEF Message
      <4>3. G[m].msg = New(m) /\ IsMessage(G[m]) /\ ~IsMerge(G[m])
        BY DEF UserMessage, IsMessage, IsMerge
      <4>4. \A d \in m.att : Rewritten(d) = D[d.name]
        BY <2>2
      <4> HIDE DEF G, D, New, Rewritten, moved
      <4>5. Carried(G[m]) = {Rewritten(d) : d \in m.att} /\ Wire(G[m]) \subseteq Carried(G[m])
        BY <4>2, <4>3 DEF Carried, Wire
      <4>6. QED
        BY <2>2, <4>2, <4>3, <4>4, <4>5
    <3>2. QED
      BY <3>1 DEF Carries
  <2>8. Values(sent, M, G)
    BY DEF Values
  <2>9. top \in Nat /\ st.lastName <= top
    BY <1>3, <1>5
  <2> HIDE DEF sent, ps, moved, D, G, ev, top
  <2>10. Sound(st.ports, ev, st.lastName, hd) /\ Loose(st.ports, ev, st.lastName, hd, M)
    BY DEF HandlerSound, ev
  <2>11. /\ Sound(ps, ev \cup sent, top, hd)
         /\ \A e \in sent : e \notin ev
    <3>1. /\ st.ports \in PortMap /\ ps \in PortMap /\ ev \in SUBSET Event
          /\ st.lastName \in Nat /\ M \in SUBSET Message
      BY <1>3
    <3> HIDE DEF n, to, fresh, Rewritten, New, s
    <3>2. QED
      BY <2>6, <2>7, <2>8, <2>9, <2>10, <3>1, SendMoved
  <2>12. QED
    BY <1>6, <2>11
<1>9. QED
  BY <1>7, <1>8

\* Messages taken from a queue are nowhere else.
LEMMA TakenLoose ==
  ASSUME NEW ps \in PortMap, NEW qs \in PortMap, Shrinks(ps, qs),
         NEW ev \in SUBSET Event, NEW last \in Nat, NEW hd, Sound(ps, ev, last, hd),
         NEW a \in DOMAIN ps, NEW T, T \subseteq ps[a].queue,
         a \in DOMAIN qs => qs[a].queue \cap T = {}
  PROVE  Loose(qs, ev, last, hd, T)
<1>1. /\ DOMAIN qs \subseteq DOMAIN ps
      /\ \A b \in DOMAIN qs : qs[b].queue \subseteq ps[b].queue
  BY ShrinkFacts
<1>2. T \subseteq Message
  BY Numbers
<1>3. ASSUME NEW m \in T
      PROVE  /\ m.from <= last
             /\ NumberUsed(qs, ev, m)
             /\ \A d \in m.att :
                  /\ d.referring = NoAddr /\ d.name <= last
                  /\ \A e \in ev : Carrier(e) => \A c \in Carried(e) : c.name # d.name
                  /\ \A b \in hd : b[2] # d.name
             /\ \A e \in ev : IsMessage(e) => ~Same(m, e.msg)
  <2>1. m \in ps[a].queue /\ m \in Message
    BY <1>2
  <2>2. m.from <= last /\ \A d \in m.att : d.referring = NoAddr /\ d.name <= last
    BY <2>1 DEF Sound, NamesDrawn
  <2>3. NumberUsed(ps, ev, m)
    BY <2>1 DEF Sound, NumbersUsed
  <2>4. NumberUsed(qs, ev, m)
    BY <2>1, <2>3, NumberUsedShrinks
  <2>5. \A d \in m.att :
          /\ \A e \in ev : Carrier(e) => \A c \in Carried(e) : c.name # d.name
          /\ \A b \in hd : b[2] # d.name
    BY <2>1 DEF Sound, OnePlace
  <2>6. \A e \in ev : IsMessage(e) => ~Same(m, e.msg)
    BY <2>1 DEF Sound, OneCopy, Same
  <2>7. QED
    BY <2>2, <2>4, <2>5, <2>6
<1>4. ASSUME NEW m \in T, NEW b \in DOMAIN qs, NEW x \in qs[b].queue
      PROVE  ~Same(m, x) /\ \A d \in m.att, c \in x.att : c.name # d.name
  <2>1. m \in ps[a].queue /\ x \in ps[b].queue /\ b \in DOMAIN ps
    BY <1>1
  <2>2. ~(a = b /\ m = x)
    OBVIOUS
  <2>3. ~Same(m, x)
    BY <2>1, <2>2 DEF Sound, OneCopy
  <2>4. QED
    BY <2>1, <2>2, <2>3 DEF Sound, OnePlace
<1>5. \A m, x \in T : Same(m, x) => m = x
  BY DEF Sound, OneCopy
<1>6. \A m, x \in T : \A d \in m.att, c \in x.att : d.name = c.name => m = x
  BY DEF Sound, OnePlace
<1>7. QED
  BY <1>3, <1>4, <1>5, <1>6 DEF Loose

\* ForwardUserMessagesFromProxy empties the queue and sends what was in it.
LEMMA ForwardSound ==
  ASSUME NEW st \in HandlerState, NEW a \in DOMAIN st.ports,
         st.ports[a].state = "proxying",
         NEW E \in SUBSET Event, NEW hd \in SUBSET Addr, HandlerSound(st, E, hd)
  PROVE  HandlerSound(ForwardUserMessagesFromProxy(st, a), E, hd)
<1> DEFINE r == st.ports[a]
           M == Sequential(r)
           bad == {m \in M : \E p \in Attached({m}) : Unsendable(st, a, p)}
           lost == {m \in bad : \A x \in bad : m.seq <= x.seq}
           sent == {m \in M : \A x \in bad : m.seq < x.seq}
           port == [r EXCEPT !.queue = @ \ (sent \cup lost),
                             !.nextRecv = @ + Cardinality(sent \cup lost),
                             !.nextSend = @ - Cardinality(lost)]
           left == {<<a[1], p>> : p \in Attached(lost)}
           none == lost = {}
           taken == Taken(st, a, port, left, none)
<1>1. ForwardUserMessagesFromProxy(st, a)
        = PrepareToForwardUserMessage(taken, a, sent)
  BY DEF ForwardUserMessagesFromProxy, Taken
<1>2. r \in Port /\ r.queue \in FiniteSubset(Message) /\ a[1] \in Node
  BY PortOfState
<1>3. M \subseteq r.queue
  BY DEF Sequential
<1>4. ASSUME NEW m \in sent, NEW p \in Attached({m})
      PROVE  <<a[1], p>> \in DOMAIN st.ports
               /\ st.ports[<<a[1], p>>].state = "receiving"
  <2>1. m.seq \in Nat
    BY <1>2, <1>3 DEF FiniteSubset, Message
  <2>2. m \notin bad
    BY <2>1
  <2>3. QED
    BY <2>2 DEF Unsendable
<1>5. /\ lost \subseteq r.queue /\ sent \subseteq r.queue
      /\ sent \cup lost \subseteq r.queue
  BY <1>3
<1> HIDE DEF M, lost, sent
<1>6. /\ lost \in FiniteSubset(Message) /\ sent \in FiniteSubset(Message)
      /\ Cardinality(lost) \in Nat /\ Cardinality(sent \cup lost) \in Nat
  BY <1>2, <1>5, SubsetOfFinite
<1>7. port \in Port
  BY <1>2, <1>5, <1>6, TakenPort
<1>8. left \in SUBSET Addr
  BY <1>2, <1>6, AttachedAddrs
<1>9. none \in BOOLEAN
  OBVIOUS
<1>10. Later(r, port) /\ port.queue = r.queue \ (sent \cup lost)
  BY <1>2, <1>6, PortFields DEF Later, Port
<1> HIDE DEF port, left, none
<1>11. taken \in HandlerState /\ DOMAIN taken.ports = DOMAIN st.ports
  BY <1>7, <1>8, <1>9, SetPortAndRest
<1>12. /\ taken.ports = [st.ports EXCEPT ![a] = port]
       /\ taken.out = st.out /\ taken.lastName = st.lastName
  BY DEF Taken, HandlerState
<1> HIDE DEF taken
<1>13. Calm(st, taken)
  BY <1>7, <1>10, <1>12, CalmReplace
<1>14. HandlerSound(taken, E, hd)
  BY <1>11, <1>13, CalmSound
<1>15. \A p \in Attached(sent) : /\ <<a[1], p>> \in DOMAIN taken.ports
                                 /\ taken.ports[<<a[1], p>>].state = "receiving"
  <2>1. \A p \in Attached(sent) : /\ <<a[1], p>> \in DOMAIN st.ports
                                  /\ st.ports[<<a[1], p>>].state = "receiving"
    BY <1>4 DEF Attached
  <2>2. \A b \in DOMAIN st.ports : b # a => taken.ports[b] = st.ports[b]
    BY <1>12
  <2>3. QED
    BY <1>11, <2>1, <2>2
<1>16. Loose(taken.ports, E \cup taken.out, taken.lastName, hd, sent)
  <2> DEFINE ev == E \cup st.out
  <2>1. /\ st.ports \in PortMap /\ taken.ports \in PortMap /\ ev \in SUBSET Event
        /\ st.lastName \in Nat
    BY <1>11, HandlerParts
  <2>2. Shrinks(st.ports, taken.ports) /\ Sound(st.ports, ev, st.lastName, hd)
    BY <1>13 DEF Calm, HandlerSound
  <2>3. sent \subseteq st.ports[a].queue
    BY <1>5
  <2>4. taken.ports[a].queue \cap sent = {}
    BY <1>10, <1>12
  <2> HIDE DEF ev
  <2>5. Loose(taken.ports, ev, st.lastName, hd, sent)
    BY <2>1, <2>2, <2>3, <2>4, TakenLoose
  <2>6. QED
    BY <1>12, <2>5 DEF ev
<1>17. HandlerSound(PrepareToForwardUserMessage(taken, a, sent), E, hd)
  BY <1>6, <1>11, <1>14, <1>15, <1>16, PrepareSound
<1>18. QED
  BY <1>1, <1>17

\* Beginning to proxy.
LEMMA BeginProxyingSound ==
  ASSUME NEW st \in HandlerState, NEW a \in DOMAIN st.ports,
         NEW E \in SUBSET Event, NEW hd \in SUBSET Addr, HandlerSound(st, E, hd)
  PROVE  HandlerSound(BeginProxying(st, a), E, hd)
<1> DEFINE s == [st EXCEPT !.ports[a].state = "proxying"]
           port == [st.ports[a] EXCEPT !.state = "proxying"]
           forwarded == ForwardUserMessagesFromProxy(s, a)
           reported == [st EXCEPT !.oops = @ \cup {"begin proxying"}]
<1>1. port \in Port
  BY PortOfState DEF Port, State
<1>2. /\ s = [st EXCEPT !.ports[a] = port] /\ s.ports = [st.ports EXCEPT ![a] = port]
      /\ s.out = st.out /\ s.lastName = st.lastName
  BY DEF HandlerState
<1>3. /\ Later(st.ports[a], port) /\ port.state = "proxying"
      /\ port.queue = st.ports[a].queue
  BY PortOfState, PortFields DEF Later, Port
<1> HIDE DEF port
<1>4. s \in HandlerState /\ DOMAIN s.ports = DOMAIN st.ports
  BY <1>1, <1>2, SetPort DEF HandlerState
<1>5. \/ BeginProxying(st, a) = reported
      \/ BeginProxying(st, a) = forwarded
      \/ BeginProxying(st, a) = StartRemoval(forwarded, a)
  BY DEF BeginProxying
<1>6. /\ reported.ports = st.ports /\ reported.out = st.out
      /\ reported.lastName = st.lastName /\ reported \in HandlerState
  BY DEF HandlerState, Oops
<1> HIDE DEF s, reported
<1>7. Calm(st, s)
  BY <1>1, <1>2, <1>3, CalmReplace
<1>8. s.ports[a].state = "proxying" /\ HandlerSound(s, E, hd)
  BY <1>2, <1>3, <1>4, <1>7, CalmSound
<1>9. /\ forwarded \in HandlerState /\ a \in DOMAIN forwarded.ports
      /\ HandlerSound(forwarded, E, hd)
  BY <1>4, <1>8, ForwardFromProxyType, ForwardSound
<1> HIDE DEF forwarded
<1>10. HandlerSound(StartRemoval(forwarded, a), E, hd)
  <2>1. /\ Calm(forwarded, StartRemoval(forwarded, a))
        /\ StartRemoval(forwarded, a) \in HandlerState
    BY <1>9, CalmRemoval, StartRemovalType
  <2>2. QED
    BY <1>9, <2>1, CalmSound
<1>11. HandlerSound(reported, E, hd)
  <2>1. Calm(st, reported)
    BY <1>6, CalmSend
  <2>2. QED
    BY <1>6, <2>1, CalmSound
<1>12. QED
  BY <1>5, <1>9, <1>10, <1>11

\* Merging two ports.
LEMMA MergeSound ==
  ASSUME NEW st \in HandlerState, NEW a \in DOMAIN st.ports,
         NEW b \in DOMAIN st.ports, a # b, NEW allowClose,
         NEW E \in SUBSET Event, NEW hd \in SUBSET Addr, HandlerSound(st, E, hd)
  PROVE  HandlerSound(MergePortsInternal(st, a, b, allowClose), E, hd)
<1> DEFINE swapped == SwapPeers(st, a, b)
           first == ForwardUserMessagesFromProxy(swapped, a)
           flushed == IF first.ok THEN ForwardUserMessagesFromProxy(first, b)
                      ELSE first
           CloseIf(s, c) == IF allowClose \/ s.ports[c].state = "receiving"
                            THEN Close(s, c) ELSE s
           once == CloseIf(st, a)
           closed == CloseIf(once, b)
           undone == Close(Close(UndoSwap(flushed, a, b), a), b)
           started == StartRemoval(flushed, a)
           merged == MergePortsInternal(st, a, b, allowClose)
<1>1. \/ merged = [closed EXCEPT !.ok = FALSE]
      \/ merged = StartRemoval(started, b)
      \/ merged = undone
  BY DEF MergePortsInternal
<1>2. /\ swapped \in HandlerState /\ DOMAIN swapped.ports = DOMAIN st.ports
      /\ Calm(st, swapped)
      /\ swapped.ports[a].state = "proxying"
      /\ swapped.ports[b].state = "proxying"
  BY SwapType, SwapEvolves, CalmSwap
<1> HIDE DEF swapped
<1>3. HandlerSound(swapped, E, hd)
  BY <1>2, CalmSound
<1>4. /\ first \in HandlerState /\ DOMAIN first.ports = DOMAIN st.ports
      /\ Evolves(swapped.ports, first.ports) /\ HandlerSound(first, E, hd)
  BY <1>2, <1>3, ForwardFromProxyType, ForwardFromProxyEvolves, ForwardSound
<1>5. first.ports[b].state = "proxying"
  BY <1>2, <1>4 DEF Evolves, Later
<1> HIDE DEF first
<1>6. /\ flushed \in HandlerState /\ DOMAIN flushed.ports = DOMAIN st.ports
      /\ HandlerSound(flushed, E, hd)
  BY <1>4, <1>5, ForwardFromProxyType, ForwardSound
<1> HIDE DEF flushed
<1>7. merged \in HandlerState
  BY MergeType
<1>8. ASSUME merged = [closed EXCEPT !.ok = FALSE]
      PROVE  HandlerSound(merged, E, hd)
  <2>1. once \in HandlerState /\ b \in DOMAIN once.ports /\ Calm(st, once)
    BY CloseType, CalmRemoval, CalmOrder
  <2> HIDE DEF once
  <2>2. closed \in HandlerState /\ Calm(once, closed)
    BY <2>1, CloseType, CalmRemoval, CalmOrder
  <2> HIDE DEF closed, merged
  <2>3. /\ merged.ports = closed.ports /\ merged.out = closed.out
        /\ merged.lastName = closed.lastName
    BY <1>8, <2>2 DEF HandlerState
  <2>4. Calm(closed, merged)
    BY <1>7, <2>2, <2>3, CalmSend
  <2>5. Calm(st, closed)
    BY <2>1, <2>2, CalmOrder
  <2>6. Calm(st, merged)
    BY <1>7, <2>2, <2>4, <2>5, CalmOrder
  <2>7. QED
    BY <1>7, <2>6, CalmSound
<1>9. ASSUME merged = StartRemoval(started, b)
      PROVE  HandlerSound(merged, E, hd)
  <2>1. /\ started \in HandlerState /\ b \in DOMAIN started.ports
        /\ Calm(flushed, started)
    BY <1>6, StartRemovalType, CalmRemoval
  <2> HIDE DEF started
  <2>2. Calm(started, StartRemoval(started, b))
    BY <2>1, CalmRemoval
  <2> HIDE DEF merged
  <2>3. Calm(flushed, merged)
    BY <1>6, <1>7, <1>9, <2>1, <2>2, CalmOrder
  <2>4. QED
    BY <1>6, <1>7, <2>3, CalmSound
<1>10. ASSUME merged = undone
       PROVE  HandlerSound(merged, E, hd)
  <2>1. Calm(flushed, undone)
    BY <1>6, CalmUndo
  <2> HIDE DEF undone, merged
  <2>2. QED
    BY <1>6, <1>7, <1>10, <2>1, CalmSound
<1>11. QED
  BY <1>1, <1>8, <1>9, <1>10

-----------------------------------------------------------------------------
(***************************************************************************)
(* Ports and messages that arrive.                                         *)
(***************************************************************************)
\* Descriptors in D have become ports of node n.
Accepts(ps, qs, n, D) ==
  /\ \A b \in DOMAIN ps : b \in DOMAIN qs /\ qs[b] = ps[b]
  /\ \A b \in DOMAIN qs : b \notin DOMAIN ps =>
       /\ qs[b].queue = {}
       /\ \E d \in D : /\ b = <<n, d.name>>
                       /\ qs[b].end = d.end /\ qs[b].nextSend = d.nextSend

\* Event e is no longer under way, and only events that carry nothing are new.
Arrives(e, ev, fv) == \A f \in fv : Carrier(f) => f \in ev /\ f # e

\* A port made from a descriptor goes on with the numbers of the one that moved.
LEMMA NumberUsedAccepts ==
  ASSUME NEW ps, NEW qs, NEW ev, NEW fv, NEW e \in ev, Carrier(e), NEW n,
         Accepts(ps, qs, n, Wire(e)), Arrives(e, ev, fv),
         NEW m, NumberUsed(ps, ev, m)
  PROVE  NumberUsed(qs, fv, m)
<1>1. ASSUME NEW a \in DOMAIN qs, qs[a].state = "receiving", qs[a].end = m.from
      PROVE  m.num < qs[a].nextSend
  <2>1. CASE a \in DOMAIN ps
    BY <1>1, <2>1 DEF Accepts, NumberUsed
  <2>2. CASE a \notin DOMAIN ps
    <3>1. PICK d \in Wire(e) : qs[a].end = d.end /\ qs[a].nextSend = d.nextSend
      BY <2>2 DEF Accepts
    <3>2. QED
      BY <1>1, <3>1 DEF NumberUsed
  <2>3. QED
    BY <2>1, <2>2
<1>2. QED
  BY <1>1 DEF NumberUsed, Arrives

\* Ports take the seats of the descriptors they are made from.
LEMMA AcceptedSound ==
  ASSUME NEW ps \in PortMap, NEW qs \in PortMap,
         NEW ev \in SUBSET Event, NEW fv \in SUBSET Event,
         NEW e \in ev, Carrier(e), NEW n, Accepts(ps, qs, n, Wire(e)),
         Arrives(e, ev, fv), NEW last \in Nat, NEW hd, Sound(ps, ev, last, hd)
  PROVE  Sound(qs, fv, last, hd)
<1>1. Wire(e) \subseteq Carried(e)
  BY CarriedType
<1>2. \A b \in DOMAIN ps : b \in DOMAIN qs /\ qs[b] = ps[b]
  BY DEF Accepts
<1>3. ASSUME NEW b \in DOMAIN qs, b \notin DOMAIN ps
      PROVE  /\ qs[b].queue = {}
             /\ \E d \in Wire(e) : /\ b = <<n, d.name>> /\ b[2] = d.name
                                   /\ qs[b].end = d.end
  BY <1>3 DEF Accepts
<1>4. NamesDrawn(qs, fv, last, hd)
  <2>1. ASSUME NEW a \in DOMAIN qs
        PROVE  /\ a[2] <= last /\ qs[a].end <= last
               /\ \A m \in qs[a].queue :
                    /\ m.from <= last
                    /\ \A d \in m.att : d.name <= last /\ d.referring = NoAddr
    <3>1. CASE a \in DOMAIN ps
      BY <1>2, <3>1 DEF Sound, NamesDrawn
    <3>2. CASE a \notin DOMAIN ps
      BY <1>1, <1>3, <3>2 DEF Sound, NamesDrawn
    <3>3. QED
      BY <3>1, <3>2
  <2>2. QED
    BY <2>1 DEF Sound, NamesDrawn, Arrives
<1>5. \A a \in DOMAIN qs : \A m \in qs[a].queue : a \in DOMAIN ps /\ m \in ps[a].queue
  BY <1>2, <1>3
<1>6. OnePlace(qs, fv, hd)
  <2>1. ASSUME NEW a \in DOMAIN qs, NEW b \in DOMAIN qs, a[2] = b[2]
        PROVE  a = b
    <3>1. CASE a \in DOMAIN ps /\ b \in DOMAIN ps
      BY <2>1, <3>1 DEF Sound, OnePlace
    <3>2. CASE a \in DOMAIN ps /\ b \notin DOMAIN ps
      BY <1>1, <1>3, <2>1, <3>2 DEF Sound, OnePlace
    <3>3. CASE a \notin DOMAIN ps /\ b \in DOMAIN ps
      BY <1>1, <1>3, <2>1, <3>3 DEF Sound, OnePlace
    <3>4. CASE a \notin DOMAIN ps /\ b \notin DOMAIN ps
      BY <1>3, <2>1, <3>4
    <3>5. QED
      BY <3>1, <3>2, <3>3, <3>4
  <2>2. \A a, b \in hd : a[2] = b[2] => a = b
    BY DEF Sound, OnePlace
  <2>3. \A a, b \in DOMAIN qs : \A m \in qs[a].queue, x \in qs[b].queue :
          \A d \in m.att, c \in x.att : d.name = c.name => a = b /\ m = x
    BY <1>5 DEF Sound, OnePlace
  <2>4. \A f, g \in fv : Carrier(f) /\ Carrier(g) =>
          \A d \in Carried(f), c \in Carried(g) : d.name = c.name => f = g
    BY DEF Sound, OnePlace, Arrives
  <2>5. ASSUME NEW f \in fv, Carrier(f), NEW d \in Carried(f)
        PROVE  /\ \A a \in DOMAIN qs : \A m \in qs[a].queue : \A c \in m.att : c.name # d.name
               /\ \A b \in hd : b[2] # d.name
               /\ d \in Wire(f) => \A a \in DOMAIN qs : a[2] # d.name
    <3>1. f \in ev /\ f # e
      BY <2>5 DEF Arrives
    <3>2. ASSUME d \in Wire(f), NEW a \in DOMAIN qs
          PROVE  a[2] # d.name
      <4>1. CASE a \in DOMAIN ps
        BY <2>5, <3>1, <3>2, <4>1 DEF Sound, OnePlace
      <4>2. CASE a \notin DOMAIN ps
        BY <1>1, <1>3, <2>5, <3>1, <4>2 DEF Sound, OnePlace
      <4>3. QED
        BY <4>1, <4>2
    <3>3. QED
      BY <1>5, <2>5, <3>1, <3>2 DEF Sound, OnePlace
  <2>6. \A a \in DOMAIN qs : \A m \in qs[a].queue : \A d \in m.att :
          \A b \in hd : b[2] # d.name
    BY <1>5 DEF Sound, OnePlace
  <2>7. QED
    BY <2>1, <2>2, <2>3, <2>4, <2>5, <2>6 DEF OnePlace
<1>7. OneSeat(qs, fv)
  <2>1. ASSUME NEW a \in DOMAIN qs, NEW b \in DOMAIN qs, qs[a].state = "receiving",
               qs[b].state = "receiving", qs[a].end = qs[b].end
        PROVE  a = b
    <3>1. CASE a \in DOMAIN ps /\ b \in DOMAIN ps
      BY <1>2, <2>1, <3>1 DEF Sound, OneSeat
    <3>2. CASE a \in DOMAIN ps /\ b \notin DOMAIN ps
      BY <1>2, <1>3, <2>1, <3>2 DEF Sound, OneSeat
    <3>3. CASE a \notin DOMAIN ps /\ b \in DOMAIN ps
      BY <1>2, <1>3, <2>1, <3>3 DEF Sound, OneSeat
    <3>4. CASE a \notin DOMAIN ps /\ b \notin DOMAIN ps
      BY <1>3, <2>1, <3>4 DEF Sound, OneSeat
    <3>5. QED
      BY <3>1, <3>2, <3>3, <3>4
  <2>2. ASSUME NEW f \in fv, Carrier(f), NEW d \in Wire(f), NEW a \in DOMAIN qs,
               qs[a].state = "receiving"
        PROVE  qs[a].end # d.end
    <3>1. f \in ev /\ f # e
      BY <2>2 DEF Arrives
    <3>2. CASE a \in DOMAIN ps
      BY <1>2, <2>2, <3>1, <3>2 DEF Sound, OneSeat
    <3>3. CASE a \notin DOMAIN ps
      BY <1>3, <2>2, <3>1, <3>3 DEF Sound, OneSeat
    <3>4. QED
      BY <3>2, <3>3
  <2>3. \A f, g \in fv : Carrier(f) /\ Carrier(g) =>
          \A d \in Wire(f), c \in Wire(g) : d.end = c.end => f = g /\ d = c
    BY DEF Sound, OneSeat, Arrives
  <2>4. QED
    BY <2>1, <2>2, <2>3 DEF OneSeat
<1>8. OneCopy(qs, fv)
  BY <1>5 DEF Sound, OneCopy, Arrives, Carrier
<1>9. NumbersUsed(qs, fv)
  <2>1. \A m : NumberUsed(ps, ev, m) => NumberUsed(qs, fv, m)
    BY NumberUsedAccepts
  <2>2. QED
    BY <1>5, <2>1 DEF Sound, NumbersUsed, Arrives, Carrier
<1>10. QED
  BY <1>4, <1>6, <1>7, <1>8, <1>9 DEF Sound

\* AcceptPorts for the ports that event e carries.
LEMMA AcceptPortsAccepts ==
  ASSUME NEW st \in HandlerState, NEW n \in Node, NEW D \in SUBSET Moved
  PROVE  /\ Accepts(st.ports, AcceptPorts(st, n, D).ports, n, D)
         /\ AcceptPorts(st, n, D).lastName = st.lastName
         /\ \A f \in AcceptPorts(st, n, D).out : Carrier(f) => f \in st.out
<1> DEFINE B == {<<n, d.name>> : d \in D}
           new == [b \in B |-> AcceptedPort(CHOOSE d \in D : d.name = b[2])]
           sent == {PortAccepted(n, d.referring) : d \in D}
           s == AcceptPorts(st, n, D)
<1>1. /\ s.ports = Extend(st.ports, new) /\ s.lastName = st.lastName
      /\ s.out = st.out \cup sent
  BY DEF AcceptPorts, HandlerState
<1>2. \A f \in sent : ~Carrier(f)
  BY Empty
<1>3. ASSUME NEW b \in B
      PROVE  /\ new[b].queue = {}
             /\ \E d \in D : /\ b = <<n, d.name>>
                             /\ new[b].end = d.end /\ new[b].nextSend = d.nextSend
  <2>1. PICK d \in D : b = <<n, d.name>>
    OBVIOUS
  <2>2. d.name = b[2]
    BY <2>1
  <2> DEFINE c == CHOOSE x \in D : x.name = b[2]
  <2>3. c \in D /\ c.name = b[2]
    BY <2>2
  <2> HIDE DEF c
  <2>4. new[b] = AcceptedPort(c)
    BY DEF c
  <2>5. AcceptedPort(c).queue = {} /\ AcceptedPort(c).end = c.end
          /\ AcceptedPort(c).nextSend = c.nextSend
    BY DEF AcceptedPort, NewPort
  <2>6. QED
    BY <2>1, <2>2, <2>3, <2>4, <2>5
<1>4. DOMAIN new = B
  OBVIOUS
<1> HIDE DEF new, sent, s, B
<1>5. /\ \A b \in DOMAIN st.ports : b \in DOMAIN s.ports /\ s.ports[b] = st.ports[b]
      /\ \A b \in DOMAIN s.ports : b \notin DOMAIN st.ports => b \in B /\ s.ports[b] = new[b]
  BY <1>1, <1>4 DEF Extend
<1>6. Accepts(st.ports, s.ports, n, D)
  BY <1>3, <1>5 DEF Accepts
<1>7. QED
  BY <1>1, <1>2, <1>6 DEF s

\* AcceptPort, for all descriptors of a message.
LEMMA AcceptSound ==
  ASSUME NEW st \in HandlerState, st.out = {}, NEW n \in Node,
         NEW e \in Event, Carrier(e), NEW E \in SUBSET Event, e \notin E,
         NEW hd, Sound(st.ports, E \cup {e}, st.lastName, hd)
  PROVE  HandlerSound(AcceptPorts(st, n, Wire(e)), E, hd)
<1> DEFINE s == AcceptPorts(st, n, Wire(e))
           ev == E \cup {e}
           fv == E \cup s.out
<1>1. Wire(e) \in SUBSET Moved
  BY CarriedType
<1>2. /\ Accepts(st.ports, s.ports, n, Wire(e)) /\ s.lastName = st.lastName
      /\ \A f \in s.out : ~Carrier(f)
  BY <1>1, AcceptPortsAccepts
<1>3. s \in HandlerState
  BY <1>1, AcceptPortsType
<1> HIDE DEF s
<1>4. /\ st.ports \in PortMap /\ s.ports \in PortMap /\ st.lastName \in Nat
      /\ ev \in SUBSET Event /\ fv \in SUBSET Event /\ e \in ev
  BY <1>3, HandlerParts
<1>5. Arrives(e, ev, fv)
  BY <1>2 DEF Arrives
<1>6. Sound(st.ports, ev, st.lastName, hd)
  OBVIOUS
<1> HIDE DEF ev, fv
<1>7. Sound(s.ports, fv, st.lastName, hd)
  BY <1>2, <1>4, <1>5, <1>6, AcceptedSound
<1>8. HandlerSound(s, E, hd)
  BY <1>2, <1>7 DEF HandlerSound, fv
<1>9. QED
  BY <1>8 DEF s

\* The message of an event, when the ports attached to it are on the node.
Local(m) == [m EXCEPT !.att = {LocalPort(d.name, d.end) : d \in m.att}]

\* What AcceptPort leaves of a message.
LEMMA LocalParts ==
  ASSUME NEW m \in Message
  PROVE  /\ Local(m).from = m.from /\ Local(m).num = m.num
         /\ \A d \in Local(m).att : /\ d.referring = NoAddr
                                    /\ \E c \in m.att : c.name = d.name
<1>1. /\ Local(m).from = m.from /\ Local(m).num = m.num
      /\ Local(m).att = {LocalPort(d.name, d.end) : d \in m.att}
  BY DEF Local, Message
<1>2. \A d : LocalPort(d.name, d.end).name = d.name /\ LocalPort(d.name, d.end).referring = NoAddr
  BY DEF LocalPort
<1>3. QED
  BY <1>1, <1>2

\* A message that has arrived is nowhere else.
LEMMA ArrivedLoose ==
  ASSUME NEW ps \in PortMap, NEW qs \in PortMap,
         NEW ev \in SUBSET Event, NEW fv \in SUBSET Event,
         NEW e \in ev, IsMessage(e), NEW n, Accepts(ps, qs, n, Wire(e)),
         Arrives(e, ev, fv), NEW last \in Nat, NEW hd, Sound(ps, ev, last, hd)
  PROVE  Loose(qs, fv, last, hd, {Local(e.msg)})
<1> DEFINE m == Local(e.msg)
<1>1. Carrier(e) /\ e.msg \in Message /\ Carried(e) = e.msg.att
  BY Numbers DEF Carrier, Carried
<1>2. /\ m.from = e.msg.from /\ m.num = e.msg.num
      /\ \A d \in m.att : d.referring = NoAddr /\ \E c \in e.msg.att : c.name = d.name
  BY <1>1, LocalParts
<1> HIDE DEF m
<1>3. \A a \in DOMAIN qs : \A x \in qs[a].queue : a \in DOMAIN ps /\ x \in ps[a].queue
  BY DEF Accepts
<1>4. NumberUsed(qs, fv, m)
  <2>1. NumberUsed(ps, ev, e.msg)
    BY DEF Sound, NumbersUsed
  <2>2. NumberUsed(qs, fv, e.msg)
    BY <1>1, <2>1, NumberUsedAccepts
  <2>3. QED
    BY <1>2, <2>2 DEF NumberUsed
<1>5. m.from <= last
  BY <1>1, <1>2 DEF Sound, NamesDrawn
<1>6. ASSUME NEW d \in m.att
      PROVE  /\ d.referring = NoAddr /\ d.name <= last
             /\ \A a \in DOMAIN qs : \A x \in qs[a].queue : \A c \in x.att : c.name # d.name
             /\ \A f \in fv : Carrier(f) => \A c \in Carried(f) : c.name # d.name
             /\ \A b \in hd : b[2] # d.name
  <2>1. PICK k \in Carried(e) : k.name = d.name
    BY <1>1, <1>2
  <2>2. d.referring = NoAddr /\ d.name <= last
    BY <1>1, <1>2, <2>1 DEF Sound, NamesDrawn
  <2>3. \A a \in DOMAIN qs : \A x \in qs[a].queue : \A c \in x.att : c.name # d.name
    BY <1>1, <1>3, <2>1 DEF Sound, OnePlace
  <2>4. \A f \in fv : Carrier(f) => \A c \in Carried(f) : c.name # d.name
    BY <1>1, <2>1 DEF Sound, OnePlace, Arrives
  <2>5. \A b \in hd : b[2] # d.name
    BY <1>1, <2>1 DEF Sound, OnePlace
  <2>6. QED
    BY <2>2, <2>3, <2>4, <2>5
<1>7. \A a \in DOMAIN qs : \A x \in qs[a].queue : ~Same(m, x)
  BY <1>2, <1>3 DEF Sound, OneCopy, Same
<1>8. \A f \in fv : IsMessage(f) => ~Same(m, f.msg)
  BY <1>2 DEF Sound, OneCopy, Same, Arrives, Carrier
<1>9. Loose(qs, fv, last, hd, {m})
  BY <1>4, <1>5, <1>6, <1>7, <1>8 DEF Loose
<1>10. QED
  BY <1>9 DEF m

\* Message m has been queued in port a.
Queues(ps, qs, a, m) ==
  /\ DOMAIN qs = DOMAIN ps
  /\ \A b \in DOMAIN ps :
       /\ qs[b].state = ps[b].state /\ qs[b].end = ps[b].end
       /\ qs[b].nextSend = ps[b].nextSend
       /\ qs[b].queue = ps[b].queue \/ (b = a /\ qs[b].queue = ps[b].queue \cup {m})

\* A message that is nowhere else may be put into a queue.
LEMMA QueuedSound ==
  ASSUME NEW ps \in PortMap, NEW qs \in PortMap, NEW a, NEW m, Queues(ps, qs, a, m),
         NEW ev, NEW last, NEW hd, Sound(ps, ev, last, hd), Loose(ps, ev, last, hd, {m})
  PROVE  Sound(qs, ev, last, hd)
<1>1. /\ DOMAIN qs = DOMAIN ps
      /\ \A b \in DOMAIN ps : /\ qs[b].state = ps[b].state /\ qs[b].end = ps[b].end
                              /\ qs[b].nextSend = ps[b].nextSend
  BY DEF Queues
<1>2. \A b \in DOMAIN ps : \A x \in qs[b].queue : x \in ps[b].queue \/ (b = a /\ x = m)
  BY DEF Queues
<1>3. NamesDrawn(qs, ev, last, hd)
  BY <1>1, <1>2 DEF Sound, NamesDrawn, Loose
<1>4. OnePlace(qs, ev, hd)
  <2>1. ASSUME NEW b \in DOMAIN qs, NEW x \in qs[b].queue, NEW c \in DOMAIN qs,
               NEW y \in qs[c].queue, NEW d \in x.att, NEW k \in y.att, d.name = k.name
        PROVE  b = c /\ x = y
    <3>1. CASE x \in ps[b].queue /\ y \in ps[c].queue
      BY <1>1, <2>1, <3>1 DEF Sound, OnePlace
    <3>2. CASE x \in ps[b].queue /\ c = a /\ y = m
      BY <1>1, <2>1, <3>2 DEF Loose
    <3>3. CASE b = a /\ x = m /\ y \in ps[c].queue
      BY <1>1, <2>1, <3>3 DEF Loose
    <3>4. QED
      BY <1>1, <1>2, <3>1, <3>2, <3>3
  <2>2. ASSUME NEW b \in DOMAIN qs, NEW x \in qs[b].queue, NEW d \in x.att
        PROVE  /\ \A c \in hd : c[2] # d.name
               /\ \A e \in ev : Carrier(e) => \A c \in Carried(e) : d.name # c.name
    <3>1. CASE x \in ps[b].queue
      BY <1>1, <3>1 DEF Sound, OnePlace
    <3>2. CASE x = m
      BY <3>2 DEF Loose
    <3>3. QED
      BY <1>1, <1>2, <3>1, <3>2
  <2>3. QED
    BY <1>1, <2>1, <2>2 DEF Sound, OnePlace
<1>5. OneSeat(qs, ev)
  BY <1>1 DEF Sound, OneSeat
<1>6. OneCopy(qs, ev)
  <2>1. ASSUME NEW b \in DOMAIN qs, NEW x \in qs[b].queue, NEW c \in DOMAIN qs,
               NEW y \in qs[c].queue, Same(x, y)
        PROVE  b = c /\ x = y
    <3>1. CASE x \in ps[b].queue /\ y \in ps[c].queue
      BY <1>1, <2>1, <3>1 DEF Sound, OneCopy
    <3>2. CASE x \in ps[b].queue /\ c = a /\ y = m
      BY <1>1, <2>1, <3>2 DEF Loose, Same
    <3>3. CASE b = a /\ x = m /\ y \in ps[c].queue
      BY <1>1, <2>1, <3>3 DEF Loose, Same
    <3>4. QED
      BY <1>1, <1>2, <3>1, <3>2, <3>3
  <2>2. ASSUME NEW b \in DOMAIN qs, NEW x \in qs[b].queue, NEW e \in ev, IsMessage(e)
        PROVE  ~Same(e.msg, x)
    <3>1. CASE x \in ps[b].queue
      BY <1>1, <2>2, <3>1 DEF Sound, OneCopy
    <3>2. CASE x = m
      BY <2>2, <3>2 DEF Loose, Same
    <3>3. QED
      BY <1>1, <1>2, <3>1, <3>2
  <2>3. QED
    BY <2>1, <2>2 DEF Sound, OneCopy
<1>7. NumbersUsed(qs, ev)
  <2>1. \A x : NumberUsed(ps, ev, x) => NumberUsed(qs, ev, x)
    BY <1>1 DEF NumberUsed
  <2>2. NumberUsed(ps, ev, m)
    BY DEF Loose
  <2>3. QED
    BY <1>1, <1>2, <2>1, <2>2 DEF Sound, NumbersUsed
<1>8. QED
  BY <1>3, <1>4, <1>5, <1>6, <1>7 DEF Sound

\* A message that has arrived is queued.
LEMMA QueueSound ==
  ASSUME NEW st \in HandlerState, NEW a \in DOMAIN st.ports, NEW m \in Message,
         NEW E, NEW hd, HandlerSound(st, E, hd),
         Loose(st.ports, E \cup st.out, st.lastName, hd, {m})
  PROVE  HandlerSound([st EXCEPT !.ports[a].queue = @ \cup {m}], E, hd)
<1> DEFINE s == [st EXCEPT !.ports[a].queue = @ \cup {m}]
           port == [st.ports[a] EXCEPT !.queue = @ \cup {m}]
<1>1. s \in HandlerState
  BY QueuedType
<1>2. /\ s.ports = [st.ports EXCEPT ![a] = port] /\ s.out = st.out
      /\ s.lastName = st.lastName
  BY DEF HandlerState
<1>3. /\ port.state = st.ports[a].state /\ port.end = st.ports[a].end
      /\ port.nextSend = st.ports[a].nextSend
      /\ port.queue = st.ports[a].queue \cup {m}
  BY PortOfState DEF Port
<1> HIDE DEF port, s
<1>4. Queues(st.ports, s.ports, a, m)
  BY <1>2, <1>3 DEF Queues
<1>5. st.ports \in PortMap /\ s.ports \in PortMap
  BY <1>1, HandlerParts
<1>6. Sound(s.ports, E \cup st.out, st.lastName, hd)
  <2> DEFINE ev == E \cup st.out
  <2>1. Sound(st.ports, ev, st.lastName, hd) /\ Loose(st.ports, ev, st.lastName, hd, {m})
    BY DEF HandlerSound
  <2> HIDE DEF ev
  <2>2. Sound(s.ports, ev, st.lastName, hd)
    BY <1>4, <1>5, <2>1, QueuedSound
  <2>3. QED
    BY <2>2 DEF ev
<1>7. HandlerSound(s, E, hd)
  BY <1>2, <1>6 DEF HandlerSound
<1>8. QED
  BY <1>7 DEF s

-----------------------------------------------------------------------------
(***************************************************************************)
(* The beginning and the end of a handler.                                 *)
(***************************************************************************)
LEMMA UniqueInvPrime ==
  ASSUME Sound(ports', DOMAIN net', lastName', held'), Single(net')
  PROVE  UniqueInv'
BY DEF UniqueInv

\* The types of the state, for the lemmas above.
LEMMA StateTypes ==
  ASSUME TypeOK
  PROVE  /\ ports \in PortMap /\ DOMAIN net \in SUBSET Event
         /\ lastName \in Nat /\ held \in SUBSET Addr
<1>1. ports \in PortMap
  BY PortMapCharacterised DEF TypeOK
<1>2. QED
  BY <1>1 DEF TypeOK, BagToSet

\* A handler begins with the state as it is, less what it has taken from the net.
LEMMA BeginSound ==
  ASSUME TypeOK, UniqueInv, NEW E, E \subseteq DOMAIN net
  PROVE  /\ HandlerSound(Begin, E, held)
         /\ Begin.out = {} /\ Begin.lastName = lastName
         /\ E \in SUBSET Event /\ held \in SUBSET Addr
<1>1. Begin.ports = ports /\ Begin.out = {} /\ Begin.lastName = lastName
  BY DEF Begin
<1>2. /\ ports \in PortMap /\ DOMAIN net \in SUBSET Event /\ E \in SUBSET Event
      /\ lastName \in Nat /\ held \in SUBSET Addr
  BY StateTypes
<1>3. Shrinks(ports, ports)
  BY <1>1, BeginType, EvolvesOrder DEF Shrinks
<1>4. Sound(ports, DOMAIN net, lastName, held) /\ \A e \in E : Carrier(e) => e \in DOMAIN net
  BY DEF UniqueInv
<1>5. Sound(ports, E, lastName, held)
  BY <1>2, <1>3, <1>4, ShrinkSound
<1>6. E \cup {} = E
  OBVIOUS
<1>7. QED
  BY <1>1, <1>2, <1>5, <1>6 DEF HandlerSound

\* What a handler has sent joins what is under way.
LEMMA CommitSound ==
  ASSUME NEW st \in HandlerState, NEW pending, DOMAIN pending \subseteq Event,
         Single(pending), NEW hd, HandlerSound(st, DOMAIN pending, hd),
         NEW closing, Commit(st, pending, closing), held' \subseteq hd
  PROVE  UniqueInv'
<1> DEFINE S == {e \in st.out : e.to[1] \in alive}
           E == DOMAIN pending
<1>1. ports' = st.ports /\ net' = pending (+) SetToBag(S) /\ lastName' = st.lastName
  BY DEF Commit
<1>2. S \subseteq st.out
  OBVIOUS
<1> HIDE DEF S
<1>3. DOMAIN net' = E \cup S
  BY <1>1 DEF (+), SetToBag
<1>4. Single(net')
  <2>1. ASSUME NEW e \in DOMAIN net', Carrier(e)
        PROVE  net'[e] = 1
    <3>1. CASE e \in S
      <4>1. e \notin E
        BY <1>2, <2>1, <3>1 DEF HandlerSound
      <4>2. QED
        BY <1>1, <3>1, <4>1 DEF (+), SetToBag
    <3>2. CASE e \notin S
      <4>1. e \in E /\ pending[e] = 1
        BY <1>3, <2>1, <3>2 DEF Single
      <4>2. QED
        BY <1>1, <3>2, <4>1 DEF (+), SetToBag
    <3>3. QED
      BY <3>1, <3>2
  <2>2. QED
    BY <2>1 DEF Single
<1>5. /\ st.ports \in PortMap /\ E \cup st.out \in SUBSET Event
      /\ E \cup S \in SUBSET Event /\ st.lastName \in Nat
  BY <1>2, HandlerParts
<1>6. Shrinks(st.ports, st.ports)
  BY EvolvesOrder DEF Shrinks
<1>7. \A e \in E \cup S : Carrier(e) => e \in E \cup st.out
  BY <1>2
<1>8. Sound(st.ports, E \cup st.out, st.lastName, hd)
  BY DEF HandlerSound
<1> HIDE DEF E
<1>9. Sound(st.ports, E \cup S, st.lastName, held')
  BY <1>5, <1>6, <1>7, <1>8, ShrinkSound
<1>10. QED
  BY <1>1, <1>3, <1>4, <1>9, UniqueInvPrime

\* What is left of the bag when an event is accepted: if the event carries
\* something, it is under way no more.
LEMMA WithoutSound ==
  ASSUME TypeOK, UniqueInv, NEW e \in BagToSet(net)
  PROVE  /\ e \in Event /\ e \in DOMAIN net
         /\ DOMAIN Without(e) \subseteq DOMAIN net /\ DOMAIN Without(e) \subseteq Event
         /\ Single(Without(e))
         /\ Carrier(e) => e \notin DOMAIN Without(e)
<1>1. e \in DOMAIN net /\ e \in Event /\ DOMAIN Without(e) \subseteq Event
  BY WithoutType DEF BagToSet
<1>2. Single(net)
  BY DEF UniqueInv
<1> DEFINE B == [x \in DOMAIN net |-> IF x \in {e} THEN net[x] - 1 ELSE net[x]]
<1>3. Without(e) = [x \in {d \in DOMAIN net : B[d] > 0} |-> B[x]]
  BY DEF Without, (-), SetToBag
<1>4. /\ DOMAIN Without(e) \subseteq DOMAIN net
      /\ \A x \in DOMAIN Without(e) : Without(e)[x] = B[x] /\ B[x] > 0
  BY <1>3
<1>5. Carrier(e) => B[e] = 0
  BY <1>1, <1>2 DEF Single
<1>6. \A x \in DOMAIN net : x # e => B[x] = net[x]
  OBVIOUS
<1> HIDE DEF B
<1>7. Carrier(e) => e \notin DOMAIN Without(e)
  BY <1>4, <1>5
<1>8. Single(Without(e))
  BY <1>2, <1>4, <1>6, <1>7 DEF Single
<1>9. QED
  BY <1>1, <1>4, <1>7, <1>8

\* The end of a handler for an event.
LEMMA HandlerEndSound ==
  ASSUME TypeOK, UniqueInv, NEW e \in BagToSet(net), NEW st \in HandlerState,
         HandlerSound(st, DOMAIN Without(e), held),
         Commit(st, Without(e), orphans), held' = held
  PROVE  UniqueInv'
<1>1. DOMAIN Without(e) \subseteq Event /\ Single(Without(e)) /\ held' \subseteq held
  BY WithoutSound
<1>2. QED
  BY <1>1, CommitSound

-----------------------------------------------------------------------------
(***************************************************************************)
(* Node::AcceptEvent.                                                      *)
(***************************************************************************)
LEMMA OnUserMessageUnique ==
  ASSUME TypeOK, UniqueInv, NEW e \in BagToSet(net), OnUserMessage(e)
  PROVE  UniqueInv'
<1> DEFINE n == e.to[1]
           a == e.to
           here == {<<n, d.name>> : d \in e.msg.att}
           st == AcceptPorts(Begin, n, Wire(e))
           m == Local(e.msg)
           queued == [st EXCEPT !.ports[a].queue = @ \cup {m}]
           r == queued.ports[a]
           forwarded == ForwardUserMessagesFromProxy(queued, a)
           told == IF r.signalable /\ HasNextMessage(r) THEN {a} ELSE {}
           accepted ==
             CASE r.state = "proxying" ->
                    IF forwarded.ok THEN TryRemoveProxy(forwarded, a)
                    ELSE forwarded
               [] r.state = "buffering" -> queued
               [] r.state = "receiving" -> [queued EXCEPT !.changed = told]
           unknown == [st EXCEPT !.oops = @ \cup {"port unknown"}]
           rejected == [st EXCEPT !.orphans = here]
           E == DOMAIN Without(e)
<1>1. /\ e \in Event /\ e.to \in Addr /\ e.to[1] \in Node /\ e.msg \in Message
      /\ IsMessage(e) /\ Carrier(e)
  BY WithoutType, EventParts DEF OnUserMessage, IsMessage, Carrier
<1>2. Begin \in HandlerState /\ Begin.ports = ports
  BY BeginType
<1>3. Wire(e) = {d \in e.msg.att : d.referring # NoAddr} /\ Wire(e) \in SUBSET Moved
  BY <1>1, CarriedType DEF Wire
<1>4. here \in SUBSET Addr
  <2>1. \A d \in e.msg.att : d.name \in PortName
    BY <1>1 DEF Message, FiniteSubset, Descriptor, Moved, Staying
  <2>2. QED
    BY <1>1, <2>1, AddrParts
<1>5. m \in Message
  BY <1>1, LocalMessage DEF Local
<1>6. st \in HandlerState
  BY <1>1, <1>2, <1>3, AcceptPortsType
<1>7. \/ Commit(unknown, Without(e), orphans)
      \/ a \in DOMAIN st.ports /\ Commit(accepted, Without(e), orphans)
      \/ Commit(rejected, Without(e), orphans)
  BY <1>3 DEF OnUserMessage, Local
<1>8. held' = held
  BY DEF OnUserMessage
<1>9. /\ E \subseteq DOMAIN net /\ e \notin E /\ E \in SUBSET Event /\ e \in DOMAIN net
      /\ held \in SUBSET Addr /\ Begin.out = {} /\ Begin.lastName = lastName
  BY <1>1, WithoutSound, BeginSound
<1> DEFINE ev == E \cup {e}
<1>10. Sound(Begin.ports, ev, Begin.lastName, held)
  <2>1. ev \subseteq DOMAIN net
    BY <1>9
  <2> HIDE DEF ev
  <2>2. HandlerSound(Begin, ev, held)
    BY <2>1, BeginSound
  <2>3. ev \cup Begin.out = ev
    BY <1>9
  <2>4. QED
    BY <2>2, <2>3 DEF HandlerSound
<1> HIDE DEF E
<1>11. HandlerSound(st, E, held)
  BY <1>1, <1>2, <1>9, <1>10, AcceptSound
<1>12. Loose(st.ports, E \cup st.out, st.lastName, held, {m})
  <2> DEFINE fv == E \cup st.out
  <2>1. /\ Accepts(Begin.ports, st.ports, n, Wire(e)) /\ st.lastName = Begin.lastName
        /\ \A f \in st.out : ~Carrier(f)
    BY <1>1, <1>2, <1>3, <1>9, AcceptPortsAccepts
  <2> HIDE DEF st
  <2>2. /\ Begin.ports \in PortMap /\ st.ports \in PortMap /\ st.lastName \in Nat
        /\ ev \in SUBSET Event /\ fv \in SUBSET Event /\ e \in ev
    BY <1>1, <1>2, <1>6, <1>9, HandlerParts
  <2>3. Arrives(e, ev, fv) /\ IsMessage(e)
    BY <1>1, <1>9, <2>1 DEF Arrives
  <2>4. Sound(Begin.ports, ev, st.lastName, held)
    BY <1>10, <2>1
  <2> HIDE DEF ev, fv, n
  <2>5. Loose(st.ports, fv, st.lastName, held, {Local(e.msg)})
    BY <2>1, <2>2, <2>3, <2>4, ArrivedLoose
  <2>6. QED
    BY <2>5 DEF fv
<1> HIDE DEF st, here, m
<1>13. unknown \in HandlerState /\ rejected \in HandlerState
  BY <1>4, <1>6 DEF HandlerState, Oops
<1>14. HandlerSound(unknown, E, held) /\ HandlerSound(rejected, E, held)
  <2>1. /\ unknown.ports = st.ports /\ unknown.out = st.out /\ unknown.lastName = st.lastName
        /\ rejected.ports = st.ports /\ rejected.out = st.out
        /\ rejected.lastName = st.lastName
    BY <1>6 DEF HandlerState
  <2> HIDE DEF unknown, rejected
  <2>2. QED
    BY <1>11, <2>1 DEF HandlerSound
<1>15. ASSUME a \in DOMAIN st.ports
       PROVE  accepted \in HandlerState /\ HandlerSound(accepted, E, held)
  <2>1. queued \in HandlerState /\ DOMAIN queued.ports = DOMAIN st.ports
    BY <1>5, <1>6, <1>15, QueuedType
  <2>2. HandlerSound(queued, E, held)
    BY <1>5, <1>6, <1>11, <1>12, <1>15, QueueSound
  <2> HIDE DEF queued
  <2>3. r \in Port
    BY <1>15, <2>1, PortOfState
  <2>4. /\ forwarded \in HandlerState /\ a \in DOMAIN forwarded.ports
        /\ r.state = "proxying" => HandlerSound(forwarded, E, held)
    BY <1>9, <1>15, <2>1, <2>2, ForwardFromProxyType, ForwardSound
  <2> HIDE DEF forwarded
  <2>5. /\ TryRemoveProxy(forwarded, a) \in HandlerState
        /\ Calm(forwarded, TryRemoveProxy(forwarded, a))
    BY <2>4, TryRemoveProxyType, CalmRemoval
  <2>6. r.state = "proxying" => HandlerSound(TryRemoveProxy(forwarded, a), E, held)
    BY <1>9, <2>4, <2>5, CalmSound
  <2>7. told \in SUBSET Addr
    BY <1>1
  <2> HIDE DEF told, r
  <2> DEFINE ready == [queued EXCEPT !.changed = told]
  <2>8. /\ ready \in HandlerState /\ ready.ports = queued.ports /\ ready.out = queued.out
        /\ ready.lastName = queued.lastName
    BY <2>1, <2>7 DEF HandlerState
  <2>9. r.state \in {"receiving", "buffering", "proxying"}
    BY <2>3 DEF Port, State
  <2>10. \/ r.state = "proxying" /\ accepted = TryRemoveProxy(forwarded, a)
         \/ r.state = "proxying" /\ accepted = forwarded
         \/ accepted = queued
         \/ accepted = ready
    BY <2>9
  <2> HIDE DEF accepted, ready
  <2>11. HandlerSound(ready, E, held)
    BY <2>2, <2>8 DEF HandlerSound
  <2>12. QED
    BY <2>1, <2>2, <2>4, <2>5, <2>6, <2>8, <2>10, <2>11
<1> HIDE DEF unknown, rejected, accepted
<1>16. PICK s \in HandlerState : HandlerSound(s, E, held) /\ Commit(s, Without(e), orphans)
  BY <1>7, <1>13, <1>14, <1>15
<1>17. QED
  BY <1>8, <1>16, HandlerEndSound DEF E

\* The buffering port starts to forward.
LEMMA OnPortAcceptedUnique ==
  ASSUME TypeOK, UniqueInv, NEW e \in BagToSet(net), OnPortAccepted(e)
  PROVE  UniqueInv'
<1> DEFINE st == IF e.to \in DOMAIN ports THEN BeginProxying(Begin, e.to)
                 ELSE Begin
           E == DOMAIN Without(e)
<1>1. Begin \in HandlerState /\ Begin.ports = ports
  BY BeginType
<1>2. HandlerSound(Begin, E, held) /\ E \in SUBSET Event /\ held \in SUBSET Addr
  BY WithoutSound, BeginSound
<1> HIDE DEF E
<1>3. st \in HandlerState /\ HandlerSound(st, E, held)
  BY <1>1, <1>2, BeginProxyingType, BeginProxyingSound
<1>4. Commit(st, Without(e), orphans) /\ held' = held
  BY DEF OnPortAccepted
<1> HIDE DEF st
<1>5. QED
  BY <1>3, <1>4, HandlerEndSound DEF E

\* A handler whose operations are calm.
LEMMA CalmHandler ==
  ASSUME TypeOK, UniqueInv, NEW e \in BagToSet(net), NEW st \in HandlerState,
         Calm(Begin, st), Commit(st, Without(e), orphans), held' = held
  PROVE  UniqueInv'
<1> DEFINE E == DOMAIN Without(e)
<1>1. HandlerSound(Begin, E, held) /\ E \in SUBSET Event /\ Begin \in HandlerState
  BY WithoutSound, BeginSound, BeginType
<1> HIDE DEF E
<1>2. HandlerSound(st, E, held)
  BY <1>1, CalmSound
<1>3. QED
  BY <1>2, HandlerEndSound DEF E

\* Handlers that move nothing.
LEMMA CalmHandlersUnique ==
  ASSUME TypeOK, UniqueInv, NEW e \in BagToSet(net),
         OnObserveProxy(e) \/ OnObserveProxyAck(e) \/ OnObserveClosure(e) \/ OnProxyDied(e)
  PROVE  UniqueInv'
<1> DEFINE a == e.to
<1>1. Begin \in HandlerState /\ Begin.ports = ports /\ Calm(Begin, Begin)
  BY BeginType, CalmOrder
<1>2. CASE OnObserveProxy(e)
  <2> DEFINE pass == {ObserveProxy(a[1], ports[a].peer, e.proxy, e.target)}
             passing == [Begin EXCEPT !.out = pass]
  <2>1. /\ e.to \in Addr /\ a[1] \in Node /\ e.proxy \in Addr /\ e.target \in Addr
        /\ held' = held
    BY <1>2, WithoutType, EventParts DEF OnObserveProxy
  <2>2. \/ Commit(Begin, Without(e), orphans)
        \/ a \in DOMAIN ports /\ Commit(passing, Without(e), orphans)
        \/ a \in DOMAIN ports /\ Commit(Bypass(Begin, a, e), Without(e), orphans)
        \/ a \in DOMAIN ports /\ Commit(StashAck(Begin, a, e), Without(e), orphans)
    <3>1. CASE a \notin DOMAIN ports
      BY <1>2, <3>1 DEF OnObserveProxy
    <3>2. CASE a \in DOMAIN ports /\ ports[a].peer # e.proxy
      BY <1>2, <3>2 DEF OnObserveProxy
    <3>3. CASE a \in DOMAIN ports /\ ports[a].peer = e.proxy
      BY <1>2, <3>3 DEF OnObserveProxy
    <3>4. QED
      BY <3>1, <3>2, <3>3
  <2>3. ASSUME a \in DOMAIN ports
        PROVE  passing \in HandlerState /\ Calm(Begin, passing)
    <3>1. pass \in SUBSET Event
      BY <2>1, <2>3, PortType, EventTypes
    <3>2. \A f \in pass : ~Carrier(f)
      BY Empty
    <3> HIDE DEF pass
    <3>3. /\ passing \in HandlerState /\ passing.ports = Begin.ports
          /\ passing.lastName = Begin.lastName /\ passing.out = pass
      BY <1>1, <3>1 DEF HandlerState
    <3> HIDE DEF passing
    <3>4. QED
      BY <1>1, <3>2, <3>3, CalmSend
  <2>4. ASSUME a \in DOMAIN ports
        PROVE  /\ Bypass(Begin, a, e) \in HandlerState /\ Calm(Begin, Bypass(Begin, a, e))
               /\ StashAck(Begin, a, e) \in HandlerState
               /\ Calm(Begin, StashAck(Begin, a, e))
    BY <1>1, <2>1, <2>4, ObserveProxyType, CalmObserve
  <2> HIDE DEF passing
  <2>5. PICK s \in HandlerState : Calm(Begin, s) /\ Commit(s, Without(e), orphans)
    BY <1>1, <2>2, <2>3, <2>4
  <2>6. QED
    BY <2>1, <2>5, CalmHandler
<1>3. CASE OnObserveProxyAck(e)
  <2> DEFINE port == [ports[a] EXCEPT !.removeOnLast = TRUE, !.lastRecv = e.last]
             flagged == [Begin EXCEPT !.ports[a].removeOnLast = TRUE,
                                      !.ports[a].lastRecv = e.last]
             wrong == [Begin EXCEPT !.oops = @ \cup {"ack state"}]
  <2>1. e.last \in Int /\ held' = held
    BY <1>3, WithoutType, EventParts DEF OnObserveProxyAck
  <2>2. \/ Commit(Begin, Without(e), orphans)
        \/ Commit(wrong, Without(e), orphans)
        \/ a \in DOMAIN ports
             /\ Commit(InitiateProxyRemoval(Begin, a), Without(e), orphans)
        \/ a \in DOMAIN ports
             /\ Commit(TryRemoveProxy(flagged, a), Without(e), orphans)
    BY <1>3 DEF OnObserveProxyAck
  <2>3. wrong \in HandlerState /\ Calm(Begin, wrong)
    <3>1. /\ wrong \in HandlerState /\ wrong.ports = Begin.ports
          /\ wrong.lastName = Begin.lastName /\ wrong.out = Begin.out
      BY <1>1 DEF HandlerState, Oops
    <3> HIDE DEF wrong
    <3>2. QED
      BY <1>1, <3>1, CalmSend
  <2>4. ASSUME a \in DOMAIN ports
        PROVE  /\ InitiateProxyRemoval(Begin, a) \in HandlerState
               /\ Calm(Begin, InitiateProxyRemoval(Begin, a))
    BY <1>1, <2>4, InitiateProxyRemovalType, CalmRemoval
  <2>5. ASSUME a \in DOMAIN ports
        PROVE  /\ TryRemoveProxy(flagged, a) \in HandlerState
               /\ Calm(Begin, TryRemoveProxy(flagged, a))
    <3>1. ports[a] \in Port
      BY <2>5, PortType
    <3>2. port \in Port
      BY <2>1, <3>1 DEF Port
    <3>3. Later(ports[a], port) /\ port.queue = ports[a].queue
      BY <3>1, PortFields DEF Later, Port
    <3>4. /\ flagged = [Begin EXCEPT !.ports[a] = port]
          /\ flagged.ports = [Begin.ports EXCEPT ![a] = port]
          /\ flagged.lastName = Begin.lastName /\ flagged.out = Begin.out
      BY <1>1, <2>5 DEF HandlerState
    <3> HIDE DEF port
    <3>5. [Begin EXCEPT !.ports[a] = port] \in HandlerState
      BY <1>1, <2>5, <3>2, SetPort
    <3>6. flagged \in HandlerState
      BY <3>4, <3>5, Zenon
    <3> HIDE DEF flagged
    <3>7. Calm(Begin, flagged)
      BY <1>1, <2>5, <3>2, <3>3, <3>4, CalmReplace
    <3>8. a \in DOMAIN flagged.ports
      BY <1>1, <2>5, <3>4
    <3>9. /\ TryRemoveProxy(flagged, a) \in HandlerState
          /\ Calm(flagged, TryRemoveProxy(flagged, a))
      BY <3>6, <3>8, TryRemoveProxyType, CalmRemoval
    <3>10. QED
      BY <1>1, <3>6, <3>7, <3>9, CalmOrder
  <2> HIDE DEF flagged, wrong
  <2>6. PICK s \in HandlerState : Calm(Begin, s) /\ Commit(s, Without(e), orphans)
    BY <1>1, <2>2, <2>3, <2>4, <2>5
  <2>7. QED
    BY <2>1, <2>6, CalmHandler
<1>4. CASE OnObserveClosure(e)
  <2> DEFINE observed == ObservedClosure(Begin, a, e.last)
  <2>1. e.last \in Int /\ held' = held
    BY <1>4, WithoutType, EventParts DEF OnObserveClosure
  <2>2. \/ Commit(Begin, Without(e), orphans)
        \/ a \in DOMAIN ports /\ Commit(observed, Without(e), orphans)
        \/ a \in DOMAIN ports
             /\ Commit(TryRemoveProxy(observed, a), Without(e), orphans)
    <3>1. CASE a \notin DOMAIN ports
      BY <1>4, <3>1 DEF OnObserveClosure
    <3>2. CASE a \in DOMAIN ports
      BY <1>4, <3>2 DEF OnObserveClosure
    <3>3. QED
      BY <3>1, <3>2
  <2>3. ASSUME a \in DOMAIN ports
        PROVE  /\ observed \in HandlerState /\ a \in DOMAIN observed.ports
               /\ Calm(Begin, observed)
    BY <1>1, <2>1, <2>3, ObservedClosureType, CalmClosure
  <2> HIDE DEF observed
  <2>4. ASSUME a \in DOMAIN ports
        PROVE  /\ TryRemoveProxy(observed, a) \in HandlerState
               /\ Calm(Begin, TryRemoveProxy(observed, a))
    <3>1. /\ TryRemoveProxy(observed, a) \in HandlerState
          /\ Calm(observed, TryRemoveProxy(observed, a))
      BY <2>3, <2>4, TryRemoveProxyType, CalmRemoval
    <3>2. QED
      BY <1>1, <2>3, <2>4, <3>1, CalmOrder
  <2>5. PICK s \in HandlerState : Calm(Begin, s) /\ Commit(s, Without(e), orphans)
    BY <1>1, <2>2, <2>3, <2>4
  <2>6. QED
    BY <2>1, <2>5, CalmHandler
<1>5. CASE OnProxyDied(e)
  <2> DEFINE n == e.to[1]
             S == {b \in DOMAIN ports : b[1] = n /\ ports[b].peer = e.proxy}
             st == DestroyAllPortsWithPeer(Begin, n, S)
  <2>1. Commit(st, Without(e), orphans) /\ held' = held
    BY <1>5 DEF OnProxyDied
  <2>2. n \in Node
    BY WithoutType, EventParts
  <2> HIDE DEF S, n
  <2>3. st \in HandlerState /\ Calm(Begin, st)
    BY <1>1, <2>2, DestroyType, CalmDestroy
  <2> HIDE DEF st
  <2>4. QED
    BY <2>1, <2>3, CalmHandler
<1>6. QED
  BY <1>2, <1>3, <1>4, <1>5

\* A port is made and merged with one that was kept for it.
LEMMA OnMergePortUnique ==
  ASSUME TypeOK, UniqueInv, NEW e \in BagToSet(net), OnMergePort(e)
  PROVE  UniqueInv'
<1> DEFINE n == e.to[1]
           b == <<n, e.new.name>>
           st == AcceptPorts(Begin, n, {e.new})
           merged == MergePortsInternal(st, e.to, b, FALSE)
           found == e.to \in DOMAIN ports
           E == DOMAIN Without(e)
<1>1. /\ n \in Node /\ e.new \in Moved /\ {e.new} \in SUBSET Moved /\ e \in Event
      /\ held' = held
  BY WithoutType, EventParts DEF OnMergePort
<1>2. Begin \in HandlerState /\ Begin.ports = ports
  BY BeginType
<1>3. /\ st \in HandlerState
      /\ DOMAIN st.ports = DOMAIN ports \cup {b}
      /\ st.ok <=> b \notin DOMAIN ports
  <2>1. /\ st \in HandlerState
        /\ DOMAIN st.ports = DOMAIN ports \cup {<<n, d.name>> : d \in {e.new}}
        /\ st.ok <=> \A d \in {e.new} : <<n, d.name>> \notin DOMAIN ports
    BY <1>1, <1>2, AcceptPortsType
  <2> HIDE DEF st
  <2>2. QED
    BY <2>1
<1>4. \/ st.ok /\ found /\ Commit(merged, Without(e), orphans)
      \/ Commit(Close(st, b), Without(e), orphans)
      \/ found /\ Commit(Close(Begin, e.to), Without(e), orphans)
      \/ Commit(Begin, Without(e), orphans)
  <2> HIDE DEF st, merged
  <2>1. /\ st.ok /\ found => Commit(merged, Without(e), orphans)
        /\ st.ok /\ ~found => Commit(Close(st, b), Without(e), orphans)
        /\ ~st.ok /\ found => Commit(Close(Begin, e.to), Without(e), orphans)
        /\ ~st.ok /\ ~found => Commit(Begin, Without(e), orphans)
    BY DEF OnMergePort, st, merged
  <2>2. QED
    BY <2>1
<1>5. Carrier(e) /\ Wire(e) = {e.new}
  BY DEF OnMergePort, Carrier, IsMerge, IsMessage, Wire
<1>6. /\ E \subseteq DOMAIN net /\ e \notin E /\ E \in SUBSET Event /\ e \in DOMAIN net
      /\ held \in SUBSET Addr /\ Begin.out = {} /\ HandlerSound(Begin, E, held)
  BY <1>5, WithoutSound, BeginSound
<1>7. HandlerSound(st, E, held)
  <2> DEFINE ev == E \cup {e}
  <2>1. ev \subseteq DOMAIN net
    BY <1>6
  <2> HIDE DEF ev
  <2>2. HandlerSound(Begin, ev, held)
    BY <2>1, BeginSound
  <2>3. ev \cup Begin.out = ev
    BY <1>6
  <2>4. Sound(Begin.ports, ev, Begin.lastName, held)
    BY <2>2, <2>3 DEF HandlerSound
  <2> HIDE DEF E, n
  <2>5. HandlerSound(AcceptPorts(Begin, n, Wire(e)), E, held)
    BY <1>1, <1>2, <1>5, <1>6, <2>4, AcceptSound DEF ev
  <2>6. QED
    BY <1>5, <2>5
<1> HIDE DEF st, E
<1>8. ASSUME st.ok, found
      PROVE  merged \in HandlerState /\ HandlerSound(merged, E, held)
  BY <1>3, <1>6, <1>7, <1>8, MergeType, MergeSound
<1>9. Close(st, b) \in HandlerState /\ HandlerSound(Close(st, b), E, held)
  <2>1. Close(st, b) \in HandlerState /\ Calm(st, Close(st, b))
    BY <1>3, CloseType, CalmRemoval
  <2>2. QED
    BY <1>3, <1>6, <1>7, <2>1, CalmSound
<1>10. ASSUME found
       PROVE  Close(Begin, e.to) \in HandlerState /\ HandlerSound(Close(Begin, e.to), E, held)
  <2>1. Close(Begin, e.to) \in HandlerState /\ Calm(Begin, Close(Begin, e.to))
    BY <1>2, <1>10, CloseType, CalmRemoval
  <2>2. QED
    BY <1>2, <1>6, <2>1, CalmSound
<1> HIDE DEF merged, found
<1>11. PICK s \in HandlerState : HandlerSound(s, E, held) /\ Commit(s, Without(e), orphans)
  BY <1>2, <1>4, <1>6, <1>8, <1>9, <1>10
<1>12. QED
  BY <1>1, <1>11, HandlerEndSound DEF E

-----------------------------------------------------------------------------
(***************************************************************************)
(* What the embedder calls.                                                *)
(***************************************************************************)
LEMMA CallEndSound ==
  ASSUME TypeOK, UniqueInv, NEW st \in HandlerState, NEW hd,
         HandlerSound(st, DOMAIN net, hd), NEW closing,
         Commit(st, net, closing), held' \subseteq hd
  PROVE  UniqueInv'
<1>1. DOMAIN net \subseteq Event /\ Single(net)
  BY StateTypes DEF UniqueInv
<1>2. QED
  BY <1>1, CommitSound

\* ClosePort, and the closing of a port found in a message.
LEMMA CloseUnique ==
  ASSUME TypeOK, UniqueInv, NEW a, ClosePort(a) \/ CloseOrphan(a)
  PROVE  UniqueInv'
<1> DEFINE st == IF a \in DOMAIN ports THEN Close(Begin, a) ELSE Begin
           E == DOMAIN net
<1>1. Begin \in HandlerState /\ Begin.ports = ports
  BY BeginType
<1>2. HandlerSound(Begin, E, held) /\ E \in SUBSET Event
  BY BeginSound
<1>3. st \in HandlerState /\ Calm(Begin, st)
  BY <1>1, CloseType, CalmRemoval, CalmOrder
<1>4. held' \subseteq held /\ \E closing : Commit(st, net, closing)
  BY DEF ClosePort, CloseOrphan, Usable, Idle
<1> HIDE DEF st, E
<1>5. HandlerSound(st, E, held)
  BY <1>1, <1>2, <1>3, CalmSound
<1>6. QED
  BY <1>3, <1>4, <1>5, CallEndSound DEF E

\* Two ports of a node are fused.
LEMMA MergeLocalPortsUnique ==
  ASSUME TypeOK, UniqueInv, NEW a, NEW b, MergeLocalPorts(a, b)
  PROVE  UniqueInv'
<1> DEFINE st == MergePortsInternal(Begin, a, b, TRUE)
           E == DOMAIN net
<1>1. Begin \in HandlerState /\ Begin.ports = ports
  BY BeginType
<1>2. a \in DOMAIN ports /\ b \in DOMAIN ports /\ a # b
  BY DEF MergeLocalPorts, Usable
<1>3. HandlerSound(Begin, E, held) /\ E \in SUBSET Event /\ held \in SUBSET Addr
  BY BeginSound
<1>4. Commit(st, net, orphans) /\ held' \subseteq held
  BY DEF MergeLocalPorts
<1> HIDE DEF E
<1>5. st \in HandlerState /\ HandlerSound(st, E, held)
  BY <1>1, <1>2, <1>3, MergeType, MergeSound
<1> HIDE DEF st
<1>6. QED
  BY <1>4, <1>5, CallEndSound DEF E

\* Names that have been drawn stay so.
LEMMA NamesStayDrawn ==
  ASSUME NEW ps \in PortMap, NEW ev \in SUBSET Event, NEW hd \in SUBSET Addr,
         NEW last \in Nat, NEW top \in Nat, last <= top, NamesDrawn(ps, ev, last, hd)
  PROVE  NamesDrawn(ps, ev, top, hd)
<1>1. \A k \in Nat : k <= last => k <= top
  OBVIOUS
<1>2. ASSUME NEW a \in DOMAIN ps
      PROVE  /\ a[2] <= top /\ ps[a].end <= top
             /\ \A m \in ps[a].queue :
                  /\ m.from <= top
                  /\ \A d \in m.att : d.name <= top /\ d.referring = NoAddr
  <2>1. a[2] \in Nat /\ ps[a].end \in Nat /\ ps[a].queue \subseteq Message
    BY Numbers
  <2>2. \A m \in ps[a].queue : m.from \in Nat /\ \A d \in m.att : d.name \in Nat
    BY <2>1, Numbers
  <2>3. QED
    BY <1>1, <2>1, <2>2 DEF NamesDrawn
<1>3. ASSUME NEW e \in ev, Carrier(e)
      PROVE  /\ \A d \in Carried(e) : d.name <= top
             /\ \A d \in Wire(e) : d.end <= top
             /\ IsMessage(e) => e.msg.from <= top
  <2>1. /\ \A d \in Carried(e) : d.name \in Nat
        /\ \A d \in Wire(e) : d.end \in Nat
        /\ IsMessage(e) => e.msg.from \in Nat
    BY <1>3, CarriedType, Numbers
  <2>2. QED
    BY <1>1, <1>3, <2>1 DEF NamesDrawn
<1>4. ASSUME NEW b \in hd
      PROVE  b[2] <= top
  BY <1>1, AddrParts DEF NamesDrawn, PortName
<1>5. QED
  BY <1>2, <1>3, <1>4 DEF NamesDrawn

\* Port a has become a proxy to a port that the MergePort event f will make.
SentToMerge(ps, qs, a, f, last) ==
  /\ IsMerge(f) /\ ~IsMessage(f) /\ f.new \in Moved
  /\ f.new.name = last + 1
  /\ f.new.end = ps[a].end /\ f.new.nextSend = ps[a].nextSend
  /\ ps[a].state = "receiving" /\ qs[a].state # "receiving"
  /\ DOMAIN qs = DOMAIN ps

\* The event takes the seat of the port that has become a proxy.
LEMMA MergeEventSound ==
  ASSUME NEW ps \in PortMap, NEW qs \in PortMap, Shrinks(ps, qs),
         NEW ev \in SUBSET Event, NEW last \in Nat, NEW hd \in SUBSET Addr,
         Sound(ps, ev, last, hd), NEW a \in DOMAIN ps, NEW f,
         SentToMerge(ps, qs, a, f, last)
  PROVE  Sound(qs, ev \cup {f}, last + 1, hd) /\ f \notin ev
<1> DEFINE d == f.new
           top == last + 1
<1>1. top \in Nat /\ last <= top
  OBVIOUS
<1>2. /\ Carrier(f) /\ ~IsMessage(f) /\ Carried(f) = {d} /\ Wire(f) = {d}
      /\ d.name = top /\ d.end = ps[a].end /\ d.nextSend = ps[a].nextSend
      /\ ps[a].state = "receiving" /\ qs[a].state # "receiving"
  BY DEF Carrier, Carried, Wire, SentToMerge
<1>3. Sound(qs, ev, last, hd)
  <2>1. hd \subseteq hd /\ \A e \in ev : Carrier(e) => e \in ev
    OBVIOUS
  <2>2. QED
    BY <2>1, ShrinkSound
<1>4. NamesDrawn(qs, ev, top, hd)
  <2> HIDE DEF top
  <2>1. QED
    BY <1>1, <1>3, NamesStayDrawn DEF Sound
<1>5. /\ \A b \in DOMAIN qs : /\ b[2] # d.name
                              /\ \A m \in qs[b].queue : \A c \in m.att : c.name # d.name
      /\ \A e \in ev : Carrier(e) => \A c \in Carried(e) : c.name # d.name
      /\ \A b \in hd : b[2] # d.name
  <2>1. ~(d.name <= last)
    BY <1>2
  <2>2. QED
    BY <1>3, <2>1 DEF Sound, NamesDrawn
<1>6. f \notin ev
  BY <1>2, <1>5
<1>7. \A b \in DOMAIN qs : qs[b].state = "receiving" => qs[b].end # d.end
  <2>1. ASSUME NEW b \in DOMAIN qs, qs[b].state = "receiving", qs[b].end = d.end
        PROVE  FALSE
    <3>1. b \in DOMAIN ps /\ ps[b].state = "receiving" /\ ps[b].end = ps[a].end
      BY <1>2, <2>1, ShrinkFacts
    <3>2. b = a
      BY <1>2, <3>1 DEF Sound, OneSeat
    <3>3. QED
      BY <1>2, <2>1, <3>2
  <2>2. QED
    BY <2>1
<1>8. \A e \in ev : Carrier(e) => \A c \in Wire(e) : c.end # d.end
  BY <1>2 DEF Sound, OneSeat
<1>9. ps[a].end <= last /\ ps[a].end \in Nat /\ ps[a].end <= top
  <2>1. ps[a].end <= last /\ ps[a].end \in Nat
    BY Numbers DEF Sound, NamesDrawn
  <2>2. QED
    BY <2>1
<1>10. d.name <= top
  BY <1>2
<1> HIDE DEF d, top
<1>11. NamesDrawn(qs, ev \cup {f}, top, hd)
  BY <1>2, <1>4, <1>9, <1>10 DEF NamesDrawn
<1>12. OnePlace(qs, ev \cup {f}, hd)
  BY <1>2, <1>3, <1>5 DEF Sound, OnePlace
<1>13. OneSeat(qs, ev \cup {f})
  BY <1>2, <1>3, <1>7, <1>8 DEF Sound, OneSeat
<1>14. OneCopy(qs, ev \cup {f})
  BY <1>2, <1>3 DEF Sound, OneCopy
<1>15. NumbersUsed(qs, ev \cup {f})
  <2>1. ASSUME NEW m, NumberUsed(qs, ev, m), NumberUsed(ps, ev, m)
        PROVE  NumberUsed(qs, ev \cup {f}, m)
    BY <1>2, <2>1 DEF NumberUsed
  <2>2. ASSUME NEW b \in DOMAIN qs, NEW m \in qs[b].queue
        PROVE  NumberUsed(qs, ev, m) /\ NumberUsed(ps, ev, m)
    <3>1. b \in DOMAIN ps /\ m \in ps[b].queue
      BY ShrinkFacts
    <3>2. QED
      BY <1>3, <3>1 DEF Sound, NumbersUsed
  <2>3. \A e \in ev : IsMessage(e) => NumberUsed(qs, ev, e.msg) /\ NumberUsed(ps, ev, e.msg)
    BY <1>3 DEF Sound, NumbersUsed
  <2>4. QED
    BY <1>2, <2>1, <2>2, <2>3 DEF NumbersUsed
<1>16. Sound(qs, ev \cup {f}, top, hd)
  BY <1>11, <1>12, <1>13, <1>14, <1>15 DEF Sound
<1>17. QED
  BY <1>6, <1>16 DEF top

\* Node::MergePorts sends the port to where the other one is.
LEMMA MergePortsUnique ==
  ASSUME TypeOK, UniqueInv, NEW a, NEW b \in Addr, MergePorts(a, b)
  PROVE  UniqueInv'
<1> DEFINE r == ports[a]
           to == <<b[1], lastName + 1>>
           port == ConvertToProxy(r, to)
           d == DescriptorOf(a, r, to[2])
           f == MergePort(a[1], b, d)
           told == {c \in DOMAIN ports : c = r.peer /\ c[1] = a[1] /\ b[1] # a[1]}
           st == [Begin EXCEPT !.ports[a] = port, !.lastName = @ + 1,
                               !.changed = told, !.out = {f}]
           ps == [ports EXCEPT ![a] = port]
           E == DOMAIN net
<1>1. Begin \in HandlerState /\ Begin.ports = ports /\ Begin.lastName = lastName
  BY BeginType DEF Begin
<1>2. a \in DOMAIN ports /\ r.state = "receiving"
  BY DEF MergePorts, Idle
<1>3. lastName + 1 \in PortName /\ lastName + 1 \in Nat /\ lastName \in Nat
  BY DEF TypeOK, PortName
<1>4. to \in Addr /\ r \in Port /\ a \in Addr /\ a[1] \in Node /\ to[2] = lastName + 1
  BY <1>2, <1>3, AddrParts, PortType
<1>5. /\ port \in Port /\ Later(r, port) /\ port.state = "buffering"
      /\ port.queue = r.queue
  <2>1. port \in Port /\ Later(r, port)
    BY <1>2, <1>4, ConvertToProxyType, ConvertLater
  <2>2. port.state = "buffering" /\ port.queue = r.queue
    BY <1>4 DEF ConvertToProxy, Port
  <2>3. QED
    BY <2>1, <2>2
<1>6. /\ d \in Moved /\ f \in Event
      /\ d.name = lastName + 1 /\ d.end = r.end /\ d.nextSend = r.nextSend
  <2>1. d \in Moved
    BY <1>3, <1>4, DescriptorOfType
  <2>2. d.name = lastName + 1 /\ d.end = r.end /\ d.nextSend = r.nextSend
    BY <1>4 DEF DescriptorOf
  <2>3. QED
    BY <1>4, <2>1, <2>2, EventTypes
<1>7. IsMerge(f) /\ ~IsMessage(f) /\ f.new = d
  BY DEF MergePort, IsMerge, IsMessage
<1>8. told \in SUBSET Addr
  BY DEF TypeOK
<1> HIDE DEF port, told, d, f
<1>9. ps \in PortMap
  BY <1>1, <1>2, <1>5, SetPort
<1>10. st = [Begin EXCEPT !.ports = ps, !.lastName = lastName + 1,
                          !.changed = told, !.out = {f}]
  BY <1>1 DEF Begin
<1>11. /\ DOMAIN ps = DOMAIN ports /\ ps[a] = port
       /\ \A c \in DOMAIN ports : c # a => ps[c] = ports[c]
  BY <1>2
<1>12. Evolves(ports, ps)
  BY <1>1, <1>2, <1>5, ReplaceEvolves
<1>13. Shrinks(ports, ps)
  BY <1>5, <1>11, <1>12 DEF Shrinks
<1> HIDE DEF ps
<1>14. /\ st \in HandlerState /\ st.ports = ps /\ st.out = {f} /\ st.lastName = lastName + 1
  BY <1>1, <1>3, <1>6, <1>8, <1>9, <1>10 DEF HandlerState
<1>15. Commit(st, net, orphans) /\ held' = held
  BY DEF MergePorts, port, told, d, f
<1> HIDE DEF st
<1>16. SentToMerge(ports, ps, a, f, lastName)
  BY <1>2, <1>5, <1>6, <1>7, <1>11 DEF SentToMerge
<1>17. /\ ports \in PortMap /\ E \in SUBSET Event /\ held \in SUBSET Addr
       /\ Sound(ports, E, lastName, held)
  BY StateTypes DEF UniqueInv
<1> HIDE DEF E, r
<1>18. Sound(ps, E \cup {f}, lastName + 1, held) /\ f \notin E
  BY <1>2, <1>3, <1>9, <1>13, <1>16, <1>17, MergeEventSound
<1>19. HandlerSound(st, E, held)
  BY <1>14, <1>18 DEF HandlerSound
<1>20. QED
  BY <1>14, <1>15, <1>19, CallEndSound DEF E

\* New ports, with new names that are their ends too.
Creates(ps, qs, new, last, top) ==
  /\ \A b \in DOMAIN ps : b \in DOMAIN qs /\ qs[b] = ps[b]
  /\ \A b \in DOMAIN qs : b \notin DOMAIN ps =>
       b \in new /\ qs[b].queue = {} /\ qs[b].end = b[2]
  /\ \A b \in new : b \in Addr /\ ~(b[2] <= last) /\ b[2] <= top
  /\ \A b, c \in new : b[2] = c[2] => b = c

\* New ports, and handles to some of them.
LEMMA CreatedSound ==
  ASSUME NEW ps \in PortMap, NEW qs \in PortMap, NEW ev \in SUBSET Event,
         NEW last \in Nat, NEW top \in Nat, last <= top, NEW hd \in SUBSET Addr,
         Sound(ps, ev, last, hd), NEW new, Creates(ps, qs, new, last, top),
         NEW gd, gd \subseteq new
  PROVE  Sound(qs, ev, top, hd \cup gd)
<1>1. NamesDrawn(ps, ev, top, hd)
  BY NamesStayDrawn DEF Sound
<1>2. \A b \in DOMAIN ps : b \in DOMAIN qs /\ qs[b] = ps[b]
  BY DEF Creates
<1>3. \A b \in DOMAIN qs : b \notin DOMAIN ps =>
        b \in new /\ qs[b].queue = {} /\ qs[b].end = b[2]
  BY DEF Creates
<1>4. \A b \in new : ~(b[2] <= last) /\ b[2] <= top
  BY DEF Creates
<1>5. \A a \in DOMAIN qs : \A m \in qs[a].queue : a \in DOMAIN ps /\ m \in ps[a].queue
  BY <1>2, <1>3
<1>6. NamesDrawn(qs, ev, top, hd \cup gd)
  BY <1>1, <1>2, <1>3, <1>4, <1>5 DEF NamesDrawn
<1>7. OnePlace(qs, ev, hd \cup gd)
  <2>1. ASSUME NEW a \in DOMAIN qs, NEW b \in DOMAIN qs, a[2] = b[2]
        PROVE  a = b
    <3>1. CASE a \in DOMAIN ps /\ b \in DOMAIN ps
      BY <2>1, <3>1 DEF Sound, OnePlace
    <3>2. CASE a \in DOMAIN ps /\ b \notin DOMAIN ps
      BY <1>3, <1>4, <2>1, <3>2 DEF Sound, NamesDrawn
    <3>3. CASE a \notin DOMAIN ps /\ b \in DOMAIN ps
      BY <1>3, <1>4, <2>1, <3>3 DEF Sound, NamesDrawn
    <3>4. CASE a \notin DOMAIN ps /\ b \notin DOMAIN ps
      BY <1>3, <2>1, <3>4 DEF Creates
    <3>5. QED
      BY <3>1, <3>2, <3>3, <3>4
  <2>2. ASSUME NEW a \in hd \cup gd, NEW b \in hd \cup gd, a[2] = b[2]
        PROVE  a = b
    <3>1. CASE a \in hd /\ b \in hd
      BY <2>2, <3>1 DEF Sound, OnePlace
    <3>2. CASE a \in hd /\ b \in gd
      BY <1>4, <2>2, <3>2 DEF Sound, NamesDrawn
    <3>3. CASE a \in gd /\ b \in hd
      BY <1>4, <2>2, <3>3 DEF Sound, NamesDrawn
    <3>4. CASE a \in gd /\ b \in gd
      BY <2>2, <3>4 DEF Creates
    <3>5. QED
      BY <3>1, <3>2, <3>3, <3>4
  <2>3. \A a, b \in DOMAIN qs : \A m \in qs[a].queue, x \in qs[b].queue :
          \A d \in m.att, c \in x.att : d.name = c.name => a = b /\ m = x
    BY <1>5 DEF Sound, OnePlace
  <2>4. \A e, f \in ev : Carrier(e) /\ Carrier(f) =>
          \A d \in Carried(e), c \in Carried(f) : d.name = c.name => e = f
    BY DEF Sound, OnePlace
  <2>5. ASSUME NEW e \in ev, Carrier(e), NEW d \in Carried(e)
        PROVE  /\ \A a \in DOMAIN qs : \A m \in qs[a].queue : \A c \in m.att : c.name # d.name
               /\ \A b \in hd \cup gd : b[2] # d.name
               /\ d \in Wire(e) => \A a \in DOMAIN qs : a[2] # d.name
    <3>1. d.name <= last
      BY <2>5 DEF Sound, NamesDrawn
    <3>2. \A b \in new : b[2] # d.name
      BY <1>4, <3>1
    <3>3. QED
      BY <1>3, <1>5, <2>5, <3>2 DEF Sound, OnePlace
  <2>6. ASSUME NEW a \in DOMAIN qs, NEW m \in qs[a].queue, NEW d \in m.att, NEW b \in hd \cup gd
        PROVE  b[2] # d.name
    <3>1. a \in DOMAIN ps /\ m \in ps[a].queue
      BY <1>5
    <3>2. d.name <= last
      BY <3>1 DEF Sound, NamesDrawn
    <3>3. QED
      BY <1>4, <3>1, <3>2 DEF Sound, OnePlace
  <2>7. QED
    BY <2>1, <2>2, <2>3, <2>4, <2>5, <2>6 DEF OnePlace
<1>8. OneSeat(qs, ev)
  <2>1. ASSUME NEW a \in DOMAIN qs, NEW b \in DOMAIN qs, qs[a].state = "receiving",
               qs[b].state = "receiving", qs[a].end = qs[b].end
        PROVE  a = b
    <3>1. CASE a \in DOMAIN ps /\ b \in DOMAIN ps
      BY <1>2, <2>1, <3>1 DEF Sound, OneSeat
    <3>2. CASE a \in DOMAIN ps /\ b \notin DOMAIN ps
      BY <1>2, <1>3, <1>4, <2>1, <3>2 DEF Sound, NamesDrawn
    <3>3. CASE a \notin DOMAIN ps /\ b \in DOMAIN ps
      BY <1>2, <1>3, <1>4, <2>1, <3>3 DEF Sound, NamesDrawn
    <3>4. CASE a \notin DOMAIN ps /\ b \notin DOMAIN ps
      BY <1>3, <2>1, <3>4 DEF Creates
    <3>5. QED
      BY <3>1, <3>2, <3>3, <3>4
  <2>2. ASSUME NEW e \in ev, Carrier(e), NEW d \in Wire(e), NEW a \in DOMAIN qs,
               qs[a].state = "receiving"
        PROVE  qs[a].end # d.end
    <3>1. CASE a \in DOMAIN ps
      BY <1>2, <2>2, <3>1 DEF Sound, OneSeat
    <3>2. CASE a \notin DOMAIN ps
      BY <1>3, <1>4, <2>2, <3>2 DEF Sound, NamesDrawn
    <3>3. QED
      BY <3>1, <3>2
  <2>3. QED
    BY <2>1, <2>2 DEF Sound, OneSeat
<1>9. OneCopy(qs, ev)
  BY <1>5 DEF Sound, OneCopy
<1>10. NumbersUsed(qs, ev)
  <2>1. ASSUME NEW m, NumberUsed(ps, ev, m), m.from <= last
        PROVE  NumberUsed(qs, ev, m)
    BY <1>2, <1>3, <1>4, <2>1 DEF NumberUsed
  <2>2. QED
    BY <1>5, <2>1 DEF Sound, NumbersUsed, NamesDrawn, Carrier
<1>11. QED
  BY <1>6, <1>7, <1>8, <1>9, <1>10 DEF Sound

\* Node::CreatePortPair.
LEMMA CreatePortPairUnique ==
  ASSUME TypeOK, UniqueInv, NEW n \in Node, CreatePortPair(n)
  PROVE  UniqueInv'
<1> DEFINE p == lastName + 1
           q == lastName + 2
           Other(x) == IF x = p THEN q ELSE p
           new == {<<n, p>>, <<n, q>>}
           f == [b \in new |-> NewPort(<<n, Other(b[2])>>, b[2])]
           E == DOMAIN net
<1>1. p \in PortName /\ q \in PortName /\ q \in Nat /\ lastName \in Nat /\ lastName <= q
  BY DEF TypeOK, PortName
<1>2. \A b \in new : b \in Addr /\ ~(b[2] <= lastName) /\ b[2] <= q
  BY <1>1, AddrParts DEF PortName
<1>3. \A b, c \in new : b[2] = c[2] => b = c
  OBVIOUS
<1>4. ports' = Extend(ports, f) /\ net' = net /\ lastName' = q /\ held' = held \cup new
  BY DEF CreatePortPair
<1>5. DOMAIN f = new /\ \A b \in new : f[b].queue = {} /\ f[b].end = b[2]
  BY DEF NewPort
<1>6. TypeOK'
  BY CreatePortPairStep
<1>7. ports' \in PortMap
  BY <1>6, PortMapCharacterised DEF TypeOK
<1>8. /\ ports \in PortMap /\ E \in SUBSET Event /\ held \in SUBSET Addr
      /\ Sound(ports, E, lastName, held)
  BY StateTypes DEF UniqueInv
<1> HIDE DEF f, new, q
<1>9. Creates(ports, ports', new, lastName, q)
  BY <1>2, <1>3, <1>4, <1>5 DEF Creates, Extend
<1> HIDE DEF E
<1>10. Sound(ports', E, q, held \cup new)
  BY <1>1, <1>7, <1>8, <1>9, CreatedSound
<1>11. Single(net') /\ DOMAIN net' = E
  BY <1>4 DEF UniqueInv, E
<1>12. QED
  BY <1>4, <1>10, <1>11, UniqueInvPrime

\* The embedder gets handles to ports attached to a message it has read.
HandedOver(gd, n, m) == \A b \in gd : \E d \in m.att : b = <<n, d.name>>

\* The handles of a message that is nowhere else go to the embedder.
LEMMA HandOverSound ==
  ASSUME NEW ps, NEW ev, NEW last, NEW hd, Sound(ps, ev, last, hd),
         NEW m, Loose(ps, ev, last, hd, {m}), NEW n, NEW gd, HandedOver(gd, n, m)
  PROVE  Sound(ps, ev, last, hd \cup gd)
<1>1. \A b \in gd : \E d \in m.att : b = <<n, d.name>> /\ b[2] = d.name
  BY DEF HandedOver
<1>2. /\ \A b \in gd :
           /\ b[2] <= last
           /\ \A a \in DOMAIN ps : \A x \in ps[a].queue : \A c \in x.att : c.name # b[2]
           /\ \A e \in ev : Carrier(e) => \A c \in Carried(e) : c.name # b[2]
           /\ \A c \in hd : c[2] # b[2]
      /\ \A b, c \in gd : b[2] = c[2] => b = c
  BY <1>1 DEF Loose
<1>3. NamesDrawn(ps, ev, last, hd \cup gd)
  BY <1>2 DEF Sound, NamesDrawn
<1>4. OnePlace(ps, ev, hd \cup gd)
  BY <1>2 DEF Sound, OnePlace
<1>5. QED
  BY <1>3, <1>4 DEF Sound

\* Node::GetMessage.
LEMMA GetMessageUnique ==
  ASSUME TypeOK, UniqueInv, NEW a \in held, GetMessage(a)
  PROVE  UniqueInv'
<1> DEFINE r == ports[a]
           m == CHOOSE x \in r.queue : x.seq = r.nextRecv
           new == {<<a[1], p>> : p \in Attached({m})}
           port == [r EXCEPT !.queue = @ \ {m}, !.nextRecv = @ + 1]
           taken == [ports EXCEPT ![a] = port]
           gd == new \cap DOMAIN ports
           E == DOMAIN net
<1>1. a \in DOMAIN ports
  BY DEF GetMessage, Usable
<1>2. net' = net /\ lastName' = lastName
  BY DEF GetMessage
<1>3. \/ /\ HasNextMessage(r)
         /\ ports' = SetSignalable(taken, new) /\ held' = held \cup gd
      \/ ports' = ports /\ held' = held
  BY DEF GetMessage
<1>4. CASE ports' = ports /\ held' = held
  BY <1>2, <1>4 DEF UniqueInv
<1>5. CASE HasNextMessage(r) /\ ports' = SetSignalable(taken, new) /\ held' = held \cup gd
  <2>1. m \in r.queue
    BY <1>5 DEF HasNextMessage
  <2>2. HandedOver(gd, a[1], m)
    <3>1. Attached({m}) = {d.name : d \in m.att}
      BY AttachedToOne
    <3> HIDE DEF m
    <3>2. QED
      BY <3>1 DEF HandedOver
  <2>3. r \in Port
    BY <1>1, PortType
  <2> HIDE DEF m, new, gd
  <2>4. port.queue = r.queue \ {m}
    BY <2>3 DEF Port
  <2>5. port \in Port
    <3>1. r.queue \in FiniteSubset(Message) /\ r.nextRecv + 1 \in Nat \ {0}
      BY <1>1, PortType
    <3>2. r.queue \ {m} \in FiniteSubset(Message)
      BY <3>1, SubsetOfFinite
    <3>3. QED
      BY <2>3, <3>1, <3>2 DEF Port
  <2> HIDE DEF port
  <2>6. DOMAIN ports' = DOMAIN ports
    BY <1>5 DEF SetSignalable
  <2>7. ASSUME NEW b \in DOMAIN ports
        PROVE  ports'[b].queue = IF b = a THEN r.queue \ {m} ELSE ports[b].queue
    <3> DEFINE t == taken[b]
    <3>1. ports[b] \in Port
      BY PortType
    <3>2. ports'[b] = t \/ ports'[b] = [t EXCEPT !.signalable = TRUE]
      BY <1>5 DEF SetSignalable
    <3>3. t = IF b = a THEN port ELSE ports[b]
      OBVIOUS
    <3> HIDE DEF t
    <3>4. t \in Port
      BY <2>5, <3>1, <3>3
    <3>5. [t EXCEPT !.signalable = TRUE].queue = t.queue
      BY <3>4 DEF Port
    <3>6. QED
      BY <2>4, <3>2, <3>3, <3>5
  <2>8. TypeOK' /\ Advances
    BY GetMessageStep, GetMessageAdvances
  <2>9. ports' \in PortMap
    BY <2>8, PortMapCharacterised DEF TypeOK
  <2>10. Evolves(ports, ports')
    BY <2>6, <2>8 DEF Advances, Evolves
  <2>11. Shrinks(ports, ports')
    BY <2>6, <2>7, <2>10 DEF Shrinks
  <2>12. /\ ports \in PortMap /\ E \in SUBSET Event /\ lastName \in Nat
         /\ Sound(ports, E, lastName, held)
    BY StateTypes DEF UniqueInv
  <2>13. {m} \subseteq ports[a].queue /\ ports'[a].queue \cap {m} = {}
    BY <1>1, <2>1, <2>7
  <2> HIDE DEF E, r, taken
  <2>14. Sound(ports', E, lastName, held)
    <3>1. held \subseteq held /\ \A e \in E : Carrier(e) => e \in E
      OBVIOUS
    <3>2. QED
      BY <2>9, <2>11, <2>12, <3>1, ShrinkSound
  <2>15. Loose(ports', E, lastName, held, {m})
    BY <1>1, <2>9, <2>11, <2>12, <2>13, TakenLoose
  <2>16. Sound(ports', E, lastName, held \cup gd)
    BY <2>2, <2>14, <2>15, HandOverSound
  <2>17. Single(net') /\ DOMAIN net' = E
    BY <1>2 DEF UniqueInv, E
  <2>18. QED
    BY <1>2, <1>5, <2>16, <2>17, UniqueInvPrime
<1>6. QED
  BY <1>3, <1>4, <1>5

\* Message m is sent from port a, with handles A; ps are the ports before the
\* message is numbered.
IsSent(ps, qs, a, A, m) ==
  /\ DOMAIN qs = DOMAIN ps
  /\ \A b \in DOMAIN ps : /\ qs[b].queue = ps[b].queue /\ qs[b].end = ps[b].end
                          /\ qs[b].state = ps[b].state
  /\ ps[a].state = "receiving" /\ qs[a].nextSend = ps[a].nextSend + 1
  /\ m.from = ps[a].end /\ m.num = ps[a].nextSend
  /\ \A d \in m.att : d.referring = NoAddr /\ \E b \in A : d.name = b[2]

\* The message that is sent is nowhere else.
LEMMA SentLoose ==
  ASSUME NEW ps \in PortMap, NEW qs \in PortMap, NEW ev \in SUBSET Event,
         NEW last \in Nat, NEW hd, Sound(ps, ev, last, hd),
         NEW a \in DOMAIN ps, NEW A, A \subseteq hd, NEW m, IsSent(ps, qs, a, A, m)
  PROVE  Loose(qs, ev, last, hd \ A, {m})
<1>1. /\ DOMAIN qs = DOMAIN ps
      /\ \A b \in DOMAIN ps : /\ qs[b].queue = ps[b].queue /\ qs[b].end = ps[b].end
                              /\ qs[b].state = ps[b].state
      /\ ps[a].state = "receiving" /\ qs[a].nextSend = ps[a].nextSend + 1
      /\ m.from = ps[a].end /\ m.num = ps[a].nextSend
  BY DEF IsSent
<1>2. ps[a].nextSend \in Int /\ ps[a].nextSend < ps[a].nextSend + 1
  BY Numbers
<1>3. NumberUsed(qs, ev, m)
  <2>1. ASSUME NEW b \in DOMAIN qs, qs[b].state = "receiving", qs[b].end = m.from
        PROVE  m.num < qs[b].nextSend
    <3>1. b = a
      BY <1>1, <2>1 DEF Sound, OneSeat
    <3>2. QED
      BY <1>1, <1>2, <3>1
  <2>2. \A e \in ev : Carrier(e) => \A d \in Wire(e) : d.end # m.from
    BY <1>1 DEF Sound, OneSeat
  <2>3. QED
    BY <2>1, <2>2 DEF NumberUsed
<1>4. m.from <= last
  BY <1>1 DEF Sound, NamesDrawn
<1>5. ASSUME NEW d \in m.att
      PROVE  /\ d.referring = NoAddr /\ d.name <= last
             /\ \A b \in DOMAIN qs : \A x \in qs[b].queue : \A c \in x.att : c.name # d.name
             /\ \A e \in ev : Carrier(e) => \A c \in Carried(e) : c.name # d.name
             /\ \A b \in hd \ A : b[2] # d.name
  <2>1. PICK k \in A : d.name = k[2]
    BY DEF IsSent
  <2>2. k \in hd /\ d.referring = NoAddr
    BY DEF IsSent
  <2>3. d.name <= last
    BY <2>1, <2>2 DEF Sound, NamesDrawn
  <2>4. \A b \in DOMAIN qs : \A x \in qs[b].queue : \A c \in x.att : c.name # d.name
    BY <1>1, <2>1, <2>2 DEF Sound, OnePlace
  <2>5. \A e \in ev : Carrier(e) => \A c \in Carried(e) : c.name # d.name
    BY <2>1, <2>2 DEF Sound, OnePlace
  <2>6. \A b \in hd \ A : b[2] # d.name
    BY <2>1, <2>2 DEF Sound, OnePlace
  <2>7. QED
    BY <2>2, <2>3, <2>4, <2>5, <2>6
<1>6. ASSUME NEW x \in Message, NumberUsed(ps, ev, x)
      PROVE  ~Same(m, x)
  <2>1. x.from = m.from => x.num < m.num
    BY <1>1, <1>6 DEF NumberUsed
  <2>2. x.num \in Int /\ m.num \in Int
    BY <1>1, <1>2, Numbers
  <2>3. QED
    BY <2>1, <2>2 DEF Same
<1>7. \A b \in DOMAIN qs : \A x \in qs[b].queue : ~Same(m, x)
  <2>1. ASSUME NEW b \in DOMAIN qs, NEW x \in qs[b].queue
        PROVE  ~Same(m, x)
    <3>1. b \in DOMAIN ps /\ x \in ps[b].queue
      BY <1>1
    <3>2. x \in Message
      BY <3>1, Numbers
    <3>3. NumberUsed(ps, ev, x)
      BY <3>1 DEF Sound, NumbersUsed
    <3>4. QED
      BY <1>6, <3>2, <3>3
  <2>2. QED
    BY <2>1
<1>8. \A e \in ev : IsMessage(e) => ~Same(m, e.msg)
  BY <1>6, Numbers DEF Sound, NumbersUsed
<1>9. QED
  BY <1>3, <1>4, <1>5, <1>7, <1>8 DEF Loose

\* SendUserMessage: a message gets a number no other message has, and takes the
\* handles of its ports with it; one that is refused leaves everything alone.
LEMMA SendUserMessageUnique ==
  ASSUME TypeOK, UniqueInv, NEW a \in held, NEW A \in FiniteSubset(held),
         SendUserMessage(a, A)
  PROVE  UniqueInv'
<1> DEFINE r == ports[a]
           m == [seq |-> r.nextSend % SeqModulus, num |-> r.nextSend,
                 from |-> r.end,
                 att |-> {LocalPort(b[2], ports[b].end) : b \in A}]
           up == [r EXCEPT !.nextSend = @ + 1]
           down == [up EXCEPT !.nextSend = @ - 1]
           numbered == [Begin EXCEPT !.ports[a].nextSend = @ + 1]
           refused == IF RefusedAtOnce(a, A) THEN Begin
                      ELSE Backpedal(numbered, a)
           sending == PrepareToForwardUserMessage(numbered, a, {m})
           refusing == [refused EXCEPT !.orphans = A \ {a}]
           E == DOMAIN net
<1>1. /\ a \in DOMAIN ports /\ A \in FiniteSubset(DOMAIN ports)
      /\ r.state = "receiving" /\ A \subseteq Addr /\ A \subseteq held
  BY DEF SendUserMessage, MayAttach, Usable, FiniteSubset, TypeOK
<1>2. Begin \in HandlerState /\ Begin.ports = ports
  BY BeginType
<1>3. /\ HandlerSound(Begin, E, held) /\ Begin.out = {} /\ Begin.lastName = lastName
      /\ E \in SUBSET Event /\ held \in SUBSET Addr
  BY BeginSound
<1>4. numbered \in HandlerState /\ DOMAIN numbered.ports = DOMAIN ports
  BY <1>1, <1>2, NumberedType
<1>5. /\ numbered.ports = [ports EXCEPT ![a] = up]
      /\ numbered.out = Begin.out /\ numbered.lastName = Begin.lastName
  BY <1>2 DEF HandlerState
<1>6. /\ r \in Port /\ up \in Port /\ Later(r, up) /\ up.state = "receiving"
      /\ up.queue = r.queue /\ up.end = r.end /\ up.nextSend = r.nextSend + 1
  <2>1. r \in Port /\ r.nextSend \in Int /\ r.nextSend + 1 \in Int
    BY <1>1, PortType
  <2>2. /\ up.state = r.state /\ up.nextRecv = r.nextRecv
        /\ up.nextSend = r.nextSend + 1 /\ up.peerClosed = r.peerClosed
        /\ up.end = r.end /\ up.queue = r.queue /\ up \in Port
    BY <2>1 DEF Port
  <2> HIDE DEF up
  <2>3. QED
    BY <1>1, <2>1, <2>2, PortFields DEF Later
<1>7. \/ ~Refused(a, A) /\ Commit(sending, net, orphans)
      \/ Commit(refusing, net, orphans)
  BY DEF SendUserMessage
<1>8. held' = held \ (A \ {a})
  BY DEF SendUserMessage
<1>9. CASE ~Refused(a, A) /\ Commit(sending, net, orphans)
  <2>1. held' \subseteq held \ A
    BY <1>8, <1>9 DEF Refused, RefusedAtOnce
  <2>2. m \in Message /\ {m} \in FiniteSubset(Message)
          /\ Attached({m}) = {b[2] : b \in A}
    BY <1>1, SentMessage
  <2>3. \A p \in Attached({m}) : /\ <<a[1], p>> \in DOMAIN ports
                                 /\ ports[<<a[1], p>>].state = "receiving"
    BY <1>2, <1>9, <2>2 DEF Refused, Unsendable
  <2>4. m.from = r.end /\ m.num = r.nextSend
    OBVIOUS
  <2>5. \A d \in m.att : d.referring = NoAddr /\ \E b \in A : d.name = b[2]
    BY DEF LocalPort
  <2> HIDE DEF m, numbered, up
  <2>6. \A p \in Attached({m}) :
           /\ <<a[1], p>> \in DOMAIN numbered.ports
           /\ numbered.ports[<<a[1], p>>].state = "receiving"
    BY <1>1, <1>4, <1>5, <1>6, <2>3
  <2>7. sending \in HandlerState
    BY <1>1, <1>4, <2>2, <2>6, PrepareToForwardType
  <2>8. Calm(Begin, numbered)
    BY <1>1, <1>2, <1>3, <1>4, <1>5, <1>6, CalmReplace
  <2>9. held \ A \subseteq held /\ held \ A \in SUBSET Addr
    BY <1>3
  <2>10. HandlerSound(numbered, E, held \ A)
    BY <1>2, <1>3, <1>4, <2>8, <2>9, CalmSound
  <2>11. IsSent(ports, numbered.ports, a, A, m)
    <3>1. \A b \in DOMAIN ports : /\ numbered.ports[b].queue = ports[b].queue
                                  /\ numbered.ports[b].end = ports[b].end
                                  /\ numbered.ports[b].state = ports[b].state
      BY <1>1, <1>5, <1>6
    <3>2. numbered.ports[a].nextSend = ports[a].nextSend + 1
      BY <1>1, <1>5, <1>6
    <3>3. QED
      BY <1>1, <1>4, <2>4, <2>5, <3>1, <3>2 DEF IsSent
  <2>12. /\ ports \in PortMap /\ numbered.ports \in PortMap
         /\ lastName \in Nat /\ Sound(ports, E, lastName, held)
    BY <1>4, StateTypes, HandlerParts DEF UniqueInv
  <2> HIDE DEF E, r, sending
  <2>13. Loose(numbered.ports, E, lastName, held \ A, {m})
    BY <1>1, <1>3, <2>11, <2>12, SentLoose
  <2>14. E \cup numbered.out = E /\ numbered.lastName = lastName
    BY <1>3, <1>5
  <2>15. Loose(numbered.ports, E \cup numbered.out, numbered.lastName, held \ A, {m})
    BY <2>13, <2>14
  <2>16. a \in DOMAIN numbered.ports
    BY <1>1, <1>4
  <2>17. HandlerSound(sending, E, held \ A)
    BY <1>3, <1>4, <2>2, <2>6, <2>9, <2>10, <2>15, <2>16, PrepareSound DEF sending
  <2>18. QED
    BY <1>9, <2>1, <2>7, <2>17, CallEndSound DEF E
<1>10. CASE Commit(refusing, net, orphans)
  <2>1. refused \in HandlerState
    BY <1>1, <1>2, <1>4, NumberedType
  <2>2. refusing \in HandlerState
    BY <1>1, <2>1 DEF HandlerState
  <2>3. Calm(Begin, refused)
    <3>1. CASE RefusedAtOnce(a, A)
      BY <1>2, <3>1, CalmOrder
    <3>2. CASE ~RefusedAtOnce(a, A)
      <4> DEFINE back == Backpedal(numbered, a)
      <4>1. /\ back.ports = [numbered.ports EXCEPT ![a] = down]
            /\ back.out = Begin.out /\ back.lastName = Begin.lastName
        BY <1>4, <1>5 DEF Backpedal, HandlerState
      <4>2. down \in Port /\ Later(r, down) /\ down.queue \subseteq r.queue
        <5>1. r \in Port /\ r.nextSend \in Int
          BY <1>1, PortType
        <5>2. /\ down.state = r.state /\ down.nextRecv = r.nextRecv
              /\ down.nextSend = (r.nextSend + 1) - 1 /\ down.queue = r.queue
              /\ down.peerClosed = r.peerClosed /\ down.end = r.end
          BY <5>1 DEF Port
        <5>3. down \in Port
          <6>1. back \in HandlerState /\ back.ports[a] = down /\ a \in DOMAIN back.ports
            BY <1>1, <1>2, <1>4, <4>1, NumberedType
          <6> HIDE DEF back, down
          <6>2. QED
            BY <6>1, PortOfState
        <5> HIDE DEF down
        <5>4. QED
          BY <5>1, <5>2, <5>3, PortFields DEF Later
      <4>3. refused = back
        BY <3>2
      <4> HIDE DEF back, down, up, numbered, refused
      <4>4. back.ports = [Begin.ports EXCEPT ![a] = down]
        BY <1>1, <1>2, <1>5, <4>1
      <4>5. Calm(Begin, back)
        BY <1>1, <1>2, <4>1, <4>2, <4>4, CalmReplace
      <4>6. QED
        BY <4>3, <4>5
    <3>3. QED
      BY <3>1, <3>2
  <2> HIDE DEF refused
  <2>4. /\ refusing.ports = refused.ports /\ refusing.out = refused.out
        /\ refusing.lastName = refused.lastName
    BY <2>1 DEF HandlerState
  <2> HIDE DEF refusing
  <2>5. Calm(Begin, refusing)
    BY <2>3, <2>4 DEF Calm
  <2> HIDE DEF E
  <2>6. HandlerSound(refusing, E, held) /\ held' \subseteq held
    BY <1>2, <1>3, <1>8, <2>2, <2>5, CalmSound
  <2>7. QED
    BY <1>10, <2>2, <2>6, CallEndSound DEF E
<1>11. QED
  BY <1>7, <1>9, <1>10

-----------------------------------------------------------------------------
\* The death of a process and its discovery take things away.
LEMMA FailureUnique ==
  ASSUME TypeOK, UniqueInv, Failure
  PROVE  UniqueInv'
<1> DEFINE E == DOMAIN net
<1>1. /\ ports \in PortMap /\ E \in SUBSET Event /\ lastName \in Nat
      /\ Sound(ports, E, lastName, held) /\ Single(net)
  BY StateTypes DEF UniqueInv
<1>2. ASSUME NEW m \in Node, Crash(m)
      PROVE  UniqueInv'
  <2> DEFINE F == {x \in BagToSet(net) : x.to[1] # m}
  <2>1. /\ ports' = [a \in DOMAIN ports \ On(m, DOMAIN ports) |-> ports[a]]
        /\ net' = [e \in F |-> net[e]] /\ lastName' = lastName /\ held' \subseteq held
    BY <1>2 DEF Crash
  <2>2. F \subseteq E
    BY DEF BagToSet
  <2> HIDE DEF F, E
  <2>3. TypeOK' /\ Advances
    BY <1>2, CrashStep, FailureAdvances
  <2>4. ports' \in PortMap
    BY <2>3, PortMapCharacterised DEF TypeOK
  <2>5. DOMAIN ports' \subseteq DOMAIN ports
          /\ \A a \in DOMAIN ports' : ports'[a] = ports[a]
    BY <2>1
  <2>6. Shrinks(ports, ports')
    BY <2>3, <2>5 DEF Advances, Evolves, Shrinks
  <2>7. /\ F \in SUBSET Event /\ \A e \in F : Carrier(e) => e \in E
    BY <1>1, <2>2
  <2>8. Sound(ports', F, lastName, held')
    BY <1>1, <2>1, <2>4, <2>6, <2>7, ShrinkSound
  <2>9. DOMAIN net' = F /\ Single(net')
    BY <1>1, <2>1, <2>2 DEF Single, E
  <2>10. QED
    BY <2>1, <2>8, <2>9, UniqueInvPrime
<1>3. ASSUME NEW n \in Node, NEW m \in Node, LostConnectionToNode(n, m)
      PROVE  UniqueInv'
  <2> DEFINE S == {b \in On(n, DOMAIN ports) : ports[b].peer[1] = m}
             keep == {e \in BagToSet(net) : ~(e.src = m /\ e.to[1] = n)}
             pending == [e \in keep |-> net[e]]
             dropped == Dropped(n, m)
             st == DestroyAllPortsWithPeer(dropped, n, S)
  <2>1. Commit(st, pending, orphans) /\ held' \subseteq held
    BY <1>3 DEF LostConnectionToNode
  <2>2. DOMAIN pending \subseteq E /\ Single(pending)
    BY <1>1 DEF BagToSet, Single
  <2>3. /\ dropped \in HandlerState /\ dropped.ports = Begin.ports
        /\ dropped.out = Begin.out /\ dropped.lastName = Begin.lastName
    BY DroppedType
  <2> HIDE DEF S, pending, dropped
  <2>4. Begin \in HandlerState /\ Calm(dropped, st)
    BY <2>3, BeginType, CalmDestroy
  <2>5. st \in HandlerState
    BY <2>3, DestroyType
  <2> HIDE DEF st
  <2>6. Calm(Begin, st)
    BY <2>3, <2>4 DEF Calm
  <2>7. /\ HandlerSound(Begin, DOMAIN pending, held)
        /\ DOMAIN pending \in SUBSET Event
    BY <2>2, BeginSound DEF E
  <2>8. HandlerSound(st, DOMAIN pending, held)
    BY <2>4, <2>5, <2>6, <2>7, CalmSound
  <2>9. QED
    BY <2>1, <2>2, <2>5, <2>7, <2>8, CommitSound
<1>4. QED
  BY <1>2, <1>3 DEF Failure

-----------------------------------------------------------------------------
(***************************************************************************)
(* The invariant, and what it is for.                                      *)
(***************************************************************************)
\* No ports, no events, no handles.
LEMMA NothingSound ==
  LET ps == [x \in {} |-> x]
  IN  ps \in PortMap /\ Sound(ps, {}, 0, {})
<1> DEFINE ps == [x \in {} |-> x]
<1>1. DOMAIN ps = {} /\ ps = [x \in DOMAIN ps |-> ps[x]]
  OBVIOUS
<1> HIDE DEF ps
<1>2. ps \in PortMap
  BY <1>1, PortMapCharacterised
<1>3. Sound(ps, {}, 0, {})
  BY <1>1 DEF Sound, NamesDrawn, OnePlace, OneSeat, OneCopy, NumbersUsed
<1>4. QED
  BY <1>2, <1>3 DEF ps

\* The pipes there are at the start have names of their own.
LEMMA InitUnique == Init => UniqueInv
<1> SUFFICES ASSUME NEW pipes \in Topologies, InitWith(pipes)
             PROVE  UniqueInv
  BY DEF Init
<1> DEFINE Peer(a) == CHOOSE b \in PortsOf(pipes) : \/ <<a, b>> \in pipes
                                                    \/ <<b, a>> \in pipes
           ps == [x \in {} |-> x]
           new == PortsOf(pipes)
<1>1. ports = [a \in new |-> NewPort(Peer(a), a[2])]
  BY DEF InitWith
<1>2. TypeOK
  BY InitTypeOK DEF Init
<1>3. ports \in PortMap /\ lastName \in Nat /\ DOMAIN ports \subseteq Addr
  BY <1>2, PortMapCharacterised DEF TypeOK
<1>4. IsLastName(pipes, lastName)
  BY PipesAssumption DEF InitWith
<1>5. \A a, b \in new : a[2] = b[2] => a = b
  BY PipesAssumption
<1>6. \A b \in new : b \in Addr /\ ~(b[2] <= 0) /\ b[2] <= lastName
  BY <1>1, <1>3, <1>4, AddrParts DEF IsLastName, EndsOf, PortName
<1>7. held \subseteq new /\ net = EmptyBag
  BY DEF InitWith
<1>8. DOMAIN ports = new /\ \A b \in new : ports[b].queue = {} /\ ports[b].end = b[2]
  BY <1>1 DEF NewPort
<1>9. ps \in PortMap /\ Sound(ps, {}, 0, {}) /\ DOMAIN ps = {}
  BY NothingSound
<1> HIDE DEF Peer, ps, new
<1>10. Creates(ps, ports, new, 0, lastName)
  BY <1>5, <1>6, <1>8, <1>9 DEF Creates
<1>11. 0 \in Nat /\ 0 <= lastName /\ {} \in SUBSET Event /\ {} \in SUBSET Addr
  BY <1>3
<1>12. Sound(ports, {}, lastName, {} \cup held)
  BY <1>3, <1>7, <1>9, <1>10, <1>11, CreatedSound
<1>13. {} \cup held = held /\ DOMAIN net = {}
  BY <1>7 DEF EmptyBag, SetToBag
<1>14. QED
  BY <1>12, <1>13 DEF UniqueInv, Single

\* Every step keeps the invariant.
LEMMA NextUnique == TypeOK /\ UniqueInv /\ [Next]_vars => UniqueInv'
<1> SUFFICES ASSUME TypeOK, UniqueInv, [Next]_vars
             PROVE  UniqueInv'
  OBVIOUS
<1>1. CASE Embedder
  <2>1. ASSUME NEW n \in Node, CreatePortPair(n)
        PROVE  UniqueInv'
    BY <2>1, CreatePortPairUnique
  <2>2. ASSUME NEW a \in held, GetMessage(a)
        PROVE  UniqueInv'
    BY <2>2, GetMessageUnique
  <2>3. ASSUME NEW a \in held,
               NEW A \in FiniteSubset({b \in held : b[1] = a[1]}),
               SendUserMessage(a, A)
        PROVE  UniqueInv'
    <3>1. A \in FiniteSubset(held)
      BY DEF FiniteSubset
    <3>2. QED
      BY <2>3, <3>1, SendUserMessageUnique
  <2>4. ASSUME NEW a \in held, NEW b \in held, MergeLocalPorts(a, b)
        PROVE  UniqueInv'
    BY <2>4, MergeLocalPortsUnique
  <2>5. ASSUME NEW a \in DOMAIN ports, ClosePort(a)
        PROVE  UniqueInv'
    BY <2>5, CloseUnique
  <2>6. ASSUME NEW a \in DOMAIN ports, NEW b \in InitialPorts, MergePorts(a, b)
        PROVE  UniqueInv'
    <3>1. PICK pipes \in Topologies : b \in PortsOf(pipes)
      BY DEF InitialPorts
    <3>2. b \in Addr
      BY <3>1, InitialPeers
    <3>3. QED
      BY <2>6, <3>2, MergePortsUnique
  <2>7. QED
    BY <1>1, <2>1, <2>2, <2>3, <2>4, <2>5, <2>6 DEF Embedder
<1>2. CASE Internal
  <2>1. ASSUME NEW e \in BagToSet(net), AcceptEvent(e)
        PROVE  UniqueInv'
    BY <2>1, OnUserMessageUnique, OnPortAcceptedUnique, CalmHandlersUnique,
       OnMergePortUnique DEF AcceptEvent
  <2>2. ASSUME NEW a \in orphans, CloseOrphan(a)
        PROVE  UniqueInv'
    BY <2>2, CloseUnique
  <2>3. QED
    BY <1>2, <2>1, <2>2 DEF Internal
<1>3. CASE Failure
  BY <1>3, FailureUnique
<1>4. CASE UNCHANGED vars
  BY <1>4 DEF UniqueInv, vars
<1>5. QED
  BY <1>1, <1>2, <1>3, <1>4 DEF Next

\* The invariant is one of the specification.
LEMMA Uniqueness == Spec => [](TypeOK /\ UniqueInv)
<1>1. Spec => []TypeOK
  BY TypeCorrect
<1>2. Init => UniqueInv
  BY InitUnique
<1>3. TypeOK /\ UniqueInv /\ [Next]_vars => UniqueInv'
  BY NextUnique
<1>4. QED
  BY <1>1, <1>2, <1>3, PTL DEF Spec

\* A set all of whose elements are equal has at most one.
LEMMA AtMostOne ==
  ASSUME NEW S, \A x, y \in S : x = y
  PROVE  /\ Cardinality(S) \in {0, 1}
         /\ Cardinality(S) = 1 => S # {}
<1>1. CASE S = {}
  BY <1>1, FS_EmptySet
<1>2. CASE S # {}
  <2>1. PICK x \in S : TRUE
    BY <1>2
  <2>2. S = {x}
    BY <2>1
  <2>3. QED
    BY <1>2, <2>2, FS_Singleton
<1>3. QED
  BY <1>1, <1>2

\* The descriptors that will make a port for an end are on the wire.
LEMMA SeatsOnWire ==
  ASSUME NEW e, NEW d \in WireSeats(e)
  PROVE  \E x \in DOMAIN net : Carrier(x) /\ d \in Wire(x) /\ d.end = e
<1>1. CASE d \in UNION {m.att : m \in UnderWay} /\ d.referring # NoAddr /\ d.end = e
  <2>1. PICK x \in DOMAIN net : x.type = "UserMessage" /\ d \in x.msg.att
    BY <1>1 DEF UnderWay, BagToSet
  <2>2. QED
    BY <1>1, <2>1 DEF Carrier, IsMessage, Wire
<1>2. CASE \E x \in DOMAIN net : x.type = "MergePort" /\ x.new.end = e /\ d = x.new
  <2>1. PICK x \in DOMAIN net : x.type = "MergePort" /\ x.new.end = e /\ d = x.new
    BY <1>2
  <2>2. Carrier(x) /\ d \in Wire(x)
    BY <2>1 DEF Carrier, IsMessage, IsMerge, Wire
  <2>3. QED
    BY <2>1, <2>2
<1>3. QED
  BY <1>1, <1>2 DEF WireSeats, BagToSet

\* In every reachable state, for any nodes, pipes, bounds and any use the
\* embedder makes of the ports, one port at most receives for an end of a
\* pipe, or one event under way will make that port: WillSendPort turns the
\* port it leaves into a proxy, AcceptPort and OnMergePort make one port from a
\* descriptor, and no order of moves, merges, bypasses, closures, crashes and
\* lost connections makes a second.
THEOREM ReceiverUnique == Spec => []UniqueReceiver
<1>1. TypeOK /\ UniqueInv => UniqueReceiver
  <2> SUFFICES ASSUME UniqueInv, NEW e \in DOMAIN ends
               PROVE  Cardinality(PortSeats(e)) + Cardinality(WireSeats(e)) <= 1
    BY DEF UniqueReceiver
  <2>1. OneSeat(ports, DOMAIN net)
    BY DEF UniqueInv, Sound
  <2>2. \A x, y \in PortSeats(e) : x = y
    BY <2>1 DEF OneSeat, PortSeats
  <2>3. \A x, y \in WireSeats(e) : x = y
    BY <2>1, SeatsOnWire DEF OneSeat
  <2>4. PortSeats(e) = {} \/ WireSeats(e) = {}
    BY <2>1, SeatsOnWire DEF OneSeat, PortSeats
  <2>5. /\ Cardinality(PortSeats(e)) \in {0, 1}
        /\ Cardinality(PortSeats(e)) = 1 => PortSeats(e) # {}
        /\ Cardinality(WireSeats(e)) \in {0, 1}
        /\ Cardinality(WireSeats(e)) = 1 => WireSeats(e) # {}
    BY <2>2, <2>3, AtMostOne
  <2>6. QED
    BY <2>4, <2>5
<1>2. QED
  BY <1>1, Uniqueness, PTL

\* In every reachable state a message is in one place: queued once in one port,
\* or under way once in one event.  ForwardUserMessagesFromProxy, the rerouting
\* of queued messages and the numbering by SendUserMessage, with the number
\* taken back when it refuses, never leave a second copy, nor another message
\* with the same number from the same end.
THEOREM NothingCopied == Spec => []NoCopies
<1>1. TypeOK /\ UniqueInv => NoCopies
  <2> SUFFICES ASSUME UniqueInv
               PROVE  NoCopies
    OBVIOUS
  <2>1. OneCopy(ports, DOMAIN net) /\ Single(net)
    BY DEF UniqueInv, Sound
  <2>2. \A a, b \in DOMAIN ports :
          \A m \in ports[a].queue, x \in ports[b].queue : Same(m, x) => a = b /\ m = x
    BY <2>1 DEF OneCopy
  <2>3. ASSUME NEW e \in BagToSet(net), e.type = "UserMessage"
        PROVE  /\ net[e] = 1
               /\ \A f \in BagToSet(net) :
                    f.type = "UserMessage" /\ Same(e.msg, f.msg) => e = f
               /\ \A m \in Queued : ~Same(e.msg, m)
    <3>1. e \in DOMAIN net /\ IsMessage(e) /\ Carrier(e)
      BY <2>3 DEF BagToSet, IsMessage, Carrier
    <3>2. net[e] = 1
      BY <2>1, <3>1 DEF Single
    <3>3. \A f \in BagToSet(net) :
            f.type = "UserMessage" /\ Same(e.msg, f.msg) => e = f
      BY <2>1, <3>1 DEF OneCopy, BagToSet, IsMessage
    <3>4. \A m \in Queued : ~Same(e.msg, m)
      BY <2>1, <3>1 DEF OneCopy, Queued
    <3>5. QED
      BY <3>2, <3>3, <3>4
  <2>4. QED
    BY <2>2, <2>3 DEF NoCopies
<1>2. QED
  BY <1>1, Uniqueness, PTL

-----------------------------------------------------------------------------
(***************************************************************************)
(* No wakeup is lost.  A handler that changes what can be read from a port *)
(* the embedder holds reports the port in the same step, or the port is    *)
(* gone, or no longer receives, when the handler ends.  Ports in messages  *)
(* are not reported; the ones with a handle are signalable.                *)
(***************************************************************************)
\* The fields that decide whether a message can be read.
SameToRead(r, q) ==
  /\ q.queue = r.queue /\ q.nextRecv = r.nextRecv /\ q.lastRecv = r.lastRecv
  /\ q.peerClosed = r.peerClosed /\ q.removeOnLast = r.removeOnLast

\* From st to s a handler reports what it changes of the ports hd.
Announces(hd, st, s) ==
  /\ st.changed \subseteq s.changed
  /\ \A a \in hd \cap DOMAIN s.ports :
       /\ a \in DOMAIN st.ports
       /\ s.ports[a].signalable = st.ports[a].signalable
       /\ s.ports[a].state = "receiving" /\ a \notin s.changed
            => /\ st.ports[a].state = "receiving"
               /\ SameToRead(st.ports[a], s.ports[a])

\* Operations that announce compose.
LEMMA AnnounceOrder ==
  ASSUME NEW hd
  PROVE  /\ \A st : Announces(hd, st, st)
         /\ \A st, s, t : Announces(hd, st, s) /\ Announces(hd, s, t)
                            => Announces(hd, st, t)
BY DEF Announces, SameToRead

\* Nothing happens to the ports.
LEMMA AnnounceSend ==
  ASSUME NEW hd, NEW st, NEW s, s.ports = st.ports, st.changed \subseteq s.changed
  PROVE  Announces(hd, st, s)
BY DEF Announces, SameToRead

\* One port is written.
LEMMA AnnounceReplace ==
  ASSUME NEW hd, NEW st \in HandlerState, NEW s, NEW a \in DOMAIN st.ports, NEW r \in Port,
         s.ports = [st.ports EXCEPT ![a] = r], st.changed \subseteq s.changed,
         r.signalable = st.ports[a].signalable,
         r.state = "receiving" /\ a \notin s.changed
           => st.ports[a].state = "receiving" /\ SameToRead(st.ports[a], r)
  PROVE  Announces(hd, st, s)
<1>1. /\ DOMAIN s.ports = DOMAIN st.ports
      /\ s.ports[a] = r /\ \A b \in DOMAIN st.ports : b # a => s.ports[b] = st.ports[b]
  OBVIOUS
<1>2. \A b \in DOMAIN st.ports : SameToRead(st.ports[b], st.ports[b])
  BY DEF SameToRead
<1>3. QED
  BY <1>1, <1>2 DEF Announces

\* Erasing a port.
LEMMA AnnounceErase ==
  ASSUME NEW hd, NEW st \in HandlerState, NEW a, NEW sent, NEW left
  PROVE  Announces(hd, st, Erased(st, a, sent, left))
<1>1. /\ Erased(st, a, sent, left).ports = Erase(st.ports, a)
      /\ Erased(st, a, sent, left).changed = st.changed
  BY DEF Erased, HandlerState
<1>2. /\ DOMAIN Erase(st.ports, a) \subseteq DOMAIN st.ports
      /\ \A b \in DOMAIN Erase(st.ports, a) : Erase(st.ports, a)[b] = st.ports[b]
  BY DEF Erase
<1>3. \A b \in DOMAIN st.ports : SameToRead(st.ports[b], st.ports[b])
  BY DEF SameToRead
<1>4. QED
  BY <1>1, <1>2, <1>3 DEF Announces

\* Closing a port, and the steps by which a proxy leaves.
LEMMA AnnounceRemoval ==
  ASSUME NEW hd, NEW st \in HandlerState, NEW a \in DOMAIN st.ports
  PROVE  /\ Announces(hd, st, TryRemoveProxy(st, a))
         /\ Announces(hd, st, InitiateProxyRemoval(st, a))
         /\ Announces(hd, st, StartRemoval(st, a))
         /\ Announces(hd, st, Close(st, a))
<1>1. ASSUME NEW s \in HandlerState, a \in DOMAIN s.ports
      PROVE  Announces(hd, s, TryRemoveProxy(s, a))
  <2> DEFINE r == s.ports[a]
             ack == IF r.sendOnRemoval = NoAddr THEN {}
                    ELSE {ObserveProxyAck(a[1], r.sendOnRemoval,
                                          kInvalidSequenceNum)}
             left == {<<a[1], p>> : p \in Attached(r.queue)}
  <2>1. \/ TryRemoveProxy(s, a) = s
        \/ TryRemoveProxy(s, a) = Erased(s, a, ack, left)
    BY DEF TryRemoveProxy, Erased, HandlerState
  <2> HIDE DEF ack, left
  <2>2. Announces(hd, s, Erased(s, a, ack, left))
    BY AnnounceErase
  <2>3. QED
    BY <2>1, <2>2, AnnounceOrder
<1>2. Announces(hd, st, InitiateProxyRemoval(st, a))
  <2>1. /\ InitiateProxyRemoval(st, a).ports = st.ports
        /\ InitiateProxyRemoval(st, a).changed = st.changed
    BY DEF InitiateProxyRemoval, HandlerState
  <2>2. QED
    BY <2>1, AnnounceSend
<1>3. Announces(hd, st, StartRemoval(st, a))
  <2> DEFINE r == st.ports[a]
             sent == {ObserveClosure(a[1], r.peer, r.lastRecv)}
             s == [st EXCEPT !.out = @ \cup sent]
  <2>1. sent \in SUBSET Event
    BY PortOfState, EventTypes
  <2>2. s \in HandlerState /\ s.ports = st.ports
    BY <2>1, SendEvents
  <2>3. s.changed = st.changed
    BY DEF HandlerState
  <2>4. \/ StartRemoval(st, a) = TryRemoveProxy(s, a)
        \/ StartRemoval(st, a) = InitiateProxyRemoval(st, a)
    BY DEF StartRemoval
  <2> HIDE DEF s, sent
  <2>5. Announces(hd, st, s)
    BY <2>2, <2>3, AnnounceSend
  <2>6. Announces(hd, s, TryRemoveProxy(s, a))
    BY <1>1, <2>2
  <2>7. Announces(hd, st, TryRemoveProxy(s, a))
    BY <2>5, <2>6, AnnounceOrder
  <2>8. QED
    BY <1>2, <2>4, <2>7
<1>4. Announces(hd, st, Close(st, a))
  <2> DEFINE r == st.ports[a]
             sent == {ObserveClosure(a[1], r.peer, r.nextSend - 1)}
             left == {<<a[1], p>> : p \in Attached(r.queue)}
  <2>1. \/ Close(st, a) = st
        \/ Close(st, a) = Erased(st, a, sent, left)
    BY DEF Close, Erased
  <2> HIDE DEF sent, left
  <2>2. Announces(hd, st, Erased(st, a, sent, left))
    BY AnnounceErase
  <2>3. QED
    BY <2>1, <2>2, AnnounceOrder
<1>5. QED
  BY <1>1, <1>2, <1>3, <1>4

\* DestroyAllPortsWithPeer reports the receiving ports it closes.
LEMMA AnnounceDestroy ==
  ASSUME NEW hd, NEW st \in HandlerState, NEW n, NEW S
  PROVE  Announces(hd, st, DestroyAllPortsWithPeer(st, n, S))
<1> DEFINE all == Stranded(st, n, S)
           dead == {b \in all : st.ports[b].state # "receiving"}
           fresh == {b \in all \ dead : ~st.ports[b].peerClosed}
           ps == [b \in DOMAIN st.ports \ dead |->
                    IF b \in fresh
                    THEN [st.ports[b] EXCEPT !.peerClosed = TRUE,
                            !.lastRecv = st.ports[b].nextRecv - 1]
                    ELSE st.ports[b]]
           s == DestroyAllPortsWithPeer(st, n, S)
<1>1. s.ports = ps /\ s.changed = st.changed \cup fresh
  BY DEF DestroyAllPortsWithPeer, HandlerState
<1> HIDE DEF all, fresh, dead
<1>2. ASSUME NEW b \in DOMAIN ps
      PROVE  /\ b \in DOMAIN st.ports
             /\ ps[b].signalable = st.ports[b].signalable
             /\ b \notin fresh => ps[b] = st.ports[b]
  <2>1. st.ports[b] \in Port
    BY PortOfState
  <2>2. QED
    BY <2>1 DEF Port
<1> HIDE DEF ps, s
<1>3. \A b \in DOMAIN st.ports : SameToRead(st.ports[b], st.ports[b])
  BY DEF SameToRead
<1>4. Announces(hd, st, s)
  BY <1>1, <1>2, <1>3 DEF Announces
<1>5. QED
  BY <1>4 DEF s

\* A port is told of a proxy.
LEMMA AnnounceObserve ==
  ASSUME NEW hd, NEW st \in HandlerState, NEW a \in DOMAIN st.ports,
         NEW e, e.proxy \in Addr, e.target \in Addr
  PROVE  /\ Announces(hd, st, Bypass(st, a, e))
         /\ Announces(hd, st, StashAck(st, a, e))
<1> DEFINE r == st.ports[a]
           bypassing == [r EXCEPT !.peer = e.target]
           stashing == [r EXCEPT !.sendOnRemoval = e.proxy]
<1>1. r \in Port
  BY PortOfState
<1>2. bypassing \in Port /\ stashing \in Port
  BY <1>1 DEF Port
<1>3. /\ SameToRead(r, bypassing) /\ bypassing.signalable = r.signalable
      /\ SameToRead(r, stashing) /\ stashing.signalable = r.signalable
      /\ bypassing.state = r.state /\ stashing.state = r.state
  BY <1>1 DEF SameToRead, Port
<1>4. /\ Bypass(st, a, e).ports = [st.ports EXCEPT ![a] = bypassing]
      /\ StashAck(st, a, e).ports = [st.ports EXCEPT ![a] = stashing]
      /\ st.changed \subseteq Bypass(st, a, e).changed
      /\ st.changed \subseteq StashAck(st, a, e).changed
  BY DEF Bypass, StashAck, HandlerState
<1> HIDE DEF bypassing, stashing
<1>5. Announces(hd, st, Bypass(st, a, e))
  BY <1>2, <1>3, <1>4, AnnounceReplace
<1>6. Announces(hd, st, StashAck(st, a, e))
  BY <1>2, <1>3, <1>4, AnnounceReplace
<1>7. QED
  BY <1>5, <1>6

\* A port is told of closure, and a receiving one is reported.
LEMMA AnnounceClosure ==
  ASSUME NEW hd, NEW st \in HandlerState, NEW a \in DOMAIN st.ports, NEW last \in Int
  PROVE  Announces(hd, st, ObservedClosure(st, a, last))
<1> DEFINE r == st.ports[a]
           port == [r EXCEPT !.peerClosed = TRUE, !.lastRecv = last,
                             !.removeOnLast = @ \/ r.state # "receiving"]
           s == ObservedClosure(st, a, last)
<1>1. r \in Port
  BY PortOfState
<1>2. port \in Port
  BY <1>1 DEF Port
<1>3. /\ s.ports = [st.ports EXCEPT ![a] = port]
      /\ s.changed = IF r.state = "receiving" THEN st.changed \cup {a} ELSE st.changed
  BY DEF ObservedClosure, HandlerState
<1>4. port.state = r.state /\ port.signalable = r.signalable
  BY <1>1 DEF Port
<1> HIDE DEF port, s
<1>5. st.changed \subseteq s.changed /\ (r.state = "receiving" => a \in s.changed)
  BY <1>3
<1>6. Announces(hd, st, s)
  BY <1>2, <1>3, <1>4, <1>5, AnnounceReplace
<1>7. QED
  BY <1>6 DEF s

\* Two ports become proxies.
LEMMA AnnounceSwap ==
  ASSUME NEW hd, NEW st \in HandlerState, NEW a \in DOMAIN st.ports,
         NEW b \in DOMAIN st.ports, a # b
  PROVE  Announces(hd, st, SwapPeers(st, a, b))
<1> DEFINE Proxy(r, peer) ==
             [r EXCEPT !.state = "proxying", !.peer = peer,
                       !.removeOnLast = @ \/ r.peerClosed]
           pa == Proxy(st.ports[a], st.ports[b].peer)
           pb == Proxy(st.ports[b], st.ports[a].peer)
           s == SwapPeers(st, a, b)
<1>1. /\ s.ports = [[st.ports EXCEPT ![a] = pa] EXCEPT ![b] = pb]
      /\ s.changed = st.changed
  BY DEF SwapPeers, HandlerState
<1>2. /\ pa.state = "proxying" /\ pa.signalable = st.ports[a].signalable
      /\ pb.state = "proxying" /\ pb.signalable = st.ports[b].signalable
  BY PortOfState DEF Port
<1> HIDE DEF pa, pb, s
<1>3. /\ DOMAIN s.ports = DOMAIN st.ports /\ s.ports[a] = pa /\ s.ports[b] = pb
      /\ \A c \in DOMAIN st.ports : c # a /\ c # b => s.ports[c] = st.ports[c]
  BY <1>1
<1>4. \A c \in DOMAIN st.ports : SameToRead(st.ports[c], st.ports[c])
  BY DEF SameToRead
<1>5. Announces(hd, st, s)
  BY <1>1, <1>2, <1>3, <1>4 DEF Announces
<1>6. QED
  BY <1>5 DEF s

\* Port a is gone, and nothing else of the ports has changed.
Gone(st, s, a) ==
  /\ DOMAIN s.ports = DOMAIN st.ports \ {a}
  /\ \A b \in DOMAIN st.ports \ {a} : s.ports[b] = st.ports[b]
  /\ s.changed = st.changed

\* A receiving port that is closed is gone.
LEMMA ClosedIsGone ==
  ASSUME NEW st \in HandlerState, NEW a \in DOMAIN st.ports, st.ports[a].state = "receiving"
  PROVE  Gone(st, Close(st, a), a)
<1> DEFINE r == st.ports[a]
           sent == {ObserveClosure(a[1], r.peer, r.nextSend - 1)}
           left == {<<a[1], p>> : p \in Attached(r.queue)}
<1>1. Close(st, a) = Erased(st, a, sent, left)
  BY DEF Close, Erased
<1> HIDE DEF sent, left
<1>2. /\ Erased(st, a, sent, left).ports = Erase(st.ports, a)
      /\ Erased(st, a, sent, left).changed = st.changed
  BY DEF Erased, HandlerState
<1>3. QED
  BY <1>1, <1>2 DEF Erase, Gone

\* A merge taken back closes both ports, although they receive again.
LEMMA AnnounceUndo ==
  ASSUME NEW hd, NEW st \in HandlerState, NEW a \in DOMAIN st.ports,
         NEW b \in DOMAIN st.ports, a # b
  PROVE  Announces(hd, st, Close(Close(UndoSwap(st, a, b), a), b))
<1> DEFINE Receiving(r, peer) ==
             [r EXCEPT !.state = "receiving", !.peer = peer,
                       !.removeOnLast = FALSE]
           pa == Receiving(st.ports[a], st.ports[b].peer)
           pb == Receiving(st.ports[b], st.ports[a].peer)
           undone == UndoSwap(st, a, b)
           first == Close(undone, a)
           second == Close(first, b)
<1>1. /\ undone.ports = [[st.ports EXCEPT ![a] = pa] EXCEPT ![b] = pb]
      /\ undone.changed = st.changed
  BY DEF UndoSwap, HandlerState
<1>2. pa.state = "receiving" /\ pb.state = "receiving"
  BY PortOfState DEF Port
<1>3. undone \in HandlerState /\ DOMAIN undone.ports = DOMAIN st.ports
  BY SwapType
<1> HIDE DEF pa, pb, undone
<1>4. /\ undone.ports[a].state = "receiving" /\ undone.ports[b].state = "receiving"
      /\ \A c \in DOMAIN st.ports : c # a /\ c # b => undone.ports[c] = st.ports[c]
  BY <1>1, <1>2
<1>5. /\ first \in HandlerState /\ DOMAIN first.ports = DOMAIN st.ports \ {a}
      /\ \A c \in DOMAIN st.ports \ {a} : first.ports[c] = undone.ports[c]
      /\ first.changed = st.changed
  <2>1. Gone(undone, first, a)
    BY <1>3, <1>4, ClosedIsGone
  <2>2. first \in HandlerState
    BY <1>3, CloseType
  <2>3. QED
    BY <1>1, <1>3, <2>1, <2>2 DEF Gone
<1> HIDE DEF first
<1>6. b \in DOMAIN first.ports /\ first.ports[b].state = "receiving"
  BY <1>4, <1>5
<1>7. /\ DOMAIN second.ports = DOMAIN first.ports \ {b}
      /\ \A c \in DOMAIN first.ports \ {b} : second.ports[c] = first.ports[c]
      /\ second.changed = st.changed
  <2>1. Gone(first, second, b)
    BY <1>5, <1>6, ClosedIsGone
  <2>2. QED
    BY <1>5, <2>1 DEF Gone
<1> HIDE DEF second
<1>8. /\ DOMAIN second.ports \subseteq DOMAIN st.ports
      /\ \A c \in DOMAIN second.ports : second.ports[c] = st.ports[c]
  BY <1>4, <1>5, <1>7
<1>9. \A c \in DOMAIN st.ports : SameToRead(st.ports[c], st.ports[c])
  BY DEF SameToRead
<1>10. Announces(hd, st, second)
  BY <1>7, <1>8, <1>9 DEF Announces
<1>11. QED
  BY <1>10 DEF second, first, undone

\* Forwarding messages turns the ports attached to them into proxies.
LEMMA AnnouncePrepare ==
  ASSUME NEW hd, NEW st \in HandlerState, NEW a, NEW M
  PROVE  Announces(hd, st, PrepareToForwardUserMessage(st, a, M))
<1> DEFINE n == a[1]
           to == st.ports[a].peer
           moved == IF to[1] = n THEN {} ELSE Attached(M)
           fresh == Fresh(st.lastName, moved)
           ps == [b \in DOMAIN st.ports |->
                    IF b[1] = n /\ b[2] \in moved
                    THEN ConvertToProxy(st.ports[b], <<to[1], fresh[b[2]]>>)
                    ELSE st.ports[b]]
           s == PrepareToForwardUserMessage(st, a, M)
<1>1. s.ports = ps /\ st.changed \subseteq s.changed
  BY DEF PrepareToForwardUserMessage, HandlerState
<1> HIDE DEF moved, fresh
<1>2. ASSUME NEW b \in DOMAIN ps
      PROVE  /\ b \in DOMAIN st.ports
             /\ ps[b].signalable = st.ports[b].signalable
             /\ ps[b].state = "receiving" => ps[b] = st.ports[b]
  <2>1. st.ports[b] \in Port
    BY PortOfState
  <2>2. \A x : /\ ConvertToProxy(st.ports[b], x).signalable = st.ports[b].signalable
               /\ ConvertToProxy(st.ports[b], x).state = "buffering"
    BY <2>1 DEF ConvertToProxy, Port
  <2>3. QED
    BY <2>2
<1> HIDE DEF ps, s
<1>3. \A b \in DOMAIN st.ports : SameToRead(st.ports[b], st.ports[b])
  BY DEF SameToRead
<1>4. Announces(hd, st, s)
  BY <1>1, <1>2, <1>3 DEF Announces
<1>5. QED
  BY <1>4 DEF s

\* A proxy forwards what it has.
LEMMA AnnounceForward ==
  ASSUME NEW hd, NEW st \in HandlerState, NEW a \in DOMAIN st.ports,
         st.ports[a].state = "proxying"
  PROVE  Announces(hd, st, ForwardUserMessagesFromProxy(st, a))
<1> DEFINE r == st.ports[a]
           M == Sequential(r)
           bad == {m \in M : \E p \in Attached({m}) : Unsendable(st, a, p)}
           lost == {m \in bad : \A x \in bad : m.seq <= x.seq}
           sent == {m \in M : \A x \in bad : m.seq < x.seq}
           port == [r EXCEPT !.queue = @ \ (sent \cup lost),
                             !.nextRecv = @ + Cardinality(sent \cup lost),
                             !.nextSend = @ - Cardinality(lost)]
           left == {<<a[1], p>> : p \in Attached(lost)}
           none == lost = {}
           taken == Taken(st, a, port, left, none)
<1>1. ForwardUserMessagesFromProxy(st, a)
        = PrepareToForwardUserMessage(taken, a, sent)
  BY DEF ForwardUserMessagesFromProxy, Taken
<1>2. r \in Port /\ r.queue \in FiniteSubset(Message) /\ a[1] \in Node
  BY PortOfState
<1>3. M \subseteq r.queue
  BY DEF Sequential
<1>4. lost \subseteq r.queue /\ sent \cup lost \subseteq r.queue
  BY <1>3
<1> HIDE DEF M, lost, sent
<1>5. /\ lost \in FiniteSubset(Message)
      /\ Cardinality(lost) \in Nat /\ Cardinality(sent \cup lost) \in Nat
  BY <1>2, <1>4, SubsetOfFinite
<1>6. port \in Port
  BY <1>2, <1>4, <1>5, TakenPort
<1>7. left \in SUBSET Addr /\ none \in BOOLEAN
  BY <1>2, <1>5, AttachedAddrs
<1>8. port.state = "proxying" /\ port.signalable = r.signalable
  BY <1>2 DEF Port
<1> HIDE DEF port, left, none
<1>9. taken \in HandlerState
  BY <1>6, <1>7, SetPortAndRest
<1>10. taken.ports = [st.ports EXCEPT ![a] = port] /\ taken.changed = st.changed
  BY DEF Taken, HandlerState
<1> HIDE DEF taken
<1>11. Announces(hd, st, taken)
  BY <1>6, <1>8, <1>10, AnnounceReplace
<1>12. Announces(hd, taken, PrepareToForwardUserMessage(taken, a, sent))
  BY <1>9, AnnouncePrepare
<1>13. QED
  BY <1>1, <1>11, <1>12, AnnounceOrder

\* Beginning to proxy.
LEMMA AnnounceBeginProxying ==
  ASSUME NEW hd, NEW st \in HandlerState, NEW a \in DOMAIN st.ports
  PROVE  Announces(hd, st, BeginProxying(st, a))
<1> DEFINE s == [st EXCEPT !.ports[a].state = "proxying"]
           port == [st.ports[a] EXCEPT !.state = "proxying"]
           forwarded == ForwardUserMessagesFromProxy(s, a)
           reported == [st EXCEPT !.oops = @ \cup {"begin proxying"}]
<1>1. port \in Port
  BY PortOfState DEF Port, State
<1>2. /\ s = [st EXCEPT !.ports[a] = port] /\ s.ports = [st.ports EXCEPT ![a] = port]
      /\ s.changed = st.changed
  BY DEF HandlerState
<1>3. port.state = "proxying" /\ port.signalable = st.ports[a].signalable
  BY PortOfState DEF Port
<1> HIDE DEF port
<1>4. s \in HandlerState /\ DOMAIN s.ports = DOMAIN st.ports
  BY <1>1, <1>2, SetPort DEF HandlerState
<1>5. \/ BeginProxying(st, a) = reported
      \/ BeginProxying(st, a) = forwarded
      \/ BeginProxying(st, a) = StartRemoval(forwarded, a)
  BY DEF BeginProxying
<1>6. reported.ports = st.ports /\ reported.changed = st.changed
  BY DEF HandlerState
<1> HIDE DEF s, reported
<1>7. Announces(hd, st, s)
  BY <1>1, <1>2, <1>3, AnnounceReplace
<1>8. s.ports[a].state = "proxying"
  BY <1>2, <1>3, <1>4
<1>9. /\ forwarded \in HandlerState /\ a \in DOMAIN forwarded.ports
      /\ Announces(hd, s, forwarded)
  BY <1>4, <1>8, ForwardFromProxyType, AnnounceForward
<1> HIDE DEF forwarded
<1>10. Announces(hd, st, forwarded)
  BY <1>7, <1>9, AnnounceOrder
<1>11. Announces(hd, forwarded, StartRemoval(forwarded, a))
  BY <1>9, AnnounceRemoval
<1>12. Announces(hd, st, StartRemoval(forwarded, a))
  BY <1>10, <1>11, AnnounceOrder
<1>13. Announces(hd, st, reported)
  BY <1>6, AnnounceSend
<1>14. QED
  BY <1>5, <1>10, <1>12, <1>13

\* Merging two ports.
LEMMA AnnounceMerge ==
  ASSUME NEW hd, NEW st \in HandlerState, NEW a \in DOMAIN st.ports,
         NEW b \in DOMAIN st.ports, a # b, NEW allowClose
  PROVE  Announces(hd, st, MergePortsInternal(st, a, b, allowClose))
<1> DEFINE swapped == SwapPeers(st, a, b)
           first == ForwardUserMessagesFromProxy(swapped, a)
           flushed == IF first.ok THEN ForwardUserMessagesFromProxy(first, b)
                      ELSE first
           CloseIf(s, c) == IF allowClose \/ s.ports[c].state = "receiving"
                            THEN Close(s, c) ELSE s
           once == CloseIf(st, a)
           closed == CloseIf(once, b)
           undone == Close(Close(UndoSwap(flushed, a, b), a), b)
           started == StartRemoval(flushed, a)
           merged == MergePortsInternal(st, a, b, allowClose)
<1>1. \/ merged = [closed EXCEPT !.ok = FALSE]
      \/ merged = StartRemoval(started, b)
      \/ merged = undone
  BY DEF MergePortsInternal
<1>2. /\ swapped \in HandlerState /\ DOMAIN swapped.ports = DOMAIN st.ports
      /\ Announces(hd, st, swapped)
      /\ swapped.ports[a].state = "proxying"
      /\ swapped.ports[b].state = "proxying"
  BY SwapType, SwapEvolves, AnnounceSwap
<1> HIDE DEF swapped
<1>3. /\ first \in HandlerState /\ DOMAIN first.ports = DOMAIN st.ports
      /\ Evolves(swapped.ports, first.ports) /\ Announces(hd, swapped, first)
  BY <1>2, ForwardFromProxyType, ForwardFromProxyEvolves, AnnounceForward
<1>4. first.ports[b].state = "proxying"
  BY <1>2, <1>3 DEF Evolves, Later
<1> HIDE DEF first
<1>5. /\ flushed \in HandlerState /\ DOMAIN flushed.ports = DOMAIN st.ports
      /\ Announces(hd, first, flushed)
  BY <1>3, <1>4, ForwardFromProxyType, AnnounceForward, AnnounceOrder
<1> HIDE DEF flushed
<1>6. Announces(hd, st, flushed)
  <2>1. Announces(hd, st, first)
    BY <1>2, <1>3, AnnounceOrder
  <2>2. QED
    BY <1>5, <2>1, AnnounceOrder
<1>7. ASSUME merged = [closed EXCEPT !.ok = FALSE]
      PROVE  Announces(hd, st, merged)
  <2>1. once \in HandlerState /\ b \in DOMAIN once.ports /\ Announces(hd, st, once)
    BY CloseType, AnnounceRemoval, AnnounceOrder
  <2> HIDE DEF once
  <2>2. closed \in HandlerState /\ Announces(hd, once, closed)
    BY <2>1, CloseType, AnnounceRemoval, AnnounceOrder
  <2> HIDE DEF closed, merged
  <2>3. merged.ports = closed.ports /\ merged.changed = closed.changed
    BY <1>7, <2>2 DEF HandlerState
  <2>4. Announces(hd, closed, merged)
    BY <2>3, AnnounceSend
  <2>5. Announces(hd, st, closed)
    BY <2>1, <2>2, AnnounceOrder
  <2>6. QED
    BY <2>4, <2>5, AnnounceOrder
<1>8. ASSUME merged = StartRemoval(started, b)
      PROVE  Announces(hd, st, merged)
  <2>1. /\ started \in HandlerState /\ b \in DOMAIN started.ports
        /\ Announces(hd, flushed, started)
    BY <1>5, StartRemovalType, AnnounceRemoval
  <2> HIDE DEF started
  <2>2. Announces(hd, started, StartRemoval(started, b))
    BY <2>1, AnnounceRemoval
  <2> HIDE DEF merged
  <2>3. Announces(hd, st, started)
    BY <1>6, <2>1, AnnounceOrder
  <2>4. QED
    BY <1>8, <2>2, <2>3, AnnounceOrder
<1>9. ASSUME merged = undone
      PROVE  Announces(hd, st, merged)
  <2>1. Announces(hd, flushed, undone)
    BY <1>5, AnnounceUndo
  <2> HIDE DEF undone, merged
  <2>2. QED
    BY <1>6, <1>9, <2>1, AnnounceOrder
<1>10. QED
  BY <1>1, <1>7, <1>8, <1>9

\* Ports that arrive have other names than the ports hd.
LEMMA AnnounceAccept ==
  ASSUME NEW hd, NEW st \in HandlerState, NEW n \in Node, NEW D \in SUBSET Moved,
         \A d \in D, b \in hd : b[2] # d.name
  PROVE  Announces(hd, st, AcceptPorts(st, n, D))
<1> DEFINE s == AcceptPorts(st, n, D)
<1>1. Accepts(st.ports, s.ports, n, D)
  BY AcceptPortsAccepts
<1>2. s.changed = st.changed
  BY DEF AcceptPorts, HandlerState
<1> HIDE DEF s
<1>3. ASSUME NEW b \in hd \cap DOMAIN s.ports
      PROVE  b \in DOMAIN st.ports /\ s.ports[b] = st.ports[b]
  <2>1. ASSUME b \notin DOMAIN st.ports PROVE FALSE
    <3>1. PICK d \in D : b = <<n, d.name>>
      BY <1>1, <2>1 DEF Accepts
    <3>2. QED
      BY <3>1
  <2>2. QED
    BY <1>1, <2>1 DEF Accepts
<1>4. \A b \in DOMAIN st.ports : SameToRead(st.ports[b], st.ports[b])
  BY DEF SameToRead
<1>5. Announces(hd, st, s)
  BY <1>2, <1>3, <1>4 DEF Announces
<1>6. QED
  BY <1>5 DEF s

\* The embedder can read a message.
Readable(r) ==
  r.state = "receiving" /\ HasNextMessage(r) /\ CanAcceptMoreMessages(r)

\* Every readable port with a handle is to be served, and hears of what comes.
WakeInv ==
  /\ NoLostWakeup
  /\ \A a \in held \cap DOMAIN ports : ports[a].signalable

\* What a handler must have done at its end.
Wakes(st, hd) ==
  \A a \in hd \cap DOMAIN st.ports :
    /\ st.ports[a].signalable
    /\ Readable(st.ports[a]) /\ a \notin st.changed
         => a \in notified

\* A handler that announces its changes wakes whom it must.
LEMMA AnnouncedWakes ==
  ASSUME TypeOK, WakeInv, NEW st, Announces(held, Begin, st)
  PROVE  Wakes(st, held)
<1>1. Begin.ports = ports
  BY DEF Begin
<1>2. ASSUME NEW r, NEW q, SameToRead(r, q), HasNextMessage(q), CanAcceptMoreMessages(q)
      PROVE  HasNextMessage(r) /\ CanAcceptMoreMessages(r)
  BY <1>2 DEF SameToRead, HasNextMessage, CanAcceptMoreMessages
<1>3. ASSUME NEW a \in held \cap DOMAIN st.ports
      PROVE  /\ st.ports[a].signalable
             /\ Readable(st.ports[a]) /\ a \notin st.changed => a \in notified
  <2>1. a \in DOMAIN ports /\ st.ports[a].signalable = ports[a].signalable
    BY <1>1, <1>3 DEF Announces
  <2>2. st.ports[a].signalable
    BY <1>3, <2>1, Zenon DEF WakeInv
  <2>3. ASSUME Readable(st.ports[a]), a \notin st.changed
        PROVE  a \in notified
    <3>1. ports[a].state = "receiving" /\ SameToRead(ports[a], st.ports[a])
      BY <1>1, <1>3, <2>3 DEF Announces, Readable
    <3>2. HasNextMessage(ports[a]) /\ CanAcceptMoreMessages(ports[a])
      BY <1>2, <2>3, <3>1 DEF Readable
    <3>3. QED
      BY <1>3, <2>1, <3>1, <3>2 DEF WakeInv, NoLostWakeup
  <2>4. QED
    BY <2>2, <2>3
<1>4. QED
  BY <1>3 DEF Wakes

\* The end of a handler.
LEMMA CommitWakes ==
  ASSUME NEW st, NEW hd, Wakes(st, hd), NEW pending, NEW closing,
         Commit(st, pending, closing), held' \subseteq hd
  PROVE  WakeInv'
<1>1. ports' = st.ports /\ notified' = notified \cup st.changed
  BY DEF Commit
<1>2. ASSUME NEW a \in held' \cap DOMAIN ports'
      PROVE  /\ ports'[a].signalable
             /\ Readable(ports'[a]) => a \in notified'
  <2>1. a \in hd \cap DOMAIN st.ports
    BY <1>1
  <2>2. /\ st.ports[a].signalable
        /\ Readable(st.ports[a]) /\ a \notin st.changed => a \in notified
    BY <2>1 DEF Wakes
  <2>3. QED
    BY <1>1, <2>2
<1>3. NoLostWakeup'
  BY <1>2 DEF NoLostWakeup, Readable, HasNextMessage, CanAcceptMoreMessages
<1>4. QED
  BY <1>2, <1>3 DEF WakeInv

\* A handler from the current state.
LEMMA CallWakes ==
  ASSUME TypeOK, WakeInv, NEW st, Announces(held, Begin, st), NEW pending, NEW closing,
         Commit(st, pending, closing), held' \subseteq held
  PROVE  WakeInv'
<1>1. Wakes(st, held)
  BY AnnouncedWakes
<1>2. QED
  BY <1>1, CommitWakes

\* A port is closed.
LEMMA CloseWakes ==
  ASSUME TypeOK, WakeInv, NEW a, ClosePort(a) \/ CloseOrphan(a)
  PROVE  WakeInv'
<1> DEFINE st == IF a \in DOMAIN ports THEN Close(Begin, a) ELSE Begin
<1>1. Begin \in HandlerState /\ Begin.ports = ports
  BY BeginType
<1>2. Announces(held, Begin, st)
  BY <1>1, AnnounceRemoval, AnnounceOrder
<1>3. held' \subseteq held /\ \E closing : Commit(st, net, closing)
  BY DEF ClosePort, CloseOrphan, Usable, Idle
<1> HIDE DEF st
<1>4. QED
  BY <1>2, <1>3, CallWakes

\* Two ports of a node are fused.
LEMMA MergeLocalPortsWakes ==
  ASSUME TypeOK, WakeInv, NEW a, NEW b, MergeLocalPorts(a, b)
  PROVE  WakeInv'
<1> DEFINE st == MergePortsInternal(Begin, a, b, TRUE)
<1>1. Begin \in HandlerState /\ Begin.ports = ports
  BY BeginType
<1>2. a \in DOMAIN ports /\ b \in DOMAIN ports /\ a # b
  BY DEF MergeLocalPorts, Usable
<1>3. Commit(st, net, orphans) /\ held' \subseteq held
  BY DEF MergeLocalPorts
<1>4. Announces(held, Begin, st)
  BY <1>1, <1>2, AnnounceMerge
<1> HIDE DEF st
<1>5. QED
  BY <1>3, <1>4, CallWakes

\* The handlers that neither take a port in nor queue a message.
LEMMA PlainHandlersWake ==
  ASSUME TypeOK, WakeInv, NEW e \in BagToSet(net),
         \/ OnPortAccepted(e) \/ OnObserveProxy(e) \/ OnObserveProxyAck(e)
         \/ OnObserveClosure(e) \/ OnProxyDied(e)
  PROVE  WakeInv'
<1> DEFINE a == e.to
<1>1. Begin \in HandlerState /\ Begin.ports = ports /\ Announces(held, Begin, Begin)
  BY BeginType, AnnounceOrder
<1>2. CASE OnPortAccepted(e)
  <2> DEFINE st == IF a \in DOMAIN ports THEN BeginProxying(Begin, a) ELSE Begin
  <2>1. Announces(held, Begin, st)
    BY <1>1, AnnounceBeginProxying
  <2>2. Commit(st, Without(e), orphans) /\ held' = held
    BY <1>2 DEF OnPortAccepted
  <2> HIDE DEF st
  <2>3. QED
    BY <2>1, <2>2, CallWakes
<1>3. CASE OnObserveProxy(e)
  <2> DEFINE passing == [Begin EXCEPT !.out = {ObserveProxy(a[1], ports[a].peer,
                                                           e.proxy, e.target)}]
  <2>1. e.proxy \in Addr /\ e.target \in Addr /\ held' = held
    BY <1>3, WithoutType, EventParts DEF OnObserveProxy
  <2>2. \/ Commit(Begin, Without(e), orphans)
        \/ Commit(passing, Without(e), orphans)
        \/ a \in DOMAIN ports /\ Commit(Bypass(Begin, a, e), Without(e), orphans)
        \/ a \in DOMAIN ports /\ Commit(StashAck(Begin, a, e), Without(e), orphans)
    <3>1. CASE a \notin DOMAIN ports
      BY <1>3, <3>1 DEF OnObserveProxy
    <3>2. CASE a \in DOMAIN ports /\ ports[a].peer # e.proxy
      BY <1>3, <3>2 DEF OnObserveProxy
    <3>3. CASE a \in DOMAIN ports /\ ports[a].peer = e.proxy
      BY <1>3, <3>3 DEF OnObserveProxy
    <3>4. QED
      BY <3>1, <3>2, <3>3
  <2>3. Announces(held, Begin, passing)
    <3>1. passing.ports = Begin.ports /\ passing.changed = Begin.changed
      BY <1>1 DEF HandlerState
    <3> HIDE DEF passing
    <3>2. QED
      BY <3>1, AnnounceSend
  <2>4. ASSUME a \in DOMAIN ports
        PROVE  /\ Announces(held, Begin, Bypass(Begin, a, e))
               /\ Announces(held, Begin, StashAck(Begin, a, e))
    BY <1>1, <2>1, <2>4, AnnounceObserve
  <2> HIDE DEF passing
  <2>5. PICK s : Announces(held, Begin, s) /\ Commit(s, Without(e), orphans)
    BY <1>1, <2>2, <2>3, <2>4
  <2>6. QED
    BY <2>1, <2>5, CallWakes
<1>4. CASE OnObserveProxyAck(e)
  <2> DEFINE port == [ports[a] EXCEPT !.removeOnLast = TRUE, !.lastRecv = e.last]
             flagged == [Begin EXCEPT !.ports[a].removeOnLast = TRUE,
                                      !.ports[a].lastRecv = e.last]
             wrong == [Begin EXCEPT !.oops = @ \cup {"ack state"}]
  <2>1. e.last \in Int /\ held' = held
    BY <1>4, WithoutType, EventParts DEF OnObserveProxyAck
  <2>2. \/ Commit(Begin, Without(e), orphans)
        \/ Commit(wrong, Without(e), orphans)
        \/ a \in DOMAIN ports
             /\ Commit(InitiateProxyRemoval(Begin, a), Without(e), orphans)
        \/ a \in DOMAIN ports /\ ports[a].state = "proxying"
             /\ Commit(TryRemoveProxy(flagged, a), Without(e), orphans)
    BY <1>4 DEF OnObserveProxyAck
  <2>3. Announces(held, Begin, wrong)
    <3>1. wrong.ports = Begin.ports /\ wrong.changed = Begin.changed
      BY <1>1 DEF HandlerState
    <3> HIDE DEF wrong
    <3>2. QED
      BY <3>1, AnnounceSend
  <2>4. ASSUME a \in DOMAIN ports
        PROVE  Announces(held, Begin, InitiateProxyRemoval(Begin, a))
    BY <1>1, <2>4, AnnounceRemoval
  <2>5. ASSUME a \in DOMAIN ports, ports[a].state = "proxying"
        PROVE  Announces(held, Begin, TryRemoveProxy(flagged, a))
    <3>1. ports[a] \in Port
      BY <2>5, PortType
    <3>2. port \in Port /\ port.state = "proxying" /\ port.signalable = ports[a].signalable
      BY <2>1, <2>5, <3>1 DEF Port
    <3>3. /\ flagged = [Begin EXCEPT !.ports[a] = port]
          /\ flagged.ports = [Begin.ports EXCEPT ![a] = port]
          /\ flagged.changed = Begin.changed
      BY <1>1, <2>5 DEF HandlerState
    <3> HIDE DEF port
    <3>4. [Begin EXCEPT !.ports[a] = port] \in HandlerState
      BY <1>1, <2>5, <3>2, SetPort
    <3>5. flagged \in HandlerState
      BY <3>3, <3>4, Zenon
    <3> HIDE DEF flagged
    <3>6. Announces(held, Begin, flagged)
      BY <1>1, <2>5, <3>2, <3>3, AnnounceReplace
    <3>7. a \in DOMAIN flagged.ports
      BY <1>1, <2>5, <3>3
    <3>8. Announces(held, flagged, TryRemoveProxy(flagged, a))
      BY <3>5, <3>7, AnnounceRemoval
    <3>9. QED
      BY <3>6, <3>8, AnnounceOrder
  <2> HIDE DEF flagged, wrong
  <2>6. PICK s : Announces(held, Begin, s) /\ Commit(s, Without(e), orphans)
    BY <1>1, <2>2, <2>3, <2>4, <2>5
  <2>7. QED
    BY <2>1, <2>6, CallWakes
<1>5. CASE OnObserveClosure(e)
  <2> DEFINE observed == ObservedClosure(Begin, a, e.last)
  <2>1. e.last \in Int /\ held' = held
    BY <1>5, WithoutType, EventParts DEF OnObserveClosure
  <2>2. \/ Commit(Begin, Without(e), orphans)
        \/ a \in DOMAIN ports /\ Commit(observed, Without(e), orphans)
        \/ a \in DOMAIN ports
             /\ Commit(TryRemoveProxy(observed, a), Without(e), orphans)
    <3>1. CASE a \notin DOMAIN ports
      BY <1>5, <3>1 DEF OnObserveClosure
    <3>2. CASE a \in DOMAIN ports
      BY <1>5, <3>2 DEF OnObserveClosure
    <3>3. QED
      BY <3>1, <3>2
  <2>3. ASSUME a \in DOMAIN ports
        PROVE  /\ observed \in HandlerState /\ a \in DOMAIN observed.ports
               /\ Announces(held, Begin, observed)
    BY <1>1, <2>1, <2>3, ObservedClosureType, AnnounceClosure
  <2> HIDE DEF observed
  <2>4. ASSUME a \in DOMAIN ports
        PROVE  Announces(held, Begin, TryRemoveProxy(observed, a))
    <3>1. Announces(held, observed, TryRemoveProxy(observed, a))
      BY <2>3, <2>4, AnnounceRemoval
    <3>2. QED
      BY <2>3, <2>4, <3>1, AnnounceOrder
  <2>5. PICK s : Announces(held, Begin, s) /\ Commit(s, Without(e), orphans)
    BY <1>1, <2>2, <2>3, <2>4
  <2>6. QED
    BY <2>1, <2>5, CallWakes
<1>6. CASE OnProxyDied(e)
  <2> DEFINE n == e.to[1]
             S == {b \in DOMAIN ports : b[1] = n /\ ports[b].peer = e.proxy}
             st == DestroyAllPortsWithPeer(Begin, n, S)
  <2>1. Commit(st, Without(e), orphans) /\ held' = held
    BY <1>6 DEF OnProxyDied
  <2> HIDE DEF S, n
  <2>2. Announces(held, Begin, st)
    BY <1>1, AnnounceDestroy
  <2> HIDE DEF st
  <2>3. QED
    BY <2>1, <2>2, CallWakes
<1>7. QED
  BY <1>2, <1>3, <1>4, <1>5, <1>6

\* A port that is still to be made has no handle.
LEMMA WireNotHeld ==
  ASSUME TypeOK, UniqueInv, NEW e \in BagToSet(net), Carrier(e)
  PROVE  \A d \in Wire(e), b \in held : b[2] # d.name
<1>1. e \in DOMAIN net /\ Wire(e) \subseteq Carried(e)
  BY WithoutType, CarriedType DEF BagToSet
<1>2. OnePlace(ports, DOMAIN net, held)
  BY DEF UniqueInv, Sound
<1>3. \A d \in Carried(e), b \in held : b[2] # d.name
  BY <1>1, <1>2 DEF OnePlace
<1>4. QED
  BY <1>1, <1>3

\* Port a has become r, and is reported if a message can be read from it.
Reported(st, s, a, r) ==
  /\ s.ports = [st.ports EXCEPT ![a] = r]
  /\ s.changed = IF r.signalable /\ HasNextMessage(r) THEN {a} ELSE {}

\* A message reaches a receiving port: the port is reported if the message, or
\* one that waited for it, can be read now.
LEMMA QueuedWakes ==
  ASSUME TypeOK, WakeInv, NEW st \in HandlerState, Announces(held, Begin, st),
         st.changed = {}, NEW a \in DOMAIN st.ports, NEW s,
         NEW r, r.signalable = st.ports[a].signalable, Reported(st, s, a, r)
  PROVE  Wakes(s, held)
<1>1. /\ DOMAIN s.ports = DOMAIN st.ports /\ s.ports[a] = r
      /\ \A b \in DOMAIN st.ports : b # a => s.ports[b] = st.ports[b]
  BY DEF Reported
<1>2. Wakes(st, held)
  BY AnnouncedWakes
<1>3. ASSUME NEW b \in held \cap DOMAIN s.ports
      PROVE  /\ s.ports[b].signalable
             /\ Readable(s.ports[b]) /\ b \notin s.changed => b \in notified
  <2>1. CASE b = a
    <3>1. r.signalable
      BY <1>1, <1>2, <1>3, <2>1 DEF Wakes
    <3>2. HasNextMessage(r) => a \in s.changed
      BY <3>1 DEF Reported
    <3>3. QED
      BY <1>1, <2>1, <3>1, <3>2 DEF Readable
  <2>2. CASE b # a
    <3>1. b \in DOMAIN st.ports /\ s.ports[b] = st.ports[b]
      BY <1>1, <1>3, <2>2
    <3>2. st.ports[b].signalable
      BY <1>2, <1>3, <3>1 DEF Wakes
    <3>3. ASSUME Readable(st.ports[b])
          PROVE  b \in notified
      BY <1>2, <1>3, <3>1, <3>3 DEF Wakes
    <3>4. QED
      BY <3>1, <3>2, <3>3
  <2>3. QED
    BY <2>1, <2>2
<1>4. QED
  BY <1>3 DEF Wakes

\* A message arrives.
LEMMA OnUserMessageWakes ==
  ASSUME TypeOK, UniqueInv, WakeInv, NEW e \in BagToSet(net), OnUserMessage(e)
  PROVE  WakeInv'
<1> DEFINE n == e.to[1]
           a == e.to
           here == {<<n, d.name>> : d \in e.msg.att}
           st == AcceptPorts(Begin, n, Wire(e))
           m == Local(e.msg)
           queued == [st EXCEPT !.ports[a].queue = @ \cup {m}]
           r == queued.ports[a]
           forwarded == ForwardUserMessagesFromProxy(queued, a)
           told == IF r.signalable /\ HasNextMessage(r) THEN {a} ELSE {}
           reported == [queued EXCEPT !.changed = told]
           accepted ==
             CASE r.state = "proxying" ->
                    IF forwarded.ok THEN TryRemoveProxy(forwarded, a)
                    ELSE forwarded
               [] r.state = "buffering" -> queued
               [] r.state = "receiving" -> reported
           unknown == [st EXCEPT !.oops = @ \cup {"port unknown"}]
           rejected == [st EXCEPT !.orphans = here]
<1>1. /\ e \in Event /\ n \in Node /\ e.msg \in Message
      /\ IsMessage(e) /\ Carrier(e) /\ held' = held
  BY WithoutType, EventParts DEF OnUserMessage, IsMessage, Carrier
<1>2. Begin \in HandlerState /\ Begin.changed = {}
  BY BeginType DEF Begin
<1>3. Wire(e) = {d \in e.msg.att : d.referring # NoAddr} /\ Wire(e) \in SUBSET Moved
  BY <1>1, CarriedType DEF Wire
<1>4. m \in Message
  BY <1>1, LocalMessage DEF Local
<1>5. st \in HandlerState /\ Announces(held, Begin, st)
  BY <1>1, <1>2, <1>3, AcceptPortsType, AnnounceAccept, WireNotHeld
<1>6. st.changed = {}
  BY <1>2 DEF AcceptPorts, HandlerState
<1>7. \/ Commit(unknown, Without(e), orphans)
      \/ a \in DOMAIN st.ports /\ Commit(accepted, Without(e), orphans)
      \/ Commit(rejected, Without(e), orphans)
  BY <1>3 DEF OnUserMessage, Local
<1> HIDE DEF st, m
<1>8. Wakes(unknown, held) /\ Wakes(rejected, held)
  <2>1. /\ unknown.ports = st.ports /\ unknown.changed = st.changed
        /\ rejected.ports = st.ports /\ rejected.changed = st.changed
    BY <1>5 DEF HandlerState
  <2>2. Wakes(st, held)
    BY <1>5, AnnouncedWakes
  <2> HIDE DEF unknown, rejected
  <2>3. QED
    BY <2>1, <2>2 DEF Wakes
<1>9. ASSUME a \in DOMAIN st.ports
      PROVE  Wakes(accepted, held)
  <2> DEFINE q == [st.ports[a] EXCEPT !.queue = @ \cup {m}]
  <2>1. /\ queued \in HandlerState /\ a \in DOMAIN queued.ports
        /\ queued.ports = [st.ports EXCEPT ![a] = q] /\ queued.changed = st.changed
    <3>1. queued \in HandlerState /\ DOMAIN queued.ports = DOMAIN st.ports
      BY <1>4, <1>5, <1>9, QueuedType
    <3>2. queued.ports = [st.ports EXCEPT ![a] = q] /\ queued.changed = st.changed
      BY <1>5, <1>9 DEF HandlerState
    <3>3. QED
      BY <1>9, <3>1, <3>2
  <2>2. q \in Port /\ q.state = st.ports[a].state /\ q.signalable = st.ports[a].signalable
    <3>1. st.ports[a] \in Port
      BY <1>5, <1>9, PortOfState
    <3>2. q.state = st.ports[a].state /\ q.signalable = st.ports[a].signalable
      BY <3>1 DEF Port
    <3>3. queued.ports[a] = q /\ queued.ports[a] \in Port
      BY <1>9, <2>1, PortOfState
    <3>4. QED
      BY <3>2, <3>3
  <2>3. r = q
    BY <1>9, <2>1
  <2>4. Wakes(reported, held)
    <3>1. Reported(st, reported, a, q)
      BY <2>1, <2>3 DEF HandlerState, Reported
    <3> HIDE DEF reported, q
    <3>2. QED
      BY <1>5, <1>6, <1>9, <2>2, <3>1, QueuedWakes
  <2>5. ASSUME r.state # "receiving"
        PROVE  Wakes(queued, held) /\ Announces(held, Begin, queued)
    <3> HIDE DEF q, queued
    <3>1. Announces(held, st, queued)
      BY <1>5, <1>9, <2>1, <2>2, <2>3, <2>5, AnnounceReplace
    <3>2. Announces(held, Begin, queued)
      BY <1>5, <3>1, AnnounceOrder
    <3>3. QED
      BY <3>2, AnnouncedWakes
  <2> HIDE DEF q, queued
  <2>6. ASSUME r.state = "proxying"
        PROVE  Wakes(forwarded, held) /\ Wakes(TryRemoveProxy(forwarded, a), held)
    <3>1. Announces(held, Begin, queued)
      BY <2>5, <2>6
    <3>2. /\ forwarded \in HandlerState /\ a \in DOMAIN forwarded.ports
          /\ Announces(held, queued, forwarded)
      BY <2>1, <2>6, ForwardFromProxyType, AnnounceForward
    <3> HIDE DEF forwarded
    <3>3. Announces(held, Begin, forwarded)
      BY <3>1, <3>2, AnnounceOrder
    <3>4. Announces(held, forwarded, TryRemoveProxy(forwarded, a))
      BY <3>2, AnnounceRemoval
    <3>5. Announces(held, Begin, TryRemoveProxy(forwarded, a))
      BY <3>3, <3>4, AnnounceOrder
    <3>6. QED
      BY <3>3, <3>5, AnnouncedWakes
  <2>7. r.state \in {"receiving", "buffering", "proxying"}
    BY <2>2, <2>3, PortFields
  <2> HIDE DEF r, forwarded, reported
  <2>8. QED
    BY <2>4, <2>5, <2>6, <2>7
<1> HIDE DEF accepted, unknown, rejected
<1>10. PICK s : Wakes(s, held) /\ Commit(s, Without(e), orphans)
  BY <1>7, <1>8, <1>9
<1>11. QED
  BY <1>1, <1>10, CommitWakes

\* A port is made and merged with one that was kept for it.
LEMMA OnMergePortWakes ==
  ASSUME TypeOK, UniqueInv, WakeInv, NEW e \in BagToSet(net), OnMergePort(e)
  PROVE  WakeInv'
<1> DEFINE n == e.to[1]
           b == <<n, e.new.name>>
           st == AcceptPorts(Begin, n, {e.new})
           merged == MergePortsInternal(st, e.to, b, FALSE)
           found == e.to \in DOMAIN ports
<1>1. n \in Node /\ {e.new} \in SUBSET Moved /\ e \in Event /\ held' = held
  BY WithoutType, EventParts DEF OnMergePort
<1>2. Begin \in HandlerState /\ Begin.ports = ports /\ Announces(held, Begin, Begin)
  BY BeginType, AnnounceOrder
<1>3. /\ st \in HandlerState
      /\ DOMAIN st.ports = DOMAIN ports \cup {b}
      /\ st.ok <=> b \notin DOMAIN ports
  <2>1. /\ st \in HandlerState
        /\ DOMAIN st.ports = DOMAIN ports \cup {<<n, d.name>> : d \in {e.new}}
        /\ st.ok <=> \A d \in {e.new} : <<n, d.name>> \notin DOMAIN ports
    BY <1>1, <1>2, AcceptPortsType
  <2> HIDE DEF st
  <2>2. QED
    BY <2>1
<1>4. \/ st.ok /\ found /\ Commit(merged, Without(e), orphans)
      \/ Commit(Close(st, b), Without(e), orphans)
      \/ found /\ Commit(Close(Begin, e.to), Without(e), orphans)
      \/ Commit(Begin, Without(e), orphans)
  <2> HIDE DEF st, merged
  <2>1. /\ st.ok /\ found => Commit(merged, Without(e), orphans)
        /\ st.ok /\ ~found => Commit(Close(st, b), Without(e), orphans)
        /\ ~st.ok /\ found => Commit(Close(Begin, e.to), Without(e), orphans)
        /\ ~st.ok /\ ~found => Commit(Begin, Without(e), orphans)
    BY DEF OnMergePort, st, merged
  <2>2. QED
    BY <2>1
<1>5. Carrier(e) /\ Wire(e) = {e.new}
  BY DEF OnMergePort, Carrier, IsMerge, IsMessage, Wire
<1>6. Announces(held, Begin, st)
  <2>1. \A d \in {e.new}, x \in held : x[2] # d.name
    BY <1>5, WireNotHeld
  <2>2. QED
    BY <1>1, <1>2, <2>1, AnnounceAccept
<1> HIDE DEF st
<1>7. ASSUME st.ok, found
      PROVE  Announces(held, Begin, merged)
  <2>1. e.to \in DOMAIN st.ports /\ b \in DOMAIN st.ports /\ e.to # b
    BY <1>3, <1>7
  <2>2. Announces(held, st, merged)
    BY <1>3, <2>1, AnnounceMerge
  <2>3. QED
    BY <1>6, <2>2, AnnounceOrder
<1>8. Announces(held, Begin, Close(st, b))
  <2>1. Announces(held, st, Close(st, b))
    BY <1>3, AnnounceRemoval
  <2>2. QED
    BY <1>6, <2>1, AnnounceOrder
<1>9. ASSUME found
      PROVE  Announces(held, Begin, Close(Begin, e.to))
  BY <1>2, <1>9, AnnounceRemoval
<1> HIDE DEF merged, found
<1>10. PICK s : Announces(held, Begin, s) /\ Commit(s, Without(e), orphans)
  BY <1>2, <1>4, <1>7, <1>8, <1>9
<1>11. QED
  BY <1>1, <1>10, CallWakes

\* A port is kept for a merge and becomes a proxy.
LEMMA MergePortsWakes ==
  ASSUME TypeOK, WakeInv, NEW a, NEW b \in Addr, MergePorts(a, b)
  PROVE  WakeInv'
<1> DEFINE r == ports[a]
           to == <<b[1], lastName + 1>>
           port == ConvertToProxy(r, to)
           told == {c \in DOMAIN ports : c = r.peer /\ c[1] = a[1] /\ b[1] # a[1]}
           st == [Begin EXCEPT !.ports[a] = port, !.lastName = @ + 1, !.changed = told,
                               !.out = {MergePort(a[1], b, DescriptorOf(a, r, to[2]))}]
<1>1. Begin \in HandlerState /\ Begin.ports = ports /\ Begin.changed = {}
  BY BeginType DEF Begin
<1>2. a \in DOMAIN ports /\ held' = held /\ Commit(st, net, orphans)
  BY DEF MergePorts, Idle
<1>3. to \in Addr /\ r \in Port
  <2>1. lastName + 1 \in PortName
    BY DEF TypeOK, PortName
  <2>2. QED
    BY <1>2, <2>1, AddrParts, PortType
<1>4. port \in Port
  BY <1>3, ConvertToProxyType
<1>5. port.state = "buffering" /\ port.signalable = r.signalable
  BY <1>3 DEF ConvertToProxy, Port
<1>6. st.ports = [Begin.ports EXCEPT ![a] = port]
  BY <1>1 DEF HandlerState
<1> HIDE DEF port, st
<1>7. Announces(held, Begin, st)
  BY <1>1, <1>2, <1>4, <1>5, <1>6, AnnounceReplace
<1>8. QED
  BY <1>2, <1>7, CallWakes

\* A pair of ports is created: both are reported when they get their handles.
LEMMA CreatePortPairWakes ==
  ASSUME TypeOK, UniqueInv, WakeInv, NEW n \in Node, CreatePortPair(n)
  PROVE  WakeInv'
<1> DEFINE p == lastName + 1
           q == lastName + 2
           Other(x) == IF x = p THEN q ELSE p
           new == {<<n, p>>, <<n, q>>}
           f == [b \in new |-> NewPort(<<n, Other(b[2])>>, b[2])]
<1>1. /\ ports' = Extend(ports, f) /\ held' = held \cup new
      /\ notified' = notified \cup new
  BY DEF CreatePortPair
<1>2. DOMAIN f = new /\ \A b \in new : f[b].signalable
  BY DEF NewPort
<1> HIDE DEF f, new
<1>3. ASSUME NEW a \in held' \cap DOMAIN ports'
      PROVE  /\ ports'[a].signalable
             /\ Readable(ports'[a]) => a \in notified'
  <2>1. CASE a \in DOMAIN ports /\ a \in held
    <3>1. ports'[a] = ports[a]
      BY <1>1, <2>1 DEF Extend
    <3>2. QED
      BY <1>1, <2>1, <3>1 DEF WakeInv, NoLostWakeup, Readable
  <2>2. CASE a \in DOMAIN ports /\ a \notin held
    <3>1. ports'[a] = ports[a] /\ a \in new
      BY <1>1, <1>3, <2>2 DEF Extend
    <3>2. a[2] = lastName + 1 \/ a[2] = lastName + 2
      BY <3>1 DEF new
    <3>3. a[2] <= lastName /\ lastName \in Nat
      BY <2>2 DEF UniqueInv, Sound, NamesDrawn, TypeOK
    <3>4. QED
      BY <3>2, <3>3
  <2>3. CASE a \notin DOMAIN ports
    <3>1. a \in new /\ ports'[a] = f[a]
      BY <1>1, <1>2, <1>3, <2>3 DEF Extend
    <3>2. QED
      BY <1>1, <1>2, <3>1
  <2>4. QED
    BY <2>1, <2>2, <2>3
<1>4. NoLostWakeup'
  BY <1>3 DEF NoLostWakeup, Readable, HasNextMessage, CanAcceptMoreMessages
<1>5. QED
  BY <1>3, <1>4 DEF WakeInv

\* A message is sent, or refused.
LEMMA SendUserMessageWakes ==
  ASSUME TypeOK, WakeInv, NEW a \in held, NEW A \in FiniteSubset(held),
         SendUserMessage(a, A)
  PROVE  WakeInv'
<1> DEFINE r == ports[a]
           m == [seq |-> r.nextSend % SeqModulus, num |-> r.nextSend,
                 from |-> r.end,
                 att |-> {LocalPort(b[2], ports[b].end) : b \in A}]
           up == [r EXCEPT !.nextSend = @ + 1]
           down == [up EXCEPT !.nextSend = @ - 1]
           numbered == [Begin EXCEPT !.ports[a].nextSend = @ + 1]
           backed == Backpedal(numbered, a)
           refused == IF RefusedAtOnce(a, A) THEN Begin ELSE backed
           sending == PrepareToForwardUserMessage(numbered, a, {m})
           refusing == [refused EXCEPT !.orphans = A \ {a}]
<1>1. a \in DOMAIN ports /\ r.state = "receiving"
  BY DEF SendUserMessage, Usable
<1>2. Begin \in HandlerState /\ Begin.ports = ports
  BY BeginType
<1>3. numbered \in HandlerState /\ DOMAIN numbered.ports = DOMAIN ports
  BY <1>1, <1>2, NumberedType
<1>4. /\ numbered.ports = [Begin.ports EXCEPT ![a] = up]
      /\ numbered.changed = Begin.changed
  BY <1>2 DEF HandlerState
<1>5. /\ r \in Port /\ up \in Port /\ up.state = "receiving"
      /\ up.signalable = r.signalable /\ SameToRead(r, up)
  <2>1. r \in Port /\ r.nextSend + 1 \in Int
    BY <1>1, PortType
  <2>2. QED
    BY <1>1, <2>1 DEF Port, SameToRead
<1>6. /\ down \in Port /\ down.state = "receiving"
      /\ down.signalable = up.signalable /\ SameToRead(up, down)
  <2>1. up.nextSend \in Int /\ up.nextSend - 1 \in Int
    BY <1>5 DEF Port
  <2> HIDE DEF up
  <2>2. QED
    BY <1>5, <2>1 DEF Port, SameToRead
<1> HIDE DEF up
<1>7. \/ Commit(sending, net, orphans)
      \/ Commit(refusing, net, orphans)
  BY DEF SendUserMessage
<1>8. held' \subseteq held
  BY DEF SendUserMessage
<1>9. Announces(held, Begin, numbered)
  BY <1>1, <1>2, <1>4, <1>5, AnnounceReplace
<1>10. backed \in HandlerState /\ backed.ports = [numbered.ports EXCEPT ![a] = down]
         /\ backed.changed = numbered.changed
  <2>1. numbered.ports[a] = up
    BY <1>1, <1>2, <1>4
  <2>2. backed \in HandlerState
    BY <1>1, <1>3, NumberedType
  <2> HIDE DEF numbered
  <2>3. QED
    BY <1>3, <2>1, <2>2 DEF Backpedal, HandlerState
<1> HIDE DEF m, numbered, down, backed
<1>11. Announces(held, numbered, backed)
  <2>1. a \in DOMAIN numbered.ports /\ numbered.ports[a] = up
    BY <1>1, <1>2, <1>3, <1>4
  <2>2. QED
    BY <1>3, <1>5, <1>6, <1>10, <2>1, AnnounceReplace
<1>12. Announces(held, Begin, refused) /\ refused \in HandlerState
  <2>1. Announces(held, Begin, backed)
    BY <1>9, <1>11, AnnounceOrder
  <2>2. QED
    BY <1>2, <1>10, <2>1, AnnounceOrder
<1> HIDE DEF refused
<1>13. Announces(held, Begin, refusing)
  <2>1. refusing.ports = refused.ports /\ refusing.changed = refused.changed
    BY <1>12 DEF HandlerState
  <2> HIDE DEF refusing
  <2>2. Announces(held, refused, refusing)
    BY <2>1, AnnounceSend
  <2>3. QED
    BY <1>12, <2>2, AnnounceOrder
<1>14. Announces(held, Begin, sending)
  <2>1. Announces(held, numbered, sending)
    BY <1>3, AnnouncePrepare
  <2>2. QED
    BY <1>9, <2>1, AnnounceOrder
<1> HIDE DEF sending, refusing
<1>15. QED
  BY <1>7, <1>8, <1>13, <1>14, CallWakes

\* A message is read: the port stays to be served until nothing is left, and
\* the ports that come with the message are served too.
LEMMA GetMessageWakes ==
  ASSUME TypeOK, WakeInv, NEW a \in held, GetMessage(a)
  PROVE  WakeInv'
<1> DEFINE r == ports[a]
           m == CHOOSE x \in r.queue : x.seq = r.nextRecv
           new == {<<a[1], p>> : p \in Attached({m})}
           port == [r EXCEPT !.queue = @ \ {m}, !.nextRecv = @ + 1]
           taken == [ports EXCEPT ![a] = port]
<1>1. a \in DOMAIN ports /\ r.state = "receiving" /\ r \in Port
  BY PortType DEF GetMessage, Usable
<1>2. CASE /\ CanAcceptMoreMessages(r) /\ HasNextMessage(r)
           /\ ports' = SetSignalable(taken, new)
           /\ held' = held \cup (new \cap DOMAIN ports)
           /\ notified' = notified \cup (new \cap DOMAIN ports)
  <2>1. a \in notified
    BY <1>1, <1>2 DEF WakeInv, NoLostWakeup
  <2>2. port.signalable = r.signalable
    BY <1>1 DEF Port
  <2> HIDE DEF new, port
  <2>3. /\ DOMAIN ports' = DOMAIN ports
        /\ \A b \in DOMAIN ports : b \notin new => ports'[b] = taken[b]
    BY <1>2 DEF SetSignalable
  <2>4. \A b \in DOMAIN ports : b \in new => ports'[b].signalable
    <3>1. ASSUME NEW b \in DOMAIN ports, b \in new
          PROVE  ports'[b].signalable
      <4>1. taken[b] \in Port
        <5>1. taken[b] = port \/ taken[b] = ports[b]
          OBVIOUS
        <5>2. port \in Port
          <6>1. r.nextRecv + 1 \in Nat \ {0} /\ r.queue \ {m} \in FiniteSubset(Message)
            BY <1>1, SubsetOfFinite DEF Port
          <6> HIDE DEF m
          <6>2. QED
            BY <1>1, <6>1 DEF Port, port
        <5>3. QED
          BY <3>1, <5>1, <5>2, PortType
      <4>2. ports'[b] = [taken[b] EXCEPT !.signalable = TRUE]
        BY <1>2, <3>1 DEF SetSignalable
      <4>3. QED
        BY <4>1, <4>2 DEF Port
    <3>2. QED
      BY <3>1
  <2>5. ASSUME NEW b \in held' \cap DOMAIN ports'
        PROVE  /\ ports'[b].signalable
               /\ Readable(ports'[b]) => b \in notified'
    <3>1. CASE b \in new
      BY <1>2, <2>3, <2>4, <2>5, <3>1
    <3>2. CASE b \notin new /\ b = a
      <4>1. ports'[b] = port
        BY <1>1, <2>3, <3>2
      <4>2. QED
        BY <1>1, <1>2, <2>1, <2>2, <3>2, <4>1 DEF WakeInv
    <3>3. CASE b \notin new /\ b # a
      <4>1. ports'[b] = ports[b] /\ b \in held \cap DOMAIN ports
        BY <1>1, <1>2, <2>3, <2>5, <3>3
      <4>2. QED
        BY <1>2, <4>1 DEF WakeInv, NoLostWakeup, Readable
    <3>4. QED
      BY <3>1, <3>2, <3>3
  <2>6. NoLostWakeup'
    BY <2>5 DEF NoLostWakeup, Readable, HasNextMessage, CanAcceptMoreMessages
  <2>7. QED
    BY <2>5, <2>6 DEF WakeInv
<1>3. CASE /\ ~(CanAcceptMoreMessages(r) /\ HasNextMessage(r))
           /\ notified' = notified \ {a}
           /\ ports' = ports /\ held' = held
  <2>1. ASSUME NEW b \in held \cap DOMAIN ports, Readable(ports[b])
        PROVE  b \in notified'
    BY <1>3, <2>1 DEF WakeInv, NoLostWakeup, Readable
  <2>2. NoLostWakeup'
    BY <1>3, <2>1 DEF NoLostWakeup, Readable, HasNextMessage, CanAcceptMoreMessages
  <2>3. QED
    BY <1>3, <2>2 DEF WakeInv
<1>4. QED
  BY <1>2, <1>3 DEF GetMessage

\* A process dies, or its death is noticed.
LEMMA FailureWakes ==
  ASSUME TypeOK, WakeInv, Failure
  PROVE  WakeInv'
<1>1. ASSUME NEW m \in Node, Crash(m)
      PROVE  WakeInv'
  <2>1. /\ ports' = [a \in DOMAIN ports \ On(m, DOMAIN ports) |-> ports[a]]
        /\ held' = held \ On(m, held) /\ notified' = notified \ On(m, notified)
    BY <1>1 DEF Crash
  <2>2. ASSUME NEW a \in held' \cap DOMAIN ports'
        PROVE  /\ ports'[a].signalable
               /\ Readable(ports'[a]) => a \in notified'
    <3>1. a \in held \cap DOMAIN ports /\ ports'[a] = ports[a] /\ a[1] # m
      BY <2>1, <2>2 DEF On
    <3>2. a \in notified => a \in notified'
      BY <2>1, <3>1 DEF On
    <3>3. QED
      BY <3>1, <3>2 DEF WakeInv, NoLostWakeup, Readable
  <2>3. NoLostWakeup'
    BY <2>2 DEF NoLostWakeup, Readable, HasNextMessage, CanAcceptMoreMessages
  <2>4. QED
    BY <2>2, <2>3 DEF WakeInv
<1>2. ASSUME NEW n \in Node, NEW m \in Node, LostConnectionToNode(n, m)
      PROVE  WakeInv'
  <2> DEFINE S == {b \in On(n, DOMAIN ports) : ports[b].peer[1] = m}
             keep == {e \in BagToSet(net) : ~(e.src = m /\ e.to[1] = n)}
             pending == [e \in keep |-> net[e]]
             dropped == Dropped(n, m)
             st == DestroyAllPortsWithPeer(dropped, n, S)
  <2>1. Commit(st, pending, orphans) /\ held' \subseteq held
    BY <1>2 DEF LostConnectionToNode
  <2>2. /\ dropped \in HandlerState /\ dropped.ports = Begin.ports
        /\ dropped.changed = Begin.changed
    BY DroppedType
  <2> HIDE DEF S, pending, dropped
  <2>3. Announces(held, dropped, st)
    BY <2>2, AnnounceDestroy
  <2> HIDE DEF st
  <2>4. Announces(held, Begin, dropped)
    BY <2>2, AnnounceSend
  <2>5. Announces(held, Begin, st)
    BY <2>3, <2>4, AnnounceOrder
  <2>6. QED
    BY <2>1, <2>5, CallWakes
<1>3. QED
  BY <1>1, <1>2 DEF Failure

\* At the start every handle has its first notification.
LEMMA InitWakes == Init => WakeInv
<1> SUFFICES ASSUME NEW pipes \in Topologies, InitWith(pipes)
             PROVE  WakeInv
  BY DEF Init
<1> DEFINE Peer(a) == CHOOSE b \in PortsOf(pipes) : \/ <<a, b>> \in pipes
                                                    \/ <<b, a>> \in pipes
<1>1. ports = [a \in PortsOf(pipes) |-> NewPort(Peer(a), a[2])] /\ notified = held
  BY DEF InitWith
<1>2. \A a \in DOMAIN ports : ports[a].signalable
  BY <1>1 DEF NewPort
<1>3. QED
  BY <1>1, <1>2 DEF WakeInv, NoLostWakeup

\* Every step keeps the invariant.
LEMMA NextWakes == TypeOK /\ UniqueInv /\ WakeInv /\ [Next]_vars => WakeInv'
<1> SUFFICES ASSUME TypeOK, UniqueInv, WakeInv, [Next]_vars
             PROVE  WakeInv'
  OBVIOUS
<1>1. CASE Embedder
  <2>1. ASSUME NEW n \in Node, CreatePortPair(n)
        PROVE  WakeInv'
    BY <2>1, CreatePortPairWakes
  <2>2. ASSUME NEW a \in held, GetMessage(a)
        PROVE  WakeInv'
    BY <2>2, GetMessageWakes
  <2>3. ASSUME NEW a \in held,
               NEW A \in FiniteSubset({b \in held : b[1] = a[1]}),
               SendUserMessage(a, A)
        PROVE  WakeInv'
    <3>1. A \in FiniteSubset(held)
      BY DEF FiniteSubset
    <3>2. QED
      BY <2>3, <3>1, SendUserMessageWakes
  <2>4. ASSUME NEW a \in held, NEW b \in held, MergeLocalPorts(a, b)
        PROVE  WakeInv'
    BY <2>4, MergeLocalPortsWakes
  <2>5. ASSUME NEW a \in DOMAIN ports, ClosePort(a)
        PROVE  WakeInv'
    BY <2>5, CloseWakes
  <2>6. ASSUME NEW a \in DOMAIN ports, NEW b \in InitialPorts, MergePorts(a, b)
        PROVE  WakeInv'
    <3>1. PICK pipes \in Topologies : b \in PortsOf(pipes)
      BY DEF InitialPorts
    <3>2. b \in Addr
      BY <3>1, InitialPeers
    <3>3. QED
      BY <2>6, <3>2, MergePortsWakes
  <2>7. QED
    BY <1>1, <2>1, <2>2, <2>3, <2>4, <2>5, <2>6 DEF Embedder
<1>2. CASE Internal
  <2>1. ASSUME NEW e \in BagToSet(net), AcceptEvent(e)
        PROVE  WakeInv'
    BY <2>1, OnUserMessageWakes, PlainHandlersWake, OnMergePortWakes DEF AcceptEvent
  <2>2. ASSUME NEW a \in orphans, CloseOrphan(a)
        PROVE  WakeInv'
    BY <2>2, CloseWakes
  <2>3. QED
    BY <1>2, <2>1, <2>2 DEF Internal
<1>3. CASE Failure
  BY <1>3, FailureWakes
<1>4. CASE UNCHANGED vars
  BY <1>4 DEF WakeInv, NoLostWakeup, HasNextMessage, CanAcceptMoreMessages, vars
<1>5. QED
  BY <1>1, <1>2, <1>3, <1>4 DEF Next

\* A message that the embedder can read does not wait unannounced: whatever
\* threads do in between, a port with a handle, a readable message and no
\* PortStatusChanged still to serve does not come about (Node::OnUserMessage,
\* OnObserveClosure, DestroyAllPortsWithPeer and GetMessage).
THEOREM NoWakeupLost == Spec => []NoLostWakeup
<1>1. Spec => [](TypeOK /\ UniqueInv)
  BY Uniqueness
<1>2. Init => WakeInv
  BY InitWakes
<1>3. TypeOK /\ UniqueInv /\ WakeInv /\ [Next]_vars => WakeInv'
  BY NextWakes
<1>4. WakeInv => NoLostWakeup
  BY DEF WakeInv
<1>5. QED
  BY <1>1, <1>2, <1>3, <1>4, PTL DEF Spec
=============================================================================
