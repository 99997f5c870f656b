----------------------------- MODULE PortsRoutes -----------------------------
(***************************************************************************)
(* Routes: a message reaches the end it was sent to, and a port learns of  *)
(* closure when, and with the number with which, its conjugate was closed. *)
(*                                                                         *)
(* Names of ports are labelled by the end at which messages to them are to *)
(* arrive.  A port that moves passes its label on to its new name, a proxy *)
(* forwards within its label, and a receiving port's peer is labelled with *)
(* the conjugate; a fuse of two pipes merges labels.  Along a route, the   *)
(* numbers of messages and what an end knows of them add up.               *)
(***************************************************************************)
EXTENDS PortsUnique

\* The end whose messages pass a port may be told from the port's name: L is
\* such a labelling, by the end at which the messages are to arrive.
Labels == [PortName -> PortName]

\* What is known of the pipes: the conjugates of ends, how many messages each
\* has sent, and whether all processes are alive.
Pipes == [conj |-> [t \in DOMAIN ends |-> ends[t].conj],
          sent |-> [t \in DOMAIN ends |-> ends[t].sent],
          whole |-> alive = Node]

\* Ends have been drawn, have a conjugate and have sent some messages.
PipesTyped(w, last) ==
  /\ w.conj \in [DOMAIN w.conj -> PortName]
  /\ w.sent \in [DOMAIN w.conj -> Nat]
  /\ \A t \in DOMAIN w.conj : t \in PortName /\ t <= last

\* Two ends that are each other's conjugates.
Facing(w, t) ==
  /\ t \in DOMAIN w.conj /\ w.conj[t] \in DOMAIN w.conj
  /\ w.conj[w.conj[t]] = t /\ w.conj[t] # t

\* What tells messages apart, and what tells how far an end has come; all that
\* there are in ports and events.
Id(m)   == <<m.from, m.num, m.seq>>
Seat(r) == <<r.end, r.nextSend, r.nextRecv>>
Messages(ps, ev) == (UNION {ps[a].queue : a \in DOMAIN ps})
                      \cup {e.msg : e \in {x \in ev : IsMessage(x)}}
Ids(ps, ev) == {Id(m) : m \in Messages(ps, ev)}
Seats(ps, ev) ==
  {Seat(r) : r \in {ps[a] : a \in {b \in DOMAIN ps : ps[b].state = "receiving"}}
                     \cup UNION {Wire(e) : e \in {x \in ev : Carrier(x)}}}

\* Nobody sends or receives for end t any more.
Vacant(S, t) == \A s \in S : s[1] # t

\* Messages are numbered from one as they are sent, an end knows how many it
\* has sent, and has read only what its conjugate had sent.
Counted(w, I, S) ==
  /\ \A i \in I : /\ i[1] \in DOMAIN w.conj
                  /\ i[2] \in Int /\ 1 <= i[2] /\ i[2] <= w.sent[i[1]] /\ i[3] = i[2]
  /\ \A s \in S : /\ Facing(w, s[1])
                  /\ s[2] = w.sent[s[1]] + 1
                  /\ s[3] <= w.sent[w.conj[s[1]]] + 1
                  /\ \A i \in I : i[1] = w.conj[s[1]] => i[2] >= s[3]

\* An end, if it is still there, may be told that this was the last message.
Closed(w, S, t, last) ==
  Vacant(S, t) \/ (Vacant(S, w.conj[t]) /\ last = w.sent[w.conj[t]])

\* A port that receives does so for its label, and sends to where messages for
\* the conjugate pass; a proxy's peer is on the same way as the proxy.  If it
\* knows of a closure, there was one.
PortRight(w, S, L, last, a, r) ==
  /\ a[2] <= last /\ r.peer[2] <= last
  /\ Facing(w, L[a[2]])
  /\ r.state = "receiving" => L[a[2]] = r.end
  /\ L[r.peer[2]] = IF r.state = "receiving" THEN w.conj[L[a[2]]] ELSE L[a[2]]
  /\ \A m \in r.queue : m.from = w.conj[L[a[2]]]
  /\ w.whole =>
       /\ r.state = "receiving" => ~r.removeOnLast
       /\ \/ r.state = "receiving" /\ r.peerClosed
          \/ r.state = "buffering" /\ r.removeOnLast
          => Closed(w, S, L[a[2]], r.lastRecv)

\* A descriptor will make a port that fits in.
DescriptorRight(w, S, L, last, d) ==
  /\ d.name <= last /\ d.peer[2] <= last
  /\ Facing(w, d.end) /\ L[d.name] = d.end /\ L[d.peer[2]] = w.conj[d.end]
  /\ w.whole /\ d.peerClosed => Closed(w, S, d.end, d.lastRecv)

\* A message is on its way to the conjugate of its sender, a proxy is
\* bypassed on its own way, and a closure that is announced has happened.
EventRight(w, S, L, last, e) ==
  /\ IsMessage(e) \/ e.type = "ObserveClosure"
       => e.to[2] <= last /\ Facing(w, L[e.to[2]])
  /\ IsMessage(e) => e.msg.from = w.conj[L[e.to[2]]]
  /\ Carrier(e) => \A d \in Wire(e) : DescriptorRight(w, S, L, last, d)
  /\ e.type = "ObserveProxy" =>
       /\ e.proxy[2] <= last /\ e.target[2] <= last
       /\ L[e.proxy[2]] = L[e.target[2]]
  /\ w.whole =>
       /\ e.type = "ObserveClosure" => Closed(w, S, L[e.to[2]], e.last)
       /\ e.type # "ProxyDied"

\* All ports and events are right, and so are the numbers in them.
Right(w, L, last, ps, ev) ==
  /\ \A a \in DOMAIN ps : PortRight(w, Seats(ps, ev), L, last, a, ps[a])
  /\ \A e \in ev : EventRight(w, Seats(ps, ev), L, last, e)
  /\ Counted(w, Ids(ps, ev), Seats(ps, ev))

\* The same while a handler runs: E are the events it leaves under way.
HandlerRight(w, L, st, E) == Right(w, L, st.lastName, st.ports, E \cup st.out)

-----------------------------------------------------------------------------
(***************************************************************************)
(* Names that are drawn get a label, and the others keep theirs.           *)
(***************************************************************************)
\* K is L for the names up to last.
Widens(L, K, last) == \A p \in PortName : p <= last => K[p] = L[p]

\* The names in ports and events.
LEMMA NamesTyped ==
  /\ \A ps \in PortMap : \A a \in DOMAIN ps :
       /\ a[2] \in PortName /\ ps[a].peer[2] \in PortName /\ ps[a].end \in PortName
       /\ ps[a].peer[1] \in Node /\ ps[a].peer = <<ps[a].peer[1], ps[a].peer[2]>>
  /\ \A e \in Event :
       /\ IsMessage(e) \/ e.type = "ObserveClosure" => e.to[2] \in PortName
       /\ Carrier(e) => \A d \in Wire(e) :
            d.name \in PortName /\ d.peer[2] \in PortName /\ d.end \in PortName
       /\ e.type = "ObserveProxy" => e.proxy[2] \in PortName /\ e.target[2] \in PortName
<1>1. ASSUME NEW ps \in PortMap, NEW a \in DOMAIN ps
      PROVE  /\ a[2] \in PortName /\ ps[a].peer[2] \in PortName /\ ps[a].end \in PortName
             /\ ps[a].peer[1] \in Node /\ ps[a].peer = <<ps[a].peer[1], ps[a].peer[2]>>
  <2>1. a \in Addr /\ ps[a] \in Port
    BY PortMapCharacterised
  <2>2. ps[a].peer \in Addr /\ ps[a].end \in PortName
    BY <2>1 DEF Port
  <2>3. QED
    BY <2>1, <2>2, AddrParts
<1>2. ASSUME NEW e \in Event, IsMessage(e) \/ e.type = "ObserveClosure"
      PROVE  e.to[2] \in PortName
  BY <1>2, EventParts, AddrParts DEF IsMessage
<1>3. ASSUME NEW e \in Event, Carrier(e), NEW d \in Wire(e)
      PROVE  d.name \in PortName /\ d.peer[2] \in PortName /\ d.end \in PortName
  <2>1. d \in Moved
    BY <1>3, CarriedType
  <2>2. d.peer \in Addr /\ d.name \in PortName /\ d.end \in PortName
    BY <2>1 DEF Moved
  <2>3. QED
    BY <2>2, AddrParts
<1>4. ASSUME NEW e \in Event, e.type = "ObserveProxy"
      PROVE  e.proxy[2] \in PortName /\ e.target[2] \in PortName
  BY <1>4, EventParts, AddrParts
<1>5. QED
  BY <1>1, <1>2, <1>3, <1>4

\* What is right stays so when more names have labels.
LEMMA RightWidens ==
  ASSUME NEW w, NEW L, NEW K, NEW last \in Nat, NEW top \in Nat, last <= top,
         Widens(L, K, last), NEW ps \in PortMap, NEW ev \in SUBSET Event,
         Right(w, L, last, ps, ev)
  PROVE  Right(w, K, top, ps, ev)
<1>1. \A p \in PortName : p <= last => p <= top /\ K[p] = L[p]
  BY DEF Widens, PortName
<1> DEFINE S == Seats(ps, ev)
<1> HIDE DEF S
<1>2. ASSUME NEW a \in DOMAIN ps
      PROVE  PortRight(w, S, K, top, a, ps[a])
  <2>1. PortRight(w, S, L, last, a, ps[a])
    BY DEF Right, S
  <2>2. QED
    BY <1>1, <2>1, NamesTyped DEF PortRight
<1>3. ASSUME NEW e \in ev
      PROVE  EventRight(w, S, K, top, e)
  <2>1. EventRight(w, S, L, last, e) /\ e \in Event
    BY DEF Right, S
  <2>2. ASSUME Carrier(e), NEW d \in Wire(e)
        PROVE  DescriptorRight(w, S, K, top, d)
    BY <1>1, <2>1, <2>2, NamesTyped DEF EventRight, DescriptorRight
  <2>3. QED
    BY <1>1, <2>1, <2>2, NamesTyped DEF EventRight
<1>4. QED
  BY <1>2, <1>3 DEF Right, S

-----------------------------------------------------------------------------
(***************************************************************************)
(* What a handler does to some ports, when the rest stays.                 *)
(***************************************************************************)
\* Identities and seats, one by one.
LEMMA IdsAre ==
  ASSUME NEW ps, NEW ev, NEW i
  PROVE  i \in Ids(ps, ev) <=>
           \/ \E a \in DOMAIN ps : \E m \in ps[a].queue : i = Id(m)
           \/ \E e \in ev : IsMessage(e) /\ i = Id(e.msg)
<1>1. i \in Ids(ps, ev) <=> \E m \in Messages(ps, ev) : i = Id(m)
  BY DEF Ids
<1> DEFINE Q == UNION {ps[a].queue : a \in DOMAIN ps}
           U == {e.msg : e \in {x \in ev : IsMessage(x)}}
<1>2. Messages(ps, ev) = Q \cup U
  BY DEF Messages
<1>3. \A m : m \in Q <=> \E a \in DOMAIN ps : m \in ps[a].queue
  OBVIOUS
<1>4. \A m : m \in U <=> \E e \in ev : IsMessage(e) /\ m = e.msg
  OBVIOUS
<1> HIDE DEF Q, U
<1>5. QED
  BY <1>1, <1>2, <1>3, <1>4

\* A seat is that of a receiving port or of a descriptor under way.
LEMMA SeatsAre ==
  ASSUME NEW ps, NEW ev, NEW s
  PROVE  s \in Seats(ps, ev) <=>
           \/ \E a \in DOMAIN ps : ps[a].state = "receiving" /\ s = Seat(ps[a])
           \/ \E e \in ev : Carrier(e) /\ \E d \in Wire(e) : s = Seat(d)
BY DEF Seats

\* Nothing comes into being, and nobody gets on.
Conserves(ps, ev, qs, fv) ==
  Ids(qs, fv) \subseteq Ids(ps, ev) /\ Seats(qs, fv) \subseteq Seats(ps, ev)

\* The same of an operation that takes handler state st to s.
HandlerConserves(st, s, E) ==
  Conserves(st.ports, E \cup st.out, s.ports, E \cup s.out)

\* Ports that are left have no new messages, and if they receive, they did.
Settled(ps, qs) ==
  /\ DOMAIN qs \subseteq DOMAIN ps
  /\ \A a \in DOMAIN qs :
       /\ qs[a].queue \subseteq ps[a].queue
       /\ qs[a].state = "receiving" =>
            ps[a].state = "receiving" /\ Seat(qs[a]) = Seat(ps[a])

\* This conserves.
LEMMA SettledConserves ==
  ASSUME NEW st, NEW s, NEW E, Settled(st.ports, s.ports),
         \A e \in s.out : Carrier(e) => e \in st.out
  PROVE  HandlerConserves(st, s, E)
<1>1. ASSUME NEW i \in Ids(s.ports, E \cup s.out)
      PROVE  i \in Ids(st.ports, E \cup st.out)
  <2>1. CASE \E a \in DOMAIN s.ports : \E m \in s.ports[a].queue : i = Id(m)
    <3>1. \E a \in DOMAIN st.ports : \E m \in st.ports[a].queue : i = Id(m)
      BY <2>1 DEF Settled
    <3>2. QED
      BY <3>1, IdsAre
  <2>2. CASE \E e \in E \cup s.out : IsMessage(e) /\ i = Id(e.msg)
    <3>1. \E e \in E \cup st.out : IsMessage(e) /\ i = Id(e.msg)
      BY <2>2 DEF Carrier
    <3>2. QED
      BY <3>1, IdsAre
  <2>3. QED
    BY <2>1, <2>2, IdsAre
<1>2. ASSUME NEW t \in Seats(s.ports, E \cup s.out)
      PROVE  t \in Seats(st.ports, E \cup st.out)
  <2>1. CASE \E a \in DOMAIN s.ports : s.ports[a].state = "receiving" /\ t = Seat(s.ports[a])
    <3>1. \E a \in DOMAIN st.ports : st.ports[a].state = "receiving" /\ t = Seat(st.ports[a])
      BY <2>1 DEF Settled
    <3>2. QED
      BY <3>1, SeatsAre
  <2>2. CASE \E e \in E \cup s.out : Carrier(e) /\ \E d \in Wire(e) : t = Seat(d)
    <3>1. \E e \in E \cup st.out : Carrier(e) /\ \E d \in Wire(e) : t = Seat(d)
      BY <2>2
    <3>2. QED
      BY <3>1, SeatsAre
  <2>3. QED
    BY <2>1, <2>2, SeatsAre
<1>3. QED
  BY <1>1, <1>2 DEF HandlerConserves, Conserves

\* Fewer seats are no harm.
LEMMA FewerSeats ==
  ASSUME NEW w, NEW S, NEW T, T \subseteq S, NEW L, NEW last
  PROVE  /\ \A t, l : Closed(w, S, t, l) => Closed(w, T, t, l)
         /\ \A a, r : PortRight(w, S, L, last, a, r) => PortRight(w, T, L, last, a, r)
         /\ \A d : DescriptorRight(w, S, L, last, d) => DescriptorRight(w, T, L, last, d)
         /\ \A e : EventRight(w, S, L, last, e) => EventRight(w, T, L, last, e)
         /\ \A I, J : J \subseteq I /\ Counted(w, I, S) => Counted(w, J, T)
<1>1. ASSUME NEW t, NEW l, Closed(w, S, t, l)
      PROVE  Closed(w, T, t, l)
  BY <1>1 DEF Closed, Vacant
<1>2. ASSUME NEW a, NEW r, PortRight(w, S, L, last, a, r)
      PROVE  PortRight(w, T, L, last, a, r)
  BY <1>1, <1>2 DEF PortRight
<1>3. ASSUME NEW d, DescriptorRight(w, S, L, last, d)
      PROVE  DescriptorRight(w, T, L, last, d)
  BY <1>1, <1>3 DEF DescriptorRight
<1>4. ASSUME NEW e, EventRight(w, S, L, last, e)
      PROVE  EventRight(w, T, L, last, e)
  BY <1>1, <1>3, <1>4 DEF EventRight
<1>5. ASSUME NEW I, NEW J, J \subseteq I, Counted(w, I, S)
      PROVE  Counted(w, J, T)
  BY <1>5 DEF Counted
<1>6. QED
  BY <1>1, <1>2, <1>3, <1>4, <1>5

\* A handler that conserves only has to see to what it writes.
LEMMA RightStep ==
  ASSUME NEW w, NEW L, NEW st, NEW s, NEW E, HandlerRight(w, L, st, E),
         HandlerConserves(st, s, E), s.lastName = st.lastName,
         \A a \in DOMAIN s.ports :
           \/ a \in DOMAIN st.ports /\ s.ports[a] = st.ports[a]
           \/ PortRight(w, Seats(s.ports, E \cup s.out), L, st.lastName, a, s.ports[a]),
         \A e \in s.out :
           \/ e \in st.out
           \/ EventRight(w, Seats(s.ports, E \cup s.out), L, st.lastName, e)
  PROVE  HandlerRight(w, L, s, E)
<1> DEFINE S == Seats(st.ports, E \cup st.out)
           T == Seats(s.ports, E \cup s.out)
<1>1. T \subseteq S /\ Ids(s.ports, E \cup s.out) \subseteq Ids(st.ports, E \cup st.out)
  BY DEF HandlerConserves, Conserves
<1>2. /\ \A a \in DOMAIN st.ports : PortRight(w, S, L, st.lastName, a, st.ports[a])
      /\ \A e \in E \cup st.out : EventRight(w, S, L, st.lastName, e)
      /\ Counted(w, Ids(st.ports, E \cup st.out), S)
  BY DEF HandlerRight, Right
<1> HIDE DEF S, T
<1>3. Counted(w, Ids(s.ports, E \cup s.out), T)
  BY <1>1, <1>2, FewerSeats
<1>4. ASSUME NEW a \in DOMAIN s.ports
      PROVE  PortRight(w, T, L, st.lastName, a, s.ports[a])
  <2>1. CASE a \in DOMAIN st.ports /\ s.ports[a] = st.ports[a]
    <3>1. PortRight(w, S, L, st.lastName, a, s.ports[a])
      BY <1>2, <2>1
    <3>2. QED
      BY <1>1, <3>1, FewerSeats
  <2>2. QED
    BY <2>1 DEF T
<1>5. ASSUME NEW e \in E \cup s.out
      PROVE  EventRight(w, T, L, st.lastName, e)
  <2>1. CASE e \in E \cup st.out
    <3>1. EventRight(w, S, L, st.lastName, e)
      BY <1>2, <2>1
    <3>2. QED
      BY <1>1, <3>1, FewerSeats
  <2>2. QED
    BY <2>1 DEF T
<1>6. QED
  BY <1>3, <1>4, <1>5 DEF HandlerRight, Right, T

\* Labels of conjugates.
LEMMA FacingBack ==
  ASSUME NEW w, NEW t, Facing(w, t)
  PROVE  Facing(w, w.conj[t]) /\ w.conj[w.conj[t]] = t
BY DEF Facing

\* Events that have little to keep to.
LEMMA PlainEvents ==
  ASSUME NEW w, NEW S, NEW L, NEW last
  PROVE  /\ \A n, to : EventRight(w, S, L, last, PortAccepted(n, to))
         /\ \A n, to, l : EventRight(w, S, L, last, ObserveProxyAck(n, to, l))
         /\ \A n, m, p : ~w.whole => EventRight(w, S, L, last, ProxyDied(n, m, p))
         /\ \A n, to, l : /\ to[2] <= last /\ Facing(w, L[to[2]])
                          /\ w.whole => Closed(w, S, L[to[2]], l)
              => EventRight(w, S, L, last, ObserveClosure(n, to, l))
         /\ \A n, to, p, t : p[2] <= last /\ t[2] <= last /\ L[p[2]] = L[t[2]]
              => EventRight(w, S, L, last, ObserveProxy(n, to, p, t))
<1>1. \A n, to : EventRight(w, S, L, last, PortAccepted(n, to))
  BY Empty DEF EventRight, IsMessage, PortAccepted
<1>2. ASSUME NEW n, NEW to, NEW l
      PROVE  EventRight(w, S, L, last, ObserveProxyAck(n, to, l))
  BY Empty DEF EventRight, IsMessage, ObserveProxyAck
<1>3. \A n, m, p : ~w.whole => EventRight(w, S, L, last, ProxyDied(n, m, p))
  BY Empty DEF EventRight, IsMessage, ProxyDied
<1>4. ASSUME NEW n, NEW to, NEW l, to[2] <= last, Facing(w, L[to[2]]),
             w.whole => Closed(w, S, L[to[2]], l)
      PROVE  EventRight(w, S, L, last, ObserveClosure(n, to, l))
  BY <1>4, Empty DEF EventRight, IsMessage, ObserveClosure
<1>5. ASSUME NEW n, NEW to, NEW p, NEW t, p[2] <= last, t[2] <= last, L[p[2]] = L[t[2]]
      PROVE  EventRight(w, S, L, last, ObserveProxy(n, to, p, t))
  BY <1>5, Empty DEF EventRight, IsMessage, ObserveProxy
<1>6. QED
  BY <1>1, <1>2, <1>3, <1>4, <1>5

-----------------------------------------------------------------------------
(***************************************************************************)
(* Operations that do not move ports.                                      *)
(***************************************************************************)
\* What is right of a port in a handler.
LEMMA PortIsRight ==
  ASSUME NEW w, NEW L, NEW st, NEW E, HandlerRight(w, L, st, E), NEW a \in DOMAIN st.ports
  PROVE  PortRight(w, Seats(st.ports, E \cup st.out), L, st.lastName, a, st.ports[a])
BY DEF HandlerRight, Right

\* Events are sent that carry nothing.
LEMMA RightSend ==
  ASSUME NEW w, NEW L, NEW st, NEW s, NEW E, HandlerRight(w, L, st, E),
         s.ports = st.ports, s.lastName = st.lastName, NEW sent, s.out = st.out \cup sent,
         \A e \in sent :
           /\ ~Carrier(e)
           /\ EventRight(w, Seats(st.ports, E \cup st.out), L, st.lastName, e)
  PROVE  HandlerRight(w, L, s, E)
<1>1. Settled(st.ports, s.ports)
  BY DEF Settled
<1>2. \A e \in s.out : Carrier(e) => e \in st.out
  OBVIOUS
<1>3. HandlerConserves(st, s, E)
  BY <1>1, <1>2, SettledConserves
<1>4. Seats(s.ports, E \cup s.out) \subseteq Seats(st.ports, E \cup st.out)
  BY <1>3 DEF HandlerConserves, Conserves
<1>5. \A e \in s.out : e \in st.out
                       \/ EventRight(w, Seats(s.ports, E \cup s.out), L, st.lastName, e)
  <2> DEFINE S == Seats(st.ports, E \cup st.out)
             T == Seats(s.ports, E \cup s.out)
  <2>1. T \subseteq S /\ \A e \in sent : EventRight(w, S, L, st.lastName, e)
    BY <1>4
  <2> HIDE DEF S, T
  <2>2. \A e \in s.out : e \in st.out \/ EventRight(w, T, L, st.lastName, e)
    BY <2>1, FewerSeats
  <2>3. QED
    BY <2>2 DEF T
<1>6. QED
  BY <1>3, <1>5, RightStep

\* One port is written, and events are sent that carry nothing.
LEMMA RightReplace ==
  ASSUME NEW w, NEW L, NEW st, NEW s, NEW E, HandlerRight(w, L, st, E),
         NEW a \in DOMAIN st.ports, NEW r, s.ports = [st.ports EXCEPT ![a] = r],
         r.queue \subseteq st.ports[a].queue,
         r.state = "receiving" => st.ports[a].state = "receiving" /\ Seat(r) = Seat(st.ports[a]),
         s.lastName = st.lastName, NEW sent, s.out = st.out \cup sent,
         PortRight(w, Seats(st.ports, E \cup st.out), L, st.lastName, a, r),
         \A e \in sent :
           /\ ~Carrier(e)
           /\ EventRight(w, Seats(st.ports, E \cup st.out), L, st.lastName, e)
  PROVE  HandlerRight(w, L, s, E)
<1>1. Settled(st.ports, s.ports)
  BY DEF Settled
<1>2. \A e \in s.out : Carrier(e) => e \in st.out
  OBVIOUS
<1>3. HandlerConserves(st, s, E)
  BY <1>1, <1>2, SettledConserves
<1>4. Seats(s.ports, E \cup s.out) \subseteq Seats(st.ports, E \cup st.out)
  BY <1>3 DEF HandlerConserves, Conserves
<1>5. \A e \in s.out : e \in st.out
                       \/ EventRight(w, Seats(s.ports, E \cup s.out), L, st.lastName, e)
  <2> DEFINE S == Seats(st.ports, E \cup st.out)
             T == Seats(s.ports, E \cup s.out)
  <2>1. T \subseteq S /\ \A e \in sent : EventRight(w, S, L, st.lastName, e)
    BY <1>4
  <2> HIDE DEF S, T
  <2>2. \A e \in s.out : e \in st.out \/ EventRight(w, T, L, st.lastName, e)
    BY <2>1, FewerSeats
  <2>3. QED
    BY <2>2 DEF T
<1>6. PortRight(w, Seats(s.ports, E \cup s.out), L, st.lastName, a, r)
  <2> DEFINE S == Seats(st.ports, E \cup st.out)
             T == Seats(s.ports, E \cup s.out)
  <2>1. T \subseteq S /\ PortRight(w, S, L, st.lastName, a, r)
    BY <1>4
  <2> HIDE DEF S, T
  <2>2. PortRight(w, T, L, st.lastName, a, r)
    BY <2>1, FewerSeats
  <2>3. QED
    BY <2>2 DEF T
<1>7. \A b \in DOMAIN s.ports :
        \/ b \in DOMAIN st.ports /\ s.ports[b] = st.ports[b]
        \/ PortRight(w, Seats(s.ports, E \cup s.out), L, st.lastName, b, s.ports[b])
  BY <1>6
<1>8. QED
  BY <1>3, <1>5, <1>7, RightStep

\* A port is erased.
LEMMA RightErase ==
  ASSUME NEW w, NEW L, NEW st \in HandlerState, NEW E, HandlerRight(w, L, st, E),
         NEW a, NEW sent, NEW left, NEW s, s = Erased(st, a, sent, left),
         \A e \in sent :
           /\ ~Carrier(e)
           /\ EventRight(w, Seats(s.ports, E \cup s.out), L, st.lastName, e)
  PROVE  HandlerRight(w, L, s, E)
<1>1. s.ports = Erase(st.ports, a) /\ s.lastName = st.lastName /\ s.out = st.out \cup sent
  BY DEF Erased, HandlerState
<1>2. DOMAIN s.ports = DOMAIN st.ports \ {a} /\ \A b \in DOMAIN s.ports : s.ports[b] = st.ports[b]
  BY <1>1 DEF Erase
<1>3. Settled(st.ports, s.ports)
  BY <1>2 DEF Settled
<1>4. HandlerConserves(st, s, E)
  BY <1>1, <1>3, SettledConserves
<1>5. QED
  BY <1>1, <1>2, <1>4, RightStep

\* TryRemoveProxy.
LEMMA TryRemoveRight ==
  ASSUME NEW w, NEW L, NEW st \in HandlerState, NEW E, HandlerRight(w, L, st, E), NEW a
  PROVE  HandlerRight(w, L, TryRemoveProxy(st, a), E)
<1> DEFINE r == st.ports[a]
           ack == IF r.sendOnRemoval = NoAddr THEN {}
                  ELSE {ObserveProxyAck(a[1], r.sendOnRemoval, kInvalidSequenceNum)}
           left == {<<a[1], p>> : p \in Attached(r.queue)}
           s == Erased(st, a, ack, left)
<1>1. TryRemoveProxy(st, a) = st \/ TryRemoveProxy(st, a) = s
  BY DEF TryRemoveProxy, Erased, HandlerState
<1>2. \A e \in ack : ~Carrier(e) /\ EventRight(w, Seats(s.ports, E \cup s.out), L, st.lastName, e)
  BY Empty, PlainEvents
<1> HIDE DEF ack, left
<1>3. HandlerRight(w, L, s, E)
  BY <1>2, RightErase
<1>4. QED
  BY <1>1, <1>3

\* A proxy is announced on its own way.
LEMMA InitiateRight ==
  ASSUME NEW w, NEW L, NEW st \in HandlerState, NEW E, HandlerRight(w, L, st, E),
         NEW a \in DOMAIN st.ports, st.ports[a].state # "receiving"
  PROVE  HandlerRight(w, L, InitiateProxyRemoval(st, a), E)
<1> DEFINE r == st.ports[a]
           S == Seats(st.ports, E \cup st.out)
           announced == ObserveProxy(a[1], r.peer, a, r.peer)
           t == InitiateProxyRemoval(st, a)
<1>1. PortRight(w, S, L, st.lastName, a, r)
  BY PortIsRight
<1>2. a[2] <= st.lastName /\ r.peer[2] <= st.lastName /\ L[r.peer[2]] = L[a[2]]
  BY <1>1 DEF PortRight
<1>3. t.ports = st.ports /\ t.lastName = st.lastName /\ t.out = st.out \cup {announced}
  BY DEF InitiateProxyRemoval, HandlerState
<1>4. ~Carrier(announced) /\ EventRight(w, S, L, st.lastName, announced)
  BY <1>2, Empty, PlainEvents
<1> HIDE DEF t, announced
<1> DEFINE sent == {announced}
<1>5. /\ t.out = st.out \cup sent
      /\ \A e \in sent : /\ ~Carrier(e)
                         /\ EventRight(w, Seats(st.ports, E \cup st.out), L, st.lastName, e)
  BY <1>3, <1>4
<1> HIDE DEF sent, S
<1>6. HandlerRight(w, L, t, E)
  BY <1>3, <1>5, RightSend
<1>7. QED
  BY <1>6 DEF t

\* How a proxy begins to leave: it is announced on its own way, or passes on a
\* closure that it knows of.
LEMMA StartRemovalRight ==
  ASSUME NEW w, NEW L, NEW st \in HandlerState, NEW E, HandlerRight(w, L, st, E),
         NEW a \in DOMAIN st.ports, st.ports[a].state # "receiving",
         w.whole /\ st.ports[a].removeOnLast =>
           Closed(w, Seats(st.ports, E \cup st.out), L[a[2]], st.ports[a].lastRecv)
  PROVE  HandlerRight(w, L, StartRemoval(st, a), E)
<1> DEFINE r == st.ports[a]
           S == Seats(st.ports, E \cup st.out)
           closure == ObserveClosure(a[1], r.peer, r.lastRecv)
           s == [st EXCEPT !.out = @ \cup {closure}]
<1>1. PortRight(w, S, L, st.lastName, a, r)
  BY PortIsRight
<1>2. /\ a[2] <= st.lastName /\ r.peer[2] <= st.lastName /\ L[r.peer[2]] = L[a[2]]
      /\ Facing(w, L[a[2]])
  BY <1>1 DEF PortRight
<1>3. HandlerRight(w, L, InitiateProxyRemoval(st, a), E)
  BY InitiateRight
<1>4. CASE r.removeOnLast
  <2>1. s.ports = st.ports /\ s.lastName = st.lastName /\ s.out = st.out \cup {closure}
    BY DEF HandlerState
  <2>2. ~Carrier(closure) /\ EventRight(w, S, L, st.lastName, closure)
    BY <1>2, <1>4, Empty, PlainEvents
  <2>3. s \in HandlerState
    <3>1. {closure} \in SUBSET Event
      BY PortOfState, EventTypes
    <3>2. QED
      BY <3>1, SendEvents
  <2>4. StartRemoval(st, a) = TryRemoveProxy(s, a)
    BY <1>4 DEF StartRemoval
  <2> HIDE DEF s, closure
  <2>5. HandlerRight(w, L, s, E)
    <3> DEFINE sent == {closure}
    <3>1. /\ s.out = st.out \cup sent
          /\ \A e \in sent : /\ ~Carrier(e)
                             /\ EventRight(w, Seats(st.ports, E \cup st.out), L, st.lastName, e)
      BY <2>1, <2>2
    <3> HIDE DEF sent, S
    <3>2. QED
      BY <2>1, <3>1, RightSend
  <2>6. QED
    BY <1>3, <2>3, <2>4, <2>5, TryRemoveRight
<1>5. CASE ~r.removeOnLast
  BY <1>3, <1>5 DEF StartRemoval
<1>6. QED
  BY <1>4, <1>5

\* A port that is closed leaves its end's seat vacant, and says how many
\* messages the end has sent.
LEMMA CloseRight ==
  ASSUME NEW w, NEW L, NEW st \in HandlerState, NEW E, HandlerRight(w, L, st, E),
         NEW hd, HandlerSound(st, E, hd), NEW top, PipesTyped(w, top),
         NEW a \in DOMAIN st.ports
  PROVE  HandlerRight(w, L, Close(st, a), E)
<1> DEFINE r == st.ports[a]
           closure == ObserveClosure(a[1], r.peer, r.nextSend - 1)
           left == {<<a[1], p>> : p \in Attached(r.queue)}
           s == Erased(st, a, {closure}, left)
           S == Seats(st.ports, E \cup st.out)
           T == Seats(s.ports, E \cup s.out)
<1>1. CASE r.state # "receiving"
  BY <1>1 DEF Close
<1>2. CASE r.state = "receiving"
  <2>1. Close(st, a) = s
    BY <1>2 DEF Close, Erased
  <2>2. s.ports = Erase(st.ports, a) /\ s.out = st.out \cup {closure}
    BY DEF Erased, HandlerState
  <2>3. DOMAIN s.ports = DOMAIN st.ports \ {a} /\ \A b \in DOMAIN s.ports : s.ports[b] = st.ports[b]
    BY <2>2 DEF Erase
  <2>4. PortRight(w, S, L, st.lastName, a, r)
    BY PortIsRight
  <2>5. /\ Facing(w, r.end) /\ L[r.peer[2]] = w.conj[r.end] /\ r.peer[2] <= st.lastName
    BY <1>2, <2>4 DEF PortRight
  <2>6. ~Carrier(closure)
    BY Empty
  <2>7. Vacant(T, r.end)
    <3>1. SUFFICES ASSUME NEW x \in T, x[1] = r.end
                   PROVE  FALSE
      BY DEF Vacant
    <3>2. OneSeat(st.ports, E \cup st.out)
      BY DEF HandlerSound, Sound
    <3> HIDE DEF s, closure
    <3>3. CASE \E b \in DOMAIN s.ports : s.ports[b].state = "receiving" /\ x = Seat(s.ports[b])
      <4>1. PICK b \in DOMAIN s.ports : s.ports[b].state = "receiving" /\ x = Seat(s.ports[b])
        BY <3>3
      <4>2. st.ports[b].state = "receiving" /\ st.ports[b].end = r.end /\ b # a /\ b \in DOMAIN st.ports
        BY <2>3, <3>1, <4>1 DEF Seat
      <4>3. QED
        BY <1>2, <3>2, <4>2 DEF OneSeat
    <3>4. CASE \E e \in E \cup s.out : Carrier(e) /\ \E d \in Wire(e) : x = Seat(d)
      <4>1. PICK e \in E \cup s.out : Carrier(e) /\ \E d \in Wire(e) : x = Seat(d)
        BY <3>4
      <4>2. PICK d \in Wire(e) : x = Seat(d)
        BY <4>1
      <4>3. e \in E \cup st.out /\ d.end = r.end
        BY <2>2, <2>6, <3>1, <4>1, <4>2 DEF Seat
      <4>4. QED
        BY <1>2, <3>2, <4>1, <4>2, <4>3 DEF OneSeat
    <3>5. QED
      BY <3>1, <3>3, <3>4, SeatsAre DEF T
  <2>8. r.nextSend - 1 = w.sent[r.end]
    <3>1. Seat(r) \in S
      BY <1>2, SeatsAre
    <3>2. Counted(w, Ids(st.ports, E \cup st.out), S)
      BY DEF HandlerRight, Right
    <3>3. Seat(r)[2] = w.sent[Seat(r)[1]] + 1
      BY <3>1, <3>2 DEF Counted
    <3>4. r.nextSend = w.sent[r.end] + 1
      BY <3>3 DEF Seat
    <3>5. w.sent[r.end] \in Nat
      BY <2>5 DEF PipesTyped, Facing
    <3>6. QED
      BY <3>4, <3>5
  <2>9. EventRight(w, T, L, st.lastName, closure)
    <3>1. Facing(w, L[r.peer[2]]) /\ w.conj[L[r.peer[2]]] = r.end
      BY <2>5, FacingBack
    <3>2. Closed(w, T, L[r.peer[2]], r.nextSend - 1)
      BY <2>7, <2>8, <3>1 DEF Closed
    <3>3. QED
      BY <2>5, <3>1, <3>2, PlainEvents
  <2> HIDE DEF closure, left
  <2>10. HandlerRight(w, L, s, E)
    <3>1. \A e \in {closure} :
            ~Carrier(e) /\ EventRight(w, Seats(s.ports, E \cup s.out), L, st.lastName, e)
      BY <2>6, <2>9
    <3>2. s = Erased(st, a, {closure}, left)
      OBVIOUS
    <3> HIDE DEF s
    <3>3. QED
      BY <3>1, <3>2, RightErase
  <2>11. QED
    BY <2>1, <2>10
<1>3. QED
  BY <1>1, <1>2

\* DestroyAllPortsWithPeer, which is for when a process has died.
LEMMA DestroyRight ==
  ASSUME NEW w, NEW L, NEW st \in HandlerState, NEW E, HandlerRight(w, L, st, E),
         ~w.whole, NEW n, NEW B
  PROVE  HandlerRight(w, L, DestroyAllPortsWithPeer(st, n, B), E)
<1> DEFINE all == Stranded(st, n, B)
           dead == {b \in all : st.ports[b].state # "receiving"}
           fresh == {b \in all \ dead : ~st.ports[b].peerClosed}
           ps == [b \in DOMAIN st.ports \ dead |->
                    IF b \in fresh
                    THEN [st.ports[b] EXCEPT !.peerClosed = TRUE,
                            !.lastRecv = st.ports[b].nextRecv - 1]
                    ELSE st.ports[b]]
           sent == {ProxyDied(n, m, b) : m \in Audience(st, n), b \in dead}
           s == DestroyAllPortsWithPeer(st, n, B)
           T == Seats(s.ports, E \cup s.out)
           S == Seats(st.ports, E \cup st.out)
<1>1. s.ports = ps /\ s.out = st.out \cup sent /\ s.lastName = st.lastName
  BY DEF DestroyAllPortsWithPeer, HandlerState
<1>2. \A e \in sent : ~Carrier(e) /\ EventRight(w, T, L, st.lastName, e)
  <2> HIDE DEF T, dead
  <2>1. \A m, b : ~Carrier(ProxyDied(n, m, b))
    BY Empty
  <2>2. \A m, b : EventRight(w, T, L, st.lastName, ProxyDied(n, m, b))
    BY PlainEvents
  <2>3. QED
    BY <2>1, <2>2
<1> HIDE DEF all, sent
<1>3. ASSUME NEW b \in DOMAIN ps
      PROVE  /\ b \in DOMAIN st.ports
             /\ ps[b].queue = st.ports[b].queue /\ ps[b].state = st.ports[b].state
             /\ ps[b].peer = st.ports[b].peer /\ ps[b].end = st.ports[b].end
             /\ ps[b].nextSend = st.ports[b].nextSend /\ ps[b].nextRecv = st.ports[b].nextRecv
  <2>1. st.ports[b] \in Port
    BY PortOfState
  <2>2. QED
    BY <2>1 DEF Port
<1> HIDE DEF ps, s
<1>4. Settled(st.ports, s.ports)
  BY <1>1, <1>3 DEF Settled, Seat
<1>5. HandlerConserves(st, s, E)
  BY <1>1, <1>2, <1>4, SettledConserves
<1>6. ASSUME NEW b \in DOMAIN s.ports
      PROVE  PortRight(w, T, L, st.lastName, b, s.ports[b])
  <2>1. PortRight(w, S, L, st.lastName, b, st.ports[b])
    BY <1>1, <1>3, PortIsRight
  <2>2. QED
    BY <1>1, <1>3, <2>1 DEF PortRight
<1>7. QED
  BY <1>1, <1>2, <1>5, <1>6, RightStep DEF T, s

\* A receiving port skips a proxy: the proxy's target is on the same way.
LEMMA BypassRight ==
  ASSUME NEW w, NEW L, NEW st \in HandlerState, NEW E, HandlerRight(w, L, st, E),
         NEW a \in DOMAIN st.ports, NEW e, NEW S, EventRight(w, S, L, st.lastName, e),
         e.type = "ObserveProxy", st.ports[a].peer = e.proxy
  PROVE  /\ HandlerRight(w, L, Bypass(st, a, e), E)
         /\ HandlerRight(w, L, StashAck(st, a, e), E)
<1> DEFINE r == st.ports[a]
           T == Seats(st.ports, E \cup st.out)
           bypassing == [r EXCEPT !.peer = e.target]
           stashing == [r EXCEPT !.sendOnRemoval = e.proxy]
           ack == {ObserveProxyAck(a[1], e.proxy, st.ports[a].nextSend - 1)}
           none == {}
<1>1. r \in Port
  BY PortOfState
<1>2. /\ Bypass(st, a, e).ports = [st.ports EXCEPT ![a] = bypassing]
      /\ StashAck(st, a, e).ports = [st.ports EXCEPT ![a] = stashing]
      /\ Bypass(st, a, e).out = st.out \cup ack
      /\ StashAck(st, a, e).out = st.out \cup none
      /\ Bypass(st, a, e).lastName = st.lastName
      /\ StashAck(st, a, e).lastName = st.lastName
  BY DEF Bypass, StashAck, HandlerState
<1>3. /\ \A f \in ack : ~Carrier(f) /\ EventRight(w, T, L, st.lastName, f)
      /\ \A f \in none : ~Carrier(f) /\ EventRight(w, T, L, st.lastName, f)
  BY Empty, PlainEvents
<1>4. PortRight(w, T, L, st.lastName, a, r)
  BY PortIsRight
<1>5. e.target[2] <= st.lastName /\ L[e.target[2]] = L[r.peer[2]]
  BY DEF EventRight
<1>6. /\ bypassing.state = r.state /\ bypassing.peer = e.target /\ bypassing.end = r.end
      /\ bypassing.queue = r.queue /\ bypassing.removeOnLast = r.removeOnLast
      /\ bypassing.peerClosed = r.peerClosed /\ bypassing.lastRecv = r.lastRecv
      /\ Seat(bypassing) = Seat(r)
  BY <1>1 DEF Port, Seat
<1>7. /\ stashing.state = r.state /\ stashing.peer = r.peer /\ stashing.end = r.end
      /\ stashing.queue = r.queue /\ stashing.removeOnLast = r.removeOnLast
      /\ stashing.peerClosed = r.peerClosed /\ stashing.lastRecv = r.lastRecv
      /\ Seat(stashing) = Seat(r)
  BY <1>1 DEF Port, Seat
<1> HIDE DEF bypassing, stashing, ack, none, T
<1>8. PortRight(w, T, L, st.lastName, a, bypassing)
  BY <1>4, <1>5, <1>6 DEF PortRight
<1>9. PortRight(w, T, L, st.lastName, a, stashing)
  BY <1>4, <1>7 DEF PortRight
<1>10. HandlerRight(w, L, Bypass(st, a, e), E)
  BY <1>2, <1>3, <1>6, <1>8, RightReplace DEF T
<1>11. HandlerRight(w, L, StashAck(st, a, e), E)
  BY <1>2, <1>3, <1>7, <1>9, RightReplace DEF T
<1>12. QED
  BY <1>10, <1>11

\* A closure that is announced to a port.
LEMMA ObservedClosureRight ==
  ASSUME NEW w, NEW L, NEW st \in HandlerState, NEW E, HandlerRight(w, L, st, E),
         NEW a \in DOMAIN st.ports, NEW e, e.type = "ObserveClosure", e.to = a,
         EventRight(w, Seats(st.ports, E \cup st.out), L, st.lastName, e)
  PROVE  HandlerRight(w, L, ObservedClosure(st, a, e.last), E)
<1> DEFINE r == st.ports[a]
           T == Seats(st.ports, E \cup st.out)
           rest == IF r.state = "receiving" THEN r.nextSend - 1 ELSE e.last
           closure == ObserveClosure(a[1], r.peer, rest)
           sent == {closure}
           port == [r EXCEPT !.peerClosed = TRUE, !.lastRecv = e.last,
                             !.removeOnLast = @ \/ r.state # "receiving"]
           s == ObservedClosure(st, a, e.last)
<1>1. r \in Port
  BY PortOfState
<1>2. s.ports = [st.ports EXCEPT ![a] = port] /\ s.out = st.out \cup sent
        /\ s.lastName = st.lastName
  BY DEF ObservedClosure, HandlerState
<1>3. /\ port.state = r.state /\ port.peer = r.peer /\ port.end = r.end
      /\ port.queue = r.queue /\ port.removeOnLast = (r.removeOnLast \/ r.state # "receiving")
      /\ port.lastRecv = e.last
      /\ Seat(port) = Seat(r)
  BY <1>1 DEF Port, Seat
<1>4. PortRight(w, T, L, st.lastName, a, r)
  BY PortIsRight
<1>5. w.whole => Closed(w, T, L[a[2]], e.last)
  BY DEF EventRight
<1>6. r.state = "receiving" => ~Vacant(T, L[a[2]])
  <2>1. SUFFICES ASSUME r.state = "receiving"
                 PROVE  ~Vacant(T, r.end)
    BY <1>4 DEF PortRight
  <2>2. Seat(r) \in T
    BY <2>1, SeatsAre
  <2>3. Seat(r)[1] = r.end
    BY DEF Seat
  <2>4. QED
    BY <2>2, <2>3 DEF Vacant
<1>7. ~Carrier(closure)
  BY Empty
<1> HIDE DEF port, T
<1>8. PortRight(w, T, L, st.lastName, a, port)
  BY <1>3, <1>4, <1>5 DEF PortRight
<1>9. EventRight(w, T, L, st.lastName, closure)
  <2>1. /\ r.peer[2] <= st.lastName /\ Facing(w, L[a[2]])
        /\ L[r.peer[2]] = IF r.state = "receiving" THEN w.conj[L[a[2]]] ELSE L[a[2]]
    BY <1>4 DEF PortRight
  <2>2. Facing(w, L[r.peer[2]])
    BY <2>1, FacingBack
  <2>3. w.whole => Closed(w, T, L[r.peer[2]], rest)
    <3>1. CASE r.state = "receiving"
      BY <1>5, <1>6, <2>1, <3>1 DEF Closed
    <3>2. CASE r.state # "receiving"
      BY <1>5, <2>1, <3>2
    <3>3. QED
      BY <3>1, <3>2
  <2> HIDE DEF rest
  <2>4. QED
    BY <2>1, <2>2, <2>3, PlainEvents
<1>10. \A f \in sent : ~Carrier(f) /\ EventRight(w, T, L, st.lastName, f)
  BY <1>7, <1>9
<1> HIDE DEF sent, s
<1>11. HandlerRight(w, L, s, E)
  BY <1>2, <1>3, <1>8, <1>10, RightReplace DEF T
<1>12. QED
  BY <1>11 DEF s

\* A proxy is told how many messages are still to come.
LEMMA FlaggedRight ==
  ASSUME NEW w, NEW L, NEW st \in HandlerState, NEW E, HandlerRight(w, L, st, E),
         NEW a \in DOMAIN st.ports, st.ports[a].state = "proxying", NEW port,
         port.state = "proxying", port.peer = st.ports[a].peer, port.end = st.ports[a].end,
         port.queue = st.ports[a].queue,
         NEW s, s.out = st.out, s.lastName = st.lastName,
         s.ports = [st.ports EXCEPT ![a] = port]
  PROVE  HandlerRight(w, L, s, E)
<1> DEFINE r == st.ports[a]
           none == {}
           T == Seats(st.ports, E \cup st.out)
<1>1. s.out = st.out \cup none /\ \A f \in none : ~Carrier(f) /\ EventRight(w, T, L, st.lastName, f)
  OBVIOUS
<1>2. PortRight(w, T, L, st.lastName, a, r)
  BY PortIsRight
<1> HIDE DEF none, T
<1>3. PortRight(w, T, L, st.lastName, a, port)
  BY <1>2 DEF PortRight
<1>4. QED
  BY <1>1, <1>2, <1>3, RightReplace DEF T

\* A port begins to proxy.
LEMMA ProxyingRight ==
  ASSUME NEW w, NEW L, NEW st \in HandlerState, NEW E, HandlerRight(w, L, st, E),
         NEW a \in DOMAIN st.ports, st.ports[a].state # "receiving",
         NEW s, s.out = st.out, s.lastName = st.lastName,
         s.ports = [st.ports EXCEPT ![a] = [st.ports[a] EXCEPT !.state = "proxying"]]
  PROVE  HandlerRight(w, L, s, E)
<1> DEFINE r == st.ports[a]
           port == [r EXCEPT !.state = "proxying"]
           none == {}
           T == Seats(st.ports, E \cup st.out)
<1>1. r \in Port
  BY PortOfState
<1>2. /\ port.state = "proxying" /\ port.peer = r.peer /\ port.end = r.end
      /\ port.queue = r.queue
  BY <1>1 DEF Port
<1>3. s.out = st.out \cup none /\ \A f \in none : ~Carrier(f) /\ EventRight(w, T, L, st.lastName, f)
  OBVIOUS
<1>4. PortRight(w, T, L, st.lastName, a, r) /\ s.ports = [st.ports EXCEPT ![a] = port]
  BY PortIsRight
<1> HIDE DEF port, none, T
<1>5. PortRight(w, T, L, st.lastName, a, port)
  BY <1>2, <1>4 DEF PortRight
<1>6. QED
  BY <1>2, <1>3, <1>4, <1>5, RightReplace DEF T

-----------------------------------------------------------------------------
(***************************************************************************)
(* Forwarding messages, which moves the ports attached to them: a new name *)
(* has the label of the port that moves.                                   *)
(***************************************************************************)
\* The labelling when ports with the names in S move to fresh names f.
Relabelled(L, S, f) ==
  [p \in PortName |-> IF \E q \in S : f[q] = p THEN L[CHOOSE q \in S : f[q] = p]
                      ELSE L[p]]

\* It widens the one before.
LEMMA RelabelledWidens ==
  ASSUME NEW L \in Labels, NEW S \in SUBSET PortName, NEW f \in [S -> PortName],
         NEW last \in Nat, \A p \in S : f[p] > last,
         \A p, q \in S : f[p] = f[q] => p = q
  PROVE  /\ Relabelled(L, S, f) \in Labels
         /\ Widens(L, Relabelled(L, S, f), last)
         /\ \A q \in S : Relabelled(L, S, f)[f[q]] = L[q]
<1>1. Relabelled(L, S, f) \in Labels
  <2>1. ASSUME NEW p \in PortName
        PROVE  (IF \E q \in S : f[q] = p THEN L[CHOOSE q \in S : f[q] = p] ELSE L[p]) \in PortName
    BY DEF Labels
  <2>2. QED
    BY <2>1 DEF Relabelled, Labels
<1>2. ASSUME NEW p \in PortName, p <= last
      PROVE  Relabelled(L, S, f)[p] = L[p]
  <2>1. ~ \E q \in S : f[q] = p
    BY <1>2 DEF PortName
  <2>2. QED
    BY <2>1 DEF Relabelled
<1>3. ASSUME NEW q \in S
      PROVE  Relabelled(L, S, f)[f[q]] = L[q]
  <2>1. f[q] \in PortName /\ \E x \in S : f[x] = f[q]
    OBVIOUS
  <2>2. (CHOOSE x \in S : f[x] = f[q]) = q
    BY <2>1
  <2>3. QED
    BY <2>1, <2>2 DEF Relabelled
<1>4. QED
  BY <1>1, <1>2, <1>3 DEF Widens

\* The descriptor of a receiving port.
LEMMA DescribedRight ==
  ASSUME NEW w, NEW S, NEW L, NEW K, NEW last \in Nat, NEW top \in Nat, last <= top,
         Widens(L, K, last), NEW ps \in PortMap, NEW b \in DOMAIN ps,
         ps[b].state = "receiving", PortRight(w, S, L, last, b, ps[b]),
         NEW p \in PortName, p <= top, K[p] = L[b[2]]
  PROVE  /\ DescriptorRight(w, S, K, top, DescriptorOf(b, ps[b], p))
         /\ Seat(DescriptorOf(b, ps[b], p)) = Seat(ps[b])
<1> DEFINE r == ps[b]
           d == DescriptorOf(b, ps[b], p)
<1>1. /\ d.name = p /\ d.peer = r.peer /\ d.end = r.end /\ d.peerClosed = r.peerClosed
      /\ d.lastRecv = r.lastRecv /\ Seat(d) = Seat(r)
  BY DEF DescriptorOf, Seat
<1>2. r.peer[2] \in PortName /\ r.peer[2] <= last
  BY NamesTyped DEF PortRight
<1>3. r.peer[2] <= top /\ K[r.peer[2]] = L[r.peer[2]]
  BY <1>2 DEF Widens, PortName
<1>4. QED
  BY <1>1, <1>3 DEF PortRight, DescriptorRight

\* A receiving port that becomes a proxy to the port it has moved to.
LEMMA ConvertedRight ==
  ASSUME NEW w, NEW S, NEW L, NEW K, NEW last \in Nat, NEW top \in Nat, last <= top,
         Widens(L, K, last), NEW ps \in PortMap, NEW b \in DOMAIN ps,
         ps[b].state = "receiving", PortRight(w, S, L, last, b, ps[b]),
         NEW to, to[2] \in PortName, to[2] <= top, K[to[2]] = L[b[2]]
  PROVE  PortRight(w, S, K, top, b, ConvertToProxy(ps[b], to))
<1> DEFINE r == ps[b]
           q == ConvertToProxy(r, to)
<1>1. r \in Port /\ b[2] \in PortName
  BY PortMapCharacterised, NamesTyped
<1>2. /\ q.state = "buffering" /\ q.peer = to /\ q.queue = r.queue /\ q.lastRecv = r.lastRecv
      /\ q.removeOnLast = (r.removeOnLast \/ r.peerClosed)
  BY <1>1 DEF ConvertToProxy, Port
<1>3. b[2] <= top /\ K[b[2]] = L[b[2]]
  BY <1>1 DEF PortRight, Widens, PortName
<1> HIDE DEF q
<1>4. w.whole /\ q.removeOnLast => Closed(w, S, K[b[2]], q.lastRecv)
  <2>1. w.whole /\ q.removeOnLast => r.peerClosed
    BY <1>2 DEF PortRight
  <2>2. QED
    BY <1>2, <1>3, <2>1 DEF PortRight
<1>5. /\ Facing(w, K[b[2]]) /\ K[q.peer[2]] = K[b[2]] /\ q.peer[2] <= top
      /\ \A m \in q.queue : m.from = w.conj[K[b[2]]]
  BY <1>2, <1>3 DEF PortRight
<1>6. PortRight(w, S, K, top, b, q)
  BY <1>2, <1>3, <1>4, <1>5 DEF PortRight
<1>7. QED
  BY <1>6 DEF q

\* No new ends, and none with other numbers, though ports may be renamed.
NoNewSeats(st, s, E) == Seats(s.ports, E \cup s.out) \subseteq Seats(st.ports, E \cup st.out)

\* PrepareToForwardUserMessage, for messages on their way that fit in.
LEMMA PrepareRight ==
  ASSUME NEW w, NEW L \in Labels, NEW st \in HandlerState, NEW a \in DOMAIN st.ports,
         NEW M \in FiniteSubset(Message),
         \A p \in Attached(M) : /\ <<a[1], p>> \in DOMAIN st.ports
                                /\ st.ports[<<a[1], p>>].state = "receiving",
         \A m \in M : \A d \in m.att : d.referring = NoAddr,
         NEW E \in SUBSET Event, HandlerRight(w, L, st, E),
         \A m \in M : m.from = w.conj[L[st.ports[a].peer[2]]],
         NEW I, Ids(st.ports, E \cup st.out) \subseteq I, \A m \in M : Id(m) \in I,
         Counted(w, I, Seats(st.ports, E \cup st.out))
  PROVE  \E K \in Labels :
           /\ Widens(L, K, st.lastName)
           /\ HandlerRight(w, K, PrepareToForwardUserMessage(st, a, M), E)
           /\ NoNewSeats(st, PrepareToForwardUserMessage(st, a, M), E)
<1> DEFINE n == a[1]
           to == st.ports[a].peer
           moved == IF to[1] = n THEN {} ELSE Attached(M)
           fresh == Fresh(st.lastName, moved)
           Rewritten(d) ==
             IF d.name \in moved
             THEN DescriptorOf(<<n, d.name>>, st.ports[<<n, d.name>>],
                               fresh[d.name])
             ELSE d
           New(m) == [m EXCEPT !.att = {Rewritten(d) : d \in m.att}]
           ps == [b \in DOMAIN st.ports |->
                    IF b[1] = n /\ b[2] \in moved
                    THEN ConvertToProxy(st.ports[b], <<to[1], fresh[b[2]]>>)
                    ELSE st.ports[b]]
           sent == {UserMessage(n, to, New(m)) : m \in M}
           s == PrepareToForwardUserMessage(st, a, M)
           ev == E \cup st.out
           last == st.lastName
           top == st.lastName + Cardinality(moved)
           S == Seats(st.ports, ev)
           T == Seats(ps, ev \cup sent)
           K == Relabelled(L, moved, fresh)
<1>1. s.ports = ps /\ s.out = st.out \cup sent /\ s.lastName = top
  BY DEF PrepareToForwardUserMessage, HandlerState
<1>2. s \in HandlerState
  BY PrepareToForwardType
<1>3. /\ n \in Node /\ to \in Addr /\ to[1] \in Node /\ to[2] \in PortName /\ last \in Nat
      /\ st.ports \in PortMap /\ ps \in PortMap /\ ev \in SUBSET Event
      /\ M \in SUBSET Message /\ ev \cup sent \in SUBSET Event
  <2>1. E \cup s.out = ev \cup sent
    BY <1>1
  <2>2. s.out \in SUBSET Event
    BY <1>2, HandlerParts
  <2> HIDE DEF sent, ps, s
  <2>3. QED
    BY <1>1, <1>2, <2>1, <2>2, PortOfState, AddrParts, HandlerParts DEF FiniteSubset
<1>4. moved \in SUBSET PortName /\ IsFiniteSet(moved)
  BY AttachedFinite, FS_EmptySet
<1>5. /\ fresh \in [moved -> PortName] /\ Cardinality(moved) \in Nat
      /\ \A p \in moved : fresh[p] > last /\ fresh[p] <= top
      /\ \A p, q \in moved : fresh[p] = fresh[q] => p = q
  BY <1>3, <1>4, FreshNames, FreshDistinct
<1>6. top \in Nat /\ last <= top
  <2>1. last \in Nat /\ Cardinality(moved) \in Nat
    BY <1>3, <1>5
  <2> HIDE DEF moved
  <2>2. QED
    BY <2>1
<1>7. \A p \in moved : /\ <<n, p>> \in DOMAIN st.ports
                       /\ st.ports[<<n, p>>].state = "receiving"
  OBVIOUS
<1>8. /\ \A b \in DOMAIN st.ports : PortRight(w, S, L, last, b, st.ports[b])
      /\ \A e \in ev : EventRight(w, S, L, last, e)
      /\ Counted(w, I, S)
  BY DEF HandlerRight, Right
<1>9. ASSUME NEW m \in M
      PROVE  /\ New(m).from = m.from /\ New(m).num = m.num /\ New(m).seq = m.seq
             /\ New(m).att = {Rewritten(d) : d \in m.att}
             /\ Id(New(m)) = Id(m)
  <2>1. m \in Message
    BY <1>3
  <2> HIDE DEF Rewritten
  <2>2. QED
    BY <2>1 DEF Message, Id
<1>10. ASSUME NEW e \in sent
       PROVE  /\ IsMessage(e) /\ Carrier(e) /\ e.to = to
              /\ \E m \in M : /\ e.msg.from = m.from /\ Id(e.msg) = Id(m)
                              /\ \A d \in Wire(e) : \E p \in moved :
                                   d = DescriptorOf(<<n, p>>, st.ports[<<n, p>>], fresh[p])
  <2>1. PICK m \in M : e = UserMessage(n, to, New(m))
    OBVIOUS
  <2>2. IsMessage(e) /\ Carrier(e) /\ e.to = to /\ e.msg = New(m)
    BY <2>1 DEF UserMessage, IsMessage, Carrier
  <2>3. ASSUME NEW d \in Wire(e)
        PROVE  \E p \in moved : d = DescriptorOf(<<n, p>>, st.ports[<<n, p>>], fresh[p])
    <3>1. d \in New(m).att /\ d.referring # NoAddr
      BY <2>2, <2>3 DEF Wire
    <3>2. PICK c \in m.att : d = Rewritten(c)
      BY <1>9, <3>1
    <3>3. c.referring = NoAddr
      OBVIOUS
    <3>4. c.name \in moved
      BY <3>1, <3>2, <3>3
    <3>5. QED
      BY <3>2, <3>4
  <2>4. e.msg.from = m.from /\ Id(e.msg) = Id(m)
    BY <1>9, <2>1, <2>2
  <2> HIDE DEF New, sent, moved, fresh
  <2>5. QED
    BY <2>1, <2>2, <2>3, <2>4
<1>11. ASSUME NEW b \in DOMAIN st.ports
       PROVE  \/ ps[b] = st.ports[b]
              \/ /\ b = <<n, b[2]>> /\ b[2] \in moved
                 /\ ps[b] = ConvertToProxy(st.ports[b], <<to[1], fresh[b[2]]>>)
  <2>1. b = <<b[1], b[2]>>
    BY PortOfState, AddrParts
  <2>2. QED
    BY <2>1
<1>12. DOMAIN ps = DOMAIN st.ports
  OBVIOUS
<1> HIDE DEF sent, ps, moved, fresh, ev, last, top, s, New, Rewritten, n, to, S, T
<1>13. /\ K \in Labels /\ Widens(L, K, last) /\ \A q \in moved : K[fresh[q]] = L[q]
  BY <1>3, <1>4, <1>5, RelabelledWidens
<1> HIDE DEF K
<1>14. Right(w, K, top, st.ports, ev)
  <2>1. Right(w, L, last, st.ports, ev)
    BY DEF HandlerRight, last, ev
  <2>2. QED
    BY <1>3, <1>6, <1>13, <2>1, RightWidens
<1>15. ASSUME NEW b \in DOMAIN ps
       PROVE  PortRight(w, S, K, top, b, ps[b])
  <2>1. b \in DOMAIN st.ports
    BY <1>12
  <2>2. CASE ps[b] = st.ports[b]
    BY <1>14, <2>1, <2>2 DEF Right, S
  <2>3. CASE /\ b = <<n, b[2]>> /\ b[2] \in moved
             /\ ps[b] = ConvertToProxy(st.ports[b], <<to[1], fresh[b[2]]>>)
    <3> DEFINE go == <<to[1], fresh[b[2]]>>
    <3>1. go[2] \in PortName /\ go[2] <= top /\ K[go[2]] = L[b[2]]
      BY <1>5, <1>13, <2>3
    <3>2. st.ports[b].state = "receiving"
      BY <1>7, <2>3
    <3>3. PortRight(w, S, L, last, b, st.ports[b])
      BY <1>8, <2>1
    <3> HIDE DEF go
    <3>4. PortRight(w, S, K, top, b, ConvertToProxy(st.ports[b], go))
      BY <1>3, <1>6, <1>13, <2>1, <3>1, <3>2, <3>3, ConvertedRight
    <3>5. QED
      BY <2>3, <3>4 DEF go
  <2>4. QED
    BY <1>11, <2>1, <2>2, <2>3
<1>16. ASSUME NEW p \in moved, NEW d, d = DescriptorOf(<<n, p>>, st.ports[<<n, p>>], fresh[p])
       PROVE  DescriptorRight(w, S, K, top, d) /\ Seat(d) \in S
  <2> DEFINE b == <<n, p>>
  <2>1. b \in DOMAIN st.ports /\ st.ports[b].state = "receiving" /\ b[2] = p
    BY <1>7
  <2>2. PortRight(w, S, L, last, b, st.ports[b])
    BY <1>8, <2>1
  <2>3. fresh[p] \in PortName /\ fresh[p] <= top /\ K[fresh[p]] = L[b[2]]
    BY <1>5, <1>13, <2>1
  <2>4. d = DescriptorOf(b, st.ports[b], fresh[p])
    BY <1>16
  <2> HIDE DEF b
  <2>5. Seat(st.ports[b]) \in S
    BY <2>1, SeatsAre DEF S
  <2>6. DescriptorRight(w, S, K, top, d) /\ Seat(d) = Seat(st.ports[b])
    <3> DEFINE q == fresh[p]
    <3>1. /\ st.ports \in PortMap /\ last \in Nat /\ top \in Nat /\ last <= top
          /\ Widens(L, K, last)
          /\ q \in PortName /\ q <= top /\ K[q] = L[b[2]]
          /\ d = DescriptorOf(b, st.ports[b], q)
      BY <1>3, <1>6, <1>13, <2>3, <2>4
    <3> HIDE DEF q
    <3>2. DescriptorRight(w, S, K, top, DescriptorOf(b, st.ports[b], q))
      BY <2>1, <2>2, <3>1, DescribedRight
    <3>3. Seat(DescriptorOf(b, st.ports[b], q)) = Seat(st.ports[b])
      BY DEF Seat, DescriptorOf
    <3>4. QED
      BY <3>1, <3>2, <3>3
  <2>7. QED
    BY <2>5, <2>6
<1>17. ASSUME NEW e \in sent
       PROVE  EventRight(w, S, K, top, e)
  <2>1. /\ IsMessage(e) /\ e.to = to /\ e.type = "UserMessage"
        /\ \A d \in Wire(e) : \E p \in moved :
             d = DescriptorOf(<<n, p>>, st.ports[<<n, p>>], fresh[p])
    BY <1>10 DEF IsMessage
  <2>2. e.msg.from = w.conj[L[to[2]]]
    BY <1>10 DEF to
  <2>3. to[2] <= last /\ Facing(w, L[to[2]])
    BY <1>8, FacingBack DEF PortRight, to
  <2>4. to[2] <= top /\ K[to[2]] = L[to[2]]
    BY <1>3, <1>6, <1>13, <2>3 DEF Widens, PortName
  <2>5. \A d \in Wire(e) : DescriptorRight(w, S, K, top, d)
    BY <1>16, <2>1
  <2>6. QED
    BY <2>1, <2>2, <2>3, <2>4, <2>5 DEF EventRight
<1>18. ASSUME NEW x \in T
       PROVE  x \in S
  <2>1. CASE \E b \in DOMAIN ps : ps[b].state = "receiving" /\ x = Seat(ps[b])
    <3>1. PICK b \in DOMAIN ps : ps[b].state = "receiving" /\ x = Seat(ps[b])
      BY <2>1
    <3>2. b \in DOMAIN st.ports /\ st.ports[b] \in Port
      BY <1>12, PortOfState
    <3>3. ps[b] = st.ports[b]
      <4>1. \A t : ConvertToProxy(st.ports[b], t).state = "buffering"
        BY <3>2 DEF ConvertToProxy, Port
      <4>2. QED
        BY <1>11, <3>1, <3>2, <4>1
    <3>4. QED
      BY <3>1, <3>2, <3>3, SeatsAre DEF S
  <2>2. CASE \E e \in ev \cup sent : Carrier(e) /\ \E d \in Wire(e) : x = Seat(d)
    <3>1. PICK e \in ev \cup sent : Carrier(e) /\ \E d \in Wire(e) : x = Seat(d)
      BY <2>2
    <3>2. CASE e \in ev
      BY <3>1, <3>2, SeatsAre DEF S
    <3>3. CASE e \in sent
      <4>1. PICK d \in Wire(e) : x = Seat(d)
        BY <3>1
      <4>2. \E p \in moved : d = DescriptorOf(<<n, p>>, st.ports[<<n, p>>], fresh[p])
        BY <1>10, <3>3
      <4>3. QED
        BY <1>16, <4>1, <4>2
    <3>4. QED
      BY <3>1, <3>2, <3>3
  <2>3. QED
    BY <2>1, <2>2, SeatsAre DEF T
<1>19. ASSUME NEW i \in Ids(ps, ev \cup sent)
       PROVE  i \in I
  <2>1. CASE \E b \in DOMAIN ps : \E m \in ps[b].queue : i = Id(m)
    <3>1. PICK b \in DOMAIN ps : \E m \in ps[b].queue : i = Id(m)
      BY <2>1
    <3>2. b \in DOMAIN st.ports /\ st.ports[b] \in Port
      BY <1>12, PortOfState
    <3>3. ps[b].queue = st.ports[b].queue
      <4>1. \A t : ConvertToProxy(st.ports[b], t).queue = st.ports[b].queue
        BY <3>2 DEF ConvertToProxy, Port
      <4>2. QED
        BY <1>11, <3>2, <4>1
    <3>4. i \in Ids(st.ports, ev)
      BY <3>1, <3>2, <3>3, IdsAre
    <3>5. QED
      BY <3>4 DEF ev
  <2>2. CASE \E e \in ev \cup sent : IsMessage(e) /\ i = Id(e.msg)
    <3>1. PICK e \in ev \cup sent : IsMessage(e) /\ i = Id(e.msg)
      BY <2>2
    <3>2. CASE e \in ev
      <4>1. i \in Ids(st.ports, ev)
        BY <3>1, <3>2, IdsAre
      <4>2. QED
        BY <4>1 DEF ev
    <3>3. CASE e \in sent
      BY <1>10, <3>1, <3>3
    <3>4. QED
      BY <3>1, <3>2, <3>3
  <2>3. QED
    BY <2>1, <2>2, IdsAre
<1>20. Right(w, K, top, ps, ev \cup sent)
  <2>1. T \subseteq S /\ Ids(ps, ev \cup sent) \subseteq I
    BY <1>18, <1>19
  <2>2. Counted(w, Ids(ps, ev \cup sent), T)
    BY <1>8, <2>1, FewerSeats
  <2>3. \A b \in DOMAIN ps : PortRight(w, T, K, top, b, ps[b])
    BY <1>15, <2>1, FewerSeats
  <2>4. \A e \in ev : EventRight(w, S, K, top, e)
    BY <1>14 DEF Right, S
  <2>5. \A e \in ev \cup sent : EventRight(w, T, K, top, e)
    BY <1>17, <2>1, <2>4, FewerSeats
  <2>6. QED
    BY <2>2, <2>3, <2>5 DEF Right, T
<1>21. HandlerRight(w, K, s, E)
  <2>1. E \cup s.out = ev \cup sent
    BY <1>1 DEF ev
  <2>2. QED
    BY <1>1, <1>20, <2>1 DEF HandlerRight
<1>22. NoNewSeats(st, s, E)
  <2>1. E \cup s.out = ev \cup sent /\ s.ports = ps
    BY <1>1 DEF ev
  <2>2. T \subseteq S
    BY <1>18
  <2>3. QED
    BY <2>1, <2>2 DEF NoNewSeats, S, T, ev
<1>23. QED
  BY <1>13, <1>21, <1>22 DEF s, last

\* Widening twice.
LEMMA WidensTwice ==
  ASSUME NEW L, NEW K, NEW J, NEW last \in Nat, NEW top \in Nat, last <= top,
         Widens(L, K, last), Widens(K, J, top)
  PROVE  Widens(L, J, last)
<1>1. ASSUME NEW p \in PortName, p <= last
      PROVE  J[p] = L[p]
  <2>1. p <= top
    BY <1>1 DEF PortName
  <2>2. K[p] = L[p] /\ J[p] = K[p]
    BY <1>1, <2>1 DEF Widens
  <2>3. QED
    BY <2>2
<1>2. QED
  BY <1>1 DEF Widens

\* A proxy forwards on its own way.
LEMMA ForwardRight ==
  ASSUME NEW w, NEW L \in Labels, NEW st \in HandlerState, NEW a \in DOMAIN st.ports,
         st.ports[a].state = "proxying",
         NEW E \in SUBSET Event, NEW hd, HandlerSound(st, E, hd), HandlerRight(w, L, st, E)
  PROVE  \E K \in Labels :
           /\ Widens(L, K, st.lastName)
           /\ HandlerRight(w, K, ForwardUserMessagesFromProxy(st, a), E)
           /\ NoNewSeats(st, ForwardUserMessagesFromProxy(st, a), E)
<1> DEFINE r == st.ports[a]
           M == Sequential(r)
           bad == {m \in M : \E p \in Attached({m}) : Unsendable(st, a, p)}
           lost == {m \in bad : \A x \in bad : m.seq <= x.seq}
           sent == {m \in M : \A x \in bad : m.seq < x.seq}
           port == [r EXCEPT !.queue = @ \ (sent \cup lost),
                             !.nextRecv = @ + Cardinality(sent \cup lost),
                             !.nextSend = @ - Cardinality(lost)]
           left == {<<a[1], p>> : p \in Attached(lost)}
           none == lost = {}
           taken == Taken(st, a, port, left, none)
<1>1. ForwardUserMessagesFromProxy(st, a)
        = PrepareToForwardUserMessage(taken, a, sent)
  BY DEF ForwardUserMessagesFromProxy, Taken
<1>2. r \in Port /\ r.queue \in FiniteSubset(Message) /\ a[1] \in Node
  BY PortOfState
<1>3. M \subseteq r.queue
  BY DEF Sequential
<1>4. ASSUME NEW m \in sent, NEW p \in Attached({m})
      PROVE  <<a[1], p>> \in DOMAIN st.ports
               /\ st.ports[<<a[1], p>>].state = "receiving"
  <2>1. m.seq \in Nat
    BY <1>2, <1>3 DEF FiniteSubset, Message
  <2>2. m \notin bad
    BY <2>1
  <2>3. QED
    BY <2>2 DEF Unsendable
<1>5. /\ lost \subseteq r.queue /\ sent \subseteq r.queue
      /\ sent \cup lost \subseteq r.queue
  BY <1>3
<1> HIDE DEF M, lost, sent
<1>6. /\ lost \in FiniteSubset(Message) /\ sent \in FiniteSubset(Message)
      /\ Cardinality(lost) \in Nat /\ Cardinality(sent \cup lost) \in Nat
  BY <1>2, <1>5, SubsetOfFinite
<1>7. port \in Port
  BY <1>2, <1>5, <1>6, TakenPort
<1>8. left \in SUBSET Addr
  BY <1>2, <1>6, AttachedAddrs
<1>9. none \in BOOLEAN
  OBVIOUS
<1>10. port.queue \subseteq r.queue /\ port.state = "proxying" /\ port.peer = r.peer
  BY <1>2 DEF Port
<1> HIDE DEF port, left, none
<1>11. taken \in HandlerState /\ DOMAIN taken.ports = DOMAIN st.ports
  BY <1>7, <1>8, <1>9, SetPortAndRest
<1>12. /\ taken.ports = [st.ports EXCEPT ![a] = port]
       /\ taken.out = st.out /\ taken.lastName = st.lastName
  BY DEF Taken, HandlerState
<1> HIDE DEF taken
<1>13. PortRight(w, Seats(st.ports, E \cup st.out), L, st.lastName, a, r)
  BY PortIsRight
<1>14. HandlerRight(w, L, taken, E)
  <2> DEFINE T == Seats(st.ports, E \cup st.out)
             nil == {}
  <2>1. /\ taken.out = st.out \cup nil
        /\ \A f \in nil : ~Carrier(f) /\ EventRight(w, T, L, st.lastName, f)
    BY <1>12
  <2>2. PortRight(w, T, L, st.lastName, a, port)
    BY <1>10, <1>13 DEF PortRight
  <2> HIDE DEF nil, T
  <2>3. QED
    BY <1>10, <1>12, <2>1, <2>2, RightReplace DEF T
<1>15. \A p \in Attached(sent) : /\ <<a[1], p>> \in DOMAIN taken.ports
                                 /\ taken.ports[<<a[1], p>>].state = "receiving"
  <2>1. \A p \in Attached(sent) : /\ <<a[1], p>> \in DOMAIN st.ports
                                  /\ st.ports[<<a[1], p>>].state = "receiving"
    BY <1>4 DEF Attached
  <2>2. \A b \in DOMAIN st.ports : b # a => taken.ports[b] = st.ports[b]
    BY <1>12
  <2>3. QED
    BY <1>11, <2>1, <2>2
<1>16. \A m \in sent : \A d \in m.att : d.referring = NoAddr
  BY <1>5 DEF HandlerSound, Sound, NamesDrawn
<1>17. \A m \in sent : m.from = w.conj[L[taken.ports[a].peer[2]]]
  <2>1. taken.ports[a].peer = r.peer
    BY <1>10, <1>12
  <2>2. QED
    BY <1>5, <1>13, <2>1 DEF PortRight
<1> DEFINE I == Ids(st.ports, E \cup st.out)
<1>18. /\ Ids(taken.ports, E \cup taken.out) \subseteq I
       /\ Seats(taken.ports, E \cup taken.out) \subseteq Seats(st.ports, E \cup st.out)
  <2>1. Settled(st.ports, taken.ports)
    BY <1>10, <1>12 DEF Settled
  <2>2. HandlerConserves(st, taken, E)
    BY <1>12, <2>1, SettledConserves
  <2>3. QED
    BY <2>2 DEF HandlerConserves, Conserves
<1>19. \A m \in sent : Id(m) \in I
  BY <1>5, IdsAre
<1>20. Counted(w, I, Seats(taken.ports, E \cup taken.out))
  <2> DEFINE S == Seats(st.ports, E \cup st.out)
             T == Seats(taken.ports, E \cup taken.out)
  <2>1. Counted(w, I, S) /\ T \subseteq S
    BY <1>18 DEF HandlerRight, Right
  <2> HIDE DEF I, S, T
  <2>2. Counted(w, I, T)
    BY <2>1, FewerSeats
  <2>3. QED
    BY <2>2 DEF T
<1> HIDE DEF I
<1>21. a \in DOMAIN taken.ports
  BY <1>11
<1> DEFINE s == PrepareToForwardUserMessage(taken, a, sent)
<1>22. \E K \in Labels : /\ Widens(L, K, taken.lastName)
                         /\ HandlerRight(w, K, s, E) /\ NoNewSeats(taken, s, E)
  BY <1>6, <1>11, <1>14, <1>15, <1>16, <1>17, <1>18, <1>19, <1>20, <1>21, PrepareRight
<1> HIDE DEF s
<1>23. NoNewSeats(taken, s, E) => NoNewSeats(st, s, E)
  BY <1>18 DEF NoNewSeats
<1>24. QED
  BY <1>1, <1>12, <1>22, <1>23 DEF s

\* What forwarding leaves of the ports that proxy.
LEMMA ForwardKeeps ==
  ASSUME NEW st \in HandlerState, NEW a \in DOMAIN st.ports, st.ports[a].state = "proxying",
         NEW c \in DOMAIN st.ports, st.ports[c].state = "proxying"
  PROVE  LET r == st.ports[c]
             q == ForwardUserMessagesFromProxy(st, a).ports[c]
         IN  /\ q.state = "proxying" /\ q.peer = r.peer
             /\ q.removeOnLast = r.removeOnLast /\ q.lastRecv = r.lastRecv
<1> DEFINE ra == st.ports[a]
           M == Sequential(ra)
           bad == {m \in M : \E p \in Attached({m}) : Unsendable(st, a, p)}
           lost == {m \in bad : \A x \in bad : m.seq <= x.seq}
           sent == {m \in M : \A x \in bad : m.seq < x.seq}
           port == [ra EXCEPT !.queue = @ \ (sent \cup lost),
                              !.nextRecv = @ + Cardinality(sent \cup lost),
                              !.nextSend = @ - Cardinality(lost)]
           left == {<<a[1], p>> : p \in Attached(lost)}
           none == lost = {}
           taken == Taken(st, a, port, left, none)
           moved == IF taken.ports[a].peer[1] = a[1] THEN {} ELSE Attached(sent)
           s == PrepareToForwardUserMessage(taken, a, sent)
           fresh == Fresh(taken.lastName, moved)
<1>1. ForwardUserMessagesFromProxy(st, a) = s
  BY DEF ForwardUserMessagesFromProxy, Taken
<1>2. ra \in Port /\ st.ports[c] \in Port /\ ra.queue \in FiniteSubset(Message)
  BY PortOfState
<1>3. M \subseteq ra.queue
  BY DEF Sequential
<1>4. \A p \in Attached(sent) : <<a[1], p>> # c
  <2>1. SUFFICES ASSUME NEW p \in Attached(sent), <<a[1], p>> = c
                 PROVE  FALSE
    OBVIOUS
  <2>2. PICK m \in sent : p \in Attached({m})
    BY DEF Attached
  <2>3. m.seq \in Nat
    BY <1>2, <1>3 DEF FiniteSubset, Message
  <2>4. m \notin bad
    BY <2>3
  <2>5. QED
    BY <2>1, <2>2, <2>4 DEF Unsendable
<1> HIDE DEF M, lost, sent
<1>5. /\ port.state = "proxying" /\ port.peer = ra.peer
      /\ port.removeOnLast = ra.removeOnLast /\ port.lastRecv = ra.lastRecv
  BY <1>2 DEF Port
<1> HIDE DEF port, left, none
<1>6. taken.ports = [st.ports EXCEPT ![a] = port]
  BY DEF Taken, HandlerState
<1>7. /\ taken.ports[c].state = "proxying" /\ taken.ports[c].peer = st.ports[c].peer
      /\ taken.ports[c].removeOnLast = st.ports[c].removeOnLast
      /\ taken.ports[c].lastRecv = st.ports[c].lastRecv
  BY <1>5, <1>6
<1>8. taken = [st EXCEPT !.ports = taken.ports, !.orphans = taken.orphans, !.ok = taken.ok]
  BY DEF Taken, HandlerState
<1>9. s.ports = [b \in DOMAIN taken.ports |->
                   IF b[1] = a[1] /\ b[2] \in moved
                   THEN ConvertToProxy(taken.ports[b],
                                       <<taken.ports[a].peer[1], fresh[b[2]]>>)
                   ELSE taken.ports[b]]
  BY DEF PrepareToForwardUserMessage, HandlerState, Taken
<1>10. c \in DOMAIN taken.ports /\ c = <<c[1], c[2]>>
  BY <1>6, PortOfState, AddrParts
<1>11. \A p \in moved : <<a[1], p>> # c
  BY <1>4
<1> HIDE DEF moved, taken, s, fresh
<1>12. s.ports[c] = taken.ports[c]
  BY <1>9, <1>10, <1>11
<1>13. QED
  BY <1>1, <1>7, <1>12

\* Beginning to proxy.
LEMMA BeginProxyingRight ==
  ASSUME NEW w, NEW L \in Labels, NEW st \in HandlerState, NEW a \in DOMAIN st.ports,
         NEW E \in SUBSET Event, NEW hd \in SUBSET Addr, HandlerSound(st, E, hd),
         HandlerRight(w, L, st, E)
  PROVE  \E K \in Labels : /\ Widens(L, K, st.lastName)
                           /\ HandlerRight(w, K, BeginProxying(st, a), E)
<1> DEFINE s == [st EXCEPT !.ports[a].state = "proxying"]
           port == [st.ports[a] EXCEPT !.state = "proxying"]
           forwarded == ForwardUserMessagesFromProxy(s, a)
           reported == [st EXCEPT !.oops = @ \cup {"begin proxying"}]
<1>1. port \in Port
  BY PortOfState DEF Port, State
<1>2. /\ s = [st EXCEPT !.ports[a] = port] /\ s.ports = [st.ports EXCEPT ![a] = port]
      /\ s.out = st.out /\ s.lastName = st.lastName
  BY DEF HandlerState
<1>3. /\ Later(st.ports[a], port) /\ port.state = "proxying"
      /\ port.queue = st.ports[a].queue /\ port.removeOnLast = st.ports[a].removeOnLast
      /\ port.lastRecv = st.ports[a].lastRecv
  BY PortOfState, PortFields DEF Later, Port
<1>4. s \in HandlerState /\ DOMAIN s.ports = DOMAIN st.ports
  <2> HIDE DEF port
  <2>1. QED
    BY <1>1, <1>2, SetPort DEF HandlerState
<1>5. CASE st.ports[a].state # "buffering"
  <2>1. BeginProxying(st, a) = reported
    BY <1>5 DEF BeginProxying
  <2> DEFINE nil == {}
  <2>2. /\ reported.ports = st.ports /\ reported.out = st.out \cup nil
        /\ reported.lastName = st.lastName
        /\ \A f \in nil : /\ ~Carrier(f)
                          /\ EventRight(w, Seats(st.ports, E \cup st.out), L, st.lastName, f)
    BY DEF HandlerState
  <2> HIDE DEF reported, nil
  <2>3. HandlerRight(w, L, reported, E)
    BY <2>2, RightSend
  <2>4. QED
    BY <2>1, <2>3 DEF Widens
<1>6. CASE st.ports[a].state = "buffering"
  <2> DEFINE S == Seats(st.ports, E \cup st.out)
             T == Seats(forwarded.ports, E \cup forwarded.out)
  <2>1. HandlerRight(w, L, s, E)
    <3>1. s.ports = [st.ports EXCEPT ![a] = [st.ports[a] EXCEPT !.state = "proxying"]]
      BY <1>2
    <3>2. st.ports[a].state # "receiving"
      BY <1>6
    <3> HIDE DEF s
    <3>3. QED
      BY <1>2, <3>1, <3>2, ProxyingRight
  <2> HIDE DEF port
  <2>2. BeginProxying(st, a) = IF forwarded.ok THEN StartRemoval(forwarded, a) ELSE forwarded
    BY <1>6 DEF BeginProxying
  <2> HIDE DEF s
  <2>3. /\ s.ports[a].state = "proxying" /\ s.ports[a].removeOnLast = st.ports[a].removeOnLast
        /\ s.ports[a].lastRecv = st.ports[a].lastRecv
    BY <1>2, <1>3
  <2>4. HandlerSound(s, E, hd)
    <3>1. Calm(st, s)
      BY <1>1, <1>2, <1>3, CalmReplace
    <3>2. QED
      BY <1>4, <3>1, CalmSound
  <2>5. NoNewSeats(st, s, E)
    <3>1. Settled(st.ports, s.ports)
      BY <1>2, <1>3 DEF Settled
    <3>2. HandlerConserves(st, s, E)
      BY <1>2, <3>1, SettledConserves
    <3>3. QED
      BY <3>2 DEF HandlerConserves, Conserves, NoNewSeats
  <2>6. PICK K \in Labels : /\ Widens(L, K, s.lastName) /\ HandlerRight(w, K, forwarded, E)
                            /\ NoNewSeats(s, forwarded, E)
    BY <1>4, <2>1, <2>3, <2>4, ForwardRight
  <2>7. forwarded \in HandlerState /\ a \in DOMAIN forwarded.ports
    BY <1>4, ForwardFromProxyType
  <2>8. /\ forwarded.ports[a].state = "proxying"
        /\ forwarded.ports[a].removeOnLast = st.ports[a].removeOnLast
        /\ forwarded.ports[a].lastRecv = st.ports[a].lastRecv
    BY <1>4, <2>3, ForwardKeeps
  <2> HIDE DEF forwarded
  <2>9. PortRight(w, S, L, st.lastName, a, st.ports[a])
    BY PortIsRight
  <2>10. T \subseteq S
    BY <2>5, <2>6 DEF NoNewSeats
  <2>11. w.whole /\ forwarded.ports[a].removeOnLast =>
           Closed(w, T, K[a[2]], forwarded.ports[a].lastRecv)
    <3>1. SUFFICES ASSUME w.whole, forwarded.ports[a].removeOnLast
                   PROVE  Closed(w, T, K[a[2]], forwarded.ports[a].lastRecv)
      OBVIOUS
    <3>2. Closed(w, S, L[a[2]], st.ports[a].lastRecv)
      BY <1>6, <2>8, <2>9, <3>1 DEF PortRight
    <3>3. K[a[2]] = L[a[2]]
      <4>1. a[2] \in PortName /\ a[2] <= st.lastName
        BY <2>9, PortOfState, AddrParts DEF PortRight
      <4>2. QED
        BY <1>2, <2>6, <4>1 DEF Widens
    <3> HIDE DEF S, T
    <3>4. Closed(w, T, L[a[2]], st.ports[a].lastRecv)
      BY <2>10, <3>2, FewerSeats
    <3>5. QED
      BY <2>8, <3>3, <3>4
  <2>12. HandlerRight(w, K, StartRemoval(forwarded, a), E)
    <3>1. forwarded.ports[a].state # "receiving"
      BY <2>8
    <3>2. QED
      BY <2>6, <2>7, <2>11, <3>1, StartRemovalRight
  <2>13. QED
    BY <1>2, <2>2, <2>6, <2>12
<1>7. QED
  BY <1>5, <1>6

-----------------------------------------------------------------------------
(***************************************************************************)
(* Fusing two pipes: the ends x and y are no more, their conjugates face   *)
(* each other, and what was on its way to x is on its way to y's conjugate.*)
(***************************************************************************)
Fused(w, x, y) ==
  [conj |-> [w.conj EXCEPT ![w.conj[x]] = w.conj[y], ![w.conj[y]] = w.conj[x]],
   sent |-> w.sent, whole |-> w.whole]

\* Where what was on its way to t goes when w has become v.
Across(w, v, t) == IF Facing(w, t) THEN v.conj[w.conj[t]] ELSE t

\* Conjugates after the fusion.
LEMMA FusedConjugates ==
  ASSUME NEW w, NEW x, NEW y, Facing(w, x), Facing(w, y), x # y,
         NEW top, PipesTyped(w, top), NEW v, v = Fused(w, x, y)
  PROVE  /\ PipesTyped(v, top) /\ DOMAIN v.conj = DOMAIN w.conj
         /\ v.sent = w.sent /\ v.whole = w.whole
         /\ w.conj[x] # w.conj[y]
         /\ v.conj[w.conj[x]] = w.conj[y] /\ v.conj[w.conj[y]] = w.conj[x]
         /\ \A t \in DOMAIN w.conj :
              t # w.conj[x] /\ t # w.conj[y] => v.conj[t] = w.conj[t]
<1>1. w.conj[x] # w.conj[y]
  BY DEF Facing
<1>2. /\ v.conj = [w.conj EXCEPT ![w.conj[x]] = w.conj[y], ![w.conj[y]] = w.conj[x]]
      /\ v.sent = w.sent /\ v.whole = w.whole
  BY DEF Fused
<1>3. /\ w.conj[x] \in DOMAIN w.conj /\ w.conj[y] \in DOMAIN w.conj
      /\ w.conj[x] \in PortName /\ w.conj[y] \in PortName
  BY DEF Facing, PipesTyped
<1>4. /\ DOMAIN v.conj = DOMAIN w.conj
      /\ v.conj[w.conj[x]] = w.conj[y] /\ v.conj[w.conj[y]] = w.conj[x]
      /\ \A t \in DOMAIN w.conj :
           t # w.conj[x] /\ t # w.conj[y] => v.conj[t] = w.conj[t]
  BY <1>1, <1>2, <1>3
<1>5. v.conj \in [DOMAIN w.conj -> PortName]
  BY <1>2, <1>3 DEF PipesTyped
<1>6. QED
  BY <1>1, <1>2, <1>4, <1>5 DEF PipesTyped

\* Where things are on their way to, after the fusion.
LEMMA AcrossFacts ==
  ASSUME NEW w, NEW x, NEW y, Facing(w, x), Facing(w, y), x # y,
         NEW top, PipesTyped(w, top), NEW v, v = Fused(w, x, y)
  PROVE  /\ \A t : Facing(w, t) => Facing(v, Across(w, v, t))
         /\ \A t : Facing(w, t) => Across(w, v, w.conj[t]) = v.conj[t]
         /\ \A t : Facing(w, t) /\ t # x /\ t # y => Across(w, v, t) = t
         /\ \A t : Facing(w, t) /\ t # w.conj[x] /\ t # w.conj[y]
                     => v.conj[Across(w, v, t)] = w.conj[t]
         /\ Across(w, v, x) = w.conj[y] /\ Across(w, v, y) = w.conj[x]
         /\ Across(w, v, w.conj[x]) = w.conj[x] /\ Across(w, v, w.conj[y]) = w.conj[y]
<1> DEFINE X == w.conj[x]
           Y == w.conj[y]
<1>1. /\ X # Y /\ v.conj[X] = Y /\ v.conj[Y] = X /\ DOMAIN v.conj = DOMAIN w.conj
      /\ \A t \in DOMAIN w.conj : t # X /\ t # Y => v.conj[t] = w.conj[t]
  BY FusedConjugates
<1>2. /\ X \in DOMAIN w.conj /\ Y \in DOMAIN w.conj /\ x \in DOMAIN w.conj /\ y \in DOMAIN w.conj
      /\ w.conj[x] = X /\ w.conj[y] = Y /\ w.conj[X] = x /\ w.conj[Y] = y
      /\ x # X /\ y # Y
  BY DEF Facing
<1>3. Facing(w, X) /\ Facing(w, Y)
  BY FacingBack
<1> HIDE DEF X, Y
<1>4. \A t : Facing(w, t) => /\ t \in DOMAIN w.conj /\ w.conj[t] \in DOMAIN w.conj
                             /\ w.conj[w.conj[t]] = t /\ w.conj[t] # t
                             /\ Across(w, v, t) = v.conj[w.conj[t]]
  BY DEF Facing, Across
<1>5. Across(w, v, x) = Y /\ Across(w, v, y) = X
  BY <1>1, <1>2, <1>4
<1>6. Across(w, v, X) = X /\ Across(w, v, Y) = Y
  <2>1. Across(w, v, X) = v.conj[x] /\ Across(w, v, Y) = v.conj[y]
    BY <1>2, <1>3, <1>4
  <2>2. v.conj[x] = X
    BY <1>1, <1>2
  <2>3. v.conj[y] = Y
    BY <1>1, <1>2
  <2>4. QED
    BY <2>1, <2>2, <2>3
<1>7. ASSUME NEW t, Facing(w, t), t # x, t # y
      PROVE  Across(w, v, t) = t
  <2>1. w.conj[t] # X /\ w.conj[t] # Y
    BY <1>2, <1>4, <1>7
  <2>2. QED
    BY <1>1, <1>4, <1>7, <2>1
<1>8. ASSUME NEW t, Facing(w, t)
      PROVE  Across(w, v, w.conj[t]) = v.conj[t]
  BY <1>4, <1>8, FacingBack
<1>9. ASSUME NEW t, Facing(w, t), t # X, t # Y
      PROVE  v.conj[Across(w, v, t)] = w.conj[t]
  <2>1. CASE t = x
    BY <1>1, <1>2, <1>5, <2>1
  <2>2. CASE t = y
    BY <1>1, <1>2, <1>5, <2>2
  <2>3. CASE t # x /\ t # y
    BY <1>1, <1>4, <1>7, <1>9, <2>3
  <2>4. QED
    BY <2>1, <2>2, <2>3
<1>10. Facing(v, X) /\ Facing(v, Y)
  BY <1>1, <1>2 DEF Facing
<1>11. ASSUME NEW t, Facing(w, t)
       PROVE  Facing(v, Across(w, v, t))
  <2>1. CASE t = x \/ t = y \/ t = X \/ t = Y
    BY <1>5, <1>6, <1>10, <2>1
  <2>2. CASE t # x /\ t # y /\ t # X /\ t # Y
    <3>1. Across(w, v, t) = t
      BY <1>7, <1>11, <2>2
    <3>2. v.conj[t] = w.conj[t]
      BY <1>1, <1>4, <1>11, <2>2
    <3>3. w.conj[t] # X /\ w.conj[t] # Y
      BY <1>2, <1>4, <1>11, <2>2
    <3>4. v.conj[w.conj[t]] = t
      BY <1>1, <1>4, <1>11, <3>3
    <3>5. QED
      BY <1>1, <1>4, <1>11, <3>1, <3>2, <3>4 DEF Facing
  <2>3. QED
    BY <2>1, <2>2
<1>12. QED
  BY <1>5, <1>6, <1>7, <1>8, <1>9, <1>11 DEF X, Y

\* A closure stays one.
LEMMA AcrossClosed ==
  ASSUME NEW w, NEW x, NEW y, Facing(w, x), Facing(w, y), x # y,
         NEW top, PipesTyped(w, top), NEW v, v = Fused(w, x, y),
         NEW S, ~Vacant(S, x), ~Vacant(S, y), NEW T, T \subseteq S,
         NEW t, Facing(w, t), NEW l, Closed(w, S, t, l)
  PROVE  Closed(v, T, Across(w, v, t), l)
<1> DEFINE X == w.conj[x]
           Y == w.conj[y]
<1>1. /\ X # Y /\ v.conj[X] = Y /\ v.conj[Y] = X /\ v.sent = w.sent
      /\ w.conj[X] = x /\ w.conj[Y] = y
  BY FusedConjugates DEF Facing
<1>2. \A u : Vacant(S, u) => Vacant(T, u)
  BY DEF Vacant
<1>3. /\ Across(w, v, x) = Y /\ Across(w, v, y) = X
      /\ Across(w, v, X) = X /\ Across(w, v, Y) = Y
  BY AcrossFacts
<1>4. CASE t = x
  <2>1. Vacant(S, X) /\ l = w.sent[X]
    BY <1>4 DEF Closed
  <2>2. QED
    BY <1>1, <1>2, <1>3, <1>4, <2>1 DEF Closed
<1>5. CASE t = y
  <2>1. Vacant(S, Y) /\ l = w.sent[Y]
    BY <1>5 DEF Closed
  <2>2. QED
    BY <1>1, <1>2, <1>3, <1>5, <2>1 DEF Closed
<1>6. CASE t = X
  <2>1. Vacant(S, X)
    BY <1>1, <1>6 DEF Closed
  <2>2. QED
    BY <1>2, <1>3, <1>6, <2>1 DEF Closed
<1>7. CASE t = Y
  <2>1. Vacant(S, Y)
    BY <1>1, <1>7 DEF Closed
  <2>2. QED
    BY <1>2, <1>3, <1>7, <2>1 DEF Closed
<1>8. CASE t # x /\ t # y /\ t # X /\ t # Y
  <2>1. Across(w, v, t) = t /\ v.conj[Across(w, v, t)] = w.conj[t]
    BY <1>8, AcrossFacts
  <2>2. QED
    BY <1>1, <1>2, <2>1 DEF Closed
<1>9. QED
  BY <1>4, <1>5, <1>6, <1>7, <1>8

\* The labels after a fusion.
Crossed(w, v, L) == [p \in PortName |-> Across(w, v, L[p])]

\* They are labels.
LEMMA CrossedLabels ==
  ASSUME NEW w, NEW x, NEW y, Facing(w, x), Facing(w, y), x # y,
         NEW top, PipesTyped(w, top), NEW L \in Labels
  PROVE  Crossed(w, Fused(w, x, y), L) \in Labels
<1> DEFINE v == Fused(w, x, y)
<1>1. PipesTyped(v, top) /\ DOMAIN v.conj = DOMAIN w.conj
  BY FusedConjugates
<1> HIDE DEF v
<1>2. ASSUME NEW t \in PortName
      PROVE  Across(w, v, t) \in PortName
  BY <1>1 DEF Across, Facing, PipesTyped
<1>3. \A p \in PortName : L[p] \in PortName
  BY DEF Labels
<1>4. Crossed(w, v, L) \in Labels
  BY <1>2, <1>3 DEF Crossed, Labels
<1>5. QED
  BY <1>4 DEF v

\* Ports that have no part in the fusion.
LEMMA FusedPort ==
  ASSUME NEW w, NEW x, NEW y, Facing(w, x), Facing(w, y), x # y,
         NEW top, PipesTyped(w, top), NEW v, v = Fused(w, x, y),
         NEW S, ~Vacant(S, x), ~Vacant(S, y), NEW T, T \subseteq S,
         NEW L, NEW last, NEW ps \in PortMap, NEW c \in DOMAIN ps,
         PortRight(w, S, L, last, c, ps[c]),
         ps[c].state = "receiving" => ps[c].end # x /\ ps[c].end # y,
         \A m \in ps[c].queue : m.from # x /\ m.from # y
  PROVE  PortRight(v, T, Crossed(w, v, L), last, c, ps[c])
<1> DEFINE r == ps[c]
           K == Crossed(w, v, L)
           t == L[c[2]]
           u == L[r.peer[2]]
<1>1. c[2] \in PortName /\ r.peer[2] \in PortName
  BY NamesTyped
<1>2. K[c[2]] = Across(w, v, t) /\ K[r.peer[2]] = Across(w, v, u)
  BY <1>1 DEF Crossed
<1>3. /\ c[2] <= last /\ r.peer[2] <= last /\ Facing(w, t)
      /\ r.state = "receiving" => t = r.end
      /\ u = IF r.state = "receiving" THEN w.conj[t] ELSE t
      /\ \A m \in r.queue : m.from = w.conj[t]
      /\ w.whole =>
           /\ r.state = "receiving" => ~r.removeOnLast
           /\ \/ r.state = "receiving" /\ r.peerClosed
              \/ r.state = "buffering" /\ r.removeOnLast
              => Closed(w, S, t, r.lastRecv)
  BY DEF PortRight
<1> HIDE DEF r, K, t, u
<1>4. v.whole = w.whole
  BY FusedConjugates
<1>5. Facing(v, Across(w, v, t)) /\ Across(w, v, w.conj[t]) = v.conj[t]
  BY <1>3, AcrossFacts
<1>6. r.state = "receiving" => Across(w, v, t) = t
  BY <1>3, AcrossFacts DEF r
<1>7. ASSUME NEW m \in r.queue
      PROVE  m.from = v.conj[Across(w, v, t)]
  <2>1. m.from = w.conj[t] /\ m.from # x /\ m.from # y
    BY <1>3, <1>7 DEF r
  <2>2. w.conj[w.conj[x]] = x /\ w.conj[w.conj[y]] = y
    BY DEF Facing
  <2>3. t # w.conj[x] /\ t # w.conj[y]
    BY <2>1, <2>2
  <2>4. QED
    BY <1>3, <2>1, <2>3, AcrossFacts
<1>8. ASSUME NEW l, Closed(w, S, t, l)
      PROVE  Closed(v, T, Across(w, v, t), l)
  BY <1>3, <1>8, AcrossClosed
<1> DEFINE z == Across(w, v, t)
<1>9. /\ K[c[2]] = z /\ Facing(v, z)
      /\ r.state = "receiving" => z = r.end
      /\ K[r.peer[2]] = IF r.state = "receiving" THEN v.conj[z] ELSE z
  BY <1>2, <1>3, <1>5, <1>6
<1>10. \A m \in r.queue : m.from = v.conj[z]
  BY <1>7
<1>11. \A l : Closed(w, S, t, l) => Closed(v, T, z, l)
  BY <1>8
<1> HIDE DEF z
<1>12. PortRight(v, T, K, last, c, r)
  <2>1. v.whole =>
          /\ r.state = "receiving" => ~r.removeOnLast
          /\ \/ r.state = "receiving" /\ r.peerClosed
             \/ r.state = "buffering" /\ r.removeOnLast
             => Closed(v, T, K[c[2]], r.lastRecv)
    BY <1>3, <1>4, <1>9, <1>11, Zenon
  <2>2. \A m \in r.queue : m.from = v.conj[K[c[2]]]
    BY <1>9, <1>10
  <2>3. QED
    BY <1>3, <1>9, <2>1, <2>2 DEF PortRight
<1>13. QED
  BY <1>12 DEF K, r

\* Events that are under way at the fusion.
LEMMA FusedEvent ==
  ASSUME NEW w, NEW x, NEW y, Facing(w, x), Facing(w, y), x # y,
         NEW top, PipesTyped(w, top), NEW v, v = Fused(w, x, y),
         NEW S, ~Vacant(S, x), ~Vacant(S, y), NEW T, T \subseteq S,
         NEW L, NEW last, NEW e \in Event, EventRight(w, S, L, last, e),
         Carrier(e) => \A d \in Wire(e) : d.end # x /\ d.end # y,
         IsMessage(e) => e.msg.from # x /\ e.msg.from # y
  PROVE  EventRight(v, T, Crossed(w, v, L), last, e)
<1> DEFINE K == Crossed(w, v, L)
<1>1. \A p \in PortName : K[p] = Across(w, v, L[p])
  BY DEF Crossed
<1> HIDE DEF K
<1>2. v.whole = w.whole
  BY FusedConjugates
<1>3. ASSUME IsMessage(e) \/ e.type = "ObserveClosure"
      PROVE  /\ e.to[2] <= last /\ Facing(v, K[e.to[2]])
             /\ IsMessage(e) => e.msg.from = v.conj[K[e.to[2]]]
             /\ e.type = "ObserveClosure" /\ v.whole => Closed(v, T, K[e.to[2]], e.last)
  <2> DEFINE t == L[e.to[2]]
  <2>1. e.to[2] \in PortName
    BY <1>3, NamesTyped
  <2>2. K[e.to[2]] = Across(w, v, t)
    BY <1>1, <2>1
  <2>3. e.to[2] <= last /\ Facing(w, t) /\ (IsMessage(e) => e.msg.from = w.conj[t])
    BY <1>3 DEF EventRight
  <2>4. e.type = "ObserveClosure" /\ w.whole => Closed(w, S, t, e.last)
    BY DEF EventRight
  <2> HIDE DEF t
  <2>5. Facing(v, Across(w, v, t))
    BY <2>3, AcrossFacts
  <2>6. ASSUME IsMessage(e)
        PROVE  e.msg.from = v.conj[Across(w, v, t)]
    <3>1. w.conj[w.conj[x]] = x /\ w.conj[w.conj[y]] = y
      BY DEF Facing
    <3>2. t # w.conj[x] /\ t # w.conj[y]
      BY <2>3, <2>6, <3>1
    <3>3. QED
      BY <2>3, <2>6, <3>2, AcrossFacts
  <2>7. ASSUME e.type = "ObserveClosure", v.whole
        PROVE  Closed(v, T, Across(w, v, t), e.last)
    BY <1>2, <2>3, <2>4, <2>7, AcrossClosed
  <2>8. QED
    BY <2>2, <2>3, <2>5, <2>6, <2>7
<1>4. ASSUME Carrier(e), NEW d \in Wire(e)
      PROVE  DescriptorRight(v, T, K, last, d)
  <2>1. d.name \in PortName /\ d.peer[2] \in PortName
    BY <1>4, NamesTyped
  <2>2. DescriptorRight(w, S, L, last, d) /\ d.end # x /\ d.end # y
    BY <1>4 DEF EventRight
  <2>3. /\ d.name <= last /\ d.peer[2] <= last
        /\ Facing(w, d.end) /\ L[d.name] = d.end /\ L[d.peer[2]] = w.conj[d.end]
        /\ w.whole /\ d.peerClosed => Closed(w, S, d.end, d.lastRecv)
    BY <2>2 DEF DescriptorRight
  <2>4. Across(w, v, d.end) = d.end
    BY <2>2, <2>3, AcrossFacts
  <2>5. Facing(v, d.end) /\ Across(w, v, w.conj[d.end]) = v.conj[d.end]
    BY <2>3, <2>4, AcrossFacts
  <2>6. ASSUME v.whole, d.peerClosed
        PROVE  Closed(v, T, d.end, d.lastRecv)
    <3>1. Closed(v, T, Across(w, v, d.end), d.lastRecv)
      BY <1>2, <2>3, <2>6, AcrossClosed
    <3>2. QED
      BY <2>4, <3>1
  <2>7. K[d.name] = d.end /\ K[d.peer[2]] = v.conj[d.end]
    BY <1>1, <2>1, <2>3, <2>4, <2>5
  <2>8. QED
    BY <2>3, <2>5, <2>6, <2>7 DEF DescriptorRight
<1>5. ASSUME e.type = "ObserveProxy"
      PROVE  /\ e.proxy[2] <= last /\ e.target[2] <= last
             /\ K[e.proxy[2]] = K[e.target[2]]
  <2>1. e.proxy[2] \in PortName /\ e.target[2] \in PortName
    BY <1>5, NamesTyped
  <2>2. QED
    BY <1>1, <1>5, <2>1 DEF EventRight
<1>6. v.whole => e.type # "ProxyDied"
  BY <1>2 DEF EventRight
<1>7. EventRight(v, T, K, last, e)
  BY <1>3, <1>4, <1>5, <1>6 DEF EventRight
<1>8. QED
  BY <1>7 DEF K

\* The numbers of messages: nothing had been sent by the ends that are fused.
LEMMA FusedCounted ==
  ASSUME NEW w, NEW x, NEW y, Facing(w, x), Facing(w, y), x # y,
         NEW top, PipesTyped(w, top), NEW v, v = Fused(w, x, y),
         NEW I, NEW S, Counted(w, I, S), NEW T, T \subseteq S,
         \A s \in T : s[1] # x /\ s[1] # y /\ s[3] \in Int,
         w.sent[x] = 0, w.sent[y] = 0
  PROVE  Counted(v, I, T)
<1> DEFINE X == w.conj[x]
           Y == w.conj[y]
<1>1. /\ v.sent = w.sent /\ DOMAIN v.conj = DOMAIN w.conj
      /\ v.conj[X] = Y /\ v.conj[Y] = X
      /\ \A t \in DOMAIN w.conj : t # X /\ t # Y => v.conj[t] = w.conj[t]
  BY FusedConjugates
<1>2. /\ X \in DOMAIN w.conj /\ Y \in DOMAIN w.conj /\ w.conj[X] = x /\ w.conj[Y] = y
  BY DEF Facing
<1>3. w.sent[X] \in Nat /\ w.sent[Y] \in Nat
  BY <1>2 DEF PipesTyped
<1> HIDE DEF X, Y
<1>4. ASSUME NEW i \in I
      PROVE  /\ i[1] \in DOMAIN v.conj
             /\ i[2] \in Int /\ 1 <= i[2] /\ i[2] <= v.sent[i[1]] /\ i[3] = i[2]
  BY <1>1 DEF Counted
<1>5. ASSUME NEW s \in T
      PROVE  /\ Facing(v, s[1])
             /\ s[2] = v.sent[s[1]] + 1
             /\ s[3] <= v.sent[v.conj[s[1]]] + 1
             /\ \A i \in I : i[1] = v.conj[s[1]] => i[2] >= s[3]
  <2>1. /\ Facing(w, s[1]) /\ s[2] = w.sent[s[1]] + 1
        /\ s[3] <= w.sent[w.conj[s[1]]] + 1
        /\ \A i \in I : i[1] = w.conj[s[1]] => i[2] >= s[3]
    BY DEF Counted
  <2>2. Facing(v, s[1])
    BY <2>1, AcrossFacts
  <2>3. s[3] \in Int
    OBVIOUS
  <2>4. CASE s[1] = X \/ s[1] = Y
    <3>1. s[3] <= 1
      BY <1>2, <2>1, <2>4
    <3>2. v.conj[s[1]] \in {X, Y}
      BY <1>1, <2>4
    <3>3. s[3] <= v.sent[v.conj[s[1]]] + 1
      BY <1>1, <1>3, <2>3, <3>1, <3>2
    <3>4. \A i \in I : i[2] >= s[3]
      BY <1>4, <2>3, <3>1
    <3>5. QED
      BY <1>1, <2>1, <2>2, <3>3, <3>4
  <2>5. CASE s[1] # X /\ s[1] # Y
    <3>1. v.conj[s[1]] = w.conj[s[1]]
      BY <1>1, <2>1, <2>5 DEF Facing
    <3>2. QED
      BY <1>1, <2>1, <2>2, <3>1
  <2>6. QED
    BY <2>4, <2>5
<1>6. QED
  BY <1>4, <1>5 DEF Counted

\* The number that an end expects next.
LEMMA SeatsTyped ==
  ASSUME NEW ps \in PortMap, NEW ev \in SUBSET Event, NEW s \in Seats(ps, ev)
  PROVE  s[3] \in Int
<1>1. CASE \E a \in DOMAIN ps : ps[a].state = "receiving" /\ s = Seat(ps[a])
  <2>1. PICK a \in DOMAIN ps : s = Seat(ps[a])
    BY <1>1
  <2>2. ps[a] \in Port
    BY PortMapCharacterised
  <2>3. QED
    BY <2>1, <2>2 DEF Port, Seat
<1>2. CASE \E e \in ev : Carrier(e) /\ \E d \in Wire(e) : s = Seat(d)
  <2>1. PICK e \in ev : Carrier(e) /\ \E d \in Wire(e) : s = Seat(d)
    BY <1>2
  <2>2. PICK d \in Wire(e) : s = Seat(d)
    BY <2>1
  <2>3. d \in Moved
    BY <2>1, CarriedType
  <2>4. QED
    BY <2>2, <2>3 DEF Moved, Seat
<1>3. QED
  BY <1>1, <1>2, SeatsAre

\* Two receiving ports exchange their peers: what was on its way to them is on
\* its way to each other's conjugate.
LEMMA SwapRight ==
  ASSUME NEW w, NEW L \in Labels, NEW st \in HandlerState, NEW a \in DOMAIN st.ports,
         NEW b \in DOMAIN st.ports, a # b, CanMerge(st, a, b),
         NEW E \in SUBSET Event, NEW hd, HandlerSound(st, E, hd), HandlerRight(w, L, st, E),
         NEW top, PipesTyped(w, top)
  PROVE  LET x == st.ports[a].end
             y == st.ports[b].end
             v == Fused(w, x, y)
             K == Crossed(w, v, L)
             s == SwapPeers(st, a, b)
         IN  /\ Facing(w, x) /\ Facing(w, y) /\ x # y
             /\ HandlerRight(v, K, s, E)
             /\ \A c \in {a, b} : v.whole /\ s.ports[c].removeOnLast =>
                  Closed(v, Seats(s.ports, E \cup s.out), K[c[2]], s.ports[c].lastRecv)
<1> DEFINE x == st.ports[a].end
           y == st.ports[b].end
           v == Fused(w, x, y)
           K == Crossed(w, v, L)
           s == SwapPeers(st, a, b)
           ra == st.ports[a]
           rb == st.ports[b]
           Proxy(r, peer) ==
             [r EXCEPT !.state = "proxying", !.peer = peer,
                       !.removeOnLast = @ \/ r.peerClosed]
           pa == Proxy(ra, rb.peer)
           pb == Proxy(rb, ra.peer)
           S == Seats(st.ports, E \cup st.out)
           T == Seats(s.ports, E \cup s.out)
           I == Ids(st.ports, E \cup st.out)
           last == st.lastName
<1>1. /\ ra.state = "receiving" /\ rb.state = "receiving"
      /\ ra.nextSend = 1 /\ rb.nextSend = 1
  BY DEF CanMerge, kInitialSequenceNum
<1>2. /\ s.ports = [[st.ports EXCEPT ![a] = pa] EXCEPT ![b] = pb]
      /\ s.out = st.out /\ s.lastName = st.lastName
  BY DEF SwapPeers, HandlerState
<1>3. ra \in Port /\ rb \in Port /\ st.ports \in PortMap /\ st.out \subseteq Event
  BY PortOfState DEF HandlerState
<1>4. /\ pa.state = "proxying" /\ pa.peer = rb.peer /\ pa.queue = ra.queue
      /\ pa.lastRecv = ra.lastRecv /\ pa.removeOnLast = (ra.removeOnLast \/ ra.peerClosed)
      /\ pb.state = "proxying" /\ pb.peer = ra.peer /\ pb.queue = rb.queue
      /\ pb.lastRecv = rb.lastRecv /\ pb.removeOnLast = (rb.removeOnLast \/ rb.peerClosed)
  BY <1>3 DEF Port
<1>5. PortRight(w, S, L, last, a, ra) /\ PortRight(w, S, L, last, b, rb)
  BY PortIsRight
<1>6. /\ Facing(w, x) /\ L[a[2]] = x /\ L[ra.peer[2]] = w.conj[x]
      /\ Facing(w, y) /\ L[b[2]] = y /\ L[rb.peer[2]] = w.conj[y]
      /\ a[2] <= last /\ b[2] <= last /\ ra.peer[2] <= last /\ rb.peer[2] <= last
  BY <1>1, <1>5 DEF PortRight
<1>7. OneSeat(st.ports, E \cup st.out)
  BY DEF HandlerSound, Sound
<1>8. x # y
  BY <1>1, <1>7 DEF OneSeat
<1>9. Seat(ra) \in S /\ Seat(rb) \in S
  BY <1>1, SeatsAre
<1>10. ~Vacant(S, x) /\ ~Vacant(S, y)
  BY <1>9 DEF Vacant, Seat
<1>11. Counted(w, I, S)
  BY DEF HandlerRight, Right
<1>12. w.sent[x] = 0 /\ w.sent[y] = 0
  <2>1. /\ Seat(ra)[2] = w.sent[Seat(ra)[1]] + 1
        /\ Seat(rb)[2] = w.sent[Seat(rb)[1]] + 1
    BY <1>9, <1>11 DEF Counted
  <2>2. w.sent[x] + 1 = 1 /\ w.sent[y] + 1 = 1
    BY <1>1, <2>1 DEF Seat
  <2>3. w.sent[x] \in Nat /\ w.sent[y] \in Nat
    BY <1>6 DEF PipesTyped, Facing
  <2>4. QED
    BY <2>2, <2>3
<1>13. \A i \in I : i[1] # x /\ i[1] # y
  BY <1>11, <1>12 DEF Counted
<1> HIDE DEF pa, pb, s
<1>14. /\ DOMAIN s.ports = DOMAIN st.ports
       /\ s.ports[a] = pa /\ s.ports[b] = pb
       /\ \A c \in DOMAIN st.ports : c # a /\ c # b => s.ports[c] = st.ports[c]
  BY <1>2
<1>15. T \subseteq S /\ Ids(s.ports, E \cup s.out) \subseteq I
  <2>1. Settled(st.ports, s.ports)
    <3>1. ASSUME NEW c \in DOMAIN st.ports
          PROVE  /\ s.ports[c].queue \subseteq st.ports[c].queue
                 /\ s.ports[c].state = "receiving" =>
                      st.ports[c].state = "receiving" /\ Seat(s.ports[c]) = Seat(st.ports[c])
      BY <1>4, <1>14
    <3>2. QED
      BY <1>14, <3>1 DEF Settled
  <2>2. HandlerConserves(st, s, E)
    BY <1>2, <2>1, SettledConserves
  <2>3. QED
    BY <2>2 DEF HandlerConserves, Conserves
<1>16. ASSUME NEW t \in T
       PROVE  t[1] # x /\ t[1] # y /\ t[3] \in Int
  <2>1. t[3] \in Int
    <3>1. t \in S /\ E \cup st.out \in SUBSET Event
      BY <1>3, <1>15
    <3>2. QED
      BY <1>3, <3>1, SeatsTyped
  <2>2. CASE \E c \in DOMAIN s.ports : s.ports[c].state = "receiving" /\ t = Seat(s.ports[c])
    <3>1. PICK c \in DOMAIN s.ports : s.ports[c].state = "receiving" /\ t = Seat(s.ports[c])
      BY <2>2
    <3>2. c \in DOMAIN st.ports /\ c # a /\ c # b /\ s.ports[c] = st.ports[c]
      BY <1>4, <1>14, <3>1
    <3>3. st.ports[c].end # x /\ st.ports[c].end # y
      BY <1>1, <1>7, <3>1, <3>2 DEF OneSeat
    <3>4. QED
      BY <2>1, <3>1, <3>2, <3>3 DEF Seat
  <2>3. CASE \E e \in E \cup s.out : Carrier(e) /\ \E d \in Wire(e) : t = Seat(d)
    <3>1. PICK e \in E \cup st.out : Carrier(e) /\ \E d \in Wire(e) : t = Seat(d)
      BY <1>2, <2>3
    <3>2. PICK d \in Wire(e) : t = Seat(d)
      BY <3>1
    <3>3. d.end # x /\ d.end # y
      BY <1>1, <1>7, <3>1 DEF OneSeat
    <3>4. QED
      BY <2>1, <3>2, <3>3 DEF Seat
  <2>4. QED
    BY <2>2, <2>3, SeatsAre
<1>17. Across(w, v, x) = w.conj[y] /\ Across(w, v, y) = w.conj[x]
         /\ Across(w, v, w.conj[x]) = w.conj[x] /\ Across(w, v, w.conj[y]) = w.conj[y]
         /\ v.conj[w.conj[x]] = w.conj[y] /\ v.conj[w.conj[y]] = w.conj[x]
         /\ Facing(v, Across(w, v, x)) /\ Facing(v, Across(w, v, y)) /\ v.whole = w.whole
  <2>1. /\ v.conj[w.conj[x]] = w.conj[y] /\ v.conj[w.conj[y]] = w.conj[x]
        /\ v.whole = w.whole
    BY <1>6, <1>8, FusedConjugates
  <2>2. /\ Across(w, v, x) = w.conj[y] /\ Across(w, v, y) = w.conj[x]
        /\ Across(w, v, w.conj[x]) = w.conj[x] /\ Across(w, v, w.conj[y]) = w.conj[y]
        /\ \A t : Facing(w, t) => Facing(v, Across(w, v, t))
    BY <1>6, <1>8, AcrossFacts
  <2>3. QED
    BY <1>6, <2>1, <2>2
<1>18. \A p \in PortName : K[p] = Across(w, v, L[p])
  BY DEF Crossed
<1>19. a[2] \in PortName /\ b[2] \in PortName /\ ra.peer[2] \in PortName /\ rb.peer[2] \in PortName
  BY <1>3, NamesTyped
<1>20. /\ K[a[2]] = w.conj[y] /\ K[rb.peer[2]] = w.conj[y]
       /\ K[b[2]] = w.conj[x] /\ K[ra.peer[2]] = w.conj[x]
  BY <1>6, <1>17, <1>18, <1>19
<1>21. Counted(v, I, T)
  <2> HIDE DEF x, y, v, S, T, I
  <2>1. v = Fused(w, x, y)
    BY DEF v
  <2>2. QED
    BY <1>6, <1>8, <1>11, <1>12, <1>15, <1>16, <2>1, FusedCounted
<1>22. ASSUME NEW c \in DOMAIN st.ports, c # a, c # b
       PROVE  PortRight(v, T, K, last, c, s.ports[c])
  <2>1. PortRight(w, S, L, last, c, st.ports[c])
    BY PortIsRight
  <2>2. st.ports[c].state = "receiving" => st.ports[c].end # x /\ st.ports[c].end # y
    BY <1>1, <1>7, <1>22 DEF OneSeat
  <2>3. \A m \in st.ports[c].queue : m.from # x /\ m.from # y
    <3>1. SUFFICES ASSUME NEW m \in st.ports[c].queue
                   PROVE  m.from # x /\ m.from # y
      OBVIOUS
    <3>2. Id(m) \in I /\ Id(m)[1] = m.from
      BY IdsAre DEF Id
    <3>3. QED
      BY <1>13, <3>2
  <2> HIDE DEF x, y, v, S, T, K
  <2>4. PortRight(v, T, Crossed(w, v, L), last, c, st.ports[c])
    <3>1. v = Fused(w, x, y)
      BY DEF v
    <3>2. QED
      BY <1>3, <1>6, <1>8, <1>10, <1>15, <2>1, <2>2, <2>3, <3>1, FusedPort
  <2>5. QED
    BY <1>14, <1>22, <2>4 DEF K
<1>23. \A l : Closed(w, S, x, l) => Closed(v, T, K[a[2]], l)
  <2>1. ASSUME NEW l, Closed(w, S, x, l)
        PROVE  Closed(v, T, Across(w, v, x), l)
    <3> HIDE DEF x, y, v, S, T
    <3>1. v = Fused(w, x, y)
      BY DEF v
    <3>2. QED
      BY <1>6, <1>8, <1>10, <1>15, <2>1, <3>1, AcrossClosed
  <2>2. QED
    BY <1>17, <1>20, <2>1
<1>24. \A l : Closed(w, S, y, l) => Closed(v, T, K[b[2]], l)
  <2>1. ASSUME NEW l, Closed(w, S, y, l)
        PROVE  Closed(v, T, Across(w, v, y), l)
    <3> HIDE DEF x, y, v, S, T
    <3>1. v = Fused(w, x, y)
      BY DEF v
    <3>2. QED
      BY <1>6, <1>8, <1>10, <1>15, <2>1, <3>1, AcrossClosed
  <2>2. QED
    BY <1>17, <1>20, <2>1
<1>25. PortRight(v, T, K, last, a, pa)
  <2>1. \A m \in ra.queue : m.from = w.conj[x]
    BY <1>5, <1>6 DEF PortRight
  <2> HIDE DEF x, y, v, T, K, S, ra, rb
  <2>2. Facing(v, K[a[2]]) /\ v.conj[K[a[2]]] = w.conj[x]
    BY <1>17, <1>20
  <2>3. QED
    BY <1>4, <1>6, <1>20, <2>1, <2>2 DEF PortRight
<1>26. PortRight(v, T, K, last, b, pb)
  <2>1. \A m \in rb.queue : m.from = w.conj[y]
    BY <1>5, <1>6 DEF PortRight
  <2> HIDE DEF x, y, v, T, K, S, ra, rb
  <2>2. Facing(v, K[b[2]]) /\ v.conj[K[b[2]]] = w.conj[y]
    BY <1>17, <1>20
  <2>3. QED
    BY <1>4, <1>6, <1>20, <2>1, <2>2 DEF PortRight
<1>27. ASSUME NEW e \in E \cup st.out
       PROVE  EventRight(v, T, K, last, e)
  <2>1. EventRight(w, S, L, last, e) /\ e \in Event
    BY <1>3 DEF HandlerRight, Right
  <2>2. Carrier(e) => \A d \in Wire(e) : d.end # x /\ d.end # y
    BY <1>1, <1>7 DEF OneSeat
  <2>3. ASSUME IsMessage(e)
        PROVE  e.msg.from # x /\ e.msg.from # y
    <3>1. Id(e.msg) \in I /\ Id(e.msg)[1] = e.msg.from
      BY <2>3, IdsAre DEF Id
    <3>2. QED
      BY <1>13, <3>1
  <2> HIDE DEF x, y, v, S, T, K
  <2>4. EventRight(v, T, Crossed(w, v, L), last, e)
    <3>1. v = Fused(w, x, y)
      BY DEF v
    <3>2. QED
      BY <1>6, <1>8, <1>10, <1>15, <2>1, <2>2, <2>3, <3>1, FusedEvent
  <2>5. QED
    BY <2>4 DEF K
<1>28. HandlerRight(v, K, s, E)
  <2>1. \A c \in DOMAIN s.ports : PortRight(v, T, K, s.lastName, c, s.ports[c])
    BY <1>2, <1>14, <1>22, <1>25, <1>26
  <2>2. \A e \in E \cup s.out : EventRight(v, T, K, s.lastName, e)
    BY <1>2, <1>27
  <2>3. Counted(v, Ids(s.ports, E \cup s.out), T)
    <3> HIDE DEF v, T, I
    <3>1. T \subseteq T
      OBVIOUS
    <3>2. QED
      BY <1>15, <1>21, <3>1, FewerSeats
  <2> HIDE DEF v, K
  <2>4. QED
    BY <2>1, <2>2, <2>3 DEF HandlerRight, Right
<1>29. ASSUME v.whole, pa.removeOnLast
       PROVE  Closed(v, T, K[a[2]], pa.lastRecv)
  <2>1. w.whole
    BY <1>17, <1>29
  <2>2. ~ra.removeOnLast
    BY <1>1, <1>5, <2>1 DEF PortRight
  <2>3. ra.peerClosed
    BY <1>4, <1>29, <2>2
  <2>4. Closed(w, S, x, ra.lastRecv)
    BY <1>1, <1>5, <1>6, <2>1, <2>3 DEF PortRight
  <2>5. QED
    BY <1>4, <1>23, <2>4
<1>30. ASSUME v.whole, pb.removeOnLast
       PROVE  Closed(v, T, K[b[2]], pb.lastRecv)
  <2>1. w.whole
    BY <1>17, <1>30
  <2>2. ~rb.removeOnLast
    BY <1>1, <1>5, <2>1 DEF PortRight
  <2>3. rb.peerClosed
    BY <1>4, <1>30, <2>2
  <2>4. Closed(w, S, y, rb.lastRecv)
    BY <1>1, <1>5, <1>6, <2>1, <2>3 DEF PortRight
  <2>5. QED
    BY <1>4, <1>24, <2>4
<1>31. \A c \in {a, b} : v.whole /\ s.ports[c].removeOnLast =>
         Closed(v, T, K[c[2]], s.ports[c].lastRecv)
  <2> HIDE DEF v, K, T
  <2>1. QED
    BY <1>14, <1>29, <1>30
<1>32. QED
  BY <1>6, <1>8, <1>28, <1>31 DEF s

\* If proxy c is to pass on a closure, there was one.
ClosureKnown(w, L, st, E, c) ==
  w.whole /\ st.ports[c].removeOnLast =>
    Closed(w, Seats(st.ports, E \cup st.out), L[c[2]], st.ports[c].lastRecv)

\* This stays so.
LEMMA ClosureStaysKnown ==
  ASSUME NEW w, NEW L, NEW K, NEW st \in HandlerState, NEW E, HandlerRight(w, L, st, E),
         NEW c \in DOMAIN st.ports, ClosureKnown(w, L, st, E, c),
         Widens(L, K, st.lastName), NEW s, NoNewSeats(st, s, E),
         s.ports[c].removeOnLast = st.ports[c].removeOnLast,
         s.ports[c].lastRecv = st.ports[c].lastRecv
  PROVE  ClosureKnown(w, K, s, E, c)
<1> DEFINE S == Seats(st.ports, E \cup st.out)
           T == Seats(s.ports, E \cup s.out)
<1>1. SUFFICES ASSUME w.whole, s.ports[c].removeOnLast
               PROVE  Closed(w, T, K[c[2]], s.ports[c].lastRecv)
  BY DEF ClosureKnown
<1>2. Closed(w, S, L[c[2]], st.ports[c].lastRecv)
  BY <1>1 DEF ClosureKnown
<1>3. PortRight(w, S, L, st.lastName, c, st.ports[c])
  BY PortIsRight
<1>4. c[2] \in PortName /\ c[2] <= st.lastName
  BY <1>3, PortOfState DEF PortRight
<1>5. K[c[2]] = L[c[2]]
  BY <1>4 DEF Widens
<1>6. T \subseteq S
  BY DEF NoNewSeats
<1> HIDE DEF S, T
<1>7. Closed(w, T, L[c[2]], st.ports[c].lastRecv)
  BY <1>2, <1>6, FewerSeats
<1>8. QED
  BY <1>5, <1>7

\* What becomes of the rest when a port begins to leave.
LEMMA StartRemovalKeeps ==
  ASSUME NEW st \in HandlerState, NEW a \in DOMAIN st.ports, NEW E
  PROVE  LET s == StartRemoval(st, a)
         IN  /\ \A c \in DOMAIN st.ports : c # a => s.ports[c] = st.ports[c]
             /\ s.lastName = st.lastName /\ s.ok = st.ok
             /\ NoNewSeats(st, s, E)
<1> DEFINE r == st.ports[a]
           closure == ObserveClosure(a[1], r.peer, r.lastRecv)
           told == [st EXCEPT !.out = @ \cup {closure}]
           announced == InitiateProxyRemoval(st, a)
           ack == IF r.sendOnRemoval = NoAddr THEN {}
                  ELSE {ObserveProxyAck(a[1], r.sendOnRemoval, kInvalidSequenceNum)}
           left == {<<a[1], p>> : p \in Attached(r.queue)}
           erased == Erased(told, a, ack, left)
           s == StartRemoval(st, a)
<1>1. s = announced \/ s = told \/ s = erased
  <2>1. s = announced \/ s = TryRemoveProxy(told, a)
    BY DEF StartRemoval
  <2>2. told.ports[a] = r /\ told.out = st.out \cup {closure}
    BY DEF HandlerState
  <2> HIDE DEF told
  <2>3. TryRemoveProxy(told, a) = told \/ TryRemoveProxy(told, a) = erased
    BY <2>2 DEF TryRemoveProxy, Erased
  <2>4. QED
    BY <2>1, <2>3
<1>2. /\ announced.ports = st.ports /\ announced.lastName = st.lastName
      /\ announced.ok = st.ok
      /\ announced.out = st.out \cup {ObserveProxy(a[1], r.peer, a, r.peer)}
  BY DEF InitiateProxyRemoval, HandlerState
<1>3. /\ told.ports = st.ports /\ told.lastName = st.lastName /\ told.ok = st.ok
      /\ told.out = st.out \cup {closure}
  BY DEF HandlerState
<1>4. /\ erased.ports = Erase(st.ports, a) /\ erased.lastName = st.lastName
      /\ erased.ok = st.ok /\ erased.out = told.out \cup ack
  BY DEF Erased, HandlerState
<1>5. \A e \in announced.out \cup told.out \cup erased.out : Carrier(e) => e \in st.out
  <2>1. ~Carrier(closure) /\ ~Carrier(ObserveProxy(a[1], r.peer, a, r.peer))
    BY Empty
  <2>2. \A e \in ack : ~Carrier(e)
    BY Empty
  <2> HIDE DEF ack, closure
  <2>3. QED
    BY <1>2, <1>3, <1>4, <2>1, <2>2
<1> HIDE DEF announced, told, erased, s
<1>6. /\ s.ports = st.ports \/ s.ports = Erase(st.ports, a)
      /\ s.lastName = st.lastName /\ s.ok = st.ok
      /\ \A e \in s.out : Carrier(e) => e \in st.out
  BY <1>1, <1>2, <1>3, <1>4, <1>5
<1>7. /\ DOMAIN s.ports \subseteq DOMAIN st.ports
      /\ \A c \in DOMAIN s.ports : s.ports[c] = st.ports[c]
      /\ \A c \in DOMAIN st.ports : c # a => s.ports[c] = st.ports[c]
  BY <1>6 DEF Erase
<1>8. NoNewSeats(st, s, E)
  <2>1. Settled(st.ports, s.ports)
    BY <1>7 DEF Settled
  <2>2. HandlerConserves(st, s, E)
    BY <1>6, <2>1, SettledConserves
  <2>3. QED
    BY <2>2 DEF HandlerConserves, Conserves, NoNewSeats
<1>9. QED
  BY <1>6, <1>7, <1>8 DEF s

\* Closing says nothing of success.
LEMMA CloseOk ==
  ASSUME NEW st \in HandlerState, NEW a
  PROVE  Close(st, a).ok = st.ok
BY DEF Close, HandlerState

\* What a merge comes to.
LEMMA MergeOutcome ==
  ASSUME NEW st \in HandlerState, NEW a \in DOMAIN st.ports,
         NEW b \in DOMAIN st.ports, a # b, NEW allowClose
  PROVE  LET first == ForwardUserMessagesFromProxy(SwapPeers(st, a, b), a)
             second == ForwardUserMessagesFromProxy(first, b)
             merged == MergePortsInternal(st, a, b, allowClose)
             CloseIf(s, c) == IF allowClose \/ s.ports[c].state = "receiving"
                              THEN Close(s, c) ELSE s
         IN  /\ ~CanMerge(st, a, b) =>
                  /\ ~merged.ok
                  /\ merged = [CloseIf(CloseIf(st, a), b) EXCEPT !.ok = FALSE]
             /\ CanMerge(st, a, b) /\ first.ok /\ second.ok =>
                  merged = StartRemoval(StartRemoval(second, a), b) /\ merged.ok
             /\ CanMerge(st, a, b) /\ ~(first.ok /\ second.ok) => ~merged.ok
<1> DEFINE swapped == SwapPeers(st, a, b)
           first == ForwardUserMessagesFromProxy(swapped, a)
           second == ForwardUserMessagesFromProxy(first, b)
           flushed == IF first.ok THEN second ELSE first
           CloseIf(s, c) == IF allowClose \/ s.ports[c].state = "receiving"
                            THEN Close(s, c) ELSE s
           once == CloseIf(st, a)
           closed == CloseIf(once, b)
           undone == UndoSwap(flushed, a, b)
           merged == MergePortsInternal(st, a, b, allowClose)
           started == StartRemoval(second, a)
<1>1. swapped \in HandlerState /\ DOMAIN swapped.ports = DOMAIN st.ports
  BY SwapType
<1>2. /\ ~CanMerge(st, a, b) => merged = [closed EXCEPT !.ok = FALSE]
      /\ CanMerge(st, a, b) /\ flushed.ok => merged = StartRemoval(StartRemoval(flushed, a), b)
      /\ CanMerge(st, a, b) /\ ~flushed.ok => merged = Close(Close(undone, a), b)
  BY DEF MergePortsInternal
<1> HIDE DEF swapped, merged
<1>3. first \in HandlerState /\ DOMAIN first.ports = DOMAIN st.ports
  BY <1>1, ForwardFromProxyType
<1> HIDE DEF first
<1>4. second \in HandlerState /\ DOMAIN second.ports = DOMAIN st.ports
  BY <1>3, ForwardFromProxyType
<1> HIDE DEF second
<1>5. flushed \in HandlerState /\ DOMAIN flushed.ports = DOMAIN st.ports
  BY <1>3, <1>4
<1>6. ASSUME ~CanMerge(st, a, b)
      PROVE  ~merged.ok /\ merged = [closed EXCEPT !.ok = FALSE]
  <2>1. once \in HandlerState /\ b \in DOMAIN once.ports
    BY CloseType
  <2> HIDE DEF once
  <2>2. closed \in HandlerState
    BY <2>1, CloseType
  <2> HIDE DEF closed
  <2>3. QED
    BY <1>2, <1>6, <2>2 DEF HandlerState
<1>7. ASSUME CanMerge(st, a, b), first.ok, second.ok
      PROVE  merged = StartRemoval(started, b) /\ merged.ok
  <2>1. merged = StartRemoval(started, b)
    BY <1>2, <1>7
  <2>2. started \in HandlerState /\ b \in DOMAIN started.ports
    BY <1>4, StartRemovalType
  <2>3. started.ok = second.ok
    BY <1>4, StartRemovalKeeps
  <2> HIDE DEF started
  <2>4. StartRemoval(started, b).ok = started.ok
    BY <2>2, StartRemovalKeeps
  <2>5. QED
    BY <1>7, <2>1, <2>3, <2>4
<1>8. ASSUME CanMerge(st, a, b), ~(first.ok /\ second.ok)
      PROVE  ~merged.ok
  <2>1. ~flushed.ok
    BY <1>8
  <2>2. undone \in HandlerState /\ DOMAIN undone.ports = DOMAIN st.ports
    BY <1>5, SwapType
  <2> HIDE DEF flushed
  <2>3. undone.ok = flushed.ok
    BY <1>5 DEF UndoSwap, HandlerState
  <2> HIDE DEF undone
  <2>4. Close(undone, a) \in HandlerState
    BY <2>2, CloseType
  <2>5. Close(Close(undone, a), b).ok = flushed.ok
    BY <2>2, <2>3, <2>4, CloseOk
  <2>6. QED
    BY <1>2, <1>8, <2>1, <2>5
<1>9. QED
  BY <1>6, <1>7, <1>8 DEF started, once, closed, merged, first, second, swapped

\* A merge either only closes, or fuses the two pipes; it must not give up
\* after some messages have been forwarded.
LEMMA MergeRight ==
  ASSUME NEW w, NEW L \in Labels, NEW st \in HandlerState, NEW a \in DOMAIN st.ports,
         NEW b \in DOMAIN st.ports, a # b, NEW allowClose,
         NEW E \in SUBSET Event, NEW hd \in SUBSET Addr, HandlerSound(st, E, hd),
         HandlerRight(w, L, st, E), NEW top, PipesTyped(w, top),
         CanMerge(st, a, b) => MergePortsInternal(st, a, b, TRUE).ok
  PROVE  LET merged == MergePortsInternal(st, a, b, allowClose)
             x == st.ports[a].end
             y == st.ports[b].end
         IN  \/ ~merged.ok /\ HandlerRight(w, L, merged, E)
             \/ /\ merged.ok /\ Facing(w, x) /\ Facing(w, y) /\ x # y
                /\ \E K \in Labels : HandlerRight(Fused(w, x, y), K, merged, E)
<1> DEFINE swapped == SwapPeers(st, a, b)
           first == ForwardUserMessagesFromProxy(swapped, a)
           second == ForwardUserMessagesFromProxy(first, b)
           merged == MergePortsInternal(st, a, b, allowClose)
           CloseIf(s, c) == IF allowClose \/ s.ports[c].state = "receiving"
                            THEN Close(s, c) ELSE s
           x == st.ports[a].end
           y == st.ports[b].end
           v == Fused(w, x, y)
           J == Crossed(w, v, L)
           once == CloseIf(st, a)
           closed == CloseIf(once, b)
           started == StartRemoval(second, a)
<1>1. CASE ~CanMerge(st, a, b)
  <2>1. ~merged.ok /\ merged = [closed EXCEPT !.ok = FALSE]
    BY <1>1, MergeOutcome
  <2>2. HandlerRight(w, L, Close(st, a), E)
    BY CloseRight
  <2>3. /\ once \in HandlerState /\ b \in DOMAIN once.ports /\ Calm(st, once)
        /\ HandlerRight(w, L, once, E)
    BY <2>2, CloseType, CalmRemoval, CalmOrder
  <2> HIDE DEF once
  <2>4. HandlerSound(once, E, hd)
    BY <2>3, CalmSound
  <2>5. HandlerRight(w, L, Close(once, b), E)
    BY <2>3, <2>4, CloseRight
  <2>6. closed \in HandlerState /\ HandlerRight(w, L, closed, E)
    BY <2>3, <2>5, CloseType
  <2> HIDE DEF closed, merged
  <2>7. merged.ports = closed.ports /\ merged.out = closed.out /\ merged.lastName = closed.lastName
    BY <2>1, <2>6 DEF HandlerState
  <2>8. HandlerRight(w, L, merged, E)
    BY <2>6, <2>7 DEF HandlerRight
  <2>9. QED
    BY <2>1, <2>8 DEF merged
<1>2. CASE CanMerge(st, a, b)
  <2>1. first.ok /\ second.ok
    BY <1>2, MergeOutcome
  <2>2. merged = StartRemoval(started, b) /\ merged.ok
    BY <1>2, <2>1, MergeOutcome
  <2>3. /\ Facing(w, x) /\ Facing(w, y) /\ x # y /\ HandlerRight(v, J, swapped, E)
        /\ \A c \in {a, b} : ClosureKnown(v, J, swapped, E, c)
    BY <1>2, SwapRight DEF ClosureKnown
  <2>4. J \in Labels
    BY <2>3, CrossedLabels
  <2>5. /\ swapped \in HandlerState /\ DOMAIN swapped.ports = DOMAIN st.ports
        /\ Calm(st, swapped)
        /\ swapped.ports[a].state = "proxying" /\ swapped.ports[b].state = "proxying"
    BY SwapType, SwapEvolves, CalmSwap
  <2> HIDE DEF swapped, merged, J, v, x, y
  <2>6. HandlerSound(swapped, E, hd)
    BY <2>5, CalmSound
  <2>7. PICK K \in Labels : /\ Widens(J, K, swapped.lastName)
                            /\ HandlerRight(v, K, first, E) /\ NoNewSeats(swapped, first, E)
    BY <2>3, <2>4, <2>5, <2>6, ForwardRight
  <2>8. /\ first \in HandlerState /\ DOMAIN first.ports = DOMAIN st.ports
        /\ HandlerSound(first, E, hd)
    BY <2>5, <2>6, ForwardFromProxyType, ForwardSound
  <2>9. \A c \in {a, b} :
          /\ first.ports[c].state = "proxying"
          /\ first.ports[c].removeOnLast = swapped.ports[c].removeOnLast
          /\ first.ports[c].lastRecv = swapped.ports[c].lastRecv
    BY <2>5, ForwardKeeps
  <2> HIDE DEF first
  <2>10. \A c \in {a, b} : ClosureKnown(v, K, first, E, c)
    BY <2>3, <2>5, <2>7, <2>9, ClosureStaysKnown
  <2>11. PICK M \in Labels : /\ Widens(K, M, first.lastName)
                             /\ HandlerRight(v, M, second, E) /\ NoNewSeats(first, second, E)
    BY <2>7, <2>8, <2>9, ForwardRight
  <2>12. second \in HandlerState /\ DOMAIN second.ports = DOMAIN st.ports
    BY <2>8, ForwardFromProxyType
  <2>13. \A c \in {a, b} :
          /\ second.ports[c].state = "proxying"
          /\ second.ports[c].removeOnLast = first.ports[c].removeOnLast
          /\ second.ports[c].lastRecv = first.ports[c].lastRecv
    BY <2>8, <2>9, ForwardKeeps
  <2> HIDE DEF second
  <2>14. \A c \in {a, b} : ClosureKnown(v, M, second, E, c)
    BY <2>7, <2>8, <2>10, <2>11, <2>13, ClosureStaysKnown
  <2>15. HandlerRight(v, M, started, E)
    <3>1. second.ports[a].state # "receiving" /\ a \in DOMAIN second.ports
      BY <2>12, <2>13
    <3>2. v.whole /\ second.ports[a].removeOnLast =>
            Closed(v, Seats(second.ports, E \cup second.out), M[a[2]], second.ports[a].lastRecv)
      BY <2>14 DEF ClosureKnown
    <3>3. QED
      BY <2>11, <2>12, <3>1, <3>2, StartRemovalRight
  <2>16. /\ started \in HandlerState /\ b \in DOMAIN started.ports
         /\ started.ports[b] = second.ports[b] /\ NoNewSeats(second, started, E)
         /\ started.lastName = second.lastName
    <3>1. a \in DOMAIN second.ports /\ b \in DOMAIN second.ports
      BY <2>12
    <3>2. started \in HandlerState /\ DOMAIN second.ports \ {a} \subseteq DOMAIN started.ports
      BY <2>12, <3>1, StartRemovalType
    <3>3. /\ \A c \in DOMAIN second.ports : c # a => started.ports[c] = second.ports[c]
          /\ started.lastName = second.lastName /\ NoNewSeats(second, started, E)
      BY <2>12, <3>1, StartRemovalKeeps
    <3>4. QED
      BY <3>1, <3>2, <3>3
  <2> HIDE DEF started
  <2>17. Widens(M, M, second.lastName) /\ b \in DOMAIN second.ports
    BY <2>12 DEF Widens
  <2>18. ClosureKnown(v, M, started, E, b)
    BY <2>11, <2>12, <2>14, <2>16, <2>17, ClosureStaysKnown
  <2>19. HandlerRight(v, M, StartRemoval(started, b), E)
    <3>1. started.ports[b].state # "receiving"
      BY <2>13, <2>16
    <3>2. v.whole /\ started.ports[b].removeOnLast =>
            Closed(v, Seats(started.ports, E \cup started.out), M[b[2]], started.ports[b].lastRecv)
      BY <2>18 DEF ClosureKnown
    <3>3. QED
      BY <2>15, <2>16, <3>1, <3>2, StartRemovalRight
  <2>20. QED
    BY <2>2, <2>3, <2>19 DEF merged, v, x, y
<1>3. QED
  BY <1>1, <1>2

-----------------------------------------------------------------------------
(***************************************************************************)
(* Ports and messages that arrive.                                         *)
(***************************************************************************)
\* With fewer events under way things stay right.
LEMMA FewerEvents ==
  ASSUME NEW w, NEW L, NEW last, NEW ps, NEW ev, NEW fv, fv \subseteq ev,
         Right(w, L, last, ps, ev)
  PROVE  Right(w, L, last, ps, fv)
<1> DEFINE S == Seats(ps, ev)
           T == Seats(ps, fv)
<1>1. T \subseteq S
  <2>1. \A s : s \in T => s \in S
    BY SeatsAre
  <2>2. QED
    BY <2>1
<1>2. Ids(ps, fv) \subseteq Ids(ps, ev)
  <2>1. \A i : i \in Ids(ps, fv) => i \in Ids(ps, ev)
    BY IdsAre
  <2>2. QED
    BY <2>1
<1>3. /\ \A a \in DOMAIN ps : PortRight(w, S, L, last, a, ps[a])
      /\ \A e \in ev : EventRight(w, S, L, last, e)
      /\ Counted(w, Ids(ps, ev), S)
  BY DEF Right
<1> HIDE DEF S, T
<1>4. /\ \A a \in DOMAIN ps : PortRight(w, T, L, last, a, ps[a])
      /\ \A e \in fv : EventRight(w, T, L, last, e)
      /\ Counted(w, Ids(ps, fv), T)
  BY <1>1, <1>2, <1>3, FewerSeats
<1>5. QED
  BY <1>4 DEF Right, T

\* What AcceptPort makes of a descriptor.
LEMMA AcceptedParts ==
  ASSUME NEW st \in HandlerState, NEW n, NEW D,
         NEW b \in DOMAIN AcceptPorts(st, n, D).ports, b \notin DOMAIN st.ports
  PROVE  \E d \in D : b = <<n, d.name>> /\ AcceptPorts(st, n, D).ports[b] = AcceptedPort(d)
<1> DEFINE B == {<<n, d.name>> : d \in D}
           new == [c \in B |-> AcceptedPort(CHOOSE d \in D : d.name = c[2])]
           d == CHOOSE x \in D : x.name = b[2]
<1>1. AcceptPorts(st, n, D).ports = Extend(st.ports, new)
  BY DEF AcceptPorts, HandlerState
<1>2. b \in B /\ AcceptPorts(st, n, D).ports[b] = AcceptedPort(d)
  BY <1>1 DEF Extend
<1>3. d \in D /\ d.name = b[2]
  BY <1>2
<1>4. b = <<n, b[2]>>
  BY <1>2
<1>5. QED
  BY <1>2, <1>3, <1>4

\* A port made from a descriptor.
LEMMA AcceptedIsRight ==
  ASSUME NEW w, NEW S, NEW L, NEW last, NEW d, DescriptorRight(w, S, L, last, d), NEW n
  PROVE  /\ PortRight(w, S, L, last, <<n, d.name>>, AcceptedPort(d))
         /\ Seat(AcceptedPort(d)) = Seat(d)
<1> DEFINE r == AcceptedPort(d)
           b == <<n, d.name>>
<1>1. /\ r.state = "receiving" /\ r.peer = d.peer /\ r.end = d.end /\ r.queue = {}
      /\ r.nextSend = d.nextSend /\ r.nextRecv = d.nextRecv /\ r.lastRecv = d.lastRecv
      /\ r.peerClosed = d.peerClosed /\ r.removeOnLast = FALSE
  BY DEF AcceptedPort, NewPort
<1>2. b[2] = d.name
  OBVIOUS
<1> HIDE DEF r, b
<1>3. Seat(r) = Seat(d)
  BY <1>1 DEF Seat
<1>4. PortRight(w, S, L, last, b, r)
  BY <1>1, <1>2 DEF PortRight, DescriptorRight
<1>5. QED
  BY <1>3, <1>4 DEF r, b

\* AcceptPort, for all ports that event e carries.
LEMMA AcceptRight ==
  ASSUME NEW w, NEW L, NEW st \in HandlerState, st.out = {}, NEW n \in Node,
         NEW e \in Event, Carrier(e), NEW E \in SUBSET Event,
         Right(w, L, st.lastName, st.ports, E \cup {e})
  PROVE  LET s == AcceptPorts(st, n, Wire(e))
             I == Ids(st.ports, E \cup {e})
         IN  /\ HandlerRight(w, L, s, E)
             /\ Ids(s.ports, E \cup s.out) \subseteq I
             /\ Counted(w, I, Seats(s.ports, E \cup s.out))
<1> DEFINE D == Wire(e)
           s == AcceptPorts(st, n, D)
           ev == E \cup {e}
           fv == E \cup s.out
           I == Ids(st.ports, ev)
           S == Seats(st.ports, ev)
           T == Seats(s.ports, fv)
<1>1. D \in SUBSET Moved
  BY CarriedType
<1>2. /\ Accepts(st.ports, s.ports, n, D) /\ s.lastName = st.lastName
      /\ \A f \in s.out : ~Carrier(f)
  BY <1>1, AcceptPortsAccepts
<1>3. \A f \in s.out : \E d \in D : f = PortAccepted(n, d.referring)
  BY DEF AcceptPorts, HandlerState
<1>4. /\ \A a \in DOMAIN st.ports : PortRight(w, S, L, st.lastName, a, st.ports[a])
      /\ \A f \in ev : EventRight(w, S, L, st.lastName, f)
      /\ Counted(w, I, S)
  BY DEF Right
<1>5. \A d \in D : DescriptorRight(w, S, L, st.lastName, d)
  BY <1>4 DEF EventRight
<1>6. ASSUME NEW b \in DOMAIN s.ports, b \notin DOMAIN st.ports
      PROVE  /\ PortRight(w, S, L, st.lastName, b, s.ports[b])
             /\ \E d \in D : Seat(s.ports[b]) = Seat(d)
             /\ s.ports[b].queue = {}
  <2>1. PICK d \in D : b = <<n, d.name>> /\ s.ports[b] = AcceptedPort(d)
    BY <1>6, AcceptedParts
  <2>2. s.ports[b].queue = {}
    BY <1>2, <1>6 DEF Accepts
  <2> HIDE DEF s, D, S
  <2>3. QED
    BY <1>5, <2>1, <2>2, AcceptedIsRight
<1>7. \A b \in DOMAIN st.ports : b \in DOMAIN s.ports /\ s.ports[b] = st.ports[b]
  BY <1>2 DEF Accepts
<1> HIDE DEF s
<1>8. ASSUME NEW t \in T
      PROVE  t \in S
  <2>1. CASE \E b \in DOMAIN s.ports : s.ports[b].state = "receiving" /\ t = Seat(s.ports[b])
    <3>1. PICK b \in DOMAIN s.ports : s.ports[b].state = "receiving" /\ t = Seat(s.ports[b])
      BY <2>1
    <3>2. CASE b \in DOMAIN st.ports
      BY <1>7, <3>1, <3>2, SeatsAre
    <3>3. CASE b \notin DOMAIN st.ports
      <4>1. \E d \in Wire(e) : t = Seat(d)
        BY <1>6, <3>1, <3>3
      <4>2. \E f \in ev : Carrier(f) /\ \E d \in Wire(f) : t = Seat(d)
        BY <4>1
      <4>3. QED
        BY <4>2, SeatsAre
    <3>4. QED
      BY <3>2, <3>3
  <2>2. CASE \E f \in fv : Carrier(f) /\ \E d \in Wire(f) : t = Seat(d)
    <3>1. \E f \in ev : Carrier(f) /\ \E d \in Wire(f) : t = Seat(d)
      BY <1>2, <2>2
    <3>2. QED
      BY <3>1, SeatsAre
  <2>3. QED
    BY <2>1, <2>2, SeatsAre
<1>9. ASSUME NEW i \in Ids(s.ports, fv)
      PROVE  i \in I
  <2>1. CASE \E b \in DOMAIN s.ports : \E m \in s.ports[b].queue : i = Id(m)
    <3>1. \E b \in DOMAIN st.ports : \E m \in st.ports[b].queue : i = Id(m)
      BY <1>6, <1>7, <2>1
    <3>2. QED
      BY <3>1, IdsAre
  <2>2. CASE \E f \in fv : IsMessage(f) /\ i = Id(f.msg)
    <3>1. \E f \in ev : IsMessage(f) /\ i = Id(f.msg)
      BY <1>2, <2>2 DEF Carrier
    <3>2. QED
      BY <3>1, IdsAre
  <2>3. QED
    BY <2>1, <2>2, IdsAre
<1>10. T \subseteq S /\ Ids(s.ports, fv) \subseteq I
  BY <1>8, <1>9
<1> HIDE DEF S, T, I
<1>11. Counted(w, I, T)
  BY <1>4, <1>10, FewerSeats
<1>12. ASSUME NEW b \in DOMAIN s.ports
       PROVE  PortRight(w, T, L, s.lastName, b, s.ports[b])
  <2>1. PortRight(w, S, L, st.lastName, b, s.ports[b])
    BY <1>4, <1>6, <1>7
  <2>2. QED
    BY <1>2, <1>10, <2>1, FewerSeats
<1>13. ASSUME NEW f \in fv
       PROVE  EventRight(w, T, L, s.lastName, f)
  <2>1. CASE f \in E
    <3>1. EventRight(w, S, L, st.lastName, f)
      BY <1>4, <2>1
    <3>2. QED
      BY <1>2, <1>10, <3>1, FewerSeats
  <2>2. CASE f \in s.out
    <3>1. PICK d \in D : f = PortAccepted(n, d.referring)
      BY <1>3, <2>2
    <3>2. EventRight(w, T, L, s.lastName, PortAccepted(n, d.referring))
      BY PlainEvents
    <3>3. QED
      BY <3>1, <3>2
  <2>3. QED
    BY <2>1, <2>2
<1>14. Counted(w, Ids(s.ports, fv), T)
  <2>1. T \subseteq T
    OBVIOUS
  <2>2. QED
    BY <1>10, <1>11, <2>1, FewerSeats
<1>15. HandlerRight(w, L, s, E)
  BY <1>12, <1>13, <1>14 DEF HandlerRight, Right, T
<1>16. QED
  BY <1>10, <1>11, <1>15 DEF s, I, T

\* A message is queued in a port on its way.
LEMMA QueueRight ==
  ASSUME NEW w, NEW L, NEW st \in HandlerState, NEW a \in DOMAIN st.ports, NEW m \in Message,
         NEW E, HandlerRight(w, L, st, E), m.from = w.conj[L[a[2]]],
         NEW I, Ids(st.ports, E \cup st.out) \subseteq I, Id(m) \in I,
         Counted(w, I, Seats(st.ports, E \cup st.out))
  PROVE  HandlerRight(w, L, [st EXCEPT !.ports[a].queue = @ \cup {m}], E)
<1> DEFINE s == [st EXCEPT !.ports[a].queue = @ \cup {m}]
           r == st.ports[a]
           port == [r EXCEPT !.queue = @ \cup {m}]
           ev == E \cup st.out
           S == Seats(st.ports, ev)
           T == Seats(s.ports, E \cup s.out)
<1>1. /\ s.ports = [st.ports EXCEPT ![a] = port] /\ s.out = st.out
      /\ s.lastName = st.lastName
  BY DEF HandlerState
<1>2. /\ port.state = r.state /\ port.end = r.end /\ port.peer = r.peer
      /\ port.removeOnLast = r.removeOnLast /\ port.peerClosed = r.peerClosed
      /\ port.lastRecv = r.lastRecv
      /\ port.queue = r.queue \cup {m} /\ Seat(port) = Seat(r)
  BY PortOfState DEF Port, Seat
<1>3. PortRight(w, S, L, st.lastName, a, r)
  BY PortIsRight
<1>4. /\ \A b \in DOMAIN st.ports : PortRight(w, S, L, st.lastName, b, st.ports[b])
      /\ \A f \in ev : EventRight(w, S, L, st.lastName, f)
  BY DEF HandlerRight, Right
<1> HIDE DEF port, s
<1>5. ASSUME NEW t
      PROVE  t \in T => t \in S
  <2>1. (\E b \in DOMAIN s.ports : s.ports[b].state = "receiving" /\ t = Seat(s.ports[b]))
          => \E b \in DOMAIN st.ports : st.ports[b].state = "receiving" /\ t = Seat(st.ports[b])
    BY <1>1, <1>2
  <2>2. QED
    BY <1>1, <2>1, SeatsAre
<1>6. ASSUME NEW i
      PROVE  i \in Ids(s.ports, E \cup s.out) => i \in I
  <2>1. (\E b \in DOMAIN s.ports : \E x \in s.ports[b].queue : i = Id(x))
          => i = Id(m) \/ \E b \in DOMAIN st.ports : \E x \in st.ports[b].queue : i = Id(x)
    BY <1>1, <1>2
  <2>2. QED
    BY <1>1, <2>1, IdsAre
<1>7. T \subseteq S /\ Ids(s.ports, E \cup s.out) \subseteq I
  BY <1>5, <1>6
<1>8. Counted(w, I, S)
  OBVIOUS
<1> HIDE DEF S, T
<1>9. PortRight(w, S, L, st.lastName, a, port)
  <2> HIDE DEF r
  <2>1. \A x \in port.queue : x.from = w.conj[L[a[2]]]
    BY <1>2, <1>3 DEF PortRight
  <2>2. QED
    BY <1>2, <1>3, <2>1 DEF PortRight
<1>10. ASSUME NEW b \in DOMAIN s.ports
       PROVE  PortRight(w, T, L, s.lastName, b, s.ports[b])
  <2>1. PortRight(w, S, L, st.lastName, b, s.ports[b])
    BY <1>1, <1>4, <1>9
  <2>2. QED
    BY <1>1, <1>7, <2>1, FewerSeats
<1>11. ASSUME NEW f \in E \cup s.out
       PROVE  EventRight(w, T, L, s.lastName, f)
  BY <1>1, <1>4, <1>7, FewerSeats
<1>12. Counted(w, Ids(s.ports, E \cup s.out), T)
  <2> DEFINE J == Ids(s.ports, E \cup s.out)
  <2>1. J \subseteq I
    BY <1>7
  <2> HIDE DEF J
  <2>2. Counted(w, J, T)
    BY <1>7, <1>8, <2>1, FewerSeats
  <2>3. QED
    BY <2>2 DEF J
<1>13. HandlerRight(w, L, s, E)
  BY <1>10, <1>11, <1>12 DEF HandlerRight, Right, T
<1>14. QED
  BY <1>13 DEF s

-----------------------------------------------------------------------------
(***************************************************************************)
(* Names are drawn upwards.                                                *)
(***************************************************************************)
\* Names for ports that move.
LEMMA PrepareGrows ==
  ASSUME NEW st \in HandlerState, NEW a, NEW M \in FiniteSubset(Message)
  PROVE  st.lastName <= PrepareToForwardUserMessage(st, a, M).lastName
<1> DEFINE moved == IF st.ports[a].peer[1] = a[1] THEN {} ELSE Attached(M)
<1>1. PrepareToForwardUserMessage(st, a, M).lastName = st.lastName + Cardinality(moved)
  BY DEF PrepareToForwardUserMessage, HandlerState
<1>2. moved \in SUBSET PortName /\ IsFiniteSet(moved)
  BY AttachedFinite, FS_EmptySet
<1> HIDE DEF moved
<1>3. Cardinality(moved) \in Nat /\ st.lastName \in Nat
  BY <1>2, FS_CardinalityType DEF HandlerState
<1>4. QED
  BY <1>1, <1>3

\* Names for ports in messages that are forwarded.
LEMMA ForwardGrows ==
  ASSUME NEW st \in HandlerState, NEW a \in DOMAIN st.ports
  PROVE  st.lastName <= ForwardUserMessagesFromProxy(st, a).lastName
<1> DEFINE r == st.ports[a]
           M == Sequential(r)
           bad == {m \in M : \E p \in Attached({m}) : Unsendable(st, a, p)}
           lost == {m \in bad : \A x \in bad : m.seq <= x.seq}
           sent == {m \in M : \A x \in bad : m.seq < x.seq}
           port == [r EXCEPT !.queue = @ \ (sent \cup lost),
                             !.nextRecv = @ + Cardinality(sent \cup lost),
                             !.nextSend = @ - Cardinality(lost)]
           left == {<<a[1], p>> : p \in Attached(lost)}
           none == lost = {}
           taken == Taken(st, a, port, left, none)
<1>1. ForwardUserMessagesFromProxy(st, a)
        = PrepareToForwardUserMessage(taken, a, sent)
  BY DEF ForwardUserMessagesFromProxy, Taken
<1>2. r \in Port /\ r.queue \in FiniteSubset(Message) /\ a[1] \in Node
  BY PortOfState
<1>3. M \subseteq r.queue
  BY DEF Sequential
<1>4. /\ lost \subseteq r.queue /\ sent \subseteq r.queue
      /\ sent \cup lost \subseteq r.queue
  BY <1>3
<1> HIDE DEF r, M, lost, sent
<1>5. /\ lost \in FiniteSubset(Message) /\ sent \in FiniteSubset(Message)
      /\ Cardinality(lost) \in Nat /\ Cardinality(sent \cup lost) \in Nat
  BY <1>2, <1>4, SubsetOfFinite
<1>6. port \in Port
  BY <1>2, <1>4, <1>5, TakenPort
<1>7. left \in SUBSET Addr
  BY <1>2, <1>5, AttachedAddrs
<1>8. none \in BOOLEAN
  OBVIOUS
<1> HIDE DEF port, left, none
<1>9. taken \in HandlerState
  BY <1>6, <1>7, <1>8, SetPortAndRest
<1>10. taken.lastName = st.lastName
  BY DEF Taken, HandlerState
<1> HIDE DEF taken
<1>11. QED
  BY <1>1, <1>5, <1>9, <1>10, PrepareGrows

\* Names for ports in messages that had been buffered.
LEMMA BeginProxyingGrows ==
  ASSUME NEW st \in HandlerState, NEW a \in DOMAIN st.ports
  PROVE  st.lastName <= BeginProxying(st, a).lastName
<1> DEFINE s == [st EXCEPT !.ports[a].state = "proxying"]
           port == [st.ports[a] EXCEPT !.state = "proxying"]
           forwarded == ForwardUserMessagesFromProxy(s, a)
           reported == [st EXCEPT !.oops = @ \cup {"begin proxying"}]
<1>1. port \in Port
  BY PortOfState DEF Port, State
<1>2. s = [st EXCEPT !.ports[a] = port] /\ s.lastName = st.lastName
  BY DEF HandlerState
<1>3. reported.lastName = st.lastName /\ st.lastName <= st.lastName
  BY DEF HandlerState
<1> HIDE DEF port
<1>4. s \in HandlerState /\ a \in DOMAIN s.ports
  BY <1>1, <1>2, SetPort DEF HandlerState
<1>5. \/ BeginProxying(st, a) = reported
      \/ BeginProxying(st, a) = forwarded
      \/ BeginProxying(st, a) = StartRemoval(forwarded, a)
  BY DEF BeginProxying
<1> HIDE DEF s, reported
<1>6. /\ s.lastName <= forwarded.lastName
      /\ forwarded \in HandlerState /\ a \in DOMAIN forwarded.ports
  BY <1>4, ForwardGrows, ForwardFromProxyType
<1> HIDE DEF forwarded
<1>7. StartRemoval(forwarded, a).lastName = forwarded.lastName
  BY <1>6, CalmRemoval DEF Calm
<1>8. QED
  BY <1>2, <1>3, <1>5, <1>6, <1>7

\* Names for ports in messages for ports that are merged.
LEMMA MergeGrows ==
  ASSUME NEW st \in HandlerState, NEW a \in DOMAIN st.ports,
         NEW b \in DOMAIN st.ports, a # b, NEW allowClose
  PROVE  st.lastName <= MergePortsInternal(st, a, b, allowClose).lastName
<1> DEFINE swapped == SwapPeers(st, a, b)
           first == ForwardUserMessagesFromProxy(swapped, a)
           flushed == IF first.ok THEN ForwardUserMessagesFromProxy(first, b)
                      ELSE first
           CloseIf(s, c) == IF allowClose \/ s.ports[c].state = "receiving"
                            THEN Close(s, c) ELSE s
           once == CloseIf(st, a)
           closed == CloseIf(once, b)
           undone == Close(Close(UndoSwap(flushed, a, b), a), b)
           started == StartRemoval(flushed, a)
           merged == MergePortsInternal(st, a, b, allowClose)
<1>1. \/ merged = [closed EXCEPT !.ok = FALSE]
      \/ merged = StartRemoval(started, b)
      \/ merged = undone
  BY DEF MergePortsInternal
<1>2. /\ swapped \in HandlerState /\ DOMAIN swapped.ports = DOMAIN st.ports
      /\ swapped.lastName = st.lastName
  BY SwapType, CalmSwap DEF Calm
<1> HIDE DEF swapped
<1>3. /\ first \in HandlerState /\ DOMAIN first.ports = DOMAIN st.ports
      /\ st.lastName <= first.lastName
  BY <1>2, ForwardFromProxyType, ForwardGrows
<1> HIDE DEF first
<1>4. /\ flushed \in HandlerState /\ DOMAIN flushed.ports = DOMAIN st.ports
      /\ first.lastName <= flushed.lastName
  BY <1>3, ForwardFromProxyType, ForwardGrows DEF HandlerState
<1> HIDE DEF flushed
<1>5. st.lastName <= flushed.lastName /\ st.lastName <= st.lastName
  BY <1>3, <1>4 DEF HandlerState
<1>6. once \in HandlerState /\ b \in DOMAIN once.ports /\ once.lastName = st.lastName
  BY CloseType, CalmRemoval DEF Calm
<1> HIDE DEF once
<1>7. closed \in HandlerState /\ closed.lastName = st.lastName
  BY <1>6, CloseType, CalmRemoval DEF Calm
<1> HIDE DEF closed
<1>8. [closed EXCEPT !.ok = FALSE].lastName = st.lastName
  BY <1>7 DEF HandlerState
<1>9. undone.lastName = flushed.lastName
  BY <1>4, CalmUndo DEF Calm
<1>10. started \in HandlerState /\ b \in DOMAIN started.ports /\ started.lastName = flushed.lastName
  BY <1>4, StartRemovalType, CalmRemoval DEF Calm
<1> HIDE DEF started, undone, merged
<1>11. StartRemoval(started, b).lastName = flushed.lastName
  BY <1>10, CalmRemoval DEF Calm
<1>12. merged.lastName = st.lastName \/ merged.lastName = flushed.lastName
  BY <1>1, <1>8, <1>9, <1>11
<1>13. QED
  BY <1>5, <1>12 DEF merged

-----------------------------------------------------------------------------
(***************************************************************************)
(* The invariant, and the end of a handler.                                *)
(***************************************************************************)
\* The ends have been drawn.
EndsTyped ==
  /\ DOMAIN ends \subseteq PortName
  /\ \A t \in DOMAIN ends : ends[t] \in [conj: PortName, sent: Nat] /\ t <= lastName

\* Some labelling of names by ends makes everything right.
RouteInv ==
  /\ EndsTyped
  /\ \E L \in Labels : Right(Pipes, L, lastName, ports, DOMAIN net)

\* The types of what is known of the pipes.
LEMMA PipesAre ==
  ASSUME EndsTyped
  PROVE  /\ PipesTyped(Pipes, lastName)
         /\ DOMAIN Pipes.conj = DOMAIN ends
         /\ \A t \in DOMAIN ends : Pipes.conj[t] = ends[t].conj /\ Pipes.sent[t] = ends[t].sent
         /\ Pipes.whole = (alive = Node)
<1>1. /\ Pipes.conj = [t \in DOMAIN ends |-> ends[t].conj]
      /\ Pipes.sent = [t \in DOMAIN ends |-> ends[t].sent]
      /\ Pipes.whole = (alive = Node)
  BY DEF Pipes
<1>2. \A t \in DOMAIN ends : /\ ends[t].conj \in PortName /\ ends[t].sent \in Nat
                             /\ t \in PortName /\ t <= lastName
  BY DEF EndsTyped
<1>3. QED
  BY <1>1, <1>2 DEF PipesTyped

\* A handler begins with what is right.
LEMMA BeginRight ==
  ASSUME NEW w, NEW L, Right(w, L, lastName, ports, DOMAIN net), NEW E, E \subseteq DOMAIN net
  PROVE  HandlerRight(w, L, Begin, E)
<1>1. Begin.ports = ports /\ Begin.out = {} /\ Begin.lastName = lastName
  BY DEF Begin
<1>2. Right(w, L, lastName, ports, E)
  BY FewerEvents
<1>3. E \cup {} = E
  OBVIOUS
<1>4. QED
  BY <1>1, <1>2, <1>3 DEF HandlerRight

\* What a handler has sent joins what is under way.
LEMMA CommitRight ==
  ASSUME NEW w, NEW L, NEW st, NEW pending, HandlerRight(w, L, st, DOMAIN pending),
         NEW closing, Commit(st, pending, closing)
  PROVE  Right(w, L, lastName', ports', DOMAIN net')
<1> DEFINE S == {e \in st.out : e.to[1] \in alive}
           E == DOMAIN pending
<1>1. ports' = st.ports /\ net' = pending (+) SetToBag(S) /\ lastName' = st.lastName
  BY DEF Commit
<1>2. S \subseteq st.out
  OBVIOUS
<1> HIDE DEF S
<1>3. DOMAIN net' = E \cup S
  BY <1>1 DEF (+), SetToBag
<1>4. Right(w, L, st.lastName, st.ports, E \cup st.out)
  BY DEF HandlerRight
<1>5. E \cup S \subseteq E \cup st.out
  BY <1>2
<1> HIDE DEF E
<1>6. Right(w, L, st.lastName, st.ports, E \cup S)
  BY <1>4, <1>5, FewerEvents
<1>7. QED
  BY <1>1, <1>3, <1>6

\* The ends stay typed when names are drawn.
LEMMA EndsStayTyped ==
  ASSUME TypeOK, EndsTyped, lastName' \in Nat, lastName <= lastName', ends' = ends
  PROVE  EndsTyped'
<1>1. lastName \in Nat
  BY DEF TypeOK
<1>2. ASSUME NEW t \in DOMAIN ends
      PROVE  t <= lastName'
  <2>1. t \in PortName /\ t <= lastName
    BY DEF EndsTyped
  <2>2. QED
    BY <1>1, <2>1 DEF PortName
<1>3. QED
  BY <1>2 DEF EndsTyped

\* The end of a handler that leaves the pipes.
LEMMA RouteEnd ==
  ASSUME TypeOK, EndsTyped, NEW L \in Labels, NEW st \in HandlerState, lastName <= st.lastName,
         NEW pending, HandlerRight(Pipes, L, st, DOMAIN pending),
         NEW closing, Commit(st, pending, closing), alive' = alive, ends' = ends
  PROVE  RouteInv'
<1>1. Pipes' = Pipes
  BY DEF Pipes
<1>2. lastName' = st.lastName /\ st.lastName \in Nat
  BY DEF Commit, HandlerState
<1>3. EndsTyped'
  BY <1>2, EndsStayTyped
<1>4. Right(Pipes, L, lastName', ports', DOMAIN net')
  BY CommitRight
<1>5. QED
  BY <1>1, <1>3, <1>4 DEF RouteInv

-----------------------------------------------------------------------------
(***************************************************************************)
(* Node::AcceptEvent.                                                      *)
(***************************************************************************)
\* What was right, for the handler of an event.
LEMMA AcceptedEventRight ==
  ASSUME TypeOK, UniqueInv, RouteInv, NEW e \in BagToSet(net)
  PROVE  \E L \in Labels :
           /\ Right(Pipes, L, lastName, ports, DOMAIN net)
           /\ HandlerRight(Pipes, L, Begin, DOMAIN Without(e))
           /\ EventRight(Pipes, Seats(ports, DOMAIN net), L, lastName, e)
<1>1. PICK L \in Labels : Right(Pipes, L, lastName, ports, DOMAIN net)
  BY DEF RouteInv
<1>2. e \in DOMAIN net /\ DOMAIN Without(e) \subseteq DOMAIN net
  BY WithoutSound
<1>3. HandlerRight(Pipes, L, Begin, DOMAIN Without(e))
  BY <1>1, <1>2, BeginRight
<1>4. EventRight(Pipes, Seats(ports, DOMAIN net), L, lastName, e)
  BY <1>1, <1>2 DEF Right
<1>5. QED
  BY <1>1, <1>3, <1>4

\* A message arrives.
LEMMA OnUserMessageRoutes ==
  ASSUME TypeOK, UniqueInv, RouteInv, NEW e \in BagToSet(net), OnUserMessage(e)
  PROVE  RouteInv'
<1> DEFINE n == e.to[1]
           a == e.to
           here == {<<n, d.name>> : d \in e.msg.att}
           st == AcceptPorts(Begin, n, Wire(e))
           m == Local(e.msg)
           queued == [st EXCEPT !.ports[a].queue = @ \cup {m}]
           r == queued.ports[a]
           forwarded == ForwardUserMessagesFromProxy(queued, a)
           told == IF r.signalable /\ HasNextMessage(r) THEN {a} ELSE {}
           accepted ==
             CASE r.state = "proxying" ->
                    IF forwarded.ok THEN TryRemoveProxy(forwarded, a)
                    ELSE forwarded
               [] r.state = "buffering" -> queued
               [] r.state = "receiving" -> [queued EXCEPT !.changed = told]
           unknown == [st EXCEPT !.oops = @ \cup {"port unknown"}]
           rejected == [st EXCEPT !.orphans = here]
           E == DOMAIN Without(e)
           w == Pipes
<1>1. /\ e \in Event /\ e.to \in Addr /\ e.to[1] \in Node /\ e.msg \in Message
      /\ IsMessage(e) /\ Carrier(e)
  BY WithoutType, EventParts DEF OnUserMessage, IsMessage, Carrier
<1>2. Begin \in HandlerState /\ Begin.ports = ports
  BY BeginType
<1>3. Wire(e) = {d \in e.msg.att : d.referring # NoAddr} /\ Wire(e) \in SUBSET Moved
  BY <1>1, CarriedType DEF Wire
<1>4. here \in SUBSET Addr
  <2>1. \A d \in e.msg.att : d.name \in PortName
    BY <1>1 DEF Message, FiniteSubset, Descriptor, Moved, Staying
  <2>2. QED
    BY <1>1, <2>1, AddrParts
<1>5. m \in Message /\ m.from = e.msg.from /\ Id(m) = Id(e.msg)
  <2>1. m \in Message
    BY <1>1, LocalMessage DEF Local
  <2>2. m.seq = e.msg.seq /\ m.from = e.msg.from /\ m.num = e.msg.num
    BY <1>1 DEF Local, Message
  <2>3. QED
    BY <2>1, <2>2 DEF Id
<1>6. st \in HandlerState
  BY <1>1, <1>2, <1>3, AcceptPortsType
<1>7. \/ Commit(unknown, Without(e), orphans)
      \/ a \in DOMAIN st.ports /\ Commit(accepted, Without(e), orphans)
      \/ Commit(rejected, Without(e), orphans)
  BY <1>3 DEF OnUserMessage, Local
<1>8. held' = held /\ alive' = alive /\ ends' = ends /\ EndsTyped
  BY DEF OnUserMessage, RouteInv
<1>9. /\ E \subseteq DOMAIN net /\ e \notin E /\ E \in SUBSET Event /\ e \in DOMAIN net
      /\ held \in SUBSET Addr /\ Begin.out = {} /\ Begin.lastName = lastName
  BY <1>1, WithoutSound, BeginSound
<1> DEFINE ev == E \cup {e}
<1>10. Sound(Begin.ports, ev, Begin.lastName, held)
  <2>1. ev \subseteq DOMAIN net
    BY <1>9
  <2> HIDE DEF ev
  <2>2. HandlerSound(Begin, ev, held)
    BY <2>1, BeginSound
  <2>3. ev \cup Begin.out = ev
    BY <1>9
  <2>4. QED
    BY <2>2, <2>3 DEF HandlerSound
<1>11. PICK L \in Labels : /\ Right(w, L, lastName, ports, DOMAIN net)
                           /\ EventRight(w, Seats(ports, DOMAIN net), L, lastName, e)
  BY AcceptedEventRight
<1>12. Right(w, L, Begin.lastName, Begin.ports, ev)
  <2>1. ev \subseteq DOMAIN net
    BY <1>9
  <2> HIDE DEF ev, w
  <2>2. QED
    BY <1>2, <1>9, <1>11, <2>1, FewerEvents
<1> HIDE DEF E, w
<1>13. HandlerSound(st, E, held)
  BY <1>1, <1>2, <1>9, <1>10, AcceptSound
<1> DEFINE I == Ids(Begin.ports, ev)
<1>14. /\ HandlerRight(w, L, st, E) /\ Ids(st.ports, E \cup st.out) \subseteq I
       /\ Counted(w, I, Seats(st.ports, E \cup st.out))
  BY <1>1, <1>2, <1>9, <1>12, AcceptRight
<1>15. Id(m) \in I
  <2>1. \E f \in ev : IsMessage(f) /\ Id(m) = Id(f.msg)
    BY <1>1, <1>5
  <2>2. QED
    BY <2>1, IdsAre
<1>16. m.from = w.conj[L[a[2]]]
  BY <1>1, <1>5, <1>11 DEF EventRight
<1>17. Loose(st.ports, E \cup st.out, st.lastName, held, {m})
  <2> DEFINE fv == E \cup st.out
  <2>1. /\ Accepts(Begin.ports, st.ports, n, Wire(e)) /\ st.lastName = Begin.lastName
        /\ \A f \in st.out : ~Carrier(f)
    BY <1>1, <1>2, <1>3, <1>9, AcceptPortsAccepts
  <2> HIDE DEF st
  <2>2. /\ Begin.ports \in PortMap /\ st.ports \in PortMap /\ st.lastName \in Nat
        /\ ev \in SUBSET Event /\ fv \in SUBSET Event /\ e \in ev
    BY <1>1, <1>2, <1>6, <1>9, HandlerParts
  <2>3. Arrives(e, ev, fv) /\ IsMessage(e)
    BY <1>1, <1>9, <2>1 DEF Arrives
  <2>4. Sound(Begin.ports, ev, st.lastName, held)
    BY <1>10, <2>1
  <2> HIDE DEF ev, fv, n
  <2>5. Loose(st.ports, fv, st.lastName, held, {Local(e.msg)})
    BY <2>1, <2>2, <2>3, <2>4, ArrivedLoose
  <2>6. QED
    BY <2>5 DEF fv
<1>18. st.lastName = lastName /\ lastName <= lastName
  BY <1>1, <1>2, <1>3, <1>9, AcceptPortsAccepts DEF TypeOK
<1> HIDE DEF st, here, m, I
<1>19. unknown \in HandlerState /\ rejected \in HandlerState
  BY <1>4, <1>6 DEF HandlerState, Oops
<1>20. /\ HandlerRight(w, L, unknown, E) /\ HandlerRight(w, L, rejected, E)
       /\ unknown.lastName = lastName /\ rejected.lastName = lastName
  <2>1. /\ unknown.ports = st.ports /\ unknown.out = st.out /\ unknown.lastName = st.lastName
        /\ rejected.ports = st.ports /\ rejected.out = st.out
        /\ rejected.lastName = st.lastName
    BY <1>6 DEF HandlerState
  <2> HIDE DEF unknown, rejected
  <2>2. QED
    BY <1>14, <1>18, <2>1 DEF HandlerRight
<1>21. ASSUME a \in DOMAIN st.ports
       PROVE  /\ accepted \in HandlerState /\ lastName <= accepted.lastName
              /\ \E K \in Labels : HandlerRight(w, K, accepted, E)
  <2>1. queued \in HandlerState /\ DOMAIN queued.ports = DOMAIN st.ports
    BY <1>5, <1>6, <1>21, QueuedType
  <2>2. HandlerSound(queued, E, held)
    BY <1>5, <1>6, <1>13, <1>17, <1>21, QueueSound
  <2>3. HandlerRight(w, L, queued, E)
    BY <1>5, <1>6, <1>14, <1>15, <1>16, <1>21, QueueRight
  <2>4. queued.lastName = lastName
    BY <1>6, <1>18 DEF HandlerState
  <2> HIDE DEF queued
  <2>5. r \in Port
    BY <1>21, <2>1, PortOfState
  <2>6. /\ forwarded \in HandlerState /\ a \in DOMAIN forwarded.ports
        /\ lastName <= forwarded.lastName
    BY <1>21, <2>1, <2>4, ForwardFromProxyType, ForwardGrows
  <2>7. r.state = "proxying" => \E K \in Labels : HandlerRight(w, K, forwarded, E)
    BY <1>9, <1>21, <2>1, <2>2, <2>3, ForwardRight
  <2> HIDE DEF forwarded
  <2>8. /\ TryRemoveProxy(forwarded, a) \in HandlerState
        /\ TryRemoveProxy(forwarded, a).lastName = forwarded.lastName
    BY <2>6, TryRemoveProxyType, CalmRemoval DEF Calm
  <2>9. r.state = "proxying" => \E K \in Labels : HandlerRight(w, K, TryRemoveProxy(forwarded, a), E)
    BY <2>6, <2>7, TryRemoveRight
  <2>10. told \in SUBSET Addr
    BY <1>1
  <2> HIDE DEF told, r
  <2> DEFINE ready == [queued EXCEPT !.changed = told]
  <2>11. /\ ready \in HandlerState /\ ready.ports = queued.ports /\ ready.out = queued.out
         /\ ready.lastName = queued.lastName
    BY <2>1, <2>10 DEF HandlerState
  <2>12. r.state \in {"receiving", "buffering", "proxying"}
    BY <2>5 DEF Port, State
  <2>13. \/ r.state = "proxying" /\ accepted = TryRemoveProxy(forwarded, a)
         \/ r.state = "proxying" /\ accepted = forwarded
         \/ accepted = queued
         \/ accepted = ready
    BY <2>12
  <2> HIDE DEF accepted, ready
  <2>14. HandlerRight(w, L, ready, E)
    BY <2>3, <2>11 DEF HandlerRight
  <2>15. QED
    BY <1>18, <2>1, <2>3, <2>4, <2>6, <2>7, <2>8, <2>9, <2>11, <2>13, <2>14
<1> HIDE DEF unknown, rejected, accepted
<1>22. \E s \in HandlerState : /\ \E K \in Labels : HandlerRight(w, K, s, E)
                               /\ lastName <= s.lastName /\ Commit(s, Without(e), orphans)
  BY <1>7, <1>18, <1>19, <1>20, <1>21
<1>23. PICK s \in HandlerState : /\ \E K \in Labels : HandlerRight(w, K, s, E)
                                 /\ lastName <= s.lastName /\ Commit(s, Without(e), orphans)
  BY <1>22
<1>24. PICK K \in Labels : HandlerRight(w, K, s, E)
  BY <1>23
<1>25. QED
  BY <1>8, <1>23, <1>24, RouteEnd DEF E, w

\* The buffering port starts to forward.
LEMMA OnPortAcceptedRoutes ==
  ASSUME TypeOK, UniqueInv, RouteInv, NEW e \in BagToSet(net), OnPortAccepted(e)
  PROVE  RouteInv'
<1> DEFINE st == IF e.to \in DOMAIN ports THEN BeginProxying(Begin, e.to)
                 ELSE Begin
           E == DOMAIN Without(e)
<1>1. Begin \in HandlerState /\ Begin.ports = ports /\ Begin.lastName = lastName
  BY BeginType DEF Begin
<1>2. HandlerSound(Begin, E, held) /\ E \in SUBSET Event /\ held \in SUBSET Addr
  BY WithoutSound, BeginSound
<1>3. PICK L \in Labels : HandlerRight(Pipes, L, Begin, E)
  BY AcceptedEventRight
<1> HIDE DEF E
<1>4. lastName <= Begin.lastName
  BY <1>1 DEF TypeOK
<1>5. st \in HandlerState /\ lastName <= st.lastName
  BY <1>1, <1>4, BeginProxyingType, BeginProxyingGrows
<1>6. \E K \in Labels : HandlerRight(Pipes, K, st, E)
  BY <1>1, <1>2, <1>3, BeginProxyingRight
<1>7. /\ Commit(st, Without(e), orphans) /\ alive' = alive /\ ends' = ends /\ EndsTyped
  BY DEF OnPortAccepted, RouteInv
<1> HIDE DEF st
<1>8. QED
  BY <1>5, <1>6, <1>7, RouteEnd DEF E

\* The other events that carry nothing.
LEMMA CalmHandlersRoutes ==
  ASSUME TypeOK, UniqueInv, RouteInv, NEW e \in BagToSet(net),
         OnObserveProxy(e) \/ OnObserveProxyAck(e) \/ OnObserveClosure(e) \/ OnProxyDied(e)
  PROVE  RouteInv'
<1> DEFINE a == e.to
           E == DOMAIN Without(e)
           w == Pipes
<1>1. /\ Begin \in HandlerState /\ Begin.ports = ports /\ Calm(Begin, Begin)
      /\ Begin.lastName = lastName /\ lastName <= lastName /\ Begin.out = {}
  BY BeginType, CalmOrder DEF Begin, TypeOK
<1>2. PICK L \in Labels : /\ HandlerRight(w, L, Begin, E)
                          /\ EventRight(w, Seats(ports, DOMAIN net), L, lastName, e)
  BY AcceptedEventRight
<1>3. /\ alive' = alive /\ ends' = ends /\ EndsTyped
  BY DEF OnObserveProxy, OnObserveProxyAck, OnObserveClosure, OnProxyDied, RouteInv
<1>4. E \subseteq DOMAIN net
  BY WithoutSound
<1>5. EventRight(w, Seats(Begin.ports, E \cup Begin.out), L, lastName, e)
  <2> DEFINE S == Seats(ports, DOMAIN net)
             T == Seats(Begin.ports, E \cup Begin.out)
  <2>1. \A t : t \in T => t \in S
    BY <1>1, <1>4, SeatsAre
  <2>2. T \subseteq S /\ EventRight(w, S, L, lastName, e)
    BY <1>2, <2>1
  <2> HIDE DEF S, T
  <2>3. EventRight(w, T, L, lastName, e)
    BY <2>2, FewerSeats
  <2>4. QED
    BY <2>3 DEF T
<1>6. SUFFICES \E s \in HandlerState : /\ HandlerRight(w, L, s, E) /\ s.lastName = lastName
                                       /\ Commit(s, Without(e), orphans)
  BY <1>1, <1>3, RouteEnd
<1> HIDE DEF E, w
<1>7. CASE OnObserveProxy(e)
  <2> DEFINE pass == {ObserveProxy(a[1], ports[a].peer, e.proxy, e.target)}
             passing == [Begin EXCEPT !.out = pass]
  <2>1. /\ e.to \in Addr /\ a[1] \in Node /\ e.proxy \in Addr /\ e.target \in Addr
        /\ e.type = "ObserveProxy"
    BY <1>7, WithoutType, EventParts DEF OnObserveProxy
  <2>2. \/ Commit(Begin, Without(e), orphans)
        \/ a \in DOMAIN ports /\ Commit(passing, Without(e), orphans)
        \/ /\ a \in DOMAIN ports /\ ports[a].peer = e.proxy
           /\ \/ Commit(Bypass(Begin, a, e), Without(e), orphans)
              \/ Commit(StashAck(Begin, a, e), Without(e), orphans)
    <3>1. CASE a \notin DOMAIN ports
      BY <1>7, <3>1 DEF OnObserveProxy
    <3>2. CASE a \in DOMAIN ports /\ ports[a].peer # e.proxy
      BY <1>7, <3>2 DEF OnObserveProxy
    <3>3. CASE a \in DOMAIN ports /\ ports[a].peer = e.proxy
      BY <1>7, <3>3 DEF OnObserveProxy
    <3>4. QED
      BY <3>1, <3>2, <3>3
  <2>3. ASSUME a \in DOMAIN ports
        PROVE  passing \in HandlerState /\ HandlerRight(w, L, passing, E)
                 /\ passing.lastName = lastName
    <3>1. pass \in SUBSET Event
      BY <2>1, <2>3, PortType, EventTypes
    <3>2. \A f \in pass : /\ ~Carrier(f)
                          /\ EventRight(w, Seats(Begin.ports, E \cup Begin.out), L, Begin.lastName, f)
      <4>1. e.proxy[2] <= lastName /\ e.target[2] <= lastName /\ L[e.proxy[2]] = L[e.target[2]]
        BY <1>2, <2>1 DEF EventRight
      <4> DEFINE T == Seats(Begin.ports, E \cup Begin.out)
                 to == ports[a].peer
                 n == a[1]
      <4> HIDE DEF T, to, n
      <4>2. EventRight(w, T, L, lastName, ObserveProxy(n, to, e.proxy, e.target))
        BY <4>1, PlainEvents
      <4>3. ~Carrier(ObserveProxy(n, to, e.proxy, e.target))
        BY Empty
      <4>4. pass = {ObserveProxy(n, to, e.proxy, e.target)} /\ Begin.lastName = lastName
        BY <1>1 DEF n, to
      <4> HIDE DEF pass
      <4>5. QED
        BY <4>2, <4>3, <4>4 DEF T
    <3> HIDE DEF pass
    <3>3. /\ passing \in HandlerState /\ passing.ports = Begin.ports
          /\ passing.lastName = Begin.lastName /\ passing.out = Begin.out \cup pass
      BY <1>1, <3>1 DEF HandlerState
    <3> HIDE DEF passing
    <3>4. HandlerRight(w, L, passing, E)
      BY <1>2, <3>2, <3>3, RightSend
    <3>5. QED
      BY <1>1, <3>3, <3>4
  <2>4. ASSUME a \in DOMAIN ports, ports[a].peer = e.proxy
        PROVE  /\ Bypass(Begin, a, e) \in HandlerState /\ Calm(Begin, Bypass(Begin, a, e))
               /\ StashAck(Begin, a, e) \in HandlerState
               /\ Calm(Begin, StashAck(Begin, a, e))
               /\ HandlerRight(w, L, Bypass(Begin, a, e), E)
               /\ HandlerRight(w, L, StashAck(Begin, a, e), E)
    <3>1. /\ Bypass(Begin, a, e) \in HandlerState /\ Calm(Begin, Bypass(Begin, a, e))
          /\ StashAck(Begin, a, e) \in HandlerState
          /\ Calm(Begin, StashAck(Begin, a, e))
      BY <1>1, <2>1, <2>4, ObserveProxyType, CalmObserve
    <3>2. /\ a \in DOMAIN Begin.ports /\ Begin.ports[a].peer = e.proxy
          /\ EventRight(w, Seats(ports, DOMAIN net), L, Begin.lastName, e)
      BY <1>1, <1>2, <2>4
    <3>3. /\ HandlerRight(w, L, Bypass(Begin, a, e), E)
          /\ HandlerRight(w, L, StashAck(Begin, a, e), E)
      BY <1>1, <1>2, <2>1, <3>2, BypassRight
    <3>4. QED
      BY <3>1, <3>3
  <2> HIDE DEF passing
  <2>5. QED
    BY <1>1, <1>2, <2>2, <2>3, <2>4 DEF Calm
<1>8. CASE OnObserveProxyAck(e)
  <2> DEFINE port == [ports[a] EXCEPT !.removeOnLast = TRUE, !.lastRecv = e.last]
             flagged == [Begin EXCEPT !.ports[a].removeOnLast = TRUE,
                                      !.ports[a].lastRecv = e.last]
             wrong == [Begin EXCEPT !.oops = @ \cup {"ack state"}]
  <2>1. e.last \in Int
    BY <1>8, WithoutType, EventParts DEF OnObserveProxyAck
  <2>2. \/ Commit(Begin, Without(e), orphans)
        \/ Commit(wrong, Without(e), orphans)
        \/ /\ a \in DOMAIN ports /\ ports[a].state = "proxying"
           /\ \/ Commit(InitiateProxyRemoval(Begin, a), Without(e), orphans)
              \/ Commit(TryRemoveProxy(flagged, a), Without(e), orphans)
    BY <1>8 DEF OnObserveProxyAck
  <2>3. wrong \in HandlerState /\ wrong.lastName = lastName /\ HandlerRight(w, L, wrong, E)
    <3>1. /\ wrong \in HandlerState /\ wrong.ports = Begin.ports
          /\ wrong.lastName = Begin.lastName /\ wrong.out = Begin.out
      BY <1>1 DEF HandlerState, Oops
    <3> HIDE DEF wrong
    <3>2. QED
      BY <1>1, <1>2, <3>1 DEF HandlerRight
  <2>4. ASSUME a \in DOMAIN ports, ports[a].state = "proxying"
        PROVE  /\ InitiateProxyRemoval(Begin, a) \in HandlerState
               /\ InitiateProxyRemoval(Begin, a).lastName = lastName
               /\ HandlerRight(w, L, InitiateProxyRemoval(Begin, a), E)
    <3>1. /\ InitiateProxyRemoval(Begin, a) \in HandlerState
          /\ InitiateProxyRemoval(Begin, a).lastName = lastName
      BY <1>1, <2>4, InitiateProxyRemovalType, CalmRemoval DEF Calm
    <3>2. a \in DOMAIN Begin.ports /\ Begin.ports[a].state # "receiving"
      BY <1>1, <2>4
    <3>3. QED
      BY <1>1, <1>2, <3>1, <3>2, InitiateRight
  <2>5. ASSUME a \in DOMAIN ports, ports[a].state = "proxying"
        PROVE  /\ TryRemoveProxy(flagged, a) \in HandlerState
               /\ TryRemoveProxy(flagged, a).lastName = lastName
               /\ HandlerRight(w, L, TryRemoveProxy(flagged, a), E)
    <3>1. ports[a] \in Port
      BY <2>5, PortType
    <3>2. port \in Port
      BY <2>1, <3>1 DEF Port
    <3>3. /\ flagged = [Begin EXCEPT !.ports[a] = port]
          /\ flagged.ports = [Begin.ports EXCEPT ![a] = port]
          /\ flagged.lastName = Begin.lastName /\ flagged.out = Begin.out
      BY <1>1, <2>5 DEF HandlerState
    <3>4. /\ port.state = "proxying" /\ port.peer = Begin.ports[a].peer
          /\ port.end = Begin.ports[a].end /\ port.queue = Begin.ports[a].queue
      BY <1>1, <2>5, <3>1 DEF Port
    <3> HIDE DEF port
    <3>5. [Begin EXCEPT !.ports[a] = port] \in HandlerState
      BY <1>1, <2>5, <3>2, SetPort
    <3>6. flagged \in HandlerState
      BY <3>3, <3>5, Zenon
    <3> HIDE DEF flagged
    <3>7. a \in DOMAIN Begin.ports /\ Begin.ports[a].state = "proxying"
      BY <1>1, <2>5
    <3>8. HandlerRight(w, L, flagged, E)
      <4>1. Begin \in HandlerState /\ HandlerRight(w, L, Begin, E)
        BY <1>1, <1>2
      <4>2. /\ flagged.ports = [Begin.ports EXCEPT ![a] = port]
            /\ flagged.lastName = Begin.lastName /\ flagged.out = Begin.out
        BY <3>3
      <4>3. QED
        BY <3>4, <3>7, <4>1, <4>2, FlaggedRight
    <3>9. a \in DOMAIN flagged.ports
      BY <1>1, <2>5, <3>3
    <3>10. /\ TryRemoveProxy(flagged, a) \in HandlerState
           /\ TryRemoveProxy(flagged, a).lastName = flagged.lastName
      BY <3>6, <3>9, TryRemoveProxyType, CalmRemoval DEF Calm
    <3>11. HandlerRight(w, L, TryRemoveProxy(flagged, a), E)
      BY <3>6, <3>8, TryRemoveRight
    <3>12. QED
      BY <1>1, <3>3, <3>10, <3>11
  <2> HIDE DEF flagged, wrong
  <2>6. QED
    BY <1>1, <1>2, <2>2, <2>3, <2>4, <2>5
<1>9. CASE OnObserveClosure(e)
  <2> DEFINE observed == ObservedClosure(Begin, a, e.last)
  <2>1. e.last \in Int /\ e.type = "ObserveClosure"
    BY <1>9, WithoutType, EventParts DEF OnObserveClosure
  <2>2. \/ Commit(Begin, Without(e), orphans)
        \/ a \in DOMAIN ports /\ Commit(observed, Without(e), orphans)
        \/ a \in DOMAIN ports
             /\ Commit(TryRemoveProxy(observed, a), Without(e), orphans)
    <3>1. CASE a \notin DOMAIN ports
      BY <1>9, <3>1 DEF OnObserveClosure
    <3>2. CASE a \in DOMAIN ports
      BY <1>9, <3>2 DEF OnObserveClosure
    <3>3. QED
      BY <3>1, <3>2
  <2>3. ASSUME a \in DOMAIN ports
        PROVE  /\ observed \in HandlerState /\ a \in DOMAIN observed.ports
               /\ observed.lastName = lastName /\ HandlerRight(w, L, observed, E)
    <3>1. /\ observed \in HandlerState /\ a \in DOMAIN observed.ports
          /\ observed.lastName = lastName
      BY <1>1, <2>1, <2>3, ObservedClosureType, CalmClosure DEF Calm
    <3>2. EventRight(w, Seats(Begin.ports, E \cup Begin.out), L, Begin.lastName, e)
      BY <1>1, <1>5
    <3>3. a \in DOMAIN Begin.ports
      BY <1>1, <2>3
    <3>4. HandlerRight(w, L, observed, E)
      BY <1>1, <1>2, <2>1, <3>2, <3>3, ObservedClosureRight
    <3>5. QED
      BY <3>1, <3>4
  <2> HIDE DEF observed
  <2>4. ASSUME a \in DOMAIN ports
        PROVE  /\ TryRemoveProxy(observed, a) \in HandlerState
               /\ TryRemoveProxy(observed, a).lastName = lastName
               /\ HandlerRight(w, L, TryRemoveProxy(observed, a), E)
    <3>1. /\ TryRemoveProxy(observed, a) \in HandlerState
          /\ TryRemoveProxy(observed, a).lastName = observed.lastName
      BY <2>3, <2>4, TryRemoveProxyType, CalmRemoval DEF Calm
    <3>2. HandlerRight(w, L, TryRemoveProxy(observed, a), E)
      BY <2>3, <2>4, TryRemoveRight
    <3>3. QED
      BY <2>3, <2>4, <3>1, <3>2
  <2>5. QED
    BY <1>1, <1>2, <2>2, <2>3, <2>4
<1>10. CASE OnProxyDied(e)
  <2> DEFINE n == e.to[1]
             S == {b \in DOMAIN ports : b[1] = n /\ ports[b].peer = e.proxy}
             st == DestroyAllPortsWithPeer(Begin, n, S)
  <2>1. Commit(st, Without(e), orphans) /\ e.type = "ProxyDied"
    BY <1>10 DEF OnProxyDied
  <2>2. n \in Node
    BY WithoutType, EventParts
  <2>3. ~w.whole
    BY <1>2, <2>1 DEF EventRight
  <2> HIDE DEF S, n
  <2>4. st \in HandlerState /\ Calm(Begin, st)
    BY <1>1, <2>2, DestroyType, CalmDestroy
  <2>5. HandlerRight(w, L, st, E)
    BY <1>1, <1>2, <2>3, DestroyRight
  <2> HIDE DEF st
  <2>6. QED
    BY <1>1, <2>1, <2>4, <2>5 DEF Calm
<1>11. QED
  BY <1>7, <1>8, <1>9, <1>10

-----------------------------------------------------------------------------
(***************************************************************************)
(* Fusing.  A fuse that has to give up after it has flushed one of the two *)
(* queues has sent messages of one pipe into the other, and takes back the *)
(* peers but not the messages; the theorems are about behaviours without   *)
(* such a step.                                                            *)
(***************************************************************************)
\* The two ports can be merged, but one of the queues cannot be forwarded.
GivesUp(st, a, b) == CanMerge(st, a, b) /\ ~MergePortsInternal(st, a, b, TRUE).ok

\* A step in which the embedder's fuse, or the merge that another process asked
\* for, has to give up.
FuseGivesUp ==
  \/ \E a, b \in DOMAIN ports : MergeLocalPorts(a, b) /\ GivesUp(Begin, a, b)
  \/ \E e \in BagToSet(net) :
       /\ OnMergePort(e) /\ e.to \in DOMAIN ports
       /\ GivesUp(AcceptPorts(Begin, e.to[1], {e.new}), e.to, <<e.to[1], e.new.name>>)

\* The end of a handler that has fused the ends x and y.
LEMMA FuseEnd ==
  ASSUME TypeOK, EndsTyped, NEW x, NEW y, Facing(Pipes, x), Facing(Pipes, y), x # y,
         NEW K \in Labels, NEW st \in HandlerState, lastName <= st.lastName, NEW pending,
         HandlerRight(Fused(Pipes, x, y), K, st, DOMAIN pending),
         NEW closing, Commit(st, pending, closing), alive' = alive, ends' = Joined(x, y)
  PROVE  RouteInv'
<1> DEFINE w == Pipes
           c == w.conj[x]
           d == w.conj[y]
<1>1. /\ PipesTyped(w, lastName) /\ DOMAIN w.conj = DOMAIN ends
      /\ \A t \in DOMAIN ends : w.conj[t] = ends[t].conj /\ w.sent[t] = ends[t].sent
  BY PipesAre
<1>2. /\ x \in DOMAIN ends /\ y \in DOMAIN ends /\ c \in DOMAIN ends /\ d \in DOMAIN ends
      /\ c # d /\ c \in PortName /\ d \in PortName
  BY <1>1 DEF Facing, PipesTyped
<1>3. Conjugate(x) = c /\ Conjugate(y) = d
  BY <1>1, <1>2 DEF Conjugate
<1>4. \A t \in DOMAIN ends : /\ ends[t] \in [conj: PortName, sent: Nat]
                             /\ t \in PortName /\ t <= lastName
  BY DEF EndsTyped
<1>5. ends' = [ends EXCEPT ![c].conj = d, ![d].conj = c]
  BY <1>3 DEF Joined
<1> HIDE DEF c, d
<1>6. /\ DOMAIN ends' = DOMAIN ends
      /\ \A t \in DOMAIN ends :
           /\ ends'[t] \in [conj: PortName, sent: Nat] /\ ends'[t].sent = ends[t].sent
           /\ ends'[t].conj = IF t = c THEN d ELSE IF t = d THEN c ELSE ends[t].conj
  BY <1>2, <1>4, <1>5
<1>7. Pipes' = Fused(w, x, y)
  <2> DEFINE f == [t \in DOMAIN ends |-> ends[t].conj]
             g == [t \in DOMAIN ends |-> ends[t].sent]
             F == [t \in DOMAIN ends' |-> ends'[t].conj]
             G == [t \in DOMAIN ends' |-> ends'[t].sent]
  <2>1. w = [conj |-> f, sent |-> g, whole |-> alive = Node]
    BY DEF Pipes
  <2>2. Pipes' = [conj |-> F, sent |-> G, whole |-> alive' = Node]
    BY DEF Pipes
  <2>3. G = g
    BY <1>6
  <2>4. F = [f EXCEPT ![c] = d, ![d] = c]
    BY <1>2, <1>6
  <2>5. w.conj = f /\ w.sent = g /\ w.whole = (alive = Node)
    BY <2>1
  <2> HIDE DEF f, g, F, G
  <2>6. QED
    BY <2>2, <2>3, <2>4, <2>5 DEF Fused, c, d
<1>8. lastName' = st.lastName /\ st.lastName \in Nat /\ lastName \in Nat
  BY DEF Commit, HandlerState, TypeOK
<1>9. EndsTyped'
  <2>1. ASSUME NEW t \in DOMAIN ends
        PROVE  t <= lastName'
    BY <1>4, <1>8 DEF PortName
  <2>2. QED
    BY <1>4, <1>6, <2>1 DEF EndsTyped
<1> HIDE DEF w
<1>10. Right(Fused(w, x, y), K, lastName', ports', DOMAIN net')
  BY CommitRight DEF w
<1>11. QED
  BY <1>7, <1>9, <1>10 DEF RouteInv

\* A merge, whatever comes of it.
LEMMA MergeEnd ==
  ASSUME TypeOK, EndsTyped, NEW L \in Labels, NEW st \in HandlerState,
         st.lastName = lastName, NEW a \in DOMAIN st.ports, NEW b \in DOMAIN st.ports, a # b,
         NEW allowClose, NEW pending, DOMAIN pending \in SUBSET Event,
         HandlerSound(st, DOMAIN pending, held), HandlerRight(Pipes, L, st, DOMAIN pending),
         ~GivesUp(st, a, b), NEW closing,
         Commit(MergePortsInternal(st, a, b, allowClose), pending, closing),
         alive' = alive,
         ends' = IF MergePortsInternal(st, a, b, allowClose).ok
                 THEN Joined(st.ports[a].end, st.ports[b].end) ELSE ends
  PROVE  RouteInv'
<1> DEFINE w == Pipes
           E == DOMAIN pending
           merged == MergePortsInternal(st, a, b, allowClose)
           x == st.ports[a].end
           y == st.ports[b].end
<1>1. PipesTyped(w, lastName) /\ held \in SUBSET Addr
  BY PipesAre DEF TypeOK
<1>2. CanMerge(st, a, b) => MergePortsInternal(st, a, b, TRUE).ok
  BY DEF GivesUp
<1>3. merged \in HandlerState /\ lastName <= merged.lastName
  BY MergeType, MergeGrows
<1>4. /\ Commit(merged, pending, closing) /\ HandlerRight(w, L, st, E)
      /\ HandlerSound(st, E, held) /\ E \in SUBSET Event
      /\ ends' = IF merged.ok THEN Joined(x, y) ELSE ends
  OBVIOUS
<1> HIDE DEF w, E
<1>5. \/ ~merged.ok /\ HandlerRight(w, L, merged, E)
      \/ /\ merged.ok /\ Facing(w, x) /\ Facing(w, y) /\ x # y
         /\ \E K \in Labels : HandlerRight(Fused(w, x, y), K, merged, E)
  BY <1>1, <1>2, <1>4, MergeRight
<1> HIDE DEF merged, x, y
<1>6. CASE ~merged.ok /\ HandlerRight(w, L, merged, E)
  <2>1. ends' = ends
    BY <1>4, <1>6
  <2>2. QED
    BY <1>3, <1>4, <1>6, <2>1, RouteEnd DEF w, E
<1>7. CASE /\ merged.ok /\ Facing(w, x) /\ Facing(w, y) /\ x # y
           /\ \E K \in Labels : HandlerRight(Fused(w, x, y), K, merged, E)
  <2>1. ends' = Joined(x, y)
    BY <1>4, <1>7
  <2>2. PICK K \in Labels : HandlerRight(Fused(w, x, y), K, merged, E)
    BY <1>7
  <2>3. QED
    BY <1>3, <1>4, <1>7, <2>1, <2>2, FuseEnd DEF w, E
<1>8. QED
  BY <1>5, <1>6, <1>7

\* Two ports of one node.
LEMMA MergeLocalPortsRoutes ==
  ASSUME TypeOK, UniqueInv, RouteInv, ~FuseGivesUp, NEW a, NEW b, MergeLocalPorts(a, b)
  PROVE  RouteInv'
<1>1. Begin \in HandlerState /\ Begin.ports = ports /\ Begin.lastName = lastName
  BY BeginType DEF Begin
<1>2. /\ a \in DOMAIN ports /\ b \in DOMAIN ports /\ a # b
      /\ ~GivesUp(Begin, a, b)
  BY DEF MergeLocalPorts, Usable, FuseGivesUp
<1>3. HandlerSound(Begin, DOMAIN net, held) /\ DOMAIN net \in SUBSET Event
  BY BeginSound
<1>4. PICK L \in Labels : Right(Pipes, L, lastName, ports, DOMAIN net)
  BY DEF RouteInv
<1>5. HandlerRight(Pipes, L, Begin, DOMAIN net)
  BY <1>4, BeginRight
<1>6. /\ Commit(MergePortsInternal(Begin, a, b, TRUE), net, orphans)
      /\ alive' = alive /\ EndsTyped
      /\ ends' = IF MergePortsInternal(Begin, a, b, TRUE).ok
                 THEN Joined(Begin.ports[a].end, Begin.ports[b].end) ELSE ends
  BY <1>1 DEF MergeLocalPorts, RouteInv
<1>7. QED
  BY <1>1, <1>2, <1>3, <1>5, <1>6, MergeEnd

\* A handler that closes a port.
LEMMA CloseEnd ==
  ASSUME TypeOK, EndsTyped, NEW L \in Labels, NEW st \in HandlerState,
         st.lastName = lastName, NEW a \in DOMAIN st.ports, NEW pending,
         HandlerSound(st, DOMAIN pending, held), HandlerRight(Pipes, L, st, DOMAIN pending),
         NEW closing, Commit(Close(st, a), pending, closing), alive' = alive, ends' = ends
  PROVE  RouteInv'
<1>1. PipesTyped(Pipes, lastName) /\ lastName <= lastName
  BY PipesAre DEF TypeOK
<1>2. Close(st, a) \in HandlerState /\ Close(st, a).lastName = lastName
  BY CloseType, CalmRemoval DEF Calm
<1>3. HandlerRight(Pipes, L, Close(st, a), DOMAIN pending)
  BY <1>1, CloseRight
<1>4. QED
  BY <1>1, <1>2, <1>3, RouteEnd

\* ClosePort, and the loops over ports.
LEMMA ClosingRoutes ==
  ASSUME TypeOK, UniqueInv, RouteInv, NEW a, ClosePort(a) \/ CloseOrphan(a)
  PROVE  RouteInv'
<1>1. /\ Begin \in HandlerState /\ Begin.ports = ports /\ Begin.lastName = lastName
      /\ lastName <= lastName
  BY BeginType DEF Begin, TypeOK
<1>2. PICK L \in Labels : Right(Pipes, L, lastName, ports, DOMAIN net)
  BY DEF RouteInv
<1>3. HandlerRight(Pipes, L, Begin, DOMAIN net)
  BY <1>2, BeginRight
<1>4. HandlerSound(Begin, DOMAIN net, held)
  BY BeginSound
<1>5. alive' = alive /\ ends' = ends /\ EndsTyped
  BY DEF ClosePort, CloseOrphan, RouteInv
<1>6. \E closing : \/ a \in DOMAIN ports /\ Commit(Close(Begin, a), net, closing)
                   \/ Commit(Begin, net, closing)
  <2>1. CASE ClosePort(a)
    BY <2>1 DEF ClosePort, Usable, Idle
  <2>2. CASE CloseOrphan(a) /\ a \in DOMAIN ports
    BY <2>2 DEF CloseOrphan
  <2>3. CASE CloseOrphan(a) /\ a \notin DOMAIN ports
    BY <2>3 DEF CloseOrphan
  <2>4. QED
    BY <2>1, <2>2, <2>3
<1>7. PICK closing : \/ a \in DOMAIN ports /\ Commit(Close(Begin, a), net, closing)
                     \/ Commit(Begin, net, closing)
  BY <1>6
<1>8. CASE a \in DOMAIN ports /\ Commit(Close(Begin, a), net, closing)
  BY <1>1, <1>3, <1>4, <1>5, <1>8, CloseEnd
<1>9. CASE Commit(Begin, net, closing)
  BY <1>1, <1>3, <1>5, <1>9, RouteEnd
<1>10. QED
  BY <1>7, <1>8, <1>9

\* A port arrives to be merged.
LEMMA OnMergePortRoutes ==
  ASSUME TypeOK, UniqueInv, RouteInv, ~FuseGivesUp, NEW e \in BagToSet(net), OnMergePort(e)
  PROVE  RouteInv'
<1> DEFINE n == e.to[1]
           b == <<n, e.new.name>>
           st == AcceptPorts(Begin, n, {e.new})
           merged == MergePortsInternal(st, e.to, b, FALSE)
           found == e.to \in DOMAIN ports
           E == DOMAIN Without(e)
           w == Pipes
<1>1. /\ n \in Node /\ e.new \in Moved /\ {e.new} \in SUBSET Moved /\ e \in Event
      /\ alive' = alive /\ e.type = "MergePort" /\ EndsTyped
      /\ ends' = IF found /\ st.ok /\ merged.ok
                 THEN Joined(ports[e.to].end, e.new.end) ELSE ends
  BY WithoutType, EventParts DEF OnMergePort, RouteInv
<1>2. Begin \in HandlerState /\ Begin.ports = ports
  BY BeginType
<1>3. /\ st \in HandlerState
      /\ DOMAIN st.ports = DOMAIN ports \cup {b}
      /\ st.ok <=> b \notin DOMAIN ports
  <2>1. /\ st \in HandlerState
        /\ DOMAIN st.ports = DOMAIN ports \cup {<<n, d.name>> : d \in {e.new}}
        /\ st.ok <=> \A d \in {e.new} : <<n, d.name>> \notin DOMAIN ports
    BY <1>1, <1>2, AcceptPortsType
  <2> HIDE DEF st
  <2>2. QED
    BY <2>1
<1>4. /\ st.ok /\ found => Commit(merged, Without(e), orphans)
      /\ st.ok /\ ~found => Commit(Close(st, b), Without(e), orphans)
      /\ ~st.ok /\ found => Commit(Close(Begin, e.to), Without(e), orphans)
      /\ ~st.ok /\ ~found => Commit(Begin, Without(e), orphans)
  BY DEF OnMergePort
<1>5. Carrier(e) /\ Wire(e) = {e.new}
  BY DEF OnMergePort, Carrier, IsMerge, IsMessage, Wire
<1>6. /\ E \subseteq DOMAIN net /\ e \notin E /\ E \in SUBSET Event /\ e \in DOMAIN net
      /\ held \in SUBSET Addr /\ Begin.out = {} /\ Begin.lastName = lastName
      /\ HandlerSound(Begin, E, held)
  BY <1>5, WithoutSound, BeginSound
<1> DEFINE ev == E \cup {e}
<1>7. ev \subseteq DOMAIN net
  BY <1>6
<1>8. HandlerSound(st, E, held)
  <2> HIDE DEF ev
  <2>1. HandlerSound(Begin, ev, held)
    BY <1>7, BeginSound
  <2>2. ev \cup Begin.out = ev
    BY <1>6
  <2>3. Sound(Begin.ports, ev, Begin.lastName, held)
    BY <2>1, <2>2 DEF HandlerSound
  <2> HIDE DEF E, n
  <2>4. HandlerSound(AcceptPorts(Begin, n, Wire(e)), E, held)
    BY <1>1, <1>2, <1>5, <1>6, <2>3, AcceptSound DEF ev
  <2>5. QED
    BY <1>5, <2>4
<1>9. PICK L \in Labels : Right(w, L, lastName, ports, DOMAIN net)
  BY DEF RouteInv
<1>10. HandlerRight(w, L, st, E) /\ HandlerRight(w, L, Begin, E)
  <2> HIDE DEF ev, w
  <2>1. Right(w, L, Begin.lastName, Begin.ports, ev)
    BY <1>2, <1>6, <1>7, <1>9, FewerEvents
  <2>2. HandlerRight(w, L, Begin, E)
    BY <1>6, <1>9, BeginRight
  <2> HIDE DEF E, n
  <2>3. HandlerRight(w, L, AcceptPorts(Begin, n, Wire(e)), E)
    BY <1>1, <1>2, <1>5, <1>6, <2>1, AcceptRight DEF ev
  <2>4. QED
    BY <1>5, <2>2, <2>3
<1>11. /\ st.lastName = lastName /\ lastName <= lastName
       /\ found => st.ports[e.to] = ports[e.to]
       /\ st.ok => st.ports[b].end = e.new.end
  <2>1. Accepts(Begin.ports, st.ports, n, {e.new}) /\ st.lastName = Begin.lastName
    BY <1>1, <1>2, AcceptPortsAccepts
  <2> HIDE DEF st
  <2>2. found => st.ports[e.to] = ports[e.to]
    BY <1>2, <2>1 DEF Accepts
  <2>3. st.ok => st.ports[b].end = e.new.end
    BY <1>2, <1>3, <2>1 DEF Accepts
  <2>4. QED
    BY <1>6, <2>1, <2>2, <2>3 DEF TypeOK
<1>12. found => ~GivesUp(st, e.to, b)
  BY DEF FuseGivesUp
<1> HIDE DEF st
<1>13. CASE st.ok /\ found
  <2>1. e.to \in DOMAIN st.ports /\ b \in DOMAIN st.ports /\ e.to # b
    BY <1>3, <1>13
  <2>2. /\ Commit(merged, Without(e), orphans) /\ ~GivesUp(st, e.to, b)
        /\ ends' = IF merged.ok THEN Joined(st.ports[e.to].end, st.ports[b].end) ELSE ends
    BY <1>1, <1>4, <1>11, <1>12, <1>13
  <2> HIDE DEF b
  <2>3. QED
    BY <1>1, <1>3, <1>6, <1>8, <1>10, <1>11, <2>1, <2>2, MergeEnd DEF merged
<1>14. CASE st.ok /\ ~found
  <2>1. Commit(Close(st, b), Without(e), orphans) /\ ends' = ends /\ b \in DOMAIN st.ports
    BY <1>1, <1>3, <1>4, <1>14
  <2> HIDE DEF b
  <2>2. QED
    BY <1>1, <1>3, <1>8, <1>10, <1>11, <2>1, CloseEnd
<1>15. CASE ~st.ok /\ found
  <2>1. Commit(Close(Begin, e.to), Without(e), orphans) /\ ends' = ends
    BY <1>1, <1>4, <1>15
  <2>2. QED
    BY <1>1, <1>2, <1>6, <1>10, <1>15, <2>1, CloseEnd
<1>16. CASE ~st.ok /\ ~found
  <2>1. Commit(Begin, Without(e), orphans) /\ ends' = ends
    BY <1>1, <1>4, <1>16
  <2>2. QED
    BY <1>1, <1>2, <1>6, <1>10, <1>11, <2>1, RouteEnd
<1>17. QED
  BY <1>13, <1>14, <1>15, <1>16

-----------------------------------------------------------------------------
(***************************************************************************)
(* Steps that change what is known of the pipes.                           *)
(***************************************************************************)
\* Ends that face each other still do, and closures that were known still are.
StaysFacing(w, S, v, T) ==
  \A t : Facing(w, t) =>
    /\ Facing(v, t) /\ v.conj[t] = w.conj[t]
    /\ v.whole => w.whole /\ \A l : Closed(w, S, t, l) => Closed(v, T, t, l)

\* Then ports and events stay right.
LEMMA StillRight ==
  ASSUME NEW w, NEW S, NEW v, NEW T, StaysFacing(w, S, v, T), NEW L, NEW last
  PROVE  /\ \A a, r : PortRight(w, S, L, last, a, r) => PortRight(v, T, L, last, a, r)
         /\ (v.whole => w.whole)
              => \A e : EventRight(w, S, L, last, e) => EventRight(v, T, L, last, e)
<1>1. ASSUME NEW a, NEW r, PortRight(w, S, L, last, a, r)
      PROVE  PortRight(v, T, L, last, a, r)
  <2> DEFINE t == L[a[2]]
  <2>1. /\ Facing(v, t) /\ v.conj[t] = w.conj[t]
        /\ v.whole => w.whole /\ \A l : Closed(w, S, t, l) => Closed(v, T, t, l)
    BY <1>1 DEF PortRight, StaysFacing
  <2>2. QED
    BY <1>1, <2>1 DEF PortRight
<1>2. ASSUME NEW d, DescriptorRight(w, S, L, last, d)
      PROVE  DescriptorRight(v, T, L, last, d)
  <2>1. /\ Facing(v, d.end) /\ v.conj[d.end] = w.conj[d.end]
        /\ v.whole => w.whole /\ \A l : Closed(w, S, d.end, l) => Closed(v, T, d.end, l)
    BY <1>2 DEF DescriptorRight, StaysFacing
  <2>2. QED
    BY <1>2, <2>1 DEF DescriptorRight
<1>3. ASSUME v.whole => w.whole, NEW e, EventRight(w, S, L, last, e)
      PROVE  EventRight(v, T, L, last, e)
  <2> DEFINE t == L[e.to[2]]
  <2>1. IsMessage(e) \/ e.type = "ObserveClosure" =>
          /\ Facing(v, t) /\ v.conj[t] = w.conj[t]
          /\ v.whole => w.whole /\ \A l : Closed(w, S, t, l) => Closed(v, T, t, l)
    BY <1>3 DEF EventRight, StaysFacing
  <2>2. Carrier(e) => \A d \in Wire(e) : DescriptorRight(v, T, L, last, d)
    BY <1>2, <1>3 DEF EventRight
  <2>3. QED
    BY <1>3, <2>1, <2>2 DEF EventRight
<1>4. QED
  BY <1>1, <1>3

\* A port is sent to be merged: it moves to a name drawn for it.
LEMMA MergePortsRoutes ==
  ASSUME TypeOK, UniqueInv, RouteInv, NEW a, NEW b \in Addr, MergePorts(a, b)
  PROVE  RouteInv'
<1> DEFINE r == ports[a]
           n == a[1]
           top == lastName + 1
           to == <<b[1], top>>
           d == DescriptorOf(a, r, top)
           sent == {MergePort(n, b, d)}
           proxy == ConvertToProxy(r, to)
           st == [Begin EXCEPT !.ports[a] = proxy, !.lastName = @ + 1,
                               !.changed = {c \in DOMAIN ports :
                                              c = r.peer /\ c[1] = n /\ b[1] # n},
                               !.out = {MergePort(n, b, DescriptorOf(a, r, to[2]))}]
           E == DOMAIN net
           w == Pipes
           S == Seats(ports, E)
<1>1. /\ a \in DOMAIN ports /\ r.state = "receiving"
      /\ Commit(st, net, orphans) /\ alive' = alive /\ ends' = ends /\ EndsTyped
  BY DEF MergePorts, Idle, RouteInv
<1>2. Begin \in HandlerState /\ Begin.ports = ports /\ Begin.lastName = lastName
  BY BeginType DEF Begin
<1>3. /\ st.ports = [ports EXCEPT ![a] = proxy] /\ st.lastName = top /\ st.out = sent
  BY <1>1, <1>2 DEF HandlerState
<1>4. /\ lastName \in Nat /\ top \in Nat /\ lastName <= top /\ top \in PortName
      /\ ports \in PortMap /\ E \in SUBSET Event /\ a[2] \in PortName
      /\ to[2] = top
  <2>1. ports \in PortMap
    BY <1>2, HandlerParts
  <2>2. QED
    BY <1>1, <2>1, StateTypes, NamesTyped DEF TypeOK, PortName
<1>5. PICK L \in Labels : Right(w, L, lastName, ports, E)
  BY DEF RouteInv
<1> HIDE DEF w, E, st
<1>6. PICK K \in Labels : Widens(L, K, lastName) /\ K[top] = L[a[2]]
  <2> DEFINE G == [p \in PortName |-> IF p = top THEN L[a[2]] ELSE L[p]]
  <2>1. G \in Labels
    BY <1>4 DEF Labels
  <2>2. Widens(L, G, lastName)
    BY <1>4 DEF Widens, PortName
  <2>3. G[top] = L[a[2]]
    BY <1>4
  <2>4. QED
    BY <2>1, <2>2, <2>3
<1>7. Right(w, K, top, ports, E) /\ PortRight(w, S, L, lastName, a, r)
  <2>1. Right(w, K, top, ports, E)
    BY <1>4, <1>5, <1>6, RightWidens
  <2>2. QED
    BY <1>1, <1>5, <2>1 DEF Right
<1>8. r \in Port /\ proxy.queue = r.queue /\ proxy.state = "buffering"
  BY <1>1, PortType DEF ConvertToProxy, Port
<1>9. PortRight(w, S, K, top, a, proxy)
  <2> HIDE DEF S, to, top
  <2>1. PortRight(w, S, K, top, a, ConvertToProxy(ports[a], to))
    BY <1>1, <1>4, <1>6, <1>7, ConvertedRight
  <2>2. QED
    BY <2>1
<1>10. DescriptorRight(w, S, K, top, d) /\ Seat(d) = Seat(r)
  <2> HIDE DEF S, to, top
  <2>1. /\ DescriptorRight(w, S, K, top, DescriptorOf(a, ports[a], top))
        /\ Seat(DescriptorOf(a, ports[a], top)) = Seat(ports[a])
    BY <1>1, <1>4, <1>6, <1>7, DescribedRight
  <2>2. QED
    BY <2>1
<1>11. \A e \in sent : /\ ~IsMessage(e) /\ Carrier(e) /\ Wire(e) = {d}
                       /\ EventRight(w, S, K, top, e)
  <2> DEFINE e == MergePort(n, b, d)
  <2>1. e.type = "MergePort" /\ e.new = d
    BY DEF MergePort
  <2> HIDE DEF e, d
  <2>2. ~IsMessage(e) /\ Carrier(e) /\ Wire(e) = {d}
    BY <2>1 DEF IsMessage, Carrier, IsMerge, Wire
  <2>3. EventRight(w, S, K, top, e)
    BY <1>10, <2>1, <2>2 DEF EventRight
  <2>4. QED
    BY <2>2, <2>3 DEF e
<1> HIDE DEF sent, proxy, d
<1> DEFINE T == Seats(st.ports, E \cup st.out)
<1>12. T \subseteq S
  <2>1. ASSUME NEW s \in T
        PROVE  s \in S
    <3>1. CASE \E c \in DOMAIN st.ports : st.ports[c].state = "receiving" /\ s = Seat(st.ports[c])
      <4>1. \E c \in DOMAIN ports : ports[c].state = "receiving" /\ s = Seat(ports[c])
        BY <1>3, <1>8, <3>1
      <4>2. QED
        BY <4>1, SeatsAre
    <3>2. CASE \E e \in E \cup st.out : Carrier(e) /\ \E x \in Wire(e) : s = Seat(x)
      <4>1. \/ \E e \in E : Carrier(e) /\ \E x \in Wire(e) : s = Seat(x)
            \/ s = Seat(r)
        BY <1>3, <1>10, <1>11, <3>2
      <4>2. QED
        BY <1>1, <4>1, SeatsAre
    <3>3. QED
      BY <3>1, <3>2, SeatsAre
  <2>2. QED
    BY <2>1
<1>13. Ids(st.ports, E \cup st.out) \subseteq Ids(ports, E)
  <2>1. ASSUME NEW i \in Ids(st.ports, E \cup st.out)
        PROVE  i \in Ids(ports, E)
    <3>1. CASE \E c \in DOMAIN st.ports : \E m \in st.ports[c].queue : i = Id(m)
      <4>1. \E c \in DOMAIN ports : \E m \in ports[c].queue : i = Id(m)
        BY <1>3, <1>8, <3>1
      <4>2. QED
        BY <4>1, IdsAre
    <3>2. CASE \E e \in E \cup st.out : IsMessage(e) /\ i = Id(e.msg)
      <4>1. \E e \in E : IsMessage(e) /\ i = Id(e.msg)
        BY <1>3, <1>11, <3>2
      <4>2. QED
        BY <4>1, IdsAre
    <3>3. QED
      BY <3>1, <3>2, IdsAre
  <2>2. QED
    BY <2>1
<1>14. HandlerRight(w, K, st, E)
  <2> DEFINE J == Ids(st.ports, E \cup st.out)
             I == Ids(ports, E)
  <2>1. /\ \A c \in DOMAIN ports : PortRight(w, S, K, top, c, ports[c])
        /\ \A e \in E : EventRight(w, S, K, top, e)
        /\ Counted(w, I, S)
    BY <1>7 DEF Right
  <2>2. J \subseteq I
    BY <1>13
  <2> HIDE DEF S, T, I, J, top
  <2>3. ASSUME NEW c \in DOMAIN st.ports
        PROVE  PortRight(w, T, K, top, c, st.ports[c])
    <3>1. PortRight(w, S, K, top, c, st.ports[c])
      BY <1>3, <1>9, <2>1
    <3>2. QED
      BY <1>12, <3>1, FewerSeats
  <2>4. ASSUME NEW e \in E \cup st.out
        PROVE  EventRight(w, T, K, top, e)
    <3>1. EventRight(w, S, K, top, e)
      BY <1>3, <1>11, <2>1
    <3>2. QED
      BY <1>12, <3>1, FewerSeats
  <2>5. Counted(w, J, T)
    BY <1>12, <2>1, <2>2, FewerSeats
  <2>6. QED
    BY <1>3, <2>3, <2>4, <2>5 DEF HandlerRight, Right, T, J
<1>15. Right(w, K, lastName', ports', DOMAIN net')
  BY <1>1, <1>14, CommitRight DEF E
<1>16. lastName' = top /\ Pipes' = Pipes
  BY <1>1, <1>3 DEF Commit, Pipes
<1>17. EndsTyped'
  BY <1>1, <1>4, <1>16, EndsStayTyped
<1>18. QED
  BY <1>15, <1>16, <1>17 DEF RouteInv, w

\* Port a has used one number more.
Numbered(ps, qs, a) ==
  /\ DOMAIN qs = DOMAIN ps
  /\ \A c \in DOMAIN ps : c # a => qs[c] = ps[c]
  /\ qs[a] = [ps[a] EXCEPT !.nextSend = @ + 1]

\* A message is counted: nobody else sends for the end, so that only the seat
\* of the sender has to follow.
LEMMA NumberedRight ==
  ASSUME NEW w, NEW L, NEW last, NEW ps \in PortMap, NEW ev \in SUBSET Event,
         Right(w, L, last, ps, ev), OneSeat(ps, ev), NEW top, PipesTyped(w, top),
         NEW a \in DOMAIN ps, ps[a].state = "receiving", NEW qs, Numbered(ps, qs, a),
         NEW v, v.conj = w.conj, v.whole = w.whole,
         v.sent = [w.sent EXCEPT ![ps[a].end] = ps[a].nextSend]
  PROVE  LET x == ps[a].end
             k == ps[a].nextSend
         IN  /\ Right(v, L, last, qs, ev)
             /\ Facing(w, x) /\ k \in Nat \ {0} /\ k = w.sent[x] + 1
             /\ Counted(v, Ids(ps, ev) \cup {<<x, k, k>>}, Seats(qs, ev))
             /\ Ids(qs, ev) = Ids(ps, ev)
<1> DEFINE x == ps[a].end
           k == ps[a].nextSend
           up == qs[a]
           S == Seats(ps, ev)
           T == Seats(qs, ev)
           I == Ids(ps, ev)
           i0 == <<x, k, k>>
           s0 == Seat(ps[a])
<1>1. /\ ps[a] \in Port /\ k \in Int /\ up.state = "receiving" /\ up.end = x
      /\ up.nextSend = k + 1
      /\ up.nextRecv = ps[a].nextRecv /\ up.queue = ps[a].queue /\ up.peer = ps[a].peer
      /\ up.removeOnLast = ps[a].removeOnLast /\ up.peerClosed = ps[a].peerClosed
      /\ up.lastRecv = ps[a].lastRecv /\ DOMAIN qs = DOMAIN ps
      /\ \A c \in DOMAIN ps : c # a => qs[c] = ps[c]
  <2>1. ps[a] \in Port
    BY PortMapCharacterised
  <2>2. QED
    BY <2>1 DEF Port, Numbered
<1>2. /\ \A c \in DOMAIN ps : PortRight(w, S, L, last, c, ps[c])
      /\ \A e \in ev : EventRight(w, S, L, last, e)
      /\ Counted(w, I, S)
  BY DEF Right
<1>3. s0 \in S /\ s0[1] = x /\ s0[2] = k /\ s0[3] = ps[a].nextRecv
  <2>1. s0 \in S
    BY SeatsAre
  <2>2. QED
    BY <2>1 DEF Seat
<1>4. /\ Facing(w, x) /\ k = w.sent[x] + 1 /\ w.sent[x] \in Nat /\ x \in DOMAIN w.conj
      /\ k \in Nat \ {0}
  <2>1. Facing(w, x) /\ k = w.sent[x] + 1
    BY <1>2, <1>3 DEF Counted
  <2>2. x \in DOMAIN w.conj /\ w.sent[x] \in Nat
    BY <2>1 DEF Facing, PipesTyped
  <2>3. QED
    BY <2>1, <2>2
<1> HIDE DEF x, k, up
<1>5. /\ v.sent[x] = w.sent[x] + 1
      /\ \A t \in DOMAIN w.conj : /\ t # x => v.sent[t] = w.sent[t]
                                  /\ w.sent[t] \in Nat /\ w.sent[t] <= v.sent[t]
                                  /\ v.sent[t] \in Nat
  BY <1>4 DEF PipesTyped, x, k
<1>6. ASSUME NEW s \in T
      PROVE  \/ s \in S /\ s[1] # x
             \/ s = <<x, k + 1, ps[a].nextRecv>>
  <2>1. CASE \E c \in DOMAIN qs : qs[c].state = "receiving" /\ s = Seat(qs[c])
    <3>1. PICK c \in DOMAIN ps : qs[c].state = "receiving" /\ s = Seat(qs[c])
      BY <1>1, <2>1
    <3>2. CASE c = a
      <4>1. qs[c] = up
        BY <3>2 DEF up
      <4>2. QED
        BY <1>1, <3>1, <4>1 DEF Seat
    <3>3. CASE c # a
      <4>1. qs[c] = ps[c]
        BY <1>1, <3>3
      <4>2. ps[c].end # x
        BY <3>1, <3>3, <4>1 DEF OneSeat, x
      <4>3. s \in S
        BY <3>1, <4>1, SeatsAre
      <4>4. QED
        BY <3>1, <4>1, <4>2, <4>3 DEF Seat
    <3>4. QED
      BY <3>2, <3>3
  <2>2. CASE \E e \in ev : Carrier(e) /\ \E d \in Wire(e) : s = Seat(d)
    <3>1. PICK e \in ev : Carrier(e) /\ \E d \in Wire(e) : s = Seat(d)
      BY <2>2
    <3>2. PICK d \in Wire(e) : s = Seat(d)
      BY <3>1
    <3>3. d.end # x
      BY <3>1 DEF OneSeat, x
    <3>4. s \in S
      BY <3>1, SeatsAre
    <3>5. QED
      BY <3>2, <3>3, <3>4 DEF Seat
  <2>3. \/ \E c \in DOMAIN qs : qs[c].state = "receiving" /\ s = Seat(qs[c])
        \/ \E e \in ev : Carrier(e) /\ \E d \in Wire(e) : s = Seat(d)
    BY SeatsAre
  <2>4. QED
    BY <2>1, <2>2, <2>3
<1>7. Ids(qs, ev) = I
  <2>1. \A c \in DOMAIN ps : qs[c].queue = ps[c].queue
    BY <1>1 DEF up
  <2>2. ASSUME NEW i
        PROVE  i \in Ids(qs, ev) <=> i \in I
    <3>1. (\E c \in DOMAIN qs : \E m \in qs[c].queue : i = Id(m))
            <=> (\E c \in DOMAIN ps : \E m \in ps[c].queue : i = Id(m))
      BY <1>1, <2>1
    <3>2. i \in Ids(qs, ev) <=>
            \/ \E c \in DOMAIN qs : \E m \in qs[c].queue : i = Id(m)
            \/ \E e \in ev : IsMessage(e) /\ i = Id(e.msg)
      BY IdsAre
    <3>3. i \in I <=>
            \/ \E c \in DOMAIN ps : \E m \in ps[c].queue : i = Id(m)
            \/ \E e \in ev : IsMessage(e) /\ i = Id(e.msg)
      BY IdsAre
    <3>4. QED
      BY <3>1, <3>2, <3>3, Zenon
  <2>3. QED
    BY <2>2
<1> HIDE DEF S, T, I, i0, s0
<1>8. \A t : Vacant(S, t) => Vacant(T, t) /\ t # x
  <2>1. ASSUME NEW t, Vacant(S, t)
        PROVE  t # x
    BY <1>3, <2>1 DEF Vacant
  <2>2. ASSUME NEW t, Vacant(S, t), NEW s \in T
        PROVE  s[1] # t
    BY <1>6, <2>1, <2>2 DEF Vacant
  <2>3. QED
    BY <2>1, <2>2 DEF Vacant
<1>9. StaysFacing(w, S, v, T)
  <2>1. ASSUME NEW t, Facing(w, t)
        PROVE  /\ Facing(v, t) /\ v.conj[t] = w.conj[t]
               /\ \A l : Closed(w, S, t, l) => Closed(v, T, t, l)
    <3>1. /\ Facing(v, t) /\ v.conj[t] = w.conj[t] /\ w.conj[t] \in DOMAIN w.conj
      BY <2>1 DEF Facing
    <3>2. ASSUME NEW l, Closed(w, S, t, l)
          PROVE  Closed(v, T, t, l)
      BY <1>5, <1>8, <3>1, <3>2 DEF Closed
    <3>3. QED
      BY <3>1, <3>2
  <2>2. QED
    BY <2>1 DEF StaysFacing
<1>10. Counted(v, I \cup {i0}, T)
  <2>1. /\ \A i \in I : /\ i[1] \in DOMAIN w.conj
                        /\ i[2] \in Int /\ 1 <= i[2] /\ i[2] <= w.sent[i[1]] /\ i[3] = i[2]
        /\ \A s \in S : /\ Facing(w, s[1])
                        /\ s[2] = w.sent[s[1]] + 1
                        /\ s[3] <= w.sent[w.conj[s[1]]] + 1
                        /\ \A i \in I : i[1] = w.conj[s[1]] => i[2] >= s[3]
    BY <1>2 DEF Counted
  <2>2. i0[1] = x /\ i0[2] = k /\ i0[3] = k
    BY DEF i0
  <2>3. ASSUME NEW i \in I \cup {i0}
        PROVE  /\ i[1] \in DOMAIN v.conj
               /\ i[2] \in Int /\ 1 <= i[2] /\ i[2] <= v.sent[i[1]] /\ i[3] = i[2]
    <3>1. CASE i \in I
      BY <1>5, <2>1, <3>1
    <3>2. CASE i = i0
      BY <1>4, <1>5, <2>2, <3>2
    <3>3. QED
      BY <3>1, <3>2
  <2>4. \A t : Facing(w, t) => Facing(v, t) /\ t \in DOMAIN w.conj /\ w.conj[t] \in DOMAIN w.conj
    BY DEF Facing
  <2>5. ASSUME NEW s \in T
        PROVE  /\ Facing(v, s[1])
               /\ s[2] = v.sent[s[1]] + 1
               /\ s[3] \in Int
               /\ s[3] <= v.sent[v.conj[s[1]]] + 1
               /\ \A i \in I \cup {i0} : i[1] = v.conj[s[1]] => i[2] >= s[3]
    <3>1. PICK u \in S : u[1] = s[1] /\ u[3] = s[3]
      BY <1>3, <1>6
    <3>2. s[3] \in Int
      BY <3>1, SeatsTyped DEF S
    <3>3. Facing(v, s[1]) /\ s[2] = v.sent[s[1]] + 1
      <4>1. CASE s \in S /\ s[1] # x
        BY <1>5, <2>1, <2>4, <4>1
      <4>2. CASE s = <<x, k + 1, ps[a].nextRecv>>
        BY <1>4, <1>5, <2>4, <4>2
      <4>3. QED
        BY <1>6, <4>1, <4>2
    <3>4. /\ Facing(w, u[1]) /\ u[3] <= w.sent[w.conj[u[1]]] + 1
          /\ \A i \in I : i[1] = w.conj[u[1]] => i[2] >= u[3]
      BY <2>1
    <3>5. s[3] <= v.sent[v.conj[s[1]]] + 1
      BY <1>5, <2>4, <3>1, <3>2, <3>4
    <3>6. i0[1] = v.conj[s[1]] => i0[2] >= s[3]
      BY <1>4, <2>2, <3>1, <3>2, <3>4
    <3>7. QED
      BY <3>1, <3>2, <3>3, <3>4, <3>5, <3>6
  <2>6. QED
    BY <2>3, <2>5 DEF Counted
<1>11. Right(v, L, last, qs, ev)
  <2>1. ASSUME NEW c \in DOMAIN qs
        PROVE  PortRight(v, T, L, last, c, qs[c])
    <3>1. c \in DOMAIN ps /\ PortRight(v, T, L, last, c, ps[c])
      BY <1>1, <1>2, <1>9, StillRight
    <3>2. CASE c # a
      BY <1>1, <3>1, <3>2
    <3>3. CASE c = a
      <4>1. qs[c] = up
        BY <3>3 DEF up
      <4>2. PortRight(v, T, L, last, a, up)
        BY <1>1, <3>1, <3>3 DEF PortRight, x
      <4>3. QED
        BY <3>3, <4>1, <4>2
    <3>4. QED
      BY <3>2, <3>3
  <2>2. ASSUME NEW e \in ev
        PROVE  EventRight(v, T, L, last, e)
    BY <1>2, <1>9, StillRight
  <2>3. Counted(v, I, T)
    BY <1>10, FewerSeats
  <2>4. QED
    BY <1>7, <2>1, <2>2, <2>3 DEF Right, T
<1>12. QED
  BY <1>4, <1>7, <1>10, <1>11 DEF T, I, i0, x, k

\* Every message that is sent has a number that fits into its header.
NoWrap == \A t \in DOMAIN Sends : Sends[t] \in 0 .. SeqModulus - 1

\* The embedder sends a message, or is refused.
LEMMA SendUserMessageRoutes ==
  ASSUME TypeOK, UniqueInv, RouteInv, NoWrap, NEW a \in held, NEW A \in FiniteSubset(held),
         SendUserMessage(a, A)
  PROVE  RouteInv'
<1> DEFINE r == ports[a]
           x == r.end
           k == r.nextSend
           m == [seq |-> r.nextSend % SeqModulus, num |-> r.nextSend,
                 from |-> r.end,
                 att |-> {LocalPort(b[2], ports[b].end) : b \in A}]
           up == [r EXCEPT !.nextSend = @ + 1]
           down == [up EXCEPT !.nextSend = @ - 1]
           numbered == [Begin EXCEPT !.ports[a].nextSend = @ + 1]
           refused == IF RefusedAtOnce(a, A) THEN Begin
                      ELSE Backpedal(numbered, a)
           sending == PrepareToForwardUserMessage(numbered, a, {m})
           refusing == [refused EXCEPT !.orphans = A \ {a}]
           E == DOMAIN net
           w == Pipes
<1>1. /\ a \in DOMAIN ports /\ A \in FiniteSubset(DOMAIN ports)
      /\ r.state = "receiving" /\ A \subseteq Addr /\ A \subseteq held
      /\ alive' = alive /\ EndsTyped
      /\ x \in DOMAIN Sends /\ k <= Sends[x]
  BY DEF SendUserMessage, MayAttach, Usable, FiniteSubset, TypeOK, RouteInv
<1>2. Begin \in HandlerState /\ Begin.ports = ports
  BY BeginType
<1>3. /\ HandlerSound(Begin, E, held) /\ Begin.out = {} /\ Begin.lastName = lastName
      /\ E \in SUBSET Event /\ ports \in PortMap
  BY <1>2, BeginSound, HandlerParts
<1>4. numbered \in HandlerState /\ DOMAIN numbered.ports = DOMAIN ports
  BY <1>1, <1>2, NumberedType
<1>5. /\ numbered.ports = [ports EXCEPT ![a] = up]
      /\ numbered.out = {} /\ numbered.lastName = lastName
      /\ numbered.ports[a] = up /\ \A c \in DOMAIN ports : c # a => numbered.ports[c] = ports[c]
  BY <1>1, <1>2, <1>3 DEF HandlerState
<1>6. r \in Port /\ r.nextSend \in Int /\ up.state = r.state /\ up.peer = r.peer
  BY <1>1, PortType DEF Port
<1>7. \/ /\ ~Refused(a, A) /\ Commit(sending, net, orphans)
         /\ ends' = [ends EXCEPT ![x].sent = @ + 1]
      \/ Commit(refusing, net, orphans) /\ ends' = ends
  BY DEF SendUserMessage
<1>8. PICK L \in Labels : Right(w, L, lastName, ports, E)
  BY DEF RouteInv
<1>9. /\ PipesTyped(w, lastName) /\ DOMAIN w.conj = DOMAIN ends
      /\ \A t \in DOMAIN ends : w.conj[t] = ends[t].conj /\ w.sent[t] = ends[t].sent
  BY <1>1, PipesAre
<1>10. CASE /\ ~Refused(a, A) /\ Commit(sending, net, orphans)
            /\ ends' = [ends EXCEPT ![x].sent = @ + 1]
  <2> DEFINE v == [conj |-> w.conj, sent |-> [w.sent EXCEPT ![x] = k], whole |-> w.whole]
             I == Ids(ports, E) \cup {<<x, k, k>>}
  <2>1. v.conj = w.conj /\ v.sent = [w.sent EXCEPT ![x] = k] /\ v.whole = w.whole
    OBVIOUS
  <2>2. OneSeat(ports, E)
    BY DEF UniqueInv, Sound
  <2>3. m \in Message /\ {m} \in FiniteSubset(Message)
          /\ Attached({m}) = {b[2] : b \in A}
    BY <1>1, SentMessage
  <2>4. \A p \in Attached({m}) : /\ <<a[1], p>> \in DOMAIN ports
                                 /\ ports[<<a[1], p>>].state = "receiving"
    BY <1>2, <1>10, <2>3 DEF Refused, Unsendable
  <2>5. \A d \in m.att : d.referring = NoAddr
    BY DEF LocalPort
  <2>6. m.from = x /\ m.num = k /\ m.seq = k % SeqModulus
    OBVIOUS
  <2> HIDE DEF v, m, x, k, w, E
  <2>7. /\ Right(v, L, lastName, numbered.ports, E)
        /\ Facing(w, x) /\ k \in Nat \ {0} /\ k = w.sent[x] + 1
        /\ Counted(v, Ids(ports, E) \cup {<<x, k, k>>}, Seats(numbered.ports, E))
        /\ Ids(numbered.ports, E) = Ids(ports, E)
    <3> DEFINE qs == numbered.ports
    <3>1. Numbered(ports, qs, a)
      BY <1>4, <1>5 DEF Numbered
    <3>2. a \in DOMAIN ports /\ ports[a].state = "receiving"
      BY <1>1
    <3>3. v.sent = [w.sent EXCEPT ![ports[a].end] = ports[a].nextSend]
      BY <2>1 DEF x, k
    <3> HIDE DEF qs
    <3>4. LET y == ports[a].end
              j == ports[a].nextSend
          IN  /\ Right(v, L, lastName, qs, E)
              /\ Facing(w, y) /\ j \in Nat \ {0} /\ j = w.sent[y] + 1
              /\ Counted(v, Ids(ports, E) \cup {<<y, j, j>>}, Seats(qs, E))
              /\ Ids(qs, E) = Ids(ports, E)
      <4>1. ports \in PortMap /\ E \in SUBSET Event /\ Right(w, L, lastName, ports, E)
        BY <1>3, <1>8
      <4>2. PipesTyped(w, lastName) /\ v.conj = w.conj /\ v.whole = w.whole
        BY <1>9, <2>1
      <4>3. QED
        BY <2>2, <3>1, <3>2, <3>3, <4>1, <4>2, NumberedRight
    <3>5. QED
      BY <3>4 DEF qs, x, k
  <2>8. k % SeqModulus = k
    <3>1. k \in Nat /\ Sends[x] \in Nat /\ Sends[x] < SeqModulus /\ SeqModulus \in Nat \ {0}
      BY <1>1, <2>7, BoundsAssumption DEF NoWrap
    <3>2. k \in Nat /\ k < SeqModulus
      BY <1>1, <3>1
    <3>3. QED
      BY <3>1, <3>2
  <2>9. Id(m) \in I
    BY <2>6, <2>8 DEF Id
  <2> HIDE DEF I, numbered, up
  <2>10. E \cup numbered.out = E
    BY <1>5
  <2>11. /\ HandlerRight(v, L, numbered, E)
         /\ Ids(numbered.ports, E \cup numbered.out) \subseteq I
         /\ Counted(v, I, Seats(numbered.ports, E \cup numbered.out))
    BY <1>5, <2>7, <2>10 DEF HandlerRight, I
  <2>12. \A p \in Attached({m}) :
           /\ <<a[1], p>> \in DOMAIN numbered.ports
           /\ numbered.ports[<<a[1], p>>].state = "receiving"
    <3>1. ASSUME NEW c \in DOMAIN ports, ports[c].state = "receiving"
          PROVE  c \in DOMAIN numbered.ports /\ numbered.ports[c].state = "receiving"
      BY <1>1, <1>4, <1>5, <1>6, <3>1
    <3>2. QED
      BY <2>4, <3>1
  <2>13. m.from = v.conj[L[numbered.ports[a].peer[2]]]
    <3>1. PortRight(w, Seats(ports, E), L, lastName, a, r)
      BY <1>1, <1>8 DEF Right
    <3>2. L[r.peer[2]] = w.conj[x] /\ w.conj[w.conj[x]] = x
      BY <1>1, <2>7, <3>1 DEF PortRight, Facing, x
    <3>3. numbered.ports[a].peer = r.peer
      BY <1>5, <1>6
    <3>4. QED
      BY <2>1, <2>6, <3>2, <3>3
  <2>14. PICK K \in Labels : HandlerRight(v, K, sending, E)
    <3>1. a \in DOMAIN numbered.ports
      BY <1>1, <1>4
    <3> DEFINE M == {m}
    <3>2. /\ M \in FiniteSubset(Message)
          /\ \A p \in Attached(M) : /\ <<a[1], p>> \in DOMAIN numbered.ports
                                    /\ numbered.ports[<<a[1], p>>].state = "receiving"
          /\ \A y \in M : /\ \A d \in y.att : d.referring = NoAddr
                          /\ y.from = v.conj[L[numbered.ports[a].peer[2]]]
                          /\ Id(y) \in I
          /\ sending = PrepareToForwardUserMessage(numbered, a, M)
      BY <2>3, <2>5, <2>9, <2>12, <2>13
    <3> HIDE DEF M, sending
    <3>3. QED
      BY <1>3, <1>4, <2>11, <3>1, <3>2, PrepareRight
  <2>15. sending.lastName \in Nat /\ lastName <= sending.lastName
    <3>1. sending \in HandlerState
      BY <1>1, <1>4, <2>3, <2>12, PrepareToForwardType
    <3>2. numbered.lastName <= sending.lastName
      BY <1>4, <2>3, PrepareGrows
    <3>3. QED
      BY <1>5, <3>1, <3>2, HandlerParts
  <2> HIDE DEF sending
  <2>16. Right(v, K, lastName', ports', DOMAIN net') /\ lastName' = sending.lastName
    BY <1>10, <2>14, CommitRight DEF E, Commit
  <2>17. /\ DOMAIN ends' = DOMAIN ends
         /\ \A t \in DOMAIN ends : /\ ends'[t] \in [conj: PortName, sent: Nat]
                                   /\ ends'[t].conj = ends[t].conj
                                   /\ ends'[t].sent = IF t = x THEN k ELSE ends[t].sent
    <3>1. x \in DOMAIN ends /\ ends[x].sent + 1 = k
      BY <1>9, <2>7 DEF Facing
    <3>2. \A t \in DOMAIN ends : ends[t] \in [conj: PortName, sent: Nat]
      BY <1>1 DEF EndsTyped
    <3>3. QED
      BY <1>10, <2>7, <3>1, <3>2
  <2>18. EndsTyped'
    <3>1. ASSUME NEW t \in DOMAIN ends
          PROVE  t \in PortName /\ t <= lastName'
      <4>1. t \in PortName /\ t <= lastName
        BY <1>1 DEF EndsTyped
      <4>2. QED
        BY <2>15, <2>16, <4>1 DEF PortName, TypeOK
    <3>2. QED
      BY <2>17, <3>1 DEF EndsTyped
  <2>19. Pipes' = v
    <3> DEFINE f == [t \in DOMAIN ends |-> ends[t].conj]
               g == [t \in DOMAIN ends |-> ends[t].sent]
               F == [t \in DOMAIN ends' |-> ends'[t].conj]
               G == [t \in DOMAIN ends' |-> ends'[t].sent]
    <3>1. Pipes' = [conj |-> F, sent |-> G, whole |-> alive' = Node]
      BY DEF Pipes
    <3>2. w.conj = f /\ w.sent = g /\ w.whole = (alive = Node)
      BY DEF Pipes, w
    <3>3. F = f
      BY <2>17
    <3>4. G = [g EXCEPT ![x] = k]
      BY <2>17
    <3> HIDE DEF f, g, F, G
    <3>5. QED
      BY <1>1, <3>1, <3>2, <3>3, <3>4 DEF v
  <2>20. QED
    BY <2>16, <2>18, <2>19 DEF RouteInv
<1>11. CASE Commit(refusing, net, orphans) /\ ends' = ends
  <2>1. /\ refused.ports = ports /\ refused.out = {} /\ refused.lastName = lastName
        /\ refused \in HandlerState
    <3>1. CASE RefusedAtOnce(a, A)
      BY <1>2, <1>3, <3>1
    <3>2. CASE ~RefusedAtOnce(a, A)
      <4> DEFINE back == Backpedal(numbered, a)
      <4>1. /\ back.ports = [numbered.ports EXCEPT ![a] = down]
            /\ back.out = {} /\ back.lastName = lastName
        BY <1>4, <1>5 DEF Backpedal, HandlerState
      <4>2. down = r
        <5>1. (r.nextSend + 1) - 1 = r.nextSend
          BY <1>6
        <5>2. down = [r EXCEPT !.nextSend = (r.nextSend + 1) - 1]
          BY <1>6 DEF Port
        <5>3. QED
          BY <1>6, <5>1, <5>2 DEF Port
      <4>3. [[ports EXCEPT ![a] = up] EXCEPT ![a] = r] = ports
        BY <1>1, <1>3 DEF PortMap
      <4>4. back \in HandlerState
        BY <1>1, <1>2, <1>4, NumberedType
      <4>5. back.ports = ports
        BY <1>5, <4>1, <4>2, <4>3
      <4>6. refused = back
        BY <3>2
      <4>7. QED
        BY <4>1, <4>4, <4>5, <4>6
    <3>3. QED
      BY <3>1, <3>2
  <2> HIDE DEF refused
  <2>2. /\ refusing.ports = ports /\ refusing.out = {} /\ refusing.lastName = lastName
        /\ refusing \in HandlerState
    BY <1>1, <2>1 DEF HandlerState
  <2> HIDE DEF refusing
  <2>3. HandlerRight(w, L, refusing, E)
    <3>1. E \cup {} = E
      OBVIOUS
    <3>2. QED
      BY <1>8, <2>2, <3>1 DEF HandlerRight
  <2>4. lastName <= refusing.lastName
    BY <2>2 DEF TypeOK
  <2>5. QED
    BY <1>1, <1>11, <2>2, <2>3, <2>4, RouteEnd
<1>12. QED
  BY <1>7, <1>10, <1>11

\* Port a has read message m; of the other ports only what is announced changes.
HasRead(ps, qs, a, m) ==
  /\ DOMAIN qs = DOMAIN ps
  /\ \A b \in DOMAIN ps :
       /\ qs[b].state = ps[b].state /\ qs[b].end = ps[b].end /\ qs[b].peer = ps[b].peer
       /\ qs[b].nextSend = ps[b].nextSend /\ qs[b].lastRecv = ps[b].lastRecv
       /\ qs[b].peerClosed = ps[b].peerClosed /\ qs[b].removeOnLast = ps[b].removeOnLast
       /\ b # a => qs[b].queue = ps[b].queue /\ qs[b].nextRecv = ps[b].nextRecv
  /\ qs[a].queue = ps[a].queue \ {m}
  /\ qs[a].nextRecv = ps[a].nextRecv + 1

\* A message that has been read was the only one with its number, so that all
\* that are left have later ones.
LEMMA ReadRight ==
  ASSUME NEW w, NEW L, NEW last, NEW ps \in PortMap, NEW ev \in SUBSET Event,
         Right(w, L, last, ps, ev), OneCopy(ps, ev), NEW top, PipesTyped(w, top),
         NEW a \in DOMAIN ps, ps[a].state = "receiving",
         NEW m \in ps[a].queue, m.seq = ps[a].nextRecv, NEW qs, HasRead(ps, qs, a, m)
  PROVE  Right(w, L, last, qs, ev)
<1> DEFINE x == ps[a].end
           k == ps[a].nextRecv
           S == Seats(ps, ev)
           T == Seats(qs, ev)
           I == Ids(ps, ev)
           J == Ids(qs, ev)
           s0 == Seat(ps[a])
           s1 == <<x, ps[a].nextSend, k + 1>>
<1>1. /\ \A c \in DOMAIN ps : PortRight(w, S, L, last, c, ps[c])
      /\ \A e \in ev : EventRight(w, S, L, last, e)
      /\ Counted(w, I, S)
  BY DEF Right
<1>2. s0 \in S /\ s0[1] = x /\ s0[2] = ps[a].nextSend /\ s0[3] = k
  <2>1. s0 \in S
    BY SeatsAre
  <2>2. QED
    BY <2>1 DEF Seat
<1>3. k \in Int
  <2>1. ps[a] \in Port
    BY PortMapCharacterised
  <2>2. QED
    BY <2>1 DEF Port
<1>4. Facing(w, x) /\ m.from = w.conj[x]
  BY <1>1 DEF PortRight
<1>5. ASSUME NEW s \in T
      PROVE  s \in S \/ s = s1
  <2>1. CASE \E c \in DOMAIN qs : qs[c].state = "receiving" /\ s = Seat(qs[c])
    <3>1. PICK c \in DOMAIN qs : qs[c].state = "receiving" /\ s = Seat(qs[c])
      BY <2>1
    <3>2. c \in DOMAIN ps /\ ps[c].state = "receiving"
      BY <3>1 DEF HasRead
    <3>3. CASE c = a
      BY <3>1, <3>3 DEF HasRead, Seat
    <3>4. CASE c # a
      <4>1. s = Seat(ps[c])
        BY <3>1, <3>2, <3>4 DEF HasRead, Seat
      <4>2. QED
        BY <3>2, <4>1, SeatsAre
    <3>5. QED
      BY <3>3, <3>4
  <2>2. CASE \E e \in ev : Carrier(e) /\ \E d \in Wire(e) : s = Seat(d)
    BY <2>2, SeatsAre
  <2>3. QED
    BY <2>1, <2>2, SeatsAre
<1>6. ASSUME NEW i \in J
      PROVE  i \in I /\ ~(i[1] = m.from /\ i[2] = m.num)
  <2>1. CASE \E c \in DOMAIN qs : \E y \in qs[c].queue : i = Id(y)
    <3>1. PICK c \in DOMAIN qs : \E y \in qs[c].queue : i = Id(y)
      BY <2>1
    <3>2. PICK y \in qs[c].queue : i = Id(y)
      BY <3>1
    <3>3. c \in DOMAIN ps /\ y \in ps[c].queue /\ (c = a => y # m)
      BY <3>1, <3>2 DEF HasRead
    <3>4. i \in I
      BY <3>2, <3>3, IdsAre
    <3>5. ~Same(y, m)
      BY <3>3 DEF OneCopy
    <3>6. QED
      BY <3>2, <3>4, <3>5 DEF Same, Id
  <2>2. CASE \E e \in ev : IsMessage(e) /\ i = Id(e.msg)
    <3>1. PICK e \in ev : IsMessage(e) /\ i = Id(e.msg)
      BY <2>2
    <3>2. i \in I
      BY <3>1, IdsAre
    <3>3. ~Same(e.msg, m)
      BY <3>1 DEF OneCopy
    <3>4. QED
      BY <3>1, <3>2, <3>3 DEF Same, Id
  <2>3. QED
    BY <2>1, <2>2, IdsAre
<1>7. Id(m) \in I /\ Id(m)[1] = m.from /\ Id(m)[2] = m.num /\ Id(m)[3] = m.seq
  <2>1. Id(m) \in I
    BY IdsAre
  <2>2. QED
    BY <2>1 DEF Id
<1>8. s1[1] = x /\ s1[2] = ps[a].nextSend /\ s1[3] = k + 1
  OBVIOUS
<1>9. m.seq = k
  OBVIOUS
<1>10. ASSUME NEW c \in DOMAIN qs, PortRight(w, T, L, last, c, ps[c])
       PROVE  PortRight(w, T, L, last, c, qs[c])
  <2> DEFINE q == qs[c]
             r == ps[c]
  <2>1. /\ q.state = r.state /\ q.end = r.end /\ q.peer = r.peer
        /\ q.lastRecv = r.lastRecv /\ q.peerClosed = r.peerClosed
        /\ q.removeOnLast = r.removeOnLast /\ q.queue \subseteq r.queue
    BY DEF HasRead
  <2>2. PortRight(w, T, L, last, c, r)
    BY <1>10
  <2> HIDE DEF q, r, T
  <2>3. PortRight(w, T, L, last, c, q)
    BY <2>1, <2>2 DEF PortRight
  <2>4. QED
    BY <2>3 DEF q
<1> HIDE DEF S, T, I, J, s0, s1, x, k
<1>11. \A t : Vacant(S, t) => Vacant(T, t)
  BY <1>2, <1>5, <1>8 DEF Vacant
<1>12. StaysFacing(w, S, w, T)
  <2>1. \A t, l : Closed(w, S, t, l) => Closed(w, T, t, l)
    BY <1>11 DEF Closed
  <2>2. QED
    BY <2>1 DEF StaysFacing
<1>13. Counted(w, J, T)
  <2>1. /\ \A i \in I : /\ i[1] \in DOMAIN w.conj
                        /\ i[2] \in Int /\ 1 <= i[2] /\ i[2] <= w.sent[i[1]] /\ i[3] = i[2]
        /\ \A s \in S : /\ Facing(w, s[1])
                        /\ s[2] = w.sent[s[1]] + 1
                        /\ s[3] <= w.sent[w.conj[s[1]]] + 1
                        /\ \A i \in I : i[1] = w.conj[s[1]] => i[2] >= s[3]
    BY <1>1 DEF Counted
  <2>2. m.num = k /\ k <= w.sent[w.conj[x]] /\ w.sent[w.conj[x]] \in Nat
    <3>1. w.sent[w.conj[x]] \in Nat
      BY <1>4 DEF PipesTyped, Facing
    <3>2. QED
      BY <1>4, <1>7, <1>9, <2>1, <3>1
  <2>3. ASSUME NEW i \in J
        PROVE  /\ i[1] \in DOMAIN w.conj
               /\ i[2] \in Int /\ 1 <= i[2] /\ i[2] <= w.sent[i[1]] /\ i[3] = i[2]
    BY <1>6, <2>1
  <2>4. ASSUME NEW s \in T
        PROVE  /\ Facing(w, s[1])
               /\ s[2] = w.sent[s[1]] + 1
               /\ s[3] <= w.sent[w.conj[s[1]]] + 1
               /\ \A i \in J : i[1] = w.conj[s[1]] => i[2] >= s[3]
    <3>1. CASE s \in S
      BY <1>6, <2>1, <3>1
    <3>2. CASE s = s1
      <4>1. Facing(w, s[1]) /\ s[2] = w.sent[s[1]] + 1 /\ s[3] <= w.sent[w.conj[s[1]]] + 1
        BY <1>2, <1>3, <1>8, <2>1, <2>2, <3>2
      <4>2. ASSUME NEW i \in J, i[1] = w.conj[s[1]]
            PROVE  i[2] >= s[3]
        <5>1. i[2] >= k /\ i[2] # k /\ i[2] \in Int
          BY <1>2, <1>4, <1>6, <1>8, <2>1, <2>2, <3>2, <4>2
        <5>2. QED
          BY <1>3, <1>8, <3>2, <5>1
      <4>3. QED
        BY <4>1, <4>2
    <3>3. QED
      BY <1>5, <3>1, <3>2
  <2>5. QED
    BY <2>3, <2>4 DEF Counted
<1>14. ASSUME NEW c \in DOMAIN qs
       PROVE  PortRight(w, T, L, last, c, qs[c])
  <2>1. c \in DOMAIN ps
    BY DEF HasRead
  <2>2. PortRight(w, T, L, last, c, ps[c])
    BY <1>1, <1>12, <2>1, StillRight
  <2>3. QED
    BY <1>10, <2>2
<1>15. ASSUME NEW e \in ev
       PROVE  EventRight(w, T, L, last, e)
  BY <1>1, <1>12, StillRight
<1>16. QED
  BY <1>13, <1>14, <1>15 DEF Right, T, J

\* The embedder reads.
LEMMA GetMessageRoutes ==
  ASSUME TypeOK, UniqueInv, RouteInv, NEW a \in held, GetMessage(a)
  PROVE  RouteInv'
<1> DEFINE r == ports[a]
           m == CHOOSE x \in r.queue : x.seq = r.nextRecv
           new == {<<a[1], p>> : p \in Attached({m})}
           port == [r EXCEPT !.queue = @ \ {m}, !.nextRecv = @ + 1]
           taken == [ports EXCEPT ![a] = port]
           E == DOMAIN net
<1>1. a \in DOMAIN ports /\ r.state = "receiving"
  BY DEF GetMessage, Usable
<1>2. net' = net /\ lastName' = lastName /\ alive' = alive /\ ends' = ends
  BY DEF GetMessage
<1>3. \/ HasNextMessage(r) /\ ports' = SetSignalable(taken, new)
      \/ ports' = ports
  BY DEF GetMessage
<1>4. EndsTyped' /\ EndsTyped /\ Pipes' = Pipes
  BY <1>2 DEF RouteInv, EndsTyped, Pipes
<1>5. PICK L \in Labels : Right(Pipes, L, lastName, ports, E)
  BY DEF RouteInv
<1>6. CASE ports' = ports
  BY <1>2, <1>4, <1>5, <1>6 DEF RouteInv
<1>7. CASE HasNextMessage(r) /\ ports' = SetSignalable(taken, new)
  <2>1. m \in r.queue /\ m.seq = r.nextRecv
    BY <1>7 DEF HasNextMessage
  <2>2. r \in Port
    BY <1>1, PortType
  <2> HIDE DEF m, new
  <2>3. /\ port.queue = r.queue \ {m} /\ port.nextRecv = r.nextRecv + 1
        /\ port.state = r.state /\ port.end = r.end /\ port.peer = r.peer
        /\ port.nextSend = r.nextSend /\ port.lastRecv = r.lastRecv
        /\ port.peerClosed = r.peerClosed /\ port.removeOnLast = r.removeOnLast
    BY <2>2 DEF Port
  <2>4. port \in Port
    <3>1. r.queue \in FiniteSubset(Message) /\ r.nextRecv + 1 \in Nat \ {0}
      BY <1>1, PortType
    <3>2. r.queue \ {m} \in FiniteSubset(Message)
      BY <3>1, SubsetOfFinite
    <3>3. QED
      BY <2>2, <3>1, <3>2 DEF Port
  <2> HIDE DEF port
  <2>5. DOMAIN ports' = DOMAIN ports
    BY <1>7 DEF SetSignalable
  <2>6. ASSUME NEW b \in DOMAIN ports
        PROVE  LET q == ports'[b]
                   t == IF b = a THEN port ELSE ports[b]
               IN  /\ q.queue = t.queue /\ q.nextRecv = t.nextRecv
                   /\ q.state = t.state /\ q.end = t.end /\ q.peer = t.peer
                   /\ q.nextSend = t.nextSend /\ q.lastRecv = t.lastRecv
                   /\ q.peerClosed = t.peerClosed /\ q.removeOnLast = t.removeOnLast
    <3> DEFINE t == taken[b]
               q == [t EXCEPT !.signalable = TRUE]
    <3>1. ports[b] \in Port
      BY PortType
    <3>2. ports'[b] = t \/ ports'[b] = q
      BY <1>7 DEF SetSignalable
    <3>3. t = IF b = a THEN port ELSE ports[b]
      OBVIOUS
    <3> HIDE DEF t
    <3>4. t \in Port
      BY <2>4, <3>1, <3>3
    <3>5. /\ q.queue = t.queue /\ q.nextRecv = t.nextRecv
          /\ q.state = t.state /\ q.end = t.end /\ q.peer = t.peer
          /\ q.nextSend = t.nextSend /\ q.lastRecv = t.lastRecv
          /\ q.peerClosed = t.peerClosed /\ q.removeOnLast = t.removeOnLast
      BY <3>4 DEF Port
    <3> HIDE DEF q
    <3>6. QED
      BY <3>2, <3>3, <3>5
  <2>7. HasRead(ports, ports', a, m)
    <3> HIDE DEF taken
    <3>1. /\ ports'[a].queue = r.queue \ {m} /\ ports'[a].nextRecv = r.nextRecv + 1
      BY <1>1, <2>3, <2>6
    <3>2. ASSUME NEW b \in DOMAIN ports
          PROVE  LET q == ports'[b]
                     t == ports[b]
                 IN  /\ q.state = t.state /\ q.end = t.end /\ q.peer = t.peer
                     /\ q.nextSend = t.nextSend /\ q.lastRecv = t.lastRecv
                     /\ q.peerClosed = t.peerClosed /\ q.removeOnLast = t.removeOnLast
                     /\ b # a => q.queue = t.queue /\ q.nextRecv = t.nextRecv
      BY <2>3, <2>6
    <3>3. QED
      BY <2>5, <3>1, <3>2 DEF HasRead
  <2>8. OneCopy(ports, E)
    BY DEF UniqueInv, Sound
  <2>9. ports \in PortMap /\ E \in SUBSET Event
    BY StateTypes
  <2>10. PipesTyped(Pipes, lastName)
    BY <1>4, PipesAre
  <2> DEFINE qs == ports'
  <2>11. HasRead(ports, qs, a, m) /\ a \in DOMAIN ports /\ ports[a].state = "receiving"
           /\ m \in ports[a].queue /\ m.seq = ports[a].nextRecv
    BY <1>1, <2>1, <2>7
  <2> HIDE DEF qs, E, r
  <2>12. Right(Pipes, L, lastName, qs, E)
    BY <1>5, <2>8, <2>9, <2>10, <2>11, ReadRight
  <2>13. QED
    BY <1>2, <1>4, <2>12 DEF RouteInv, qs, E
<1>8. QED
  BY <1>3, <1>6, <1>7

\* Two ports are new, p and q, which face each other; everything else stays.
Paired(ps, qs, n, p, q) ==
  /\ DOMAIN qs = DOMAIN ps \cup {<<n, p>>, <<n, q>>}
  /\ \A b \in DOMAIN ps : qs[b] = ps[b]
  /\ qs[<<n, p>>] = NewPort(<<n, q>>, p)
  /\ qs[<<n, q>>] = NewPort(<<n, p>>, q)

\* The pipe between them.
Piped(w, v, p, q) ==
  /\ DOMAIN v.conj = DOMAIN w.conj \cup {p, q} /\ v.whole = w.whole
  /\ \A t \in DOMAIN w.conj : v.conj[t] = w.conj[t] /\ v.sent[t] = w.sent[t]
  /\ v.conj[p] = q /\ v.conj[q] = p /\ v.sent[p] = 0 /\ v.sent[q] = 0

\* A new port a with peer b.
LEMMA NewPortRight ==
  ASSUME NEW v, NEW T, NEW K, NEW top, NEW a, NEW b, a[2] <= top, b[2] <= top,
         Facing(v, a[2]), v.conj[a[2]] = b[2], K[a[2]] = a[2], K[b[2]] = b[2]
  PROVE  /\ PortRight(v, T, K, top, a, NewPort(b, a[2]))
         /\ Seat(NewPort(b, a[2])) = <<a[2], 1, 1>>
         /\ NewPort(b, a[2]).queue = {}
<1> DEFINE r == NewPort(b, a[2])
<1>1. /\ r.state = "receiving" /\ r.peer = b /\ r.end = a[2] /\ r.queue = {}
      /\ r.nextSend = 1 /\ r.nextRecv = 1 /\ r.peerClosed = FALSE /\ r.removeOnLast = FALSE
  BY DEF NewPort, kInitialSequenceNum
<1> HIDE DEF r
<1>2. PortRight(v, T, K, top, a, r)
  BY <1>1 DEF PortRight
<1>3. QED
  BY <1>1, <1>2 DEF Seat, r

\* A new pair.
LEMMA PairedRight ==
  ASSUME NEW w, NEW L \in Labels, NEW last \in Nat, NEW ps \in PortMap,
         NEW ev \in SUBSET Event, Right(w, L, last, ps, ev), PipesTyped(w, last),
         NEW p \in PortName, NEW q \in PortName, p = last + 1, q = last + 2,
         NEW n, NEW qs, Paired(ps, qs, n, p, q), NEW v, Piped(w, v, p, q)
  PROVE  \E K \in Labels : Right(v, K, q, qs, ev)
<1> DEFINE K == [z \in PortName |-> IF z = p THEN p ELSE IF z = q THEN q ELSE L[z]]
           S == Seats(ps, ev)
           T == Seats(qs, ev)
           I == Ids(ps, ev)
           J == Ids(qs, ev)
           a == <<n, p>>
           b == <<n, q>>
<1>1. K \in Labels /\ K[p] = p /\ K[q] = q /\ Widens(L, K, last)
  <2>1. p # q /\ p > last /\ q > last /\ p <= q
    BY DEF PortName
  <2>2. QED
    BY <2>1 DEF Labels, Widens, PortName
<1>2. /\ q \in Nat /\ last <= q /\ p <= q /\ q <= q /\ p # q /\ ~(p <= last) /\ ~(q <= last)
  BY DEF PortName
<1> HIDE DEF K
<1>3. Right(w, K, q, ps, ev)
  BY <1>1, <1>2, RightWidens
<1>4. /\ \A c \in DOMAIN ps : PortRight(w, S, K, q, c, ps[c])
      /\ \A e \in ev : EventRight(w, S, K, q, e)
      /\ Counted(w, I, S)
  BY <1>3 DEF Right
<1>5. \A t \in DOMAIN w.conj : t # p /\ t # q
  BY <1>2 DEF PipesTyped
<1>6. /\ Facing(v, p) /\ v.conj[p] = q /\ Facing(v, q) /\ v.conj[q] = p
      /\ \A t : Facing(w, t) => /\ Facing(v, t) /\ v.conj[t] = w.conj[t] /\ t \in DOMAIN w.conj
                                /\ w.conj[t] \in DOMAIN w.conj
  BY <1>2, <1>5 DEF Facing, Piped
<1>7. /\ PortRight(v, T, K, q, a, NewPort(<<n, q>>, p))
      /\ Seat(NewPort(<<n, q>>, p)) = <<p, 1, 1>> /\ NewPort(<<n, q>>, p).queue = {}
  <2>1. a[2] = p /\ b[2] = q /\ b = <<n, q>>
    OBVIOUS
  <2> HIDE DEF T, a, b
  <2>2. /\ a[2] <= q /\ b[2] <= q /\ Facing(v, a[2]) /\ v.conj[a[2]] = b[2]
        /\ K[a[2]] = a[2] /\ K[b[2]] = b[2]
    BY <1>1, <1>2, <1>6, <2>1
  <2>3. /\ PortRight(v, T, K, q, a, NewPort(b, a[2]))
        /\ Seat(NewPort(b, a[2])) = <<a[2], 1, 1>> /\ NewPort(b, a[2]).queue = {}
    BY <2>2, NewPortRight
  <2>4. QED
    BY <2>1, <2>3
<1>8. /\ PortRight(v, T, K, q, b, NewPort(<<n, p>>, q))
      /\ Seat(NewPort(<<n, p>>, q)) = <<q, 1, 1>> /\ NewPort(<<n, p>>, q).queue = {}
  <2>1. a[2] = p /\ b[2] = q /\ a = <<n, p>>
    OBVIOUS
  <2> HIDE DEF T, a, b
  <2>2. /\ b[2] <= q /\ a[2] <= q /\ Facing(v, b[2]) /\ v.conj[b[2]] = a[2]
        /\ K[b[2]] = b[2] /\ K[a[2]] = a[2]
    BY <1>1, <1>2, <1>6, <2>1
  <2>3. /\ PortRight(v, T, K, q, b, NewPort(a, b[2]))
        /\ Seat(NewPort(a, b[2])) = <<b[2], 1, 1>> /\ NewPort(a, b[2]).queue = {}
    BY <2>2, NewPortRight
  <2>4. QED
    BY <2>1, <2>3
<1>9. /\ DOMAIN qs = DOMAIN ps \cup {a, b}
      /\ \A c \in DOMAIN ps : qs[c] = ps[c]
      /\ qs[a] = NewPort(<<n, q>>, p) /\ qs[b] = NewPort(<<n, p>>, q)
  BY DEF Paired
<1> HIDE DEF a, b
<1>10. ASSUME NEW s \in T
       PROVE  s \in S \/ s = <<p, 1, 1>> \/ s = <<q, 1, 1>>
  <2>1. CASE \E c \in DOMAIN qs : qs[c].state = "receiving" /\ s = Seat(qs[c])
    <3>1. PICK c \in DOMAIN qs : qs[c].state = "receiving" /\ s = Seat(qs[c])
      BY <2>1
    <3>2. CASE c \in DOMAIN ps
      <4>1. qs[c] = ps[c]
        BY <1>9, <3>2
      <4>2. QED
        BY <3>1, <3>2, <4>1, SeatsAre
    <3>3. CASE c = a
      BY <1>7, <1>9, <3>1, <3>3
    <3>4. CASE c = b
      BY <1>8, <1>9, <3>1, <3>4
    <3>5. QED
      BY <1>9, <3>2, <3>3, <3>4
  <2>2. CASE \E e \in ev : Carrier(e) /\ \E d \in Wire(e) : s = Seat(d)
    BY <2>2, SeatsAre
  <2>3. QED
    BY <2>1, <2>2, SeatsAre
<1>11. J \subseteq I
  <2>1. ASSUME NEW i \in J
        PROVE  i \in I
    <3>1. CASE \E c \in DOMAIN qs : \E y \in qs[c].queue : i = Id(y)
      <4>1. PICK c \in DOMAIN qs : \E y \in qs[c].queue : i = Id(y)
        BY <3>1
      <4>2. c \in DOMAIN ps /\ qs[c] = ps[c]
        BY <1>7, <1>8, <1>9, <4>1
      <4>3. QED
        BY <4>1, <4>2, IdsAre
    <3>2. CASE \E e \in ev : IsMessage(e) /\ i = Id(e.msg)
      BY <3>2, IdsAre
    <3>3. QED
      BY <3>1, <3>2, IdsAre
  <2>2. QED
    BY <2>1
<1> HIDE DEF S, T, I, J
<1>12. StaysFacing(w, S, v, T)
  <2>1. ASSUME NEW t \in DOMAIN w.conj, Vacant(S, t)
        PROVE  Vacant(T, t)
    <3>1. ASSUME NEW s \in T
          PROVE  s[1] # t
      <4>1. CASE s \in S
        BY <2>1, <4>1 DEF Vacant
      <4>2. CASE s = <<p, 1, 1>> \/ s = <<q, 1, 1>>
        BY <1>5, <4>2
      <4>3. QED
        BY <1>10, <4>1, <4>2
    <3>2. QED
      BY <3>1 DEF Vacant
  <2>2. ASSUME NEW t, Facing(w, t), NEW l, Closed(w, S, t, l)
        PROVE  Closed(v, T, t, l)
    BY <1>6, <2>1, <2>2 DEF Closed, Piped
  <2>3. v.whole = w.whole
    BY DEF Piped
  <2>4. QED
    BY <1>6, <2>2, <2>3 DEF StaysFacing
<1>13. Counted(v, J, T)
  <2>1. /\ \A i \in I : /\ i[1] \in DOMAIN w.conj
                        /\ i[2] \in Int /\ 1 <= i[2] /\ i[2] <= w.sent[i[1]] /\ i[3] = i[2]
        /\ \A s \in S : /\ Facing(w, s[1])
                        /\ s[2] = w.sent[s[1]] + 1
                        /\ s[3] <= w.sent[w.conj[s[1]]] + 1
                        /\ \A i \in I : i[1] = w.conj[s[1]] => i[2] >= s[3]
    BY <1>4 DEF Counted
  <2>2. \A t \in DOMAIN w.conj : t \in DOMAIN v.conj /\ v.sent[t] = w.sent[t]
    BY DEF Piped
  <2>3. ASSUME NEW i \in J
        PROVE  /\ i[1] \in DOMAIN v.conj
               /\ i[2] \in Int /\ 1 <= i[2] /\ i[2] <= v.sent[i[1]] /\ i[3] = i[2]
    BY <1>11, <2>1, <2>2
  <2>4. v.sent[p] = 0 /\ v.sent[q] = 0
    BY DEF Piped
  <2>5. ASSUME NEW s \in T
        PROVE  /\ Facing(v, s[1])
               /\ s[2] = v.sent[s[1]] + 1
               /\ s[3] <= v.sent[v.conj[s[1]]] + 1
               /\ \A i \in J : i[1] = v.conj[s[1]] => i[2] >= s[3]
    <3>1. CASE s \in S
      BY <1>6, <1>11, <2>1, <2>2, <3>1
    <3>2. CASE s = <<p, 1, 1>>
      <4>1. s[1] = p /\ s[2] = 1 /\ s[3] = 1 /\ v.conj[s[1]] = q
        BY <1>6, <3>2
      <4>2. \A i \in J : i[1] # q
        BY <1>5, <1>11, <2>1
      <4>3. QED
        BY <1>6, <2>4, <4>1, <4>2
    <3>3. CASE s = <<q, 1, 1>>
      <4>1. s[1] = q /\ s[2] = 1 /\ s[3] = 1 /\ v.conj[s[1]] = p
        BY <1>6, <3>3
      <4>2. \A i \in J : i[1] # p
        BY <1>5, <1>11, <2>1
      <4>3. QED
        BY <1>6, <2>4, <4>1, <4>2
    <3>4. QED
      BY <1>10, <3>1, <3>2, <3>3
  <2>6. QED
    BY <2>3, <2>5 DEF Counted
<1>14. ASSUME NEW c \in DOMAIN qs
       PROVE  PortRight(v, T, K, q, c, qs[c])
  <2>1. CASE c \in DOMAIN ps
    <3>1. PortRight(v, T, K, q, c, ps[c])
      BY <1>4, <1>12, <2>1, StillRight
    <3>2. QED
      BY <1>9, <2>1, <3>1
  <2>2. CASE c = a
    BY <1>7, <1>9, <2>2
  <2>3. CASE c = b
    BY <1>8, <1>9, <2>3
  <2>4. QED
    BY <1>9, <2>1, <2>2, <2>3
<1>15. ASSUME NEW e \in ev
       PROVE  EventRight(v, T, K, q, e)
  <2>1. v.whole => w.whole
    BY DEF Piped
  <2>2. QED
    BY <1>4, <1>12, <2>1, StillRight
<1>16. Right(v, K, q, qs, ev)
  BY <1>13, <1>14, <1>15 DEF Right, T, J
<1>17. QED
  BY <1>1, <1>16

\* CreatePortPair.
LEMMA CreatePortPairRoutes ==
  ASSUME TypeOK, UniqueInv, RouteInv, NEW n \in Node, CreatePortPair(n)
  PROVE  RouteInv'
<1> DEFINE p == lastName + 1
           q == lastName + 2
           Other(x) == IF x = p THEN q ELSE p
           new == {<<n, p>>, <<n, q>>}
           f == [b \in new |-> NewPort(<<n, Other(b[2])>>, b[2])]
           g == [x \in {p, q} |-> [conj |-> Other(x), sent |-> 0]]
           w == Pipes
           E == DOMAIN net
<1>1. p \in PortName /\ q \in PortName /\ q \in Nat /\ lastName \in Nat /\ p # q
  BY DEF TypeOK, PortName
<1>2. /\ ports' = Extend(ports, f) /\ ends' = Extend(ends, g)
      /\ net' = net /\ lastName' = q /\ alive' = alive
  BY DEF CreatePortPair
<1>3. PICK L \in Labels : Right(w, L, lastName, ports, E)
  BY DEF RouteInv
<1>4. /\ PipesTyped(w, lastName) /\ DOMAIN w.conj = DOMAIN ends
      /\ \A t \in DOMAIN ends : w.conj[t] = ends[t].conj /\ w.sent[t] = ends[t].sent
      /\ w.whole = (alive = Node)
  BY PipesAre DEF RouteInv
<1>5. \A t \in DOMAIN ends : /\ t \in PortName /\ t <= lastName /\ t # p /\ t # q
                             /\ ends[t] \in [conj: PortName, sent: Nat]
  BY <1>1 DEF RouteInv, EndsTyped, PortName
<1>6. ports \in PortMap /\ E \in SUBSET Event
  BY StateTypes
<1>7. \A b \in DOMAIN ports : b # <<n, p>> /\ b # <<n, q>>
  <2>1. ASSUME NEW b \in DOMAIN ports
        PROVE  b[2] <= lastName
    BY <1>3 DEF Right, PortRight
  <2>2. ~(p <= lastName) /\ ~(q <= lastName)
    BY <1>1
  <2>3. QED
    BY <2>1, <2>2
<1>8. Paired(ports, ports', n, p, q)
  <2>1. /\ DOMAIN f = new /\ f[<<n, p>>] = NewPort(<<n, q>>, p)
        /\ f[<<n, q>>] = NewPort(<<n, p>>, q)
    BY <1>1
  <2> HIDE DEF f, p, q
  <2>2. QED
    BY <1>2, <1>7, <2>1 DEF Paired, Extend
<1>9. /\ DOMAIN ends' = DOMAIN ends \cup {p, q}
      /\ \A t \in DOMAIN ends : ends'[t] = ends[t]
      /\ ends'[p] = [conj |-> q, sent |-> 0] /\ ends'[q] = [conj |-> p, sent |-> 0]
  <2>1. /\ DOMAIN g = {p, q} /\ g[p] = [conj |-> q, sent |-> 0]
        /\ g[q] = [conj |-> p, sent |-> 0]
    BY <1>1
  <2> HIDE DEF g, p, q
  <2>2. QED
    BY <1>2, <1>5, <2>1 DEF Extend
<1> HIDE DEF f, g
<1>10. EndsTyped'
  <2> DEFINE D == DOMAIN ends'
  <2>1. ASSUME NEW t \in D
        PROVE  t \in PortName /\ ends'[t] \in [conj: PortName, sent: Nat] /\ t <= q
    <3>1. CASE t \in DOMAIN ends
      BY <1>1, <1>5, <1>9, <3>1 DEF PortName
    <3>2. CASE t = p
      BY <1>1, <1>9, <3>2
    <3>3. CASE t = q
      BY <1>1, <1>9, <3>3
    <3>4. QED
      BY <1>9, <3>1, <3>2, <3>3
  <2>2. QED
    BY <1>2, <2>1 DEF EndsTyped
<1> DEFINE v == Pipes'
<1>11. /\ DOMAIN v.conj = DOMAIN ends' /\ v.whole = (alive' = Node)
       /\ \A t \in DOMAIN ends' : v.conj[t] = ends'[t].conj /\ v.sent[t] = ends'[t].sent
  BY DEF Pipes
<1> HIDE DEF v, w
<1>12. Piped(w, v, p, q)
  <2>1. DOMAIN v.conj = DOMAIN w.conj \cup {p, q} /\ v.whole = w.whole
    BY <1>2, <1>4, <1>9, <1>11
  <2>2. ASSUME NEW t \in DOMAIN w.conj
        PROVE  v.conj[t] = w.conj[t] /\ v.sent[t] = w.sent[t]
    BY <1>4, <1>9, <1>11
  <2>3. v.conj[p] = q /\ v.conj[q] = p /\ v.sent[p] = 0 /\ v.sent[q] = 0
    BY <1>9, <1>11
  <2>4. QED
    BY <2>1, <2>2, <2>3 DEF Piped
<1> DEFINE qs == ports'
<1>13. p = lastName + 1 /\ q = lastName + 2 /\ Paired(ports, qs, n, p, q)
  BY <1>8
<1> HIDE DEF p, q, E, qs
<1>14. \E K \in Labels : Right(v, K, q, qs, E)
  <2>1. PipesTyped(w, lastName)
    BY <1>4
  <2>2. QED
    BY <1>1, <1>3, <1>6, <1>12, <1>13, <2>1, PairedRight
<1>15. QED
  BY <1>2, <1>10, <1>14 DEF RouteInv, v, qs, E

\* A process dies: what it had is gone, and closures need no longer be exact.
LEMMA CrashRoutes ==
  ASSUME TypeOK, UniqueInv, RouteInv, NEW m \in Node, Crash(m)
  PROVE  RouteInv'
<1> DEFINE F == {x \in BagToSet(net) : x.to[1] # m}
           E == DOMAIN net
           w == Pipes
           v == Pipes'
           qs == ports'
           S == Seats(ports, E)
           T == Seats(qs, F)
           I == Ids(ports, E)
           J == Ids(qs, F)
<1>1. /\ ports' = [a \in DOMAIN ports \ On(m, DOMAIN ports) |-> ports[a]]
      /\ net' = [e \in F |-> net[e]] /\ lastName' = lastName /\ ends' = ends
      /\ alive' = alive \ {m}
  BY DEF Crash
<1>2. /\ DOMAIN qs \subseteq DOMAIN ports /\ \A a \in DOMAIN qs : qs[a] = ports[a]
      /\ F \subseteq E /\ DOMAIN net' = F
  BY <1>1 DEF BagToSet
<1>3. PICK L \in Labels : Right(w, L, lastName, ports, E)
  BY DEF RouteInv
<1>4. /\ \A c \in DOMAIN ports : PortRight(w, S, L, lastName, c, ports[c])
      /\ \A e \in E : EventRight(w, S, L, lastName, e)
      /\ Counted(w, I, S)
  BY <1>3 DEF Right
<1>5. v.conj = w.conj /\ v.sent = w.sent /\ ~v.whole
  <2>1. alive' # Node
    BY <1>1
  <2>2. QED
    BY <1>1, <2>1 DEF Pipes
<1> HIDE DEF F, E, v, w, qs
<1>6. T \subseteq S
  <2>1. \A s : s \in T => s \in S
    BY <1>2, SeatsAre
  <2>2. QED
    BY <2>1
<1>7. J \subseteq I
  <2>1. \A i : i \in J => i \in I
    BY <1>2, IdsAre
  <2>2. QED
    BY <2>1
<1> HIDE DEF S, T, I, J
<1>8. \A t : Facing(w, t) <=> Facing(v, t)
  BY <1>5 DEF Facing
<1>9. StaysFacing(w, S, v, T)
  BY <1>5, <1>8 DEF StaysFacing
<1>10. Counted(v, J, T)
  <2>1. Counted(w, J, T)
    BY <1>4, <1>6, <1>7, FewerSeats
  <2>2. QED
    BY <1>5, <1>8, <2>1 DEF Counted
<1>11. ASSUME NEW a \in DOMAIN qs
       PROVE  PortRight(v, T, L, lastName, a, qs[a])
  <2>1. PortRight(v, T, L, lastName, a, ports[a])
    BY <1>2, <1>4, <1>9, StillRight
  <2>2. QED
    BY <1>2, <2>1
<1>12. ASSUME NEW e \in F
       PROVE  EventRight(v, T, L, lastName, e)
  BY <1>2, <1>4, <1>5, <1>9, StillRight
<1>13. Right(v, L, lastName, qs, F)
  BY <1>10, <1>11, <1>12 DEF Right, T, J
<1>14. EndsTyped'
  BY <1>1 DEF RouteInv, EndsTyped
<1>15. QED
  BY <1>1, <1>2, <1>13, <1>14 DEF RouteInv, v, qs

\* The death is noticed.
LEMMA LostConnectionRoutes ==
  ASSUME TypeOK, UniqueInv, RouteInv, NEW n \in Node, NEW m \in Node,
         LostConnectionToNode(n, m)
  PROVE  RouteInv'
<1> DEFINE S == {b \in On(n, DOMAIN ports) : ports[b].peer[1] = m}
           keep == {e \in BagToSet(net) : ~(e.src = m /\ e.to[1] = n)}
           pending == [e \in keep |-> net[e]]
           dropped == Dropped(n, m)
           st == DestroyAllPortsWithPeer(dropped, n, S)
<1>1. /\ Commit(st, pending, orphans) /\ alive' = alive /\ ends' = ends /\ m \notin alive
      /\ EndsTyped
  BY DEF LostConnectionToNode, RouteInv
<1>2. DOMAIN pending \subseteq DOMAIN net
  BY DEF BagToSet
<1>3. /\ dropped \in HandlerState /\ dropped.ports = Begin.ports
      /\ dropped.out = Begin.out /\ dropped.lastName = Begin.lastName
  BY DroppedType
<1> HIDE DEF S, pending, dropped
<1>4. /\ Begin \in HandlerState /\ st \in HandlerState
      /\ st.lastName = dropped.lastName /\ Begin.lastName = lastName
  BY <1>3, BeginType, DestroyType, CalmDestroy DEF Calm, Begin
<1>5. PICK L \in Labels : Right(Pipes, L, lastName, ports, DOMAIN net)
  BY DEF RouteInv
<1>6. HandlerRight(Pipes, L, Begin, DOMAIN pending)
  BY <1>2, <1>5, BeginRight
<1>7. ~Pipes.whole
  <2>1. alive # Node
    BY <1>1
  <2>2. QED
    BY <1>1, <2>1, PipesAre
<1>8. HandlerRight(Pipes, L, dropped, DOMAIN pending)
  BY <1>3, <1>6 DEF HandlerRight
<1>9. HandlerRight(Pipes, L, st, DOMAIN pending)
  BY <1>3, <1>7, <1>8, DestroyRight
<1> HIDE DEF st
<1>10. lastName <= st.lastName
  BY <1>3, <1>4 DEF TypeOK
<1>11. QED
  BY <1>1, <1>4, <1>9, <1>10, RouteEnd

-----------------------------------------------------------------------------
(***************************************************************************)
(* The invariant, and what it is for.                                      *)
(***************************************************************************)
\* The port that a port of a topology starts with as its peer.
InitialPeer(pipes, a) == CHOOSE b \in PortsOf(pipes) : \/ <<a, b>> \in pipes
                                                       \/ <<b, a>> \in pipes

\* The two ports of a pipe have each other as peers.
LEMMA InitialPairs ==
  ASSUME NEW pipes \in Topologies, NEW a \in PortsOf(pipes)
  PROVE  LET Peer(c) == InitialPeer(pipes, c)
         IN  Peer(a) \in PortsOf(pipes) /\ Peer(a) # a /\ Peer(Peer(a)) = a
<1> DEFINE P == PortsOf(pipes)
           Peer(c) == InitialPeer(pipes, c)
<1>1. /\ \A pq \in pipes : pq = <<pq[1], pq[2]>> /\ pq[1] \in P /\ pq[2] \in P
      /\ \A c \in P : \E pq \in pipes : c = pq[1] \/ c = pq[2]
  <2>1. \A pq \in pipes : pq = <<pq[1], pq[2]>>
    BY PipesAssumption
  <2>2. QED
    BY <2>1 DEF PortsOf
<1>2. \A pq, rs \in pipes :
        pq[1] = rs[1] \/ pq[1] = rs[2] \/ pq[2] = rs[1] \/ pq[2] = rs[2] => pq = rs
  <2>1. ASSUME NEW pq \in pipes, NEW rs \in pipes,
               pq[1] = rs[1] \/ pq[1] = rs[2] \/ pq[2] = rs[1] \/ pq[2] = rs[2]
        PROVE  pq = rs
    <3>1. {pq[1], pq[2]} \cap {rs[1], rs[2]} # {}
      BY <2>1
    <3>2. QED
      BY <3>1, PipesAssumption
  <2>2. QED
    BY <2>1
<1>3. \A pq \in pipes : pq[1] # pq[2]
  BY PipesAssumption
<1> HIDE DEF P
<1>4. ASSUME NEW c \in P
      PROVE  /\ Peer(c) \in P /\ Peer(c) # c
             /\ <<c, Peer(c)>> \in pipes \/ <<Peer(c), c>> \in pipes
  <2>1. \E b \in P : <<c, b>> \in pipes \/ <<b, c>> \in pipes
    BY <1>1
  <2>2. Peer(c) \in P /\ (<<c, Peer(c)>> \in pipes \/ <<Peer(c), c>> \in pipes)
    BY <2>1 DEF InitialPeer, P
  <2> DEFINE d == Peer(c)
  <2> HIDE DEF d
  <2>3. d # c
    <3>1. <<c, d>> \in pipes \/ <<d, c>> \in pipes
      BY <2>2 DEF d
    <3>2. QED
      BY <1>3, <3>1
  <2>4. QED
    BY <2>2, <2>3 DEF d
<1> HIDE DEF Peer
<1> DEFINE b == Peer(a)
           c == Peer(b)
<1>5. a \in P
  BY DEF P
<1>6. b \in P /\ b # a /\ (<<a, b>> \in pipes \/ <<b, a>> \in pipes)
  BY <1>4, <1>5
<1>7. c \in P /\ c # b /\ (<<b, c>> \in pipes \/ <<c, b>> \in pipes)
  BY <1>4, <1>6
<1> HIDE DEF b, c
<1>8. c = a
  <2> DEFINE pq == IF <<a, b>> \in pipes THEN <<a, b>> ELSE <<b, a>>
             rs == IF <<b, c>> \in pipes THEN <<b, c>> ELSE <<c, b>>
  <2>1. pq \in pipes /\ pq \in {<<a, b>>, <<b, a>>}
    BY <1>6
  <2>2. rs \in pipes /\ rs \in {<<b, c>>, <<c, b>>}
    BY <1>7
  <2> HIDE DEF pq, rs
  <2>3. pq = rs
    BY <1>2, <2>1, <2>2
  <2>4. QED
    BY <1>6, <1>7, <2>1, <2>2, <2>3
<1>9. QED
  BY <1>6, <1>8 DEF P, Peer, b, c

\* At the start every name is its own label.
LEMMA InitRoutes == Init => RouteInv
<1> SUFFICES ASSUME NEW pipes \in Topologies, InitWith(pipes)
             PROVE  RouteInv
  BY DEF Init
<1> DEFINE P == PortsOf(pipes)
           Peer(a) == InitialPeer(pipes, a)
           At(t) == CHOOSE a \in P : a[2] = t
           D == EndsOf(pipes)
           L == [p \in PortName |-> p]
           w == Pipes
<1>1. /\ ports = [a \in P |-> NewPort(Peer(a), a[2])]
      /\ ends = [t \in D |-> [conj |-> Peer(At(t))[2], sent |-> 0]]
      /\ net = EmptyBag /\ alive = Node
  BY DEF InitWith, InitialPeer
<1>2. ASSUME NEW a \in P
      PROVE  /\ a[2] \in PortName /\ a[2] <= lastName /\ a[2] \in D
             /\ Peer(a) \in P /\ Peer(a) # a /\ Peer(Peer(a)) = a
  <2>1. a \in Addr
    BY InitialPeers
  <2>2. IsLastName(pipes, lastName)
    BY PipesAssumption DEF InitWith
  <2>3. a[2] \in D
    BY DEF EndsOf
  <2>4. Peer(a) \in P /\ Peer(a) # a /\ Peer(Peer(a)) = a
    BY InitialPairs
  <2> HIDE DEF P, Peer
  <2>5. QED
    BY <2>1, <2>2, <2>3, <2>4, AddrParts DEF IsLastName
<1>3. \A a, b \in P : a[2] = b[2] => a = b
  BY PipesAssumption
<1>4. \A t \in D : \E a \in P : t = a[2]
  BY DEF EndsOf
<1>5. \A a \in P : At(a[2]) = a
  BY <1>3
<1> HIDE DEF P, Peer, At, D
<1>6. /\ DOMAIN ends = D
      /\ \A a \in P : ends[a[2]] = [conj |-> Peer(a)[2], sent |-> 0]
  BY <1>1, <1>2, <1>5
<1>7. EndsTyped
  <2>1. ASSUME NEW t \in D
        PROVE  t \in PortName /\ t <= lastName /\ ends[t] \in [conj: PortName, sent: Nat]
    <3>1. PICK a \in P : t = a[2]
      BY <1>4
    <3>2. Peer(a)[2] \in PortName
      BY <1>2
    <3>3. ends[t] = [conj |-> Peer(a)[2], sent |-> 0]
      BY <1>6, <3>1
    <3>4. ends[t] \in [conj: PortName, sent: Nat]
      BY <3>2, <3>3
    <3>5. QED
      BY <1>2, <3>1, <3>4
  <2>2. QED
    BY <1>6, <2>1 DEF EndsTyped
<1>8. /\ DOMAIN w.conj = D
      /\ \A t \in D : w.conj[t] = ends[t].conj /\ w.sent[t] = ends[t].sent
  BY <1>6, <1>7, PipesAre
<1> HIDE DEF w
<1>9. ASSUME NEW a \in P
      PROVE  w.conj[a[2]] = Peer(a)[2] /\ w.sent[a[2]] = 0
  <2> DEFINE c == Peer(a)[2]
  <2> HIDE DEF c
  <2>1. a[2] \in D /\ ends[a[2]] = [conj |-> c, sent |-> 0]
    BY <1>2, <1>6 DEF c
  <2>2. w.conj[a[2]] = c /\ w.sent[a[2]] = 0
    BY <1>8, <2>1
  <2>3. QED
    BY <2>2 DEF c
<1>10. ASSUME NEW a \in P
       PROVE  Facing(w, a[2]) /\ Peer(a)[2] \in PortName /\ Peer(a)[2] <= lastName
  <2> DEFINE b == Peer(a)
  <2>1. b \in P /\ b # a /\ Peer(b) = a
    BY <1>2
  <2> HIDE DEF b
  <2>2. /\ w.conj[a[2]] = b[2] /\ w.conj[b[2]] = a[2] /\ a[2] # b[2]
        /\ a[2] \in D /\ b[2] \in D /\ b[2] \in PortName /\ b[2] <= lastName
    BY <1>2, <1>3, <1>9, <2>1 DEF b
  <2>3. QED
    BY <1>8, <2>2 DEF Facing, b
<1>11. L \in Labels /\ \A p \in PortName : L[p] = p
  BY DEF Labels
<1> HIDE DEF L
<1> DEFINE none == {}
           T == Seats(ports, none)
           I == Ids(ports, none)
<1>12. ASSUME NEW a \in P
       PROVE  /\ PortRight(w, T, L, lastName, a, NewPort(Peer(a), a[2]))
              /\ Seat(NewPort(Peer(a), a[2])) = <<a[2], 1, 1>>
              /\ NewPort(Peer(a), a[2]).queue = {}
  <2> DEFINE b == Peer(a)
  <2>1. /\ a[2] <= lastName /\ b[2] <= lastName /\ Facing(w, a[2]) /\ w.conj[a[2]] = b[2]
        /\ L[a[2]] = a[2] /\ L[b[2]] = b[2]
    BY <1>2, <1>9, <1>10, <1>11
  <2> HIDE DEF b, T
  <2>2. /\ PortRight(w, T, L, lastName, a, NewPort(b, a[2]))
        /\ Seat(NewPort(b, a[2])) = <<a[2], 1, 1>> /\ NewPort(b, a[2]).queue = {}
    BY <2>1, NewPortRight
  <2>3. QED
    BY <2>2 DEF b
<1>13. DOMAIN ports = P /\ \A a \in P : ports[a] = NewPort(Peer(a), a[2])
  BY <1>1
<1>14. ASSUME NEW s \in T
       PROVE  \E a \in P : s = <<a[2], 1, 1>>
  BY <1>12, <1>13, SeatsAre
<1>15. \A i : i \notin I
  BY <1>12, <1>13, IdsAre
<1> HIDE DEF T, I
<1>16. Counted(w, I, T)
  <2>1. ASSUME NEW s \in T
        PROVE  /\ Facing(w, s[1]) /\ s[2] = w.sent[s[1]] + 1
               /\ s[3] <= w.sent[w.conj[s[1]]] + 1
    <3>1. PICK a \in P : s = <<a[2], 1, 1>>
      BY <1>14
    <3>2. s[1] = a[2] /\ s[2] = 1 /\ s[3] = 1
      BY <3>1
    <3>3. w.sent[a[2]] = 0 /\ w.sent[w.conj[a[2]]] = 0
      BY <1>2, <1>9
    <3>4. QED
      BY <1>10, <3>2, <3>3
  <2>2. QED
    BY <1>15, <2>1 DEF Counted
<1>17. DOMAIN net = none
  BY <1>1 DEF EmptyBag, SetToBag
<1>18. Right(w, L, lastName, ports, none)
  <2>1. \A a \in DOMAIN ports : PortRight(w, T, L, lastName, a, ports[a])
    BY <1>12, <1>13
  <2>2. QED
    BY <1>16, <2>1 DEF Right, T, I
<1>19. QED
  BY <1>7, <1>11, <1>17, <1>18 DEF RouteInv, w

\* Every step preserves the invariant.
LEMMA NextRoutes ==
  NoWrap /\ TypeOK /\ UniqueInv /\ RouteInv /\ [~FuseGivesUp]_vars /\ [Next]_vars => RouteInv'
<1> SUFFICES ASSUME TypeOK, UniqueInv, RouteInv, [~FuseGivesUp]_vars, NoWrap, [Next]_vars
             PROVE  RouteInv'
  OBVIOUS
<1>1. CASE Embedder /\ ~FuseGivesUp
  <2>1. ASSUME NEW n \in Node, CreatePortPair(n)
        PROVE  RouteInv'
    BY <2>1, CreatePortPairRoutes
  <2>2. ASSUME NEW a \in held, GetMessage(a)
        PROVE  RouteInv'
    BY <2>2, GetMessageRoutes
  <2>3. ASSUME NEW a \in held,
               NEW A \in FiniteSubset({b \in held : b[1] = a[1]}),
               SendUserMessage(a, A)
        PROVE  RouteInv'
    <3>1. A \in FiniteSubset(held)
      BY DEF FiniteSubset
    <3>2. QED
      BY <2>3, <3>1, SendUserMessageRoutes
  <2>4. ASSUME NEW a \in held, NEW b \in held, MergeLocalPorts(a, b)
        PROVE  RouteInv'
    BY <1>1, <2>4, MergeLocalPortsRoutes
  <2>5. ASSUME NEW a \in DOMAIN ports, ClosePort(a)
        PROVE  RouteInv'
    BY <2>5, ClosingRoutes
  <2>6. ASSUME NEW a \in DOMAIN ports, NEW b \in InitialPorts, MergePorts(a, b)
        PROVE  RouteInv'
    <3>1. PICK pipes \in Topologies : b \in PortsOf(pipes)
      BY DEF InitialPorts
    <3>2. b \in Addr
      BY <3>1, InitialPeers
    <3>3. QED
      BY <2>6, <3>2, MergePortsRoutes
  <2>7. QED
    BY <1>1, <2>1, <2>2, <2>3, <2>4, <2>5, <2>6 DEF Embedder
<1>2. CASE Internal /\ ~FuseGivesUp
  <2>1. ASSUME NEW e \in BagToSet(net), AcceptEvent(e)
        PROVE  RouteInv'
    <3>1. CASE OnUserMessage(e)
      BY <3>1, OnUserMessageRoutes
    <3>2. CASE OnPortAccepted(e)
      BY <3>2, OnPortAcceptedRoutes
    <3>3. CASE OnObserveProxy(e) \/ OnObserveProxyAck(e) \/ OnObserveClosure(e) \/ OnProxyDied(e)
      BY <3>3, CalmHandlersRoutes
    <3>4. CASE OnMergePort(e)
      BY <1>2, <3>4, OnMergePortRoutes
    <3>5. QED
      BY <2>1, <3>1, <3>2, <3>3, <3>4 DEF AcceptEvent
  <2>2. ASSUME NEW a \in orphans, CloseOrphan(a)
        PROVE  RouteInv'
    BY <2>2, ClosingRoutes
  <2>3. QED
    BY <1>2, <2>1, <2>2 DEF Internal
<1>3. CASE Failure
  BY <1>3, CrashRoutes, LostConnectionRoutes DEF Failure
<1>4. CASE UNCHANGED vars
  <2>1. /\ ports' = ports /\ net' = net /\ lastName' = lastName /\ alive' = alive
        /\ ends' = ends
    BY <1>4 DEF vars
  <2>2. EndsTyped' /\ Pipes' = Pipes
    BY <2>1 DEF RouteInv, EndsTyped, Pipes
  <2>3. QED
    BY <2>1, <2>2 DEF RouteInv
<1>5. QED
  BY <1>1, <1>2, <1>3, <1>4 DEF Next

\* While no fuse gives up half-way, every port, message and event is on the
\* route of the end it is for.
THEOREM Routes ==
  NoWrap /\ Spec /\ [][~FuseGivesUp]_vars => [](TypeOK /\ UniqueInv /\ RouteInv)
<1> SUFFICES ASSUME NoWrap
             PROVE  Spec /\ [][~FuseGivesUp]_vars => [](TypeOK /\ UniqueInv /\ RouteInv)
  OBVIOUS
<1>1. Spec => [](TypeOK /\ UniqueInv)
  BY Uniqueness
<1>2. Init => RouteInv
  BY InitRoutes
<1>3. TypeOK /\ UniqueInv /\ RouteInv /\ [~FuseGivesUp]_vars /\ [Next]_vars => RouteInv'
  BY NextRoutes
<1>4. QED
  BY <1>1, <1>2, <1>3, PTL DEF Spec

-----------------------------------------------------------------------------
(***************************************************************************)
(* What a route brings to its end.                                         *)
(***************************************************************************)
\* The seats of an end are known, and so is each message.
LEMMA SeatsKnown ==
  ASSUME NEW e, NEW k \in NextRecvOf(e)
  PROVE  \E s \in Seats(ports, DOMAIN net) : s[1] = e /\ s[3] = k
<1>1. CASE k \in {ports[a].nextRecv : a \in PortSeats(e)}
  <2>1. PICK a \in PortSeats(e) : k = ports[a].nextRecv
    BY <1>1
  <2>2. a \in DOMAIN ports /\ ports[a].state = "receiving" /\ ports[a].end = e
    BY <2>1 DEF PortSeats
  <2>3. Seat(ports[a]) \in Seats(ports, DOMAIN net)
    BY <2>2, SeatsAre
  <2>4. Seat(ports[a])[1] = e /\ Seat(ports[a])[3] = k
    BY <2>1, <2>2 DEF Seat
  <2>5. QED
    BY <2>3, <2>4
<1>2. CASE k \in {d.nextRecv : d \in WireSeats(e)}
  <2>1. PICK d \in WireSeats(e) : k = d.nextRecv
    BY <1>2
  <2>2. PICK x \in DOMAIN net : Carrier(x) /\ d \in Wire(x) /\ d.end = e
    BY <2>1, SeatsOnWire
  <2>3. Seat(d) \in Seats(ports, DOMAIN net)
    BY <2>2, SeatsAre
  <2>4. Seat(d)[1] = e /\ Seat(d)[3] = k
    BY <2>1, <2>2 DEF Seat
  <2>5. QED
    BY <2>3, <2>4
<1>3. QED
  BY <1>1, <1>2 DEF NextRecvOf

\* A message is known by its sender and its number.
LEMMA MessagesKnown ==
  ASSUME NEW m \in Queued \cup UnderWay
  PROVE  \E i \in Ids(ports, DOMAIN net) : i[1] = m.from /\ i[2] = m.num
<1>1. Id(m) \in Ids(ports, DOMAIN net)
  <2>1. CASE m \in Queued
    <3>1. PICK a \in DOMAIN ports : m \in ports[a].queue
      BY <2>1 DEF Queued
    <3>2. QED
      BY <3>1, IdsAre
  <2>2. CASE m \in UnderWay
    <3>1. PICK e \in DOMAIN net : IsMessage(e) /\ m = e.msg
      BY <2>2 DEF UnderWay, BagToSet, IsMessage
    <3>2. QED
      BY <3>1, IdsAre
  <2>3. QED
    BY <2>1, <2>2
<1>2. Id(m)[1] = m.from /\ Id(m)[2] = m.num
  BY DEF Id
<1>3. QED
  BY <1>1, <1>2

\* An end for which nobody has a seat is nowhere.
LEMMA VacantMeansGone ==
  ASSUME NEW e, Vacant(Seats(ports, DOMAIN net), e)
  PROVE  PortSeats(e) = {} /\ WireSeats(e) = {}
<1>1. NextRecvOf(e) = {}
  BY SeatsKnown DEF Vacant
<1>2. QED
  BY <1>1 DEF NextRecvOf

\* Routes keep a message from coming back and from reaching another end.
LEMMA RoutesDeliver ==
  ASSUME RouteInv, NoCopies
  PROVE  DeliveredOnce
<1>1. PICK L \in Labels : Right(Pipes, L, lastName, ports, DOMAIN net)
  BY DEF RouteInv
<1> DEFINE S == Seats(ports, DOMAIN net)
           I == Ids(ports, DOMAIN net)
<1>2. EndsTyped
  BY DEF RouteInv
<1>3. /\ DOMAIN Pipes.conj = DOMAIN ends
      /\ \A t \in DOMAIN ends : Pipes.conj[t] = ends[t].conj
  BY <1>2, PipesAre
<1>4. ASSUME NEW e \in DOMAIN ends, NEW k \in NextRecvOf(e),
             NEW m \in Queued \cup UnderWay, m.from = Conjugate(e)
      PROVE  m.num >= k
  <2>1. PICK s \in S : s[1] = e /\ s[3] = k
    BY SeatsKnown
  <2>2. PICK i \in I : i[1] = m.from /\ i[2] = m.num
    BY MessagesKnown
  <2>3. i[1] = Pipes.conj[s[1]]
    BY <1>3, <1>4, <2>1, <2>2 DEF Conjugate
  <2>4. Counted(Pipes, I, S)
    BY <1>1 DEF Right
  <2> HIDE DEF S, I
  <2>5. i[2] >= s[3]
    BY <2>3, <2>4 DEF Counted
  <2>6. QED
    BY <2>1, <2>2, <2>5
<1>5. ASSUME NEW a \in DOMAIN ports, ports[a].state = "receiving",
             NEW m \in ports[a].queue
      PROVE  m.from = Conjugate(ports[a].end)
  <2>1. PortRight(Pipes, S, L, lastName, a, ports[a])
    BY <1>1 DEF Right
  <2> HIDE DEF S
  <2>2. /\ Facing(Pipes, L[a[2]]) /\ L[a[2]] = ports[a].end
        /\ m.from = Pipes.conj[L[a[2]]]
    BY <1>5, <2>1 DEF PortRight
  <2>3. ports[a].end \in DOMAIN ends
    BY <1>3, <2>2 DEF Facing
  <2>4. QED
    BY <1>3, <2>2, <2>3 DEF Conjugate
<1>6. QED
  BY <1>4, <1>5 DEF DeliveredOnce

\* While every process is alive, what a port knows of a closure is so.
LEMMA RoutesEnd ==
  ASSUME RouteInv
  PROVE  ClosureExact
<1> SUFFICES ASSUME alive = Node, NEW a \in DOMAIN ports,
                    ports[a].state = "receiving", ports[a].peerClosed
             PROVE  LET c == Conjugate(ports[a].end)
                    IN /\ PortSeats(c) = {} /\ WireSeats(c) = {}
                       /\ ports[a].lastRecv = ends[c].sent
  BY DEF ClosureExact
<1>1. PICK L \in Labels : Right(Pipes, L, lastName, ports, DOMAIN net)
  BY DEF RouteInv
<1> DEFINE S == Seats(ports, DOMAIN net)
           t == ports[a].end
<1>2. EndsTyped
  BY DEF RouteInv
<1>3. /\ DOMAIN Pipes.conj = DOMAIN ends
      /\ \A u \in DOMAIN ends : Pipes.conj[u] = ends[u].conj /\ Pipes.sent[u] = ends[u].sent
      /\ Pipes.whole
  BY <1>2, PipesAre
<1>4. PortRight(Pipes, S, L, lastName, a, ports[a])
  BY <1>1 DEF Right
<1>5. Seat(ports[a]) \in S /\ Seat(ports[a])[1] = t
  BY SeatsAre DEF Seat
<1> HIDE DEF S
<1>6. Facing(Pipes, L[a[2]]) /\ L[a[2]] = t /\ Closed(Pipes, S, L[a[2]], ports[a].lastRecv)
  BY <1>3, <1>4 DEF PortRight
<1>7. ~Vacant(S, t)
  BY <1>5 DEF Vacant
<1>8. t \in DOMAIN ends /\ Pipes.conj[t] \in DOMAIN ends
  BY <1>3, <1>6 DEF Facing
<1>9. Vacant(S, Pipes.conj[t]) /\ ports[a].lastRecv = Pipes.sent[Pipes.conj[t]]
  BY <1>6, <1>7 DEF Closed
<1>10. Pipes.conj[t] = Conjugate(t)
  BY <1>3, <1>8 DEF Conjugate
<1>11. PortSeats(Conjugate(t)) = {} /\ WireSeats(Conjugate(t)) = {}
  BY <1>9, <1>10, VacantMeansGone DEF S
<1>12. ports[a].lastRecv = ends[Conjugate(t)].sent
  BY <1>3, <1>8, <1>9, <1>10
<1>13. QED
  BY <1>11, <1>12

\* In every reachable state a message is in one place, is not waiting for or on
\* its way to a port that has already read it, and is queued at no receiving
\* port but the end it was sent to: AcceptPort, ObserveProxy, the forwarding of
\* proxies and MergePorts change who a port's peer is, and with that the route
\* of what is sent later, but never mix the two directions of a pipe or two
\* pipes.  It is about messages whose numbers fit into their header, and about
\* runs in which no fuse gives up after it has forwarded some messages: such a
\* fuse really does misdeliver them (see FuseGivesUp).
THEOREM MessagesArriveOnce == NoWrap /\ Spec /\ [][~FuseGivesUp]_vars => []DeliveredOnce
<1>1. RouteInv /\ NoCopies => DeliveredOnce
  BY RoutesDeliver
<1>2. QED
  BY <1>1, Routes, NothingCopied, PTL

\* While every process is alive, a port that has been told of closure faces an
\* end that nobody has any more, and knows exactly how many messages that end
\* sent: the number in ObserveClosure survives the detour over moved ports,
\* proxies that are removed and fused pipes, whatever overtakes it.
THEOREM ClosureIsExact == NoWrap /\ Spec /\ [][~FuseGivesUp]_vars => []ClosureExact
<1>1. RouteInv => ClosureExact
  BY RoutesEnd
<1>2. QED
  BY <1>1, Routes, PTL

==============================================================================
