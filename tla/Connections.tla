----------------------------- MODULE Connections -----------------------------
(***************************************************************************)
(* How processes get to know each other (mojo/core/node_controller.cc):    *)
(* a process invites another one, the broker takes the new process as its  *)
(* client, and later introduces any two of its clients to each other when  *)
(* one of them has an event for the other.                                 *)
(*                                                                         *)
(* Handlers run on the I/O thread of a process, one channel message at a   *)
(* time.  SendPeerEvent and MergePortIntoInviter run on any thread and     *)
(* release their locks between their steps.  A channel is named for what   *)
(* it was created for; its two ends may be in different hands, or in a     *)
(* message.                                                                *)
(***************************************************************************)
EXTENDS Integers, Sequences, FiniteSets

CONSTANTS
  Node,      \* the processes
  Broker,    \* the one that is not invited by anybody
  Inviter,   \* node -> the node that invites it
  Eager,     \* nodes that invite before they are clients of the broker
  Talks,     \* triples <<n, m, t>>: thread t of n has events for m
  MaxEvents, \* bound: events of each of these threads
  Mergers,   \* nodes that call MergePortIntoInviter
  Offered,   \* nodes whose invitation has a port with the name they ask for
  Mortal,    \* nodes whose process may die
  MaxDeaths, \* bound: processes that die
  NoNode     \* kInvalidNodeName, or no channel

ASSUME ConnectionsAssumption ==
  /\ Broker \in Node /\ NoNode \notin Node
  /\ Inviter \in [Node \ {Broker} -> Node]
  /\ Talks \subseteq Node \X Node \X Nat
  /\ \A p \in Talks : p[1] # p[2]               \* ForwardEvent
  /\ \A m \in Node : <<"invite", m>> \notin Node \cup {NoNode} \* GenerateRandomName

VARIABLES
  ctl,      \* node -> the state of its NodeController
  wire,     \* channel -> end -> messages on their way to that end
  shut,     \* pairs <<channel, node>>: this end has been closed
  alive,    \* nodes whose process runs
  send,     \* member of Talks -> where it is in SendPeerEvent
  merge,    \* node -> what has become of the port it merges into its inviter
  got       \* (history) events that have been accepted

vars == <<ctl, wire, shut, alive, send, merge, got>>

Invitation(m) == <<"invite", m>>
Client(m)     == <<"client", m>>
NoChannel     == << >>

NewController ==
  [peers |-> << >>,          \* peers_: node -> channel
   inviter |-> NoNode,       \* inviter_name_
   boot |-> NoChannel,       \* bootstrap_inviter_channel_
   broker |-> NoNode,        \* broker_name_
   invitations |-> {},       \* pending_invitations_, by temporary name
   clients |-> << >>,        \* pending_broker_clients_
   queue |-> [m \in Node |-> << >>],   \* pending_peer_messages_
   reject |-> FALSE,         \* reject_pending_merges_
   lost |-> {}]              \* nodes for which LostConnectionToNode was called

\* A message names a node, and may carry one end of a channel, for node `for'.
Plain(type, m)      == [type |-> type, name |-> m, ch |-> NoChannel, for |-> NoNode]
Carry(type, m, c, x) == [type |-> type, name |-> m, ch |-> c, for |-> x]

Has(n, m) == m \in DOMAIN ctl[n].peers
PeerChannel(c, m) == IF m \in DOMAIN c.peers THEN c.peers[m] ELSE NoChannel

\* GetInviterChannel and GetBrokerChannel.
InviterChannel(c) == PeerChannel(c, c.inviter)
BrokerChannel(n)  == IF n = Broker THEN NoChannel
                     ELSE PeerChannel(ctl[n], ctl[n].broker)

OtherEnd(c, n) == CHOOSE x \in DOMAIN wire[c] : x # n

-----------------------------------------------------------------------------
(***************************************************************************)
(* What a handler does, as functions of the state it has reached.          *)
(***************************************************************************)
Begin == [ctl |-> ctl, wire |-> wire, shut |-> shut, merge |-> merge]

Commit(st) == /\ ctl' = st.ctl /\ wire' = st.wire
              /\ shut' = st.shut /\ merge' = st.merge

Gone(st, c, n) == n \notin alive \/ <<c, n>> \in st.shut

\* The ends of channels that messages M carry are closed with the messages.
LoseHandles(st, M) ==
  [st EXCEPT !.shut = @ \cup {<<m.ch, m.for>> : m \in {x \in M : x.ch # NoChannel}}]

\* Node n writes messages to channel c.
PostAll(st, n, c, msgs) ==
  LET to == CHOOSE x \in DOMAIN st.wire[c] : x # n
  IN IF c = NoChannel \/ <<c, n>> \in st.shut \/ Gone(st, c, to)
     THEN LoseHandles(st, {msgs[i] : i \in DOMAIN msgs})
     ELSE [st EXCEPT !.wire[c][to] = @ \o msgs]

Post(st, n, c, m) == PostAll(st, n, c, <<m>>)

NewChannel(st, c, a, b) ==
  [st EXCEPT !.wire = [x \in DOMAIN st.wire \cup {c} |->
                         IF x = c THEN [e \in {a, b} |-> << >>]
                         ELSE st.wire[x]]]

\* Mutant of AddPeer: the new channel takes the place of the old one.
AddPeerAgain(st, n, m, c) ==
  LET t == st.ctl[n]
      new == [st EXCEPT !.ctl[n].peers = [x \in DOMAIN t.peers \cup {m} |->
                                            IF x = m THEN c ELSE t.peers[x]],
                        !.ctl[n].queue[m] = << >>,
                        !.shut = IF m \in DOMAIN t.peers
                                 THEN @ \cup {<<t.peers[m], n>>} ELSE @]
  IN PostAll(new, n, c, t.queue[m])

\* If two nodes race to be introduced to each other, the first channel wins and
\* the other one is closed.  Messages that wait for the peer are flushed.
AddPeer(st, n, m, c) ==
  LET t == st.ctl[n]
      new == [st EXCEPT !.ctl[n].peers = [x \in DOMAIN t.peers \cup {m} |->
                                            IF x = m THEN c ELSE t.peers[x]],
                        !.ctl[n].queue[m] = << >>]
  IN IF m \in DOMAIN t.peers THEN [st EXCEPT !.shut = @ \cup {<<c, n>>}]
     ELSE PostAll(new, n, c, t.queue[m])

CancelPendingPortMerges(st, n) ==
  [st EXCEPT !.ctl[n].reject = TRUE,
             !.merge[n] = IF @ = "pending" THEN "closed" ELSE @]

\* The port that was to be merged is closed, or is left, when the inviter
\* cannot be reached.  `name' may be a temporary name, or invalid.
DropPeer(st, n, name, c) ==
  LET t == st.ctl[n]
      old == PeerChannel(t, name)
      dropped ==
        [st EXCEPT
           !.ctl[n].peers = [x \in DOMAIN t.peers \ {name} |-> t.peers[x]],
           !.ctl[n].queue = [m \in Node |-> IF m = name THEN << >> ELSE @[m]],
           !.ctl[n].invitations = @ \ {name},
           !.ctl[n].lost = @ \cup {name},
           !.shut = @ \cup {<<x, n>> : x \in {old, c} \ {NoChannel}}]
  IN IF name = t.inviter \/ (c # NoChannel /\ c = t.boot)
     THEN CancelPendingPortMerges(dropped, n) ELSE dropped

\* Under which name the end of channel c at node n knows the other end.
RemoteName(n, c) ==
  CASE c[1] = "invite" /\ n = c[2] -> ctl[n].inviter
    [] c[1] = "invite" /\ n # c[2] ->
         IF c \in ctl[n].invitations THEN c ELSE c[2]
    [] c[1] # "invite" -> OtherEnd(c, n)

\* The channels that node n reads from.
Open(n) ==
  {c \in {ctl[n].peers[m] : m \in DOMAIN ctl[n].peers}
           \cup ({ctl[n].boot} \ {NoChannel}) \cup ctl[n].invitations :
     n \in alive /\ <<c, n>> \notin shut}

\* The next message of channel c for node n.
Receives(n, c, type) ==
  wire[c][n] # << >> /\ Head(wire[c][n]).type = type

Taken(n, c) == [Begin EXCEPT !.wire[c][n] = Tail(@)]

-----------------------------------------------------------------------------
(***************************************************************************)
(* Invitations.                                                            *)
(***************************************************************************)
Accepted(n) == n = Broker \/ ctl[n].broker # NoNode

SendBrokerClientInvitation(n, m) ==
  LET c == Invitation(m)
      st == NewChannel([Begin EXCEPT !.ctl[n].invitations = @ \cup {c}], c, n, m)
  IN /\ {n, m} \subseteq alive /\ m # Broker /\ Inviter[m] = n
     /\ c \notin DOMAIN wire
     /\ Accepted(n) \/ (n \in Eager /\ ctl[n].boot # NoChannel)
     /\ Commit(Post(st, n, c, Plain("AcceptInvitee", n)))
     /\ UNCHANGED <<alive, send, got>>

AcceptBrokerClientInvitation(m) ==
  /\ m \in alive /\ Invitation(m) \in DOMAIN wire
  /\ ctl[m].boot = NoChannel /\ ctl[m].inviter = NoNode
  /\ <<Invitation(m), m>> \notin shut
  /\ Commit([Begin EXCEPT !.ctl[m].boot = Invitation(m)])
  /\ UNCHANGED <<alive, send, got>>

OnAcceptInvitee(m, c) ==
  LET msg == Head(wire[c][m])
      st == [Taken(m, c) EXCEPT !.ctl[m].inviter = msg.name]
  IN /\ Receives(m, c, "AcceptInvitee")
     /\ Commit(IF ctl[m].boot # NoChannel /\ ctl[m].inviter = NoNode
               THEN Post(st, m, c, Plain("AcceptInvitation", m))
               ELSE DropPeer(Taken(m, c), m, RemoteName(m, c), NoChannel))
     /\ UNCHANGED <<alive, send, got>>

\* The invitee is made known to the broker, at once or when there is one.
OnAcceptInvitation(n, c) ==
  LET m == Head(wire[c][n]).name
      st == AddPeer([Taken(n, c) EXCEPT !.ctl[n].invitations = @ \ {c}], n, m, c)
      leader == InviterChannel(ctl[n])
  IN /\ Receives(n, c, "AcceptInvitation")
     /\ Commit(IF c \notin ctl[n].invitations
               THEN DropPeer(Taken(n, c), n, RemoteName(n, c), NoChannel)
               ELSE IF BrokerChannel(n) # NoChannel
               THEN Post(st, n, BrokerChannel(n), Plain("AddBrokerClient", m))
               ELSE IF leader = NoChannel /\ ctl[n].boot = NoChannel
               THEN Post(st, n, c, Plain("AcceptBrokerClient", n))
               ELSE [st EXCEPT !.ctl[n].clients = Append(@, m)])
     /\ UNCHANGED <<alive, send, got>>

\* Mutant of OnAddBrokerClient: the inviter gets no answer.
AddBrokerClientSilently(b, c) ==
  LET m == Head(wire[c][b]).name
      st == AddPeer(NewChannel(Taken(b, c), Client(m), b, m), b, m, Client(m))
  IN /\ Receives(b, c, "AddBrokerClient")
     /\ Commit(IF Has(b, m) THEN Taken(b, c) ELSE st)
     /\ UNCHANGED <<alive, send, got>>

OnAddBrokerClient(b, c) ==
  LET m == Head(wire[c][b]).name
      from == RemoteName(b, c)
      st == AddPeer(NewChannel(Taken(b, c), Client(m), b, m), b, m, Client(m))
  IN /\ Receives(b, c, "AddBrokerClient")
     /\ Commit(IF ~Has(b, from) THEN Taken(b, c)
               ELSE IF Has(b, m) THEN DropPeer(Taken(b, c), b, from, NoChannel)
               ELSE Post(st, b, ctl[b].peers[from],
                         Carry("BrokerClientAdded", m, Client(m), m)))
     /\ UNCHANGED <<alive, send, got>>

OnBrokerClientAdded(n, c) ==
  LET msg == Head(wire[c][n])
      from == RemoteName(n, c)
      st == Taken(n, c)
  IN /\ Receives(n, c, "BrokerClientAdded")
     /\ Commit(IF Has(n, msg.name) /\ BrokerChannel(n) = PeerChannel(ctl[n], from)
               THEN Post(st, n, ctl[n].peers[msg.name],
                         Carry("AcceptBrokerClient", from, msg.ch, msg.name))
               ELSE LoseHandles(st, {msg}))
     /\ UNCHANGED <<alive, send, got>>

\* Mutant of OnAcceptBrokerClient: port merges that wait stay waiting.
AcceptBrokerClientOnly(m, c) ==
  LET msg == Head(wire[c][m])
      t == ctl[m]
      st == [Taken(m, c) EXCEPT !.ctl[m].boot = NoChannel,
                                !.ctl[m].broker = msg.name,
                                !.ctl[m].clients = << >>]
      known == IF msg.name = t.inviter THEN st
               ELSE AddPeer(st, m, msg.name, msg.ch)
  IN /\ Receives(m, c, "AcceptBrokerClient")
     /\ Commit(AddPeer(known, m, t.inviter, t.boot))
     /\ UNCHANGED <<alive, send, got>>

\* The node becomes a client of the broker; what has waited for that is done,
\* in one step, although the code takes its locks one after the other: other
\* threads send no events before it, and a MergePortIntoInviter between finds
\* the inviter or still waits for it, as it does before or after the step.
\* The invitees that wait for the broker are looked up in pending_invitations_,
\* under their own names.
OnAcceptBrokerClient(m, c) ==
  LET msg == Head(wire[c][m])
      t == ctl[m]
      found == {i \in DOMAIN t.clients : t.clients[i] \in t.invitations}
      fed == [k \in 1 .. Cardinality(found) |->
                t.clients[CHOOSE i \in found : Cardinality({j \in found : j <= i}) = k]]
      st == [Taken(m, c) EXCEPT !.ctl[m].boot = NoChannel,
                                !.ctl[m].broker = msg.name,
                                !.ctl[m].clients = << >>]
      known == IF msg.name = t.inviter THEN st
               ELSE AddPeer(st, m, msg.name, msg.ch)
      added == AddPeer(known, m, t.inviter, t.boot)
      merged == IF merge[m] # "pending" THEN added
                ELSE Post([added EXCEPT !.merge[m] = "sent"], m, t.boot,
                          Plain("RequestPortMerge", m))
  IN /\ Receives(m, c, "AcceptBrokerClient")
     /\ Commit(PostAll(merged, m, merged.ctl[m].peers[msg.name],
                       [i \in DOMAIN fed |-> Plain("AddBrokerClient", fed[i])]))
     /\ UNCHANGED <<alive, send, got>>

\* MergePortIntoInviter, up to the release of pending_port_merges_lock_.
MergePortIntoInviter(m) ==
  /\ m \in alive /\ m \in Mergers /\ merge[m] = "none"
  /\ Commit([Begin EXCEPT !.merge[m] =
               IF ctl[m].reject THEN "closed"
               ELSE IF InviterChannel(ctl[m]) = NoChannel THEN "pending"
               ELSE "sending"])
  /\ UNCHANGED <<alive, send, got>>

RequestPortMerge(m) ==
  /\ m \in alive /\ merge[m] = "sending"
  /\ Commit(Post([Begin EXCEPT !.merge[m] = "sent"], m, Invitation(m),
                 Plain("RequestPortMerge", m)))
  /\ UNCHANGED <<alive, send, got>>

\* The reserved_ports_ of n: it keeps a port for its invitee m until the merge,
\* or until DropPeer, under either name of m, closes it.
Reserves(n, m) ==
  /\ m \in Offered /\ Inviter[m] = n /\ Invitation(m) \in DOMAIN wire
  /\ merge[m] # "merged"
  /\ m \notin ctl[n].lost /\ Invitation(m) \notin ctl[n].lost

\* Without a port for it the request is ignored; there is no answer.
OnRequestPortMerge(n, c) ==
  /\ Receives(n, c, "RequestPortMerge")
  /\ Commit([Taken(n, c) EXCEPT !.merge[RemoteName(n, c)] =
               IF Reserves(n, RemoteName(n, c)) THEN "merged" ELSE @])
  /\ UNCHANGED <<alive, send, got>>

-----------------------------------------------------------------------------
(***************************************************************************)
(* Introductions.                                                          *)
(***************************************************************************)
Event(p, k) == [type |-> "Event", name |-> p[2], ch |-> NoChannel,
                for |-> NoNode, from |-> p, num |-> k]

\* The first look at peers_.  The name of a node reaches others only in ports,
\* and it has none elsewhere before it is a client of the broker.
SendPeerEvent(p) ==
  LET n == p[1]
      e == Event(p, send[p].count + 1)
      direct == PeerChannel(ctl[n], p[2])
      broker == BrokerChannel(n)
      counted == [send EXCEPT ![p].count = @ + 1]
  IN /\ n \in alive /\ Accepted(n) /\ Accepted(p[2])
     /\ send[p].at = "idle" /\ send[p].count < MaxEvents
     /\ IF direct # NoChannel
        THEN send' = counted /\ Commit(Post(Begin, n, direct, e))
        ELSE /\ Commit(Begin)
             /\ send' = IF broker = NoChannel THEN counted
                        ELSE [counted EXCEPT ![p].at = "queueing",
                                             ![p].via = broker]
     /\ UNCHANGED <<alive, got>>

\* Mutant of QueueEvent: peers_ is not looked at again.
QueueBlindly(p) ==
  LET n == p[1]
      m == p[2]
      first == ctl[n].queue[m] = << >>
  IN /\ n \in alive /\ send[p].at = "queueing"
     /\ send' = [send EXCEPT ![p].at = IF first THEN "asking" ELSE "idle"]
     /\ Commit([Begin EXCEPT !.ctl[n].queue[m] = Append(@, Event(p, send[p].count))])
     /\ UNCHANGED <<alive, got>>

\* The second look, under peers_lock_.
QueueEvent(p) ==
  LET n == p[1]
      m == p[2]
      e == Event(p, send[p].count)
      first == ~Has(n, m) /\ ctl[n].queue[m] = << >>
  IN /\ n \in alive /\ send[p].at = "queueing"
     /\ send' = [send EXCEPT ![p].at = IF first THEN "asking" ELSE "idle"]
     /\ Commit(IF Has(n, m) THEN Post(Begin, n, ctl[n].peers[m], e)
               ELSE [Begin EXCEPT !.ctl[n].queue[m] = Append(@, e)])
     /\ UNCHANGED <<alive, got>>

RequestIntroduction(p) ==
  /\ p[1] \in alive /\ send[p].at = "asking"
  /\ send' = [send EXCEPT ![p].at = "idle"]
  /\ Commit(Post(Begin, p[1], send[p].via, Plain("RequestIntroduction", p[2])))
  /\ UNCHANGED <<alive, got>>

\* Mutant of OnRequestIntroduction: no answer for a node that is not known.
IntroduceKnown(b, c) ==
  LET m == Head(wire[c][b]).name
      from == RemoteName(b, c)
      intro == <<"intro", from, m,
                 Cardinality({x \in DOMAIN wire : x[1] = "intro" /\ x[2] = from})>>
      st == NewChannel(Taken(b, c), intro, from, m)
      half == Post(st, b, PeerChannel(ctl[b], from),
                   Carry("Introduce", m, intro, from))
  IN /\ Receives(b, c, "RequestIntroduction")
     /\ Commit(IF ~Has(b, m) THEN Taken(b, c)
               ELSE Post(half, b, ctl[b].peers[m],
                         Carry("Introduce", from, intro, m)))
     /\ UNCHANGED <<alive, send, got>>

OnRequestIntroduction(b, c) ==
  LET m == Head(wire[c][b]).name
      from == RemoteName(b, c)
      asker == PeerChannel(ctl[b], from)
      intro == <<"intro", from, m,
                 Cardinality({x \in DOMAIN wire : x[1] = "intro" /\ x[2] = from})>>
      st == NewChannel(Taken(b, c), intro, from, m)
      half == Post(st, b, asker, Carry("Introduce", m, intro, from))
  IN /\ Receives(b, c, "RequestIntroduction")
     /\ Commit(IF from = m \/ asker = NoChannel
               THEN DropPeer(Taken(b, c), b, from, NoChannel)
               ELSE IF ~Has(b, m)
               THEN Post(Taken(b, c), b, asker, Plain("Introduce", m))
               ELSE Post(half, b, ctl[b].peers[m],
                         Carry("Introduce", from, intro, m)))
     /\ UNCHANGED <<alive, send, got>>

OnIntroduce(n, c) ==
  LET msg == Head(wire[c][n])
      st == Taken(n, c)
  IN /\ Receives(n, c, "Introduce")
     /\ Commit(IF msg.ch = NoChannel
               THEN [st EXCEPT !.ctl[n].queue[msg.name] = << >>,
                               !.ctl[n].lost = @ \cup {msg.name}]
               ELSE AddPeer(st, n, msg.name, msg.ch))
     /\ UNCHANGED <<alive, send, got>>

OnEventMessage(n, c) ==
  /\ Receives(n, c, "Event")
  /\ got' = got \cup {Head(wire[c][n])}
  /\ Commit(Taken(n, c))
  /\ UNCHANGED <<alive, send>>

-----------------------------------------------------------------------------
(***************************************************************************)
(* Death of a process.                                                     *)
(***************************************************************************)
Crash(n) ==
  LET st == LoseHandles(Begin,
              UNION {{wire[c][n][i] : i \in 1 .. Len(wire[c][n])} :
                       c \in {x \in DOMAIN wire : n \in DOMAIN wire[x]}})
  IN /\ n \in alive /\ n \in Mortal /\ Cardinality(Node \ alive) < MaxDeaths
     /\ alive' = alive \ {n}
     /\ Commit([st EXCEPT !.wire = [c \in DOMAIN wire |->
                  [e \in DOMAIN wire[c] |-> IF e = n THEN << >> ELSE wire[c][e]]]])
     /\ UNCHANGED <<send, got>>

\* A channel fails when all that was written to it has been read.
OnChannelError(n, c) ==
  /\ wire[c][n] = << >> /\ Gone(Begin, c, OtherEnd(c, n))
  /\ Commit(DropPeer(Begin, n, RemoteName(n, c), c))
  /\ UNCHANGED <<alive, send, got>>

-----------------------------------------------------------------------------
Init ==
  /\ ctl = [n \in Node |-> NewController]
  /\ wire = << >>
  /\ shut = {}
  /\ alive = Node
  /\ send = [p \in Talks |-> [at |-> "idle", count |-> 0, via |-> NoChannel]]
  /\ merge = [n \in Node |-> "none"]
  /\ got = {}

IOThread(n) ==
  \/ AcceptBrokerClientInvitation(n)
  \/ \E c \in Open(n) :
       \/ OnAcceptInvitee(n, c) \/ OnAcceptInvitation(n, c)
       \/ OnAddBrokerClient(n, c) \/ OnBrokerClientAdded(n, c)
       \/ OnAcceptBrokerClient(n, c) \/ OnRequestPortMerge(n, c)
       \/ OnRequestIntroduction(n, c) \/ OnIntroduce(n, c)
       \/ OnEventMessage(n, c) \/ OnChannelError(n, c)

\* What the threads of the processes do once something has happened.
Internal ==
  \/ \E n \in Node : IOThread(n) \/ RequestPortMerge(n)
  \/ \E p \in Talks : QueueEvent(p) \/ RequestIntroduction(p)

Next ==
  \/ Internal
  \/ \E n \in Node : MergePortIntoInviter(n) \/ Crash(n)
  \/ \E n, m \in Node : SendBrokerClientInvitation(n, m)
  \/ \E p \in Talks : SendPeerEvent(p)

Spec == Init /\ [][Next]_vars

\* The processes do not all rest while one of their threads has something to
\* do: less than that every thread keeps running.
Fairness == WF_vars(Internal)

FairSpec == Spec /\ Fairness

-----------------------------------------------------------------------------
(***************************************************************************)
(* Properties.                                                             *)
(***************************************************************************)
Names == Node \cup {NoNode}
Channels == DOMAIN wire

\* Controllers keep their types; peers_ maps nodes to channels that exist and
\* have an end at this node.
TypeOK ==
  /\ \A n \in Node :
       /\ DOMAIN ctl[n].peers \subseteq Node
       /\ \A m \in DOMAIN ctl[n].peers : ctl[n].peers[m] \in Channels
                                        /\ n \in DOMAIN wire[ctl[n].peers[m]]
       /\ ctl[n].inviter \in Names /\ ctl[n].broker \in Names
       /\ ctl[n].boot \in Channels \cup {NoChannel}
       /\ ctl[n].invitations \subseteq Channels
  /\ alive \subseteq Node
  /\ merge \in [Node -> {"none", "pending", "sending", "sent", "merged", "closed"}]

\* Messages of a type for or about node m on their way on channel c to node n.
OnTheWay(c, n, type, m) ==
  \E i \in DOMAIN wire[c][n] :
    wire[c][n][i].type = type /\ wire[c][n][i].name = m

\* Messages that wait for an introduction do not wait in vain: only the first
\* one asks for it, and that request, or the answer to it, is on its way.
QueuedIsAwaited ==
  \A n \in alive : \A m \in Node :
    ctl[n].queue[m] # << >> =>
      \/ \E p \in Talks : p[1] = n /\ p[2] = m /\ send[p].at = "asking"
      \/ LET c == BrokerChannel(n)
         IN c = NoChannel \/ OnTheWay(c, Broker, "RequestIntroduction", m)
                          \/ OnTheWay(c, n, "Introduce", m)

\* Two nodes that have each other as peers share one channel, also when both
\* asked to be introduced and got two channels ("the losing pipe will be
\* silently closed and introduction should not be affected", AddPeer).
PeersAgree ==
  \A n, m \in alive :
    Has(n, m) /\ Has(m, n) => ctl[n].peers[m] = ctl[m].peers[n]

\* A node declares the connection to a client of the broker lost, and its
\* ports there closed, only if that process is no more.
LostMeansDead ==
  \A n \in alive : \A m \in ctl[n].lost \cap Node : Accepted(m) => m \notin alive

\* An event handed to SendPeerEvent is accepted by the other process, or the
\* sender gives up the connection, as long as the broker lives.
EventsArrive ==
  []<>(\A p \in Talks : \A k \in 1 .. send[p].count :
         \/ Event(p, k) \in got
         \/ p[1] \notin alive \/ p[2] \in ctl[p[1]].lost)

\* A port to be merged into the inviter is merged, or closed if the inviter is
\* lost before it could be asked; and no inviter keeps a port for a process
\* that is no more.  Two requests are never answered: one sent when the
\* inviter died, and one for a name that the invitation does not have ("will
\* never break if the given name was invalid", OnRequestPortMerge).
MergeSettles ==
  []<>(\A m \in Node \ {Broker} :
         /\ m \notin alive /\ Inviter[m] \in alive => ~Reserves(Inviter[m], m)
         /\ m \in Mergers /\ merge[m] # "none" /\ Invitation(m) \in DOMAIN wire =>
              \/ merge[m] \in {"merged", "closed"}
              \/ m \notin alive
              \/ merge[m] = "sent" /\ (m \notin Offered \/ Inviter[m] \notin alive))

\* A process that has been invited becomes a client of the broker, unless a
\* process dies: the inviter requests that AcceptBrokerClient be
\* sent to it (OnAcceptInvitee, OnAcceptBrokerClient).
InviteesAccepted ==
  []<>(\A m \in Node :
         Invitation(m) \in DOMAIN wire => Accepted(m) \/ alive # Node)

==============================================================================
