-------------------------- MODULE ConnectionsProofs --------------------------
(***************************************************************************)
(* Proofs about module Connections.  While the broker lives, two processes *)
(* that know each other share one channel (PeersAgree), a process declares *)
(* lost only what is dead (LostMeansDead), and messages that wait for an   *)
(* introduction do not wait in vain (QueuedIsAwaited).                     *)
(*                                                                         *)
(* The invariant follows an invitation through its stages, each of them a  *)
(* message on its way: at most one of them exists at a time, and the end   *)
(* of the broker's channel travels with it.                                *)
(***************************************************************************)
EXTENDS Connections, FiniteSetTheorems, WellFoundedInduction, TLAPS

Guests == Node \ {Broker}

\* The channel between the broker and its client m.
Via(m) == IF Inviter[m] = Broker THEN Invitation(m) ELSE Client(m)

\* The channels that introduce n and m to each other.
Between(n, m) == {<<"intro", n, m, k>> : k \in Nat} \cup {<<"intro", m, n, k>> : k \in Nat}

Chan == {Invitation(m) : m \in Guests} \cup {Client(m) : m \in Guests}
          \cup {<<"intro", n, m, k>> : n \in Guests, m \in Guests, k \in Nat}

Ends(c) == IF c[1] = "invite" THEN {Inviter[c[2]], c[2]}
           ELSE IF c[1] = "client" THEN {Broker, c[2]} ELSE {c[2], c[3]}

\* The messages of an invitation of m, in the order in which they are sent.
Hello(m)    == Plain("AcceptInvitee", Inviter[m])
Reply(m)    == Plain("AcceptInvitation", m)
AskFor(m)   == Plain("AddBrokerClient", m)
Added(m)    == Carry("BrokerClientAdded", m, Client(m), m)
Welcome(m)  == IF Inviter[m] = Broker THEN Plain("AcceptBrokerClient", Broker)
               ELSE Carry("AcceptBrokerClient", Broker, Client(m), m)
MergeReq(m) == Plain("RequestPortMerge", m)
IntroReq(m) == Plain("RequestIntroduction", m)
Unknown(m)  == Plain("Introduce", m)
Meet(n, m, c) == Carry("Introduce", m, c, n)

Events  == {Event(p, k) : p \in Talks, k \in Nat}
Types   == {"AcceptInvitee", "AcceptInvitation", "AddBrokerClient", "BrokerClientAdded",
            "AcceptBrokerClient", "RequestPortMerge", "RequestIntroduction", "Introduce"}
Control == [type : Types, name : Names, ch : Chan \cup {NoChannel}, for : Names]
Message == Control \cup Events

\* Partial functions from nodes to channels.
PeerMaps == UNION {[D -> Chan] : D \in SUBSET Node}

Controller ==
  [peers : PeerMaps, inviter : Names, boot : Chan \cup {NoChannel},
   broker : Names, invitations : SUBSET Chan, clients : Seq(Node),
   queue : [Node -> Seq(Events)], reject : BOOLEAN, lost : SUBSET (Names \cup Chan)]

Merging == {"none", "pending", "sending", "sent", "merged", "closed"}

WireType(w) ==
  /\ DOMAIN w \subseteq Chan
  /\ \A c \in DOMAIN w : w[c] \in [Ends(c) -> Seq(Message)]

\* What a handler works on.
Handler(st) ==
  /\ st = [ctl |-> st.ctl, wire |-> st.wire, shut |-> st.shut, merge |-> st.merge]
  /\ st.ctl \in [Node -> Controller]
  /\ WireType(st.wire)
  /\ st.shut \subseteq Chan \X Node
  /\ st.merge \in [Node -> Merging]

Sending == [at : {"idle", "queueing", "asking"}, count : Nat,
            via : Chan \cup {NoChannel}]

Typed ==
  /\ Handler(Begin)
  /\ alive \subseteq Node
  /\ send \in [Talks -> Sending]

\* The messages on channel c to its end e, none if there is no such end.
Queue(w, c, e) == IF c \in DOMAIN w /\ e \in DOMAIN w[c] THEN w[c][e] ELSE << >>
At(c, e) == Queue(wire, c, e)

In(s, x)   == \E i \in DOMAIN s : s[i] = x
Once(s, x) == \A i, j \in DOMAIN s : s[i] = x /\ s[j] = x => i = j

\* Between wires v and w, messages t are added, or the first one is taken.
Appends(v, w, c, e, t) ==
  /\ DOMAIN w = DOMAIN v
  /\ \A a, b : Queue(w, a, b) = IF a = c /\ b = e THEN Queue(v, c, e) \o t
                                ELSE Queue(v, a, b)
Takes(v, w, c, e) ==
  /\ DOMAIN w = DOMAIN v
  /\ \A a, b : Queue(w, a, b) = IF a = c /\ b = e THEN Tail(Queue(v, c, e))
                                ELSE Queue(v, a, b)

-----------------------------------------------------------------------------
(***************************************************************************)
(* Sequences.                                                              *)
(***************************************************************************)
\* What is left when the head is taken.
LEMMA InTail ==
  ASSUME NEW S, NEW s \in Seq(S), s # << >>, NEW x
  PROVE /\ In(Tail(s), x) => In(s, x)
        /\ In(s, x) /\ x # Head(s) => In(Tail(s), x)
        /\ Once(s, x) => Once(Tail(s), x)
        /\ Once(s, Head(s)) => ~In(Tail(s), Head(s))
<1>1. /\ Len(s) \in Nat \ {0} /\ Tail(s) \in Seq(S) /\ Len(Tail(s)) = Len(s) - 1
      /\ \A i \in 1 .. Len(s) - 1 : Tail(s)[i] = s[i + 1]
      /\ Head(s) = s[1] /\ DOMAIN s = 1 .. Len(s) /\ DOMAIN Tail(s) = 1 .. (Len(s) - 1)
  OBVIOUS
<1>2. In(Tail(s), x) => In(s, x)
  BY <1>1 DEF In
<1>3. In(s, x) /\ x # Head(s) => In(Tail(s), x)
  <2>1. SUFFICES ASSUME NEW i \in 1 .. Len(s), s[i] = x, x # s[1]
                 PROVE \E j \in 1 .. Len(s) - 1 : Tail(s)[j] = x
    BY <1>1 DEF In
  <2>2. i - 1 \in 1 .. Len(s) - 1 /\ Tail(s)[i - 1] = s[i]
    BY <1>1, <2>1
  <2> QED BY <2>1, <2>2
<1>4. Once(s, x) => Once(Tail(s), x)
  <2>1. SUFFICES ASSUME Once(s, x), NEW i \in 1 .. Len(s) - 1, NEW j \in 1 .. Len(s) - 1,
                        Tail(s)[i] = x, Tail(s)[j] = x
                 PROVE i = j
    BY <1>1 DEF Once
  <2>2. i + 1 \in DOMAIN s /\ j + 1 \in DOMAIN s /\ s[i + 1] = x /\ s[j + 1] = x
    BY <1>1, <2>1
  <2>3. i + 1 = j + 1
    BY <2>1, <2>2 DEF Once
  <2> QED BY <2>3
<1>5. Once(s, Head(s)) => ~In(Tail(s), Head(s))
  <2>1. SUFFICES ASSUME Once(s, s[1]), NEW i \in 1 .. Len(s) - 1, Tail(s)[i] = s[1]
                 PROVE FALSE
    BY <1>1 DEF In
  <2>2. i + 1 \in DOMAIN s /\ 1 \in DOMAIN s /\ s[i + 1] = s[1] /\ i + 1 # 1
    BY <1>1, <2>1
  <2> QED BY <2>1, <2>2 DEF Once
<1> QED BY <1>2, <1>3, <1>4, <1>5

\* What is there when t is added.
LEMMA InConcat ==
  ASSUME NEW S, NEW s \in Seq(S), NEW t \in Seq(S), NEW x
  PROVE /\ In(s \o t, x) <=> In(s, x) \/ In(t, x)
        /\ Once(s, x) /\ ~In(t, x) => Once(s \o t, x)
        /\ ~In(s, x) /\ Once(t, x) => Once(s \o t, x)
<1>1. /\ Len(s) \in Nat /\ Len(t) \in Nat /\ s \o t \in Seq(S)
      /\ DOMAIN s = 1 .. Len(s) /\ DOMAIN t = 1 .. Len(t)
      /\ DOMAIN (s \o t) = 1 .. (Len(s) + Len(t))
      /\ \A i \in 1 .. (Len(s) + Len(t)) :
            (s \o t)[i] = IF i <= Len(s) THEN s[i] ELSE t[i - Len(s)]
  OBVIOUS
<1>2. \A i \in 1 .. (Len(s) + Len(t)) : i <= Len(s) \/ i - Len(s) \in 1 .. Len(t)
  BY <1>1
<1>3. \A i \in 1 .. Len(t) : /\ i + Len(s) \in 1 .. (Len(s) + Len(t))
                             /\ (s \o t)[i + Len(s)] = t[i]
  BY <1>1
<1>4. \A i \in 1 .. Len(s) : i \in 1 .. (Len(s) + Len(t)) /\ (s \o t)[i] = s[i]
  BY <1>1
<1>5. In(s \o t, x) <=> In(s, x) \/ In(t, x)
  <2>1. In(s \o t, x) => In(s, x) \/ In(t, x)
    BY <1>1, <1>2 DEF In
  <2>2. In(s, x) => In(s \o t, x)
    BY <1>1, <1>4 DEF In
  <2>3. In(t, x) => In(s \o t, x)
    BY <1>1, <1>3 DEF In
  <2> QED BY <2>1, <2>2, <2>3
<1>6. ASSUME Once(s, x), ~In(t, x) PROVE Once(s \o t, x)
  <2>1. SUFFICES ASSUME NEW i \in 1 .. (Len(s) + Len(t)), NEW j \in 1 .. (Len(s) + Len(t)),
                        (s \o t)[i] = x, (s \o t)[j] = x
                 PROVE i = j
    BY <1>1 DEF Once
  <2>2. i <= Len(s) /\ j <= Len(s)
    BY <1>1, <1>2, <1>6, <2>1 DEF In
  <2>3. i \in DOMAIN s /\ j \in DOMAIN s /\ s[i] = x /\ s[j] = x
    BY <1>1, <2>1, <2>2
  <2> QED BY <1>6, <2>3 DEF Once
<1>7. ASSUME ~In(s, x), Once(t, x) PROVE Once(s \o t, x)
  <2>1. SUFFICES ASSUME NEW i \in 1 .. (Len(s) + Len(t)), NEW j \in 1 .. (Len(s) + Len(t)),
                        (s \o t)[i] = x, (s \o t)[j] = x
                 PROVE i = j
    BY <1>1 DEF Once
  <2>2. ~(i <= Len(s)) /\ ~(j <= Len(s))
    BY <1>1, <1>7, <2>1 DEF In
  <2>3. i - Len(s) \in DOMAIN t /\ j - Len(s) \in DOMAIN t /\ t[i - Len(s)] = x /\ t[j - Len(s)] = x
    BY <1>1, <1>2, <2>1, <2>2
  <2>4. i - Len(s) = j - Len(s)
    BY <1>7, <2>3 DEF Once
  <2> QED BY <2>4, <1>1
<1> QED BY <1>5, <1>6, <1>7

\* A queue of one message holds just that message, once.
LEMMA InOne ==
  ASSUME NEW x, NEW y
  PROVE (In(<<y>>, x) <=> x = y) /\ Once(<<y>>, x)
  BY DEF In, Once

\* An empty queue holds nothing.
LEMMA InNone ==
  ASSUME NEW x
  PROVE ~In(<< >>, x) /\ Once(<< >>, x)
  BY DEF In, Once

-----------------------------------------------------------------------------
(***************************************************************************)
(* Channels and messages.                                                  *)
(***************************************************************************)
LEMMA Constants ==
  /\ Broker \in Node /\ NoNode \notin Node
  /\ \A m \in Guests : Inviter[m] \in Node /\ m \in Node /\ m # Broker
  /\ \A m \in Node : m # Broker => m \in Guests
  /\ \A p \in Talks : p[1] \in Node /\ p[2] \in Node /\ p[1] # p[2]
  BY ConnectionsAssumption DEF Guests

\* The two channels an invitation of m can bring, and whose they are.
LEMMA InvitationFacts ==
  ASSUME NEW m \in Guests
  PROVE /\ Invitation(m) \in Chan /\ Client(m) \in Chan
        /\ Invitation(m) # NoChannel /\ Client(m) # NoChannel
        /\ Ends(Invitation(m)) = {Inviter[m], m}
        /\ Ends(Client(m)) = {Broker, m}
        /\ Via(m) \in {Invitation(m), Client(m)}
        /\ Ends(Via(m)) = {Broker, m}
  BY DEF Chan, Ends, Invitation, Client, Via, NoChannel

\* Channels of different guests, or of different kinds, are different.
LEMMA ChannelsDiffer ==
  ASSUME NEW m, NEW n
  PROVE /\ Invitation(m) = Invitation(n) => m = n
        /\ Client(m) = Client(n) => m = n
        /\ Invitation(m) # Client(n)
        /\ Invitation(m)[1] = "invite" /\ Client(m)[1] = "client"
        /\ Invitation(m)[2] = m /\ Client(m)[2] = m
        /\ Via(m) = Via(n) => m = n
  BY DEF Invitation, Client, Via

\* An introduction's channel belongs to the two processes it introduces and to no one else.
LEMMA BetweenFacts ==
  ASSUME NEW n \in Guests, NEW m \in Guests, NEW c \in Between(n, m)
  PROVE /\ c \in Chan /\ c # NoChannel /\ Ends(c) = {n, m} /\ c[1] = "intro"
        /\ c \in Between(m, n)
        /\ \A x : c # Invitation(x) /\ c # Client(x) /\ c # Via(x)
        /\ \A x : x # m => c \notin Between(n, x)
        /\ \A x : x # n => c \notin Between(x, m)
<1>1. PICK k \in Nat : c = <<"intro", n, m, k>> \/ c = <<"intro", m, n, k>>
  BY DEF Between
<1>2. c \in Chan /\ c # NoChannel /\ Ends(c) = {n, m} /\ c[1] = "intro"
  BY <1>1 DEF Chan, Ends, NoChannel
<1>3. c \in Between(m, n)
  BY DEF Between
<1>4. \A x : c # Invitation(x) /\ c # Client(x) /\ c # Via(x)
  BY <1>2, ChannelsDiffer DEF Via
<1>5. /\ \A x : x # m => c \notin Between(n, x)
      /\ \A x : x # n => c \notin Between(x, m)
  BY <1>1 DEF Between
<1> QED BY <1>2, <1>3, <1>4, <1>5

\* There are no other channels.
LEMMA ChannelKinds ==
  ASSUME NEW c \in Chan
  PROVE \/ \E m \in Guests : c = Invitation(m)
        \/ \E m \in Guests : c = Client(m)
        \/ \E n, m \in Guests : c \in Between(n, m)
<1>1. CASE \E n, m \in Guests, k \in Nat : c = <<"intro", n, m, k>>
  BY <1>1 DEF Between
<1> QED BY <1>1 DEF Chan

\* "No channel" is not a channel.
LEMMA NoChannelIsNone == NoChannel \notin Chan
  BY ChannelKinds, InvitationFacts, BetweenFacts

\* Fields of the messages.
LEMMA MessageFields ==
  ASSUME NEW m, NEW n, NEW c
  PROVE /\ Hello(m).type = "AcceptInvitee" /\ Hello(m).ch = NoChannel /\ Hello(m).name = Inviter[m]
        /\ Reply(m).type = "AcceptInvitation" /\ Reply(m).ch = NoChannel /\ Reply(m).name = m
        /\ AskFor(m).type = "AddBrokerClient" /\ AskFor(m).ch = NoChannel /\ AskFor(m).name = m
        /\ Added(m).type = "BrokerClientAdded" /\ Added(m).ch = Client(m)
        /\ Added(m).name = m /\ Added(m).for = m
        /\ Welcome(m).type = "AcceptBrokerClient" /\ Welcome(m).name = Broker
        /\ Inviter[m] # Broker => Welcome(m).ch = Client(m) /\ Welcome(m).for = m
        /\ Inviter[m] = Broker => Welcome(m).ch = NoChannel
        /\ MergeReq(m).type = "RequestPortMerge" /\ MergeReq(m).ch = NoChannel
        /\ IntroReq(m).type = "RequestIntroduction" /\ IntroReq(m).ch = NoChannel /\ IntroReq(m).name = m
        /\ Unknown(m).type = "Introduce" /\ Unknown(m).ch = NoChannel /\ Unknown(m).name = m
        /\ Meet(n, m, c).type = "Introduce" /\ Meet(n, m, c).ch = c
        /\ Meet(n, m, c).name = m /\ Meet(n, m, c).for = n
  BY DEF Hello, Reply, AskFor, Added, Welcome, MergeReq, IntroReq, Unknown, Meet, Plain, Carry

\* The types among them.
LEMMA MessageKinds ==
  ASSUME NEW m
  PROVE /\ Hello(m).type = "AcceptInvitee" /\ Reply(m).type = "AcceptInvitation"
        /\ AskFor(m).type = "AddBrokerClient" /\ Added(m).type = "BrokerClientAdded"
        /\ Welcome(m).type = "AcceptBrokerClient" /\ MergeReq(m).type = "RequestPortMerge"
        /\ IntroReq(m).type = "RequestIntroduction" /\ Unknown(m).type = "Introduce"
  BY DEF Hello, Reply, AskFor, Added, Welcome, MergeReq, IntroReq, Unknown, Plain, Carry

\* A port event carries no channel.
LEMMA EventFields ==
  ASSUME NEW x \in Events
  PROVE x.type = "Event" /\ x.ch = NoChannel
  BY DEF Events, Event

\* The messages of the protocol are messages, with a channel or without one.
LEMMA ControlTypes ==
  ASSUME NEW type \in Types, NEW m \in Names
  PROVE /\ Plain(type, m) \in Message
        /\ \A c \in Chan, x \in Names : Carry(type, m, c, x) \in Message
  BY DEF Plain, Carry, Message, Control, Names

\* So are the ones the invariant names.
LEMMA MessageTypes ==
  ASSUME NEW m \in Guests
  PROVE /\ Hello(m) \in Message /\ Reply(m) \in Message /\ AskFor(m) \in Message
        /\ Added(m) \in Message /\ Welcome(m) \in Message /\ MergeReq(m) \in Message
        /\ IntroReq(m) \in Message /\ Unknown(m) \in Message
        /\ \A n \in Guests : \A c \in Between(n, m) : Meet(n, m, c) \in Message
<1>1. NoNode \in Names /\ m \in Names /\ Inviter[m] \in Names /\ Broker \in Names
  BY Constants DEF Names
<1>2. Client(m) \in Chan
  BY InvitationFacts
<1>3. \A n \in Guests : n \in Names
  BY Constants DEF Names
<1>4. \A n \in Guests : \A c \in Between(n, m) : c \in Chan
  BY BetweenFacts
<1>5. /\ Hello(m) \in Message /\ Reply(m) \in Message /\ AskFor(m) \in Message
      /\ MergeReq(m) \in Message /\ IntroReq(m) \in Message /\ Unknown(m) \in Message
  BY <1>1, ControlTypes DEF Hello, Reply, AskFor, MergeReq, IntroReq, Unknown, Types
<1>6. Added(m) \in Message
  BY <1>1, <1>2, ControlTypes DEF Added, Types
<1>7. Welcome(m) \in Message
  BY <1>1, <1>2, ControlTypes DEF Welcome, Types
<1>8. \A n \in Guests : \A c \in Between(n, m) : Meet(n, m, c) \in Message
  BY <1>1, <1>3, <1>4, ControlTypes DEF Meet, Types
<1> QED BY <1>5, <1>6, <1>7, <1>8

-----------------------------------------------------------------------------
(***************************************************************************)
(* The operations that handlers are made of.                               *)
(***************************************************************************)
\* The other end of a channel.
LEMMA OtherEndIs ==
  ASSUME NEW w, WireType(w), NEW c \in DOMAIN w, NEW n, NEW e, n # e, Ends(c) = {n, e}
  PROVE (CHOOSE x \in DOMAIN w[c] : x # n) = e
<1>1. DOMAIN w[c] = {n, e}
  BY DEF WireType
<1> QED BY <1>1

\* Messages t are added to what is on its way to end e of channel c.
LEMMA AppendFacts ==
  ASSUME NEW v, WireType(v), NEW c \in DOMAIN v, NEW e \in Ends(c), NEW t \in Seq(Message)
  PROVE LET w == [v EXCEPT ![c][e] = @ \o t]
        IN WireType(w) /\ Appends(v, w, c, e, t)
<1> DEFINE w == [v EXCEPT ![c][e] = @ \o t]
<1>1. DOMAIN w = DOMAIN v /\ \A a \in DOMAIN v : a # c => w[a] = v[a]
  OBVIOUS
<1>2. w[c] = [v[c] EXCEPT ![e] = @ \o t]
  OBVIOUS
<1>3. v[c] \in [Ends(c) -> Seq(Message)]
  BY DEF WireType
<1>4. w[c] \in [Ends(c) -> Seq(Message)] /\ w[c][e] = v[c][e] \o t
      /\ \A b \in Ends(c) : b # e => w[c][b] = v[c][b]
  BY <1>2, <1>3
<1>5. WireType(w)
  BY <1>1, <1>4 DEF WireType
<1>6. \A a, b : Queue(w, a, b) = IF a = c /\ b = e THEN Queue(v, c, e) \o t ELSE Queue(v, a, b)
  <2> TAKE a, b
  <2>1. CASE a = c
    BY <1>1, <1>3, <1>4, <2>1 DEF Queue
  <2>2. CASE a # c
    BY <1>1, <2>2 DEF Queue
  <2> QED BY <2>1, <2>2
<1>7. Appends(v, w, c, e, t)
  BY <1>1, <1>6 DEF Appends
<1> QED BY <1>5, <1>7

\* The first message is taken.
LEMMA TakeFacts ==
  ASSUME NEW v, WireType(v), NEW c \in DOMAIN v, NEW e \in Ends(c), v[c][e] # << >>
  PROVE LET w == [v EXCEPT ![c][e] = Tail(@)]
        IN WireType(w) /\ Takes(v, w, c, e)
<1> DEFINE w == [v EXCEPT ![c][e] = Tail(@)]
<1>1. DOMAIN w = DOMAIN v /\ \A a \in DOMAIN v : a # c => w[a] = v[a]
  OBVIOUS
<1>2. w[c] = [v[c] EXCEPT ![e] = Tail(@)]
  OBVIOUS
<1>3. v[c] \in [Ends(c) -> Seq(Message)]
  BY DEF WireType
<1>4. w[c] \in [Ends(c) -> Seq(Message)] /\ w[c][e] = Tail(v[c][e])
      /\ \A b \in Ends(c) : b # e => w[c][b] = v[c][b]
  BY <1>2, <1>3
<1>5. WireType(w)
  BY <1>1, <1>4 DEF WireType
<1>6. \A a, b : Queue(w, a, b) = IF a = c /\ b = e THEN Tail(Queue(v, c, e)) ELSE Queue(v, a, b)
  <2> TAKE a, b
  <2>1. CASE a = c
    BY <1>1, <1>3, <1>4, <2>1 DEF Queue
  <2>2. CASE a # c
    BY <1>1, <2>2 DEF Queue
  <2> QED BY <2>1, <2>2
<1>7. Takes(v, w, c, e)
  BY <1>1, <1>6 DEF Takes
<1> QED BY <1>5, <1>7

\* An end of a channel that can be written to.
Up(st, c, n, e) == <<c, n>> \notin st.shut /\ e \in alive /\ <<c, e>> \notin st.shut

Items(t) == {t[i] : i \in DOMAIN t}
Written(st, c, e, t) == [st EXCEPT !.wire[c][e] = @ \o t]

\* What PostAll does on a channel of n and e: it writes, or the handles are lost.
LEMMA PostAllIs ==
  ASSUME NEW st, Handler(st), NEW c \in DOMAIN st.wire, NEW n \in Node, NEW e \in Node,
         n # e, Ends(c) = {n, e}, NEW t
  PROVE PostAll(st, n, c, t) = IF ~Up(st, c, n, e) THEN LoseHandles(st, Items(t))
                               ELSE Written(st, c, e, t)
<1>0. WireType(st.wire)
  BY DEF Handler
<1>1. (CHOOSE x \in DOMAIN st.wire[c] : x # n) = e
  <2>1. DOMAIN st.wire[c] = {n, e}
    BY <1>0 DEF WireType
  <2> QED BY <2>1
<1>2. c # NoChannel
  BY <1>0, NoChannelIsNone DEF WireType
<1> QED BY ZenonT(30), <1>1, <1>2 DEF PostAll, Up, Gone, Items, Written

\* Node n writes message m to the other end e of channel c.
LEMMA PostFacts ==
  ASSUME NEW st, Handler(st), NEW c \in DOMAIN st.wire, NEW n \in Node, NEW e \in Node,
         n # e, Ends(c) = {n, e}, NEW m \in Message, m.for \in Node \/ m.ch = NoChannel,
         m.ch \in Chan \cup {NoChannel}
  PROVE LET r == Post(st, n, c, m)
        IN /\ Handler(r) /\ r.ctl = st.ctl /\ r.merge = st.merge
           /\ Up(st, c, n, e) => r.shut = st.shut /\ Appends(st.wire, r.wire, c, e, <<m>>)
           /\ ~Up(st, c, n, e) =>
                /\ r.wire = st.wire
                /\ m.ch = NoChannel => r.shut = st.shut
                /\ m.ch # NoChannel => r.shut = st.shut \cup {<<m.ch, m.for>>}
<1> DEFINE r == Post(st, n, c, m)
<1> DEFINE t == <<m>>
<1>1. t \in Seq(Message) /\ DOMAIN t = {1} /\ t[1] = m
  OBVIOUS
<1>2. Items(t) = {m}
  BY <1>1 DEF Items
<1>3. r = PostAll(st, n, c, t)
  BY DEF Post
<1> HIDE DEF t
<1>4. r = IF ~Up(st, c, n, e) THEN LoseHandles(st, {m})
          ELSE Written(st, c, e, t)
  BY <1>2, <1>3, PostAllIs
<1>5. CASE Up(st, c, n, e)
  <2> DEFINE w == [st.wire EXCEPT ![c][e] = @ \o t]
  <2>1. r = [ctl |-> st.ctl, wire |-> w, shut |-> st.shut, merge |-> st.merge]
    BY <1>4, <1>5 DEF Handler, Written
  <2>2. WireType(w) /\ Appends(st.wire, w, c, e, t)
    BY <1>1, AppendFacts DEF Handler
  <2> HIDE DEF w
  <2>3. Handler(r) /\ r.ctl = st.ctl /\ r.merge = st.merge /\ r.shut = st.shut
        /\ Appends(st.wire, r.wire, c, e, t)
    BY <2>1, <2>2 DEF Handler
  <2>4. t = <<m>>
    BY DEF t
  <2> QED BY <1>5, <2>3, <2>4
<1>6. CASE ~Up(st, c, n, e)
  <2> DEFINE S == st.shut \cup {<<x.ch, x.for>> : x \in {y \in {m} : y.ch # NoChannel}}
  <2>1. r = [ctl |-> st.ctl, wire |-> st.wire, shut |-> S, merge |-> st.merge]
    BY <1>4, <1>6 DEF Handler, LoseHandles
  <2>2. m.ch = NoChannel => S = st.shut
    OBVIOUS
  <2>3. m.ch # NoChannel => S = st.shut \cup {<<m.ch, m.for>>}
    OBVIOUS
  <2>4. S \subseteq Chan \X Node
    BY <2>2, <2>3 DEF Handler
  <2> HIDE DEF S
  <2> QED BY <1>6, <2>1, <2>2, <2>3, <2>4 DEF Handler
<1> QED BY <1>5, <1>6

\* The events that have waited for a peer are written.
LEMMA FlushFacts ==
  ASSUME NEW st, Handler(st), NEW c \in DOMAIN st.wire, NEW n \in Node, NEW e \in Node,
         n # e, Ends(c) = {n, e}, NEW t \in Seq(Events)
  PROVE LET r == PostAll(st, n, c, t)
        IN /\ Handler(r) /\ r.ctl = st.ctl /\ r.merge = st.merge /\ r.shut = st.shut
           /\ r.wire = st.wire \/ Appends(st.wire, r.wire, c, e, t)
<1> DEFINE r == PostAll(st, n, c, t)
<1>3. \A i \in DOMAIN t : t[i].ch = NoChannel
  BY EventFields
<1>4. r = IF ~Up(st, c, n, e) THEN LoseHandles(st, Items(t))
          ELSE Written(st, c, e, t)
  BY PostAllIs
<1>5. CASE Up(st, c, n, e)
  <2> DEFINE w == [st.wire EXCEPT ![c][e] = @ \o t]
  <2>1. r = [ctl |-> st.ctl, wire |-> w, shut |-> st.shut, merge |-> st.merge]
    BY <1>4, <1>5 DEF Handler, Written
  <2>2. t \in Seq(Message)
    BY DEF Message
  <2>3. WireType(w) /\ Appends(st.wire, w, c, e, t)
    BY <2>2, AppendFacts DEF Handler
  <2> HIDE DEF w
  <2> QED BY <1>5, <2>1, <2>3 DEF Handler
<1>6. CASE ~Up(st, c, n, e)
  <2> DEFINE S == st.shut \cup {<<x.ch, x.for>> : x \in {y \in Items(t) : y.ch # NoChannel}}
  <2>1. r = [ctl |-> st.ctl, wire |-> st.wire, shut |-> S, merge |-> st.merge]
    BY <1>4, <1>6 DEF Handler, LoseHandles
  <2>2. S = st.shut
    BY <1>3 DEF Items
  <2> HIDE DEF S
  <2> QED BY <1>6, <2>1, <2>2 DEF Handler
<1> QED BY <1>5, <1>6

\* What a controller knows about names, and its other parts.
SameNames(t, u) ==
  u.inviter = t.inviter /\ u.boot = t.boot /\ u.broker = t.broker /\ u.clients = t.clients
SameOthers(C, D, n) == \A x \in Node : x # n => D[x] = C[x]

\* A new channel, with nothing on it.
LEMMA NewChannelFacts ==
  ASSUME NEW st, Handler(st), NEW c \in Chan, c \notin DOMAIN st.wire, NEW a, NEW b,
         Ends(c) = {a, b}
  PROVE LET r == NewChannel(st, c, a, b)
        IN /\ Handler(r) /\ r.ctl = st.ctl /\ r.merge = st.merge /\ r.shut = st.shut
           /\ DOMAIN r.wire = DOMAIN st.wire \cup {c}
           /\ \A x, e : Queue(r.wire, x, e) = Queue(st.wire, x, e)
<1> DEFINE w == [x \in DOMAIN st.wire \cup {c} |->
                   IF x = c THEN [e \in {a, b} |-> << >>] ELSE st.wire[x]]
           r == NewChannel(st, c, a, b)
<1>1. r = [ctl |-> st.ctl, wire |-> w, shut |-> st.shut, merge |-> st.merge]
  BY DEF NewChannel, Handler
<1>2. << >> \in Seq(Message)
  OBVIOUS
<1>3. [e \in {a, b} |-> << >>] \in [Ends(c) -> Seq(Message)]
  BY <1>2
<1>4. WireType(w)
  BY <1>3 DEF WireType, Handler
<1>5. \A x, e : Queue(w, x, e) = Queue(st.wire, x, e)
  BY DEF Queue
<1>6. DOMAIN w = DOMAIN st.wire \cup {c}
  OBVIOUS
<1> HIDE DEF w
<1> QED BY <1>1, <1>4, <1>5, <1>6 DEF Handler

\* Node n takes the first message of channel c.
LEMMA TakenFacts ==
  ASSUME Handler(Begin), NEW c \in DOMAIN wire, NEW n \in Ends(c), At(c, n) # << >>
  PROVE LET r == Taken(n, c)
        IN /\ Handler(r) /\ r.ctl = ctl /\ r.merge = merge /\ r.shut = shut
           /\ Takes(wire, r.wire, c, n)
<1> DEFINE w == [wire EXCEPT ![c][n] = Tail(@)]
           r == Taken(n, c)
<1>1. Begin = [ctl |-> ctl, wire |-> wire, shut |-> shut, merge |-> merge]
  BY DEF Begin
<1>2. r = [ctl |-> ctl, wire |-> w, shut |-> shut, merge |-> merge]
  <2>1. r = [Begin EXCEPT !.wire[c][n] = Tail(@)]
    BY DEF Taken
  <2> QED BY <1>1, <2>1
<1>3. WireType(wire) /\ wire[c] \in [Ends(c) -> Seq(Message)]
  BY <1>1 DEF Handler, WireType
<1>4. wire[c][n] # << >>
  BY <1>3 DEF At, Queue
<1>5. WireType(w) /\ Takes(wire, w, c, n)
  BY <1>3, <1>4, TakeFacts
<1> HIDE DEF w
<1> QED BY <1>1, <1>2, <1>5 DEF Handler

\* The controller when m is a peer on channel c, and nothing waits for it.
WithPeer(t, m, c) ==
  [t EXCEPT !.peers = [x \in DOMAIN t.peers \cup {m} |-> IF x = m THEN c ELSE t.peers[x]],
            !.queue = [t.queue EXCEPT ![m] = << >>]]

\* What AddPeer does to one controller.
LEMMA ControllerWithPeer ==
  ASSUME NEW t \in Controller, NEW m \in Node, NEW c \in Chan
  PROVE LET u == WithPeer(t, m, c)
        IN /\ u \in Controller /\ SameNames(t, u) /\ u.invitations = t.invitations
           /\ u.lost = t.lost
           /\ \A y : PeerChannel(u, y) = IF y = m THEN c ELSE PeerChannel(t, y)
           /\ \A y \in Node : u.queue[y] = IF y = m THEN << >> ELSE t.queue[y]
<1> DEFINE P == [x \in DOMAIN t.peers \cup {m} |-> IF x = m THEN c ELSE t.peers[x]]
           K == [t.queue EXCEPT ![m] = << >>]
           u == WithPeer(t, m, c)
<1>0. u = [t EXCEPT !.peers = P, !.queue = K]
  BY DEF WithPeer
<1>1. PICK D \in SUBSET Node : t.peers \in [D -> Chan]
  BY DEF Controller, PeerMaps
<1>2. P \in [D \cup {m} -> Chan]
  BY <1>1
<1>3. P \in PeerMaps
  BY <1>2 DEF PeerMaps
<1>4. << >> \in Seq(Events)
  OBVIOUS
<1>5. K \in [Node -> Seq(Events)] /\ \A y \in Node : K[y] = IF y = m THEN << >> ELSE t.queue[y]
  BY <1>4 DEF Controller
<1>6. \A y : (IF y \in DOMAIN P THEN P[y] ELSE NoChannel) = IF y = m THEN c ELSE PeerChannel(t, y)
  BY DEF PeerChannel
<1> HIDE DEF P, K
<1> HIDE DEF u
<1>7. u \in Controller /\ u.peers = P /\ u.queue = K
  BY <1>0, <1>3, <1>5 DEF Controller
<1>8. SameNames(t, u) /\ u.invitations = t.invitations /\ u.lost = t.lost
  BY <1>0 DEF Controller, SameNames
<1>9. \A y : PeerChannel(u, y) = IF y = m THEN c ELSE PeerChannel(t, y)
  BY <1>6, <1>7 DEF PeerChannel
<1> QED BY <1>5, <1>7, <1>8, <1>9 DEF u

PutBoth(st, n, m, P, Q) == [st EXCEPT !.ctl[n].peers = P, !.ctl[n].queue[m] = Q]
PutNested(t, m, P, Q) == [t EXCEPT !.peers = P, !.queue = [t.queue EXCEPT ![m] = Q]]

\* Two updates of one controller, as one.
LEMMA PutTwice ==
  ASSUME NEW st, st = [ctl |-> st.ctl, wire |-> st.wire, shut |-> st.shut, merge |-> st.merge],
         st.ctl \in [Node -> Controller], NEW n \in Node, NEW m \in Node, NEW P, NEW Q
  PROVE PutBoth(st, n, m, P, Q) =
          [ctl |-> [st.ctl EXCEPT ![n] = PutNested(st.ctl[n], m, P, Q)],
           wire |-> st.wire, shut |-> st.shut, merge |-> st.merge]
<1> DEFINE a == [st EXCEPT !.ctl[n].peers = P]
           b == [a EXCEPT !.ctl[n].queue[m] = Q]
           t == st.ctl[n]
           t1 == [t EXCEPT !.peers = P]
           t2 == [t1 EXCEPT !.queue[m] = Q]
           t3 == [t EXCEPT !.peers = P, !.queue = [t.queue EXCEPT ![m] = Q]]
<1>1. t \in Controller
  OBVIOUS
<1>2. t2 = t3
  BY <1>1 DEF Controller
<1>3. a = [ctl |-> [st.ctl EXCEPT ![n] = t1], wire |-> st.wire, shut |-> st.shut, merge |-> st.merge]
  OBVIOUS
<1>8. b = [st EXCEPT !.ctl[n].peers = P, !.ctl[n].queue[m] = Q]
  OBVIOUS
<1> HIDE DEF a, t1
<1>4. b = [ctl |-> [a.ctl EXCEPT ![n] = [a.ctl[n] EXCEPT !.queue[m] = Q]],
           wire |-> st.wire, shut |-> st.shut, merge |-> st.merge]
  BY <1>3
<1>5. a.ctl[n] = t1
  BY <1>3
<1>6. [a.ctl EXCEPT ![n] = t2] = [st.ctl EXCEPT ![n] = t2]
  BY <1>3
<1>7. b = [ctl |-> [st.ctl EXCEPT ![n] = t3], wire |-> st.wire, shut |-> st.shut, merge |-> st.merge]
  BY <1>2, <1>4, <1>5, <1>6
<1> QED BY <1>7, <1>8 DEF PutBoth, PutNested

\* A peer that is new.
PeerAdded(st, r, n, m, c) ==
  /\ Handler(r) /\ r.merge = st.merge /\ r.shut = st.shut
  /\ r.wire = st.wire \/ Appends(st.wire, r.wire, c, m, st.ctl[n].queue[m])
  /\ SameOthers(st.ctl, r.ctl, n) /\ SameNames(st.ctl[n], r.ctl[n])
  /\ r.ctl[n].invitations = st.ctl[n].invitations /\ r.ctl[n].lost = st.ctl[n].lost
  /\ \A y : PeerChannel(r.ctl[n], y) = IF y = m THEN c ELSE PeerChannel(st.ctl[n], y)
  /\ \A y \in Node : r.ctl[n].queue[y] = IF y = m THEN << >> ELSE st.ctl[n].queue[y]

\* What AddPeer (node_controller.cc:467) does when the peer is not known yet.
LEMMA AddPeerFacts ==
  ASSUME NEW st, Handler(st), NEW c \in DOMAIN st.wire, NEW n \in Node, NEW m \in Node,
         n # m, Ends(c) = {n, m}, PeerChannel(st.ctl[n], m) = NoChannel
  PROVE PeerAdded(st, AddPeer(st, n, m, c), n, m, c)
<1> DEFINE t == st.ctl[n]
           r == AddPeer(st, n, m, c)
           P == [x \in DOMAIN t.peers \cup {m} |-> IF x = m THEN c ELSE t.peers[x]]
           v == WithPeer(t, m, c)
           new == [st EXCEPT !.ctl[n].peers = P, !.ctl[n].queue[m] = << >>]
           D == [st.ctl EXCEPT ![n] = v]
<1>1. t \in Controller /\ c \in Chan
  BY DEF Handler, WireType
<1>2. m \notin DOMAIN t.peers
  <2>1. PICK E \in SUBSET Node : t.peers \in [E -> Chan]
    BY <1>1 DEF Controller, PeerMaps
  <2> QED BY <2>1, NoChannelIsNone DEF PeerChannel
<1>3. r = PostAll(new, n, c, t.queue[m])
  BY ZenonT(30), <1>2 DEF AddPeer
<1>4. new = [ctl |-> D, wire |-> st.wire, shut |-> st.shut, merge |-> st.merge]
  <2>1. v = [t EXCEPT !.peers = P, !.queue = [t.queue EXCEPT ![m] = << >>]]
    BY DEF WithPeer
  <2>2. t = st.ctl[n]
    OBVIOUS
  <2> HIDE DEF P, v, t
  <2>3. PICK Q : Q = << >>
    OBVIOUS
  <2>4. new = PutBoth(st, n, m, P, Q)
    BY <2>3 DEF PutBoth
  <2>5. v = PutNested(t, m, P, Q)
    BY <2>1, <2>3 DEF PutNested
  <2> HIDE DEF new
  <2> QED BY <1>1, <2>2, <2>4, <2>5, PutTwice DEF Handler
<1>5. /\ v \in Controller /\ SameNames(t, v) /\ v.invitations = t.invitations /\ v.lost = t.lost
      /\ \A y : PeerChannel(v, y) = IF y = m THEN c ELSE PeerChannel(t, y)
      /\ \A y \in Node : v.queue[y] = IF y = m THEN << >> ELSE t.queue[y]
  BY <1>1, ControllerWithPeer
<1> HIDE DEF P, v
<1>6. D \in [Node -> Controller] /\ D[n] = v /\ SameOthers(st.ctl, D, n)
  BY <1>5 DEF Handler, SameOthers
<1> HIDE DEF D
<1>7. Handler(new) /\ new.ctl = D /\ new.wire = st.wire /\ new.shut = st.shut /\ new.merge = st.merge
  BY <1>4, <1>6 DEF Handler
<1>8. t.queue[m] \in Seq(Events)
  BY <1>1 DEF Controller
<1> HIDE DEF new
<1>9. /\ Handler(r) /\ r.ctl = D /\ r.merge = st.merge /\ r.shut = st.shut
      /\ r.wire = st.wire \/ Appends(st.wire, r.wire, c, m, t.queue[m])
  BY <1>3, <1>7, <1>8, FlushFacts
<1> HIDE DEF r
<1> QED BY <1>5, <1>6, <1>9 DEF r, PeerAdded

\* A peer that is known already: the new channel is closed.
LEMMA AddPeerAgainFacts ==
  ASSUME NEW st, Handler(st), NEW c \in Chan, NEW n \in Node, NEW m \in Node,
         PeerChannel(st.ctl[n], m) # NoChannel
  PROVE LET r == AddPeer(st, n, m, c)
        IN /\ Handler(r) /\ r.ctl = st.ctl /\ r.wire = st.wire /\ r.merge = st.merge
           /\ r.shut = st.shut \cup {<<c, n>>}
<1>1. m \in DOMAIN st.ctl[n].peers
  BY DEF PeerChannel
<1>2. AddPeer(st, n, m, c) = [st EXCEPT !.shut = @ \cup {<<c, n>>}]
  BY ZenonT(30), <1>1 DEF AddPeer
<1>3. AddPeer(st, n, m, c) = [ctl |-> st.ctl, wire |-> st.wire, shut |-> st.shut \cup {<<c, n>>},
                              merge |-> st.merge]
  BY <1>2 DEF Handler
<1>4. <<c, n>> \in Chan \X Node
  OBVIOUS
<1> QED BY <1>3, <1>4 DEF Handler

\* The controller without a peer.
Without(t, name) ==
  [t EXCEPT !.peers = [x \in DOMAIN t.peers \ {name} |-> t.peers[x]],
            !.queue = [m \in Node |-> IF m = name THEN << >> ELSE t.queue[m]],
            !.invitations = @ \ {name},
            !.lost = @ \cup {name}]

\* What DropPeer does to one controller.
LEMMA ControllerWithout ==
  ASSUME NEW t \in Controller, NEW name \in Names \cup Chan
  PROVE LET u == Without(t, name)
        IN /\ u \in Controller /\ SameNames(t, u)
           /\ u.invitations = t.invitations \ {name} /\ u.lost = t.lost \cup {name}
           /\ \A y : PeerChannel(u, y) = IF y = name THEN NoChannel ELSE PeerChannel(t, y)
           /\ \A y \in Node : u.queue[y] = IF y = name THEN << >> ELSE t.queue[y]
<1> DEFINE P == [x \in DOMAIN t.peers \ {name} |-> t.peers[x]]
           K == [m \in Node |-> IF m = name THEN << >> ELSE t.queue[m]]
           I == t.invitations \ {name}
           L == t.lost \cup {name}
           u == Without(t, name)
<1>0. u = [t EXCEPT !.peers = P, !.queue = K, !.invitations = I, !.lost = L]
  BY DEF Without
<1>1. PICK D \in SUBSET Node : t.peers \in [D -> Chan]
  BY DEF Controller, PeerMaps
<1>2. P \in [D \ {name} -> Chan]
  BY <1>1
<1>3. P \in PeerMaps
  BY <1>2 DEF PeerMaps
<1>4. << >> \in Seq(Events)
  OBVIOUS
<1>5. K \in [Node -> Seq(Events)] /\ \A y \in Node : K[y] = IF y = name THEN << >> ELSE t.queue[y]
  BY <1>4 DEF Controller
<1>6. I \in SUBSET Chan /\ L \in SUBSET (Names \cup Chan)
  BY DEF Controller
<1>7. \A y : (IF y \in DOMAIN P THEN P[y] ELSE NoChannel) = IF y = name THEN NoChannel ELSE PeerChannel(t, y)
  BY DEF PeerChannel
<1> HIDE DEF P, K, u
<1>8. u \in Controller /\ u.peers = P /\ u.queue = K /\ u.invitations = I /\ u.lost = L
  BY <1>0, <1>3, <1>5, <1>6 DEF Controller
<1>9. SameNames(t, u)
  BY <1>0 DEF Controller, SameNames
<1>10. \A y : PeerChannel(u, y) = IF y = name THEN NoChannel ELSE PeerChannel(t, y)
  BY <1>7, <1>8 DEF PeerChannel
<1> QED BY <1>5, <1>8, <1>9, <1>10 DEF u

PutFour(st, n, P, Q, I, L, S) ==
  [st EXCEPT !.ctl[n].peers = P, !.ctl[n].queue = Q, !.ctl[n].invitations = I,
             !.ctl[n].lost = L, !.shut = S]

PutParts(t, P, Q, I, L) ==
  [t EXCEPT !.peers = P, !.queue = Q, !.invitations = I, !.lost = L]

\* The updates of DropPeer, as one.
LEMMA PutFourIs ==
  ASSUME NEW st, st = [ctl |-> st.ctl, wire |-> st.wire, shut |-> st.shut, merge |-> st.merge],
         st.ctl \in [Node -> Controller], NEW n \in Node, NEW P, NEW Q, NEW I, NEW L, NEW S
  PROVE PutFour(st, n, P, Q, I, L, S) =
          [ctl |-> [st.ctl EXCEPT ![n] = PutParts(st.ctl[n], P, Q, I, L)],
           wire |-> st.wire, shut |-> S, merge |-> st.merge]
<1> DEFINE t == st.ctl[n]
           a1 == [st EXCEPT !.ctl[n].peers = P]
           a2 == [a1 EXCEPT !.ctl[n].queue = Q]
           a3 == [a2 EXCEPT !.ctl[n].invitations = I]
           a4 == [a3 EXCEPT !.ctl[n].lost = L]
           a5 == [a4 EXCEPT !.shut = S]
           t1 == [t EXCEPT !.peers = P]
           t2 == [t1 EXCEPT !.queue = Q]
           t3 == [t2 EXCEPT !.invitations = I]
           t4 == [t3 EXCEPT !.lost = L]
<1>1. a5 = PutFour(st, n, P, Q, I, L, S)
  BY DEF PutFour
<1>2. t4 = PutParts(st.ctl[n], P, Q, I, L)
  BY DEF PutParts
<1>3. a1 = [ctl |-> [st.ctl EXCEPT ![n] = t1], wire |-> st.wire, shut |-> st.shut, merge |-> st.merge]
  OBVIOUS
<1> HIDE DEF a1, t1
<1>4. a2 = [ctl |-> [st.ctl EXCEPT ![n] = t2], wire |-> st.wire, shut |-> st.shut, merge |-> st.merge]
  BY <1>3
<1> HIDE DEF a2, t2
<1>5. a3 = [ctl |-> [st.ctl EXCEPT ![n] = t3], wire |-> st.wire, shut |-> st.shut, merge |-> st.merge]
  BY <1>4
<1> HIDE DEF a3, t3
<1>6. a4 = [ctl |-> [st.ctl EXCEPT ![n] = t4], wire |-> st.wire, shut |-> st.shut, merge |-> st.merge]
  BY <1>5
<1> HIDE DEF a4, t4
<1>7. a5 = [ctl |-> [st.ctl EXCEPT ![n] = t4], wire |-> st.wire, shut |-> S, merge |-> st.merge]
  BY <1>6
<1> QED BY <1>1, <1>2, <1>7

\* Node n has dropped what it knows under a name, and its end of channel c.
PeerDropped(st, r, n, name, c) ==
  /\ Handler(r) /\ r.wire = st.wire
  /\ \A s : s \in r.shut <=> \/ s \in st.shut
                             \/ c # NoChannel /\ s = <<c, n>>
                             \/ /\ PeerChannel(st.ctl[n], name) # NoChannel
                                /\ s = <<PeerChannel(st.ctl[n], name), n>>
  /\ SameOthers(st.ctl, r.ctl, n) /\ SameNames(st.ctl[n], r.ctl[n])
  /\ r.ctl[n].invitations = st.ctl[n].invitations \ {name}
  /\ r.ctl[n].lost = st.ctl[n].lost \cup {name}
  /\ \A y : PeerChannel(r.ctl[n], y) = IF y = name THEN NoChannel ELSE PeerChannel(st.ctl[n], y)
  /\ \A y \in Node : r.ctl[n].queue[y] = IF y = name THEN << >> ELSE st.ctl[n].queue[y]
  /\ \A x \in Node : r.merge[x] = st.merge[x] \/ r.merge[x] = "closed"

\* What DropPeer (node_controller.cc:510) does.
LEMMA DropPeerFacts ==
  ASSUME NEW st, Handler(st), NEW n \in Node, NEW name \in Names \cup Chan,
         NEW c \in Chan \cup {NoChannel}
  PROVE PeerDropped(st, DropPeer(st, n, name, c), n, name, c)
<1> DEFINE t == st.ctl[n]
           old == PeerChannel(t, name)
           r == DropPeer(st, n, name, c)
           P == [x \in DOMAIN t.peers \ {name} |-> t.peers[x]]
           K == [m \in Node |-> IF m = name THEN << >> ELSE t.queue[m]]
           I == t.invitations \ {name}
           L == t.lost \cup {name}
           S == st.shut \cup {<<x, n>> : x \in {old, c} \ {NoChannel}}
           d == PutFour(st, n, P, K, I, L, S)
           v == Without(t, name)
           D == [st.ctl EXCEPT ![n] = v]
<1>1. t \in Controller
  BY DEF Handler
<1>2. r = IF name = t.inviter \/ (c # NoChannel /\ c = t.boot)
          THEN CancelPendingPortMerges(d, n) ELSE d
  BY DEF DropPeer, PutFour, Handler
<1>3. v = PutParts(t, P, K, I, L)
  BY DEF Without, PutParts
<1>4. /\ v \in Controller /\ SameNames(t, v)
      /\ v.invitations = t.invitations \ {name} /\ v.lost = t.lost \cup {name}
      /\ \A y : PeerChannel(v, y) = IF y = name THEN NoChannel ELSE PeerChannel(t, y)
      /\ \A y \in Node : v.queue[y] = IF y = name THEN << >> ELSE t.queue[y]
  BY <1>1, ControllerWithout
<1>5. \A s : s \in S <=> \/ s \in st.shut
                         \/ c # NoChannel /\ s = <<c, n>>
                         \/ old # NoChannel /\ s = <<old, n>>
  OBVIOUS
<1>6. old \in Chan \cup {NoChannel}
  <2>1. PICK E \in SUBSET Node : t.peers \in [E -> Chan]
    BY <1>1 DEF Controller, PeerMaps
  <2> QED BY <2>1 DEF PeerChannel
<1>7. S \subseteq Chan \X Node
  BY <1>6 DEF Handler
<1> HIDE DEF P, K, I, L, S, v
<1>8. d = [ctl |-> D, wire |-> st.wire, shut |-> S, merge |-> st.merge]
  <2>1. st = [ctl |-> st.ctl, wire |-> st.wire, shut |-> st.shut, merge |-> st.merge]
        /\ st.ctl \in [Node -> Controller]
    BY DEF Handler
  <2> QED BY <1>3, <2>1, PutFourIs
<1>9. D \in [Node -> Controller] /\ D[n] = v /\ SameOthers(st.ctl, D, n)
  BY <1>4 DEF Handler, SameOthers
<1> HIDE DEF d, D
<1>10. Handler(d) /\ d.ctl = D /\ d.wire = st.wire /\ d.shut = S /\ d.merge = st.merge
  BY <1>7, <1>8, <1>9 DEF Handler
<1>11. CASE r = d
  <2> HIDE DEF r
  <2>1. Handler(r) /\ r.ctl = D /\ r.wire = st.wire /\ r.shut = S /\ r.merge = st.merge
    BY <1>10, <1>11
  <2> HIDE DEF old, t
  <2> QED BY <1>4, <1>5, <1>9, <2>1 DEF r, old, t, PeerDropped
<1>12. CASE r = CancelPendingPortMerges(d, n)
  <2> DEFINE u == [v EXCEPT !.reject = TRUE]
             G == [st.merge EXCEPT ![n] = IF @ = "pending" THEN "closed" ELSE @]
             E == [D EXCEPT ![n] = u]
  <2>1. r = [ctl |-> E, wire |-> st.wire, shut |-> S, merge |-> G]
    BY <1>8, <1>9, <1>10, <1>12 DEF CancelPendingPortMerges
  <2>2. u \in Controller /\ SameNames(v, u) /\ u.invitations = v.invitations /\ u.lost = v.lost
        /\ u.peers = v.peers /\ u.queue = v.queue
    BY <1>4 DEF Controller, SameNames
  <2>3. \A y : PeerChannel(u, y) = PeerChannel(v, y)
    BY <2>2 DEF PeerChannel
  <2>4. SameNames(t, u)
    BY <1>4, <2>2 DEF SameNames
  <2> HIDE DEF u
  <2>5. E \in [Node -> Controller] /\ E[n] = u /\ SameOthers(st.ctl, E, n)
    BY <1>9, <2>2 DEF SameOthers
  <2>6. G \in [Node -> Merging] /\ \A x \in Node : G[x] = st.merge[x] \/ G[x] = "closed"
    BY DEF Handler, Merging
  <2> HIDE DEF E, G, r
  <2>7. Handler(r) /\ r.ctl = E /\ r.wire = st.wire /\ r.shut = S /\ r.merge = G
    BY <1>7, <2>1, <2>5, <2>6 DEF Handler
  <2> HIDE DEF old, t
  <2> QED BY <1>4, <1>5, <2>2, <2>3, <2>4, <2>5, <2>6, <2>7 DEF r, old, t, PeerDropped
<1> QED BY <1>2, <1>11, <1>12

-----------------------------------------------------------------------------
(***************************************************************************)
(* The invariant, as predicates on controllers C, wire W, shut ends S and  *)
(* living processes A.                                                     *)
(***************************************************************************)
Peer(C, n, m)  == PeerChannel(C[n], m)
IsClient(C, n) == n = Broker \/ C[n].broker # NoNode
On(W, c, e, x) == In(Queue(W, c, e), x)
OneOn(W, c, e, x) == Once(Queue(W, c, e), x)

\* Which messages travel on which channels.
Fits(c, e, x) ==
  \/ x \in Events
  \/ \E m \in Guests : c = Invitation(m) /\ e = m /\ (x = Hello(m) \/ x = Welcome(m))
  \/ \E m \in Guests : c = Invitation(m) /\ e = Inviter[m] /\ (x = Reply(m) \/ x = MergeReq(m))
  \/ \E n, m \in Guests : c = Via(n) /\ e = Broker /\
       ((x = AskFor(m) /\ Inviter[m] = n) \/ (x = IntroReq(m) /\ m # n))
  \/ \E n, m \in Guests : c = Via(n) /\ e = n /\
       ((x = Added(m) /\ Inviter[m] = n) \/ (x = Unknown(m) /\ m # n))
  \/ \E n, m \in Guests : c = Via(n) /\ e = n /\ m # n /\
       \E d \in Between(n, m) : x = Meet(n, m, d)

AllFit(W) == \A c, e, x : On(W, c, e, x) => Fits(c, e, x)

\* The channels the broker has made for introductions n has asked for.
IntrosOf(W, n) == {c \in DOMAIN W : c[1] = "intro" /\ c[2] = n}

\* A new introduction gets a channel of its own.
Numbered(W) ==
  /\ IsFiniteSet(DOMAIN W)
  /\ \A n, m, k : <<"intro", n, m, k>> \in DOMAIN W => k < Cardinality(IntrosOf(W, n))

\* The names a process has for its inviter, its broker and its invitees.
NameOK(C, W, m) ==
  /\ C[m].inviter \in {NoNode, Inviter[m]} /\ C[m].broker \in {NoNode, Broker}
  /\ C[m].boot \in {NoChannel, Invitation(m)}
  /\ C[m].inviter # NoNode \/ C[m].boot # NoChannel => Invitation(m) \in DOMAIN W
  /\ C[m].broker # NoNode => C[m].inviter # NoNode /\ C[m].boot = NoChannel /\ Via(m) \in DOMAIN W
  /\ C[m].inviter # NoNode /\ C[m].broker = NoNode => C[m].boot = Invitation(m)
  /\ Invitation(m) \in DOMAIN W =>
       /\ Inviter[m] # m
       /\ Inviter[m] # Broker =>
            /\ Inviter[Inviter[m]] # m
            /\ IsClient(C, Inviter[m]) \/ C[Inviter[m]].boot = Invitation(Inviter[m])
NamesOK(C, W) ==
  /\ \A m \in Guests : NameOK(C, W, m)
  /\ C[Broker].inviter = NoNode /\ C[Broker].boot = NoChannel /\ C[Broker].broker = NoNode
  /\ \A n \in Node : \A c \in C[n].invitations :
       c \in DOMAIN W /\ \E m \in Guests : Inviter[m] = n /\ c = Invitation(m)

\* The channel to a peer was made for the two.
PeerOK(C, W, n, m) ==
  LET c == Peer(C, n, m)
  IN c # NoChannel =>
       /\ c \in DOMAIN W /\ n # m
       /\ \/ m # Broker /\ Inviter[m] = n /\ c = Invitation(m) /\ c \notin C[n].invitations
          \/ n # Broker /\ Inviter[n] = m /\ c = Invitation(n) /\ IsClient(C, n)
          \/ n = Broker /\ Inviter[m] # Broker /\ c = Client(m)
          \/ m = Broker /\ Inviter[n] # Broker /\ c = Client(n) /\ IsClient(C, n)
          \/ /\ n # Broker /\ m # Broker /\ c \in Between(n, m)
             /\ IsClient(C, n) /\ IsClient(C, m)
PeersOK(C, W) == \A n, m \in Node : PeerOK(C, W, n, m)

\* The end of the broker's channel that is for m is on its way to m.
Token(C, W, S, A, m) ==
  /\ ~IsClient(C, m) /\ C[m].inviter # NoNode
  /\ Invitation(m) \notin C[Inviter[m]].invitations
  /\ Inviter[m] # Broker =>
       /\ Client(m) \in DOMAIN W /\ <<Client(m), m>> \notin S
       /\ m \in A => Peer(C, Broker, m) = Client(m) /\ <<Client(m), Broker>> \notin S

\* The stages of an invitation.
StageOK(C, W, S, A, m) ==
  LET i == Inviter[m]
      c == Invitation(m)
  IN /\ OneOn(W, c, m, Hello(m))
     /\ On(W, c, m, Hello(m)) => C[m].inviter = NoNode
     /\ c \in DOMAIN W /\ C[m].inviter = NoNode /\ <<c, i>> \notin S => c \in C[i].invitations
     /\ OneOn(W, c, i, Reply(m))
     /\ On(W, c, i, Reply(m)) => C[m].inviter # NoNode /\ c \in C[i].invitations
     /\ OneOn(W, c, m, Welcome(m))
     /\ On(W, c, m, Welcome(m)) => Token(C, W, S, A, m)
     /\ IsClient(C, m) => c \notin C[i].invitations
     /\ Client(m) \in DOMAIN W =>
          i # Broker /\ c \in DOMAIN W /\ c \notin C[i].invitations /\ C[m].inviter # NoNode
     /\ i # Broker =>
          /\ OneOn(W, Via(i), Broker, AskFor(m))
          /\ On(W, Via(i), Broker, AskFor(m)) =>
               /\ Client(m) \notin DOMAIN W /\ IsClient(C, i)
               /\ C[m].inviter # NoNode /\ c \notin C[i].invitations
          /\ OneOn(W, Via(i), i, Added(m))
          /\ On(W, Via(i), i, Added(m)) =>
               Token(C, W, S, A, m) /\ ~On(W, c, m, Welcome(m)) /\ IsClient(C, i)
StagesOK(C, W, S, A) == \A m \in Guests : StageOK(C, W, S, A, m)

\* What living processes have of each other.
LinkOK(C, W, S, A, m) ==
  LET i == Inviter[m]
      c == Invitation(m)
  IN m \in A =>
       /\ c \in DOMAIN W /\ i \in A =>
            /\ <<c, i>> \notin S /\ <<c, m>> \notin S
            /\ c \notin C[i].invitations => Peer(C, i, m) = c
            /\ IsClient(C, m) => Peer(C, m, i) = c
       /\ IsClient(C, m) =>
            /\ Peer(C, Broker, m) = Via(m) /\ Peer(C, m, Broker) = Via(m)
            /\ <<Via(m), m>> \notin S /\ <<Via(m), Broker>> \notin S
LinksOK(C, W, S, A) == \A m \in Guests : LinkOK(C, W, S, A, m)

\* Introductions are about clients of the broker.
AsksOK(C, W, A) ==
  /\ \A n, m : On(W, Via(n), Broker, IntroReq(m)) => IsClient(C, n) /\ IsClient(C, m)
  /\ \A n, m : On(W, Via(n), n, Unknown(m)) => IsClient(C, n) /\ IsClient(C, m) /\ m \notin A
  /\ \A n, m, d : On(W, Via(n), n, Meet(n, m, d)) =>
       /\ IsClient(C, n) /\ IsClient(C, m) /\ d \in DOMAIN W
       /\ OneOn(W, Via(n), n, Meet(n, m, d)) /\ \A y \in Node : Peer(C, n, y) # d
WaitsOK(C, F, G) ==
  /\ \A p \in Talks : F[p].at # "idle" =>
       /\ p[1] \in Guests /\ p[2] \in Guests /\ IsClient(C, p[1]) /\ IsClient(C, p[2])
       /\ F[p].via = Via(p[1])
  /\ \A n, m \in Node : C[n].queue[m] # << >> =>
       IsClient(C, n) /\ IsClient(C, m) /\ Peer(C, n, m) = NoChannel
  /\ \A m \in Node : G[m] = "sending" => m # Broker /\ IsClient(C, m)

\* What waits for an introduction is waited for.
Await(W, F, n, m) ==
  \/ \E p \in Talks : p[1] = n /\ p[2] = m /\ F[p].at = "asking"
  \/ On(W, Via(n), Broker, IntroReq(m))
  \/ On(W, Via(n), n, Unknown(m))
  \/ \E d : On(W, Via(n), n, Meet(n, m, d))
AwaitsOK(C, W, F, A) ==
  \A n \in A : \A m \in Node : C[n].queue[m] # << >> => Await(W, F, n, m)

\* The processes that a living one has declared lost.
LostOK(C, S, A) ==
  \A n \in A : \A x \in C[n].lost \cap Node :
    x \notin A \/ (n = Broker /\ x \in Guests /\ Inviter[x] # Broker
                   /\ <<Client(x), x>> \in S /\ ~IsClient(C, x))

\* The channel that n has for m, or will take when it reads its messages.
IntroMsg(x, m) == x.type = "Introduce" /\ x.name = m /\ x.ch # NoChannel
First(s, m, c) ==
  \E i \in DOMAIN s : /\ IntroMsg(s[i], m) /\ s[i].ch = c
                      /\ \A j \in 1 .. (i - 1) : ~IntroMsg(s[j], m)
Meets(C, W, n, m, c) ==
  IF Peer(C, n, m) # NoChannel THEN c = Peer(C, n, m)
  ELSE First(Queue(W, Via(n), n), m, c)

\* Two processes that only the broker can bring together.
Apart(n, m) == n \in Guests /\ m \in Guests /\ n # m /\ Inviter[n] # m /\ Inviter[m] # n

MeetsOK(C, W, S, A) ==
  \A n, m \in A : Apart(n, m) =>
    \A c : Meets(C, W, n, m, c) => Meets(C, W, m, n, c) /\ <<c, n>> \notin S

Inv ==
  /\ Typed
  /\ AllFit(wire) /\ Numbered(wire) /\ \A s \in shut : s[1] \in DOMAIN wire
  /\ NamesOK(ctl, wire)
  /\ PeersOK(ctl, wire)
  /\ StagesOK(ctl, wire, shut, alive)
  /\ LinksOK(ctl, wire, shut, alive)
  /\ AsksOK(ctl, wire, alive)
  /\ WaitsOK(ctl, send, merge)
  /\ AwaitsOK(ctl, wire, send, alive)
  /\ LostOK(ctl, shut, alive)
  /\ MeetsOK(ctl, wire, shut, alive)

\* As long as the broker lives.
BrokerInv == Broker \in alive => Inv

-----------------------------------------------------------------------------
(***************************************************************************)
(* How messages come and go.                                               *)
(***************************************************************************)
\* From wire v to w only the messages of X, and events, are new.
Moves(v, w, X) ==
  /\ \A a, b, y : On(w, a, b, y) => On(v, a, b, y) \/ <<a, b, y>> \in X \/ y \in Events
  /\ \A a, b, y : OneOn(v, a, b, y) /\ y \notin Events
                    /\ (<<a, b, y>> \in X => ~On(v, a, b, y)) => OneOn(w, a, b, y)

\* No introduction comes or goes.
Calm(v, w) == \A a, b, m, c : First(Queue(w, a, b), m, c) <=> First(Queue(v, a, b), m, c)

\* Only the first message of channel c for n goes.
Keeps(v, w, c, n) ==
  \A a, b, y : On(v, a, b, y) => On(w, a, b, y) \/ (a = c /\ b = n /\ y = Head(Queue(v, c, n)))

\* What waits at an end is a sequence of messages.
LEMMA QueueType ==
  ASSUME NEW w, WireType(w), NEW c, NEW e
  PROVE Queue(w, c, e) \in Seq(Message)
  BY DEF Queue, WireType

\* A message waits only at an end of a channel that exists.
LEMMA OnFacts ==
  ASSUME NEW w, WireType(w), NEW c, NEW e, NEW x, On(w, c, e, x)
  PROVE c \in DOMAIN w /\ e \in Ends(c)
  BY InNone DEF On, Queue, WireType

\* Taking a message keeps the first introduction behind it.
LEMMA FirstTail ==
  ASSUME NEW s \in Seq(Message), s # << >>, NEW m, NEW c
  PROVE /\ ~IntroMsg(Head(s), m) => (First(Tail(s), m, c) <=> First(s, m, c))
        /\ IntroMsg(Head(s), m) => (First(s, m, c) <=> c = Head(s).ch)
<1>1. /\ Len(s) \in Nat \ {0} /\ Tail(s) \in Seq(Message) /\ Len(Tail(s)) = Len(s) - 1
      /\ \A i \in 1 .. Len(s) - 1 : Tail(s)[i] = s[i + 1]
      /\ Head(s) = s[1] /\ DOMAIN s = 1 .. Len(s) /\ DOMAIN Tail(s) = 1 .. (Len(s) - 1)
  OBVIOUS
<1>2. ASSUME ~IntroMsg(s[1], m), First(Tail(s), m, c) PROVE First(s, m, c)
  <2>1. PICK i \in 1 .. Len(s) - 1 : /\ IntroMsg(Tail(s)[i], m) /\ Tail(s)[i].ch = c
                                     /\ \A j \in 1 .. (i - 1) : ~IntroMsg(Tail(s)[j], m)
    BY <1>1, <1>2 DEF First
  <2>2. i + 1 \in DOMAIN s /\ IntroMsg(s[i + 1], m) /\ s[i + 1].ch = c
    BY <1>1, <2>1
  <2>3. ASSUME NEW j \in 1 .. i PROVE ~IntroMsg(s[j], m)
    <3>1. CASE j = 1
      BY <1>2, <3>1
    <3>2. CASE j # 1
      <4>1. j - 1 \in 1 .. (i - 1) /\ j - 1 \in 1 .. Len(s) - 1 /\ (j - 1) + 1 = j
        BY <1>1, <3>2
      <4>2. Tail(s)[j - 1] = s[j]
        BY <1>1, <4>1
      <4> QED BY <2>1, <4>1, <4>2
    <3> QED BY <3>1, <3>2
  <2>4. (i + 1) - 1 = i
    BY <1>1
  <2> QED BY <2>2, <2>3, <2>4 DEF First
<1>3. ASSUME ~IntroMsg(s[1], m), First(s, m, c) PROVE First(Tail(s), m, c)
  <2>1. PICK i \in 1 .. Len(s) : /\ IntroMsg(s[i], m) /\ s[i].ch = c
                                 /\ \A j \in 1 .. (i - 1) : ~IntroMsg(s[j], m)
    BY <1>1, <1>3 DEF First
  <2>2. i # 1
    BY <1>3, <2>1
  <2>3. i - 1 \in 1 .. Len(s) - 1 /\ Tail(s)[i - 1] = s[i]
    BY <1>1, <2>2
  <2>4. ASSUME NEW j \in 1 .. ((i - 1) - 1) PROVE ~IntroMsg(Tail(s)[j], m)
    <3>1. j + 1 \in 1 .. (i - 1) /\ j \in 1 .. Len(s) - 1
      BY <1>1
    <3> QED BY <1>1, <2>1, <3>1
  <2> QED BY <1>1, <2>1, <2>3, <2>4 DEF First
<1>4. ASSUME IntroMsg(s[1], m), First(s, m, c) PROVE c = s[1].ch
  <2>1. PICK i \in 1 .. Len(s) : /\ IntroMsg(s[i], m) /\ s[i].ch = c
                                 /\ \A j \in 1 .. (i - 1) : ~IntroMsg(s[j], m)
    BY <1>1, <1>4 DEF First
  <2>2. i = 1
    BY <1>1, <1>4, <2>1
  <2> QED BY <2>1, <2>2
<1>5. ASSUME IntroMsg(s[1], m), c = s[1].ch PROVE First(s, m, c)
  <2>1. 1 \in DOMAIN s /\ \A j \in 1 .. (1 - 1) : FALSE
    BY <1>1
  <2> QED BY <1>5, <2>1 DEF First
<1> QED BY <1>1, <1>2, <1>3, <1>4, <1>5

\* Messages that introduce nobody do not change the first introduction.
LEMMA FirstConcat ==
  ASSUME NEW s \in Seq(Message), NEW t \in Seq(Message), NEW m, NEW c,
         \A i \in DOMAIN t : ~IntroMsg(t[i], m)
  PROVE First(s \o t, m, c) <=> First(s, m, c)
<1>1. /\ Len(s) \in Nat /\ Len(t) \in Nat /\ s \o t \in Seq(Message)
      /\ DOMAIN s = 1 .. Len(s) /\ DOMAIN t = 1 .. Len(t)
      /\ DOMAIN (s \o t) = 1 .. (Len(s) + Len(t))
      /\ \A i \in 1 .. (Len(s) + Len(t)) :
            (s \o t)[i] = IF i <= Len(s) THEN s[i] ELSE t[i - Len(s)]
  OBVIOUS
<1>2. ASSUME First(s, m, c) PROVE First(s \o t, m, c)
  <2>1. PICK i \in 1 .. Len(s) : /\ IntroMsg(s[i], m) /\ s[i].ch = c
                                 /\ \A j \in 1 .. (i - 1) : ~IntroMsg(s[j], m)
    BY <1>1, <1>2 DEF First
  <2>2. i \in DOMAIN (s \o t) /\ (s \o t)[i] = s[i]
    BY <1>1
  <2>3. \A j \in 1 .. (i - 1) : (s \o t)[j] = s[j]
    BY <1>1
  <2> QED BY <2>1, <2>2, <2>3 DEF First
<1>3. ASSUME First(s \o t, m, c) PROVE First(s, m, c)
  <2>1. PICK i \in 1 .. (Len(s) + Len(t)) :
               /\ IntroMsg((s \o t)[i], m) /\ (s \o t)[i].ch = c
               /\ \A j \in 1 .. (i - 1) : ~IntroMsg((s \o t)[j], m)
    BY <1>1, <1>3 DEF First
  <2>2. i <= Len(s)
    <3>1. SUFFICES ASSUME ~(i <= Len(s)) PROVE FALSE
      OBVIOUS
    <3>2. i - Len(s) \in DOMAIN t /\ (s \o t)[i] = t[i - Len(s)]
      BY <1>1, <3>1
    <3> QED BY <2>1, <3>2
  <2>3. i \in DOMAIN s /\ (s \o t)[i] = s[i]
    BY <1>1, <2>2
  <2>4. \A j \in 1 .. (i - 1) : (s \o t)[j] = s[j]
    BY <1>1, <2>2
  <2> QED BY <2>1, <2>3, <2>4 DEF First
<1> QED BY <1>2, <1>3

\* A set of numbers that is not empty has a least one.
IsLess(R, N) == \A x, y \in N : <<x, y>> \in R <=> x < y

\* A well-founded relation has minimal elements in every set that is not empty.
LEMMA MinimalIn ==
  ASSUME NEW R, NEW S, NEW T, IsWellFoundedOn(R, S), T \subseteq S, T # {}
  PROVE \E x \in T : \A y \in T : ~(<<y, x>> \in R)
  BY WFMin

\* A relation that is < on the numbers of N has least elements.
LEMMA LeastIn ==
  ASSUME NEW R, NEW N, NEW T, IsWellFoundedOn(R, N), N \subseteq Nat, IsLess(R, N),
         T \subseteq N, T # {}
  PROVE \E x \in T : \A y \in T : x <= y
<1>1. PICK x \in T : \A y \in T : ~(<<y, x>> \in R)
  BY MinimalIn
<1>2. ASSUME NEW y \in T PROVE x <= y
  <2>1. x \in Nat /\ y \in Nat /\ ~(y < x)
    BY <1>1 DEF IsLess
  <2> QED BY <2>1
<1> QED BY <1>2

\* Every set of numbers that is not empty has a least element.
LEMMA LeastOf ==
  ASSUME NEW T, T \subseteq Nat, T # {}
  PROVE \E x \in T : \A y \in T : x <= y
<1>1. IsLess(OpToRel(<, Nat), Nat)
  BY DEF OpToRel, IsLess
<1>2. Nat \subseteq Nat
  OBVIOUS
<1> QED BY <1>1, <1>2, NatLessThanWellFounded, LeastIn, Zenon

\* Where there is an introduction there is a first one.
LEMMA FirstExists ==
  ASSUME NEW s \in Seq(Message), NEW m, NEW k \in DOMAIN s, IntroMsg(s[k], m)
  PROVE \E c : First(s, m, c)
<1> DEFINE T == {i \in DOMAIN s : IntroMsg(s[i], m)}
<1>1. T \subseteq Nat /\ T # {}
  OBVIOUS
<1>2. PICK i \in T : \A j \in T : i <= j
  BY <1>1, LeastOf
<1>3. ASSUME NEW j \in 1 .. (i - 1) PROVE ~IntroMsg(s[j], m)
  <2>1. i \in Nat /\ i \in DOMAIN s /\ DOMAIN s = 1 .. Len(s) /\ Len(s) \in Nat
    BY <1>1
  <2>2. j \in DOMAIN s /\ ~(i <= j)
    BY <2>1
  <2> QED BY <1>2, <2>2
<1>4. First(s, m, s[i].ch)
  BY <1>2, <1>3 DEF First
<1> QED BY <1>4

\* An introduction at the end is the first one if there was none.
LEMMA FirstNew ==
  ASSUME NEW s \in Seq(Message), NEW x \in Message, NEW m, IntroMsg(x, m), NEW c
  PROVE /\ (\E d : First(s, m, d)) => (First(s \o <<x>>, m, c) <=> First(s, m, c))
        /\ ~(\E d : First(s, m, d)) => (First(s \o <<x>>, m, c) <=> c = x.ch)
<1> DEFINE z == s \o <<x>>
<1>1. /\ Len(s) \in Nat /\ z \in Seq(Message) /\ DOMAIN s = 1 .. Len(s)
      /\ DOMAIN z = 1 .. (Len(s) + 1) /\ z[Len(s) + 1] = x
      /\ \A i \in 1 .. Len(s) : z[i] = s[i]
  OBVIOUS
<1> HIDE DEF z
<1>2. ASSUME First(s, m, c) PROVE First(z, m, c)
  <2>1. PICK i \in 1 .. Len(s) : /\ IntroMsg(s[i], m) /\ s[i].ch = c
                                 /\ \A j \in 1 .. (i - 1) : ~IntroMsg(s[j], m)
    BY <1>1, <1>2 DEF First
  <2>2. i \in DOMAIN z /\ z[i] = s[i] /\ \A j \in 1 .. (i - 1) : z[j] = s[j]
    BY <1>1
  <2> QED BY <2>1, <2>2 DEF First
<1>3. ASSUME NEW d, First(s, m, d), First(z, m, c) PROVE First(s, m, c)
  <2>1. PICK i \in 1 .. (Len(s) + 1) : /\ IntroMsg(z[i], m) /\ z[i].ch = c
                                       /\ \A j \in 1 .. (i - 1) : ~IntroMsg(z[j], m)
    BY <1>1, <1>3 DEF First
  <2>2. PICK k \in 1 .. Len(s) : IntroMsg(s[k], m)
    BY <1>1, <1>3 DEF First
  <2>3. i # Len(s) + 1
    <3>1. SUFFICES ASSUME i = Len(s) + 1 PROVE FALSE
      OBVIOUS
    <3>2. k \in 1 .. (i - 1) /\ z[k] = s[k]
      BY <1>1, <3>1
    <3> QED BY <2>1, <2>2, <3>2
  <2>4. i \in 1 .. Len(s) /\ z[i] = s[i] /\ \A j \in 1 .. (i - 1) : z[j] = s[j]
    BY <1>1, <2>3
  <2> QED BY <1>1, <2>1, <2>4 DEF First
<1>4. ASSUME ~(\E d : First(s, m, d)), First(z, m, c) PROVE c = x.ch
  <2>1. PICK i \in 1 .. (Len(s) + 1) : IntroMsg(z[i], m) /\ z[i].ch = c
    BY <1>1, <1>4 DEF First
  <2>2. i = Len(s) + 1
    <3>1. SUFFICES ASSUME i # Len(s) + 1 PROVE FALSE
      OBVIOUS
    <3>2. i \in DOMAIN s /\ z[i] = s[i]
      BY <1>1, <3>1
    <3> QED BY <1>4, <2>1, <3>2, FirstExists
  <2> QED BY <1>1, <2>1, <2>2
<1>5. ASSUME ~(\E d : First(s, m, d)), c = x.ch PROVE First(z, m, c)
  <2>1. \A j \in 1 .. Len(s) : ~IntroMsg(s[j], m)
    BY <1>1, <1>5, FirstExists
  <2>2. Len(s) + 1 \in DOMAIN z /\ (Len(s) + 1) - 1 = Len(s)
    BY <1>1
  <2>3. \A j \in 1 .. ((Len(s) + 1) - 1) : ~IntroMsg(z[j], m)
    BY <1>1, <2>1, <2>2
  <2> QED BY <1>1, <1>5, <2>2, <2>3 DEF First
<1> QED BY <1>2, <1>3, <1>4, <1>5 DEF z

\* Taking the head of a queue sends nothing and loses only the head.
LEMMA MovesTake ==
  ASSUME NEW v, WireType(v), NEW w, NEW c, NEW e, Takes(v, w, c, e), Queue(v, c, e) # << >>
  PROVE /\ Moves(v, w, {}) /\ Keeps(v, w, c, e)
        /\ OneOn(v, c, e, Head(Queue(v, c, e))) => ~On(w, c, e, Head(Queue(v, c, e)))
        /\ (\A m : ~IntroMsg(Head(Queue(v, c, e)), m)) => Calm(v, w)
<1> DEFINE s == Queue(v, c, e)
<1>1. s \in Seq(Message)
  BY QueueType
<1>2. \A a, b : Queue(w, a, b) = IF a = c /\ b = e THEN Tail(s) ELSE Queue(v, a, b)
  BY DEF Takes
<1> HIDE DEF s
<1>3. s = Queue(v, c, e)
  BY DEF s
<1>4. \A y : /\ In(Tail(s), y) => In(s, y)
             /\ In(s, y) /\ y # Head(s) => In(Tail(s), y)
             /\ Once(s, y) => Once(Tail(s), y)
  BY <1>1, <1>3, InTail
<1>5. Moves(v, w, {})
  BY <1>2, <1>3, <1>4 DEF Moves, On, OneOn
<1>6. Keeps(v, w, c, e)
  BY <1>2, <1>3, <1>4 DEF Keeps, On
<1>7. OneOn(v, c, e, Head(s)) => ~On(w, c, e, Head(s))
  BY <1>1, <1>2, <1>3, InTail DEF On, OneOn
<1>8. ASSUME \A m : ~IntroMsg(Head(s), m) PROVE Calm(v, w)
  <2>1. \A m, d : First(Tail(s), m, d) <=> First(s, m, d)
    BY <1>1, <1>3, <1>8, FirstTail
  <2> QED BY <1>2, <1>3, <2>1 DEF Calm
<1> QED BY <1>3, <1>5, <1>6, <1>7, <1>8

\* Appending a message sends just that one.
LEMMA MovesOne ==
  ASSUME NEW v, WireType(v), NEW w, NEW c, NEW e, NEW x \in Message,
         Appends(v, w, c, e, <<x>>)
  PROVE /\ Moves(v, w, {<<c, e, x>>}) /\ On(w, c, e, x)
        /\ \A a, b, y : On(v, a, b, y) => On(w, a, b, y)
        /\ (\A m : ~IntroMsg(x, m)) => Calm(v, w)
<1> DEFINE s == Queue(v, c, e)
           t == <<x>>
<1>1. s \in Seq(Message) /\ t \in Seq(Message) /\ DOMAIN t = {1} /\ t[1] = x
  BY QueueType
<1>2. \A a, b : Queue(w, a, b) = IF a = c /\ b = e THEN s \o t ELSE Queue(v, a, b)
  BY DEF Appends
<1>3. \A y : (In(t, y) <=> y = x) /\ Once(t, y)
  BY InOne
<1> HIDE DEF s, t
<1>4. s = Queue(v, c, e)
  BY DEF s
<1>5. \A y : /\ In(s \o t, y) <=> In(s, y) \/ y = x
             /\ Once(s, y) /\ y # x => Once(s \o t, y)
             /\ ~In(s, y) => Once(s \o t, y)
  BY <1>1, <1>3, InConcat
<1>6. Moves(v, w, {<<c, e, x>>})
  <2>1. \A a, b, y : On(w, a, b, y) => On(v, a, b, y) \/ <<a, b, y>> \in {<<c, e, x>>}
    BY <1>2, <1>4, <1>5 DEF On
  <2>2. \A a, b, y : OneOn(v, a, b, y) /\ (<<a, b, y>> \in {<<c, e, x>>} => ~On(v, a, b, y))
                       => OneOn(w, a, b, y)
    BY <1>2, <1>4, <1>5 DEF On, OneOn
  <2> QED BY <2>1, <2>2 DEF Moves
<1>7. On(w, c, e, x) /\ \A a, b, y : On(v, a, b, y) => On(w, a, b, y)
  BY <1>2, <1>4, <1>5 DEF On
<1>8. ASSUME \A m : ~IntroMsg(x, m) PROVE Calm(v, w)
  <2>1. \A m, d : First(s \o t, m, d) <=> First(s, m, d)
    BY <1>1, <1>8, FirstConcat
  <2> QED BY <1>2, <1>4, <2>1 DEF Calm
<1> QED BY <1>6, <1>7, <1>8

\* Appending events sends nothing the invariant looks at.
LEMMA MovesEvents ==
  ASSUME NEW v, WireType(v), NEW w, NEW c, NEW e, NEW t \in Seq(Events),
         Appends(v, w, c, e, t)
  PROVE /\ Moves(v, w, {}) /\ Calm(v, w)
        /\ \A a, b, y : On(v, a, b, y) => On(w, a, b, y)
<1> DEFINE s == Queue(v, c, e)
<1>1. s \in Seq(Message) /\ t \in Seq(Message)
  BY QueueType DEF Message
<1>2. \A a, b : Queue(w, a, b) = IF a = c /\ b = e THEN s \o t ELSE Queue(v, a, b)
  BY DEF Appends
<1>3. \A y : In(t, y) => y \in Events
  BY DEF In
<1> HIDE DEF s
<1>4. s = Queue(v, c, e)
  BY DEF s
<1>5. \A y : /\ In(s \o t, y) => In(s, y) \/ y \in Events
             /\ In(s, y) => In(s \o t, y)
             /\ Once(s, y) /\ y \notin Events => Once(s \o t, y)
  BY <1>1, <1>3, InConcat
<1>6. Moves(v, w, {})
  BY <1>2, <1>4, <1>5 DEF Moves, On, OneOn
<1>7. \A a, b, y : On(v, a, b, y) => On(w, a, b, y)
  BY <1>2, <1>4, <1>5 DEF On
<1>8. \A i \in DOMAIN t : \A m : ~IntroMsg(t[i], m)
  BY EventFields DEF IntroMsg
<1>9. \A m, d : First(s \o t, m, d) <=> First(s, m, d)
  BY <1>1, <1>8, FirstConcat
<1>10. Calm(v, w)
  BY <1>2, <1>4, <1>9 DEF Calm
<1> QED BY <1>6, <1>7, <1>10

\* Two moves of messages, one after the other.
LEMMA MovesMore ==
  ASSUME NEW u, NEW v, NEW w, NEW X, NEW Y, Moves(u, v, X), Moves(v, w, Y), X \cap Y = {}
  PROVE Moves(u, w, X \cup Y)
<1>1. \A a, b, y : On(w, a, b, y) => On(u, a, b, y) \/ <<a, b, y>> \in X \cup Y \/ y \in Events
  BY DEF Moves
<1>2. ASSUME NEW a, NEW b, NEW y, OneOn(u, a, b, y), y \notin Events,
             <<a, b, y>> \in X \cup Y => ~On(u, a, b, y)
      PROVE OneOn(w, a, b, y)
  <2>1. OneOn(v, a, b, y)
    BY <1>2 DEF Moves
  <2>2. <<a, b, y>> \in Y => ~On(v, a, b, y)
    BY <1>2 DEF Moves
  <2> QED BY <1>2, <2>1, <2>2 DEF Moves
<1> QED BY <1>1, <1>2 DEF Moves

\* No move at all.
LEMMA MovesNone ==
  ASSUME NEW w
  PROVE Moves(w, w, {}) /\ Calm(w, w)
  BY DEF Moves, Calm

\* Two calm moves, one after the other.
LEMMA CalmMore ==
  ASSUME NEW u, NEW v, NEW w, Calm(u, v), Calm(v, w)
  PROVE Calm(u, w)
  BY DEF Calm

\* What is on two wires with the same queues.
LEMMA MovesSame ==
  ASSUME NEW v, NEW w, \A a, b : Queue(w, a, b) = Queue(v, a, b)
  PROVE Moves(v, w, {}) /\ Calm(v, w) /\ \A a, b, y : On(w, a, b, y) <=> On(v, a, b, y)
  BY DEF Moves, Calm, On, OneOn

-----------------------------------------------------------------------------
(***************************************************************************)
(* What a handler reads.                                                   *)
(***************************************************************************)
LEMMA FitsType ==
  ASSUME NEW c, NEW e, NEW x, Fits(c, e, x)
  PROVE /\ x.type = "AcceptInvitee" => e \in Guests /\ c = Invitation(e) /\ x = Hello(e)
        /\ x.type = "AcceptInvitation" =>
             \E m \in Guests : c = Invitation(m) /\ e = Inviter[m] /\ x = Reply(m)
        /\ x.type = "AddBrokerClient" => e = Broker /\
             \E n, m \in Guests : c = Via(n) /\ x = AskFor(m) /\ Inviter[m] = n
        /\ x.type = "BrokerClientAdded" => e \in Guests /\ c = Via(e) /\
             \E m \in Guests : x = Added(m) /\ Inviter[m] = e
        /\ x.type = "AcceptBrokerClient" => e \in Guests /\ c = Invitation(e) /\ x = Welcome(e)
        /\ x.type = "RequestPortMerge" =>
             \E m \in Guests : c = Invitation(m) /\ e = Inviter[m] /\ x = MergeReq(m)
        /\ x.type = "RequestIntroduction" => e = Broker /\
             \E n, m \in Guests : c = Via(n) /\ x = IntroReq(m) /\ m # n
        /\ x.type = "Introduce" => e \in Guests /\ c = Via(e) /\
             \E m \in Guests : /\ m # e
                               /\ \/ x = Unknown(m)
                                  \/ \E d \in Between(e, m) : x = Meet(e, m, d)
        /\ x.type = "Event" => x \in Events
<1>1. CASE x \in Events
  BY <1>1, EventFields
<1>2. CASE \E m \in Guests : c = Invitation(m) /\ e = m /\ (x = Hello(m) \/ x = Welcome(m))
  <2>1. e \in Guests /\ c = Invitation(e) /\ (x = Hello(e) \/ x = Welcome(e))
    BY <1>2
  <2>2. Hello(e).type = "AcceptInvitee" /\ Welcome(e).type = "AcceptBrokerClient"
    BY MessageKinds
  <2> QED BY <2>1, <2>2
<1>3. CASE \E m \in Guests : c = Invitation(m) /\ e = Inviter[m] /\ (x = Reply(m) \/ x = MergeReq(m))
  <2>1. PICK m \in Guests : c = Invitation(m) /\ e = Inviter[m] /\ (x = Reply(m) \/ x = MergeReq(m))
    BY <1>3
  <2>2. Reply(m).type = "AcceptInvitation" /\ MergeReq(m).type = "RequestPortMerge"
    BY MessageKinds
  <2> QED BY <2>1, <2>2
<1>4. CASE \E n, m \in Guests : c = Via(n) /\ e = Broker /\
             ((x = AskFor(m) /\ Inviter[m] = n) \/ (x = IntroReq(m) /\ m # n))
  <2>1. PICK n, m \in Guests : c = Via(n) /\ e = Broker /\
             ((x = AskFor(m) /\ Inviter[m] = n) \/ (x = IntroReq(m) /\ m # n))
    BY <1>4
  <2>2. AskFor(m).type = "AddBrokerClient" /\ IntroReq(m).type = "RequestIntroduction"
    BY MessageKinds
  <2> QED BY <2>1, <2>2
<1>5. CASE \E n, m \in Guests : c = Via(n) /\ e = n /\
             ((x = Added(m) /\ Inviter[m] = n) \/ (x = Unknown(m) /\ m # n))
  <2>1. e \in Guests /\ c = Via(e)
        /\ \E m \in Guests : (x = Added(m) /\ Inviter[m] = e) \/ (x = Unknown(m) /\ m # e)
    BY <1>5
  <2>2. PICK m \in Guests : (x = Added(m) /\ Inviter[m] = e) \/ (x = Unknown(m) /\ m # e)
    BY <2>1
  <2>3. Added(m).type = "BrokerClientAdded" /\ Unknown(m).type = "Introduce"
    BY MessageKinds
  <2> QED BY <2>1, <2>2, <2>3
<1>6. CASE \E n, m \in Guests : c = Via(n) /\ e = n /\ m # n /\
             \E d \in Between(n, m) : x = Meet(n, m, d)
  <2>1. PICK n, m \in Guests : c = Via(n) /\ e = n /\ m # n /\
             \E d \in Between(n, m) : x = Meet(n, m, d)
    BY <1>6
  <2>2. PICK d \in Between(n, m) : x = Meet(n, m, d)
    BY <2>1
  <2>3. Meet(n, m, d).type = "Introduce"
    BY MessageFields
  <2> QED BY <2>1, <2>2, <2>3
<1> QED BY <1>1, <1>2, <1>3, <1>4, <1>5, <1>6 DEF Fits

\* The channels a process reads from.
LEMMA OpenFacts ==
  ASSUME Inv, NEW n \in Node, NEW c \in Open(n)
  PROVE /\ n \in alive /\ c \in DOMAIN wire /\ c \in Chan /\ n \in Ends(c) /\ <<c, n>> \notin shut
        /\ \/ \E m \in Node : Peer(ctl, n, m) = c
           \/ n \in Guests /\ c = Invitation(n) /\ c = ctl[n].boot
           \/ c \in ctl[n].invitations
<1>1. n \in alive /\ <<c, n>> \notin shut
  BY DEF Open
<1>2. \/ \E m \in DOMAIN ctl[n].peers : c = ctl[n].peers[m]
      \/ c = ctl[n].boot /\ c # NoChannel
      \/ c \in ctl[n].invitations
  BY DEF Open
<1>3. ctl[n] \in Controller /\ WireType(wire)
  BY DEF Inv, Typed, Handler, Begin
<1>4. CASE \E m \in DOMAIN ctl[n].peers : c = ctl[n].peers[m]
  <2>1. PICK m \in DOMAIN ctl[n].peers : c = ctl[n].peers[m]
    BY <1>4
  <2>2. m \in Node /\ c \in Chan
    BY <1>3, <2>1 DEF Controller, PeerMaps
  <2>3. Peer(ctl, n, m) = c /\ c # NoChannel
    BY <2>1, <2>2, NoChannelIsNone DEF Peer, PeerChannel
  <2>4. PeerOK(ctl, wire, n, m)
    BY <2>2 DEF Inv, PeersOK
  <2>5. c \in DOMAIN wire /\ n \in Ends(c)
    BY <2>2, <2>3, <2>4, Constants, InvitationFacts, BetweenFacts DEF PeerOK
  <2> QED BY <1>1, <2>2, <2>3, <2>5
<1>5. CASE c = ctl[n].boot /\ c # NoChannel
  <2>1. n \in Guests
    BY <1>5, Constants DEF Inv, NamesOK
  <2>2. NameOK(ctl, wire, n)
    BY <2>1 DEF Inv, NamesOK
  <2>3. c = Invitation(n) /\ c \in DOMAIN wire
    BY <1>5, <2>2 DEF NameOK
  <2> QED BY <1>1, <1>5, <2>1, <2>3, InvitationFacts
<1>6. CASE c \in ctl[n].invitations
  <2>1. c \in DOMAIN wire /\ \E m \in Guests : Inviter[m] = n /\ c = Invitation(m)
    BY <1>6 DEF Inv, NamesOK
  <2> QED BY <1>1, <1>6, <2>1, InvitationFacts
<1> QED BY <1>2, <1>4, <1>5, <1>6

\* The message a handler takes.
LEMMA ReadFacts ==
  ASSUME Inv, NEW n \in Node, NEW c \in Open(n), NEW type, Receives(n, c, type)
  PROVE LET x == Head(wire[c][n])
            r == Taken(n, c)
        IN /\ Queue(wire, c, n) # << >> /\ x = Head(Queue(wire, c, n))
           /\ x \in Message /\ x.type = type /\ On(wire, c, n, x) /\ Fits(c, n, x)
           /\ Handler(r) /\ r.ctl = ctl /\ r.merge = merge /\ r.shut = shut
           /\ Takes(wire, r.wire, c, n) /\ DOMAIN r.wire = DOMAIN wire
<1> DEFINE x == Head(wire[c][n])
           r == Taken(n, c)
<1>1. c \in DOMAIN wire /\ n \in Ends(c)
  BY OpenFacts
<1>2. Handler(Begin) /\ WireType(wire) /\ AllFit(wire)
  BY DEF Inv, Typed, Handler, Begin
<1>3. wire[c] \in [Ends(c) -> Seq(Message)]
  BY <1>1, <1>2 DEF WireType
<1>4. Queue(wire, c, n) = wire[c][n] /\ wire[c][n] \in Seq(Message)
  BY <1>1, <1>3 DEF Queue
<1>5. wire[c][n] # << >> /\ x.type = type
  BY DEF Receives
<1>6. x \in Message /\ In(wire[c][n], x)
  <2>1. 1 \in DOMAIN wire[c][n] /\ x = wire[c][n][1]
    BY <1>4, <1>5
  <2> QED BY <1>4, <1>5, <2>1 DEF In
<1>7. On(wire, c, n, x)
  BY <1>4, <1>6 DEF On
<1>8. Fits(c, n, x)
  BY <1>2, <1>7 DEF AllFit
<1>9. Handler(r) /\ r.ctl = ctl /\ r.merge = merge /\ r.shut = shut /\ Takes(wire, r.wire, c, n)
  BY <1>1, <1>2, <1>4, <1>5, TakenFacts DEF At
<1>10. DOMAIN r.wire = DOMAIN wire
  BY <1>9 DEF Takes
<1> HIDE DEF x, r
<1> QED BY <1>4, <1>5, <1>6, <1>7, <1>8, <1>9, <1>10 DEF x, r

\* The other end of a channel, and the name it is known under.
LEMMA OtherEndOf ==
  ASSUME Inv, NEW c \in DOMAIN wire, NEW n, NEW e, n # e, Ends(c) = {n, e}
  PROVE OtherEnd(c, n) = e
<1>1. DOMAIN wire[c] = {n, e}
  BY DEF Inv, Typed, Handler, Begin, WireType
<1> QED BY <1>1 DEF OtherEnd

\* The name by which a process knows the other end of each channel.
LEMMA RemoteNames ==
  ASSUME Inv
  PROVE /\ \A m \in Guests : RemoteName(m, Invitation(m)) = ctl[m].inviter
        /\ \A m \in Guests : Invitation(m) \in DOMAIN wire =>
             RemoteName(Inviter[m], Invitation(m)) =
               IF Invitation(m) \in ctl[Inviter[m]].invitations THEN Invitation(m) ELSE m
        /\ \A m \in Guests : Client(m) \in DOMAIN wire =>
             RemoteName(m, Client(m)) = Broker /\ RemoteName(Broker, Client(m)) = m
        /\ \A n, m \in Guests : \A c \in Between(n, m) : c \in DOMAIN wire /\ n # m =>
             RemoteName(n, c) = m
<1>1. ASSUME NEW m \in Guests PROVE RemoteName(m, Invitation(m)) = ctl[m].inviter
  BY ChannelsDiffer DEF RemoteName
<1>2. ASSUME NEW m \in Guests, Invitation(m) \in DOMAIN wire
      PROVE RemoteName(Inviter[m], Invitation(m)) =
              IF Invitation(m) \in ctl[Inviter[m]].invitations THEN Invitation(m) ELSE m
  <2>1. NameOK(ctl, wire, m)
    BY DEF Inv, NamesOK
  <2>2. Inviter[m] # m
    BY <1>2, <2>1 DEF NameOK
  <2> QED BY <2>2, ChannelsDiffer DEF RemoteName
<1>3. ASSUME NEW m \in Guests, Client(m) \in DOMAIN wire
      PROVE RemoteName(m, Client(m)) = Broker /\ RemoteName(Broker, Client(m)) = m
  <2>1. m # Broker /\ Ends(Client(m)) = {m, Broker}
    BY Constants, InvitationFacts
  <2>2. OtherEnd(Client(m), m) = Broker
    BY <1>3, <2>1, OtherEndOf
  <2>3. OtherEnd(Client(m), Broker) = m
    BY <1>3, <2>1, OtherEndOf
  <2> QED BY <2>2, <2>3, ChannelsDiffer DEF RemoteName
<1>4. ASSUME NEW n \in Guests, NEW m \in Guests, NEW c \in Between(n, m), c \in DOMAIN wire, n # m
      PROVE RemoteName(n, c) = m
  <2>1. Ends(c) = {n, m} /\ c[1] = "intro"
    BY BetweenFacts
  <2>2. OtherEnd(c, n) = m
    BY <1>4, <2>1, OtherEndOf
  <2> QED BY <2>1, <2>2 DEF RemoteName
<1> QED BY <1>1, <1>2, <1>3, <1>4

-----------------------------------------------------------------------------
(***************************************************************************)
(* When the parts of the invariant are kept: from controllers C, wire W    *)
(* and shut ends S to D, V and T, messages X being new.                    *)
(***************************************************************************)
\* Nothing that concerns the invitation of m changes, B being the living ones.
Still(C, D, W, V, S, T, B, X, m) ==
  LET i == Inviter[m]
      c == Invitation(m)
  IN /\ D[m].inviter = C[m].inviter
     /\ D[m].boot = C[m].boot /\ D[m].broker = C[m].broker
     /\ IsClient(D, i) \/ (D[i].boot = C[i].boot /\ D[i].broker = C[i].broker)
     /\ c \in D[i].invitations <=> c \in C[i].invitations
     /\ c \in DOMAIN V <=> c \in DOMAIN W
     /\ Client(m) \in DOMAIN V <=> Client(m) \in DOMAIN W
     /\ <<c, i>> \in S => <<c, i>> \in T
     /\ <<Client(m), m>> \in T => <<Client(m), m>> \in S
     /\ m \in B =>
          /\ <<Client(m), Broker>> \in T => <<Client(m), Broker>> \in S
          /\ Peer(D, Broker, m) = Peer(C, Broker, m) /\ Peer(D, m, Broker) = Peer(C, m, Broker)
          /\ i \in B =>
               /\ <<c, i>> \in T => <<c, i>> \in S
               /\ <<c, m>> \in T => <<c, m>> \in S
               /\ Peer(D, i, m) = Peer(C, i, m) /\ Peer(D, m, i) = Peer(C, m, i)
     /\ <<c, m, Hello(m)>> \notin X /\ <<c, i, Reply(m)>> \notin X
     /\ <<c, m, Welcome(m)>> \notin X
     /\ i # Broker => <<Via(i), Broker, AskFor(m)>> \notin X /\ <<Via(i), i, Added(m)>> \notin X

\* The messages of an invitation are not events.
LEMMA NotEvents ==
  ASSUME NEW m
  PROVE /\ Hello(m) \notin Events /\ Reply(m) \notin Events /\ AskFor(m) \notin Events
        /\ Added(m) \notin Events /\ Welcome(m) \notin Events /\ IntroReq(m) \notin Events
        /\ Unknown(m) \notin Events /\ \A n, c : Meet(n, m, c) \notin Events
<1>1. \A x \in Events : x.type = "Event"
  BY EventFields
<1>2. /\ Hello(m).type # "Event" /\ Reply(m).type # "Event" /\ AskFor(m).type # "Event"
      /\ Added(m).type # "Event" /\ Welcome(m).type # "Event" /\ IntroReq(m).type # "Event"
      /\ Unknown(m).type # "Event" /\ \A n, c : Meet(n, m, c).type # "Event"
  BY MessageFields
<1> QED BY <1>1, <1>2

\* An invitation nothing happens to stays in its stage.
LEMMA StillStage ==
  ASSUME NEW C, NEW D, NEW W, NEW V, NEW S, NEW T, NEW A, NEW B, NEW X, NEW m \in Guests,
         Moves(W, V, X), Still(C, D, W, V, S, T, B, X, m), B \subseteq A, StageOK(C, W, S, A, m)
  PROVE StageOK(D, V, T, B, m)
<1> DEFINE i == Inviter[m]
           c == Invitation(m)
<1>1. /\ On(V, c, m, Hello(m)) => On(W, c, m, Hello(m))
      /\ On(V, c, i, Reply(m)) => On(W, c, i, Reply(m))
      /\ On(V, c, m, Welcome(m)) => On(W, c, m, Welcome(m))
      /\ i # Broker => /\ On(V, Via(i), Broker, AskFor(m)) => On(W, Via(i), Broker, AskFor(m))
                       /\ On(V, Via(i), i, Added(m)) => On(W, Via(i), i, Added(m))
  BY NotEvents DEF Moves, Still
<1>2. /\ OneOn(W, c, m, Hello(m)) => OneOn(V, c, m, Hello(m))
      /\ OneOn(W, c, i, Reply(m)) => OneOn(V, c, i, Reply(m))
      /\ OneOn(W, c, m, Welcome(m)) => OneOn(V, c, m, Welcome(m))
      /\ i # Broker => /\ OneOn(W, Via(i), Broker, AskFor(m)) => OneOn(V, Via(i), Broker, AskFor(m))
                       /\ OneOn(W, Via(i), i, Added(m)) => OneOn(V, Via(i), i, Added(m))
  BY NotEvents DEF Moves, Still
<1>3. /\ IsClient(D, m) <=> IsClient(C, m)
      /\ IsClient(C, i) => IsClient(D, i)
      /\ D[m].inviter = C[m].inviter
      /\ c \in D[i].invitations <=> c \in C[i].invitations
      /\ c \in DOMAIN V <=> c \in DOMAIN W
      /\ Client(m) \in DOMAIN V <=> Client(m) \in DOMAIN W
      /\ <<c, i>> \in S => <<c, i>> \in T
      /\ <<Client(m), m>> \in T => <<Client(m), m>> \in S
      /\ m \in B => /\ <<Client(m), Broker>> \in T => <<Client(m), Broker>> \in S
                    /\ Peer(D, Broker, m) = Peer(C, Broker, m)
  BY DEF Still, IsClient
<1>4. Token(C, W, S, A, m) => Token(D, V, T, B, m)
  BY <1>3 DEF Token
<1> QED BY <1>1, <1>2, <1>3, <1>4 DEF StageOK

\* An invitation nothing happens to keeps its links.
LEMMA StillLink ==
  ASSUME NEW C, NEW D, NEW W, NEW V, NEW S, NEW T, NEW A, NEW B, NEW X, NEW m \in Guests, Broker \in B,
         Still(C, D, W, V, S, T, B, X, m), B \subseteq A, LinkOK(C, W, S, A, m)
  PROVE LinkOK(D, V, T, B, m)
<1> DEFINE i == Inviter[m]
           c == Invitation(m)
<1>1. /\ IsClient(D, m) <=> IsClient(C, m)
      /\ c \in D[i].invitations <=> c \in C[i].invitations
      /\ c \in DOMAIN V <=> c \in DOMAIN W
      /\ <<Client(m), m>> \in T => <<Client(m), m>> \in S
      /\ m \in B =>
           /\ <<Client(m), Broker>> \in T => <<Client(m), Broker>> \in S
           /\ Peer(D, Broker, m) = Peer(C, Broker, m) /\ Peer(D, m, Broker) = Peer(C, m, Broker)
           /\ i \in B =>
                /\ <<c, i>> \in T => <<c, i>> \in S
                /\ <<c, m>> \in T => <<c, m>> \in S
                /\ Peer(D, i, m) = Peer(C, i, m) /\ Peer(D, m, i) = Peer(C, m, i)
  BY DEF Still, IsClient
<1>2. i = Broker => Via(m) = c
  BY DEF Via
<1>3. i # Broker => Via(m) = Client(m)
  BY DEF Via
<1> QED BY <1>1, <1>2, <1>3 DEF LinkOK

\* An invitation nothing happens to keeps its names.
LEMMA StillName ==
  ASSUME NEW C, NEW D, NEW W, NEW V, NEW S, NEW T, NEW B, NEW X, NEW m \in Guests,
         Still(C, D, W, V, S, T, B, X, m), NameOK(C, W, m)
  PROVE NameOK(D, V, m)
<1> DEFINE i == Inviter[m]
           c == Invitation(m)
<1>1. /\ IsClient(C, i) => IsClient(D, i)
      /\ D[m].inviter = C[m].inviter /\ D[m].boot = C[m].boot /\ D[m].broker = C[m].broker
      /\ IsClient(D, i) \/ D[i].boot = C[i].boot
      /\ c \in DOMAIN V <=> c \in DOMAIN W
      /\ Via(m) \in DOMAIN V <=> Via(m) \in DOMAIN W
  BY DEF Still, IsClient, Via
<1> QED BY <1>1 DEF NameOK

\* Messages that fit.
LEMMA AllFitKept ==
  ASSUME NEW W, NEW V, NEW X, Moves(W, V, X), AllFit(W),
         \A a, b, y : <<a, b, y>> \in X => Fits(a, b, y)
  PROVE AllFit(V)
<1>1. \A a, b, y : y \in Events => Fits(a, b, y)
  BY DEF Fits
<1> QED BY <1>1 DEF AllFit, Moves

\* Where messages about introductions are.
LEMMA FitsIntroReq ==
  ASSUME NEW n, NEW m, Fits(Via(n), Broker, IntroReq(m))
  PROVE n \in Guests /\ m \in Guests /\ m # n
<1>1. IntroReq(m).type = "RequestIntroduction"
  BY MessageKinds
<1>2. PICK a \in Guests, b \in Guests : Via(n) = Via(a) /\ IntroReq(m) = IntroReq(b) /\ b # a
  BY <1>1, FitsType
<1>3. IntroReq(m).name = m /\ IntroReq(b).name = b
  BY MessageFields
<1>4. n = a
  BY <1>2, ChannelsDiffer
<1>5. m = b
  BY <1>2, <1>3
<1> QED BY <1>2, <1>4, <1>5

\* A refused introduction comes from the broker.
LEMMA FitsUnknown ==
  ASSUME NEW c, NEW n, NEW m, Fits(c, n, Unknown(m))
  PROVE n \in Guests /\ c = Via(n) /\ m \in Guests /\ m # n
<1>1. Unknown(m).type = "Introduce" /\ Unknown(m).ch = NoChannel /\ Unknown(m).name = m
  BY MessageFields
<1>2. n \in Guests /\ c = Via(n)
  BY <1>1, FitsType
<1>3. PICK a \in Guests : a # n /\ (Unknown(m) = Unknown(a) \/
                                    \E d \in Between(n, a) : Unknown(m) = Meet(n, a, d))
  BY <1>1, FitsType
<1>4. Unknown(a).name = a /\ \A d : Meet(n, a, d).name = a
  BY MessageFields
<1>5. m = a
  BY <1>1, <1>3, <1>4
<1> QED BY <1>2, <1>3, <1>5

\* An introduction comes from the broker, with a channel of the two it introduces.
LEMMA FitsMeet ==
  ASSUME NEW c, NEW n, NEW k, NEW m, NEW d, Fits(c, n, Meet(k, m, d)), d # NoChannel
  PROVE n \in Guests /\ c = Via(n) /\ k = n /\ m \in Guests /\ m # n /\ d \in Between(n, m)
<1>1. /\ Meet(k, m, d).type = "Introduce" /\ Meet(k, m, d).ch = d /\ Meet(k, m, d).name = m
      /\ Meet(k, m, d).for = k
  BY MessageFields
<1>2. n \in Guests /\ c = Via(n)
  BY <1>1, FitsType
<1>3. PICK a \in Guests : a # n /\ (Meet(k, m, d) = Unknown(a) \/
                                    \E x \in Between(n, a) : Meet(k, m, d) = Meet(n, a, x))
  BY <1>1, FitsType
<1>4. Unknown(a).ch = NoChannel
  BY MessageFields
<1>5. PICK x \in Between(n, a) : Meet(k, m, d) = Meet(n, a, x)
  BY <1>1, <1>3, <1>4
<1>6. Meet(n, a, x).ch = x /\ Meet(n, a, x).name = a /\ Meet(n, a, x).for = n
  BY MessageFields
<1>7. m = a /\ d = x /\ k = n
  BY <1>1, <1>5, <1>6
<1> QED BY <1>2, <1>3, <1>5, <1>7

\* No new channels, no new numbers.
LEMMA NumberedSame ==
  ASSUME NEW W, NEW V, DOMAIN V = DOMAIN W, Numbered(W)
  PROVE Numbered(V)
<1>1. \A n : IntrosOf(V, n) = IntrosOf(W, n)
  BY DEF IntrosOf
<1> QED BY <1>1 DEF Numbered

\* Invitations stay, or are new.
NewInvitation(W, V, n, c) ==
  c \notin DOMAIN W /\ c \in DOMAIN V /\ \E m \in Guests : Inviter[m] = n /\ c = Invitation(m)

\* The invitations and the names of a later state.
LEMMA InvitationsKept ==
  ASSUME NEW C, NEW D, NEW W, NEW V, NamesOK(C, W), DOMAIN W \subseteq DOMAIN V,
         D[Broker].inviter = C[Broker].inviter, D[Broker].boot = C[Broker].boot,
         D[Broker].broker = C[Broker].broker,
         \A n \in Node : \A c \in D[n].invitations : c \in C[n].invitations \/ NewInvitation(W, V, n, c),
         \A m \in Guests : NameOK(D, V, m)
  PROVE NamesOK(D, V)
  BY DEF NamesOK, NewInvitation

\* Peers stay, go, or are new and fit.
LEMMA PeersKept ==
  ASSUME NEW C, NEW D, NEW W, NEW V, PeersOK(C, W), DOMAIN W \subseteq DOMAIN V,
         \A n \in Node : IsClient(C, n) => IsClient(D, n),
         \A n \in Node : \A c \in D[n].invitations : c \in C[n].invitations \/ NewInvitation(W, V, n, c),
         \A n, m \in Node : \/ Peer(D, n, m) = Peer(C, n, m)
                            \/ Peer(D, n, m) = NoChannel
                            \/ PeerOK(D, V, n, m)
  PROVE PeersOK(D, V)
<1>1. SUFFICES ASSUME NEW n \in Node, NEW m \in Node, Peer(D, n, m) = Peer(C, n, m)
               PROVE PeerOK(D, V, n, m)
  BY DEF PeersOK, PeerOK
<1>2. PeerOK(C, W, n, m)
  BY DEF PeersOK
<1> QED BY <1>1, <1>2 DEF PeerOK, NewInvitation

\* The channels that introduce two nodes to each other.
Intro(c) == \E n, m \in Guests : c \in Between(n, m)

\* What may be new about introductions.
AsksNew(D, W, V, B, X) ==
  /\ \A n, m : <<Via(n), Broker, IntroReq(m)>> \in X => IsClient(D, n) /\ IsClient(D, m)
  /\ \A n, m : <<Via(n), n, Unknown(m)>> \in X => IsClient(D, n) /\ IsClient(D, m) /\ m \notin B
  /\ \A n, m, d : <<Via(n), n, Meet(n, m, d)>> \in X =>
       IsClient(D, n) /\ IsClient(D, m) /\ d \in DOMAIN V \ DOMAIN W /\ d # NoChannel

\* Requests for introductions of a later state.
LEMMA AsksKept ==
  ASSUME NEW C, NEW D, NEW W, NEW V, NEW A, NEW B, NEW X, Moves(W, V, X), AllFit(V),
         AsksOK(C, W, A), DOMAIN W \subseteq Chan, DOMAIN W \subseteq DOMAIN V, B \subseteq A,
         \A n \in Node : IsClient(C, n) => IsClient(D, n),
         PeersOK(C, W), AsksNew(D, W, V, B, X),
         \A n, m \in Node : \/ Peer(D, n, m) = Peer(C, n, m)
                            \/ ~Intro(Peer(D, n, m))
                            \/ \A y : ~On(V, Via(n), n, Meet(n, y, Peer(D, n, m)))
  PROVE AsksOK(D, V, B)
<1>1. \A n, m, d : IntroReq(m) \notin Events /\ Unknown(m) \notin Events /\ Meet(n, m, d) \notin Events
  BY NotEvents
<1>2. ASSUME NEW n, NEW m, On(V, Via(n), Broker, IntroReq(m))
      PROVE IsClient(D, n) /\ IsClient(D, m)
  <2>1. n \in Node /\ m \in Node
    <3>1. Fits(Via(n), Broker, IntroReq(m))
      BY <1>2 DEF AllFit
    <3> QED BY <3>1, FitsIntroReq, Constants
  <2>2. On(W, Via(n), Broker, IntroReq(m)) \/ <<Via(n), Broker, IntroReq(m)>> \in X
    BY <1>1, <1>2 DEF Moves
  <2> QED BY <2>1, <2>2 DEF AsksOK, AsksNew
<1>3. ASSUME NEW n, NEW m, On(V, Via(n), n, Unknown(m))
      PROVE IsClient(D, n) /\ IsClient(D, m) /\ m \notin B
  <2>1. n \in Node /\ m \in Node
    <3>1. Fits(Via(n), n, Unknown(m))
      BY <1>3 DEF AllFit
    <3> QED BY <3>1, FitsUnknown, Constants
  <2>2. On(W, Via(n), n, Unknown(m)) \/ <<Via(n), n, Unknown(m)>> \in X
    BY <1>1, <1>3 DEF Moves
  <2> QED BY <2>1, <2>2 DEF AsksOK, AsksNew
<1>4. ASSUME NEW n, NEW m, NEW d, On(V, Via(n), n, Meet(n, m, d))
      PROVE /\ IsClient(D, n) /\ IsClient(D, m) /\ d \in DOMAIN V
            /\ OneOn(V, Via(n), n, Meet(n, m, d)) /\ \A y \in Node : Peer(D, n, y) # d
  <2>1. Fits(Via(n), n, Meet(n, m, d))
    BY <1>4 DEF AllFit
  <2>2. On(W, Via(n), n, Meet(n, m, d)) \/ <<Via(n), n, Meet(n, m, d)>> \in X
    BY <1>1, <1>4 DEF Moves
  <2>3. d # NoChannel
    BY <2>2, NoChannelIsNone DEF AsksOK, AsksNew
  <2>4. n \in Guests /\ n \in Node /\ m \in Guests /\ m \in Node /\ d \in Between(n, m)
    BY <2>1, <2>3, FitsMeet, Constants
  <2>5. CASE <<Via(n), n, Meet(n, m, d)>> \in X
    <3>1. IsClient(D, n) /\ IsClient(D, m) /\ d \in DOMAIN V /\ d \notin DOMAIN W
      BY <2>5 DEF AsksNew
    <3>2. ~On(W, Via(n), n, Meet(n, m, d))
      BY <3>1 DEF AsksOK
    <3>3. OneOn(W, Via(n), n, Meet(n, m, d))
      BY <3>2 DEF On, OneOn, In, Once
    <3>4. OneOn(V, Via(n), n, Meet(n, m, d))
      BY <1>1, <3>2, <3>3 DEF Moves
    <3>5. \A y \in Node : Peer(C, n, y) # d
      BY <2>3, <2>4, <3>1 DEF PeersOK, PeerOK
    <3>6. \A y \in Node : Peer(D, n, y) # d
      BY <1>4, <2>4, <3>5 DEF Intro
    <3> QED BY <3>1, <3>4, <3>6
  <2>6. CASE <<Via(n), n, Meet(n, m, d)>> \notin X
    <3>1. /\ IsClient(C, n) /\ IsClient(C, m) /\ d \in DOMAIN W
          /\ OneOn(W, Via(n), n, Meet(n, m, d)) /\ \A y \in Node : Peer(C, n, y) # d
      BY <2>2, <2>6 DEF AsksOK
    <3>2. OneOn(V, Via(n), n, Meet(n, m, d))
      BY <1>1, <2>6, <3>1 DEF Moves
    <3>3. \A y \in Node : Peer(D, n, y) # d
      BY <1>4, <2>4, <3>1 DEF Intro
    <3> QED BY <2>4, <3>1, <3>2, <3>3
  <2> QED BY <2>5, <2>6
<1> QED BY <1>2, <1>3, <1>4 DEF AsksOK

\* Queued events of a later state.
LEMMA WaitsKept ==
  ASSUME NEW C, NEW D, NEW F, NEW H, NEW G, NEW K, WaitsOK(C, F, G),
         \A n \in Node : IsClient(C, n) => IsClient(D, n),
         \A p \in Talks : H[p].at = "idle" \/ (F[p].at # "idle" /\ H[p].via = F[p].via),
         \A n, m \in Node :
           /\ D[n].queue[m] = C[n].queue[m] \/ D[n].queue[m] = << >>
           /\ \/ Peer(D, n, m) = Peer(C, n, m) \/ Peer(D, n, m) = NoChannel
              \/ D[n].queue[m] = << >>,
         \A m \in Node : K[m] = G[m] \/ K[m] # "sending"
  PROVE WaitsOK(D, H, K)
<1>1. ASSUME NEW p \in Talks, H[p].at # "idle"
      PROVE /\ p[1] \in Guests /\ p[2] \in Guests /\ IsClient(D, p[1]) /\ IsClient(D, p[2])
            /\ H[p].via = Via(p[1])
  BY <1>1, Constants DEF WaitsOK
<1>2. ASSUME NEW n \in Node, NEW m \in Node, D[n].queue[m] # << >>
      PROVE IsClient(D, n) /\ IsClient(D, m) /\ Peer(D, n, m) = NoChannel
  BY <1>2 DEF WaitsOK
<1>3. ASSUME NEW m \in Node, K[m] = "sending" PROVE m # Broker /\ IsClient(D, m)
  BY <1>3 DEF WaitsOK
<1> QED BY <1>1, <1>2, <1>3 DEF WaitsOK

\* Messages about introductions to living processes stay.
Holds(W, V, B) ==
  \A a, b, y : On(W, a, b, y) /\ y.type \in {"RequestIntroduction", "Introduce"} /\ b \in B
                 => On(V, a, b, y)

\* What the queued events wait for, in a later state.
LEMMA AwaitsKept ==
  ASSUME NEW C, NEW D, NEW W, NEW V, NEW F, NEW H, NEW A, NEW B, AwaitsOK(C, W, F, A),
         B \subseteq A, Broker \in B, Holds(W, V, B),
         \A p \in Talks : F[p].at = "asking" => H[p].at = "asking",
         \A n \in B, m \in Node : D[n].queue[m] = C[n].queue[m] \/ D[n].queue[m] = << >>
  PROVE AwaitsOK(D, V, H, B)
<1>1. SUFFICES ASSUME NEW n \in B, NEW m \in Node, D[n].queue[m] # << >>
               PROVE Await(V, H, n, m)
  BY DEF AwaitsOK
<1>2. Await(W, F, n, m)
  BY <1>1 DEF AwaitsOK
<1>3. \A d : /\ IntroReq(m).type = "RequestIntroduction" /\ Unknown(m).type = "Introduce"
             /\ Meet(n, m, d).type = "Introduce"
  BY MessageFields
<1> QED BY <1>2, <1>3 DEF Await, Holds

\* Declared deaths of a later state.
LEMMA LostKept ==
  ASSUME NEW C, NEW D, NEW S, NEW T, NEW A, NEW B, LostOK(C, S, A), B \subseteq A, S \subseteq T,
         \A n \in B : D[n].lost = C[n].lost,
         \A x \in Guests : IsClient(D, x) => \/ IsClient(C, x) \/ Inviter[x] = Broker
                                             \/ <<Client(x), x>> \notin S
  PROVE LostOK(D, T, B)
  BY DEF LostOK

\* Channels of introductions.
LEMMA MeetsIntro ==
  ASSUME NEW C, NEW W, WireType(W), AllFit(W), PeersOK(C, W), NEW A, AsksOK(C, W, A),
         NEW n, NEW m, Apart(n, m), NEW c, Meets(C, W, n, m, c)
  PROVE c \in Between(n, m) /\ c \in DOMAIN W
<1>1. n \in Guests /\ m \in Guests /\ n \in Node /\ m \in Node /\ n # Broker /\ m # Broker
  BY Constants DEF Apart
<1>2. CASE Peer(C, n, m) # NoChannel
  <2>1. c = Peer(C, n, m) /\ PeerOK(C, W, n, m)
    BY <1>1, <1>2 DEF Meets, PeersOK
  <2> QED BY <1>1, <1>2, <2>1 DEF PeerOK, Apart
<1>3. CASE Peer(C, n, m) = NoChannel
  <2> DEFINE s == Queue(W, Via(n), n)
  <2>1. PICK k \in DOMAIN s : IntroMsg(s[k], m) /\ s[k].ch = c
    BY <1>3 DEF Meets, First
  <2>2. On(W, Via(n), n, s[k])
    BY DEF On, In
  <2>3. Fits(Via(n), n, s[k]) /\ s[k].type = "Introduce" /\ s[k].name = m /\ c # NoChannel
    BY <2>1, <2>2 DEF AllFit, IntroMsg
  <2> HIDE DEF s
  <2>4. PICK x \in Guests : s[k] = Unknown(x) \/ \E d \in Between(n, x) : s[k] = Meet(n, x, d)
    BY <2>3, FitsType
  <2>5. Unknown(x).ch = NoChannel
    BY MessageFields
  <2>6. PICK d \in Between(n, x) : s[k] = Meet(n, x, d)
    BY <2>1, <2>3, <2>4, <2>5
  <2>7. Meet(n, x, d).name = x /\ Meet(n, x, d).ch = d
    BY MessageFields
  <2>8. x = m /\ d = c
    BY <2>1, <2>3, <2>6, <2>7
  <2>9. c \in DOMAIN W
    BY <2>2, <2>6, <2>8 DEF AsksOK
  <2> QED BY <2>6, <2>8, <2>9
<1> QED BY <1>2, <1>3

\* The introductions that n has for m stay.
SameFirst(W, V, B) ==
  \A n, m \in B : \A c : First(Queue(V, Via(n), n), m, c) <=> First(Queue(W, Via(n), n), m, c)

\* Introductions of a later state, when the first one on every way stays the same.
LEMMA MeetsKept ==
  ASSUME NEW C, NEW D, NEW W, NEW V, NEW S, NEW T, NEW A, NEW B,
         WireType(W), AllFit(W), PeersOK(C, W), AsksOK(C, W, A), MeetsOK(C, W, S, A),
         B \subseteq A, SameFirst(W, V, B),
         \A n, m \in B : Apart(n, m) => Peer(D, n, m) = Peer(C, n, m),
         \A n \in B : \A c : Intro(c) /\ <<c, n>> \in T => <<c, n>> \in S
  PROVE MeetsOK(D, V, T, B)
<1>1. SUFFICES ASSUME NEW n \in B, NEW m \in B, Apart(n, m), NEW c, Meets(D, V, n, m, c)
               PROVE Meets(D, V, m, n, c) /\ <<c, n>> \notin T
  BY DEF MeetsOK
<1>2. Apart(m, n)
  BY <1>1 DEF Apart
<1>3. Meets(D, V, n, m, c) <=> Meets(C, W, n, m, c)
  BY <1>1 DEF Meets, SameFirst
<1>4. Meets(D, V, m, n, c) <=> Meets(C, W, m, n, c)
  BY <1>2 DEF Meets, SameFirst
<1>5. Meets(C, W, m, n, c) /\ <<c, n>> \notin S
  BY <1>1, <1>3 DEF MeetsOK
<1>6. c \in Between(n, m)
  BY <1>1, <1>3, MeetsIntro
<1>7. Intro(c)
  BY <1>1, <1>6 DEF Intro, Apart
<1> QED BY <1>4, <1>5, <1>7

\* The invariant after a step, from its parts.
LEMMA Preserve ==
  ASSUME Inv, Typed', alive' \subseteq alive, Broker \in alive', NEW X, Moves(wire, wire', X),
         \A a, b, y : <<a, b, y>> \in X => Fits(a, b, y),
         Numbered(wire'), DOMAIN wire \subseteq DOMAIN wire',
         \A s \in shut' : s[1] \in DOMAIN wire',
         ctl'[Broker].inviter = ctl[Broker].inviter, ctl'[Broker].boot = ctl[Broker].boot,
         ctl'[Broker].broker = ctl[Broker].broker,
         \A n \in Node : \A c \in ctl'[n].invitations :
           c \in ctl[n].invitations \/ NewInvitation(wire, wire', n, c),
         \A n \in Node : IsClient(ctl, n) => IsClient(ctl', n),
         \A m \in Guests :
           \/ Still(ctl, ctl', wire, wire', shut, shut', alive', X, m)
           \/ /\ NameOK(ctl', wire', m) /\ StageOK(ctl', wire', shut', alive', m)
              /\ LinkOK(ctl', wire', shut', alive', m),
         \A n, m \in Node : \/ Peer(ctl', n, m) = Peer(ctl, n, m)
                            \/ Peer(ctl', n, m) = NoChannel
                            \/ PeerOK(ctl', wire', n, m),
         AsksNew(ctl', wire, wire', alive', X),
         \A n, m \in Node : \/ Peer(ctl', n, m) = Peer(ctl, n, m)
                            \/ ~Intro(Peer(ctl', n, m))
                            \/ \A y : ~On(wire', Via(n), n, Meet(n, y, Peer(ctl', n, m))),
         WaitsOK(ctl', send', merge'), AwaitsOK(ctl', wire', send', alive'),
         LostOK(ctl', shut', alive'), MeetsOK(ctl', wire', shut', alive')
  PROVE Inv'
<1>1. /\ AllFit(wire) /\ NamesOK(ctl, wire) /\ PeersOK(ctl, wire)
      /\ StagesOK(ctl, wire, shut, alive) /\ LinksOK(ctl, wire, shut, alive)
      /\ AsksOK(ctl, wire, alive) /\ DOMAIN wire \subseteq Chan
  BY DEF Inv, Typed, Handler, Begin, WireType
<1>2. AllFit(wire')
  BY <1>1, AllFitKept
<1>3. ASSUME NEW m \in Guests
      PROVE /\ NameOK(ctl', wire', m) /\ StageOK(ctl', wire', shut', alive', m)
            /\ LinkOK(ctl', wire', shut', alive', m)
  <2>1. NameOK(ctl, wire, m) /\ StageOK(ctl, wire, shut, alive, m) /\ LinkOK(ctl, wire, shut, alive, m)
    BY <1>1 DEF NamesOK, StagesOK, LinksOK
  <2>2. CASE Still(ctl, ctl', wire, wire', shut, shut', alive', X, m)
    BY <2>1, <2>2, StillName, StillStage, StillLink
  <2> QED BY <2>2
<1>4. NamesOK(ctl', wire')
  BY <1>1, <1>3, InvitationsKept
<1>5. PeersOK(ctl', wire')
  BY <1>1, PeersKept
<1>6. AsksOK(ctl', wire', alive')
  BY <1>1, <1>2, AsksKept
<1>7. StagesOK(ctl', wire', shut', alive') /\ LinksOK(ctl', wire', shut', alive')
  BY <1>3 DEF StagesOK, LinksOK
<1> QED BY <1>2, <1>4, <1>5, <1>6, <1>7 DEF Inv

-----------------------------------------------------------------------------
(***************************************************************************)
(* Steps that leave invitations and peers as they are.                     *)
(***************************************************************************)
SameLinks(C, D) ==
  \A n \in Node : /\ D[n].inviter = C[n].inviter /\ D[n].boot = C[n].boot
                  /\ D[n].broker = C[n].broker /\ D[n].invitations = C[n].invitations
                  /\ \A m \in Node : Peer(D, n, m) = Peer(C, n, m)

QuietTypes == {"RequestPortMerge", "RequestIntroduction", "Introduce"}

\* A quiet message is no message of an invitation.
LEMMA QuietMessages ==
  ASSUME NEW X, \A a, b, y : <<a, b, y>> \in X => y.type \in QuietTypes, NEW a, NEW b, NEW m
  PROVE /\ <<a, b, Hello(m)>> \notin X /\ <<a, b, Reply(m)>> \notin X
        /\ <<a, b, Welcome(m)>> \notin X /\ <<a, b, AskFor(m)>> \notin X
        /\ <<a, b, Added(m)>> \notin X
<1>1. /\ Hello(m).type = "AcceptInvitee" /\ Reply(m).type = "AcceptInvitation"
      /\ Welcome(m).type = "AcceptBrokerClient" /\ AskFor(m).type = "AddBrokerClient"
      /\ Added(m).type = "BrokerClientAdded"
  BY MessageKinds
<1> QED BY <1>1 DEF QuietTypes

\* A step that sends only quiet messages leaves every invitation as it was.
LEMMA QuietStill ==
  ASSUME NEW C, NEW D, NEW W, NEW V, NEW S, NEW T, NEW B, NEW X, SameLinks(C, D), NEW m \in Guests,
         \A a, b, y : <<a, b, y>> \in X => y.type \in QuietTypes,
         \A x \in Guests : /\ Invitation(x) \in DOMAIN V <=> Invitation(x) \in DOMAIN W
                           /\ Client(x) \in DOMAIN V <=> Client(x) \in DOMAIN W,
         S \subseteq T, \A s \in T : s \in S \/ Intro(s[1])
  PROVE Still(C, D, W, V, S, T, B, X, m)
<1>1. \A a, b : /\ <<a, b, Hello(m)>> \notin X /\ <<a, b, Reply(m)>> \notin X
                /\ <<a, b, Welcome(m)>> \notin X /\ <<a, b, AskFor(m)>> \notin X
                /\ <<a, b, Added(m)>> \notin X
  BY QuietMessages
<1>2. m \in Node /\ Inviter[m] \in Node /\ Broker \in Node
  BY Constants
<1>3. ~Intro(Invitation(m)) /\ ~Intro(Client(m))
  BY BetweenFacts DEF Intro
<1>4. \A e : /\ <<Invitation(m), e>> \in T => <<Invitation(m), e>> \in S
             /\ <<Client(m), e>> \in T => <<Client(m), e>> \in S
  BY <1>3
<1> QED BY <1>1, <1>2, <1>4 DEF Still, SameLinks

\* Unchanged links leave the broker's clients as they were.
LEMMA SameClients ==
  ASSUME NEW C, NEW D, SameLinks(C, D), NEW n \in Node
  PROVE IsClient(D, n) <=> IsClient(C, n)
  BY DEF SameLinks, IsClient

\* A calm move keeps the first introduction on every way.
LEMMA CalmFirst ==
  ASSUME NEW W, NEW V, NEW B, Calm(W, V)
  PROVE SameFirst(W, V, B)
  BY DEF Calm, SameFirst

\* A step that sends only quiet messages and changes no link keeps the invariant.
LEMMA Quiet ==
  ASSUME Inv, Broker \in alive, Typed', alive' = alive, NEW X, Moves(wire, wire', X),
         \A a, b, y : <<a, b, y>> \in X => Fits(a, b, y) /\ y.type \in QuietTypes,
         DOMAIN wire' = DOMAIN wire, shut' = shut, SameLinks(ctl, ctl'),
         AsksNew(ctl', wire, wire', alive, X), SameFirst(wire, wire', alive),
         WaitsOK(ctl', send', merge'), AwaitsOK(ctl', wire', send', alive), LostOK(ctl', shut, alive)
  PROVE Inv'
<1>1. Broker \in Node /\ alive \subseteq Node
  BY Constants DEF Inv, Typed
<1>2. Numbered(wire')
  BY NumberedSame DEF Inv
<1>3. \A m \in Guests : Still(ctl, ctl', wire, wire', shut, shut', alive', X, m)
  <2>1. shut \subseteq shut' /\ \A s \in shut' : s \in shut \/ Intro(s[1])
    OBVIOUS
  <2>2. \A x \in Guests : /\ Invitation(x) \in DOMAIN wire' <=> Invitation(x) \in DOMAIN wire
                          /\ Client(x) \in DOMAIN wire' <=> Client(x) \in DOMAIN wire
    OBVIOUS
  <2>3. \A a, b, y : <<a, b, y>> \in X => y.type \in QuietTypes
    OBVIOUS
  <2> QED BY <2>1, <2>2, <2>3, QuietStill
<1>4. MeetsOK(ctl', wire', shut', alive')
  <2>1. /\ WireType(wire) /\ AllFit(wire) /\ PeersOK(ctl, wire) /\ AsksOK(ctl, wire, alive)
        /\ MeetsOK(ctl, wire, shut, alive)
    BY DEF Inv, Typed, Handler, Begin
  <2>2. \A n, m \in alive : Apart(n, m) => Peer(ctl', n, m) = Peer(ctl, n, m)
    BY <1>1 DEF SameLinks
  <2>3. \A n \in alive : \A c : Intro(c) /\ <<c, n>> \in shut' => <<c, n>> \in shut
    OBVIOUS
  <2>4. alive \subseteq alive
    OBVIOUS
  <2> QED BY <2>1, <2>2, <2>3, <2>4, MeetsKept
<1>5. /\ ctl'[Broker].inviter = ctl[Broker].inviter /\ ctl'[Broker].boot = ctl[Broker].boot
      /\ ctl'[Broker].broker = ctl[Broker].broker
      /\ \A n \in Node : \A c \in ctl'[n].invitations : c \in ctl[n].invitations
      /\ \A n \in Node : IsClient(ctl, n) => IsClient(ctl', n)
      /\ \A n, m \in Node : Peer(ctl', n, m) = Peer(ctl, n, m)
  BY <1>1, SameClients DEF SameLinks
<1>6. \A s \in shut' : s[1] \in DOMAIN wire'
  BY DEF Inv
<1> QED BY <1>2, <1>3, <1>4, <1>5, <1>6, Preserve

\* What a handler leaves is the next state.
LEMMA Committed ==
  ASSUME NEW st, Handler(st), Commit(st), alive' \subseteq Node, send' \in [Talks -> Sending]
  PROVE /\ Typed' /\ ctl' = st.ctl /\ wire' = st.wire /\ shut' = st.shut /\ merge' = st.merge
<1>1. ctl' = st.ctl /\ wire' = st.wire /\ shut' = st.shut /\ merge' = st.merge
  BY DEF Commit
<1>2. Handler(Begin)'
  <2>1. Begin' = [ctl |-> ctl', wire |-> wire', shut |-> shut', merge |-> merge']
    BY DEF Begin
  <2>2. st = Begin'
    BY <1>1, <2>1 DEF Handler
  <2>3. st.ctl \in [Node -> Controller] /\ WireType(st.wire) /\ st.shut \subseteq Chan \X Node
        /\ st.merge \in [Node -> Merging]
    BY DEF Handler
  <2> QED BY <1>1, <2>1, <2>3 DEF Handler, Begin
<1> QED BY <1>1, <1>2 DEF Typed

\* What the types of the variables say.
LEMMA TypedFacts ==
  ASSUME Typed
  PROVE /\ Handler(Begin) /\ Begin.ctl = ctl /\ Begin.wire = wire /\ Begin.shut = shut
        /\ Begin.merge = merge /\ ctl \in [Node -> Controller] /\ WireType(wire)
        /\ shut \subseteq Chan \X Node /\ merge \in [Node -> Merging]
        /\ alive \subseteq Node /\ send \in [Talks -> Sending]
  BY DEF Typed, Handler, Begin

\* The channel to a peer has an end for each of the two.
LEMMA PeerEnds ==
  ASSUME NEW C, NEW W, PeersOK(C, W), NEW n \in Node, NEW m \in Node, Peer(C, n, m) # NoChannel
  PROVE LET c == Peer(C, n, m) IN c \in DOMAIN W /\ n # m /\ Ends(c) = {n, m}
<1> DEFINE c == Peer(C, n, m)
<1>1. PeerOK(C, W, n, m)
  BY DEF PeersOK
<1>2. c \in DOMAIN W /\ n # m
  BY <1>1 DEF PeerOK
<1>3. CASE m # Broker /\ c = Invitation(m) /\ Inviter[m] = n
  BY <1>2, <1>3, Constants, InvitationFacts
<1>4. CASE n # Broker /\ c = Invitation(n) /\ Inviter[n] = m
  <2>1. n \in Guests
    BY <1>4, Constants
  <2>2. Ends(c) = {Inviter[n], n}
    BY <1>4, <2>1, InvitationFacts
  <2> QED BY <1>2, <1>4, <2>2
<1>5. CASE n = Broker /\ c = Client(m)
  BY <1>2, <1>5, Constants, InvitationFacts
<1>6. CASE m = Broker /\ c = Client(n)
  <2>1. n \in Guests
    BY <1>2, <1>6, Constants
  <2>2. Ends(c) = {Broker, n}
    BY <1>6, <2>1, InvitationFacts
  <2> QED BY <1>2, <1>6, <2>2
<1>7. CASE n # Broker /\ m # Broker /\ c \in Between(n, m)
  BY <1>2, <1>7, Constants, BetweenFacts
<1> QED BY <1>1, <1>2, <1>3, <1>4, <1>5, <1>6, <1>7 DEF PeerOK

\* A message without a channel is written, or lost.
Posted(st, r, n, c, e, x) ==
  /\ Handler(r) /\ r.ctl = st.ctl /\ r.merge = st.merge /\ r.shut = st.shut
  /\ DOMAIN r.wire = DOMAIN st.wire
  /\ Moves(st.wire, r.wire, {<<c, e, x>>}) /\ Calm(st.wire, r.wire)
  /\ \A a, b, y : On(st.wire, a, b, y) => On(r.wire, a, b, y)
  /\ Up(st, c, n, e) => On(r.wire, c, e, x)
  /\ x \in Events => Moves(st.wire, r.wire, {})
  /\ ~Up(st, c, n, e) => r.wire = st.wire

\* Posting a message without a channel.
LEMMA PostPlain ==
  ASSUME NEW st, Handler(st), NEW c \in DOMAIN st.wire, NEW n \in Node, NEW e \in Node,
         n # e, Ends(c) = {n, e}, NEW x \in Message, x.ch = NoChannel
  PROVE Posted(st, Post(st, n, c, x), n, c, e, x)
<1> DEFINE r == Post(st, n, c, x)
<1>1. /\ Handler(r) /\ r.ctl = st.ctl /\ r.merge = st.merge
      /\ Up(st, c, n, e) => r.shut = st.shut /\ Appends(st.wire, r.wire, c, e, <<x>>)
      /\ ~Up(st, c, n, e) => r.wire = st.wire /\ r.shut = st.shut
  BY PostFacts
<1>2. WireType(st.wire)
  BY DEF Handler
<1>3. \A m : ~IntroMsg(x, m)
  BY DEF IntroMsg
<1> HIDE DEF r
<1>4. CASE Up(st, c, n, e)
  <2>1. /\ Moves(st.wire, r.wire, {<<c, e, x>>}) /\ On(r.wire, c, e, x)
        /\ \A a, b, y : On(st.wire, a, b, y) => On(r.wire, a, b, y)
        /\ Calm(st.wire, r.wire)
    BY <1>1, <1>2, <1>3, <1>4, MovesOne
  <2>2. DOMAIN r.wire = DOMAIN st.wire
    BY <1>1, <1>4 DEF Appends
  <2>3. ASSUME x \in Events PROVE Moves(st.wire, r.wire, {})
    <3> DEFINE t == <<x>>
    <3>1. t \in Seq(Events)
      BY <2>3
    <3>2. Appends(st.wire, r.wire, c, e, t)
      BY <1>1, <1>4
    <3> HIDE DEF t
    <3> QED BY <1>2, <3>1, <3>2, MovesEvents
  <2> QED BY <1>1, <1>4, <2>1, <2>2, <2>3 DEF r, Posted
<1>5. CASE ~Up(st, c, n, e)
  <2>1. Moves(st.wire, r.wire, {}) /\ Calm(st.wire, r.wire)
    BY <1>1, <1>5, MovesNone
  <2>2. Moves(st.wire, r.wire, {<<c, e, x>>})
    BY <1>1, <1>5 DEF Moves
  <2> QED BY <1>1, <1>5, <2>1, <2>2 DEF r, Posted
<1> QED BY <1>4, <1>5

\* Nothing waits, and nothing is awaited, that was not before.
SameWaits(C, D) == \A n, m \in Node : D[n].queue[m] = C[n].queue[m]

\* A quiet step keeps what the queued events wait for.
LEMMA QuietWaits ==
  ASSUME Inv, Broker \in alive, NEW D, NEW V, NEW H, NEW K, SameLinks(ctl, D), SameWaits(ctl, D),
         \A p \in Talks : H[p].at = "idle" \/ (send[p].at # "idle" /\ H[p].via = send[p].via),
         \A m \in Node : K[m] = merge[m] \/ K[m] # "sending",
         \A p \in Talks : send[p].at = "asking" => H[p].at = "asking",
         Holds(wire, V, alive)
  PROVE WaitsOK(D, H, K) /\ AwaitsOK(D, V, H, alive)
<1>1. WaitsOK(ctl, send, merge) /\ AwaitsOK(ctl, wire, send, alive) /\ alive \subseteq Node
  BY DEF Inv, Typed
<1>2. \A n \in Node : IsClient(ctl, n) => IsClient(D, n)
  BY SameClients
<1>3. /\ \A n, m \in Node :
           /\ D[n].queue[m] = ctl[n].queue[m] \/ D[n].queue[m] = << >>
           /\ \/ Peer(D, n, m) = Peer(ctl, n, m) \/ Peer(D, n, m) = NoChannel
              \/ D[n].queue[m] = << >>
      /\ \A n \in alive, m \in Node : D[n].queue[m] = ctl[n].queue[m] \/ D[n].queue[m] = << >>
  BY <1>1 DEF SameLinks, SameWaits
<1>4. WaitsOK(D, H, K)
  BY <1>1, <1>2, <1>3, WaitsKept
<1>5. AwaitsOK(D, V, H, alive)
  <2>1. alive \subseteq alive
    OBVIOUS
  <2> QED BY <1>1, <1>3, <2>1, AwaitsKept
<1> QED BY <1>4, <1>5

\* Only the merges of ports, and the events on the wire, change.
LEMMA QuietWire ==
  ASSUME Inv, Broker \in alive, Typed', alive' = alive, ctl' = ctl, shut' = shut,
         DOMAIN wire' = DOMAIN wire, NEW X, Moves(wire, wire', X), Calm(wire, wire'),
         \A a, b, y : <<a, b, y>> \in X => Fits(a, b, y) /\ y.type = "RequestPortMerge",
         Holds(wire, wire', alive),
         \A p \in Talks : send'[p].at = "idle" \/ (send[p].at # "idle" /\ send'[p].via = send[p].via),
         \A p \in Talks : send[p].at = "asking" => send'[p].at = "asking",
         \A m \in Node : merge'[m] = merge[m] \/ merge'[m] # "sending"
  PROVE Inv'
<1>1. SameLinks(ctl, ctl') /\ SameWaits(ctl, ctl')
  BY DEF SameLinks, SameWaits
<1>2. WaitsOK(ctl', send', merge') /\ AwaitsOK(ctl', wire', send', alive)
  BY <1>1, QuietWaits
<1>3. LostOK(ctl', shut, alive)
  BY DEF Inv
<1>4. SameFirst(wire, wire', alive)
  BY CalmFirst
<1>5. \A n, m, d : /\ IntroReq(m).type # "RequestPortMerge" /\ Unknown(m).type # "RequestPortMerge"
                   /\ Meet(n, m, d).type # "RequestPortMerge"
  BY MessageFields
<1>6. AsksNew(ctl', wire, wire', alive, X)
  BY <1>5 DEF AsksNew
<1>7. \A a, b, y : <<a, b, y>> \in X => Fits(a, b, y) /\ y.type \in QuietTypes
  BY DEF QuietTypes
<1> QED BY <1>1, <1>2, <1>3, <1>4, <1>6, <1>7, Quiet

\* When no message is lost, every awaited message is still there.
LEMMA HoldsAll ==
  ASSUME NEW W, NEW V, NEW B, \A a, b, y : On(W, a, b, y) => On(V, a, b, y)
  PROVE Holds(W, V, B)
  BY DEF Holds

\* Taking a message that is not about introductions.
LEMMA TakeCalm ==
  ASSUME Inv, NEW n \in Node, NEW c \in Open(n), NEW type, Receives(n, c, type),
         type \notin {"RequestIntroduction", "Introduce"}
  PROVE LET r == Taken(n, c)
        IN Moves(wire, r.wire, {}) /\ Calm(wire, r.wire) /\ Holds(wire, r.wire, alive)
<1> DEFINE r == Taken(n, c)
           x == Head(Queue(wire, c, n))
<1>1. WireType(wire)
  BY TypedFacts DEF Inv
<1>2. Queue(wire, c, n) # << >> /\ x.type = type /\ Takes(wire, r.wire, c, n)
  BY ReadFacts
<1>3. \A m : ~IntroMsg(x, m)
  BY <1>2 DEF IntroMsg
<1> HIDE DEF r
<1>4. Moves(wire, r.wire, {}) /\ Calm(wire, r.wire) /\ Keeps(wire, r.wire, c, n)
  BY <1>1, <1>2, <1>3, MovesTake
<1>5. Holds(wire, r.wire, alive)
  BY <1>2, <1>4 DEF Holds, Keeps
<1> QED BY <1>4, <1>5 DEF r

-----------------------------------------------------------------------------
(***************************************************************************)
(* The steps, one by one.                                                  *)
(***************************************************************************)
LEMMA EventMessageStep ==
  ASSUME Inv, Broker \in alive, NEW n \in Node, NEW c \in Open(n), OnEventMessage(n, c)
  PROVE Inv'
<1> DEFINE r == Taken(n, c)
<1>1. Receives(n, c, "Event") /\ Commit(r) /\ alive' = alive /\ send' = send
  BY DEF OnEventMessage
<1>2. Handler(r) /\ r.ctl = ctl /\ r.merge = merge /\ r.shut = shut /\ DOMAIN r.wire = DOMAIN wire
  BY <1>1, ReadFacts
<1>3. Moves(wire, r.wire, {}) /\ Calm(wire, r.wire) /\ Holds(wire, r.wire, alive)
  BY <1>1, TakeCalm
<1> HIDE DEF r
<1>4. alive \subseteq Node /\ send \in [Talks -> Sending]
  BY TypedFacts DEF Inv
<1>5. /\ Typed' /\ ctl' = ctl /\ wire' = r.wire /\ shut' = shut /\ merge' = merge
  BY <1>1, <1>2, <1>4, Committed
<1>6. \A p \in Talks : send'[p].at = "idle" \/ (send[p].at # "idle" /\ send'[p].via = send[p].via)
  BY <1>1
<1> QED BY <1>1, <1>2, <1>3, <1>5, <1>6, QuietWire

\* The inviter reads a request to merge a port.
LEMMA RequestPortMergeRead ==
  ASSUME Inv, Broker \in alive, NEW n \in Node, NEW c \in Open(n), OnRequestPortMerge(n, c)
  PROVE Inv'
<1> DEFINE r == Taken(n, c)
           x == RemoteName(n, c)
           G == [merge EXCEPT ![x] = IF Reserves(n, x) THEN "merged" ELSE @]
           q == [r EXCEPT !.merge[x] = IF Reserves(n, x) THEN "merged" ELSE @]
<1>1. Receives(n, c, "RequestPortMerge") /\ Commit(q) /\ alive' = alive /\ send' = send
  BY DEF OnRequestPortMerge
<1>2. Handler(r) /\ r.ctl = ctl /\ r.merge = merge /\ r.shut = shut /\ DOMAIN r.wire = DOMAIN wire
  BY <1>1, ReadFacts
<1>3. Moves(wire, r.wire, {}) /\ Calm(wire, r.wire) /\ Holds(wire, r.wire, alive)
  BY <1>1, TakeCalm
<1>4. alive \subseteq Node /\ send \in [Talks -> Sending] /\ merge \in [Node -> Merging]
  BY TypedFacts DEF Inv
<1>5. G \in [Node -> Merging] /\ \A m \in Node : G[m] = merge[m] \/ G[m] # "sending"
  <2>1. CASE Reserves(n, x)
    <3>1. PICK y : y = x
      OBVIOUS
    <3>2. [merge EXCEPT ![y] = "merged"] \in [Node -> Merging]
          /\ \A m \in Node : [merge EXCEPT ![y] = "merged"][m] = IF m = y THEN "merged" ELSE merge[m]
      BY <1>4 DEF Merging
    <3>3. G = [merge EXCEPT ![y] = "merged"]
      BY <2>1, <3>1
    <3> HIDE DEF G
    <3> QED BY <3>2, <3>3
  <2>2. CASE ~Reserves(n, x)
    <3>1. G = merge
      BY <1>4, <2>2
    <3> QED BY <1>4, <3>1
  <2> QED BY <2>1, <2>2
<1> HIDE DEF r, x
<1>6. q = [ctl |-> ctl, wire |-> r.wire, shut |-> shut, merge |-> G]
  BY <1>2 DEF Handler
<1> HIDE DEF G, q
<1>7. Handler(q) /\ q.ctl = ctl /\ q.wire = r.wire /\ q.shut = shut /\ q.merge = G
  BY <1>2, <1>5, <1>6 DEF Handler
<1>8. Typed' /\ ctl' = ctl /\ wire' = r.wire /\ shut' = shut /\ merge' = G
  BY <1>1, <1>4, <1>7, Committed
<1>9. \A p \in Talks : send'[p].at = "idle" \/ (send[p].at # "idle" /\ send'[p].via = send[p].via)
  BY <1>1
<1> QED BY <1>1, <1>2, <1>3, <1>5, <1>8, <1>9, QuietWire

\* The parts of the invariant about one guest.
LEMMA GuestFacts ==
  ASSUME Inv, NEW m \in Guests
  PROVE /\ NameOK(ctl, wire, m) /\ StageOK(ctl, wire, shut, alive, m)
        /\ LinkOK(ctl, wire, shut, alive, m)
  BY DEF Inv, NamesOK, StagesOK, LinksOK

\* A living client of the broker and the broker.
LEMMA ClientFacts ==
  ASSUME Inv, Broker \in alive, NEW n \in Guests, n \in alive, IsClient(ctl, n)
  PROVE /\ ctl[n].broker = Broker /\ BrokerChannel(n) = Via(n)
        /\ Peer(ctl, n, Broker) = Via(n) /\ Peer(ctl, Broker, n) = Via(n)
        /\ Via(n) \in DOMAIN wire /\ Via(n) # NoChannel /\ Ends(Via(n)) = {Broker, n}
        /\ Via(n) \in Chan
        /\ <<Via(n), n>> \notin shut /\ <<Via(n), Broker>> \notin shut
        /\ Up(Begin, Via(n), n, Broker) /\ Up(Begin, Via(n), Broker, n)
<1>1. n # Broker /\ n \in Node
  BY Constants
<1>2. NameOK(ctl, wire, n) /\ LinkOK(ctl, wire, shut, alive, n)
  BY GuestFacts
<1>3. ctl[n].broker = Broker /\ Via(n) \in DOMAIN wire
  BY <1>1, <1>2 DEF NameOK, IsClient
<1>4. /\ Peer(ctl, n, Broker) = Via(n) /\ Peer(ctl, Broker, n) = Via(n)
      /\ <<Via(n), n>> \notin shut /\ <<Via(n), Broker>> \notin shut
  BY <1>2 DEF LinkOK
<1>5. BrokerChannel(n) = Via(n)
  BY <1>1, <1>3, <1>4 DEF BrokerChannel, Peer
<1>6. Via(n) # NoChannel /\ Ends(Via(n)) = {Broker, n} /\ Via(n) \in Chan
  BY InvitationFacts
<1>7. Up(Begin, Via(n), n, Broker) /\ Up(Begin, Via(n), Broker, n)
  BY <1>4 DEF Up, Begin
<1> QED BY <1>3, <1>4, <1>5, <1>6, <1>7

\* A process that has its inviter as a peer is a client of the broker.
LEMMA InviterKnown ==
  ASSUME Inv, NEW m \in Node, InviterChannel(ctl[m]) # NoChannel
  PROVE /\ m \in Guests /\ IsClient(ctl, m) /\ ctl[m].inviter = Inviter[m]
        /\ ctl[m].boot = NoChannel
<1>1. ctl[m] \in Controller /\ NoNode \notin Node
  BY TypedFacts, Constants DEF Inv
<1>2. ctl[m].inviter \in DOMAIN ctl[m].peers
  BY DEF InviterChannel, PeerChannel
<1>3. DOMAIN ctl[m].peers \subseteq Node
  BY <1>1 DEF Controller, PeerMaps
<1>4. ctl[m].inviter # NoNode
  BY <1>1, <1>2, <1>3
<1>5. m \in Guests
  BY <1>4, Constants DEF Inv, NamesOK
<1>6. NameOK(ctl, wire, m)
  BY <1>5, GuestFacts
<1>7. ctl[m].inviter = Inviter[m] /\ Invitation(m) \in DOMAIN wire
  BY <1>4, <1>6 DEF NameOK
<1>8. Peer(ctl, m, Inviter[m]) # NoChannel
  BY <1>7 DEF InviterChannel, Peer
<1>9. PeerOK(ctl, wire, m, Inviter[m])
  BY <1>2, <1>3, <1>7 DEF Inv, PeersOK
<1>10. Inviter[m] # m /\ (Inviter[m] # Broker => Inviter[Inviter[m]] # m)
  BY <1>6, <1>7 DEF NameOK
<1>11. IsClient(ctl, m)
  BY <1>5, <1>8, <1>9, <1>10, Constants DEF PeerOK
<1>12. ctl[m].boot = NoChannel
  BY <1>5, <1>6, <1>11, Constants DEF IsClient, NameOK
<1> QED BY <1>5, <1>7, <1>11, <1>12

\* A guest merges a port into its inviter's.
LEMMA MergeStep ==
  ASSUME Inv, Broker \in alive, NEW m \in Node, MergePortIntoInviter(m)
  PROVE Inv'
<1> DEFINE v == IF ctl[m].reject THEN "closed"
                ELSE IF InviterChannel(ctl[m]) = NoChannel THEN "pending" ELSE "sending"
           G == [merge EXCEPT ![m] = v]
           q == [Begin EXCEPT !.merge[m] = v]
<1>1. Commit(q) /\ alive' = alive /\ send' = send
  BY DEF MergePortIntoInviter
<1>2. /\ Handler(Begin) /\ Begin.ctl = ctl /\ Begin.wire = wire /\ Begin.shut = shut
      /\ Begin.merge = merge /\ alive \subseteq Node /\ send \in [Talks -> Sending]
      /\ merge \in [Node -> Merging]
  BY TypedFacts DEF Inv
<1>3. v \in Merging /\ (v = "sending" => m # Broker /\ IsClient(ctl, m))
  BY InviterKnown, Constants DEF Merging
<1> HIDE DEF v
<1>4. G \in [Node -> Merging] /\ G[m] = v /\ \A x \in Node : x # m => G[x] = merge[x]
  BY <1>2, <1>3
<1>5. q = [ctl |-> ctl, wire |-> wire, shut |-> shut, merge |-> G]
  BY <1>2 DEF Handler
<1> HIDE DEF G, q
<1>6. Handler(q) /\ q.ctl = ctl /\ q.wire = wire /\ q.shut = shut /\ q.merge = G
  BY <1>2, <1>4, <1>5 DEF Handler
<1>7. Typed' /\ ctl' = ctl /\ wire' = wire /\ shut' = shut /\ merge' = G
  BY <1>1, <1>2, <1>6, Committed
<1>8. WaitsOK(ctl, send, merge)
  BY DEF Inv
<1>9. \A x \in Node : merge'[x] = "sending" => x # Broker /\ IsClient(ctl, x)
  BY <1>3, <1>4, <1>7, <1>8 DEF WaitsOK
<1>10. WaitsOK(ctl', send', merge')
  BY <1>1, <1>7, <1>8, <1>9 DEF WaitsOK
<1> QED BY <1>1, <1>7, <1>10 DEF Inv

\* A guest sends the request to merge a port.
LEMMA RequestPortMergeStep ==
  ASSUME Inv, Broker \in alive, NEW m \in Node, RequestPortMerge(m)
  PROVE Inv'
<1> DEFINE G == [merge EXCEPT ![m] = "sent"]
           q == [Begin EXCEPT !.merge[m] = "sent"]
           r == Post(q, m, Invitation(m), MergeReq(m))
<1>1. merge[m] = "sending" /\ Commit(r) /\ alive' = alive /\ send' = send
  BY DEF RequestPortMerge, MergeReq
<1>2. /\ Handler(Begin) /\ Begin.ctl = ctl /\ Begin.wire = wire /\ Begin.shut = shut
      /\ Begin.merge = merge /\ alive \subseteq Node /\ send \in [Talks -> Sending]
      /\ merge \in [Node -> Merging]
  BY TypedFacts DEF Inv
<1>3. m \in Guests /\ IsClient(ctl, m) /\ Inviter[m] \in Node /\ m # Broker
  BY <1>1, Constants DEF Inv, WaitsOK
<1>4. NameOK(ctl, wire, m)
  BY <1>3, GuestFacts
<1>5. Invitation(m) \in DOMAIN wire /\ Inviter[m] # m
  BY <1>3, <1>4 DEF NameOK, IsClient
<1>6. G \in [Node -> Merging] /\ \A x \in Node : G[x] = merge[x] \/ G[x] # "sending"
  BY <1>2 DEF Merging
<1>7. q = [ctl |-> ctl, wire |-> wire, shut |-> shut, merge |-> G]
  BY <1>2 DEF Handler
<1> HIDE DEF G, q
<1>8. Handler(q) /\ q.ctl = ctl /\ q.wire = wire /\ q.shut = shut /\ q.merge = G
  BY <1>2, <1>6, <1>7 DEF Handler
<1>9. MergeReq(m) \in Message /\ MergeReq(m).ch = NoChannel /\ MergeReq(m).type = "RequestPortMerge"
  BY <1>3, MessageFields, MessageTypes
<1>10. Ends(Invitation(m)) = {m, Inviter[m]}
  BY <1>3, InvitationFacts
<1>11. /\ Handler(r) /\ r.ctl = ctl /\ r.merge = G /\ r.shut = shut
       /\ DOMAIN r.wire = DOMAIN wire
       /\ Moves(wire, r.wire, {<<Invitation(m), Inviter[m], MergeReq(m)>>}) /\ Calm(wire, r.wire)
       /\ \A a, b, y : On(wire, a, b, y) => On(r.wire, a, b, y)
  <2>1. /\ Handler(r) /\ r.ctl = q.ctl /\ r.merge = q.merge /\ r.shut = q.shut
        /\ DOMAIN r.wire = DOMAIN q.wire
        /\ Moves(q.wire, r.wire, {<<Invitation(m), Inviter[m], MergeReq(m)>>}) /\ Calm(q.wire, r.wire)
        /\ \A a, b, y : On(q.wire, a, b, y) => On(r.wire, a, b, y)
    <3>1. Invitation(m) \in DOMAIN q.wire
      BY <1>5, <1>8
    <3>2. Posted(q, r, m, Invitation(m), Inviter[m], MergeReq(m))
      BY <1>3, <1>5, <1>8, <1>9, <1>10, <3>1, PostPlain
    <3> QED BY <3>2 DEF Posted
  <2> HIDE DEF r
  <2> QED BY <1>8, <2>1
<1> HIDE DEF r
<1>12. Typed' /\ ctl' = ctl /\ wire' = r.wire /\ shut' = shut /\ merge' = G
  BY <1>1, <1>2, <1>11, Committed
<1>13. Holds(wire, wire', alive)
  BY <1>11, <1>12, HoldsAll
<1>14. Fits(Invitation(m), Inviter[m], MergeReq(m))
  BY <1>3 DEF Fits
<1>15. \A p \in Talks : send'[p].at = "idle" \/ (send[p].at # "idle" /\ send'[p].via = send[p].via)
  BY <1>1
<1>16. \A a, b, y : <<a, b, y>> \in {<<Invitation(m), Inviter[m], MergeReq(m)>>} =>
         Fits(a, b, y) /\ y.type = "RequestPortMerge"
  BY <1>9, <1>14
<1> QED BY <1>1, <1>6, <1>11, <1>12, <1>13, <1>15, <1>16, QuietWire

\* What a step of a sending thread does to its record.
SendIs(p, u) == send' = [send EXCEPT ![p] = u]

\* One talk moves on and the others stay.
LEMMA SendTyped ==
  ASSUME send \in [Talks -> Sending], NEW p \in Talks, NEW u \in Sending, SendIs(p, u)
  PROVE /\ send' \in [Talks -> Sending] /\ send'[p] = u
        /\ \A x \in Talks : x # p => send'[x] = send[x]
  BY DEF SendIs

\* An event is written to a peer.
LEMMA EventPosted ==
  ASSUME Inv, Broker \in alive, NEW n \in Node, NEW m \in Node, Peer(ctl, n, m) # NoChannel,
         NEW x \in Events, Commit(Post(Begin, n, Peer(ctl, n, m), x)), alive' = alive,
         NEW p \in Talks, NEW u \in Sending, u.at = "idle", send[p].at # "asking", SendIs(p, u)
  PROVE Inv'
<1> DEFINE c == Peer(ctl, n, m)
           r == Post(Begin, n, c, x)
<1>1. /\ Handler(Begin) /\ Begin.ctl = ctl /\ Begin.wire = wire /\ Begin.shut = shut
      /\ Begin.merge = merge /\ alive \subseteq Node /\ send \in [Talks -> Sending]
  BY TypedFacts DEF Inv
<1>2. c \in DOMAIN wire /\ n # m /\ Ends(c) = {n, m}
  BY PeerEnds DEF Inv
<1>3. x \in Message /\ x.ch = NoChannel
  BY EventFields DEF Message
<1> HIDE DEF c
<1>4. /\ Handler(r) /\ r.ctl = ctl /\ r.merge = merge /\ r.shut = shut
      /\ DOMAIN r.wire = DOMAIN wire /\ Moves(wire, r.wire, {}) /\ Calm(wire, r.wire)
      /\ \A a, b, y : On(wire, a, b, y) => On(r.wire, a, b, y)
  <2>1. /\ Handler(r) /\ r.ctl = Begin.ctl /\ r.merge = Begin.merge /\ r.shut = Begin.shut
        /\ DOMAIN r.wire = DOMAIN Begin.wire
        /\ Moves(Begin.wire, r.wire, {}) /\ Calm(Begin.wire, r.wire)
        /\ \A a, b, y : On(Begin.wire, a, b, y) => On(r.wire, a, b, y)
    <3>1. c \in DOMAIN Begin.wire
      BY <1>1, <1>2
    <3>2. Posted(Begin, r, n, c, m, x)
      BY <1>1, <1>2, <1>3, <3>1, PostPlain
    <3> QED BY <3>2 DEF Posted
  <2> HIDE DEF r
  <2> QED BY <1>1, <2>1
<1>5. Commit(r)
  BY DEF c
<1> HIDE DEF r
<1>6. send' \in [Talks -> Sending] /\ send'[p] = u /\ \A y \in Talks : y # p => send'[y] = send[y]
  BY <1>1, SendTyped
<1>7. Typed' /\ ctl' = ctl /\ wire' = r.wire /\ shut' = shut /\ merge' = merge
  BY <1>1, <1>4, <1>5, <1>6, Committed
<1>8. Holds(wire, wire', alive)
  BY <1>4, <1>7, HoldsAll
<1>9. /\ \A y \in Talks : send'[y].at = "idle" \/ (send[y].at # "idle" /\ send'[y].via = send[y].via)
      /\ \A y \in Talks : send[y].at = "asking" => send'[y].at = "asking"
  BY <1>6
<1> QED BY <1>4, <1>7, <1>8, <1>9, QuietWire

\* A thread looks the peer up and sends or goes on to queue (node_controller.cc:569).
LEMMA SendPeerEventStep ==
  ASSUME Inv, Broker \in alive, NEW p \in Talks, SendPeerEvent(p)
  PROVE Inv'
<1> DEFINE n == p[1]
           m == p[2]
           u == [send[p] EXCEPT !.count = @ + 1]
           v == [at |-> "queueing", count |-> send[p].count + 1, via |-> BrokerChannel(n)]
           e == Event(p, send[p].count + 1)
           direct == PeerChannel(ctl[n], m)
<1>1. /\ Handler(Begin) /\ Begin.ctl = ctl /\ Begin.wire = wire /\ Begin.shut = shut
      /\ Begin.merge = merge /\ alive \subseteq Node /\ send \in [Talks -> Sending]
      /\ ctl \in [Node -> Controller]
  BY TypedFacts DEF Inv
<1>2. n \in Node /\ m \in Node /\ n # m
  BY Constants
<1>3. /\ n \in alive /\ IsClient(ctl, n) /\ IsClient(ctl, m) /\ send[p].at = "idle" /\ alive' = alive
  BY DEF SendPeerEvent, Accepted, IsClient
<1>4. send[p] \in Sending /\ send[p].count + 1 \in Nat
  BY <1>1 DEF Sending
<1>5. u \in Sending /\ u.at = "idle" /\ e \in Events
  BY <1>3, <1>4 DEF Sending, Events
<1>6. CASE direct # NoChannel
  <2>1. SendIs(p, u) /\ Commit(Post(Begin, n, direct, e))
    BY <1>6 DEF SendPeerEvent, SendIs
  <2>2. direct = Peer(ctl, n, m)
    BY DEF Peer
  <2> HIDE DEF n, m, u, e, direct
  <2> QED BY <1>2, <1>3, <1>5, <1>6, <2>1, <2>2, EventPosted
<1>7. CASE direct = NoChannel
  <2>1. Commit(Begin)
    BY <1>7 DEF SendPeerEvent
  <2>2. CASE BrokerChannel(n) = NoChannel
    <3>1. SendIs(p, u)
      BY <1>7, <2>2 DEF SendPeerEvent, SendIs
    <3> HIDE DEF n, m, u
    <3>2. send' \in [Talks -> Sending] /\ send'[p] = u /\ \A y \in Talks : y # p => send'[y] = send[y]
      BY <1>1, <1>5, <3>1, SendTyped
    <3>3. Typed' /\ ctl' = ctl /\ wire' = wire /\ shut' = shut /\ merge' = merge
      BY <1>1, <1>3, <2>1, <3>2, Committed
    <3>4. /\ \A y \in Talks : send'[y].at = "idle" \/ (send[y].at # "idle" /\ send'[y].via = send[y].via)
          /\ \A y \in Talks : send[y].at = "asking" => send'[y].at = "asking"
      BY <1>3, <1>5, <3>2
    <3>5. Moves(wire, wire', {}) /\ Calm(wire, wire') /\ Holds(wire, wire', alive)
      BY <3>3, MovesNone DEF Holds
    <3> QED BY <1>3, <3>3, <3>4, <3>5, QuietWire
  <2>3. CASE BrokerChannel(n) # NoChannel
    <3>1. n # Broker /\ n \in Guests
      BY <1>2, <2>3, Constants DEF BrokerChannel
    <3>2. BrokerChannel(n) = Via(n) /\ Peer(ctl, n, Broker) = Via(n) /\ Via(n) \in Chan
          /\ Via(n) # NoChannel
      BY <1>3, <3>1, ClientFacts
    <3>3. m \in Guests
      BY <1>2, <1>7, <3>2, Constants DEF Peer
    <3>4. SendIs(p, v) /\ v \in Sending /\ v.at = "queueing" /\ v.via = Via(n)
      <4>1. v \in Sending /\ v.at = "queueing" /\ v.via = Via(n)
        BY <1>4, <3>2 DEF Sending
      <4>2. send' = [[send EXCEPT ![p].count = @ + 1] EXCEPT ![p].at = "queueing",
                                                            ![p].via = BrokerChannel(n)]
        BY <1>7, <2>3 DEF SendPeerEvent
      <4>3. [[send EXCEPT ![p].count = @ + 1] EXCEPT ![p].at = "queueing",
                                                     ![p].via = BrokerChannel(n)]
              = [send EXCEPT ![p] = v]
        <5> DEFINE t == send[p]
                   t1 == [t EXCEPT !.count = @ + 1]
                   t2 == [t1 EXCEPT !.at = "queueing"]
                   t3 == [t2 EXCEPT !.via = BrokerChannel(n)]
                   s1 == [send EXCEPT ![p] = t1]
                   s2 == [s1 EXCEPT ![p] = t2]
                   s3 == [s2 EXCEPT ![p] = t3]
        <5>1. t3 = v
          <6>1. PICK b : b = BrokerChannel(n)
            OBVIOUS
          <6>2. PICK z \in Sending : z = send[p]
            BY <1>4
          <6>3. z = [at |-> z.at, count |-> z.count, via |-> z.via]
            BY DEF Sending
          <6>4. [[[z EXCEPT !.count = @ + 1] EXCEPT !.at = "queueing"] EXCEPT !.via = b]
                  = [at |-> "queueing", count |-> z.count + 1, via |-> b]
            <7>1. PICK a, k, w : z = [at |-> a, count |-> k, via |-> w]
              BY <6>3
            <7>2. z.count = k /\ [z EXCEPT !.count = @ + 1] = [at |-> a, count |-> k + 1, via |-> w]
              BY <7>1
            <7>3. [[at |-> a, count |-> k + 1, via |-> w] EXCEPT !.at = "queueing"]
                    = [at |-> "queueing", count |-> k + 1, via |-> w]
              OBVIOUS
            <7>4. [[at |-> "queueing", count |-> k + 1, via |-> w] EXCEPT !.via = b]
                    = [at |-> "queueing", count |-> k + 1, via |-> b]
              OBVIOUS
            <7> QED BY <7>2, <7>3, <7>4
          <6> QED BY <6>1, <6>2, <6>4
        <5> HIDE DEF v
        <5>2. s1[p] = t1 /\ s2[p] = t2 /\ s3 = [send EXCEPT ![p] = t3]
          BY <1>1
        <5>3. [send EXCEPT ![p].count = @ + 1] = s1
          OBVIOUS
        <5> HIDE DEF t1, s1
        <5>4. [s1 EXCEPT ![p].at = "queueing"] = s2
          BY <5>2
        <5>5. [s1 EXCEPT ![p].at = "queueing", ![p].via = BrokerChannel(n)]
                = [[s1 EXCEPT ![p].at = "queueing"] EXCEPT ![p].via = BrokerChannel(n)]
          OBVIOUS
        <5> HIDE DEF t2, s2
        <5>6. [s2 EXCEPT ![p].via = BrokerChannel(n)] = s3
          BY <5>2
        <5> QED BY <5>1, <5>2, <5>3, <5>4, <5>5, <5>6
      <4> QED BY <4>1, <4>2, <4>3 DEF SendIs
    <3> HIDE DEF u, v, direct, e
    <3>5. send' \in [Talks -> Sending] /\ send'[p] = v /\ \A y \in Talks : y # p => send'[y] = send[y]
      BY <1>1, <3>4, SendTyped
    <3>6. Typed' /\ ctl' = ctl /\ wire' = wire /\ shut' = shut /\ merge' = merge
      BY <1>1, <1>3, <2>1, <3>5, Committed
    <3>7. WaitsOK(ctl, send, merge) /\ AwaitsOK(ctl, wire, send, alive)
      BY DEF Inv
    <3>8. WaitsOK(ctl', send', merge')
      BY <1>3, <3>1, <3>3, <3>4, <3>5, <3>6, <3>7 DEF WaitsOK
    <3>9. \A y \in Talks : send[y].at = "asking" => send'[y].at = "asking"
      BY <1>3, <3>5
    <3>10. AwaitsOK(ctl', wire', send', alive')
      BY <1>3, <3>6, <3>7, <3>9 DEF AwaitsOK, Await
    <3> QED BY <1>3, <3>6, <3>8, <3>10 DEF Inv
  <2> QED BY <2>2, <2>3
<1> QED BY <1>6, <1>7

\* Event e is added to what waits for m.
PutQueue(st, n, m, Q) == [st EXCEPT !.ctl[n].queue[m] = Q]

QueuePut(st, r, n, m, Q) ==
  /\ Handler(r) /\ r.wire = st.wire /\ r.shut = st.shut /\ r.merge = st.merge
  /\ SameLinks(st.ctl, r.ctl)
  /\ \A x \in Node : r.ctl[x].lost = st.ctl[x].lost
  /\ \A x, y \in Node : r.ctl[x].queue[y] = IF x = n /\ y = m THEN Q ELSE st.ctl[x].queue[y]

\* A sequence with one more element.
LEMMA AppendOne ==
  ASSUME NEW S, NEW s \in Seq(S), NEW x \in S
  PROVE Append(s, x) \in Seq(S) /\ Append(s, x) # << >>
<1>1. Append(s, x) \in Seq(S) /\ Len(Append(s, x)) = Len(s) + 1 /\ Len(s) \in Nat
  OBVIOUS
<1>2. Len(<< >>) = 0
  OBVIOUS
<1> QED BY <1>1, <1>2

\* What a write of one queue of pending events does.
LEMMA PutQueueFacts ==
  ASSUME NEW st, Handler(st), NEW n \in Node, NEW m \in Node, NEW Q \in Seq(Events)
  PROVE QueuePut(st, PutQueue(st, n, m, Q), n, m, Q)
<1> DEFINE t == st.ctl[n]
           K == [t.queue EXCEPT ![m] = Q]
           u == [t EXCEPT !.queue = K]
           D == [st.ctl EXCEPT ![n] = u]
           r == PutQueue(st, n, m, Q)
<1>1. st.ctl \in [Node -> Controller] /\ t \in Controller
  BY DEF Handler
<1>2. r = [ctl |-> D, wire |-> st.wire, shut |-> st.shut, merge |-> st.merge]
  <2>1. st = [ctl |-> st.ctl, wire |-> st.wire, shut |-> st.shut, merge |-> st.merge]
    BY DEF Handler
  <2> QED BY SMTT(20), <1>1, <2>1 DEF PutQueue
<1>3. K \in [Node -> Seq(Events)] /\ \A y \in Node : K[y] = IF y = m THEN Q ELSE t.queue[y]
  BY <1>1 DEF Controller
<1> HIDE DEF K
<1>4. /\ u \in Controller /\ u.queue = K /\ u.peers = t.peers /\ u.inviter = t.inviter
      /\ u.boot = t.boot /\ u.broker = t.broker /\ u.invitations = t.invitations /\ u.lost = t.lost
  BY <1>1, <1>3 DEF Controller
<1> HIDE DEF u
<1>5. D \in [Node -> Controller] /\ D[n] = u /\ \A x \in Node : x # n => D[x] = st.ctl[x]
  BY <1>1, <1>4
<1> HIDE DEF D, r
<1>6. Handler(r) /\ r.ctl = D /\ r.wire = st.wire /\ r.shut = st.shut /\ r.merge = st.merge
  BY <1>2, <1>5 DEF Handler
<1>7. SameLinks(st.ctl, D)
  BY <1>4, <1>5 DEF SameLinks, Peer, PeerChannel
<1>8. \A x \in Node : D[x].lost = st.ctl[x].lost
  BY <1>4, <1>5
<1>9. \A x, y \in Node : D[x].queue[y] = IF x = n /\ y = m THEN Q ELSE st.ctl[x].queue[y]
  BY <1>3, <1>4, <1>5
<1> QED BY <1>6, <1>7, <1>8, <1>9 DEF r, QueuePut

\* A thread queues its event for a peer that it did not find.
LEMMA QueueEventStep ==
  ASSUME Inv, Broker \in alive, NEW p \in Talks, QueueEvent(p)
  PROVE Inv'
<1> DEFINE n == p[1]
           m == p[2]
           e == Event(p, send[p].count)
           first == ~Has(n, m) /\ ctl[n].queue[m] = << >>
           u == [send[p] EXCEPT !.at = IF first THEN "asking" ELSE "idle"]
           Q == Append(ctl[n].queue[m], e)
<1>1. /\ Handler(Begin) /\ Begin.ctl = ctl /\ Begin.wire = wire /\ Begin.shut = shut
      /\ Begin.merge = merge /\ alive \subseteq Node /\ send \in [Talks -> Sending]
      /\ ctl \in [Node -> Controller]
  BY TypedFacts DEF Inv
<1>2. n \in Node /\ m \in Node /\ n # m
  BY Constants
<1>3. n \in alive /\ send[p].at = "queueing" /\ alive' = alive
  BY DEF QueueEvent
<1>4. /\ n \in Guests /\ m \in Guests /\ IsClient(ctl, n) /\ IsClient(ctl, m) /\ send[p].via = Via(n)
  BY <1>3 DEF Inv, WaitsOK
<1>5. send[p] \in Sending /\ e \in Events
  <2>1. send[p] \in Sending
    BY <1>1
  <2> QED BY <2>1 DEF Sending, Events
<1>6. /\ u \in Sending /\ u.at = IF first THEN "asking" ELSE "idle"
      /\ u.via = Via(n)
  BY <1>4, <1>5 DEF Sending
<1>7. SendIs(p, u)
  <2>1. send' = [send EXCEPT ![p].at = IF first THEN "asking" ELSE "idle"]
    BY DEF QueueEvent
  <2> QED BY <1>1, <2>1 DEF SendIs
<1>8. ctl[n] \in Controller
  BY <1>1, <1>2
<1>9. CASE Has(n, m)
  <2>1. Commit(Post(Begin, n, ctl[n].peers[m], e)) /\ u.at = "idle"
    BY <1>6, <1>9 DEF QueueEvent
  <2>2. ctl[n].peers[m] = Peer(ctl, n, m) /\ Peer(ctl, n, m) # NoChannel
    BY <1>8, <1>9, NoChannelIsNone DEF Has, Peer, PeerChannel, Controller, PeerMaps
  <2> HIDE DEF n, m, e, u
  <2> QED BY <1>2, <1>3, <1>5, <1>6, <1>7, <2>1, <2>2, EventPosted
<1>10. CASE ~Has(n, m)
  <2> DEFINE r == PutQueue(Begin, n, m, Q)
  <2>1. Commit(r)
    BY <1>1, <1>10 DEF QueueEvent, PutQueue
  <2>2. ctl[n].queue[m] \in Seq(Events) /\ Q \in Seq(Events) /\ Q # << >>
    <3>1. ctl[n].queue[m] \in Seq(Events)
      BY <1>2, <1>8 DEF Controller
    <3> HIDE DEF e
    <3> QED BY <1>5, <3>1, AppendOne
  <2>3. Peer(ctl, n, m) = NoChannel
    BY <1>10 DEF Has, Peer, PeerChannel
  <2>4. first <=> ctl[n].queue[m] = << >>
    BY <1>10
  <2> HIDE DEF Q, u, e, first
  <2>5. /\ Handler(r) /\ r.wire = Begin.wire /\ r.shut = Begin.shut /\ r.merge = Begin.merge
        /\ SameLinks(Begin.ctl, r.ctl)
        /\ \A x \in Node : r.ctl[x].lost = Begin.ctl[x].lost
        /\ \A x, y \in Node : r.ctl[x].queue[y] = IF x = n /\ y = m THEN Q ELSE Begin.ctl[x].queue[y]
    <3>1. QueuePut(Begin, r, n, m, Q)
      BY <1>1, <1>2, <2>2, PutQueueFacts
    <3> QED BY <3>1 DEF QueuePut
  <2> HIDE DEF r
  <2>6. send' \in [Talks -> Sending] /\ send'[p] = u /\ \A y \in Talks : y # p => send'[y] = send[y]
    BY <1>1, <1>6, <1>7, SendTyped
  <2>7. Typed' /\ ctl' = r.ctl /\ wire' = wire /\ shut' = shut /\ merge' = merge
    BY <1>1, <1>3, <2>1, <2>5, <2>6, Committed
  <2>8. SameLinks(ctl, ctl')
    BY <1>1, <2>5, <2>7
  <2>9. \A x, y \in Node : ctl'[x].queue[y] = IF x = n /\ y = m THEN Q ELSE ctl[x].queue[y]
    BY <1>1, <2>5, <2>7
  <2>10. WaitsOK(ctl, send, merge) /\ AwaitsOK(ctl, wire, send, alive) /\ LostOK(ctl, shut, alive)
    BY DEF Inv
  <2>11. WaitsOK(ctl', send', merge')
    <3>1. \A x \in Node : IsClient(ctl', x) <=> IsClient(ctl, x)
      BY <2>8, SameClients
    <3>2. ASSUME NEW y \in Talks, send'[y].at # "idle"
          PROVE /\ y[1] \in Guests /\ y[2] \in Guests /\ IsClient(ctl', y[1]) /\ IsClient(ctl', y[2])
                /\ send'[y].via = Via(y[1])
      <4>1. CASE y = p
        BY <1>2, <1>4, <1>6, <2>6, <3>1, <4>1
      <4>2. CASE y # p
        BY <2>6, <2>10, <3>1, <3>2, <4>2, Constants DEF WaitsOK
      <4> QED BY <4>1, <4>2
    <3>3. ASSUME NEW x \in Node, NEW y \in Node, ctl'[x].queue[y] # << >>
          PROVE IsClient(ctl', x) /\ IsClient(ctl', y) /\ Peer(ctl', x, y) = NoChannel
      <4>1. CASE x = n /\ y = m
        BY <1>2, <1>4, <2>3, <2>8, <3>1, <4>1 DEF SameLinks
      <4>2. CASE ~(x = n /\ y = m)
        BY <2>8, <2>9, <2>10, <3>1, <3>3, <4>2 DEF WaitsOK, SameLinks
      <4> QED BY <4>1, <4>2
    <3> QED BY <2>7, <2>10, <3>1, <3>2, <3>3 DEF WaitsOK
  <2>12. AwaitsOK(ctl', wire', send', alive)
    <3>1. ASSUME NEW x \in alive, NEW y \in Node, Await(wire, send, x, y)
          PROVE Await(wire', send', x, y)
      <4>1. \A z \in Talks : send[z].at = "asking" => send'[z].at = "asking"
        BY <1>3, <2>6
      <4> QED BY <2>7, <3>1, <4>1 DEF Await
    <3>2. ASSUME NEW x \in alive, NEW y \in Node, ctl'[x].queue[y] # << >>
          PROVE Await(wire', send', x, y)
      <4>1. CASE x = n /\ y = m /\ first
        <5>1. send'[p].at = "asking" /\ p[1] = x /\ p[2] = y
          BY <1>6, <2>6, <4>1
        <5> QED BY <5>1 DEF Await
      <4>2. CASE ~(x = n /\ y = m /\ first)
        <5>1. ctl[x].queue[y] # << >>
          BY <1>1, <2>4, <2>9, <3>2, <4>2
        <5>2. Await(wire, send, x, y)
          BY <2>10, <5>1 DEF AwaitsOK
        <5> QED BY <3>1, <5>2
      <4> QED BY <4>1, <4>2
    <3> QED BY <3>2 DEF AwaitsOK
  <2>13. LostOK(ctl', shut, alive)
    <3>1. \A x \in Node : ctl'[x].lost = ctl[x].lost
      BY <1>1, <2>5, <2>7
    <3>2. \A x \in Guests : IsClient(ctl', x) <=> IsClient(ctl, x)
      BY <2>8, SameClients, Constants
    <3> QED BY <1>1, <2>10, <3>1, <3>2 DEF LostOK
  <2>14. Moves(wire, wire', {}) /\ SameFirst(wire, wire', alive)
    BY <2>7, MovesNone, CalmFirst
  <2>15. AsksNew(ctl', wire, wire', alive, {})
    BY DEF AsksNew
  <2> QED BY <1>3, <2>7, <2>8, <2>11, <2>12, <2>13, <2>14, <2>15, Quiet
<1> QED BY <1>9, <1>10

\* What is awaited stays awaited.
LEMMA AwaitMore ==
  ASSUME NEW W, NEW V, NEW F, NEW n, NEW m, \A a, b, y : On(W, a, b, y) => On(V, a, b, y),
         Await(W, F, n, m)
  PROVE Await(V, F, n, m)
  BY DEF Await

\* What one process waits for survives when another message is taken.
LEMMA AwaitTake ==
  ASSUME NEW W, NEW V, NEW F, NEW c, NEW e, Keeps(W, V, c, e), NEW n, NEW m,
         c # Via(n) \/ Head(Queue(W, c, e)).name # m, Await(W, F, n, m)
  PROVE Await(V, F, n, m)
<1>1. IntroReq(m).name = m /\ Unknown(m).name = m /\ \A d : Meet(n, m, d).name = m
  BY MessageFields
<1> QED BY <1>1 DEF Await, Keeps

\* Messages for different processes are different.
LEMMA SameMessage ==
  ASSUME NEW a, NEW b
  PROVE /\ Reply(a) = Reply(b) => a = b
        /\ AskFor(a) = AskFor(b) => a = b
        /\ Added(a) = Added(b) => a = b
        /\ IntroReq(a) = IntroReq(b) => a = b
        /\ Unknown(a) = Unknown(b) => a = b
        /\ \A c, d, m, n : Meet(m, a, c) = Meet(n, b, d) => a = b /\ c = d /\ m = n
<1>1. \A x, y, c : /\ Reply(x).name = x /\ AskFor(x).name = x /\ Added(x).name = x /\ IntroReq(x).name = x
                   /\ Unknown(x).name = x /\ Meet(y, x, c).name = x /\ Meet(y, x, c).ch = c
                   /\ Meet(y, x, c).for = y
  BY MessageFields
<1>2. \A c, d, m, n : Meet(m, a, c) = Meet(n, b, d) => a = b /\ c = d /\ m = n
  BY <1>1
<1> QED BY <1>1, <1>2

\* The broker and a client know each other by name.
LEMMA RemoteVia ==
  ASSUME Inv, NEW a \in Guests, IsClient(ctl, a)
  PROVE RemoteName(Broker, Via(a)) = a /\ RemoteName(a, Via(a)) = Broker
<1>1. NameOK(ctl, wire, a) /\ StageOK(ctl, wire, shut, alive, a) /\ a # Broker
  BY GuestFacts, Constants
<1>2. ctl[a].inviter = Inviter[a] /\ Via(a) \in DOMAIN wire
  BY <1>1 DEF NameOK, IsClient
<1>3. Invitation(a) \notin ctl[Inviter[a]].invitations
  BY <1>1 DEF StageOK
<1>4. CASE Inviter[a] = Broker
  <2>1. Via(a) = Invitation(a)
    BY <1>4 DEF Via
  <2> QED BY <1>2, <1>3, <1>4, <2>1, RemoteNames
<1>5. CASE Inviter[a] # Broker
  <2>1. Via(a) = Client(a)
    BY <1>5 DEF Via
  <2> QED BY <1>2, <2>1, RemoteNames
<1> QED BY <1>4, <1>5

\* The broker has the client whose channel it reads as its peer.
LEMMA OpenVia ==
  ASSUME Inv, NEW a \in Guests, Via(a) \in Open(Broker), IsClient(ctl, a)
  PROVE Peer(ctl, Broker, a) = Via(a)
<1>1. StageOK(ctl, wire, shut, alive, a) /\ a # Broker /\ Broker \in Node /\ Broker \notin Guests
  BY GuestFacts, Constants DEF Guests
<1>2. Via(a) \notin ctl[Broker].invitations
  <2>1. SUFFICES ASSUME Via(a) \in ctl[Broker].invitations PROVE FALSE
    OBVIOUS
  <2>2. PICK m \in Guests : Inviter[m] = Broker /\ Via(a) = Invitation(m)
    BY <1>1, <2>1 DEF Inv, NamesOK
  <2>3. Via(a) = Invitation(a) /\ m = a
    BY <2>2, ChannelsDiffer DEF Via
  <2> QED BY <1>1, <2>1, <2>2, <2>3 DEF StageOK
<1>3. PICK y \in Node : Peer(ctl, Broker, y) = Via(a)
  BY <1>1, <1>2, OpenFacts
<1>4. PeerOK(ctl, wire, Broker, y) /\ Via(a) # NoChannel
  BY <1>1, InvitationFacts DEF Inv, PeersOK
<1>5. Via(a) = Invitation(y) \/ Via(a) = Client(y)
  BY <1>1, <1>3, <1>4 DEF PeerOK
<1>6. y = a
  BY <1>5, ChannelsDiffer DEF Via
<1> QED BY <1>3, <1>6

\* A thread asks the broker for an introduction.
LEMMA RequestIntroductionStep ==
  ASSUME Inv, Broker \in alive, NEW p \in Talks, RequestIntroduction(p)
  PROVE Inv'
<1> DEFINE n == p[1]
           m == p[2]
           c == Via(n)
           x == IntroReq(m)
           u == [send[p] EXCEPT !.at = "idle"]
           r == Post(Begin, n, c, x)
           X == {<<c, Broker, x>>}
<1>1. /\ Handler(Begin) /\ Begin.ctl = ctl /\ Begin.wire = wire /\ Begin.shut = shut
      /\ Begin.merge = merge /\ alive \subseteq Node /\ send \in [Talks -> Sending]
  BY TypedFacts DEF Inv
<1>2. n \in Node /\ m \in Node /\ n # m /\ Broker \in Node
  BY Constants
<1>3. n \in alive /\ send[p].at = "asking" /\ alive' = alive
  BY DEF RequestIntroduction
<1>4. /\ n \in Guests /\ m \in Guests /\ IsClient(ctl, n) /\ IsClient(ctl, m) /\ send[p].via = c
  BY <1>3 DEF Inv, WaitsOK
<1>5. SendIs(p, u) /\ u \in Sending /\ u.at = "idle"
  <2>1. send' = [send EXCEPT ![p].at = "idle"] /\ send[p] \in Sending
    BY <1>1 DEF RequestIntroduction
  <2> QED BY <1>1, <2>1 DEF SendIs, Sending
<1>6. Commit(r)
  BY <1>4 DEF RequestIntroduction, IntroReq
<1>7. /\ c \in DOMAIN wire /\ Ends(c) = {n, Broker} /\ n # Broker /\ Up(Begin, c, n, Broker)
  BY <1>3, <1>4, ClientFacts, Constants
<1>8. /\ x \in Message /\ x.ch = NoChannel /\ x.type = "RequestIntroduction" /\ x.name = m
  BY <1>4, MessageFields, MessageTypes
<1>9. Fits(c, Broker, x)
  BY <1>2, <1>4 DEF Fits
<1>10. m # n /\ \A a, b : IntroReq(a) = IntroReq(b) => a = b
  BY <1>2, SameMessage
<1> HIDE DEF n, m, c, x, u
<1>11. Posted(Begin, r, n, c, Broker, x)
  BY <1>1, <1>2, <1>7, <1>8, PostPlain
<1> HIDE DEF r
<1>12. /\ Handler(r) /\ r.ctl = ctl /\ r.merge = merge /\ r.shut = shut /\ DOMAIN r.wire = DOMAIN wire
       /\ Moves(wire, r.wire, X) /\ Calm(wire, r.wire)
       /\ \A a, b, y : On(wire, a, b, y) => On(r.wire, a, b, y)
       /\ On(r.wire, c, Broker, x)
  BY <1>1, <1>7, <1>11 DEF Posted
<1>13. send' \in [Talks -> Sending] /\ send'[p] = u /\ \A y \in Talks : y # p => send'[y] = send[y]
  BY <1>1, <1>5, SendTyped
<1>14. Typed' /\ ctl' = ctl /\ wire' = r.wire /\ shut' = shut /\ merge' = merge
  BY <1>1, <1>3, <1>6, <1>12, <1>13, Committed
<1>15. SameLinks(ctl, ctl')
  BY <1>14 DEF SameLinks
<1>16. WaitsOK(ctl, send, merge) /\ AwaitsOK(ctl, wire, send, alive) /\ LostOK(ctl, shut, alive)
  BY DEF Inv
<1>17. WaitsOK(ctl', send', merge')
  BY <1>5, <1>13, <1>14, <1>16 DEF WaitsOK
<1>18. AwaitsOK(ctl', wire', send', alive)
  <2>1. ASSUME NEW a \in alive, NEW b \in Node, ctl[a].queue[b] # << >>
        PROVE Await(wire', send', a, b)
    <3>1. Await(wire, send, a, b)
      BY <1>16, <2>1 DEF AwaitsOK
    <3>2. CASE a = n /\ b = m
      BY <1>12, <1>14, <3>2 DEF Await, c, x
    <3>3. CASE ~(a = n /\ b = m)
      <4>1. \A z \in Talks : z[1] = a /\ z[2] = b => send'[z] = send[z]
        BY <1>13, <3>3 DEF n, m
      <4>2. Await(wire', send, a, b)
        BY <1>12, <1>14, <3>1, AwaitMore
      <4> QED BY <4>1, <4>2 DEF Await
    <3> QED BY <3>2, <3>3
  <2> QED BY <1>14, <2>1 DEF AwaitsOK
<1>19. SameFirst(wire, wire', alive)
  BY <1>12, <1>14, CalmFirst
<1>20. AsksNew(ctl', wire, wire', alive, X)
  <2>1. ASSUME NEW a, NEW b, <<Via(a), Broker, IntroReq(b)>> \in X
        PROVE IsClient(ctl, a) /\ IsClient(ctl, b)
    <3>1. Via(a) = Via(n) /\ IntroReq(b) = IntroReq(m)
      BY <2>1 DEF c, x
    <3> QED BY <1>4, <1>10, <3>1, ChannelsDiffer
  <2>2. \A a, b, d : Unknown(b).type = "Introduce" /\ Meet(a, b, d).type = "Introduce"
    BY MessageFields
  <2> QED BY <1>8, <1>14, <2>1, <2>2 DEF AsksNew
<1>21. \A a, b, y : <<a, b, y>> \in X => Fits(a, b, y) /\ y.type \in QuietTypes
  BY <1>8, <1>9 DEF QuietTypes
<1> QED BY <1>3, <1>12, <1>14, <1>15, <1>16, <1>17, <1>18, <1>19, <1>20, <1>21, Quiet

\* The broker reads a request for an introduction.
LEMMA AskedFacts ==
  ASSUME Inv, NEW b \in Node, NEW c \in Open(b), Receives(b, c, "RequestIntroduction")
  PROVE /\ b = Broker
        /\ \E a, m \in Guests : /\ c = Via(a) /\ Head(Queue(wire, c, b)) = IntroReq(m) /\ m # a
                                /\ Head(wire[c][b]).name = m
                                /\ IsClient(ctl, a) /\ IsClient(ctl, m)
                                /\ RemoteName(b, c) = a /\ Peer(ctl, Broker, a) = c
<1> DEFINE x == Head(wire[c][b])
<1>1. /\ x = Head(Queue(wire, c, b)) /\ x.type = "RequestIntroduction" /\ On(wire, c, b, x)
      /\ Fits(c, b, x)
  BY ReadFacts
<1> HIDE DEF x
<1>2. b = Broker /\ \E a, m \in Guests : c = Via(a) /\ x = IntroReq(m) /\ m # a
  BY <1>1, FitsType
<1>3. PICK a \in Guests, m \in Guests : c = Via(a) /\ x = IntroReq(m) /\ m # a
  BY <1>2
<1>4. x.name = m
  BY <1>3, MessageFields
<1>5. IsClient(ctl, a) /\ IsClient(ctl, m)
  BY <1>1, <1>2, <1>3 DEF Inv, AsksOK
<1>6. RemoteName(b, c) = a
  BY <1>2, <1>3, <1>5, RemoteVia
<1>7. Peer(ctl, Broker, a) = c
  BY <1>2, <1>3, <1>5, OpenVia
<1> QED BY <1>1, <1>2, <1>3, <1>4, <1>5, <1>6, <1>7 DEF x

\* A message with an end of a channel is written, or that end is closed.
Handed(st, r, n, c, e, x) ==
  /\ Handler(r) /\ r.ctl = st.ctl /\ r.merge = st.merge /\ DOMAIN r.wire = DOMAIN st.wire
  /\ Up(st, c, n, e) =>
       /\ r.shut = st.shut /\ Appends(st.wire, r.wire, c, e, <<x>>)
       /\ Moves(st.wire, r.wire, {<<c, e, x>>}) /\ On(r.wire, c, e, x)
  /\ ~Up(st, c, n, e) => r.wire = st.wire /\ r.shut = st.shut \cup {<<x.ch, x.for>>}
  /\ \A a, b, y : On(st.wire, a, b, y) => On(r.wire, a, b, y)
  /\ (\A m : ~IntroMsg(x, m)) => Calm(st.wire, r.wire)

\* Posting a message that carries a channel.
LEMMA PostCarry ==
  ASSUME NEW st, Handler(st), NEW c \in DOMAIN st.wire, NEW n \in Node, NEW e \in Node,
         n # e, Ends(c) = {n, e}, NEW x \in Message, x.for \in Node, x.ch \in Chan
  PROVE Handed(st, Post(st, n, c, x), n, c, e, x)
<1> DEFINE r == Post(st, n, c, x)
<1>1. /\ Handler(r) /\ r.ctl = st.ctl /\ r.merge = st.merge
      /\ Up(st, c, n, e) => r.shut = st.shut /\ Appends(st.wire, r.wire, c, e, <<x>>)
      /\ ~Up(st, c, n, e) => r.wire = st.wire /\ r.shut = st.shut \cup {<<x.ch, x.for>>}
  BY PostFacts, NoChannelIsNone
<1>2. WireType(st.wire)
  BY DEF Handler
<1> HIDE DEF r
<1>3. CASE Up(st, c, n, e)
  <2>1. /\ Moves(st.wire, r.wire, {<<c, e, x>>}) /\ On(r.wire, c, e, x)
        /\ \A a, b, y : On(st.wire, a, b, y) => On(r.wire, a, b, y)
        /\ (\A m : ~IntroMsg(x, m)) => Calm(st.wire, r.wire)
    BY <1>1, <1>2, <1>3, MovesOne
  <2>2. DOMAIN r.wire = DOMAIN st.wire
    BY <1>1, <1>3 DEF Appends
  <2> QED BY <1>1, <1>3, <2>1, <2>2 DEF r, Handed
<1>4. CASE ~Up(st, c, n, e)
  BY <1>1, <1>4, MovesNone DEF r, Handed
<1> QED BY <1>3, <1>4

\* The channel of a new introduction that a has asked for.
IntroOf(a, m) == <<"intro", a, m, Cardinality(IntrosOf(wire, a))>>

\* The broker's new channel for an introduction is new.
LEMMA IntroIsNew ==
  ASSUME Inv, NEW a \in Guests, NEW m \in Guests
  PROVE LET d == IntroOf(a, m)
        IN d \in Between(a, m) /\ d \in Between(m, a) /\ d \notin DOMAIN wire
           /\ \A w : DOMAIN w = DOMAIN wire \cup {d} => Numbered(w)
<1> DEFINE S == IntrosOf(wire, a)
           k == Cardinality(S)
           d == IntroOf(a, m)
<1>1. IsFiniteSet(DOMAIN wire) /\ Numbered(wire)
  BY DEF Inv, Numbered
<1>2. IsFiniteSet(S) /\ k \in Nat
  <2>1. S \subseteq DOMAIN wire
    BY DEF IntrosOf
  <2> QED BY <1>1, <2>1, FS_Subset, FS_CardinalityType
<1>3. d \in Between(a, m) /\ d \in Between(m, a) /\ d = <<"intro", a, m, k>>
  BY <1>2 DEF IntroOf, Between
<1>4. d \notin DOMAIN wire
  <2>1. SUFFICES ASSUME d \in DOMAIN wire PROVE FALSE
    OBVIOUS
  <2>2. k < Cardinality(IntrosOf(wire, a))
    BY <1>1, <1>3, <2>1 DEF Numbered
  <2> QED BY <1>2, <2>2
<1>5. ASSUME NEW w, DOMAIN w = DOMAIN wire \cup {d} PROVE Numbered(w)
  <2>1. IsFiniteSet(DOMAIN w)
    BY <1>1, <1>5, FS_AddElement
  <2>2. IntrosOf(w, a) = S \cup {d} /\ d \notin S
    BY <1>3, <1>4, <1>5 DEF IntrosOf
  <2>3. Cardinality(IntrosOf(w, a)) = k + 1
    BY <1>2, <2>2, FS_AddElement
  <2>4. \A n : n # a => IntrosOf(w, n) = IntrosOf(wire, n)
    BY <1>3, <1>5 DEF IntrosOf
  <2>5. ASSUME NEW x, NEW y, NEW j, <<"intro", x, y, j>> \in DOMAIN w
        PROVE j < Cardinality(IntrosOf(w, x))
    <3>1. CASE <<"intro", x, y, j>> = d
      <4>1. x = a /\ j = k
        BY <1>3, <3>1
      <4> QED BY <1>2, <2>3, <4>1
    <3>2. CASE <<"intro", x, y, j>> \in DOMAIN wire
      <4>1. j < Cardinality(IntrosOf(wire, x))
        BY <1>1, <3>2 DEF Numbered
      <4>2. CASE x = a
        <5>1. j < k
          BY <4>1, <4>2
        <5>2. j \in Nat
          <6>1. <<"intro", x, y, j>> \in Chan
            BY <3>2, TypedFacts DEF Inv, WireType
          <6>2. PICK n \in Guests, q \in Guests, i \in Nat : <<"intro", x, y, j>> = <<"intro", n, q, i>>
            BY <6>1 DEF Chan, Invitation, Client
          <6> QED BY <6>2
        <5> QED BY <1>2, <2>3, <4>2, <5>1, <5>2
      <4>3. CASE x # a
        BY <2>4, <4>1, <4>3
      <4> QED BY <4>2, <4>3
    <3> QED BY <1>5, <2>5, <3>1, <3>2
  <2> QED BY <2>1, <2>5 DEF Numbered
<1> QED BY <1>3, <1>4, <1>5

\* The broker does not know the process it is asked for: it is dead.
LEMMA UnknownStep ==
  ASSUME Inv, Broker \in alive, NEW c \in Open(Broker), Receives(Broker, c, "RequestIntroduction"),
         NEW a \in Guests, NEW m \in Guests, c = Via(a), Head(Queue(wire, c, Broker)) = IntroReq(m),
         m # a, IsClient(ctl, a), IsClient(ctl, m), Peer(ctl, Broker, m) = NoChannel,
         Commit(Post(Taken(Broker, c), Broker, c, Unknown(m))), alive' = alive, send' = send
  PROVE Inv'
<1> DEFINE q == Taken(Broker, c)
           x == Unknown(m)
           r == Post(q, Broker, c, x)
           X == {<<c, a, x>>}
<1>0. Broker \in Node /\ a \in Node /\ m \in Node /\ a # Broker /\ m # Broker
  BY Constants
<1>1. /\ Handler(q) /\ q.ctl = ctl /\ q.merge = merge /\ q.shut = shut /\ Takes(wire, q.wire, c, Broker)
      /\ DOMAIN q.wire = DOMAIN wire /\ Queue(wire, c, Broker) # << >>
  BY <1>0, ReadFacts
<1>2. WireType(wire) /\ alive \subseteq Node /\ send \in [Talks -> Sending]
  BY TypedFacts DEF Inv
<1>3. IntroReq(m).name = m /\ IntroReq(m).type = "RequestIntroduction"
  BY MessageFields
<1> HIDE DEF q
<1>4. Moves(wire, q.wire, {}) /\ Keeps(wire, q.wire, c, Broker) /\ Calm(wire, q.wire)
  <2>1. \A y : ~IntroMsg(IntroReq(m), y)
    BY <1>3 DEF IntroMsg
  <2> QED BY <1>1, <1>2, <2>1, MovesTake
<1>5. m \notin alive
  <2>1. LinkOK(ctl, wire, shut, alive, m) /\ Via(m) # NoChannel
    BY GuestFacts, InvitationFacts
  <2> QED BY <2>1 DEF LinkOK
<1>6. c \in DOMAIN wire /\ Ends(c) = {Broker, a}
  BY <1>0, OpenFacts, InvitationFacts
<1>7. x \in Message /\ x.ch = NoChannel /\ x.type = "Introduce" /\ x.name = m
  <2>1. Unknown(m) \in Message
    BY MessageTypes
  <2>2. Unknown(m).ch = NoChannel /\ Unknown(m).type = "Introduce" /\ Unknown(m).name = m
    BY MessageFields
  <2> QED BY <2>1, <2>2
<1>8. Fits(c, a, x)
  BY <1>0 DEF Fits
<1> HIDE DEF x
<1>9. Posted(q, r, Broker, c, a, x)
  BY <1>0, <1>1, <1>6, <1>7, PostPlain
<1>10. Commit(r)
  BY DEF x, q
<1> HIDE DEF r
<1>11. /\ Handler(r) /\ r.ctl = ctl /\ r.merge = merge /\ r.shut = shut /\ DOMAIN r.wire = DOMAIN wire
       /\ Moves(q.wire, r.wire, X) /\ Calm(q.wire, r.wire)
       /\ \A k, b, y : On(q.wire, k, b, y) => On(r.wire, k, b, y)
       /\ Up(q, c, Broker, a) => On(r.wire, c, a, x)
  BY <1>1, <1>9 DEF Posted
<1>12. Moves(wire, r.wire, X)
  <2>1. Moves(wire, r.wire, {} \cup X)
    <3>1. {} \cap X = {}
      OBVIOUS
    <3> HIDE DEF X
    <3> QED BY <1>4, <1>11, <3>1, MovesMore
  <2>2. {} \cup X = X
    OBVIOUS
  <2> QED BY <2>1, <2>2
<1>13. Typed' /\ ctl' = ctl /\ wire' = r.wire /\ shut' = shut /\ merge' = merge
  BY <1>2, <1>10, <1>11, Committed
<1>14. SameFirst(wire, wire', alive)
  BY <1>4, <1>11, <1>13, CalmMore, CalmFirst
<1>15. SameLinks(ctl, ctl') /\ LostOK(ctl', shut, alive) /\ WaitsOK(ctl', send', merge')
  BY <1>13 DEF SameLinks, Inv
<1>16. AwaitsOK(ctl', wire', send', alive)
  <2>1. AwaitsOK(ctl, wire, send, alive)
    BY DEF Inv
  <2>2. ASSUME NEW n \in alive, NEW k \in Node, ctl[n].queue[k] # << >>
        PROVE Await(wire', send, n, k)
    <3>1. Await(wire, send, n, k)
      BY <2>1, <2>2 DEF AwaitsOK
    <3>2. CASE n = a /\ k = m
      <4>1. Up(Begin, c, Broker, a)
        BY <3>2, ClientFacts
      <4>2. On(wire', Via(n), n, Unknown(k))
        BY <1>1, <1>11, <1>13, <3>2, <4>1 DEF Up, Begin, x
      <4> QED BY <4>2 DEF Await
    <3>3. CASE ~(n = a /\ k = m)
      <4>1. c # Via(n) \/ Head(Queue(wire, c, Broker)).name # k
        BY <1>3, <3>3, ChannelsDiffer
      <4>2. Await(q.wire, send, n, k)
        BY <1>4, <3>1, <4>1, AwaitTake
      <4> QED BY <1>11, <1>13, <4>2, AwaitMore
    <3> QED BY <3>2, <3>3
  <2> QED BY <1>13, <2>2 DEF AwaitsOK
<1>17. AsksNew(ctl', wire, wire', alive, X)
  <2>1. ASSUME NEW n, NEW k, <<Via(n), n, Unknown(k)>> \in X PROVE n = a /\ k = m
    <3>1. Via(n) = Via(a) /\ n = a /\ Unknown(k) = Unknown(m)
      BY <2>1 DEF x
    <3> QED BY <3>1, SameMessage
  <2>2. \A k : IntroReq(k).type = "RequestIntroduction"
    BY MessageKinds
  <2>3. ASSUME NEW n, NEW k, NEW d, <<Via(n), n, Meet(n, k, d)>> \in X PROVE FALSE
    <3>1. Meet(n, k, d) = Unknown(m)
      BY <2>3 DEF x
    <3>2. Meet(n, k, d).for = n /\ Unknown(m).for = NoNode /\ n = a
      BY <2>3, MessageFields DEF Unknown, Plain
    <3> QED BY <1>0, <3>1, <3>2, Constants
  <2> QED BY <1>5, <1>7, <1>13, <2>1, <2>2, <2>3 DEF AsksNew
<1>18. \A k, b, y : <<k, b, y>> \in X => Fits(k, b, y) /\ y.type \in QuietTypes
  BY <1>7, <1>8 DEF QuietTypes
<1> QED BY <1>11, <1>12, <1>13, <1>14, <1>15, <1>16, <1>17, <1>18, Quiet

\* A message for an introduction comes last.
LEMMA FirstAfter ==
  ASSUME NEW v, WireType(v), NEW w, NEW c, NEW e, NEW n, NEW m, NEW d, d # NoChannel,
         Meet(n, m, d) \in Message, Appends(v, w, c, e, <<Meet(n, m, d)>>)
  PROVE /\ \A a, b, k, x : (a # c \/ b # e \/ k # m) =>
             (First(Queue(w, a, b), k, x) <=> First(Queue(v, a, b), k, x))
        /\ \A x : (\E y : First(Queue(v, c, e), m, y)) =>
             (First(Queue(w, c, e), m, x) <=> First(Queue(v, c, e), m, x))
        /\ \A x : ~(\E y : First(Queue(v, c, e), m, y)) => (First(Queue(w, c, e), m, x) <=> x = d)
<1> DEFINE s == Queue(v, c, e)
           z == Meet(n, m, d)
           t == <<z>>
<1>1. z \in Message /\ z.type = "Introduce" /\ z.name = m /\ z.ch = d
  BY MessageFields
<1>2. \A a, b : Queue(w, a, b) = IF a = c /\ b = e THEN s \o t ELSE Queue(v, a, b)
  BY DEF Appends
<1>3. s \in Seq(Message)
  BY QueueType
<1> HIDE DEF s, z
<1>4. IntroMsg(z, m) /\ \A k : k # m => ~IntroMsg(z, k)
  BY <1>1 DEF IntroMsg
<1>5. t \in Seq(Message) /\ DOMAIN t = {1} /\ t[1] = z
  BY <1>1
<1>6. \A x : /\ (\E y : First(s, m, y)) => (First(s \o t, m, x) <=> First(s, m, x))
             /\ ~(\E y : First(s, m, y)) => (First(s \o t, m, x) <=> x = z.ch)
  BY <1>1, <1>3, <1>4, FirstNew
<1> HIDE DEF t
<1>7. \A k, x : k # m => (First(s \o t, k, x) <=> First(s, k, x))
  BY <1>3, <1>4, <1>5, FirstConcat
<1>8. s = Queue(v, c, e)
  BY DEF s
<1> QED BY <1>1, <1>2, <1>6, <1>7, <1>8

\* Both processes get the new channel d, or keep what they have.
MeetOn(v, w, n, m, d) ==
  \A x : /\ (\E y : First(Queue(v, Via(n), n), m, y)) =>
              (First(Queue(w, Via(n), n), m, x) <=> First(Queue(v, Via(n), n), m, x))
         /\ ~(\E y : First(Queue(v, Via(n), n), m, y)) =>
              (First(Queue(w, Via(n), n), m, x) <=> x = d)

\* Introductions of a later state, after the broker has introduced a and m.
LEMMA MeetsNew ==
  ASSUME NEW C, NEW W, NEW V, NEW S, NEW T, NEW A, MeetsOK(C, W, S, A),
         WireType(W), AllFit(W), PeersOK(C, W), AsksOK(C, W, A),
         NEW a, NEW m, NEW d, a # m,
         a \in A => MeetOn(W, V, a, m, d) /\ <<d, a>> \notin T,
         m \in A => MeetOn(W, V, m, a, d) /\ <<d, m>> \notin T,
         \A n, k \in A : ~(n = a /\ k = m) /\ ~(n = m /\ k = a) =>
           \A c : First(Queue(V, Via(n), n), k, c) <=> First(Queue(W, Via(n), n), k, c),
         \A n \in A : \A c : Intro(c) /\ <<c, n>> \in T => <<c, n>> \in S
  PROVE MeetsOK(C, V, T, A)
<1>1. SUFFICES ASSUME NEW n \in A, NEW k \in A, Apart(n, k), NEW c, Meets(C, V, n, k, c)
               PROVE Meets(C, V, k, n, c) /\ <<c, n>> \notin T
  BY DEF MeetsOK
<1>2. Apart(k, n)
  BY <1>1 DEF Apart
<1>3. /\ \A x : Meets(C, W, n, k, x) => Meets(C, W, k, n, x) /\ <<x, n>> \notin S
      /\ \A x : Meets(C, W, k, n, x) => Meets(C, W, n, k, x) /\ <<x, k>> \notin S
  BY <1>1, <1>2 DEF MeetsOK
<1>4. \A x : Meets(C, W, n, k, x) => <<x, n>> \notin T
  <2>1. ASSUME NEW x, Meets(C, W, n, k, x) PROVE <<x, n>> \notin T
    <3>1. x \in Between(n, k)
      BY <1>1, <2>1, MeetsIntro
    <3>2. Intro(x)
      BY <1>1, <3>1 DEF Intro, Apart
    <3> QED BY <1>3, <2>1, <3>2
  <2> QED BY <2>1
<1>5. CASE (n = a /\ k = m) \/ (n = m /\ k = a)
  <2>1. MeetOn(W, V, n, k, d) /\ MeetOn(W, V, k, n, d) /\ <<d, n>> \notin T
    BY <1>1, <1>5
  <2>2. CASE \E x : Meets(C, W, n, k, x)
    <3>1. \E x : Meets(C, W, k, n, x)
      BY <1>3, <2>2
    <3>2. Meets(C, V, n, k, c) <=> Meets(C, W, n, k, c)
      BY <2>1, <2>2 DEF Meets, MeetOn
    <3>3. Meets(C, V, k, n, c) <=> Meets(C, W, k, n, c)
      BY <2>1, <3>1 DEF Meets, MeetOn
    <3> QED BY <1>1, <1>3, <1>4, <3>2, <3>3
  <2>3. CASE ~(\E x : Meets(C, W, n, k, x))
    <3>1. ~(\E x : Meets(C, W, k, n, x))
      BY <1>3, <2>3
    <3>2. Meets(C, V, n, k, c) <=> c = d
      BY <2>1, <2>3 DEF Meets, MeetOn
    <3>3. Meets(C, V, k, n, c) <=> c = d
      BY <2>1, <3>1 DEF Meets, MeetOn
    <3> QED BY <1>1, <2>1, <3>2, <3>3
  <2> QED BY <2>2, <2>3
<1>6. CASE ~((n = a /\ k = m) \/ (n = m /\ k = a))
  <2>1. Meets(C, V, n, k, c) <=> Meets(C, W, n, k, c)
    BY <1>6 DEF Meets
  <2>2. Meets(C, V, k, n, c) <=> Meets(C, W, k, n, c)
    BY <1>6 DEF Meets
  <2> QED BY <1>1, <1>3, <1>4, <2>1, <2>2
<1> QED BY <1>5, <1>6

\* The broker hands client e an end of channel d, for client k.
Given(st, r, e, k, d) ==
  /\ Handler(r) /\ r.ctl = st.ctl /\ r.merge = st.merge /\ DOMAIN r.wire = DOMAIN st.wire
  /\ e \in alive => /\ r.shut = st.shut /\ Appends(st.wire, r.wire, Via(e), e, <<Meet(e, k, d)>>)
                    /\ On(r.wire, Via(e), e, Meet(e, k, d))
  /\ e \notin alive => r.wire = st.wire /\ r.shut = st.shut \cup {<<d, e>>}
  /\ Moves(st.wire, r.wire, {<<Via(e), e, Meet(e, k, d)>>})
  /\ \A a, b, y : On(st.wire, a, b, y) => On(r.wire, a, b, y)

\* What the broker's posting of one half of an introduction does.
LEMMA GiveFacts ==
  ASSUME Inv, Broker \in alive, NEW e \in Guests, NEW k \in Guests, e # k, IsClient(ctl, e),
         NEW st, Handler(st), DOMAIN wire \subseteq DOMAIN st.wire, NEW ch, ch = Peer(ctl, Broker, e),
         ch # NoChannel, NEW d \in Between(e, k), \A s \in st.shut : s \in shut \/ s[1] = d
  PROVE Given(st, Post(st, Broker, ch, Meet(e, k, d)), e, k, d)
<1> DEFINE x == Meet(e, k, d)
           r == Post(st, Broker, ch, x)
<1>1. e \in Node /\ Broker \in Node /\ e # Broker
  BY Constants
<1>2. ch \in DOMAIN st.wire /\ Ends(ch) = {Broker, e}
  BY <1>1, PeerEnds DEF Inv
<1>3. x \in Message
  BY MessageTypes
<1>4. x.ch = d /\ x.for = e
  BY MessageFields
<1>5. d \in Chan /\ \A y : d # Via(y)
  BY BetweenFacts
<1> HIDE DEF x
<1>6. Handed(st, r, Broker, ch, e, x)
  BY <1>1, <1>2, <1>3, <1>4, <1>5, PostCarry
<1> HIDE DEF r
<1>7. CASE e \in alive
  <2>1. ch = Via(e) /\ <<Via(e), e>> \notin shut /\ <<Via(e), Broker>> \notin shut
    BY <1>7, ClientFacts
  <2>2. <<Via(e), e>> \notin st.shut /\ <<Via(e), Broker>> \notin st.shut
    BY <1>5, <2>1
  <2>3. Up(st, ch, Broker, e)
    BY <1>7, <2>1, <2>2 DEF Up
  <2> QED BY <1>6, <1>7, <2>1, <2>3 DEF Handed, Given, r, x
<1>8. CASE e \notin alive
  <2>1. ~Up(st, ch, Broker, e)
    BY <1>8 DEF Up
  <2>2. r.wire = st.wire /\ r.shut = st.shut \cup {<<d, e>>}
    BY <1>4, <1>6, <2>1 DEF Handed
  <2>3. Moves(st.wire, r.wire, {<<Via(e), e, Meet(e, k, d)>>})
    BY <2>2 DEF Moves
  <2> QED BY <1>6, <1>8, <2>2, <2>3 DEF Handed, Given, r, x
<1> QED BY <1>7, <1>8

\* The broker introduces a and m to each other.
LEMMA IntroduceStep ==
  ASSUME Inv, Broker \in alive, NEW c \in Open(Broker), Receives(Broker, c, "RequestIntroduction"),
         NEW a \in Guests, NEW m \in Guests, c = Via(a), Head(Queue(wire, c, Broker)) = IntroReq(m),
         m # a, IsClient(ctl, a), IsClient(ctl, m), Peer(ctl, Broker, a) = c,
         NEW ch, ch = Peer(ctl, Broker, m), ch # NoChannel,
         NEW d, d = IntroOf(a, m),
         NEW q, q = Taken(Broker, c), NEW st, st = NewChannel(q, d, a, m),
         NEW h, h = Post(st, Broker, c, Meet(a, m, d)),
         NEW r, r = Post(h, Broker, ch, Meet(m, a, d)),
         Commit(r), alive' = alive, send' = send
  PROVE Inv'
<1> DEFINE X == {<<Via(a), a, Meet(a, m, d)>>}
           Y == {<<Via(m), m, Meet(m, a, d)>>}
           Z == X \cup Y
<1>0. Broker \in Node /\ a \in Node /\ m \in Node /\ a # Broker /\ m # Broker
  BY Constants
<1>1. /\ Handler(q) /\ q.ctl = ctl /\ q.merge = merge /\ q.shut = shut /\ Takes(wire, q.wire, c, Broker)
      /\ DOMAIN q.wire = DOMAIN wire /\ Queue(wire, c, Broker) # << >>
  BY <1>0, ReadFacts
<1>2. WireType(wire) /\ alive \subseteq Node /\ send \in [Talks -> Sending]
  BY TypedFacts DEF Inv
<1>3. IntroReq(m).name = m /\ IntroReq(m).type = "RequestIntroduction"
  BY MessageFields
<1>4. Moves(wire, q.wire, {}) /\ Keeps(wire, q.wire, c, Broker) /\ Calm(wire, q.wire)
  <2>1. \A y : ~IntroMsg(IntroReq(m), y)
    BY <1>3 DEF IntroMsg
  <2> QED BY <1>1, <1>2, <2>1, MovesTake
<1>5. /\ d \in Between(a, m) /\ d \in Between(m, a) /\ d \notin DOMAIN wire
      /\ \A w : DOMAIN w = DOMAIN wire \cup {d} => Numbered(w)
  BY IntroIsNew
<1>6. d \in Chan /\ Ends(d) = {a, m} /\ Intro(d) /\ d # NoChannel
      /\ \A y : d # Via(y) /\ d # Invitation(y) /\ d # Client(y)
  BY <1>5, BetweenFacts DEF Intro
<1>7. /\ Handler(st) /\ st.ctl = ctl /\ st.merge = merge /\ st.shut = shut
      /\ DOMAIN st.wire = DOMAIN wire \cup {d}
      /\ \A x, e : Queue(st.wire, x, e) = Queue(q.wire, x, e)
  BY <1>1, <1>5, <1>6, NewChannelFacts
<1>8. Moves(q.wire, st.wire, {}) /\ Calm(q.wire, st.wire)
      /\ \A x, e, y : On(st.wire, x, e, y) <=> On(q.wire, x, e, y)
  BY <1>7, MovesSame
<1>9. Given(st, h, a, m, d)
  <2>1. \A s \in st.shut : s \in shut \/ s[1] = d
    BY <1>7
  <2>2. DOMAIN wire \subseteq DOMAIN st.wire /\ c # NoChannel
    BY <1>7, InvitationFacts
  <2> QED BY <1>5, <1>7, <2>1, <2>2, GiveFacts
<1>10. /\ Handler(h) /\ h.ctl = ctl /\ h.merge = merge /\ DOMAIN h.wire = DOMAIN wire \cup {d}
       /\ a \in alive => h.shut = shut
       /\ a \notin alive => h.shut = shut \cup {<<d, a>>}
  BY <1>7, <1>9 DEF Given
<1>11. Given(h, r, m, a, d)
  <2>1. \A s \in h.shut : s \in shut \/ s[1] = d
    BY <1>10
  <2>2. DOMAIN wire \subseteq DOMAIN h.wire
    BY <1>10
  <2> QED BY <1>5, <1>10, <2>1, <2>2, GiveFacts
<1>12. /\ Handler(r) /\ r.ctl = ctl /\ r.merge = merge /\ DOMAIN r.wire = DOMAIN wire \cup {d}
       /\ m \in alive => r.shut = h.shut
       /\ m \notin alive => r.shut = h.shut \cup {<<d, m>>}
  BY <1>10, <1>11 DEF Given
<1>13. Typed' /\ ctl' = ctl /\ wire' = r.wire /\ shut' = r.shut /\ merge' = merge
  BY <1>2, <1>12, Committed
<1>14. Moves(wire, wire', Z)
  <2>1. {} \cap {} = {} /\ {} \cup {} = {} /\ {} \cap X = {} /\ {} \cup X = X
    OBVIOUS
  <2>2. X \cap Y = {}
    <3>1. <<Via(a), a, Meet(a, m, d)>>[2] = a /\ <<Via(m), m, Meet(m, a, d)>>[2] = m
      OBVIOUS
    <3> QED BY <3>1
  <2>3. Moves(st.wire, h.wire, X) /\ Moves(h.wire, r.wire, Y)
    BY <1>9, <1>11 DEF Given
  <2> HIDE DEF X, Y
  <2>4. Moves(wire, st.wire, {})
    BY <1>4, <1>8, <2>1, MovesMore
  <2>5. Moves(wire, h.wire, X)
    BY <2>1, <2>3, <2>4, MovesMore
  <2> QED BY <1>13, <2>2, <2>3, <2>5, MovesMore
<1>15. \A x, e, y : On(q.wire, x, e, y) => On(wire', x, e, y)
  BY <1>8, <1>9, <1>11, <1>13 DEF Given
<1>16. \A x, e, y : <<x, e, y>> \in Z => Fits(x, e, y) /\ y.type = "Introduce"
  <2>1. Meet(a, m, d).type = "Introduce" /\ Meet(m, a, d).type = "Introduce"
    BY MessageFields
  <2>2. Fits(Via(a), a, Meet(a, m, d)) /\ Fits(Via(m), m, Meet(m, a, d))
    BY <1>5 DEF Fits
  <2> QED BY <2>1, <2>2
<1>17. /\ shut \subseteq shut' /\ \A s \in shut' : s \in shut \/ Intro(s[1])
       /\ \A n \in alive : \A x : <<x, n>> \in shut' => <<x, n>> \in shut
       /\ \A s \in shut' : s[1] \in DOMAIN wire'
  <2>1. \A s \in shut : s[1] \in DOMAIN wire
    BY DEF Inv
  <2>2. \A s \in shut' : \/ s \in shut
                         \/ a \notin alive /\ s = <<d, a>>
                         \/ m \notin alive /\ s = <<d, m>>
    BY <1>10, <1>12, <1>13
  <2>3. shut \subseteq shut'
    BY <1>10, <1>12, <1>13
  <2> QED BY <1>6, <1>12, <1>13, <2>1, <2>2, <2>3
<1>18. SameLinks(ctl, ctl')
  BY <1>13 DEF SameLinks
<1>19. \A k \in Guests : Still(ctl, ctl', wire, wire', shut, shut', alive', Z, k)
  <2>1. \A x \in Guests : /\ Invitation(x) \in DOMAIN wire' <=> Invitation(x) \in DOMAIN wire
                          /\ Client(x) \in DOMAIN wire' <=> Client(x) \in DOMAIN wire
    BY <1>6, <1>12, <1>13
  <2>2. \A x, e, y : <<x, e, y>> \in Z => y.type \in QuietTypes
    BY <1>16 DEF QuietTypes
  <2> HIDE DEF Z
  <2> QED BY <1>17, <1>18, <2>1, <2>2, QuietStill
<1>20. AsksNew(ctl', wire, wire', alive', Z)
  <2>1. ASSUME NEW n, NEW k, <<Via(n), Broker, IntroReq(k)>> \in Z PROVE FALSE
    <3>1. IntroReq(k).type = "RequestIntroduction"
      BY MessageKinds
    <3> QED BY <1>16, <2>1, <3>1
  <2>2. ASSUME NEW n, NEW k, <<Via(n), n, Unknown(k)>> \in Z PROVE FALSE
    <3>0. Unknown(k).ch = NoChannel
      BY MessageFields
    <3>1. Meet(a, m, d).ch = d /\ Meet(m, a, d).ch = d
      BY MessageFields
    <3>2. Unknown(k) = Meet(a, m, d) \/ Unknown(k) = Meet(m, a, d)
      BY <2>2
    <3> QED BY <1>6, <3>0, <3>1, <3>2
  <2>3. ASSUME NEW n, NEW k, NEW x, <<Via(n), n, Meet(n, k, x)>> \in Z
        PROVE IsClient(ctl, n) /\ IsClient(ctl, k) /\ x = d
    <3>1. Meet(n, k, x) = Meet(a, m, d) \/ Meet(n, k, x) = Meet(m, a, d)
      BY <2>3
    <3> QED BY <3>1, SameMessage
  <2> QED BY <1>5, <1>6, <1>12, <1>13, <2>1, <2>2, <2>3 DEF AsksNew
<1>21. AwaitsOK(ctl', wire', send', alive')
  <2>1. AwaitsOK(ctl, wire, send, alive)
    BY DEF Inv
  <2>2. ASSUME NEW n \in alive, NEW k \in Node, ctl[n].queue[k] # << >>
        PROVE Await(wire', send, n, k)
    <3>1. Await(wire, send, n, k)
      BY <2>1, <2>2 DEF AwaitsOK
    <3>2. CASE n = a /\ k = m
      <4>1. On(wire', Via(a), a, Meet(a, m, d))
        BY <1>9, <1>11, <1>13, <3>2 DEF Given
      <4> QED BY <3>2, <4>1 DEF Await
    <3>3. CASE ~(n = a /\ k = m)
      <4>1. c # Via(n) \/ Head(Queue(wire, c, Broker)).name # k
        BY <1>3, <3>3, ChannelsDiffer
      <4>2. Await(q.wire, send, n, k)
        BY <1>4, <3>1, <4>1, AwaitTake
      <4> QED BY <1>15, <4>2, AwaitMore
    <3> QED BY <3>2, <3>3
  <2> QED BY <1>13, <2>2 DEF AwaitsOK
<1>22. MeetsOK(ctl', wire', shut', alive')
  <2>1. /\ AllFit(wire) /\ PeersOK(ctl, wire) /\ AsksOK(ctl, wire, alive)
        /\ MeetsOK(ctl, wire, shut, alive)
    BY DEF Inv
  <2>2. Calm(wire, st.wire)
    BY <1>4, <1>8, CalmMore
  <2>3. WireType(st.wire) /\ WireType(h.wire)
    BY <1>7, <1>10 DEF Handler
  <2>4. Meet(a, m, d) \in Message /\ Meet(m, a, d) \in Message
    BY <1>5, MessageTypes
  <2> DEFINE F(w, n, k, x) == First(Queue(w, Via(n), n), k, x)
  <2>5. ASSUME NEW n, NEW k, NEW x, ~(n = a /\ k = m) PROVE F(h.wire, n, k, x) <=> F(st.wire, n, k, x)
    <3>1. CASE a \in alive
      <4>1. Appends(st.wire, h.wire, Via(a), a, <<Meet(a, m, d)>>)
        BY <1>9, <3>1 DEF Given
      <4> QED BY <1>6, <2>3, <2>4, <2>5, <4>1, FirstAfter
    <3>2. CASE a \notin alive
      BY <1>9, <3>2 DEF Given
    <3> QED BY <3>1, <3>2
  <2>6. ASSUME NEW n, NEW k, NEW x, ~(n = m /\ k = a) PROVE F(r.wire, n, k, x) <=> F(h.wire, n, k, x)
    <3>1. CASE m \in alive
      <4>1. Appends(h.wire, r.wire, Via(m), m, <<Meet(m, a, d)>>)
        BY <1>11, <3>1 DEF Given
      <4> QED BY <1>6, <2>3, <2>4, <2>6, <4>1, FirstAfter
    <3>2. CASE m \notin alive
      BY <1>11, <3>2 DEF Given
    <3> QED BY <3>1, <3>2
  <2>7. \A n, k, x : F(st.wire, n, k, x) <=> F(wire, n, k, x)
    BY <2>2 DEF Calm
  <2>8. ASSUME a \in alive PROVE MeetOn(wire, wire', a, m, d)
    <3>1. Appends(st.wire, h.wire, Via(a), a, <<Meet(a, m, d)>>)
      BY <1>9, <2>8 DEF Given
    <3>2. MeetOn(st.wire, h.wire, a, m, d)
      BY <1>6, <2>3, <2>4, <3>1, FirstAfter DEF MeetOn
    <3>3. \A x : F(r.wire, a, m, x) <=> F(h.wire, a, m, x)
      BY <2>6
    <3> QED BY <1>13, <2>7, <3>2, <3>3 DEF MeetOn
  <2>9. ASSUME m \in alive PROVE MeetOn(wire, wire', m, a, d)
    <3>1. Appends(h.wire, r.wire, Via(m), m, <<Meet(m, a, d)>>)
      BY <1>11, <2>9 DEF Given
    <3>2. MeetOn(h.wire, r.wire, m, a, d)
      BY <1>6, <2>3, <2>4, <3>1, FirstAfter DEF MeetOn
    <3>3. \A x : F(h.wire, m, a, x) <=> F(st.wire, m, a, x)
      BY <2>5
    <3> QED BY <1>13, <2>7, <3>2, <3>3 DEF MeetOn
  <2>10. \A n, k \in alive : ~(n = a /\ k = m) /\ ~(n = m /\ k = a) =>
           \A x : F(wire', n, k, x) <=> F(wire, n, k, x)
    BY <1>13, <2>5, <2>6, <2>7
  <2>11. \A n : <<d, n>> \notin shut
    BY <1>5 DEF Inv
  <2>12. /\ a \in alive => <<d, a>> \notin shut'
         /\ m \in alive => <<d, m>> \notin shut'
    BY <1>17, <2>11
  <2>13. MeetsOK(ctl, wire', shut', alive)
    <3>1. \A n, k \in alive : ~(n = a /\ k = m) /\ ~(n = m /\ k = a) =>
            \A x : First(Queue(wire', Via(n), n), k, x) <=> First(Queue(wire, Via(n), n), k, x)
      BY <2>10
    <3>2. \A n \in alive : \A x : Intro(x) /\ <<x, n>> \in shut' => <<x, n>> \in shut
      BY <1>17
    <3>3. /\ a \in alive => MeetOn(wire, wire', a, m, d) /\ <<d, a>> \notin shut'
          /\ m \in alive => MeetOn(wire, wire', m, a, d) /\ <<d, m>> \notin shut'
      BY <2>8, <2>9, <2>12
    <3> QED BY <1>2, <2>1, <3>1, <3>2, <3>3, MeetsNew
  <2> QED BY <1>13, <2>13
<1>23. LostOK(ctl', shut', alive')
  BY <1>13, <1>17 DEF Inv, LostOK
<1>24. WaitsOK(ctl', send', merge')
  BY <1>13 DEF Inv
<1>25. Numbered(wire') /\ DOMAIN wire \subseteq DOMAIN wire'
  BY <1>5, <1>12, <1>13
<1> HIDE DEF Z
<1> QED BY <1>13, <1>14, <1>16, <1>17, <1>19, <1>20, <1>21, <1>22, <1>23, <1>24, <1>25, Preserve

\* The broker reads a request for an introduction (OnRequestIntroduction).
LEMMA RequestIntroductionRead ==
  ASSUME Inv, Broker \in alive, NEW b \in Node, NEW c \in Open(b), OnRequestIntroduction(b, c)
  PROVE Inv'
<1> DEFINE m == Head(wire[c][b]).name
           from == RemoteName(b, c)
           asker == PeerChannel(ctl[b], from)
           intro == <<"intro", from, m, Cardinality({x \in DOMAIN wire : x[1] = "intro" /\ x[2] = from})>>
           q == Taken(b, c)
           st == NewChannel(q, intro, from, m)
           h == Post(st, b, asker, Carry("Introduce", m, intro, from))
           r == Post(h, b, ctl[b].peers[m], Carry("Introduce", from, intro, m))
<1>1. /\ Receives(b, c, "RequestIntroduction") /\ alive' = alive /\ send' = send
      /\ Commit(IF from = m \/ asker = NoChannel THEN DropPeer(q, b, from, NoChannel)
                ELSE IF ~Has(b, m) THEN Post(q, b, asker, Plain("Introduce", m)) ELSE r)
  BY DEF OnRequestIntroduction
<1>2. b = Broker
  BY <1>1, AskedFacts
<1>3. PICK a \in Guests, k \in Guests :
         /\ c = Via(a) /\ Head(Queue(wire, c, b)) = IntroReq(k) /\ k # a /\ m = k
         /\ IsClient(ctl, a) /\ IsClient(ctl, k) /\ from = a /\ Peer(ctl, Broker, a) = c
  BY <1>1, AskedFacts
<1>4. c # NoChannel /\ asker = c
  BY <1>2, <1>3, InvitationFacts DEF Peer
<1>5. CASE ~Has(b, m)
  <2>1. Commit(Post(q, b, c, Unknown(k)))
    BY <1>1, <1>3, <1>4, <1>5 DEF Unknown
  <2>2. Peer(ctl, Broker, k) = NoChannel
    BY <1>2, <1>3, <1>5 DEF Has, Peer, PeerChannel
  <2> HIDE DEF m, from, asker
  <2> QED BY <1>1, <1>2, <1>3, <2>1, <2>2, UnknownStep
<1>6. CASE Has(b, m)
  <2>1. Commit(r)
    BY <1>1, <1>3, <1>4, <1>6
  <2>2. intro = IntroOf(a, k)
    BY <1>3 DEF IntroOf, IntrosOf
  <2>3. ctl[b].peers[m] = Peer(ctl, Broker, k) /\ Peer(ctl, Broker, k) # NoChannel
    <3>1. ctl[b] \in Controller
      BY TypedFacts DEF Inv
    <3> QED BY <1>2, <1>3, <1>6, <3>1, NoChannelIsNone DEF Has, Peer, PeerChannel, Controller, PeerMaps
  <2>4. h = Post(st, Broker, c, Meet(a, k, intro)) /\ r = Post(h, Broker, Peer(ctl, Broker, k), Meet(k, a, intro))
    BY <1>2, <1>3, <1>4, <2>3 DEF Meet
  <2>5. q = Taken(Broker, c) /\ st = NewChannel(q, intro, a, k)
    BY <1>2, <1>3
  <2> HIDE DEF m, from, asker, q, st, h, r, intro
  <2> QED BY <1>1, <1>2, <1>3, <2>1, <2>2, <2>3, <2>4, <2>5, IntroduceStep
<1> QED BY <1>5, <1>6

\* Peers change, but not those that invitations are about.
NamesSame(C, D) ==
  \A n \in Node : /\ D[n].inviter = C[n].inviter /\ D[n].boot = C[n].boot
                  /\ D[n].broker = C[n].broker /\ D[n].invitations = C[n].invitations

\* A step that changes one link between two guests leaves every invitation as it was.
LEMMA NamesStill ==
  ASSUME NEW C, NEW D, NEW W, NEW V, NEW S, NEW T, NEW B, NEW X, NamesSame(C, D), NEW m \in Guests,
         \A a, b, y : <<a, b, y>> \in X => y.type \in QuietTypes,
         \A x \in Guests : /\ Invitation(x) \in DOMAIN V <=> Invitation(x) \in DOMAIN W
                           /\ Client(x) \in DOMAIN V <=> Client(x) \in DOMAIN W,
         S \subseteq T, \A s \in T : s \in S \/ Intro(s[1]),
         m \in B => Peer(D, Broker, m) = Peer(C, Broker, m) /\ Peer(D, m, Broker) = Peer(C, m, Broker),
         m \in B /\ Inviter[m] \in B =>
           Peer(D, Inviter[m], m) = Peer(C, Inviter[m], m) /\ Peer(D, m, Inviter[m]) = Peer(C, m, Inviter[m])
  PROVE Still(C, D, W, V, S, T, B, X, m)
<1>1. \A a, b : /\ <<a, b, Hello(m)>> \notin X /\ <<a, b, Reply(m)>> \notin X
                /\ <<a, b, Welcome(m)>> \notin X /\ <<a, b, AskFor(m)>> \notin X
                /\ <<a, b, Added(m)>> \notin X
  BY QuietMessages
<1>2. m \in Node /\ Inviter[m] \in Node /\ Broker \in Node
  BY Constants
<1>3. ~Intro(Invitation(m)) /\ ~Intro(Client(m))
  BY BetweenFacts DEF Intro
<1>4. \A e : /\ <<Invitation(m), e>> \in T => <<Invitation(m), e>> \in S
             /\ <<Client(m), e>> \in T => <<Client(m), e>> \in S
  BY <1>3
<1> QED BY <1>1, <1>2, <1>4 DEF Still, NamesSame

\* Introductions of a later state, when each side has or will take the same channel.
LEMMA MeetsSame ==
  ASSUME NEW C, NEW D, NEW W, NEW V, NEW S, NEW T, NEW A, NEW B, MeetsOK(C, W, S, A), B \subseteq A,
         \A n, m \in B : Apart(n, m) => \A c : Meets(D, V, n, m, c) <=> Meets(C, W, n, m, c),
         \A n, m \in B : Apart(n, m) => \A c : Meets(C, W, n, m, c) /\ <<c, n>> \in T => <<c, n>> \in S
  PROVE MeetsOK(D, V, T, B)
<1>1. SUFFICES ASSUME NEW n \in B, NEW m \in B, Apart(n, m), NEW c, Meets(D, V, n, m, c)
               PROVE Meets(D, V, m, n, c) /\ <<c, n>> \notin T
  BY DEF MeetsOK
<1>2. Apart(m, n)
  BY <1>1 DEF Apart
<1>3. Meets(C, W, n, m, c)
  BY <1>1
<1>4. Meets(C, W, m, n, c) /\ <<c, n>> \notin S
  BY <1>1, <1>3 DEF MeetsOK
<1> QED BY <1>1, <1>2, <1>3, <1>4

\* A living process reads the answer to a request for an introduction.
LEMMA AnswerFacts ==
  ASSUME Inv, Broker \in alive, NEW n \in Node, NEW c \in Open(n), Receives(n, c, "Introduce")
  PROVE /\ n \in Guests /\ c = Via(n) /\ IsClient(ctl, n) /\ n \in alive
        /\ \E m \in Guests :
             /\ m # n /\ IsClient(ctl, m) /\ Head(wire[c][n]).name = m
             /\ \/ Head(wire[c][n]) = Unknown(m) /\ m \notin alive
                \/ \E d \in Between(n, m) :
                     /\ Head(wire[c][n]) = Meet(n, m, d) /\ d \in DOMAIN wire
                     /\ OneOn(wire, c, n, Meet(n, m, d)) /\ \A y \in Node : Peer(ctl, n, y) # d
<1> DEFINE x == Head(wire[c][n])
<1>1. /\ x = Head(Queue(wire, c, n)) /\ x.type = "Introduce" /\ On(wire, c, n, x)
      /\ Fits(c, n, x)
  BY ReadFacts
<1> HIDE DEF x
<1>2. n \in alive
  BY OpenFacts
<1>3. n \in Guests /\ c = Via(n)
  BY <1>1, FitsType
<1>4. PICK m \in Guests : m # n /\ (x = Unknown(m) \/ \E d \in Between(n, m) : x = Meet(n, m, d))
  BY <1>1, FitsType
<1>5. AsksOK(ctl, wire, alive)
  BY DEF Inv
<1>6. CASE x = Unknown(m)
  <2>1. IsClient(ctl, n) /\ IsClient(ctl, m) /\ m \notin alive
    BY <1>1, <1>3, <1>5, <1>6 DEF AsksOK
  <2>2. x.name = m
    BY <1>6, MessageFields
  <2> QED BY <1>2, <1>3, <1>4, <1>6, <2>1, <2>2 DEF x
<1>7. CASE \E d \in Between(n, m) : x = Meet(n, m, d)
  <2>1. PICK d \in Between(n, m) : x = Meet(n, m, d)
    BY <1>7
  <2>2. /\ IsClient(ctl, n) /\ IsClient(ctl, m) /\ d \in DOMAIN wire
        /\ OneOn(wire, c, n, Meet(n, m, d)) /\ \A y \in Node : Peer(ctl, n, y) # d
    BY <1>1, <1>3, <1>5, <2>1 DEF AsksOK
  <2>3. x.name = m
    BY <2>1, MessageFields
  <2> QED BY <1>2, <1>3, <1>4, <2>1, <2>2, <2>3 DEF x
<1> QED BY <1>4, <1>6, <1>7

\* What waits for m is dropped, and m is lost.
PutLost(st, n, m) == [st EXCEPT !.ctl[n].queue[m] = << >>, !.ctl[n].lost = @ \cup {m}]

Dropped(st, r, n, m) ==
  /\ Handler(r) /\ r.wire = st.wire /\ r.shut = st.shut /\ r.merge = st.merge
  /\ SameLinks(st.ctl, r.ctl)
  /\ \A x \in Node : r.ctl[x].lost = IF x = n THEN st.ctl[x].lost \cup {m} ELSE st.ctl[x].lost
  /\ \A x, y \in Node : r.ctl[x].queue[y] = IF x = n /\ y = m THEN << >> ELSE st.ctl[x].queue[y]

\* What a refused introduction does to the process that asked for it.
LEMMA PutLostFacts ==
  ASSUME NEW st, Handler(st), NEW n \in Node, NEW m \in Node
  PROVE Dropped(st, PutLost(st, n, m), n, m)
<1> DEFINE t == st.ctl[n]
           K == [t.queue EXCEPT ![m] = << >>]
           L == t.lost \cup {m}
           u == [t EXCEPT !.queue = K]
           v == [u EXCEPT !.lost = L]
           a == [st EXCEPT !.ctl[n].queue[m] = << >>]
           D == [st.ctl EXCEPT ![n] = v]
           r == PutLost(st, n, m)
<1>1. st.ctl \in [Node -> Controller] /\ t \in Controller
  BY DEF Handler
<1>2. st = [ctl |-> st.ctl, wire |-> st.wire, shut |-> st.shut, merge |-> st.merge]
  BY DEF Handler
<1>3. a = [ctl |-> [st.ctl EXCEPT ![n] = u], wire |-> st.wire, shut |-> st.shut, merge |-> st.merge]
  BY <1>1, <1>2
<1>4. r = [a EXCEPT !.ctl[n].lost = a.ctl[n].lost \cup {m}]
  BY DEF PutLost
<1>5. K \in [Node -> Seq(Events)] /\ \A y \in Node : K[y] = IF y = m THEN << >> ELSE t.queue[y]
  BY <1>1 DEF Controller
<1> HIDE DEF K, a
<1>6. /\ u \in Controller /\ u.queue = K /\ u.peers = t.peers /\ u.inviter = t.inviter
      /\ u.boot = t.boot /\ u.broker = t.broker /\ u.invitations = t.invitations /\ u.lost = t.lost
  BY <1>1, <1>5 DEF Controller
<1> HIDE DEF u
<1>7. a.ctl[n] = u /\ a.ctl = [st.ctl EXCEPT ![n] = u]
  BY <1>1, <1>3
<1>8. L \in SUBSET (Names \cup Chan)
  BY <1>1 DEF Controller, Names
<1> HIDE DEF L
<1>9. /\ v \in Controller /\ v.queue = K /\ v.peers = t.peers /\ v.inviter = t.inviter
      /\ v.boot = t.boot /\ v.broker = t.broker /\ v.invitations = t.invitations /\ v.lost = L
  BY <1>6, <1>8 DEF Controller
<1>10. r = [ctl |-> [a.ctl EXCEPT ![n] = v], wire |-> st.wire, shut |-> st.shut, merge |-> st.merge]
  BY <1>3, <1>4, <1>6, <1>7 DEF L
<1>11. [a.ctl EXCEPT ![n] = v] = D
  BY <1>1, <1>7
<1> HIDE DEF v
<1>12. D \in [Node -> Controller] /\ D[n] = v /\ \A x \in Node : x # n => D[x] = st.ctl[x]
  BY <1>1, <1>9
<1> HIDE DEF D, r
<1>13. Handler(r) /\ r.ctl = D /\ r.wire = st.wire /\ r.shut = st.shut /\ r.merge = st.merge
  BY <1>2, <1>10, <1>11, <1>12 DEF Handler
<1>14. SameLinks(st.ctl, D)
  BY <1>9, <1>12 DEF SameLinks, Peer, PeerChannel
<1>15. \A x \in Node : D[x].lost = IF x = n THEN st.ctl[x].lost \cup {m} ELSE st.ctl[x].lost
  BY <1>9, <1>12 DEF L
<1>16. \A x, y \in Node : D[x].queue[y] = IF x = n /\ y = m THEN << >> ELSE st.ctl[x].queue[y]
  BY <1>5, <1>9, <1>12
<1> QED BY <1>13, <1>14, <1>15, <1>16 DEF r, Dropped

\* The broker does not know m: it is lost.
LEMMA NotIntroducedStep ==
  ASSUME Inv, Broker \in alive, NEW n \in Guests, NEW c \in Open(n), Receives(n, c, "Introduce"),
         c = Via(n), n \in alive, IsClient(ctl, n), NEW m \in Guests, IsClient(ctl, m), m # n,
         Head(wire[c][n]) = Unknown(m), m \notin alive,
         Commit(PutLost(Taken(n, c), n, m)), alive' = alive, send' = send
  PROVE Inv'
<1> DEFINE q == Taken(n, c)
           r == PutLost(q, n, m)
<1>0. n \in Node /\ m \in Node
  BY Constants
<1>1. /\ Handler(q) /\ q.ctl = ctl /\ q.merge = merge /\ q.shut = shut /\ Takes(wire, q.wire, c, n)
      /\ DOMAIN q.wire = DOMAIN wire /\ Queue(wire, c, n) # << >>
      /\ Head(Queue(wire, c, n)) = Unknown(m)
  BY <1>0, ReadFacts
<1>2. WireType(wire) /\ alive \subseteq Node /\ send \in [Talks -> Sending]
  BY TypedFacts DEF Inv
<1>3. Unknown(m).name = m /\ Unknown(m).ch = NoChannel
  BY MessageFields
<1> HIDE DEF q
<1>4. Moves(wire, q.wire, {}) /\ Keeps(wire, q.wire, c, n) /\ Calm(wire, q.wire)
  <2>1. \A y : ~IntroMsg(Unknown(m), y)
    BY <1>3 DEF IntroMsg
  <2> QED BY <1>1, <1>2, <2>1, MovesTake
<1>5. Dropped(q, r, n, m)
  BY <1>0, <1>1, PutLostFacts
<1>6. Commit(r)
  BY DEF q
<1> HIDE DEF r
<1>7. /\ Handler(r) /\ r.wire = q.wire /\ r.shut = shut /\ r.merge = merge /\ SameLinks(ctl, r.ctl)
      /\ \A x \in Node : r.ctl[x].lost = IF x = n THEN ctl[x].lost \cup {m} ELSE ctl[x].lost
      /\ \A x, y \in Node : r.ctl[x].queue[y] = IF x = n /\ y = m THEN << >> ELSE ctl[x].queue[y]
  BY <1>1, <1>5 DEF Dropped
<1>8. Typed' /\ ctl' = r.ctl /\ wire' = q.wire /\ shut' = shut /\ merge' = merge
  BY <1>2, <1>6, <1>7, Committed
<1>9. WaitsOK(ctl, send, merge) /\ AwaitsOK(ctl, wire, send, alive) /\ LostOK(ctl, shut, alive)
  BY DEF Inv
<1>10. SameLinks(ctl, ctl')
  BY <1>7, <1>8
<1>11. \A x \in Node : IsClient(ctl', x) <=> IsClient(ctl, x)
  BY <1>10, SameClients
<1>12. WaitsOK(ctl', send', merge')
  BY <1>7, <1>8, <1>9, <1>11, Constants DEF WaitsOK, SameLinks
<1>13. AwaitsOK(ctl', wire', send', alive)
  <2>1. ASSUME NEW x \in alive, NEW y \in Node, ctl'[x].queue[y] # << >>
        PROVE Await(wire', send, x, y)
    <3>1. ~(x = n /\ y = m) /\ ctl[x].queue[y] # << >>
      BY <1>2, <1>7, <1>8, <2>1
    <3>2. Await(wire, send, x, y)
      BY <1>9, <3>1 DEF AwaitsOK
    <3>3. c # Via(x) \/ Head(Queue(wire, c, n)).name # y
      BY <1>1, <1>3, <3>1, ChannelsDiffer
    <3> QED BY <1>4, <1>8, <3>2, <3>3, AwaitTake
  <2> QED BY <2>1 DEF AwaitsOK
<1>14. LostOK(ctl', shut, alive)
  <2>1. ASSUME NEW x \in alive, NEW y \in ctl'[x].lost \cap Node
        PROVE y \notin alive \/ (x = Broker /\ y \in Guests /\ Inviter[y] # Broker
                   /\ <<Client(y), y>> \in shut /\ ~IsClient(ctl', y))
    <3>1. y \in ctl[x].lost \/ y = m
      BY <1>2, <1>7, <1>8
    <3> QED BY <1>9, <1>11, <3>1 DEF LostOK
  <2> QED BY <2>1 DEF LostOK
<1>15. SameFirst(wire, wire', alive)
  BY <1>4, <1>8, CalmFirst
<1>16. AsksNew(ctl', wire, wire', alive, {})
  BY DEF AsksNew
<1> QED BY <1>1, <1>4, <1>8, <1>10, <1>12, <1>13, <1>14, <1>15, <1>16, Quiet

\* Taking the message that introduces m to n.
LEMMA TakeMeet ==
  ASSUME NEW v, WireType(v), NEW w, NEW n, NEW m, NEW d, d # NoChannel, NEW c, c = Via(n),
         Takes(v, w, c, n), Queue(v, c, n) # << >>, Head(Queue(v, c, n)) = Meet(n, m, d)
  PROVE /\ \A x : First(Queue(v, Via(n), n), m, x) <=> x = d
        /\ \A a, k, x : ~(a = n /\ k = m) =>
             (First(Queue(w, Via(a), a), k, x) <=> First(Queue(v, Via(a), a), k, x))
<1> DEFINE s == Queue(v, c, n)
           z == Meet(n, m, d)
<1>1. z.type = "Introduce" /\ z.name = m /\ z.ch = d
  BY MessageFields
<1>2. s \in Seq(Message)
  BY QueueType
<1>3. \A a, b : Queue(w, a, b) = IF a = c /\ b = n THEN Tail(s) ELSE Queue(v, a, b)
  BY DEF Takes
<1>4. s # << >> /\ Head(s) = z /\ s = Queue(v, c, n)
  OBVIOUS
<1> HIDE DEF s, z
<1>5. IntroMsg(z, m) /\ \A k : k # m => ~IntroMsg(z, k)
  BY <1>1 DEF IntroMsg
<1>6. \A x : First(s, m, x) <=> x = d
  BY <1>1, <1>2, <1>4, <1>5, FirstTail
<1>7. \A k, x : k # m => (First(Tail(s), k, x) <=> First(s, k, x))
  BY <1>2, <1>4, <1>5, FirstTail
<1>8. ASSUME NEW a, NEW k, NEW x, ~(a = n /\ k = m)
      PROVE First(Queue(w, Via(a), a), k, x) <=> First(Queue(v, Via(a), a), k, x)
  <2>1. CASE a = n
    BY <1>3, <1>4, <1>7, <1>8, <2>1
  <2>2. CASE a # n
    BY <1>3, <2>2
  <2> QED BY <2>1, <2>2
<1> QED BY <1>4, <1>6, <1>8

\* Between processes that have invited each other there is no introduction.
LEMMA ApartIfNew ==
  ASSUME Inv, NEW n \in Guests, NEW m \in Guests, n \in alive, m \in alive, m # n,
         IsClient(ctl, n), IsClient(ctl, m), Peer(ctl, n, m) = NoChannel
  PROVE Apart(n, m)
<1>1. /\ NameOK(ctl, wire, n) /\ StageOK(ctl, wire, shut, alive, n) /\ LinkOK(ctl, wire, shut, alive, n)
      /\ NameOK(ctl, wire, m) /\ StageOK(ctl, wire, shut, alive, m) /\ LinkOK(ctl, wire, shut, alive, m)
  BY GuestFacts
<1>2. /\ Invitation(n) # NoChannel /\ Invitation(m) # NoChannel
      /\ n # Broker /\ m # Broker
  BY InvitationFacts, Constants
<1>3. Invitation(n) \in DOMAIN wire /\ Invitation(m) \in DOMAIN wire
  BY <1>1, <1>2 DEF NameOK, IsClient
<1>4. Inviter[m] # n
  <2>1. SUFFICES ASSUME Inviter[m] = n PROVE FALSE
    OBVIOUS
  <2>2. Invitation(m) \notin ctl[n].invitations
    BY <1>1, <2>1 DEF StageOK
  <2> QED BY <1>1, <1>2, <1>3, <2>1, <2>2 DEF LinkOK
<1>5. Inviter[n] # m
  BY <1>1, <1>2, <1>3 DEF LinkOK
<1> QED BY <1>4, <1>5 DEF Apart

\* A new peer.
Joined(st, r, n, m, c) ==
  /\ Handler(r) /\ r.merge = st.merge /\ r.shut = st.shut
  /\ r.wire = st.wire \/ Appends(st.wire, r.wire, c, m, st.ctl[n].queue[m])
  /\ DOMAIN r.wire = DOMAIN st.wire /\ Moves(st.wire, r.wire, {}) /\ Calm(st.wire, r.wire)
  /\ \A a, b, y : On(st.wire, a, b, y) => On(r.wire, a, b, y)
  /\ SameOthers(st.ctl, r.ctl, n) /\ SameNames(st.ctl[n], r.ctl[n])
  /\ r.ctl[n].invitations = st.ctl[n].invitations /\ r.ctl[n].lost = st.ctl[n].lost
  /\ \A x, y : x \in Node =>
       Peer(r.ctl, x, y) = IF x = n /\ y = m THEN c ELSE Peer(st.ctl, x, y)
  /\ \A x, y \in Node : r.ctl[x].queue[y] = IF x = n /\ y = m THEN << >> ELSE st.ctl[x].queue[y]

\* What AddPeer changes, in the words of the invariant.
LEMMA JoinFacts ==
  ASSUME NEW st, Handler(st), NEW c \in DOMAIN st.wire, NEW n \in Node, NEW m \in Node,
         n # m, Ends(c) = {n, m}, Peer(st.ctl, n, m) = NoChannel
  PROVE Joined(st, AddPeer(st, n, m, c), n, m, c)
<1> DEFINE r == AddPeer(st, n, m, c)
           t == st.ctl[n].queue[m]
<1>1. PeerChannel(st.ctl[n], m) = NoChannel
  BY DEF Peer
<1>2. PeerAdded(st, r, n, m, c)
  BY <1>1, AddPeerFacts
<1>3. t \in Seq(Events) /\ WireType(st.wire)
  BY DEF Handler, Controller
<1> HIDE DEF r, t
<1>4. /\ DOMAIN r.wire = DOMAIN st.wire /\ Moves(st.wire, r.wire, {}) /\ Calm(st.wire, r.wire)
      /\ \A a, b, y : On(st.wire, a, b, y) => On(r.wire, a, b, y)
  <2>1. CASE r.wire = st.wire
    BY <2>1, MovesNone
  <2>2. CASE Appends(st.wire, r.wire, c, m, t)
    <3>1. DOMAIN r.wire = DOMAIN st.wire
      BY <2>2 DEF Appends
    <3> QED BY <1>3, <2>2, <3>1, MovesEvents
  <2> QED BY <1>2, <2>1, <2>2 DEF t, PeerAdded
<1>5. \A x, y : x \in Node =>
        Peer(r.ctl, x, y) = IF x = n /\ y = m THEN c ELSE Peer(st.ctl, x, y)
  BY <1>2 DEF SameOthers, Peer, PeerAdded
<1>6. \A x, y \in Node : r.ctl[x].queue[y] = IF x = n /\ y = m THEN << >> ELSE st.ctl[x].queue[y]
  BY <1>2 DEF SameOthers, PeerAdded
<1>7. r.wire = st.wire \/ Appends(st.wire, r.wire, c, m, st.ctl[n].queue[m])
  BY <1>2 DEF t, PeerAdded
<1> QED BY <1>2, <1>4, <1>5, <1>6, <1>7 DEF r, Joined, PeerAdded

\* The process that m is introduced to takes it as a peer.
LEMMA IntroducedStep ==
  ASSUME Inv, Broker \in alive, NEW n \in Guests, NEW c \in Open(n), Receives(n, c, "Introduce"),
         c = Via(n), n \in alive, IsClient(ctl, n), NEW m \in Guests, IsClient(ctl, m), m # n,
         NEW d \in Between(n, m), Head(wire[c][n]) = Meet(n, m, d), d \in DOMAIN wire,
         OneOn(wire, c, n, Meet(n, m, d)), \A y \in Node : Peer(ctl, n, y) # d,
         Peer(ctl, n, m) = NoChannel, Commit(AddPeer(Taken(n, c), n, m, d)),
         alive' = alive, send' = send
  PROVE Inv'
<1> DEFINE q == Taken(n, c)
           r == AddPeer(q, n, m, d)
<1>0. n \in Node /\ m \in Node /\ n # Broker /\ m # Broker /\ Broker \in Node
  BY Constants
<1>1. /\ Handler(q) /\ q.ctl = ctl /\ q.merge = merge /\ q.shut = shut /\ Takes(wire, q.wire, c, n)
      /\ DOMAIN q.wire = DOMAIN wire /\ Queue(wire, c, n) # << >>
      /\ Head(Queue(wire, c, n)) = Meet(n, m, d)
  BY <1>0, ReadFacts
<1>2. WireType(wire) /\ alive \subseteq Node /\ send \in [Talks -> Sending]
  BY TypedFacts DEF Inv
<1>3. Meet(n, m, d).name = m
  BY MessageFields
<1>4. d \in Chan /\ d # NoChannel /\ Ends(d) = {n, m} /\ Intro(d)
  BY BetweenFacts DEF Intro
<1> HIDE DEF q
<1>5. Moves(wire, q.wire, {}) /\ Keeps(wire, q.wire, c, n) /\ ~On(q.wire, c, n, Meet(n, m, d))
  BY <1>1, <1>2, MovesTake
<1>6. Joined(q, r, n, m, d)
  BY <1>0, <1>1, <1>4, JoinFacts
<1>7. Commit(r)
  BY DEF q
<1> HIDE DEF r
<1>8. Typed' /\ ctl' = r.ctl /\ wire' = r.wire /\ shut' = shut /\ merge' = merge
  BY <1>1, <1>2, <1>6, <1>7, Committed DEF Joined
<1>9. /\ DOMAIN wire' = DOMAIN wire /\ Moves(q.wire, wire', {}) /\ Calm(q.wire, wire')
      /\ \A a, b, y : On(q.wire, a, b, y) => On(wire', a, b, y)
      /\ SameOthers(ctl, ctl', n) /\ SameNames(ctl[n], ctl'[n])
      /\ ctl'[n].invitations = ctl[n].invitations /\ ctl'[n].lost = ctl[n].lost
      /\ \A x, y : x \in Node => Peer(ctl', x, y) = IF x = n /\ y = m THEN d ELSE Peer(ctl, x, y)
      /\ \A x, y \in Node : ctl'[x].queue[y] = IF x = n /\ y = m THEN << >> ELSE ctl[x].queue[y]
  BY <1>1, <1>6, <1>8 DEF Joined
<1>10. Moves(wire, wire', {})
  <2>1. {} \cap {} = {} /\ {} \cup {} = {}
    OBVIOUS
  <2> QED BY <1>5, <1>9, <2>1, MovesMore
<1>11. NamesSame(ctl, ctl') /\ \A x \in Node : ctl'[x].lost = ctl[x].lost
  BY <1>9 DEF NamesSame, SameOthers, SameNames
<1>12. \A x \in Node : IsClient(ctl', x) <=> IsClient(ctl, x)
  BY <1>11 DEF NamesSame, IsClient
<1>13. ASSUME m \in alive PROVE Apart(n, m)
  BY <1>13, ApartIfNew
<1>14. \A k \in Guests : Still(ctl, ctl', wire, wire', shut, shut', alive', {}, k)
  <2>1. ASSUME NEW k \in Guests PROVE Still(ctl, ctl', wire, wire', shut, shut', alive', {}, k)
    <3>1. k \in Node /\ Inviter[k] \in Node
      BY Constants
    <3>2. Peer(ctl', Broker, k) = Peer(ctl, Broker, k) /\ Peer(ctl', k, Broker) = Peer(ctl, k, Broker)
      BY <1>0, <1>9, <3>1
    <3>3. ASSUME k \in alive, Inviter[k] \in alive
          PROVE /\ Peer(ctl', Inviter[k], k) = Peer(ctl, Inviter[k], k)
                /\ Peer(ctl', k, Inviter[k]) = Peer(ctl, k, Inviter[k])
      <4>1. ~(Inviter[k] = n /\ k = m) /\ ~(k = n /\ Inviter[k] = m)
        BY <1>13, <3>3 DEF Apart
      <4> QED BY <1>9, <3>1, <4>1
    <3>4. /\ shut \subseteq shut' /\ \A s \in shut' : s \in shut \/ Intro(s[1])
          /\ \A x \in Guests : /\ Invitation(x) \in DOMAIN wire' <=> Invitation(x) \in DOMAIN wire
                               /\ Client(x) \in DOMAIN wire' <=> Client(x) \in DOMAIN wire
      BY <1>8, <1>9
    <3> QED BY <1>11, <3>2, <3>3, <3>4, NamesStill
  <2> QED BY <2>1
<1>15. PeerOK(ctl', wire', n, m)
  <2>1. Peer(ctl', n, m) = d /\ d \in DOMAIN wire' /\ IsClient(ctl', n) /\ IsClient(ctl', m)
    BY <1>0, <1>9, <1>12
  <2> QED BY <1>0, <2>1 DEF PeerOK
<1>16. \A y : ~On(wire', Via(n), n, Meet(n, y, d))
  <2>1. SUFFICES ASSUME NEW y, On(wire', Via(n), n, Meet(n, y, d)) PROVE FALSE
    OBVIOUS
  <2>2. On(q.wire, Via(n), n, Meet(n, y, d))
    BY <1>9, <2>1, NotEvents DEF Moves
  <2>3. On(wire, Via(n), n, Meet(n, y, d))
    BY <1>5, <2>2, NotEvents DEF Moves
  <2>4. y \in Guests /\ d \in Between(n, y)
    BY <1>4, <2>3, FitsMeet DEF Inv, AllFit
  <2>5. y = m
    BY <2>4, BetweenFacts
  <2> QED BY <1>5, <2>2, <2>5
<1>17. WaitsOK(ctl', send', merge')
  <2>1. WaitsOK(ctl, send, merge)
    BY DEF Inv
  <2>2. \A x, y \in Node :
           /\ ctl'[x].queue[y] = ctl[x].queue[y] \/ ctl'[x].queue[y] = << >>
           /\ \/ Peer(ctl', x, y) = Peer(ctl, x, y) \/ Peer(ctl', x, y) = NoChannel
              \/ ctl'[x].queue[y] = << >>
    BY <1>9
  <2>3. \A p \in Talks : send'[p].at = "idle" \/ (send[p].at # "idle" /\ send'[p].via = send[p].via)
    OBVIOUS
  <2> QED BY <1>8, <1>12, <2>1, <2>2, <2>3, WaitsKept
<1>18. AwaitsOK(ctl', wire', send', alive')
  <2>1. ASSUME NEW x \in alive, NEW y \in Node, ctl'[x].queue[y] # << >>
        PROVE Await(wire', send, x, y)
    <3>1. ~(x = n /\ y = m) /\ ctl[x].queue[y] # << >>
      BY <1>2, <1>9, <2>1
    <3>2. Await(wire, send, x, y)
      BY <3>1 DEF Inv, AwaitsOK
    <3>3. c # Via(x) \/ Head(Queue(wire, c, n)).name # y
      BY <1>1, <1>3, <3>1, ChannelsDiffer
    <3>4. Await(q.wire, send, x, y)
      BY <1>5, <3>2, <3>3, AwaitTake
    <3> QED BY <1>9, <3>4, AwaitMore
  <2> QED BY <2>1 DEF AwaitsOK
<1>19. LostOK(ctl', shut', alive')
  BY <1>2, <1>8, <1>11, <1>12, Constants DEF Inv, LostOK
<1>20. MeetsOK(ctl', wire', shut', alive')
  <2>1. /\ \A x : First(Queue(wire, Via(n), n), m, x) <=> x = d
        /\ \A a, k, x : ~(a = n /\ k = m) =>
             (First(Queue(q.wire, Via(a), a), k, x) <=> First(Queue(wire, Via(a), a), k, x))
    BY <1>1, <1>2, <1>4, TakeMeet
  <2>2. \A a, k, x : ~(a = n /\ k = m) =>
             (First(Queue(wire', Via(a), a), k, x) <=> First(Queue(wire, Via(a), a), k, x))
    BY <1>9, <2>1 DEF Calm
  <2>3. ASSUME NEW a \in alive, NEW k \in alive, NEW x
        PROVE Meets(ctl', wire', a, k, x) <=> Meets(ctl, wire, a, k, x)
    <3>1. CASE a = n /\ k = m
      <4>1. Peer(ctl', a, k) = d
        BY <1>0, <1>9, <3>1
      <4> QED BY <1>4, <2>1, <3>1, <4>1 DEF Meets
    <3>2. CASE ~(a = n /\ k = m)
      <4>1. Peer(ctl', a, k) = Peer(ctl, a, k)
        BY <1>2, <1>9, <3>2
      <4> QED BY <2>2, <3>2, <4>1 DEF Meets
    <3> QED BY <3>1, <3>2
  <2>4. MeetsOK(ctl, wire, shut, alive) /\ alive' \subseteq alive
    BY DEF Inv
  <2> QED BY <1>8, <2>3, <2>4, MeetsSame
<1>21. /\ Numbered(wire') /\ \A s \in shut' : s[1] \in DOMAIN wire'
  BY <1>8, <1>9, NumberedSame DEF Inv
<1>22. /\ \A x, y \in Node : \/ Peer(ctl', x, y) = Peer(ctl, x, y)
                             \/ Peer(ctl', x, y) = NoChannel
                             \/ PeerOK(ctl', wire', x, y)
       /\ \A x, y \in Node : \/ Peer(ctl', x, y) = Peer(ctl, x, y)
                             \/ ~Intro(Peer(ctl', x, y))
                             \/ \A z : ~On(wire', Via(x), x, Meet(x, z, Peer(ctl', x, y)))
  <2>1. ASSUME NEW x \in Node, NEW y \in Node, Peer(ctl', x, y) # Peer(ctl, x, y)
        PROVE x = n /\ y = m /\ Peer(ctl', x, y) = d
    BY <1>9, <2>1
  <2> QED BY <1>15, <1>16, <2>1
<1>23. /\ ctl'[Broker].inviter = ctl[Broker].inviter /\ ctl'[Broker].boot = ctl[Broker].boot
       /\ ctl'[Broker].broker = ctl[Broker].broker
       /\ \A x \in Node : \A e \in ctl'[x].invitations :
            e \in ctl[x].invitations \/ NewInvitation(wire, wire', x, e)
  BY <1>0, <1>11 DEF NamesSame
<1>24. AsksNew(ctl', wire, wire', alive', {}) /\ \A a, b, y : <<a, b, y>> \in {} => Fits(a, b, y)
  BY DEF AsksNew
<1> QED BY <1>8, <1>9, <1>10, <1>12, <1>14, <1>17, <1>18, <1>19, <1>20, <1>21, <1>22, <1>23, <1>24, Preserve

\* The process has m as a peer already: the new channel is closed.
LEMMA IntroducedAgainStep ==
  ASSUME Inv, Broker \in alive, NEW n \in Guests, NEW c \in Open(n), Receives(n, c, "Introduce"),
         c = Via(n), n \in alive, IsClient(ctl, n), NEW m \in Guests, IsClient(ctl, m), m # n,
         NEW d \in Between(n, m), Head(wire[c][n]) = Meet(n, m, d), d \in DOMAIN wire,
         \A y \in Node : Peer(ctl, n, y) # d,
         Peer(ctl, n, m) # NoChannel, Commit(AddPeer(Taken(n, c), n, m, d)),
         alive' = alive, send' = send
  PROVE Inv'
<1> DEFINE q == Taken(n, c)
           r == AddPeer(q, n, m, d)
<1>0. n \in Node /\ m \in Node /\ n # Broker /\ m # Broker /\ Broker \in Node
  BY Constants
<1>1. /\ Handler(q) /\ q.ctl = ctl /\ q.merge = merge /\ q.shut = shut /\ Takes(wire, q.wire, c, n)
      /\ DOMAIN q.wire = DOMAIN wire /\ Queue(wire, c, n) # << >>
      /\ Head(Queue(wire, c, n)) = Meet(n, m, d)
  BY <1>0, ReadFacts
<1>2. WireType(wire) /\ alive \subseteq Node /\ send \in [Talks -> Sending]
  BY TypedFacts DEF Inv
<1>3. Meet(n, m, d).name = m
  BY MessageFields
<1>4. d \in Chan /\ d # NoChannel /\ Ends(d) = {n, m} /\ Intro(d)
  BY BetweenFacts DEF Intro
<1> HIDE DEF q
<1>5. Moves(wire, q.wire, {}) /\ Keeps(wire, q.wire, c, n)
  BY <1>1, <1>2, MovesTake
<1>6. Handler(r) /\ r.ctl = ctl /\ r.wire = q.wire /\ r.merge = merge /\ r.shut = shut \cup {<<d, n>>}
  <2>1. PeerChannel(q.ctl[n], m) # NoChannel
    BY <1>1 DEF Peer
  <2> QED BY <1>0, <1>1, <1>4, <2>1, AddPeerAgainFacts
<1>7. Commit(r)
  BY DEF q
<1> HIDE DEF r
<1>8. Typed' /\ ctl' = ctl /\ wire' = q.wire /\ shut' = shut \cup {<<d, n>>} /\ merge' = merge
  BY <1>2, <1>6, <1>7, Committed
<1>9. SameLinks(ctl, ctl')
  BY <1>8 DEF SameLinks
<1>10. /\ shut \subseteq shut' /\ \A s \in shut' : s \in shut \/ Intro(s[1])
       /\ \A s \in shut' : s[1] \in DOMAIN wire'
  BY <1>1, <1>4, <1>8 DEF Inv
<1>11. \A k \in Guests : Still(ctl, ctl', wire, wire', shut, shut', alive', {}, k)
  <2>1. \A x \in Guests : /\ Invitation(x) \in DOMAIN wire' <=> Invitation(x) \in DOMAIN wire
                          /\ Client(x) \in DOMAIN wire' <=> Client(x) \in DOMAIN wire
    BY <1>1, <1>8
  <2>2. \A a, b, y : <<a, b, y>> \in {} => y.type \in QuietTypes
    OBVIOUS
  <2> QED BY <1>9, <1>10, <2>1, <2>2, QuietStill
<1>12. AwaitsOK(ctl', wire', send', alive')
  <2>1. ASSUME NEW x \in alive, NEW y \in Node, ctl[x].queue[y] # << >>
        PROVE Await(wire', send, x, y)
    <3>1. ~(x = n /\ y = m)
      BY <1>0, <2>1 DEF Inv, WaitsOK
    <3>2. Await(wire, send, x, y)
      BY <2>1 DEF Inv, AwaitsOK
    <3>3. c # Via(x) \/ Head(Queue(wire, c, n)).name # y
      BY <1>1, <1>3, <3>1, ChannelsDiffer
    <3> QED BY <1>5, <1>8, <3>2, <3>3, AwaitTake
  <2> QED BY <1>8, <2>1 DEF AwaitsOK
<1>13. MeetsOK(ctl', wire', shut', alive')
  <2>1. \A a, k, x : ~(a = n /\ k = m) =>
             (First(Queue(wire', Via(a), a), k, x) <=> First(Queue(wire, Via(a), a), k, x))
    BY <1>1, <1>2, <1>4, <1>8, TakeMeet
  <2>2. \A a, k \in alive : Apart(a, k) => \A x : Meets(ctl', wire', a, k, x) <=> Meets(ctl, wire, a, k, x)
    BY <1>8, <2>1 DEF Meets
  <2>3. ASSUME NEW a \in alive, NEW k \in alive, Apart(a, k), NEW x, Meets(ctl, wire, a, k, x),
               <<x, a>> \in shut'
        PROVE <<x, a>> \in shut
    <3>1. x \in Between(a, k)
      BY <1>2, <2>3, MeetsIntro DEF Inv
    <3>2. SUFFICES ASSUME x = d, a = n PROVE FALSE
      BY <1>8, <2>3
    <3>3. k = m
      BY <3>1, <3>2, BetweenFacts
    <3> QED BY <1>0, <2>3, <3>2, <3>3 DEF Meets
  <2>4. MeetsOK(ctl, wire, shut, alive) /\ alive' \subseteq alive
    BY DEF Inv
  <2> QED BY <2>2, <2>3, <2>4, MeetsSame
<1>14. LostOK(ctl', shut', alive')
  BY <1>8 DEF Inv, LostOK
<1>15. WaitsOK(ctl', send', merge') /\ Numbered(wire')
  BY <1>1, <1>8, NumberedSame DEF Inv
<1>16. AsksNew(ctl', wire, wire', alive', {}) /\ \A a, b, y : <<a, b, y>> \in {} => Fits(a, b, y)
  BY DEF AsksNew
<1> QED BY <1>1, <1>5, <1>8, <1>10, <1>11, <1>12, <1>13, <1>14, <1>15, <1>16, Preserve

\* A process reads an introduction or its refusal (OnIntroduce).
LEMMA IntroduceRead ==
  ASSUME Inv, Broker \in alive, NEW n \in Node, NEW c \in Open(n), OnIntroduce(n, c)
  PROVE Inv'
<1> DEFINE x == Head(wire[c][n])
           q == Taken(n, c)
<1>1. /\ Receives(n, c, "Introduce") /\ alive' = alive /\ send' = send
      /\ Commit(IF x.ch = NoChannel THEN PutLost(q, n, x.name) ELSE AddPeer(q, n, x.name, x.ch))
  BY DEF OnIntroduce, PutLost
<1>2. n \in Guests /\ c = Via(n) /\ IsClient(ctl, n) /\ n \in alive
  BY <1>1, AnswerFacts
<1>3. PICK m \in Guests :
             /\ m # n /\ IsClient(ctl, m) /\ x.name = m
             /\ \/ x = Unknown(m) /\ m \notin alive
                \/ \E d \in Between(n, m) :
                     /\ x = Meet(n, m, d) /\ d \in DOMAIN wire
                     /\ OneOn(wire, c, n, Meet(n, m, d)) /\ \A y \in Node : Peer(ctl, n, y) # d
  BY <1>1, AnswerFacts
<1>4. CASE x = Unknown(m) /\ m \notin alive
  <2>1. Unknown(m).ch = NoChannel
    BY MessageFields
  <2>2. Commit(PutLost(q, n, m))
    BY <1>1, <1>3, <1>4, <2>1
  <2> QED BY <1>1, <1>2, <1>3, <1>4, <2>2, NotIntroducedStep
<1>5. CASE \E d \in Between(n, m) :
             /\ x = Meet(n, m, d) /\ d \in DOMAIN wire
             /\ OneOn(wire, c, n, Meet(n, m, d)) /\ \A y \in Node : Peer(ctl, n, y) # d
  <2>1. PICK d \in Between(n, m) :
             /\ x = Meet(n, m, d) /\ d \in DOMAIN wire
             /\ OneOn(wire, c, n, Meet(n, m, d)) /\ \A y \in Node : Peer(ctl, n, y) # d
    BY <1>5
  <2>2. Meet(n, m, d).ch = d /\ d # NoChannel
    BY <1>2, MessageFields, BetweenFacts
  <2>3. Commit(AddPeer(q, n, m, d))
    BY <1>1, <1>3, <2>1, <2>2
  <2>4. CASE Peer(ctl, n, m) = NoChannel
    BY <1>1, <1>2, <1>3, <2>1, <2>3, <2>4, IntroducedStep
  <2>5. CASE Peer(ctl, n, m) # NoChannel
    BY <1>1, <1>2, <1>3, <2>1, <2>3, <2>5, IntroducedAgainStep
  <2> QED BY <2>4, <2>5
<1> QED BY <1>3, <1>4, <1>5

\* Only the names of nodes and the waiting clients change.
SameStage(C, D) ==
  \A n \in Node : /\ D[n].inviter = C[n].inviter /\ D[n].broker = C[n].broker
                  /\ D[n].invitations = C[n].invitations
                  /\ \A m \in Node : Peer(D, n, m) = Peer(C, n, m)

\* The stage of an invitation depends on the names and links alone.
LEMMA SameStages ==
  ASSUME NEW C, NEW D, NEW W, NEW S, NEW A, SameStage(C, D), NEW m \in Guests,
         StageOK(C, W, S, A, m), LinkOK(C, W, S, A, m)
  PROVE StageOK(D, W, S, A, m) /\ LinkOK(D, W, S, A, m)
<1> DEFINE i == Inviter[m]
<1>1. m \in Node /\ i \in Node /\ Broker \in Node
  BY Constants
<1>2. /\ IsClient(D, m) <=> IsClient(C, m)
      /\ IsClient(D, i) <=> IsClient(C, i)
      /\ D[m].inviter = C[m].inviter /\ D[i].invitations = C[i].invitations
      /\ Peer(D, Broker, m) = Peer(C, Broker, m) /\ Peer(D, m, Broker) = Peer(C, m, Broker)
      /\ Peer(D, i, m) = Peer(C, i, m) /\ Peer(D, m, i) = Peer(C, m, i)
  BY <1>1 DEF SameStage, IsClient
<1>3. Token(D, W, S, A, m) <=> Token(C, W, S, A, m)
  BY <1>2 DEF Token
<1>4. StageOK(D, W, S, A, m)
  BY <1>2, <1>3 DEF StageOK
<1>5. LinkOK(D, W, S, A, m)
  BY <1>2 DEF LinkOK
<1> QED BY <1>4, <1>5

\* The invited process has been started with its end of the channel.
LEMMA AcceptBrokerClientInvitationStep ==
  ASSUME Inv, Broker \in alive, NEW m \in Node, AcceptBrokerClientInvitation(m)
  PROVE Inv'
<1> DEFINE c == Invitation(m)
           v == [ctl[m] EXCEPT !.boot = c]
           D == [ctl EXCEPT ![m] = v]
           q == [Begin EXCEPT !.ctl[m].boot = c]
<1>1. /\ c \in DOMAIN wire /\ ctl[m].boot = NoChannel /\ ctl[m].inviter = NoNode
      /\ Commit(q) /\ alive' = alive /\ send' = send
  BY DEF AcceptBrokerClientInvitation
<1>2. /\ Handler(Begin) /\ Begin.ctl = ctl /\ Begin.wire = wire /\ Begin.shut = shut
      /\ Begin.merge = merge /\ alive \subseteq Node /\ send \in [Talks -> Sending]
      /\ ctl \in [Node -> Controller] /\ WireType(wire)
  BY TypedFacts DEF Inv
<1>3. m \in Guests /\ c \in Chan
  <2>1. c \in Chan
    BY <1>1, <1>2 DEF WireType
  <2>2. \A x, y \in Guests : c \notin Between(x, y)
    BY BetweenFacts
  <2> QED BY <2>1, <2>2, ChannelKinds, ChannelsDiffer
<1>4. NameOK(ctl, wire, m) /\ m # Broker /\ Broker \in Node
  BY <1>3, GuestFacts, Constants
<1> HIDE DEF c
<1>5. /\ v \in Controller /\ v.peers = ctl[m].peers /\ v.inviter = ctl[m].inviter
      /\ v.broker = ctl[m].broker /\ v.invitations = ctl[m].invitations /\ v.queue = ctl[m].queue
      /\ v.lost = ctl[m].lost /\ v.boot = c
  BY ZenonT(30), <1>2, <1>3 DEF Controller
<1>6. q = [ctl |-> D, wire |-> wire, shut |-> shut, merge |-> merge]
  BY <1>2 DEF Begin
<1> HIDE DEF v
<1>7. D \in [Node -> Controller] /\ D[m] = v /\ \A x \in Node : x # m => D[x] = ctl[x]
  BY <1>2, <1>5
<1> HIDE DEF D, q
<1>8. Handler(q) /\ q.ctl = D /\ q.wire = wire /\ q.shut = shut /\ q.merge = merge
  BY <1>2, <1>6, <1>7 DEF Handler
<1>9. Typed' /\ ctl' = D /\ wire' = wire /\ shut' = shut /\ merge' = merge
  BY <1>1, <1>2, <1>8, Committed
<1>10. SameStage(ctl, ctl') /\ SameWaits(ctl, ctl')
       /\ \A x \in Node : ctl'[x].lost = ctl[x].lost /\ (x # m => ctl'[x].boot = ctl[x].boot)
  BY <1>5, <1>7, <1>9 DEF SameStage, SameWaits, Peer, PeerChannel
<1>11. \A x \in Node : IsClient(ctl', x) <=> IsClient(ctl, x)
  BY <1>10 DEF SameStage, IsClient
<1>12. \A k \in Guests : /\ NameOK(ctl', wire', k) /\ StageOK(ctl', wire', shut', alive', k)
                         /\ LinkOK(ctl', wire', shut', alive', k)
  <2>1. ASSUME NEW k \in Guests
        PROVE /\ NameOK(ctl', wire', k) /\ StageOK(ctl', wire', shut', alive', k)
              /\ LinkOK(ctl', wire', shut', alive', k)
    <3>1. NameOK(ctl, wire, k) /\ StageOK(ctl, wire, shut, alive, k) /\ LinkOK(ctl, wire, shut, alive, k)
      BY GuestFacts
    <3>2. StageOK(ctl', wire', shut', alive', k) /\ LinkOK(ctl', wire', shut', alive', k)
      BY <1>1, <1>9, <1>10, <3>1, SameStages
    <3>3. k \in Node /\ Inviter[k] \in Node
      BY Constants
    <3>4. /\ ctl'[k].inviter = ctl[k].inviter /\ ctl'[k].broker = ctl[k].broker
          /\ IsClient(ctl', Inviter[k]) <=> IsClient(ctl, Inviter[k])
      BY <1>10, <1>11, <3>3 DEF SameStage
    <3>5. CASE k = m
      <4>1. ctl'[m].boot = Invitation(m) /\ ctl[m].broker = NoNode
        BY <1>1, <1>4, <1>5, <1>7, <1>9 DEF c, NameOK
      <4>2. Inviter[m] # m
        BY <1>1, <1>4 DEF c, NameOK
      <4>3. ctl'[Inviter[m]].boot = ctl[Inviter[m]].boot
        BY <1>10, <3>3, <3>5, <4>2
      <4>4. NameOK(ctl', wire', k)
        BY <1>1, <1>9, <3>1, <3>4, <3>5, <4>1, <4>3 DEF NameOK, c
      <4> QED BY <3>2, <4>4
    <3>6. CASE k # m
      <4>1. ctl'[k].boot = ctl[k].boot
        BY <1>10, <3>3, <3>6
      <4>2. \/ ctl'[Inviter[k]].boot = ctl[Inviter[k]].boot
            \/ Inviter[k] = m /\ ctl'[Inviter[k]].boot = Invitation(Inviter[k])
        BY <1>5, <1>7, <1>9, <1>10, <3>3 DEF c
      <4>3. NameOK(ctl', wire', k)
        BY <1>9, <3>1, <3>4, <4>1, <4>2 DEF NameOK
      <4> QED BY <3>2, <4>3
    <3> QED BY <3>5, <3>6
  <2> QED BY <2>1
<1>13. \A x, y \in Node : Peer(ctl', x, y) = Peer(ctl, x, y)
  BY <1>10 DEF SameStage
<1>14. WaitsOK(ctl', send', merge')
  BY <1>1, <1>9, <1>10, <1>11, <1>13, Constants DEF Inv, WaitsOK, SameWaits
<1>15. AwaitsOK(ctl', wire', send', alive')
  BY <1>1, <1>2, <1>9, <1>10 DEF Inv, AwaitsOK, SameWaits
<1>16. LostOK(ctl', shut', alive')
  BY <1>1, <1>2, <1>9, <1>10, <1>11, Constants DEF Inv, LostOK
<1>17. MeetsOK(ctl', wire', shut', alive')
  <2>1. MeetsOK(ctl, wire, shut, alive)
    BY DEF Inv
  <2> QED BY <1>1, <1>2, <1>9, <1>13, <2>1 DEF MeetsOK, Meets
<1>18. Moves(wire, wire', {}) /\ Numbered(wire') /\ \A s \in shut' : s[1] \in DOMAIN wire'
  BY <1>9, MovesNone DEF Inv
<1>19. AsksNew(ctl', wire, wire', alive', {}) /\ \A a, b, y : <<a, b, y>> \in {} => Fits(a, b, y)
  BY DEF AsksNew
<1>20. /\ ctl'[Broker].inviter = ctl[Broker].inviter /\ ctl'[Broker].boot = ctl[Broker].boot
       /\ ctl'[Broker].broker = ctl[Broker].broker
       /\ \A x \in Node : ctl'[x].invitations = ctl[x].invitations
  BY <1>4, <1>10 DEF SameStage
<1>21. alive' \subseteq alive /\ Broker \in alive' /\ DOMAIN wire \subseteq DOMAIN wire'
  BY <1>1, <1>9
<1>22. \A x \in Node : \A e \in ctl'[x].invitations :
         e \in ctl[x].invitations \/ NewInvitation(wire, wire', x, e)
  BY <1>20
<1> QED BY <1>9, <1>11, <1>12, <1>13, <1>14, <1>15, <1>16, <1>17, <1>18, <1>19, <1>20, <1>21, <1>22, Preserve

-----------------------------------------------------------------------------
(***************************************************************************)
(* Steps of an invitation leave introductions as they are.                 *)
(***************************************************************************)
IntroTypes == {"RequestIntroduction", "Introduce"}

\* The peers of a process stay, or are not those it has been introduced to.
PeersBut(C, D, V) ==
  \A n, m \in Node :
    \/ Peer(D, n, m) = Peer(C, n, m)
    \/ /\ ~Apart(n, m) /\ ~Intro(Peer(D, n, m)) /\ D[n].queue[m] = << >>
       /\ PeerOK(D, V, n, m)

\* A step that takes invitations forward and introduces nobody keeps the invariant.
LEMMA Progress ==
  ASSUME Inv, Broker \in alive, Typed', alive' = alive, send' = send, NEW X,
         Moves(wire, wire', X), Calm(wire, wire'), Holds(wire, wire', alive),
         \A a, b, y : <<a, b, y>> \in X => Fits(a, b, y) /\ y.type \notin IntroTypes,
         Numbered(wire'), DOMAIN wire \subseteq DOMAIN wire', shut \subseteq shut',
         \A s \in shut' : s \in shut \/ (s[1] \in DOMAIN wire' /\ ~Intro(s[1])),
         ctl'[Broker].inviter = ctl[Broker].inviter, ctl'[Broker].boot = ctl[Broker].boot,
         ctl'[Broker].broker = ctl[Broker].broker,
         \A n \in Node : \A c \in ctl'[n].invitations :
           c \in ctl[n].invitations \/ NewInvitation(wire, wire', n, c),
         \A n \in Node : IsClient(ctl, n) => IsClient(ctl', n),
         \A m \in Guests :
           \/ Still(ctl, ctl', wire, wire', shut, shut', alive', X, m)
           \/ /\ NameOK(ctl', wire', m) /\ StageOK(ctl', wire', shut', alive', m)
              /\ LinkOK(ctl', wire', shut', alive', m),
         PeersBut(ctl, ctl', wire'),
         \A n, m \in Node : ctl'[n].queue[m] = ctl[n].queue[m] \/ ctl'[n].queue[m] = << >>,
         \A n \in Node : ctl'[n].lost = ctl[n].lost,
         \A x \in Guests : IsClient(ctl', x) => \/ IsClient(ctl, x) \/ Inviter[x] = Broker
                                                \/ <<Client(x), x>> \notin shut,
         \A m \in Node : merge'[m] = merge[m] \/ merge'[m] # "sending"
  PROVE Inv'
<1>1. /\ WaitsOK(ctl, send, merge) /\ AwaitsOK(ctl, wire, send, alive) /\ LostOK(ctl, shut, alive)
      /\ MeetsOK(ctl, wire, shut, alive) /\ AllFit(wire) /\ PeersOK(ctl, wire)
      /\ AsksOK(ctl, wire, alive) /\ WireType(wire) /\ alive \subseteq Node
  BY TypedFacts DEF Inv
<1>2. alive \subseteq alive /\ alive' \subseteq alive /\ Broker \in alive'
  OBVIOUS
<1>3. /\ \A n, m \in Node : \/ Peer(ctl', n, m) = Peer(ctl, n, m) \/ Peer(ctl', n, m) = NoChannel
                            \/ ctl'[n].queue[m] = << >>
      /\ \A n, m \in Node : \/ Peer(ctl', n, m) = Peer(ctl, n, m) \/ Peer(ctl', n, m) = NoChannel
                            \/ PeerOK(ctl', wire', n, m)
      /\ \A n, m \in Node : \/ Peer(ctl', n, m) = Peer(ctl, n, m) \/ ~Intro(Peer(ctl', n, m))
                            \/ \A y : ~On(wire', Via(n), n, Meet(n, y, Peer(ctl', n, m)))
      /\ \A n, m \in alive : Apart(n, m) => Peer(ctl', n, m) = Peer(ctl, n, m)
  BY <1>1 DEF PeersBut
<1>4. WaitsOK(ctl', send', merge')
  <2>1. \A p \in Talks : send'[p].at = "idle" \/ (send[p].at # "idle" /\ send'[p].via = send[p].via)
    OBVIOUS
  <2> QED BY <1>1, <1>3, <2>1, WaitsKept
<1>5. AwaitsOK(ctl', wire', send', alive')
  <2>1. \A p \in Talks : send[p].at = "asking" => send'[p].at = "asking"
    OBVIOUS
  <2>2. \A n \in alive', m \in Node : ctl'[n].queue[m] = ctl[n].queue[m] \/ ctl'[n].queue[m] = << >>
    BY <1>1
  <2> QED BY <1>1, <1>2, <2>1, <2>2, AwaitsKept
<1>6. LostOK(ctl', shut', alive')
  BY <1>1, <1>2, LostKept
<1>7. MeetsOK(ctl', wire', shut', alive')
  <2>1. SameFirst(wire, wire', alive)
    BY CalmFirst
  <2>2. \A n \in alive : \A c : Intro(c) /\ <<c, n>> \in shut' => <<c, n>> \in shut
    OBVIOUS
  <2> QED BY <1>1, <1>2, <1>3, <2>1, <2>2, MeetsKept
<1>8. AsksNew(ctl', wire, wire', alive', X)
  <2>1. \A n, m, d : /\ IntroReq(m).type \in IntroTypes /\ Unknown(m).type \in IntroTypes
                     /\ Meet(n, m, d).type \in IntroTypes
    BY MessageFields DEF IntroTypes
  <2> QED BY <2>1 DEF AsksNew
<1>9. \A s \in shut' : s[1] \in DOMAIN wire'
  BY DEF Inv
<1>10. \A a, b, y : <<a, b, y>> \in X => Fits(a, b, y)
  OBVIOUS
<1> QED BY <1>2, <1>3, <1>4, <1>5, <1>6, <1>7, <1>8, <1>9, <1>10, Preserve

\* A new channel that is not for an introduction.
LEMMA NumberedMore ==
  ASSUME NEW W, NEW V, NEW c, DOMAIN V = DOMAIN W \cup {c}, c[1] # "intro", Numbered(W)
  PROVE Numbered(V)
<1>1. IsFiniteSet(DOMAIN V)
  BY FS_AddElement DEF Numbered
<1>2. \A n : IntrosOf(V, n) = IntrosOf(W, n)
  BY DEF IntrosOf
<1>3. ASSUME NEW n, NEW m, NEW k, <<"intro", n, m, k>> \in DOMAIN V
      PROVE <<"intro", n, m, k>> \in DOMAIN W
  <2>1. <<"intro", n, m, k>>[1] = "intro"
    OBVIOUS
  <2> QED BY <1>3, <2>1
<1> QED BY <1>1, <1>2, <1>3 DEF Numbered

\* There is nothing on a channel that does not exist.
LEMMA NotOn ==
  ASSUME NEW w, NEW c, c \notin DOMAIN w, NEW e, NEW x
  PROVE ~On(w, c, e, x) /\ OneOn(w, c, e, x)
  BY InNone DEF On, OneOn, Queue

\* A message that is nowhere is nowhere twice.
LEMMA NotOnOne ==
  ASSUME NEW w, NEW c, NEW e, NEW x, ~On(w, c, e, x)
  PROVE OneOn(w, c, e, x)
  BY DEF On, OneOn, In, Once

\* The controller of n with other invitations.
PutInvitations(st, n, I) == [st EXCEPT !.ctl[n].invitations = I]

InvitationsPut(st, r, n, I) ==
  /\ Handler(r) /\ r.wire = st.wire /\ r.shut = st.shut /\ r.merge = st.merge
  /\ SameOthers(st.ctl, r.ctl, n) /\ SameNames(st.ctl[n], r.ctl[n])
  /\ r.ctl[n].invitations = I /\ r.ctl[n].lost = st.ctl[n].lost
  /\ \A x, y \in Node : r.ctl[x].queue[y] = st.ctl[x].queue[y]
  /\ \A x \in Node : \A y : Peer(r.ctl, x, y) = Peer(st.ctl, x, y)

\* What a write of the pending invitations does.
LEMMA PutInvitationsFacts ==
  ASSUME NEW st, Handler(st), NEW n \in Node, NEW I, I \subseteq Chan
  PROVE InvitationsPut(st, PutInvitations(st, n, I), n, I)
<1> DEFINE t == st.ctl[n]
           v == [t EXCEPT !.invitations = I]
           D == [st.ctl EXCEPT ![n] = v]
           r == PutInvitations(st, n, I)
<1>1. st.ctl \in [Node -> Controller] /\ t \in Controller
  BY DEF Handler
<1>2. r = [ctl |-> D, wire |-> st.wire, shut |-> st.shut, merge |-> st.merge]
  BY DEF PutInvitations, Handler
<1>3. /\ v \in Controller /\ v.peers = t.peers /\ v.queue = t.queue /\ v.lost = t.lost
      /\ SameNames(t, v) /\ v.invitations = I
  BY <1>1 DEF Controller, SameNames
<1> HIDE DEF v
<1>4. D \in [Node -> Controller] /\ D[n] = v /\ \A x \in Node : x # n => D[x] = st.ctl[x]
  BY <1>1, <1>3
<1> HIDE DEF D, r
<1>5. Handler(r) /\ r.ctl = D /\ r.wire = st.wire /\ r.shut = st.shut /\ r.merge = st.merge
  BY <1>2, <1>4 DEF Handler
<1>6. \A x \in Node : D[x].queue = st.ctl[x].queue /\ D[x].peers = st.ctl[x].peers
  BY <1>3, <1>4
<1>7. \A x, y \in Node : D[x].queue[y] = st.ctl[x].queue[y]
  BY <1>6
<1>8. \A x \in Node : \A y : Peer(D, x, y) = Peer(st.ctl, x, y)
  BY <1>6 DEF Peer, PeerChannel
<1> QED BY <1>3, <1>4, <1>5, <1>7, <1>8 DEF r, InvitationsPut, SameOthers

\* Who invites m is known to the broker, or has been invited itself.
LEMMA InvitesFacts ==
  ASSUME Inv, NEW m \in Guests, Invitation(m) \notin DOMAIN wire, NEW n, n = Inviter[m],
         IsClient(ctl, n) \/ ctl[n].boot # NoChannel
  PROVE /\ n \in Node /\ n # m /\ ctl[m].inviter = NoNode /\ ctl[m].boot = NoChannel
        /\ ctl[m].broker = NoNode /\ ~IsClient(ctl, m)
        /\ n # Broker => /\ Inviter[n] # m /\ (IsClient(ctl, n) \/ ctl[n].boot = Invitation(n))
<1>1. n \in Node /\ m # Broker
  BY Constants
<1>2. NameOK(ctl, wire, m)
  BY GuestFacts
<1>3. ctl[m].inviter = NoNode /\ ctl[m].boot = NoChannel /\ ctl[m].broker = NoNode /\ ~IsClient(ctl, m)
  BY <1>1, <1>2 DEF NameOK, IsClient
<1>4. n # m
  BY <1>3
<1>5. ASSUME n # Broker
      PROVE Inviter[n] # m /\ (IsClient(ctl, n) \/ ctl[n].boot = Invitation(n))
  <2>1. n \in Guests
    BY <1>1, <1>5, Constants
  <2>2. NameOK(ctl, wire, n)
    BY <2>1, GuestFacts
  <2>3. Invitation(n) \in DOMAIN wire /\ (IsClient(ctl, n) \/ ctl[n].boot = Invitation(n))
    BY <1>5, <2>2 DEF NameOK, IsClient
  <2>4. Invitation(m) # NoChannel
    BY InvitationFacts
  <2>5. Inviter[n] # m
    <3>1. SUFFICES ASSUME Inviter[n] = m PROVE FALSE
      OBVIOUS
    <3>2. IsClient(ctl, m) \/ ctl[m].boot = Invitation(m)
      BY <1>1, <2>2, <2>3, <3>1 DEF NameOK
    <3> QED BY <1>3, <2>4, <3>2
  <2> QED BY <2>3, <2>5
<1> QED BY <1>1, <1>3, <1>4, <1>5

\* Nothing is on its way about a process that has not been invited.
LEMMA NotInvited ==
  ASSUME Inv, NEW m \in Guests, Invitation(m) \notin DOMAIN wire
  PROVE /\ Client(m) \notin DOMAIN wire
        /\ \A e, x : ~On(wire, Invitation(m), e, x)
        /\ Inviter[m] # Broker => /\ ~On(wire, Via(Inviter[m]), Broker, AskFor(m))
                                  /\ ~On(wire, Via(Inviter[m]), Inviter[m], Added(m))
<1>1. NameOK(ctl, wire, m) /\ StageOK(ctl, wire, shut, alive, m)
  BY GuestFacts
<1>2. ctl[m].inviter = NoNode
  BY <1>1 DEF NameOK
<1>3. \A e, x : ~On(wire, Invitation(m), e, x)
  BY NotOn
<1> QED BY <1>1, <1>2, <1>3 DEF StageOK, Token

\* A process invites m.
LEMMA SendBrokerClientInvitationStep ==
  ASSUME Inv, Broker \in alive, NEW n \in Node, NEW m \in Node, SendBrokerClientInvitation(n, m)
  PROVE Inv'
<1> DEFINE c == Invitation(m)
           I == ctl[n].invitations \cup {c}
           p == PutInvitations(Begin, n, I)
           st == NewChannel(p, c, n, m)
           x == Hello(m)
           r == Post(st, n, c, x)
           X == {<<c, m, x>>}
<1>1. /\ n \in alive /\ m \in alive /\ m # Broker /\ Inviter[m] = n /\ c \notin DOMAIN wire
      /\ IsClient(ctl, n) \/ ctl[n].boot # NoChannel
      /\ alive' = alive /\ send' = send
  BY DEF SendBrokerClientInvitation, Accepted, IsClient
<1>2. /\ Handler(Begin) /\ Begin.ctl = ctl /\ Begin.wire = wire /\ Begin.shut = shut
      /\ Begin.merge = merge /\ alive \subseteq Node /\ send \in [Talks -> Sending]
      /\ ctl \in [Node -> Controller] /\ WireType(wire)
  BY TypedFacts DEF Inv
<1>3. Commit(r)
  BY <1>1, <1>2 DEF SendBrokerClientInvitation, PutInvitations, Hello
<1>4. m \in Guests /\ Broker \in Node
  BY <1>1, Constants
<1>5. c \in Chan /\ c # NoChannel /\ Ends(c) = {n, m} /\ c[1] = "invite"
  BY <1>1, <1>4, InvitationFacts, ChannelsDiffer
<1>6. x \in Message
  BY <1>4, MessageTypes
<1>7. x.ch = NoChannel /\ x.type = "AcceptInvitee"
  BY MessageFields
<1>8. /\ n # m /\ ctl[m].inviter = NoNode /\ ctl[m].boot = NoChannel
      /\ ctl[m].broker = NoNode /\ ~IsClient(ctl, m)
      /\ n # Broker => /\ Inviter[n] # m /\ (IsClient(ctl, n) \/ ctl[n].boot = Invitation(n))
  BY <1>1, <1>4, InvitesFacts
<1>9. /\ Client(m) \notin DOMAIN wire
      /\ \A e, y : ~On(wire, c, e, y)
      /\ n # Broker => /\ ~On(wire, Via(n), Broker, AskFor(m))
                       /\ ~On(wire, Via(n), n, Added(m))
  BY <1>1, <1>4, NotInvited
<1>10. I \subseteq Chan
  BY <1>2, <1>5 DEF Controller
<1>11. \A k : k # m => Invitation(k) # c
  BY ChannelsDiffer
<1>12. Fits(c, m, x) /\ c \notin {Client(k) : k \in Guests} /\ \A k : c # Client(k)
  BY <1>4, ChannelsDiffer DEF Fits
<1>13. c = Invitation(m) /\ x = Hello(m) /\ ctl[n].invitations \subseteq I /\ c \in I
       /\ \A e \in I : e \in ctl[n].invitations \/ e = c
  OBVIOUS
<1> HIDE DEF c, I, x
<1>14. InvitationsPut(Begin, p, n, I)
  BY <1>2, <1>10, PutInvitationsFacts
<1> HIDE DEF p
<1>15. /\ Handler(p) /\ p.wire = wire /\ p.shut = shut /\ p.merge = merge
  BY <1>2, <1>14 DEF InvitationsPut
<1>16. /\ Handler(st) /\ st.ctl = p.ctl /\ st.merge = merge /\ st.shut = shut
       /\ DOMAIN st.wire = DOMAIN wire \cup {c}
       /\ \A a, e : Queue(st.wire, a, e) = Queue(wire, a, e)
  BY <1>1, <1>5, <1>15, NewChannelFacts
<1> HIDE DEF st
<1>17. Moves(wire, st.wire, {}) /\ Calm(wire, st.wire)
       /\ \A a, b, y : On(st.wire, a, b, y) <=> On(wire, a, b, y)
  BY <1>16, MovesSame
<1>18. \A e : <<c, e>> \notin shut
  BY <1>1 DEF Inv
<1>19. Up(st, c, n, m)
  BY <1>1, <1>16, <1>18 DEF Up
<1>20. Posted(st, r, n, c, m, x)
  BY <1>5, <1>6, <1>7, <1>8, <1>16, PostPlain
<1> HIDE DEF r
<1>21. /\ Handler(r) /\ r.ctl = p.ctl /\ r.merge = merge /\ r.shut = shut
       /\ DOMAIN r.wire = DOMAIN wire \cup {c}
       /\ Moves(st.wire, r.wire, X) /\ Calm(st.wire, r.wire)
       /\ \A a, b, y : On(st.wire, a, b, y) => On(r.wire, a, b, y)
  BY <1>16, <1>20 DEF Posted
<1>22. Typed' /\ ctl' = p.ctl /\ wire' = r.wire /\ shut' = shut /\ merge' = merge
  BY <1>1, <1>2, <1>3, <1>21, Committed
<1>23. Moves(wire, wire', X)
  <2>1. {} \cap X = {} /\ {} \cup X = X
    OBVIOUS
  <2> HIDE DEF X
  <2> QED BY <1>17, <1>21, <1>22, <2>1, MovesMore
<1>24. Calm(wire, wire') /\ Holds(wire, wire', alive)
  BY <1>17, <1>21, <1>22, CalmMore, HoldsAll
<1>25. /\ SameOthers(ctl, ctl', n) /\ SameNames(ctl[n], ctl'[n])
       /\ ctl'[n].invitations = I /\ ctl'[n].lost = ctl[n].lost
       /\ \A a, b \in Node : ctl'[a].queue[b] = ctl[a].queue[b]
       /\ \A a \in Node : \A b : Peer(ctl', a, b) = Peer(ctl, a, b)
  BY <1>2, <1>14, <1>22 DEF InvitationsPut
<1>26. \A a \in Node : /\ ctl'[a].inviter = ctl[a].inviter /\ ctl'[a].boot = ctl[a].boot
                       /\ ctl'[a].broker = ctl[a].broker /\ ctl'[a].lost = ctl[a].lost
                       /\ IsClient(ctl', a) <=> IsClient(ctl, a)
                       /\ a # n => ctl'[a].invitations = ctl[a].invitations
  BY <1>25 DEF SameOthers, SameNames, IsClient
<1>27. ASSUME NEW k \in Guests, k # m
       PROVE Still(ctl, ctl', wire, wire', shut, shut', alive', X, k)
  <2>1. k \in Node /\ Inviter[k] \in Node
    BY Constants
  <2>2. Invitation(k) \in ctl'[Inviter[k]].invitations <=> Invitation(k) \in ctl[Inviter[k]].invitations
    BY <1>11, <1>13, <1>25, <1>26, <1>27, <2>1
  <2>3. /\ Invitation(k) \in DOMAIN wire' <=> Invitation(k) \in DOMAIN wire
        /\ Client(k) \in DOMAIN wire' <=> Client(k) \in DOMAIN wire
    BY <1>11, <1>12, <1>21, <1>22, <1>27
  <2>4. Invitation(k) # c
    BY <1>11, <1>27
  <2>5. AskFor(k).type = "AddBrokerClient" /\ Added(k).type = "BrokerClientAdded"
    BY MessageKinds
  <2>6. /\ <<Invitation(k), k, Hello(k)>> \notin X /\ <<Invitation(k), Inviter[k], Reply(k)>> \notin X
        /\ <<Invitation(k), k, Welcome(k)>> \notin X
        /\ \A a, b : <<a, b, AskFor(k)>> \notin X /\ <<a, b, Added(k)>> \notin X
    BY <1>7, <2>4, <2>5
  <2> HIDE DEF X
  <2> QED BY <1>4, <1>22, <1>25, <1>26, <2>1, <2>2, <2>3, <2>6 DEF Still
<1>28. NameOK(ctl', wire', m)
  <2>1. c \in DOMAIN wire' /\ m \in Node
    BY <1>21, <1>22
  <2>2. /\ ctl'[m].inviter = NoNode /\ ctl'[m].boot = NoChannel /\ ctl'[m].broker = NoNode
        /\ ctl'[n].boot = ctl[n].boot
        /\ IsClient(ctl', n) <=> IsClient(ctl, n)
    BY <1>8, <1>26
  <2> QED BY <1>1, <1>8, <1>13, <2>1, <2>2 DEF NameOK
<1>29. /\ \A b, y : On(wire', c, b, y) => (b = m /\ y = x) \/ y \in Events
       /\ n # Broker => /\ ~On(wire', Via(n), Broker, AskFor(m))
                        /\ ~On(wire', Via(n), n, Added(m))
       /\ OneOn(wire', c, m, x) /\ Client(m) \notin DOMAIN wire'
  <2>1. \A b, y : On(wire', c, b, y) => (b = m /\ y = x) \/ y \in Events
    BY <1>9, <1>23 DEF Moves
  <2>2. AskFor(m).type = "AddBrokerClient" /\ Added(m).type = "BrokerClientAdded"
    BY MessageKinds
  <2>3. \A a, b : <<a, b, AskFor(m)>> \notin X /\ <<a, b, Added(m)>> \notin X
    BY <1>7, <2>2
  <2>4. n # Broker => ~On(wire', Via(n), Broker, AskFor(m)) /\ ~On(wire', Via(n), n, Added(m))
    BY <1>9, <1>23, <2>3, NotEvents DEF Moves
  <2>5. ~On(wire, c, m, x) /\ OneOn(wire, c, m, x) /\ x \notin Events
    BY <1>1, <1>13, NotOn, NotEvents
  <2>6. OneOn(wire', c, m, x)
    BY <1>23, <2>5 DEF Moves
  <2>7. Client(m) \notin DOMAIN wire'
    BY <1>9, <1>12, <1>21, <1>22
  <2> QED BY <2>1, <2>4, <2>6, <2>7
<1>30. StageOK(ctl', wire', shut', alive', m)
  <2>1. ~On(wire', c, n, Reply(m)) /\ ~On(wire', c, m, Welcome(m))
    <3>1. Reply(m).type = "AcceptInvitation" /\ Welcome(m).type = "AcceptBrokerClient"
      BY MessageKinds
    <3> QED BY <1>7, <1>29, <3>1, NotEvents
  <2>2. OneOn(wire', c, n, Reply(m)) /\ OneOn(wire', c, m, Welcome(m))
    BY <2>1, NotOnOne
  <2>3. n # Broker => OneOn(wire', Via(n), Broker, AskFor(m)) /\ OneOn(wire', Via(n), n, Added(m))
    BY <1>29, NotOnOne
  <2>4. ctl'[m].inviter = NoNode /\ ~IsClient(ctl', m) /\ c \in ctl'[n].invitations
    BY <1>8, <1>13, <1>25, <1>26
  <2> QED BY <1>1, <1>13, <1>29, <2>1, <2>2, <2>3, <2>4 DEF StageOK
<1>31. LinkOK(ctl', wire', shut', alive', m)
  <2>1. ~IsClient(ctl', m) /\ c \in ctl'[n].invitations /\ <<c, n>> \notin shut' /\ <<c, m>> \notin shut'
    BY <1>8, <1>13, <1>18, <1>22, <1>25, <1>26
  <2> QED BY <1>1, <1>13, <2>1 DEF LinkOK
<1>32. \A k \in Guests : \/ Still(ctl, ctl', wire, wire', shut, shut', alive', X, k)
                         \/ /\ NameOK(ctl', wire', k) /\ StageOK(ctl', wire', shut', alive', k)
                            /\ LinkOK(ctl', wire', shut', alive', k)
  BY <1>27, <1>28, <1>30, <1>31
<1>33. PeersBut(ctl, ctl', wire')
  BY <1>25 DEF PeersBut
<1>34. Numbered(wire')
  BY <1>5, <1>21, <1>22, NumberedMore DEF Inv
<1>35. \A a \in Node : \A e \in ctl'[a].invitations :
         e \in ctl[a].invitations \/ NewInvitation(wire, wire', a, e)
  <2>1. NewInvitation(wire, wire', n, c)
    BY <1>1, <1>4, <1>13, <1>21, <1>22 DEF NewInvitation
  <2> QED BY <1>13, <1>25, <1>26, <2>1
<1>36. \A a, b, y : <<a, b, y>> \in X => Fits(a, b, y) /\ y.type \notin IntroTypes
  BY <1>7, <1>12 DEF IntroTypes
<1>37. DOMAIN wire \subseteq DOMAIN wire' /\ shut \subseteq shut'
       /\ \A s \in shut' : s \in shut \/ (s[1] \in DOMAIN wire' /\ ~Intro(s[1]))
  BY <1>21, <1>22
<1>38. \A a \in Guests : a \in Node
  BY Constants
<1> HIDE DEF X
<1> QED BY <1>1, <1>4, <1>22, <1>23, <1>24, <1>25, <1>26, <1>32, <1>33, <1>34, <1>35, <1>36, <1>37, <1>38, Progress

\* The controller of n with a name for its inviter.
PutInviter(st, n, i) == [st EXCEPT !.ctl[n].inviter = i]

InviterPut(st, r, n, i) ==
  /\ Handler(r) /\ r.wire = st.wire /\ r.shut = st.shut /\ r.merge = st.merge
  /\ SameOthers(st.ctl, r.ctl, n) /\ r.ctl[n].inviter = i
  /\ r.ctl[n].boot = st.ctl[n].boot /\ r.ctl[n].broker = st.ctl[n].broker
  /\ r.ctl[n].invitations = st.ctl[n].invitations /\ r.ctl[n].lost = st.ctl[n].lost
  /\ \A x, y \in Node : r.ctl[x].queue[y] = st.ctl[x].queue[y]
  /\ \A x \in Node : \A y : Peer(r.ctl, x, y) = Peer(st.ctl, x, y)

\* What a write of the inviter's name does.
LEMMA PutInviterFacts ==
  ASSUME NEW st, Handler(st), NEW n \in Node, NEW i \in Names
  PROVE InviterPut(st, PutInviter(st, n, i), n, i)
<1> DEFINE t == st.ctl[n]
           v == [t EXCEPT !.inviter = i]
           D == [st.ctl EXCEPT ![n] = v]
           r == PutInviter(st, n, i)
<1>1. st.ctl \in [Node -> Controller] /\ t \in Controller
  BY DEF Handler
<1>2. r = [ctl |-> D, wire |-> st.wire, shut |-> st.shut, merge |-> st.merge]
  BY DEF PutInviter, Handler
<1>3. /\ v \in Controller /\ v.peers = t.peers /\ v.queue = t.queue /\ v.lost = t.lost
      /\ v.boot = t.boot /\ v.broker = t.broker /\ v.invitations = t.invitations /\ v.inviter = i
  BY <1>1 DEF Controller
<1> HIDE DEF v
<1>4. D \in [Node -> Controller] /\ D[n] = v /\ \A x \in Node : x # n => D[x] = st.ctl[x]
  BY <1>1, <1>3
<1> HIDE DEF D, r
<1>5. Handler(r) /\ r.ctl = D /\ r.wire = st.wire /\ r.shut = st.shut /\ r.merge = st.merge
  BY <1>2, <1>4 DEF Handler
<1>6. \A x \in Node : D[x].queue = st.ctl[x].queue /\ D[x].peers = st.ctl[x].peers
  BY <1>3, <1>4
<1>7. \A x, y \in Node : D[x].queue[y] = st.ctl[x].queue[y]
  BY <1>6
<1>8. \A x \in Node : \A y : Peer(D, x, y) = Peer(st.ctl, x, y)
  BY <1>6 DEF Peer, PeerChannel
<1> QED BY <1>3, <1>4, <1>5, <1>7, <1>8 DEF r, InviterPut, SameOthers

\* How a process that is not a client yet reads from the channel of its invitation.
LEMMA ReadsBoot ==
  ASSUME Inv, NEW m \in Guests, Invitation(m) \in Open(m), ~IsClient(ctl, m)
  PROVE ctl[m].boot = Invitation(m)
<1> DEFINE c == Invitation(m)
<1>1. m \in Node /\ m # Broker /\ NameOK(ctl, wire, m) /\ c # NoChannel
  BY GuestFacts, Constants, InvitationFacts
<1>2. /\ c \in DOMAIN wire
      /\ \/ \E y \in Node : Peer(ctl, m, y) = c
         \/ c = ctl[m].boot
         \/ c \in ctl[m].invitations
  BY <1>1, OpenFacts
<1>3. Inviter[m] # m
  BY <1>1, <1>2 DEF NameOK
<1>4. c \notin ctl[m].invitations
  <2>1. SUFFICES ASSUME c \in ctl[m].invitations PROVE FALSE
    OBVIOUS
  <2>2. PICK k \in Guests : Inviter[k] = m /\ c = Invitation(k)
    BY <1>1, <2>1 DEF Inv, NamesOK
  <2>3. k = m
    BY <2>2, ChannelsDiffer
  <2> QED BY <1>3, <2>2, <2>3
<1>5. ASSUME NEW y \in Node, Peer(ctl, m, y) = c PROVE FALSE
  <2>1. PeerOK(ctl, wire, m, y)
    BY <1>1 DEF Inv, PeersOK
  <2>2. \/ Inviter[y] = m /\ c = Invitation(y) /\ m # y
        \/ IsClient(ctl, m)
        \/ c = Client(y)
    BY <1>1, <1>5, <2>1 DEF PeerOK
  <2> QED BY <2>2, ChannelsDiffer
<1> QED BY <1>2, <1>4, <1>5

\* The invited process learns who its inviter is, and answers.
LEMMA AcceptInviteeRead ==
  ASSUME Inv, Broker \in alive, NEW m \in Node, NEW c \in Open(m), OnAcceptInvitee(m, c)
  PROVE Inv'
<1> DEFINE i == Inviter[m]
           q == Taken(m, c)
           z == Hello(m)
           st == PutInviter(q, m, i)
           x == Reply(m)
           r == Post(st, m, c, x)
           X == {<<c, i, x>>}
<1>1. Receives(m, c, "AcceptInvitee") /\ alive' = alive /\ send' = send
  BY DEF OnAcceptInvitee
<1>2. /\ Handler(q) /\ q.ctl = ctl /\ q.merge = merge /\ q.shut = shut /\ Takes(wire, q.wire, c, m)
      /\ DOMAIN q.wire = DOMAIN wire /\ Queue(wire, c, m) # << >>
      /\ Head(wire[c][m]) = Head(Queue(wire, c, m)) /\ On(wire, c, m, Head(wire[c][m]))
      /\ Fits(c, m, Head(wire[c][m])) /\ Head(wire[c][m]).type = "AcceptInvitee"
  BY <1>1, ReadFacts
<1>3. m \in Guests /\ c = Invitation(m) /\ Head(wire[c][m]) = z
  BY <1>2, FitsType
<1>4. /\ NameOK(ctl, wire, m) /\ StageOK(ctl, wire, shut, alive, m) /\ LinkOK(ctl, wire, shut, alive, m)
      /\ m # Broker /\ i \in Node /\ Broker \in Node /\ NoNode \notin Node
  BY <1>3, GuestFacts, Constants
<1>5. m \in alive /\ c \in DOMAIN wire /\ <<c, m>> \notin shut
  BY OpenFacts
<1>6. ctl[m].inviter = NoNode /\ OneOn(wire, c, m, z)
  BY <1>2, <1>3, <1>4 DEF StageOK
<1>7. ~IsClient(ctl, m) /\ ctl[m].broker = NoNode
  BY <1>4, <1>6 DEF NameOK, IsClient
<1>8. ctl[m].boot = c /\ c # NoChannel /\ Ends(c) = {m, i}
  BY <1>3, <1>7, ReadsBoot, InvitationFacts
<1>9. m # i
  BY <1>3, <1>4, <1>5 DEF NameOK
<1>10. Commit(r)
  <2>1. z.name = i
    BY MessageFields
  <2>2. Commit(IF ctl[m].boot # NoChannel /\ ctl[m].inviter = NoNode
               THEN Post([Taken(m, c) EXCEPT !.ctl[m].inviter = Head(wire[c][m]).name], m, c,
                         Plain("AcceptInvitation", m))
               ELSE DropPeer(Taken(m, c), m, RemoteName(m, c), NoChannel))
    BY DEF OnAcceptInvitee
  <2> QED BY <1>3, <1>6, <1>8, <2>1, <2>2 DEF PutInviter, Reply
<1>11. x \in Message
  BY <1>3, MessageTypes
<1>12. x.ch = NoChannel /\ x.type = "AcceptInvitation"
  BY MessageFields
<1>13. z.type = "AcceptInvitee"
  BY MessageKinds
<1>14. WireType(wire) /\ alive \subseteq Node /\ send \in [Talks -> Sending] /\ i \in Names
  BY <1>4, TypedFacts DEF Inv, Names
<1>15. Fits(c, i, x) /\ \A k : k # m => Invitation(k) # c
  BY <1>3, ChannelsDiffer DEF Fits
<1>16. ~On(wire, c, i, x) /\ ~On(wire, c, m, Welcome(m)) /\ Client(m) \notin DOMAIN wire
       /\ (i # Broker => ~On(wire, Via(i), Broker, AskFor(m)) /\ ~On(wire, Via(i), i, Added(m)))
  BY <1>3, <1>4, <1>6 DEF StageOK, Token
<1> HIDE DEF q
<1>17. Moves(wire, q.wire, {}) /\ Calm(wire, q.wire) /\ Keeps(wire, q.wire, c, m) /\ ~On(q.wire, c, m, z)
  <2>1. \A y : ~IntroMsg(z, y)
    BY <1>13 DEF IntroMsg
  <2>2. Head(Queue(wire, c, m)) = z
    BY <1>2, <1>3
  <2> HIDE DEF z
  <2> QED BY <1>2, <1>6, <1>14, <2>1, <2>2, MovesTake
<1>18. InviterPut(q, st, m, i)
  BY <1>2, <1>14, PutInviterFacts
<1> HIDE DEF st, x
<1>19. Handler(st) /\ st.wire = q.wire /\ st.shut = shut /\ st.merge = merge
  BY <1>2, <1>18 DEF InviterPut
<1>20. Posted(st, r, m, c, i, x)
  BY <1>2, <1>4, <1>5, <1>8, <1>9, <1>11, <1>12, <1>19, PostPlain
<1> HIDE DEF r
<1>21. /\ Handler(r) /\ r.ctl = st.ctl /\ r.merge = merge /\ r.shut = shut
       /\ DOMAIN r.wire = DOMAIN wire /\ Moves(q.wire, r.wire, X) /\ Calm(q.wire, r.wire)
       /\ \A a, b, y : On(q.wire, a, b, y) => On(r.wire, a, b, y)
       /\ ~Up(st, c, m, i) => r.wire = q.wire
  BY <1>2, <1>19, <1>20 DEF Posted
<1>22. Typed' /\ ctl' = st.ctl /\ wire' = r.wire /\ shut' = shut /\ merge' = merge
  BY <1>1, <1>10, <1>14, <1>21, Committed
<1>23. Moves(wire, wire', X) /\ Calm(wire, wire')
  <2>1. {} \cap X = {} /\ {} \cup X = X
    OBVIOUS
  <2> HIDE DEF X
  <2> QED BY <1>17, <1>21, <1>22, <2>1, MovesMore, CalmMore
<1>24. Holds(wire, wire', alive)
  BY <1>2, <1>3, <1>13, <1>17, <1>21, <1>22 DEF Holds, Keeps
<1>25. /\ SameOthers(ctl, ctl', m) /\ ctl'[m].inviter = i
       /\ ctl'[m].boot = ctl[m].boot /\ ctl'[m].broker = ctl[m].broker
       /\ ctl'[m].invitations = ctl[m].invitations /\ ctl'[m].lost = ctl[m].lost
       /\ \A a, b \in Node : ctl'[a].queue[b] = ctl[a].queue[b]
       /\ \A a \in Node : \A b : Peer(ctl', a, b) = Peer(ctl, a, b)
  BY <1>2, <1>18, <1>22 DEF InviterPut
<1>26. \A a \in Node : /\ ctl'[a].boot = ctl[a].boot /\ ctl'[a].broker = ctl[a].broker
                       /\ ctl'[a].lost = ctl[a].lost
                       /\ IsClient(ctl', a) <=> IsClient(ctl, a)
                       /\ ctl'[a].invitations = ctl[a].invitations
                       /\ a # m => ctl'[a].inviter = ctl[a].inviter
  BY <1>25 DEF SameOthers, IsClient
<1>27. ASSUME NEW k \in Guests, k # m
       PROVE Still(ctl, ctl', wire, wire', shut, shut', alive', X, k)
  <2>1. k \in Node /\ Inviter[k] \in Node
    BY Constants
  <2>4. Invitation(k) # c
    BY <1>15, <1>27
  <2>5. AskFor(k).type = "AddBrokerClient" /\ Added(k).type = "BrokerClientAdded"
    BY MessageKinds
  <2>6. /\ <<Invitation(k), k, Hello(k)>> \notin X /\ <<Invitation(k), Inviter[k], Reply(k)>> \notin X
        /\ <<Invitation(k), k, Welcome(k)>> \notin X
        /\ \A a, b : <<a, b, AskFor(k)>> \notin X /\ <<a, b, Added(k)>> \notin X
    BY <1>12, <2>4, <2>5
  <2> HIDE DEF X
  <2> QED BY ZenonT(30), <1>4, <1>21, <1>22, <1>25, <1>26, <1>27, <2>1, <2>6 DEF Still
<1>28. NameOK(ctl', wire', m)
  <2>1. c \in DOMAIN wire' /\ ctl'[m].inviter = i /\ ctl'[m].boot = c /\ ctl'[m].broker = NoNode
    BY <1>5, <1>7, <1>8, <1>21, <1>22, <1>25
  <2>2. ctl'[i].boot = ctl[i].boot
    BY <1>4, <1>26
  <2>3. IsClient(ctl', i) <=> IsClient(ctl, i)
    BY <1>4, <1>26
  <2> QED BY <1>3, <1>4, <1>5, <2>1, <2>2, <2>3 DEF NameOK
<1>29. /\ ~On(wire', c, m, z) /\ OneOn(wire', c, m, z) /\ OneOn(wire', c, i, x)
       /\ ~On(wire', c, m, Welcome(m)) /\ OneOn(wire', c, m, Welcome(m))
       /\ (i # Broker => /\ ~On(wire', Via(i), Broker, AskFor(m)) /\ OneOn(wire', Via(i), Broker, AskFor(m))
                         /\ ~On(wire', Via(i), i, Added(m)) /\ OneOn(wire', Via(i), i, Added(m)))
  <2>1. /\ Welcome(m).type = "AcceptBrokerClient"
        /\ AskFor(m).type = "AddBrokerClient" /\ Added(m).type = "BrokerClientAdded"
    BY MessageKinds
  <2>2. \A a, b : /\ <<a, b, z>> \notin X /\ <<a, b, Welcome(m)>> \notin X
                  /\ <<a, b, AskFor(m)>> \notin X /\ <<a, b, Added(m)>> \notin X
    BY <1>12, <1>13, <2>1
  <2>3. z \notin Events /\ x \notin Events /\ Welcome(m) \notin Events /\ AskFor(m) \notin Events
        /\ Added(m) \notin Events
    BY NotEvents DEF x
  <2>4. ~On(wire', c, m, z)
    BY <1>17, <1>21, <1>22, <2>2, <2>3 DEF Moves
  <2>5. ~On(wire', c, m, Welcome(m))
    BY <1>16, <1>23, <2>2, <2>3 DEF Moves
  <2>6. i # Broker => ~On(wire', Via(i), Broker, AskFor(m)) /\ ~On(wire', Via(i), i, Added(m))
    BY <1>16, <1>23, <2>2, <2>3 DEF Moves
  <2>7. OneOn(wire, c, i, x)
    BY <1>16, NotOnOne
  <2>8. OneOn(wire', c, i, x)
    BY <1>16, <1>23, <2>3, <2>7 DEF Moves
  <2> QED BY <2>4, <2>5, <2>6, <2>8, NotOnOne
<1>30. ASSUME On(wire', c, i, x) PROVE c \in ctl[i].invitations
  <2>1. Up(st, c, m, i)
    <3>1. SUFFICES ASSUME ~Up(st, c, m, i) PROVE FALSE
      OBVIOUS
    <3>2. On(q.wire, c, i, x)
      BY <1>21, <1>22, <1>30, <3>1
    <3> QED BY <1>16, <1>17, <3>2, NotEvents DEF Moves, x
  <2>2. <<c, i>> \notin shut
    BY <1>19, <2>1 DEF Up
  <2> QED BY <1>3, <1>4, <1>5, <1>6, <2>2 DEF StageOK
<1>31. StageOK(ctl', wire', shut', alive', m)
  <2>1. ctl'[m].inviter # NoNode /\ ~IsClient(ctl', m) /\ ctl'[i].invitations = ctl[i].invitations
    BY <1>4, <1>7, <1>25, <1>26
  <2>2. Client(m) \notin DOMAIN wire'
    BY <1>16, <1>21, <1>22
  <2> QED BY <1>3, <1>29, <1>30, <2>1, <2>2 DEF StageOK, x
<1>32. LinkOK(ctl', wire', shut', alive', m)
  <2>1. ~IsClient(ctl', m) /\ ctl'[i].invitations = ctl[i].invitations /\ Peer(ctl', i, m) = Peer(ctl, i, m)
    BY <1>4, <1>7, <1>25, <1>26
  <2> QED BY <1>1, <1>4, <1>21, <1>22, <2>1 DEF LinkOK
<1>33. \A k \in Guests : \/ Still(ctl, ctl', wire, wire', shut, shut', alive', X, k)
                         \/ /\ NameOK(ctl', wire', k) /\ StageOK(ctl', wire', shut', alive', k)
                            /\ LinkOK(ctl', wire', shut', alive', k)
  BY <1>27, <1>28, <1>31, <1>32
<1>34. PeersBut(ctl, ctl', wire') /\ Numbered(wire')
  BY <1>21, <1>22, <1>25, NumberedSame DEF PeersBut, Inv
<1>35. \A a, b, y : <<a, b, y>> \in X => Fits(a, b, y) /\ y.type \notin IntroTypes
  BY <1>12, <1>15 DEF IntroTypes
<1>36. DOMAIN wire \subseteq DOMAIN wire' /\ shut \subseteq shut'
       /\ \A s \in shut' : s \in shut \/ (s[1] \in DOMAIN wire' /\ ~Intro(s[1]))
  BY <1>21, <1>22
<1>37. /\ ctl'[Broker].inviter = ctl[Broker].inviter /\ ctl'[Broker].boot = ctl[Broker].boot
       /\ ctl'[Broker].broker = ctl[Broker].broker /\ \A a \in Guests : a \in Node
  BY <1>4, <1>26, Constants
<1> HIDE DEF X
<1> QED BY <1>1, <1>22, <1>23, <1>24, <1>25, <1>26, <1>33, <1>34, <1>35, <1>36, <1>37, Progress

\* What of a controller the invariant is about, the names of waiting invitees left out.
SameState(C, D) ==
  SameLinks(C, D) /\ SameWaits(C, D) /\ \A x \in Node : D[x].lost = C[x].lost

\* An inviter that has read the reply of m.
LEMMA ReplyFacts ==
  ASSUME Inv, NEW n \in Node, NEW c \in Open(n), Receives(n, c, "AcceptInvitation")
  PROVE \E m \in Guests :
          /\ c = Invitation(m) /\ n = Inviter[m] /\ Head(wire[c][n]) = Reply(m)
          /\ Head(wire[c][n]).name = m
          /\ c \in ctl[n].invitations /\ c \in DOMAIN wire /\ n # m
          /\ ctl[m].inviter # NoNode /\ ~IsClient(ctl, m) /\ Peer(ctl, n, m) = NoChannel
          /\ n # Broker => /\ Inviter[n] # m
                           /\ IsClient(ctl, n) \/ ctl[n].boot = Invitation(n)
          /\ OneOn(wire, c, n, Reply(m)) /\ ~On(wire, c, m, Hello(m))
          /\ ~On(wire, c, m, Welcome(m)) /\ Client(m) \notin DOMAIN wire
          /\ n # Broker => /\ ~On(wire, Via(n), Broker, AskFor(m))
                           /\ ~On(wire, Via(n), n, Added(m))
<1>1. /\ On(wire, c, n, Head(wire[c][n])) /\ Fits(c, n, Head(wire[c][n]))
      /\ Head(wire[c][n]).type = "AcceptInvitation"
  BY ReadFacts
<1>2. PICK m \in Guests : c = Invitation(m) /\ n = Inviter[m] /\ Head(wire[c][n]) = Reply(m)
  BY <1>1, FitsType
<1>3. Reply(m).name = m
  BY MessageFields
<1>4. /\ NameOK(ctl, wire, m) /\ StageOK(ctl, wire, shut, alive, m) /\ m \in Node /\ m # Broker
      /\ c \in DOMAIN wire
  BY <1>2, GuestFacts, Constants, OpenFacts
<1>5. On(wire, c, n, Reply(m))
  BY <1>1, <1>2
<1>6. ctl[m].inviter # NoNode /\ c \in ctl[n].invitations /\ OneOn(wire, c, n, Reply(m))
  BY <1>2, <1>4, <1>5 DEF StageOK
<1>7. ~IsClient(ctl, m) /\ ~On(wire, c, m, Hello(m)) /\ Client(m) \notin DOMAIN wire
  BY <1>2, <1>4, <1>6 DEF StageOK
<1>8. ~On(wire, c, m, Welcome(m))
  BY <1>2, <1>4, <1>6 DEF StageOK, Token
<1>9. n # Broker => ~On(wire, Via(n), Broker, AskFor(m)) /\ ~On(wire, Via(n), n, Added(m))
  BY <1>2, <1>4, <1>6 DEF StageOK, Token
<1>10. /\ n # m
       /\ n # Broker => Inviter[n] # m /\ (IsClient(ctl, n) \/ ctl[n].boot = Invitation(n))
  BY <1>2, <1>4 DEF NameOK
<1>11. Peer(ctl, n, m) = NoChannel
  <2>1. PeerOK(ctl, wire, n, m)
    BY <1>4 DEF Inv, PeersOK
  <2> QED BY <1>2, <1>4, <1>6, <1>7, <1>10, <2>1 DEF PeerOK
<1> QED BY <1>2, <1>3, <1>4, <1>6, <1>7, <1>8, <1>9, <1>10, <1>11

\* Invitee m becomes a peer of n through c, and I are the invitations left.
InviteePut(C, D, n, m, c, I) ==
  /\ \A a \in Node : /\ D[a].inviter = C[a].inviter /\ D[a].boot = C[a].boot
                     /\ D[a].broker = C[a].broker /\ D[a].lost = C[a].lost
                     /\ D[a].invitations = IF a = n THEN I ELSE C[a].invitations
  /\ \A a, b \in Node : /\ Peer(D, a, b) = IF a = n /\ b = m THEN c ELSE Peer(C, a, b)
                        /\ D[a].queue[b] = IF a = n /\ b = m THEN << >> ELSE C[a].queue[b]

\* What an inviter's bookkeeping of an accepted invitation adds up to.
LEMMA InviteeFacts ==
  ASSUME NEW q, NEW p, NEW st, NEW r, NEW n \in Node, NEW m \in Node, NEW c, NEW I,
         InvitationsPut(q, p, n, I), Joined(p, st, n, m, c), SameState(st.ctl, r.ctl)
  PROVE InviteePut(q.ctl, r.ctl, n, m, c, I)
<1>1. /\ SameOthers(q.ctl, p.ctl, n) /\ SameNames(q.ctl[n], p.ctl[n])
      /\ p.ctl[n].invitations = I /\ p.ctl[n].lost = q.ctl[n].lost
  BY DEF InvitationsPut
<1>2. \A a, b \in Node : p.ctl[a].queue[b] = q.ctl[a].queue[b] /\ Peer(p.ctl, a, b) = Peer(q.ctl, a, b)
  BY DEF InvitationsPut
<1>3. /\ SameOthers(p.ctl, st.ctl, n) /\ SameNames(p.ctl[n], st.ctl[n])
      /\ st.ctl[n].invitations = p.ctl[n].invitations /\ st.ctl[n].lost = p.ctl[n].lost
  BY DEF Joined
<1>4. \A a, b \in Node : Peer(st.ctl, a, b) = IF a = n /\ b = m THEN c ELSE Peer(p.ctl, a, b)
  BY DEF Joined
<1>5. \A a, b \in Node : st.ctl[a].queue[b] = IF a = n /\ b = m THEN << >> ELSE p.ctl[a].queue[b]
  BY DEF Joined
<1>6. \A a \in Node : /\ r.ctl[a].inviter = st.ctl[a].inviter /\ r.ctl[a].boot = st.ctl[a].boot
                      /\ r.ctl[a].broker = st.ctl[a].broker /\ r.ctl[a].lost = st.ctl[a].lost
                      /\ r.ctl[a].invitations = st.ctl[a].invitations
  BY DEF SameState, SameLinks
<1>7. \A a, b \in Node : Peer(r.ctl, a, b) = Peer(st.ctl, a, b) /\ r.ctl[a].queue[b] = st.ctl[a].queue[b]
  BY DEF SameState, SameLinks, SameWaits
<1>8. \A a \in Node : a # n => p.ctl[a] = q.ctl[a] /\ st.ctl[a] = p.ctl[a]
  BY <1>1, <1>3 DEF SameOthers
<1>9. /\ st.ctl[n].inviter = q.ctl[n].inviter /\ st.ctl[n].boot = q.ctl[n].boot
      /\ st.ctl[n].broker = q.ctl[n].broker /\ st.ctl[n].lost = q.ctl[n].lost
      /\ st.ctl[n].invitations = I
  BY <1>1, <1>3 DEF SameNames
<1>10. \A a \in Node : /\ r.ctl[a].inviter = q.ctl[a].inviter /\ r.ctl[a].boot = q.ctl[a].boot
                       /\ r.ctl[a].broker = q.ctl[a].broker /\ r.ctl[a].lost = q.ctl[a].lost
                       /\ r.ctl[a].invitations = IF a = n THEN I ELSE q.ctl[a].invitations
  BY <1>6, <1>8, <1>9
<1>11. \A a, b \in Node : Peer(r.ctl, a, b) = IF a = n /\ b = m THEN c ELSE Peer(q.ctl, a, b)
  BY <1>2, <1>4, <1>7
<1>12. \A a, b \in Node : r.ctl[a].queue[b] = IF a = n /\ b = m THEN << >> ELSE q.ctl[a].queue[b]
  BY <1>2, <1>5, <1>7
<1> QED BY <1>10, <1>11, <1>12 DEF InviteePut

\* The inviter takes m as a peer; m is to become a client of the broker next.
LEMMA AcceptInvitationStep ==
  ASSUME Inv, Broker \in alive, NEW n \in Node, NEW c \in Open(n), Receives(n, c, "AcceptInvitation"),
         NEW m \in Guests, c = Invitation(m), n = Inviter[m], Head(wire[c][n]) = Reply(m),
         c \in ctl[n].invitations, c \in DOMAIN wire, n # m,
         ctl[m].inviter # NoNode, ~IsClient(ctl, m), Peer(ctl, n, m) = NoChannel,
         n # Broker => Inviter[n] # m,
         OneOn(wire, c, n, Reply(m)), ~On(wire, c, m, Hello(m)),
         ~On(wire, c, m, Welcome(m)), Client(m) \notin DOMAIN wire,
         n # Broker => /\ ~On(wire, Via(n), Broker, AskFor(m))
                       /\ ~On(wire, Via(n), n, Added(m)),
         NEW st, st = AddPeer(PutInvitations(Taken(n, c), n, ctl[n].invitations \ {c}), n, m, c),
         NEW r, NEW X, Handler(r), Commit(r), alive' = alive, send' = send,
         r.shut = st.shut, r.merge = st.merge, DOMAIN r.wire = DOMAIN st.wire,
         Moves(st.wire, r.wire, X), Calm(st.wire, r.wire),
         \A a, b, y : On(st.wire, a, b, y) => On(r.wire, a, b, y),
         SameState(st.ctl, r.ctl),
         \/ X = {}
         \/ n # Broker /\ IsClient(ctl, n) /\ X = {<<Via(n), Broker, AskFor(m)>>}
         \/ n = Broker /\ X = {<<c, m, Welcome(m)>>}
  PROVE Inv'
<1> DEFINE q == Taken(n, c)
           I == ctl[n].invitations \ {c}
           p == PutInvitations(q, n, I)
           z == Reply(m)
<1>1. /\ Handler(q) /\ q.ctl = ctl /\ q.merge = merge /\ q.shut = shut /\ Takes(wire, q.wire, c, n)
      /\ DOMAIN q.wire = DOMAIN wire /\ Queue(wire, c, n) # << >> /\ Head(Queue(wire, c, n)) = z
  BY ReadFacts
<1>2. /\ NameOK(ctl, wire, m) /\ LinkOK(ctl, wire, shut, alive, m)
      /\ m \in Node /\ m # Broker /\ Broker \in Node
  BY GuestFacts, Constants
<1>3. n \in alive /\ Ends(c) = {n, m}
  BY OpenFacts, InvitationFacts
<1>4. WireType(wire) /\ alive \subseteq Node /\ send \in [Talks -> Sending] /\ I \subseteq Chan
  BY TypedFacts DEF Inv, Controller
<1>5. z.type = "AcceptInvitation"
  BY MessageKinds
<1> HIDE DEF q
<1>6. Moves(wire, q.wire, {}) /\ Calm(wire, q.wire) /\ Keeps(wire, q.wire, c, n) /\ ~On(q.wire, c, n, z)
  <2>1. \A y : ~IntroMsg(z, y)
    BY <1>5 DEF IntroMsg
  <2> HIDE DEF z
  <2> QED BY <1>1, <1>4, <2>1, MovesTake DEF z
<1>7. InvitationsPut(q, p, n, I)
  BY <1>1, <1>4, PutInvitationsFacts
<1>8. st = AddPeer(p, n, m, c)
  BY DEF q
<1> HIDE DEF p
<1>9. /\ Handler(p) /\ p.wire = q.wire /\ p.shut = shut /\ p.merge = merge
      /\ Peer(p.ctl, n, m) = NoChannel /\ c \in DOMAIN p.wire
  BY <1>1, <1>7 DEF InvitationsPut
<1>10. Joined(p, st, n, m, c)
  BY <1>2, <1>3, <1>8, <1>9, JoinFacts
<1>11. /\ st.merge = merge /\ st.shut = shut /\ DOMAIN st.wire = DOMAIN wire
       /\ Moves(q.wire, st.wire, {}) /\ Calm(q.wire, st.wire)
       /\ \A a, b, y : On(q.wire, a, b, y) => On(st.wire, a, b, y)
  BY <1>1, <1>9, <1>10 DEF Joined
<1>12. Typed' /\ ctl' = r.ctl /\ wire' = r.wire /\ shut' = shut /\ merge' = merge
       /\ DOMAIN wire' = DOMAIN wire
  BY <1>4, <1>11, Committed
<1>13. Moves(wire, wire', X) /\ Calm(wire, wire') /\ Moves(q.wire, wire', X)
  <2>1. {} \cap X = {} /\ {} \cup X = X /\ {} \cap {} = {} /\ {} \cup {} = {}
    OBVIOUS
  <2>2. Moves(q.wire, wire', X)
    BY <1>11, <1>12, <2>1, MovesMore
  <2>3. Moves(wire, wire', X)
    BY <1>6, <2>1, <2>2, MovesMore
  <2>4. Calm(wire, wire')
    BY <1>6, <1>11, <1>12, CalmMore
  <2> QED BY <2>2, <2>3, <2>4
<1>14. Holds(wire, wire', alive)
  BY ZenonT(30), <1>1, <1>5, <1>6, <1>11, <1>12 DEF Holds, Keeps
<1>17. InviteePut(ctl, ctl', n, m, c, I)
  BY <1>1, <1>2, <1>7, <1>10, <1>12, InviteeFacts
<1>18. \A a \in Node : /\ ctl'[a].inviter = ctl[a].inviter /\ ctl'[a].boot = ctl[a].boot
                       /\ ctl'[a].broker = ctl[a].broker /\ ctl'[a].lost = ctl[a].lost
                       /\ ctl'[a].invitations = IF a = n THEN I ELSE ctl[a].invitations
  BY <1>17 DEF InviteePut
<1>19. \A a, b \in Node : /\ Peer(ctl', a, b) = IF a = n /\ b = m THEN c ELSE Peer(ctl, a, b)
                          /\ ctl'[a].queue[b] = IF a = n /\ b = m THEN << >> ELSE ctl[a].queue[b]
  BY <1>17 DEF InviteePut
<1>20. \A a \in Node : IsClient(ctl', a) <=> IsClient(ctl, a)
  BY <1>18 DEF IsClient
<1>21. \A k : k # m => Invitation(k) # c
  BY ChannelsDiffer
<1>22. ASSUME NEW k \in Guests
       PROVE /\ <<Invitation(k), k, Hello(k)>> \notin X /\ <<Invitation(k), Inviter[k], Reply(k)>> \notin X
             /\ k # m => /\ <<Invitation(k), k, Welcome(k)>> \notin X
                         /\ \A a, b : <<a, b, AskFor(k)>> \notin X
             /\ n # Broker => <<Invitation(k), k, Welcome(k)>> \notin X
             /\ \A a, b : <<a, b, Added(k)>> \notin X
  <2>0. Hello(k).type = "AcceptInvitee" /\ Reply(k).type = "AcceptInvitation"
    BY MessageKinds
  <2>7. AskFor(k).type = "AddBrokerClient" /\ Added(k).type = "BrokerClientAdded"
    BY MessageKinds
  <2>8. Welcome(k).type = "AcceptBrokerClient"
    BY MessageKinds
  <2>1. /\ Hello(k).type = "AcceptInvitee" /\ Reply(k).type = "AcceptInvitation"
        /\ AskFor(k).type = "AddBrokerClient" /\ Added(k).type = "BrokerClientAdded"
        /\ Welcome(k).type = "AcceptBrokerClient"
    BY <2>0, <2>7, <2>8
  <2>2. AskFor(m).type = "AddBrokerClient" /\ Welcome(m).type = "AcceptBrokerClient"
    BY MessageKinds
  <2>3. k # m => AskFor(k) # AskFor(m) /\ Invitation(k) # c
    BY <1>21, SameMessage
  <2>4. CASE X = {}
    BY <2>4
  <2>5. CASE X = {<<Via(n), Broker, AskFor(m)>>}
    BY <2>1, <2>2, <2>3, <2>5
  <2>6. CASE n = Broker /\ X = {<<c, m, Welcome(m)>>}
    BY <2>1, <2>2, <2>3, <2>6
  <2> QED BY <2>4, <2>5, <2>6
<1>23. ASSUME NEW k \in Guests, k # m
       PROVE Still(ctl, ctl', wire, wire', shut, shut', alive', X, k)
  <2>1. k \in Node /\ Inviter[k] \in Node /\ k # Broker
    BY Constants
  <2>2. Invitation(k) \in ctl'[Inviter[k]].invitations <=> Invitation(k) \in ctl[Inviter[k]].invitations
    BY <1>18, <1>21, <1>23, <2>1
  <2>3. /\ Peer(ctl', Broker, k) = Peer(ctl, Broker, k) /\ Peer(ctl', k, Broker) = Peer(ctl, k, Broker)
        /\ Peer(ctl', Inviter[k], k) = Peer(ctl, Inviter[k], k)
        /\ Peer(ctl', k, Inviter[k]) = Peer(ctl, k, Inviter[k])
    BY <1>2, <1>19, <1>23, <2>1
  <2> QED BY <1>12, <1>18, <1>22, <1>23, <2>1, <2>2, <2>3 DEF Still
<1>24. NameOK(ctl', wire', m)
  <2>1. /\ ctl'[m].inviter = ctl[m].inviter /\ ctl'[m].boot = ctl[m].boot
        /\ ctl'[m].broker = ctl[m].broker /\ ctl'[n].boot = ctl[n].boot
        /\ IsClient(ctl', n) <=> IsClient(ctl, n)
    BY <1>2, <1>18, <1>20
  <2> QED BY <1>2, <1>12, <2>1 DEF NameOK
<1>25. /\ ctl'[m].inviter # NoNode /\ ~IsClient(ctl', m) /\ c \notin ctl'[n].invitations
       /\ Peer(ctl', n, m) = c /\ Client(m) \notin DOMAIN wire'
  BY <1>2, <1>12, <1>18, <1>19, <1>20
<1>26. /\ ~On(wire', c, m, Hello(m)) /\ OneOn(wire', c, m, Hello(m))
       /\ ~On(wire', c, n, z) /\ OneOn(wire', c, n, z)
       /\ OneOn(wire', c, m, Welcome(m))
       /\ n # Broker => /\ ~On(wire', c, m, Welcome(m))
                        /\ OneOn(wire', Via(n), Broker, AskFor(m))
                        /\ ~On(wire', Via(n), n, Added(m)) /\ OneOn(wire', Via(n), n, Added(m))
       /\ n # Broker /\ On(wire', Via(n), Broker, AskFor(m)) => IsClient(ctl, n)
  <2>1. z \notin Events /\ Hello(m) \notin Events /\ Welcome(m) \notin Events /\ AskFor(m) \notin Events
        /\ Added(m) \notin Events
    BY NotEvents
  <2>2. ~On(wire', c, m, Hello(m)) /\ ~On(wire', c, n, z)
    BY <1>6, <1>13, <1>22, <2>1 DEF Moves
  <2>3. OneOn(wire', c, m, Welcome(m))
    BY <1>13, <2>1, NotOnOne DEF Moves
  <2>4. ASSUME n # Broker
        PROVE /\ ~On(wire', c, m, Welcome(m))
              /\ OneOn(wire', Via(n), Broker, AskFor(m)) /\ ~On(wire', Via(n), n, Added(m))
    BY <1>13, <1>22, <2>1, <2>4, NotOnOne DEF Moves
  <2>5. ASSUME n # Broker, On(wire', Via(n), Broker, AskFor(m)) PROVE IsClient(ctl, n)
    BY <1>13, <2>1, <2>5 DEF Moves
  <2> QED BY <2>2, <2>3, <2>4, <2>5, NotOnOne
<1>27. StageOK(ctl', wire', shut', alive', m)
  <2>1. On(wire', c, m, Welcome(m)) => Token(ctl', wire', shut', alive', m)
    BY <1>25, <1>26 DEF Token
  <2>2. IsClient(ctl, n) => IsClient(ctl', n)
    BY <1>20
  <2> QED BY <1>25, <1>26, <2>1, <2>2 DEF StageOK
<1>28. LinkOK(ctl', wire', shut', alive', m)
  BY <1>2, <1>12, <1>25 DEF LinkOK
<1>29. \A k \in Guests : \/ Still(ctl, ctl', wire, wire', shut, shut', alive', X, k)
                         \/ /\ NameOK(ctl', wire', k) /\ StageOK(ctl', wire', shut', alive', k)
                            /\ LinkOK(ctl', wire', shut', alive', k)
  BY <1>23, <1>24, <1>27, <1>28
<1>30. PeersBut(ctl, ctl', wire')
  <2>1. ~Apart(n, m) /\ ~Intro(c)
    BY BetweenFacts DEF Apart, Intro
  <2>2. ctl'[n].queue[m] = << >> /\ Peer(ctl', n, m) = c
    BY <1>2, <1>19
  <2>3. PeerOK(ctl', wire', n, m)
    BY <1>2, <1>12, <1>25, <2>2 DEF PeerOK
  <2>4. \A a, b \in Node : ~(a = n /\ b = m) => Peer(ctl', a, b) = Peer(ctl, a, b)
    BY <1>19
  <2> QED BY <2>1, <2>2, <2>3, <2>4 DEF PeersBut
<1>31. Numbered(wire')
  BY <1>12, NumberedSame DEF Inv
<1>32. ASSUME NEW a, NEW b, NEW y, <<a, b, y>> \in X
       PROVE Fits(a, b, y) /\ y.type \notin IntroTypes
  <2>1. AskFor(m).type = "AddBrokerClient" /\ Welcome(m).type = "AcceptBrokerClient"
    BY MessageKinds
  <2>2. CASE n # Broker /\ X = {<<Via(n), Broker, AskFor(m)>>}
    <3>1. n \in Guests /\ a = Via(n) /\ b = Broker /\ y = AskFor(m)
      BY <1>32, <2>2, Constants
    <3> QED BY <2>1, <3>1 DEF Fits, IntroTypes
  <2>3. CASE n = Broker /\ X = {<<c, m, Welcome(m)>>}
    <3>1. a = c /\ b = m /\ y = Welcome(m)
      BY <1>32, <2>3
    <3> QED BY <2>1, <3>1 DEF Fits, IntroTypes
  <2> QED BY <1>32, <2>2, <2>3
<1>33. \A a \in Node : \A e \in ctl'[a].invitations : e \in ctl[a].invitations
  BY <1>18
<1>34. DOMAIN wire \subseteq DOMAIN wire' /\ shut \subseteq shut'
       /\ \A s \in shut' : s \in shut \/ (s[1] \in DOMAIN wire' /\ ~Intro(s[1]))
  BY <1>12
<1>35. /\ ctl'[Broker].inviter = ctl[Broker].inviter /\ ctl'[Broker].boot = ctl[Broker].boot
       /\ ctl'[Broker].broker = ctl[Broker].broker /\ \A a \in Guests : a \in Node
  BY <1>2, <1>18, Constants
<1>36. \A a, b \in Node : ctl'[a].queue[b] = ctl[a].queue[b] \/ ctl'[a].queue[b] = << >>
  BY <1>19
<1>37. /\ \A a \in Node : IsClient(ctl, a) => IsClient(ctl', a)
       /\ \A a \in Guests : IsClient(ctl', a) => IsClient(ctl, a)
       /\ \A a \in Node : ctl'[a].lost = ctl[a].lost
       /\ \A a \in Node : merge'[a] = merge[a]
  BY <1>12, <1>18, <1>20, <1>35
<1> QED BY <1>12, <1>13, <1>14, <1>29, <1>30, <1>31, <1>32, <1>33, <1>34, <1>35, <1>36, <1>37, Progress

\* The controller of n with other invitees that wait for the broker.
PutClients(st, n, Q) == [st EXCEPT !.ctl[n].clients = Q]

ClientsPut(st, r) ==
  /\ Handler(r) /\ r.wire = st.wire /\ r.shut = st.shut /\ r.merge = st.merge
  /\ SameState(st.ctl, r.ctl)

\* A write of the pending broker clients, spelled out.
LEMMA PutClientsIs ==
  ASSUME NEW st, st = [ctl |-> st.ctl, wire |-> st.wire, shut |-> st.shut, merge |-> st.merge],
         NEW n, NEW Q
  PROVE PutClients(st, n, Q) =
          [ctl |-> [st.ctl EXCEPT ![n] = [st.ctl[n] EXCEPT !.clients = Q]],
           wire |-> st.wire, shut |-> st.shut, merge |-> st.merge]
  BY DEF PutClients

\* What a write of the pending broker clients does.
LEMMA PutClientsFacts ==
  ASSUME NEW st, Handler(st), NEW n \in Node, NEW Q \in Seq(Node)
  PROVE ClientsPut(st, PutClients(st, n, Q))
<1> DEFINE t == st.ctl[n]
           v == [t EXCEPT !.clients = Q]
           D == [st.ctl EXCEPT ![n] = v]
           r == PutClients(st, n, Q)
<1>1. st.ctl \in [Node -> Controller] /\ t \in Controller
  BY DEF Handler
<1>2. r = [ctl |-> D, wire |-> st.wire, shut |-> st.shut, merge |-> st.merge]
  BY PutClientsIs DEF Handler
<1>3. /\ v \in Controller /\ v.peers = t.peers /\ v.queue = t.queue /\ v.lost = t.lost
      /\ v.inviter = t.inviter /\ v.boot = t.boot /\ v.broker = t.broker
      /\ v.invitations = t.invitations
  BY <1>1 DEF Controller
<1> HIDE DEF v
<1>4. D \in [Node -> Controller] /\ D[n] = v /\ \A x \in Node : x # n => D[x] = st.ctl[x]
  BY <1>1, <1>3
<1> HIDE DEF D, r
<1>5. Handler(r) /\ r.ctl = D /\ r.wire = st.wire /\ r.shut = st.shut /\ r.merge = st.merge
  BY <1>2, <1>4 DEF Handler
<1>6. \A x \in Node : /\ D[x].queue = st.ctl[x].queue /\ D[x].peers = st.ctl[x].peers
                      /\ D[x].lost = st.ctl[x].lost /\ D[x].inviter = st.ctl[x].inviter
                      /\ D[x].boot = st.ctl[x].boot /\ D[x].broker = st.ctl[x].broker
                      /\ D[x].invitations = st.ctl[x].invitations
  BY <1>3, <1>4
<1>7. \A x, y \in Node : D[x].queue[y] = st.ctl[x].queue[y] /\ Peer(D, x, y) = Peer(st.ctl, x, y)
  BY <1>6 DEF Peer, PeerChannel
<1>8. SameState(st.ctl, D)
  BY <1>6, <1>7 DEF SameState, SameLinks, SameWaits
<1> QED BY <1>5, <1>8 DEF r, ClientsPut

\* No channel goes by the invalid name.
LEMMA NoPeerNoNode ==
  ASSUME Inv, NEW n \in Node
  PROVE Peer(ctl, n, NoNode) = NoChannel /\ PeerChannel(ctl[n], NoNode) = NoChannel
<1>1. ctl[n] \in Controller
  BY TypedFacts DEF Inv
<1>2. ctl[n].peers \in PeerMaps
  BY <1>1 DEF Controller
<1>3. DOMAIN ctl[n].peers \subseteq Node
  BY <1>2 DEF PeerMaps
<1> QED BY <1>3, Constants DEF Peer, PeerChannel

\* How the inviter reaches the broker: through a channel of its own, not at all
\* because it is the broker, or not yet.
LEMMA LeaderFacts ==
  ASSUME Inv, Broker \in alive, NEW n \in Node, n \in alive
  PROVE /\ n = Broker => /\ BrokerChannel(n) = NoChannel /\ ctl[n].boot = NoChannel
                         /\ InviterChannel(ctl[n]) = NoChannel
        /\ n # Broker /\ IsClient(ctl, n) => BrokerChannel(n) = Via(n) /\ Via(n) # NoChannel
        /\ n # Broker /\ ~IsClient(ctl, n) => BrokerChannel(n) = NoChannel
<1>1. PeerChannel(ctl[n], NoNode) = NoChannel
  BY NoPeerNoNode
<1>2. ASSUME n = Broker
      PROVE BrokerChannel(n) = NoChannel /\ ctl[n].boot = NoChannel /\ InviterChannel(ctl[n]) = NoChannel
  <2>1. ctl[n].boot = NoChannel /\ ctl[n].inviter = NoNode
    BY <1>2 DEF Inv, NamesOK
  <2> QED BY <1>1, <1>2, <2>1 DEF BrokerChannel, InviterChannel
<1>3. ASSUME n # Broker, IsClient(ctl, n) PROVE BrokerChannel(n) = Via(n) /\ Via(n) # NoChannel
  <2>1. n \in Guests
    BY <1>3, Constants
  <2> QED BY <1>3, <2>1, ClientFacts
<1>4. ASSUME n # Broker, ~IsClient(ctl, n) PROVE BrokerChannel(n) = NoChannel
  BY <1>1, <1>4 DEF IsClient, BrokerChannel
<1> QED BY <1>2, <1>3, <1>4

\* The state in which the inviter goes on.
LEMMA InviteeHandler ==
  ASSUME Inv, NEW n \in Node, NEW c \in Open(n), NEW type, Receives(n, c, type),
         NEW m \in Guests, c = Invitation(m), n = Inviter[m], n # m, Peer(ctl, n, m) = NoChannel,
         NEW st, st = AddPeer(PutInvitations(Taken(n, c), n, ctl[n].invitations \ {c}), n, m, c)
  PROVE Handler(st) /\ DOMAIN st.wire = DOMAIN wire
<1> DEFINE q == Taken(n, c)
           I == ctl[n].invitations \ {c}
           p == PutInvitations(q, n, I)
<1>1. Handler(q) /\ q.ctl = ctl /\ DOMAIN q.wire = DOMAIN wire
  BY ReadFacts
<1>2. m \in Node /\ Ends(c) = {n, m} /\ c \in DOMAIN wire
  BY InvitationFacts, Constants, OpenFacts
<1>3. I \subseteq Chan
  BY TypedFacts DEF Inv, Controller
<1>4. InvitationsPut(q, p, n, I)
  <2> HIDE DEF q, I
  <2> QED BY <1>1, <1>3, PutInvitationsFacts
<1>5. st = AddPeer(p, n, m, c)
  OBVIOUS
<1> HIDE DEF p, q
<1>6. Handler(p) /\ p.wire = q.wire /\ Peer(p.ctl, n, m) = NoChannel /\ c \in DOMAIN p.wire
  BY <1>1, <1>2, <1>4 DEF InvitationsPut
<1>7. Joined(p, st, n, m, c)
  BY <1>2, <1>5, <1>6, JoinFacts
<1> QED BY <1>1, <1>6, <1>7 DEF Joined

\* The inviter hears that its invitation has been accepted.
LEMMA AcceptInvitationRead ==
  ASSUME Inv, Broker \in alive, NEW n \in Node, NEW c \in Open(n), OnAcceptInvitation(n, c)
  PROVE Inv'
<1>1. Receives(n, c, "AcceptInvitation") /\ alive' = alive /\ send' = send
  BY DEF OnAcceptInvitation
<1>2. PICK m \in Guests :
        /\ c = Invitation(m) /\ n = Inviter[m] /\ Head(wire[c][n]) = Reply(m)
        /\ Head(wire[c][n]).name = m
        /\ c \in ctl[n].invitations /\ c \in DOMAIN wire /\ n # m
        /\ ctl[m].inviter # NoNode /\ ~IsClient(ctl, m) /\ Peer(ctl, n, m) = NoChannel
        /\ n # Broker => /\ Inviter[n] # m
                         /\ IsClient(ctl, n) \/ ctl[n].boot = Invitation(n)
        /\ OneOn(wire, c, n, Reply(m)) /\ ~On(wire, c, m, Hello(m))
        /\ ~On(wire, c, m, Welcome(m)) /\ Client(m) \notin DOMAIN wire
        /\ n # Broker => /\ ~On(wire, Via(n), Broker, AskFor(m))
                         /\ ~On(wire, Via(n), n, Added(m))
  BY <1>1, ReplyFacts
<1> DEFINE st == AddPeer(PutInvitations(Taken(n, c), n, ctl[n].invitations \ {c}), n, m, c)
           leader == InviterChannel(ctl[n])
<1>3. Commit(IF c \notin ctl[n].invitations
             THEN DropPeer(Taken(n, c), n, RemoteName(n, c), NoChannel)
             ELSE IF BrokerChannel(n) # NoChannel
             THEN Post(st, n, BrokerChannel(n), AskFor(m))
             ELSE IF leader = NoChannel /\ ctl[n].boot = NoChannel
             THEN Post(st, n, c, Plain("AcceptBrokerClient", n))
             ELSE PutClients(st, n, Append(st.ctl[n].clients, m)))
  <2>1. Taken(n, c).ctl = ctl
    BY <1>1, ReadFacts
  <2>2. [Taken(n, c) EXCEPT !.ctl[n].invitations = @ \ {c}] =
          PutInvitations(Taken(n, c), n, ctl[n].invitations \ {c})
    BY <2>1 DEF PutInvitations
  <2>3. Head(wire[c][n]).name = m
    BY <1>2
  <2> DEFINE S == AddPeer([Taken(n, c) EXCEPT !.ctl[n].invitations = @ \ {c}], n, m, c)
  <2>4. Commit(IF c \notin ctl[n].invitations
               THEN DropPeer(Taken(n, c), n, RemoteName(n, c), NoChannel)
               ELSE IF BrokerChannel(n) # NoChannel
               THEN Post(S, n, BrokerChannel(n), Plain("AddBrokerClient", m))
               ELSE IF leader = NoChannel /\ ctl[n].boot = NoChannel
               THEN Post(S, n, c, Plain("AcceptBrokerClient", n))
               ELSE [S EXCEPT !.ctl[n].clients = Append(@, m)])
    BY ONLY OnAcceptInvitation(n, c), <2>3, Zenon DEF OnAcceptInvitation
  <2>5. S = st
    BY ONLY <2>2, Zenon
  <2> HIDE DEF st, S
  <2>6. [st EXCEPT !.ctl[n].clients = Append(@, m)] = PutClients(st, n, Append(st.ctl[n].clients, m))
    BY ONLY Zenon DEF PutClients
  <2>7. AskFor(m) = Plain("AddBrokerClient", m)
    BY DEF AskFor
  <2> QED BY ONLY <2>4, <2>5, <2>6, <2>7, Zenon
<1>4. Handler(st) /\ DOMAIN st.wire = DOMAIN wire
  BY <1>1, <1>2, InviteeHandler
<1>5. n \in alive /\ m \in Node /\ Broker \in Node /\ Ends(c) = {n, m}
  BY <1>2, OpenFacts, Constants, InvitationFacts
<1>6. SameState(st.ctl, st.ctl)
  BY DEF SameState, SameLinks, SameWaits
<1>7. CASE n # Broker /\ IsClient(ctl, n)
  <2> DEFINE x == AskFor(m)
             r == Post(st, n, Via(n), x)
             X == {<<Via(n), Broker, x>>}
  <2>1. BrokerChannel(n) = Via(n) /\ Via(n) # NoChannel
    BY <1>5, <1>7, LeaderFacts
  <2>2. Commit(r)
    BY <1>2, <1>3, <2>1
  <2>3. n \in Guests
    BY <1>7, Constants
  <2>4. Via(n) \in DOMAIN wire /\ Ends(Via(n)) = {n, Broker}
    BY <1>5, <1>7, <2>3, ClientFacts
  <2>5. x \in Message
    BY MessageTypes
  <2>6. x.ch = NoChannel
    BY MessageFields
  <2> HIDE DEF st, x
  <2>7. Posted(st, r, n, Via(n), Broker, x)
    BY <1>4, <1>5, <1>7, <2>4, <2>5, <2>6, PostPlain
  <2> HIDE DEF r
  <2>8. /\ Handler(r) /\ r.ctl = st.ctl /\ r.merge = st.merge /\ r.shut = st.shut
        /\ DOMAIN r.wire = DOMAIN st.wire /\ Moves(st.wire, r.wire, X) /\ Calm(st.wire, r.wire)
        /\ \A a, b, y : On(st.wire, a, b, y) => On(r.wire, a, b, y)
    BY <2>7 DEF Posted
  <2>9. X = {<<Via(n), Broker, AskFor(m)>>}
    BY DEF x
  <2> HIDE DEF X
  <2> QED BY <1>1, <1>2, <1>6, <1>7, <2>2, <2>8, <2>9, AcceptInvitationStep DEF st
<1>8. CASE n = Broker
  <2> DEFINE x == Welcome(m)
             r == Post(st, n, c, x)
             X == {<<c, m, x>>}
  <2>1. BrokerChannel(n) = NoChannel /\ ctl[n].boot = NoChannel /\ leader = NoChannel
    BY <1>5, <1>8, LeaderFacts
  <2>2. Commit(r)
    BY <1>2, <1>3, <1>8, <2>1 DEF Welcome
  <2>5. x \in Message
    BY MessageTypes
  <2>6. x.ch = NoChannel
    BY <1>2, <1>8 DEF Welcome, Plain
  <2> HIDE DEF st, x
  <2>7. Posted(st, r, n, c, m, x)
    BY <1>2, <1>4, <1>5, <2>5, <2>6, PostPlain
  <2> HIDE DEF r
  <2>8. /\ Handler(r) /\ r.ctl = st.ctl /\ r.merge = st.merge /\ r.shut = st.shut
        /\ DOMAIN r.wire = DOMAIN st.wire /\ Moves(st.wire, r.wire, X) /\ Calm(st.wire, r.wire)
        /\ \A a, b, y : On(st.wire, a, b, y) => On(r.wire, a, b, y)
    BY <2>7 DEF Posted
  <2>9. X = {<<c, m, Welcome(m)>>}
    BY DEF x
  <2> HIDE DEF X
  <2> QED BY <1>1, <1>2, <1>6, <1>8, <2>2, <2>8, <2>9, AcceptInvitationStep DEF st
<1>9. CASE n # Broker /\ ~IsClient(ctl, n)
  <2> DEFINE Q == Append(st.ctl[n].clients, m)
             r == PutClients(st, n, Q)
  <2>1. BrokerChannel(n) = NoChannel /\ ctl[n].boot # NoChannel
    <3>1. n \in Guests
      BY <1>9, Constants
    <3> QED BY <1>2, <1>5, <1>9, <3>1, LeaderFacts, InvitationFacts
  <2>2. Commit(r)
    BY <1>2, <1>3, <2>1
  <2> HIDE DEF st
  <2>3. st.ctl[n].clients \in Seq(Node)
    BY <1>4 DEF Handler, Controller
  <2>4. Q \in Seq(Node)
    BY <1>5, <2>3, AppendOne
  <2> HIDE DEF Q
  <2>5. ClientsPut(st, r)
    BY <1>4, <2>4, PutClientsFacts
  <2> HIDE DEF r
  <2>6. /\ Handler(r) /\ r.wire = st.wire /\ r.shut = st.shut /\ r.merge = st.merge
        /\ SameState(st.ctl, r.ctl)
    BY <2>5 DEF ClientsPut
  <2>7. /\ Moves(st.wire, r.wire, {}) /\ Calm(st.wire, r.wire)
        /\ \A a, b, y : On(st.wire, a, b, y) => On(r.wire, a, b, y)
    BY <2>6, MovesNone
  <2> QED BY <1>1, <1>2, <2>2, <2>6, <2>7, AcceptInvitationStep DEF st
<1> QED BY <1>7, <1>8, <1>9

\* A new peer leaves the invitations alone.
LEMMA JoinedFacts ==
  ASSUME NEW p, NEW st, NEW n \in Node, NEW m \in Node, NEW c, Joined(p, st, n, m, c)
  PROVE InviteePut(p.ctl, st.ctl, n, m, c, p.ctl[n].invitations)
<1>1. /\ SameOthers(p.ctl, st.ctl, n) /\ SameNames(p.ctl[n], st.ctl[n])
      /\ st.ctl[n].invitations = p.ctl[n].invitations /\ st.ctl[n].lost = p.ctl[n].lost
  BY DEF Joined
<1>2. \A a, b \in Node : Peer(st.ctl, a, b) = IF a = n /\ b = m THEN c ELSE Peer(p.ctl, a, b)
  BY DEF Joined
<1>3. \A a, b \in Node : st.ctl[a].queue[b] = IF a = n /\ b = m THEN << >> ELSE p.ctl[a].queue[b]
  BY DEF Joined
<1>4. \A a \in Node : a # n => st.ctl[a] = p.ctl[a]
  BY <1>1 DEF SameOthers
<1>5. \A a \in Node : /\ st.ctl[a].inviter = p.ctl[a].inviter /\ st.ctl[a].boot = p.ctl[a].boot
                      /\ st.ctl[a].broker = p.ctl[a].broker /\ st.ctl[a].lost = p.ctl[a].lost
                      /\ st.ctl[a].invitations = IF a = n THEN p.ctl[n].invitations
                                                 ELSE p.ctl[a].invitations
  BY <1>1, <1>4 DEF SameNames
<1> QED BY <1>2, <1>3, <1>5 DEF InviteePut

\* Whom a process has as a peer.
LEMMA HasFacts ==
  ASSUME Inv, NEW n \in Node, NEW m
  PROVE /\ Has(n, m) <=> Peer(ctl, n, m) # NoChannel
        /\ Has(n, m) => ctl[n].peers[m] = Peer(ctl, n, m)
<1>1. ctl[n] \in Controller
  BY TypedFacts DEF Inv
<1>2. ctl[n].peers \in PeerMaps
  BY <1>1 DEF Controller
<1>3. \A x \in DOMAIN ctl[n].peers : ctl[n].peers[x] \in Chan
  BY <1>2 DEF PeerMaps
<1> QED BY <1>3, NoChannelIsNone DEF Has, Peer, PeerChannel

\* The broker has read that i asks it to take m as a client.
LEMMA AskForFacts ==
  ASSUME Inv, NEW b \in Node, NEW c \in Open(b), Receives(b, c, "AddBrokerClient")
  PROVE /\ b = Broker
        /\ \E m \in Guests :
             /\ Inviter[m] \in Guests /\ Inviter[m] # Broker /\ c = Via(Inviter[m])
             /\ Head(wire[c][b]) = AskFor(m) /\ Head(wire[c][b]).name = m
             /\ RemoteName(b, c) = Inviter[m] /\ Peer(ctl, b, Inviter[m]) = c
             /\ IsClient(ctl, Inviter[m]) /\ OneOn(wire, c, Broker, AskFor(m))
             /\ Client(m) \notin DOMAIN wire /\ Invitation(m) \in DOMAIN wire
             /\ Invitation(m) \notin ctl[Inviter[m]].invitations
             /\ ctl[m].inviter # NoNode /\ ~IsClient(ctl, m) /\ Peer(ctl, Broker, m) = NoChannel
             /\ ~On(wire, Invitation(m), m, Hello(m)) /\ ~On(wire, Invitation(m), Inviter[m], Reply(m))
             /\ ~On(wire, Invitation(m), m, Welcome(m)) /\ ~On(wire, c, Inviter[m], Added(m))
<1>1. /\ On(wire, c, b, Head(wire[c][b])) /\ Fits(c, b, Head(wire[c][b]))
      /\ Head(wire[c][b]).type = "AddBrokerClient"
  BY ReadFacts
<1>2. b = Broker /\ \E n, m \in Guests : c = Via(n) /\ Head(wire[c][b]) = AskFor(m) /\ Inviter[m] = n
  BY <1>1, FitsType
<1>3. PICK m \in Guests : Inviter[m] \in Guests /\ c = Via(Inviter[m]) /\ Head(wire[c][b]) = AskFor(m)
  BY <1>2
<1> DEFINE i == Inviter[m]
<1>4. AskFor(m).name = m
  BY MessageFields
<1>5. /\ NameOK(ctl, wire, m) /\ StageOK(ctl, wire, shut, alive, m)
      /\ m \in Node /\ m # Broker /\ i # Broker /\ Broker \in Node
  BY <1>3, GuestFacts, Constants
<1>6. On(wire, Via(i), Broker, AskFor(m))
  BY <1>1, <1>2, <1>3
<1>7. /\ Client(m) \notin DOMAIN wire /\ IsClient(ctl, i) /\ ctl[m].inviter # NoNode
      /\ Invitation(m) \notin ctl[i].invitations /\ OneOn(wire, c, Broker, AskFor(m))
  BY <1>3, <1>5, <1>6 DEF StageOK
<1>8. ~IsClient(ctl, m) /\ Invitation(m) \in DOMAIN wire
  BY <1>5, <1>7 DEF NameOK, IsClient, Via
<1>9. ~On(wire, Invitation(m), m, Hello(m)) /\ ~On(wire, Invitation(m), i, Reply(m))
  BY <1>5, <1>7 DEF StageOK
<1>10. ~On(wire, Invitation(m), m, Welcome(m)) /\ ~On(wire, c, i, Added(m))
  BY <1>3, <1>5, <1>7 DEF StageOK, Token
<1>11. Peer(ctl, Broker, m) = NoChannel
  <2>1. PeerOK(ctl, wire, Broker, m)
    BY <1>5 DEF Inv, PeersOK
  <2> QED BY <1>5, <1>7, <2>1 DEF PeerOK
<1>12. RemoteName(b, c) = i /\ Peer(ctl, b, i) = c
  BY <1>2, <1>3, <1>7, RemoteVia, OpenVia
<1> QED BY <1>2, <1>3, <1>4, <1>5, <1>7, <1>8, <1>9, <1>10, <1>11, <1>12

\* The broker takes m as a client, and hands an end of their channel to i.
LEMMA AddBrokerClientStep ==
  ASSUME Inv, Broker \in alive, NEW c \in Open(Broker), Receives(Broker, c, "AddBrokerClient"),
         NEW m \in Guests, NEW i \in Guests, i = Inviter[m], c = Via(i),
         Head(wire[c][Broker]) = AskFor(m), Peer(ctl, Broker, i) = c,
         IsClient(ctl, i), OneOn(wire, c, Broker, AskFor(m)), Client(m) \notin DOMAIN wire,
         Invitation(m) \in DOMAIN wire, Invitation(m) \notin ctl[i].invitations,
         ctl[m].inviter # NoNode, ~IsClient(ctl, m), Peer(ctl, Broker, m) = NoChannel,
         ~On(wire, Invitation(m), m, Hello(m)), ~On(wire, Invitation(m), i, Reply(m)),
         ~On(wire, Invitation(m), m, Welcome(m)), ~On(wire, c, i, Added(m)),
         NEW q, q = Taken(Broker, c), NEW s, s = NewChannel(q, Client(m), Broker, m),
         NEW st, st = AddPeer(s, Broker, m, Client(m)),
         NEW r, r = Post(st, Broker, c, Added(m)), Commit(r), alive' = alive, send' = send
  PROVE Inv'
<1> DEFINE d == Client(m)
           z == AskFor(m)
           x == Added(m)
           X == {<<c, i, x>>}
<1>1. /\ Handler(q) /\ q.ctl = ctl /\ q.merge = merge /\ q.shut = shut /\ Takes(wire, q.wire, c, Broker)
      /\ DOMAIN q.wire = DOMAIN wire /\ Queue(wire, c, Broker) # << >> /\ Head(Queue(wire, c, Broker)) = z
  BY ReadFacts, Constants
<1>2. /\ NameOK(ctl, wire, m) /\ LinkOK(ctl, wire, shut, alive, m)
      /\ m \in Node /\ m # Broker /\ Broker \in Node /\ i \in Node /\ i # Broker
  BY GuestFacts, Constants
<1>3. /\ Ends(c) = {Broker, i} /\ Ends(d) = {Broker, m} /\ c \in DOMAIN wire /\ d \in Chan /\ d # NoChannel
      /\ d[1] = "client"
  BY <1>2, OpenFacts, InvitationFacts, ChannelsDiffer
<1>4. WireType(wire) /\ alive \subseteq Node /\ send \in [Talks -> Sending]
  BY TypedFacts DEF Inv
<1>5. z.type = "AddBrokerClient"
  BY MessageKinds
<1>6. x \in Message
  BY MessageTypes
<1>7. x.ch = d /\ x.for = m /\ x.type = "BrokerClientAdded"
  BY MessageFields
<1>8. z \notin Events /\ x \notin Events
  BY NotEvents
<1>9. \A e : <<d, e>> \notin shut
  BY DEF Inv
<1>10. Moves(wire, q.wire, {}) /\ Calm(wire, q.wire) /\ Keeps(wire, q.wire, c, Broker)
       /\ ~On(q.wire, c, Broker, z)
  <2>1. \A y : ~IntroMsg(z, y)
    BY <1>5 DEF IntroMsg
  <2> HIDE DEF z
  <2> QED BY <1>1, <1>4, <2>1, MovesTake DEF z
<1>11. /\ Handler(s) /\ s.ctl = ctl /\ s.merge = merge /\ s.shut = shut
       /\ DOMAIN s.wire = DOMAIN wire \cup {d}
       /\ \A a, e : Queue(s.wire, a, e) = Queue(q.wire, a, e)
  BY <1>1, <1>3, NewChannelFacts
<1>12. Moves(q.wire, s.wire, {}) /\ Calm(q.wire, s.wire)
       /\ \A a, b, y : On(s.wire, a, b, y) <=> On(q.wire, a, b, y)
  BY <1>11, MovesSame
<1>13. Joined(s, st, Broker, m, d)
  <2>1. d \in DOMAIN s.wire /\ Peer(s.ctl, Broker, m) = NoChannel
    BY <1>11
  <2> QED BY <1>2, <1>3, <1>11, <2>1, JoinFacts
<1>14. /\ Handler(st) /\ st.merge = merge /\ st.shut = shut /\ DOMAIN st.wire = DOMAIN wire \cup {d}
       /\ Moves(s.wire, st.wire, {}) /\ Calm(s.wire, st.wire)
       /\ \A a, b, y : On(s.wire, a, b, y) => On(st.wire, a, b, y)
  BY <1>11, <1>13 DEF Joined
<1>15. InviteePut(ctl, st.ctl, Broker, m, d, ctl[Broker].invitations)
  BY <1>2, <1>11, <1>13, JoinedFacts
<1> HIDE DEF x, z
<1>16. Handed(st, r, Broker, c, i, x)
  <2>1. c \in DOMAIN st.wire /\ x.for \in Node /\ x.ch \in Chan
    BY <1>2, <1>3, <1>7, <1>14
  <2>2. r = Post(st, Broker, c, x)
    BY DEF x
  <2> HIDE DEF d
  <2> QED BY <1>2, <1>3, <1>6, <1>14, <2>1, <2>2, PostCarry
<1>17. /\ Handler(r) /\ r.ctl = st.ctl /\ r.merge = merge /\ DOMAIN r.wire = DOMAIN wire \cup {d}
       /\ \A a, b, y : On(st.wire, a, b, y) => On(r.wire, a, b, y)
       /\ Up(st, c, Broker, i) => r.shut = shut
       /\ ~Up(st, c, Broker, i) => r.wire = st.wire /\ r.shut = shut \cup {<<d, m>>}
  BY <1>7, <1>14, <1>16 DEF Handed
<1>18. Calm(st.wire, r.wire) /\ Moves(st.wire, r.wire, X)
  <2>1. \A y : ~IntroMsg(x, y)
    BY <1>7 DEF IntroMsg
  <2>2. Calm(st.wire, r.wire)
    BY <1>16, <2>1 DEF Handed
  <2>3. CASE Up(st, c, Broker, i)
    BY <1>16, <2>2, <2>3 DEF Handed
  <2>4. CASE ~Up(st, c, Broker, i)
    <3>1. Moves(st.wire, r.wire, {})
      BY <1>17, <2>4, MovesNone
    <3>2. Moves(r.wire, r.wire, {}) /\ {} \cap X = {} /\ {} \cup X = X
      BY MovesNone
    <3>3. Moves(st.wire, r.wire, X)
      BY <1>17, <2>4 DEF Moves
    <3> QED BY <2>2, <3>3
  <2> QED BY <2>3, <2>4
<1>19. /\ Typed' /\ ctl' = st.ctl /\ wire' = r.wire /\ merge' = merge /\ shut' = r.shut
       /\ DOMAIN wire' = DOMAIN wire \cup {d}
  BY <1>4, <1>17, Committed
<1>20. Moves(wire, wire', X) /\ Calm(wire, wire') /\ Moves(q.wire, wire', X)
  <2>1. {} \cap X = {} /\ {} \cup X = X /\ {} \cap {} = {} /\ {} \cup {} = {}
    OBVIOUS
  <2> HIDE DEF X
  <2>2. Moves(s.wire, wire', X)
    BY <1>14, <1>18, <1>19, <2>1, MovesMore
  <2>3. Moves(q.wire, wire', X)
    BY <1>12, <2>1, <2>2, MovesMore
  <2>4. Moves(wire, wire', X)
    BY <1>10, <2>1, <2>3, MovesMore
  <2>5. Calm(q.wire, st.wire) /\ Calm(st.wire, wire')
    BY <1>12, <1>14, <1>18, <1>19, CalmMore
  <2>6. Calm(wire, wire')
    BY <1>10, <2>5, CalmMore
  <2> QED BY <2>3, <2>4, <2>6
<1>21. Holds(wire, wire', alive)
  BY <1>1, <1>5, <1>10, <1>12, <1>14, <1>17, <1>19 DEF Holds, Keeps
<1>22. \A a \in Node : /\ ctl'[a].inviter = ctl[a].inviter /\ ctl'[a].boot = ctl[a].boot
                       /\ ctl'[a].broker = ctl[a].broker /\ ctl'[a].lost = ctl[a].lost
                       /\ ctl'[a].invitations = ctl[a].invitations
  BY <1>15, <1>19 DEF InviteePut
<1>23. \A a, b \in Node : /\ Peer(ctl', a, b) = IF a = Broker /\ b = m THEN d ELSE Peer(ctl, a, b)
                          /\ ctl'[a].queue[b] = IF a = Broker /\ b = m THEN << >> ELSE ctl[a].queue[b]
  BY <1>15, <1>19 DEF InviteePut
<1>24. \A a \in Node : IsClient(ctl', a) <=> IsClient(ctl, a)
  BY <1>22 DEF IsClient
<1>25. shut \subseteq shut' /\ \A e \in shut' : e \in shut \/ e = <<d, m>>
  BY <1>17, <1>19
<1>26. \A k : k # m => Client(k) # d /\ Added(k) # x
  BY ChannelsDiffer, SameMessage DEF x
<1>27. ASSUME NEW k \in Guests, k # m
       PROVE Still(ctl, ctl', wire, wire', shut, shut', alive', X, k)
  <2>1. k \in Node /\ Inviter[k] \in Node /\ k # Broker
    BY Constants
  <2>2. /\ Peer(ctl', Broker, k) = Peer(ctl, Broker, k) /\ Peer(ctl', k, Broker) = Peer(ctl, k, Broker)
        /\ Peer(ctl', Inviter[k], k) = Peer(ctl, Inviter[k], k)
        /\ Peer(ctl', k, Inviter[k]) = Peer(ctl, k, Inviter[k])
    BY <1>2, <1>23, <1>27, <2>1
  <2>3. \A e : e # m => <<Client(k), e>> # <<d, m>>
    BY <1>26, <1>27
  <2>4. Invitation(k) # d /\ Client(k) # d
    BY <1>26, <1>27, ChannelsDiffer
  <2>5. Hello(k).type = "AcceptInvitee" /\ Reply(k).type = "AcceptInvitation"
    BY MessageKinds
  <2>6. AskFor(k).type = "AddBrokerClient"
    BY MessageKinds
  <2>7. Welcome(k).type = "AcceptBrokerClient"
    BY MessageKinds
  <2>8. \A a, b : /\ <<a, b, Hello(k)>> \notin X /\ <<a, b, Reply(k)>> \notin X
                  /\ <<a, b, AskFor(k)>> \notin X /\ <<a, b, Welcome(k)>> \notin X
                  /\ <<a, b, Added(k)>> \notin X
    BY <1>7, <1>26, <1>27, <2>5, <2>6, <2>7
  <2> HIDE DEF X, d
  <2>9. /\ \A e : <<Invitation(k), e>> \in shut' => <<Invitation(k), e>> \in shut
        /\ \A e : <<Client(k), e>> \in shut' => <<Client(k), e>> \in shut
        /\ \A e : e \in shut => e \in shut'
    BY <1>25, <2>4
  <2>10. /\ Invitation(k) \in DOMAIN wire' <=> Invitation(k) \in DOMAIN wire
         /\ Client(k) \in DOMAIN wire' <=> Client(k) \in DOMAIN wire
    BY <1>19, <2>4
  <2> QED BY <1>22, <2>1, <2>2, <2>8, <2>9, <2>10 DEF Still
<1>28. NameOK(ctl', wire', m)
  <2>1. /\ ctl'[m].inviter = ctl[m].inviter /\ ctl'[m].boot = ctl[m].boot
        /\ ctl'[m].broker = ctl[m].broker /\ ctl'[i].boot = ctl[i].boot
        /\ IsClient(ctl', i) <=> IsClient(ctl, i)
    BY <1>2, <1>22, <1>24
  <2>2. ctl[m].broker = NoNode
    BY <1>2 DEF IsClient
  <2> QED BY <1>2, <1>19, <2>1, <2>2 DEF NameOK
<1>29. /\ ctl'[m].inviter # NoNode /\ ~IsClient(ctl', m) /\ Invitation(m) \notin ctl'[i].invitations
       /\ Peer(ctl', Broker, m) = d /\ d \in DOMAIN wire' /\ Invitation(m) \in DOMAIN wire'
       /\ IsClient(ctl', i)
  BY <1>2, <1>19, <1>22, <1>23, <1>24
<1>30. /\ ~On(wire', Invitation(m), m, Hello(m)) /\ OneOn(wire', Invitation(m), m, Hello(m))
       /\ ~On(wire', Invitation(m), i, Reply(m)) /\ OneOn(wire', Invitation(m), i, Reply(m))
       /\ ~On(wire', Invitation(m), m, Welcome(m)) /\ OneOn(wire', Invitation(m), m, Welcome(m))
       /\ ~On(wire', c, Broker, z) /\ OneOn(wire', c, Broker, z) /\ OneOn(wire', c, i, x)
  <2>1. Hello(m).type = "AcceptInvitee" /\ Reply(m).type = "AcceptInvitation"
    BY MessageKinds
  <2>2. Welcome(m).type = "AcceptBrokerClient"
    BY MessageKinds
  <2>3. \A a, b : /\ <<a, b, Hello(m)>> \notin X /\ <<a, b, Reply(m)>> \notin X
                  /\ <<a, b, Welcome(m)>> \notin X /\ <<a, b, z>> \notin X
    BY <1>5, <1>7, <2>1, <2>2
  <2>4. Hello(m) \notin Events /\ Reply(m) \notin Events /\ Welcome(m) \notin Events
    BY NotEvents
  <2>5. OneOn(wire, c, i, x) /\ ~On(wire, c, i, x)
    BY NotOnOne DEF x
  <2> HIDE DEF X
  <2>6. ~On(wire', Invitation(m), m, Hello(m)) /\ ~On(wire', Invitation(m), i, Reply(m))
        /\ ~On(wire', Invitation(m), m, Welcome(m))
    BY <1>20, <2>3, <2>4 DEF Moves
  <2>7. ~On(wire', c, Broker, z)
    BY <1>8, <1>10, <1>20, <2>3 DEF Moves
  <2>8. OneOn(wire', c, i, x)
    BY <1>8, <1>20, <2>5 DEF Moves
  <2> QED BY <2>6, <2>7, <2>8, NotOnOne
<1>31. ASSUME On(wire', c, i, x) PROVE Token(ctl', wire', shut', alive', m)
  <2>1. Up(st, c, Broker, i)
    <3>1. SUFFICES ASSUME ~Up(st, c, Broker, i) PROVE FALSE
      OBVIOUS
    <3>2. On(st.wire, c, i, x)
      BY <1>17, <1>19, <1>31, <3>1
    <3>3. On(wire, c, i, x)
      BY <1>8, <1>10, <1>12, <1>14, <3>2 DEF Moves
    <3> QED BY <3>3 DEF x
  <2>2. shut' = shut
    BY <1>17, <1>19, <2>1
  <2> QED BY <1>2, <1>9, <1>29, <2>2 DEF Token
<1>32. StageOK(ctl', wire', shut', alive', m)
  BY <1>2, <1>29, <1>30, <1>31 DEF StageOK, z, x
<1>33. LinkOK(ctl', wire', shut', alive', m)
  <2>1. Peer(ctl', i, m) = Peer(ctl, i, m) /\ Invitation(m) # d
    BY <1>2, <1>23, ChannelsDiffer
  <2>2. <<Invitation(m), i>> \in shut' => <<Invitation(m), i>> \in shut
    BY <1>25, <2>1
  <2>3. <<Invitation(m), m>> \in shut' => <<Invitation(m), m>> \in shut
    BY <1>25, <2>1
  <2> QED BY <1>2, <1>29, <2>1, <2>2, <2>3 DEF LinkOK
<1>34. \A k \in Guests : \/ Still(ctl, ctl', wire, wire', shut, shut', alive', X, k)
                         \/ /\ NameOK(ctl', wire', k) /\ StageOK(ctl', wire', shut', alive', k)
                            /\ LinkOK(ctl', wire', shut', alive', k)
  BY <1>27, <1>28, <1>32, <1>33
<1>35. PeersBut(ctl, ctl', wire') /\ ~Intro(d)
  <2>1. ~Apart(Broker, m) /\ ~Intro(d)
    BY BetweenFacts DEF Apart, Intro, Guests
  <2>2. ctl'[Broker].queue[m] = << >> /\ Peer(ctl', Broker, m) = d
    BY <1>2, <1>23
  <2>3. PeerOK(ctl', wire', Broker, m)
    BY <1>2, <1>29, <2>2 DEF PeerOK
  <2>4. \A a, b \in Node : ~(a = Broker /\ b = m) => Peer(ctl', a, b) = Peer(ctl, a, b)
    BY <1>23
  <2> HIDE DEF d
  <2> QED BY <2>1, <2>2, <2>3, <2>4 DEF PeersBut
<1>36. Numbered(wire')
  BY <1>3, <1>19, NumberedMore DEF Inv
<1>37. \A a, b, y : <<a, b, y>> \in X => Fits(a, b, y) /\ y.type \notin IntroTypes
  <2>1. Fits(c, i, x)
    BY DEF Fits, x
  <2> QED BY <1>7, <2>1 DEF IntroTypes
<1>38. \A a \in Node : \A e \in ctl'[a].invitations : e \in ctl[a].invitations
  BY <1>22
<1>39. DOMAIN wire \subseteq DOMAIN wire' /\ shut \subseteq shut'
       /\ \A e \in shut' : e \in shut \/ (e[1] \in DOMAIN wire' /\ ~Intro(e[1]))
  BY <1>19, <1>25, <1>35
<1>40. /\ ctl'[Broker].inviter = ctl[Broker].inviter /\ ctl'[Broker].boot = ctl[Broker].boot
       /\ ctl'[Broker].broker = ctl[Broker].broker /\ \A a \in Guests : a \in Node
  BY <1>2, <1>22, Constants
<1>41. \A a, b \in Node : ctl'[a].queue[b] = ctl[a].queue[b] \/ ctl'[a].queue[b] = << >>
  BY <1>23
<1>42. /\ \A a \in Node : IsClient(ctl, a) => IsClient(ctl', a)
       /\ \A a \in Guests : IsClient(ctl', a) => IsClient(ctl, a)
       /\ \A a \in Node : ctl'[a].lost = ctl[a].lost
       /\ \A a \in Node : merge'[a] = merge[a]
  BY <1>19, <1>22, <1>24, <1>40
<1> HIDE DEF X
<1> QED BY <1>19, <1>20, <1>21, <1>34, <1>35, <1>36, <1>37, <1>38, <1>39, <1>40, <1>41, <1>42, Progress

\* The broker reads a request to take a guest as a client (OnAddBrokerClient).
LEMMA AddBrokerClientRead ==
  ASSUME Inv, Broker \in alive, NEW b \in Node, NEW c \in Open(b), OnAddBrokerClient(b, c)
  PROVE Inv'
<1>1. Receives(b, c, "AddBrokerClient") /\ alive' = alive /\ send' = send
  BY DEF OnAddBrokerClient
<1>2. b = Broker
  BY <1>1, AskForFacts
<1>3. PICK m \in Guests :
        /\ Inviter[m] \in Guests /\ Inviter[m] # Broker /\ c = Via(Inviter[m])
        /\ Head(wire[c][b]) = AskFor(m) /\ Head(wire[c][b]).name = m
        /\ RemoteName(b, c) = Inviter[m] /\ Peer(ctl, b, Inviter[m]) = c
        /\ IsClient(ctl, Inviter[m]) /\ OneOn(wire, c, Broker, AskFor(m))
        /\ Client(m) \notin DOMAIN wire /\ Invitation(m) \in DOMAIN wire
        /\ Invitation(m) \notin ctl[Inviter[m]].invitations
        /\ ctl[m].inviter # NoNode /\ ~IsClient(ctl, m) /\ Peer(ctl, Broker, m) = NoChannel
        /\ ~On(wire, Invitation(m), m, Hello(m)) /\ ~On(wire, Invitation(m), Inviter[m], Reply(m))
        /\ ~On(wire, Invitation(m), m, Welcome(m)) /\ ~On(wire, c, Inviter[m], Added(m))
  BY <1>1, AskForFacts
<1> DEFINE i == Inviter[m]
           q == Taken(b, c)
           s == NewChannel(q, Client(m), b, m)
           st == AddPeer(s, b, m, Client(m))
<1>4. Commit(IF ~Has(b, i) THEN q
             ELSE IF Has(b, m) THEN DropPeer(q, b, i, NoChannel)
             ELSE Post(st, b, ctl[b].peers[i], Added(m)))
  BY <1>3 DEF OnAddBrokerClient, Added
<1>5. c # NoChannel
  BY <1>3, InvitationFacts
<1>6. Has(b, i) /\ ~Has(b, m) /\ ctl[b].peers[i] = c
  BY <1>2, <1>3, <1>5, HasFacts
<1>7. Commit(Post(st, b, c, Added(m)))
  BY <1>4, <1>6
<1> HIDE DEF st, s, q
<1> QED BY <1>1, <1>2, <1>3, <1>7, AddBrokerClientStep DEF st, s, q

\* The inviter n of m has read that the broker takes m as a client.
LEMMA AddedFacts ==
  ASSUME Inv, Broker \in alive, NEW n \in Node, NEW c \in Open(n), Receives(n, c, "BrokerClientAdded")
  PROVE /\ n \in Guests /\ n \in alive /\ c = Via(n) /\ IsClient(ctl, n) /\ RemoteName(n, c) = Broker
        /\ BrokerChannel(n) = PeerChannel(ctl[n], Broker)
        /\ \E m \in Guests :
             /\ Inviter[m] = n /\ n # m /\ Head(wire[c][n]) = Added(m)
             /\ OneOn(wire, c, n, Added(m)) /\ Token(ctl, wire, shut, alive, m)
             /\ Client(m) \in DOMAIN wire /\ Invitation(m) \in DOMAIN wire
             /\ ~On(wire, Invitation(m), m, Hello(m)) /\ ~On(wire, Invitation(m), n, Reply(m))
             /\ ~On(wire, Invitation(m), m, Welcome(m)) /\ ~On(wire, c, Broker, AskFor(m))
             /\ Has(n, m) => ctl[n].peers[m] = Invitation(m)
<1>1. /\ On(wire, c, n, Head(wire[c][n])) /\ Fits(c, n, Head(wire[c][n]))
      /\ Head(wire[c][n]).type = "BrokerClientAdded"
  BY ReadFacts
<1>2. n \in Guests /\ c = Via(n) /\ \E m \in Guests : Head(wire[c][n]) = Added(m) /\ Inviter[m] = n
  BY <1>1, FitsType
<1>3. PICK m \in Guests : Head(wire[c][n]) = Added(m) /\ Inviter[m] = n
  BY <1>2
<1>4. /\ NameOK(ctl, wire, m) /\ StageOK(ctl, wire, shut, alive, m)
      /\ m \in Node /\ m # Broker /\ n # Broker /\ Broker \in Node
  BY <1>2, GuestFacts, Constants
<1>5. On(wire, Via(n), n, Added(m))
  BY <1>1, <1>2, <1>3
<1>6. /\ Token(ctl, wire, shut, alive, m) /\ ~On(wire, Invitation(m), m, Welcome(m))
      /\ IsClient(ctl, n) /\ OneOn(wire, c, n, Added(m))
  BY <1>2, <1>3, <1>4, <1>5 DEF StageOK
<1>7. /\ ~IsClient(ctl, m) /\ ctl[m].inviter # NoNode /\ Client(m) \in DOMAIN wire
      /\ Invitation(m) \notin ctl[n].invitations
  BY <1>3, <1>4, <1>6 DEF Token
<1>8. /\ ~On(wire, Invitation(m), m, Hello(m)) /\ ~On(wire, Invitation(m), n, Reply(m))
      /\ ~On(wire, c, Broker, AskFor(m)) /\ Invitation(m) \in DOMAIN wire
  BY <1>2, <1>3, <1>4, <1>7 DEF StageOK
<1>9. n # m /\ Inviter[n] # m
  BY <1>3, <1>4, <1>8 DEF NameOK
<1>10. Has(n, m) => ctl[n].peers[m] = Invitation(m)
  <2>1. PeerOK(ctl, wire, n, m)
    BY <1>4 DEF Inv, PeersOK
  <2>2. Peer(ctl, n, m) # NoChannel => Peer(ctl, n, m) = Invitation(m)
    BY <1>3, <1>4, <1>7, <1>9, <2>1 DEF PeerOK
  <2> QED BY <2>2, HasFacts
<1>11. n \in alive
  BY OpenFacts
<1>12. RemoteName(n, c) = Broker /\ BrokerChannel(n) = PeerChannel(ctl[n], Broker)
  BY <1>2, <1>6, <1>11, RemoteVia, ClientFacts DEF Peer
<1> QED BY <1>2, <1>3, <1>6, <1>7, <1>8, <1>9, <1>10, <1>11, <1>12

\* The inviter hands the end of the channel on to m, or closes it.
LEMMA ClientAddedStep ==
  ASSUME Inv, Broker \in alive, NEW n \in Guests, NEW c \in Open(n),
         Receives(n, c, "BrokerClientAdded"), c = Via(n), NEW m \in Guests, Inviter[m] = n, n # m,
         Head(wire[c][n]) = Added(m), OneOn(wire, c, n, Added(m)),
         Token(ctl, wire, shut, alive, m), Client(m) \in DOMAIN wire, Invitation(m) \in DOMAIN wire,
         ~On(wire, Invitation(m), m, Hello(m)), ~On(wire, Invitation(m), n, Reply(m)),
         ~On(wire, Invitation(m), m, Welcome(m)), ~On(wire, c, Broker, AskFor(m)),
         NEW q, q = Taken(n, c), NEW r, Handler(r), Commit(r), alive' = alive, send' = send,
         r.ctl = ctl, r.merge = merge, DOMAIN r.wire = DOMAIN wire,
         Moves(q.wire, r.wire, {<<Invitation(m), m, Welcome(m)>>}), Calm(q.wire, r.wire),
         \A a, b, y : On(q.wire, a, b, y) => On(r.wire, a, b, y),
         r.shut = shut \/ (r.wire = q.wire /\ r.shut = shut \cup {<<Client(m), m>>})
  PROVE Inv'
<1> DEFINE d == Client(m)
           z == Added(m)
           e == Invitation(m)
           x == Welcome(m)
           X == {<<e, m, x>>}
<1>1. /\ Handler(q) /\ Takes(wire, q.wire, c, n)
      /\ DOMAIN q.wire = DOMAIN wire /\ Queue(wire, c, n) # << >> /\ Head(Queue(wire, c, n)) = z
  BY ReadFacts, Constants
<1>2. /\ NameOK(ctl, wire, m) /\ LinkOK(ctl, wire, shut, alive, m)
      /\ m \in Node /\ m # Broker /\ Broker \in Node /\ n \in Node /\ n # Broker
  BY GuestFacts, Constants
<1>3. /\ ctl[m].inviter # NoNode /\ ~IsClient(ctl, m) /\ e \notin ctl[n].invitations
  BY <1>2 DEF Token
<1>4. WireType(wire) /\ alive \subseteq Node /\ send \in [Talks -> Sending]
  BY TypedFacts DEF Inv
<1>5. z.type = "BrokerClientAdded"
  BY MessageKinds
<1>7. x.type = "AcceptBrokerClient"
  BY MessageKinds
<1>8. z \notin Events /\ x \notin Events
  BY NotEvents
<1>10. Moves(wire, q.wire, {}) /\ Calm(wire, q.wire) /\ Keeps(wire, q.wire, c, n)
       /\ ~On(q.wire, c, n, z)
  <2>1. \A y : ~IntroMsg(z, y)
    BY <1>5 DEF IntroMsg
  <2> HIDE DEF z
  <2> QED BY <1>1, <1>4, <2>1, MovesTake DEF z
<1> HIDE DEF x, z
<1>19. /\ Typed' /\ ctl' = ctl /\ wire' = r.wire /\ merge' = merge /\ shut' = r.shut
       /\ DOMAIN wire' = DOMAIN wire
  BY <1>4, Committed
<1>20. Moves(wire, wire', X) /\ Calm(wire, wire') /\ Moves(q.wire, wire', X)
  <2>1. {} \cap X = {} /\ {} \cup X = X
    OBVIOUS
  <2>2. Moves(q.wire, wire', X)
    BY <1>19 DEF x
  <2> HIDE DEF X
  <2>4. Moves(wire, wire', X)
    BY <1>10, <2>1, <2>2, MovesMore
  <2>6. Calm(wire, wire')
    BY <1>10, <1>19, CalmMore
  <2> QED BY <2>2, <2>4, <2>6
<1>21. Holds(wire, wire', alive)
  BY <1>1, <1>5, <1>10, <1>19 DEF Holds, Keeps
<1>25. shut \subseteq shut' /\ \A s \in shut' : s \in shut \/ s = <<d, m>>
  BY <1>19
<1>26. \A k : k # m => Client(k) # d /\ Invitation(k) # e
  BY ChannelsDiffer
<1>27. ASSUME NEW k \in Guests, k # m
       PROVE Still(ctl, ctl', wire, wire', shut, shut', alive', X, k)
  <2>4. Invitation(k) # d /\ Client(k) # d /\ Invitation(k) # e
    BY <1>26, <1>27, ChannelsDiffer
  <2>6. AskFor(k).type = "AddBrokerClient" /\ Added(k).type = "BrokerClientAdded"
    BY MessageKinds
  <2>8. /\ \A b, y : <<Invitation(k), b, y>> \notin X
        /\ \A a, b : <<a, b, AskFor(k)>> \notin X /\ <<a, b, Added(k)>> \notin X
    BY <1>7, <2>4, <2>6
  <2> HIDE DEF X, d
  <2>9. /\ \A b : <<Invitation(k), b>> \in shut' => <<Invitation(k), b>> \in shut
        /\ \A b : <<Client(k), b>> \in shut' => <<Client(k), b>> \in shut
        /\ \A s : s \in shut => s \in shut'
    BY <1>25, <2>4
  <2> QED BY <1>19, <2>8, <2>9 DEF Still
<1>28. NameOK(ctl', wire', m)
  BY <1>2, <1>19 DEF NameOK
<1>30. /\ ~On(wire', e, m, Hello(m)) /\ OneOn(wire', e, m, Hello(m))
       /\ ~On(wire', e, n, Reply(m)) /\ OneOn(wire', e, n, Reply(m))
       /\ ~On(wire', c, Broker, AskFor(m)) /\ OneOn(wire', c, Broker, AskFor(m))
       /\ ~On(wire', c, n, z) /\ OneOn(wire', c, n, z) /\ OneOn(wire', e, m, x)
  <2>1. Hello(m).type = "AcceptInvitee" /\ Reply(m).type = "AcceptInvitation"
    BY MessageKinds
  <2>2. AskFor(m).type = "AddBrokerClient"
    BY MessageKinds
  <2>3. \A a, b : /\ <<a, b, Hello(m)>> \notin X /\ <<a, b, Reply(m)>> \notin X
                  /\ <<a, b, AskFor(m)>> \notin X /\ <<a, b, z>> \notin X
    BY <1>5, <1>7, <2>1, <2>2
  <2>4. Hello(m) \notin Events /\ Reply(m) \notin Events /\ AskFor(m) \notin Events
    BY NotEvents
  <2>5. OneOn(wire, e, m, x) /\ ~On(wire, e, m, x)
    BY NotOnOne DEF x
  <2> HIDE DEF X
  <2>6. ~On(wire', e, m, Hello(m)) /\ ~On(wire', e, n, Reply(m))
        /\ ~On(wire', c, Broker, AskFor(m))
    BY <1>20, <2>3, <2>4 DEF Moves
  <2>7. ~On(wire', c, n, z)
    BY <1>8, <1>10, <1>20, <2>3 DEF Moves
  <2>8. OneOn(wire', e, m, x)
    BY <1>8, <1>20, <2>5 DEF Moves
  <2> QED BY <2>6, <2>7, <2>8, NotOnOne
<1>31. ASSUME On(wire', e, m, x) PROVE Token(ctl', wire', shut', alive', m)
  <2>1. shut' = shut
    <3>1. SUFFICES ASSUME wire' = q.wire PROVE FALSE
      BY <1>19
    <3>2. On(wire, e, m, x)
      BY <1>8, <1>10, <1>31, <3>1 DEF Moves
    <3> QED BY <3>2 DEF x
  <2> QED BY <1>2, <1>19, <2>1 DEF Token
<1>32. StageOK(ctl', wire', shut', alive', m)
  BY <1>2, <1>3, <1>19, <1>30, <1>31 DEF StageOK, z, x
<1>33. LinkOK(ctl', wire', shut', alive', m)
  <2>1. e # d
    BY ChannelsDiffer
  <2>2. <<e, n>> \in shut' => <<e, n>> \in shut
    BY <1>25, <2>1
  <2>3. <<e, m>> \in shut' => <<e, m>> \in shut
    BY <1>25, <2>1
  <2> QED BY <1>2, <1>3, <1>19, <2>2, <2>3 DEF LinkOK
<1>34. \A k \in Guests : \/ Still(ctl, ctl', wire, wire', shut, shut', alive', X, k)
                         \/ /\ NameOK(ctl', wire', k) /\ StageOK(ctl', wire', shut', alive', k)
                            /\ LinkOK(ctl', wire', shut', alive', k)
  BY <1>27, <1>28, <1>32, <1>33
<1>35. PeersBut(ctl, ctl', wire') /\ ~Intro(d)
  BY <1>19, BetweenFacts DEF Intro, PeersBut
<1>36. Numbered(wire')
  BY <1>19, NumberedSame DEF Inv
<1>37. \A a, b, y : <<a, b, y>> \in X => Fits(a, b, y) /\ y.type \notin IntroTypes
  <2>1. Fits(e, m, x)
    BY DEF Fits, x
  <2> QED BY <1>7, <2>1 DEF IntroTypes
<1>39. DOMAIN wire \subseteq DOMAIN wire' /\ shut \subseteq shut'
       /\ \A s \in shut' : s \in shut \/ (s[1] \in DOMAIN wire' /\ ~Intro(s[1]))
  BY <1>19, <1>25, <1>35
<1> HIDE DEF X
<1> QED BY <1>19, <1>20, <1>21, <1>34, <1>35, <1>36, <1>37, <1>39, Progress

\* The message with the handle m carries is lost.
LEMMA LoseOne ==
  ASSUME NEW st, Handler(st), NEW x, x.ch \in Chan, x.for \in Node
  PROVE LET r == LoseHandles(st, {x})
        IN /\ Handler(r) /\ r.ctl = st.ctl /\ r.wire = st.wire /\ r.merge = st.merge
           /\ r.shut = st.shut \cup {<<x.ch, x.for>>}
<1> DEFINE H == {<<m.ch, m.for>> : m \in {y \in {x} : y.ch # NoChannel}}
           r == LoseHandles(st, {x})
<1>1. H = {<<x.ch, x.for>>}
  BY NoChannelIsNone
<1>2. r = [st EXCEPT !.shut = st.shut \cup H]
  BY DEF LoseHandles
<1> HIDE DEF H, r
<1>3. /\ r = [ctl |-> st.ctl, wire |-> st.wire, shut |-> st.shut \cup H, merge |-> st.merge]
  BY <1>2 DEF Handler
<1>4. r.ctl = st.ctl /\ r.wire = st.wire /\ r.merge = st.merge /\ r.shut = st.shut \cup {<<x.ch, x.for>>}
  BY <1>1, <1>3
<1>5. r.shut \subseteq Chan \X Node
  BY <1>4 DEF Handler
<1>6. Handler(r)
  BY <1>3, <1>4, <1>5 DEF Handler
<1> QED BY <1>4, <1>6 DEF r

\* The inviter reads the broker's answer (OnBrokerClientAdded).
LEMMA BrokerClientAddedRead ==
  ASSUME Inv, Broker \in alive, NEW n \in Node, NEW c \in Open(n), OnBrokerClientAdded(n, c)
  PROVE Inv'
<1> DEFINE q == Taken(n, c)
<1>1. Receives(n, c, "BrokerClientAdded") /\ alive' = alive /\ send' = send
  BY DEF OnBrokerClientAdded
<1>2. /\ n \in Guests /\ n \in alive /\ c = Via(n) /\ IsClient(ctl, n) /\ RemoteName(n, c) = Broker
      /\ BrokerChannel(n) = PeerChannel(ctl[n], Broker)
  BY <1>1, AddedFacts
<1>3. PICK m \in Guests :
        /\ Inviter[m] = n /\ n # m /\ Head(wire[c][n]) = Added(m)
        /\ OneOn(wire, c, n, Added(m)) /\ Token(ctl, wire, shut, alive, m)
        /\ Client(m) \in DOMAIN wire /\ Invitation(m) \in DOMAIN wire
        /\ ~On(wire, Invitation(m), m, Hello(m)) /\ ~On(wire, Invitation(m), n, Reply(m))
        /\ ~On(wire, Invitation(m), m, Welcome(m)) /\ ~On(wire, c, Broker, AskFor(m))
        /\ Has(n, m) => ctl[n].peers[m] = Invitation(m)
  BY <1>1, AddedFacts
<1> DEFINE x == Welcome(m)
           e == Invitation(m)
<1>4. m \in Node /\ n # Broker /\ Ends(e) = {n, m} /\ Client(m) \in Chan
  BY <1>2, <1>3, Constants, InvitationFacts
<1>5. Added(m).name = m /\ Added(m).ch = Client(m) /\ Added(m).for = m
  BY MessageFields
<1>6. x = Carry("AcceptBrokerClient", Broker, Client(m), m)
  BY <1>3, <1>4 DEF Welcome
<1>7. Commit(IF Has(n, m) THEN Post(q, n, e, x) ELSE LoseHandles(q, {Added(m)}))
  <2>1. Commit(IF Has(n, m) /\ BrokerChannel(n) = PeerChannel(ctl[n], Broker)
               THEN Post(q, n, ctl[n].peers[m], Carry("AcceptBrokerClient", Broker, Client(m), m))
               ELSE LoseHandles(q, {Added(m)}))
    BY <1>2, <1>3, <1>5 DEF OnBrokerClientAdded
  <2> QED BY <1>2, <1>3, <1>6, <2>1
<1>8. Handler(q) /\ q.ctl = ctl /\ q.merge = merge /\ q.shut = shut /\ DOMAIN q.wire = DOMAIN wire
  BY <1>1, ReadFacts
<1>9. x.ch = Client(m) /\ x.for = m /\ x.type = "AcceptBrokerClient"
  BY <1>6 DEF Carry
<1>10. x \in Message
  BY MessageTypes
<1>11. \A y : ~IntroMsg(x, y)
  BY <1>9 DEF IntroMsg
<1> DEFINE X == {<<e, m, x>>}
<1>12. CASE Has(n, m)
  <2> DEFINE r == Post(q, n, e, x)
  <2>1. Commit(r)
    BY <1>7, <1>12
  <2>0. e \in DOMAIN q.wire /\ x.for \in Node /\ x.ch \in Chan
    BY <1>3, <1>4, <1>8, <1>9
  <2> HIDE DEF q, x, e
  <2>2. Handed(q, r, n, e, m, x)
    BY <1>3, <1>4, <1>8, <1>10, <2>0, PostCarry
  <2> HIDE DEF r
  <2>3. /\ Handler(r) /\ r.ctl = ctl /\ r.merge = merge /\ DOMAIN r.wire = DOMAIN wire
        /\ \A a, b, y : On(q.wire, a, b, y) => On(r.wire, a, b, y)
        /\ Up(q, e, n, m) => r.shut = shut /\ Moves(q.wire, r.wire, X)
        /\ ~Up(q, e, n, m) => r.wire = q.wire /\ r.shut = shut \cup {<<Client(m), m>>}
    BY <1>8, <1>9, <2>2 DEF Handed
  <2>4. Calm(q.wire, r.wire)
    BY <1>11, <2>2 DEF Handed
  <2>5. Moves(q.wire, r.wire, X)
    <3>1. CASE ~Up(q, e, n, m)
      BY <2>3, <3>1 DEF Moves
    <3> QED BY <2>3, <3>1
  <2>6. X = {<<Invitation(m), m, Welcome(m)>>}
    BY DEF x, e
  <2> HIDE DEF X
  <2> QED BY <1>1, <1>2, <1>3, <2>1, <2>3, <2>4, <2>5, <2>6, ClientAddedStep DEF q
<1>13. CASE ~Has(n, m)
  <2> DEFINE r == LoseHandles(q, {Added(m)})
  <2>1. Commit(r)
    BY <1>7, <1>13
  <2> HIDE DEF q
  <2>2. /\ Handler(r) /\ r.ctl = ctl /\ r.merge = merge /\ r.wire = q.wire
        /\ r.shut = shut \cup {<<Client(m), m>>}
    BY <1>4, <1>5, <1>8, LoseOne
  <2> HIDE DEF r
  <2>3. Moves(q.wire, r.wire, {<<Invitation(m), m, Welcome(m)>>}) /\ Calm(q.wire, r.wire)
    BY <2>2, MovesNone DEF Moves
  <2>4. DOMAIN r.wire = DOMAIN wire /\ \A a, b, y : On(q.wire, a, b, y) => On(r.wire, a, b, y)
    BY <1>8, <2>2
  <2> QED BY <1>1, <1>2, <1>3, <2>1, <2>2, <2>3, <2>4, ClientAddedStep DEF q
<1> QED BY <1>12, <1>13

\* The controller of m when it has learnt that it is a client of the broker.
PutBroker(st, m) ==
  [st EXCEPT !.ctl[m].boot = NoChannel, !.ctl[m].broker = Broker, !.ctl[m].clients = << >>]
AsClient(t) == [t EXCEPT !.boot = NoChannel, !.broker = Broker, !.clients = << >>]

\* A write of the broker's name, spelled out.
LEMMA PutBrokerIs ==
  ASSUME NEW st, st = [ctl |-> st.ctl, wire |-> st.wire, shut |-> st.shut, merge |-> st.merge],
         st.ctl \in [Node -> Controller], NEW m \in Node
  PROVE PutBroker(st, m) =
          [ctl |-> [st.ctl EXCEPT ![m] = AsClient(st.ctl[m])],
           wire |-> st.wire, shut |-> st.shut, merge |-> st.merge]
<1> DEFINE t == st.ctl[m]
           a1 == [st EXCEPT !.ctl[m].boot = NoChannel]
           a2 == [a1 EXCEPT !.ctl[m].broker = Broker]
           a3 == [a2 EXCEPT !.ctl[m].clients = << >>]
           t1 == [t EXCEPT !.boot = NoChannel]
           t2 == [t1 EXCEPT !.broker = Broker]
           t3 == [t2 EXCEPT !.clients = << >>]
<1>1. a3 = PutBroker(st, m)
  BY DEF PutBroker
<1>2. t3 = AsClient(st.ctl[m])
  BY DEF AsClient
<1>3. a1 = [ctl |-> [st.ctl EXCEPT ![m] = t1], wire |-> st.wire, shut |-> st.shut, merge |-> st.merge]
  OBVIOUS
<1> HIDE DEF a1, t1
<1>4. a2 = [ctl |-> [st.ctl EXCEPT ![m] = t2], wire |-> st.wire, shut |-> st.shut, merge |-> st.merge]
  BY <1>3
<1> HIDE DEF a2, t2
<1>5. a3 = [ctl |-> [st.ctl EXCEPT ![m] = t3], wire |-> st.wire, shut |-> st.shut, merge |-> st.merge]
  BY <1>4
<1> QED BY <1>1, <1>2, <1>5

\* What becoming a client does to one controller.
LEMMA AsClientFacts ==
  ASSUME NEW t \in Controller
  PROVE LET u == AsClient(t)
        IN /\ u \in Controller /\ u.inviter = t.inviter /\ u.invitations = t.invitations
           /\ u.lost = t.lost /\ u.queue = t.queue /\ u.peers = t.peers
           /\ u.boot = NoChannel /\ u.broker = Broker
<1> DEFINE u == AsClient(t)
<1>1. Broker \in Names /\ NoChannel \in Chan \cup {NoChannel} /\ << >> \in Seq(Node)
  BY Constants DEF Names
<1>2. u = [t EXCEPT !.boot = NoChannel, !.broker = Broker, !.clients = << >>]
  BY DEF AsClient
<1>3. PICK q : q = << >>
  OBVIOUS
<1>4. q \in Seq(Node) /\ u = [t EXCEPT !.boot = NoChannel, !.broker = Broker, !.clients = q]
  BY <1>1, <1>2, <1>3
<1>5. PICK b : b = NoChannel
  OBVIOUS
<1>6. b \in Chan \cup {NoChannel} /\ u = [t EXCEPT !.boot = b, !.broker = Broker, !.clients = q]
  BY <1>1, <1>4, <1>5
<1> HIDE DEF u
<1>7. /\ u \in Controller /\ u.inviter = t.inviter /\ u.invitations = t.invitations
      /\ u.lost = t.lost /\ u.queue = t.queue /\ u.peers = t.peers
      /\ u.boot = b /\ u.broker = Broker
  BY <1>1, <1>4, <1>6 DEF Controller
<1> QED BY <1>5, <1>7 DEF u

\* Process m has become a client: it knows the broker and its inviter, through P.
ClientPut(C, D, m) ==
  /\ \A a \in Node : /\ D[a].inviter = C[a].inviter /\ D[a].invitations = C[a].invitations
                     /\ D[a].lost = C[a].lost
                     /\ a # m => D[a].boot = C[a].boot /\ D[a].broker = C[a].broker
  /\ D[m].boot = NoChannel /\ D[m].broker = Broker

BrokerPut(st, r, m) ==
  /\ Handler(r) /\ r.wire = st.wire /\ r.shut = st.shut /\ r.merge = st.merge
  /\ ClientPut(st.ctl, r.ctl, m) /\ SameWaits(st.ctl, r.ctl)
  /\ \A x, y \in Node : Peer(r.ctl, x, y) = Peer(st.ctl, x, y)

\* What a write of the broker's name does.
LEMMA PutBrokerFacts ==
  ASSUME NEW st, Handler(st), NEW m \in Node
  PROVE BrokerPut(st, PutBroker(st, m), m)
<1> DEFINE v == AsClient(st.ctl[m])
           D == [st.ctl EXCEPT ![m] = v]
           r == PutBroker(st, m)
<1>1. st.ctl \in [Node -> Controller] /\ st.ctl[m] \in Controller
  BY DEF Handler
<1>2. r = [ctl |-> D, wire |-> st.wire, shut |-> st.shut, merge |-> st.merge]
  BY <1>1, PutBrokerIs DEF Handler
<1>3. /\ v \in Controller /\ v.inviter = st.ctl[m].inviter /\ v.invitations = st.ctl[m].invitations
      /\ v.lost = st.ctl[m].lost /\ v.queue = st.ctl[m].queue /\ v.peers = st.ctl[m].peers
      /\ v.boot = NoChannel /\ v.broker = Broker
  BY <1>1, AsClientFacts
<1> HIDE DEF v
<1>4. D \in [Node -> Controller] /\ D[m] = v /\ \A x \in Node : x # m => D[x] = st.ctl[x]
  BY <1>1, <1>3
<1> HIDE DEF D, r
<1>5. Handler(r) /\ r.ctl = D /\ r.wire = st.wire /\ r.shut = st.shut /\ r.merge = st.merge
  BY <1>2, <1>4 DEF Handler
<1>6. \A x \in Node : /\ D[x].queue = st.ctl[x].queue /\ D[x].peers = st.ctl[x].peers
                      /\ D[x].inviter = st.ctl[x].inviter /\ D[x].invitations = st.ctl[x].invitations
                      /\ D[x].lost = st.ctl[x].lost
  BY <1>3, <1>4
<1>7. ClientPut(st.ctl, D, m)
  BY <1>3, <1>4, <1>6 DEF ClientPut
<1>8. SameWaits(st.ctl, D) /\ \A x, y \in Node : Peer(D, x, y) = Peer(st.ctl, x, y)
  BY <1>6 DEF Peer, PeerChannel, SameWaits
<1> QED BY <1>5, <1>7, <1>8 DEF r, BrokerPut

\* What m does first when it hears that it is a client.
Known(q, m) == IF Broker = Inviter[m] THEN PutBroker(q, m)
               ELSE AddPeer(PutBroker(q, m), m, Broker, Client(m))
KnownBoth(q, m) == AddPeer(Known(q, m), m, Inviter[m], Invitation(m))

\* The peers of m then, and what no longer waits.
PeersPut(C, D, m) ==
  /\ \A a, b \in Node : ~(a = m /\ b \in {Broker, Inviter[m]}) =>
       Peer(D, a, b) = Peer(C, a, b) /\ D[a].queue[b] = C[a].queue[b]
  /\ Peer(D, m, Broker) = Via(m) /\ D[m].queue[Broker] = << >>
  /\ Peer(D, m, Inviter[m]) = Invitation(m) /\ D[m].queue[Inviter[m]] = << >>

WelcomePut(q, r, m) ==
  /\ Handler(r) /\ r.merge = q.merge /\ r.shut = q.shut /\ DOMAIN r.wire = DOMAIN q.wire
  /\ Moves(q.wire, r.wire, {}) /\ Calm(q.wire, r.wire)
  /\ \A a, b, y : On(q.wire, a, b, y) => On(r.wire, a, b, y)
  /\ ClientPut(q.ctl, r.ctl, m) /\ PeersPut(q.ctl, r.ctl, m)

\* One peer more for a client.
OnePut(C, D, E, m, k, c) ==
  /\ ClientPut(C, E, m)
  /\ \A a, b \in Node : ~(a = m /\ b = k) =>
       Peer(E, a, b) = Peer(D, a, b) /\ E[a].queue[b] = D[a].queue[b]
  /\ Peer(E, m, k) = c /\ E[m].queue[k] = << >>

\* A new client that learns of one peer.
LEMMA ClientJoins ==
  ASSUME NEW C, NEW s, NEW r, NEW m \in Node, NEW k \in Node, NEW c, ClientPut(C, s.ctl, m),
         Joined(s, r, m, k, c)
  PROVE OnePut(C, s.ctl, r.ctl, m, k, c)
<1>1. InviteePut(s.ctl, r.ctl, m, k, c, s.ctl[m].invitations)
  BY JoinedFacts
<1>2. \A a \in Node : /\ r.ctl[a].inviter = s.ctl[a].inviter /\ r.ctl[a].boot = s.ctl[a].boot
                      /\ r.ctl[a].broker = s.ctl[a].broker /\ r.ctl[a].lost = s.ctl[a].lost
                      /\ r.ctl[a].invitations = s.ctl[a].invitations
  BY <1>1 DEF InviteePut
<1>3. ClientPut(C, r.ctl, m)
  BY <1>2 DEF ClientPut
<1>4. \A a, b \in Node : ~(a = m /\ b = k) =>
             Peer(r.ctl, a, b) = Peer(s.ctl, a, b) /\ r.ctl[a].queue[b] = s.ctl[a].queue[b]
  BY <1>1 DEF InviteePut
<1>5. Peer(r.ctl, m, k) = c
  BY <1>1 DEF InviteePut
<1>6. r.ctl[m].queue[k] = << >>
  BY <1>1 DEF InviteePut
<1> QED BY <1>3, <1>4, <1>5, <1>6 DEF OnePut

\* A new client that learns of the broker and of its inviter.
LEMMA KnownBothFacts ==
  ASSUME NEW q, Handler(q), NEW m \in Guests, Inviter[m] # m, Invitation(m) \in DOMAIN q.wire,
         Via(m) \in DOMAIN q.wire, Peer(q.ctl, m, Broker) = NoChannel,
         Peer(q.ctl, m, Inviter[m]) = NoChannel
  PROVE WelcomePut(q, KnownBoth(q, m), m)
<1> DEFINE i == Inviter[m]
           c == Invitation(m)
           d == Client(m)
           s == PutBroker(q, m)
           k == Known(q, m)
           r == KnownBoth(q, m)
<1>1. /\ m \in Node /\ i \in Node /\ Broker \in Node /\ m # Broker
      /\ Ends(c) = {m, i} /\ Ends(d) = {m, Broker}
  BY Constants, InvitationFacts
<1>2. BrokerPut(q, s, m)
  BY <1>1, PutBrokerFacts
<1>3. k = IF Broker = i THEN s ELSE AddPeer(s, m, Broker, d)
  BY DEF Known
<1>4. r = AddPeer(k, m, i, c)
  BY DEF KnownBoth
<1>5. Via(m) = IF Broker = i THEN c ELSE d
  BY DEF Via
<1> HIDE DEF s, k, r
<1>6. /\ Handler(s) /\ s.wire = q.wire /\ s.shut = q.shut /\ s.merge = q.merge
      /\ ClientPut(q.ctl, s.ctl, m) /\ SameWaits(q.ctl, s.ctl)
      /\ \A x, y \in Node : Peer(s.ctl, x, y) = Peer(q.ctl, x, y)
  BY <1>2 DEF BrokerPut
<1>7. CASE Broker = i
  <2>1. k = s /\ c \in DOMAIN s.wire /\ Peer(s.ctl, m, i) = NoChannel
    BY <1>1, <1>3, <1>6, <1>7
  <2>2. Joined(s, r, m, i, c)
    BY <1>1, <1>4, <1>6, <2>1, JoinFacts
  <2>3. /\ Handler(r) /\ r.merge = q.merge /\ r.shut = q.shut /\ DOMAIN r.wire = DOMAIN q.wire
        /\ Moves(q.wire, r.wire, {}) /\ Calm(q.wire, r.wire)
        /\ \A a, b, y : On(q.wire, a, b, y) => On(r.wire, a, b, y)
    BY <1>6, <2>2 DEF Joined
  <2>4. /\ ClientPut(q.ctl, r.ctl, m)
        /\ \A a, b \in Node : ~(a = m /\ b = i) =>
             Peer(r.ctl, a, b) = Peer(s.ctl, a, b) /\ r.ctl[a].queue[b] = s.ctl[a].queue[b]
        /\ Peer(r.ctl, m, i) = c /\ r.ctl[m].queue[i] = << >>
    <3>1. OnePut(q.ctl, s.ctl, r.ctl, m, i, c)
      BY <1>1, <1>6, <2>2, ClientJoins
    <3> QED BY <3>1 DEF OnePut
  <2>5. PeersPut(q.ctl, r.ctl, m)
    BY <1>5, <1>6, <1>7, <2>4 DEF PeersPut, SameWaits
  <2> QED BY <2>3, <2>4, <2>5 DEF WelcomePut, r
<1>8. CASE Broker # i
  <2>1. k = AddPeer(s, m, Broker, d) /\ d \in DOMAIN s.wire /\ Peer(s.ctl, m, Broker) = NoChannel
    BY <1>1, <1>3, <1>5, <1>6, <1>8
  <2>2. Joined(s, k, m, Broker, d)
    BY <1>1, <1>6, <2>1, JoinFacts
  <2>3. /\ Handler(k) /\ k.merge = q.merge /\ k.shut = q.shut /\ DOMAIN k.wire = DOMAIN q.wire
        /\ Moves(q.wire, k.wire, {}) /\ Calm(q.wire, k.wire)
        /\ \A a, b, y : On(q.wire, a, b, y) => On(k.wire, a, b, y)
    BY <1>6, <2>2 DEF Joined
  <2>4. /\ ClientPut(q.ctl, k.ctl, m)
        /\ \A a, b \in Node : ~(a = m /\ b = Broker) =>
             Peer(k.ctl, a, b) = Peer(s.ctl, a, b) /\ k.ctl[a].queue[b] = s.ctl[a].queue[b]
        /\ Peer(k.ctl, m, Broker) = d /\ k.ctl[m].queue[Broker] = << >>
    <3>1. OnePut(q.ctl, s.ctl, k.ctl, m, Broker, d)
      BY <1>1, <1>6, <2>2, ClientJoins
    <3> QED BY <3>1 DEF OnePut
  <2>5. Peer(k.ctl, m, i) = NoChannel /\ c \in DOMAIN k.wire
    BY <1>1, <1>6, <1>8, <2>3, <2>4
  <2>6. Joined(k, r, m, i, c)
    BY <1>1, <1>4, <2>3, <2>5, JoinFacts
  <2>7. /\ Handler(r) /\ r.merge = q.merge /\ r.shut = q.shut /\ DOMAIN r.wire = DOMAIN q.wire
        /\ Moves(k.wire, r.wire, {}) /\ Calm(k.wire, r.wire)
        /\ \A a, b, y : On(k.wire, a, b, y) => On(r.wire, a, b, y)
    BY <2>3, <2>6 DEF Joined
  <2>8. /\ ClientPut(q.ctl, r.ctl, m)
        /\ \A a, b \in Node : ~(a = m /\ b = i) =>
             Peer(r.ctl, a, b) = Peer(k.ctl, a, b) /\ r.ctl[a].queue[b] = k.ctl[a].queue[b]
        /\ Peer(r.ctl, m, i) = c /\ r.ctl[m].queue[i] = << >>
    <3>1. OnePut(q.ctl, k.ctl, r.ctl, m, i, c)
      BY <1>1, <2>4, <2>6, ClientJoins
    <3> QED BY <3>1 DEF OnePut
  <2>9. {} \cap {} = {} /\ {} \cup {} = {}
    OBVIOUS
  <2>10. Moves(q.wire, r.wire, {}) /\ Calm(q.wire, r.wire)
         /\ \A a, b, y : On(q.wire, a, b, y) => On(r.wire, a, b, y)
    BY <2>3, <2>7, <2>9, MovesMore, CalmMore
  <2>11. /\ Peer(r.ctl, m, Broker) = d /\ r.ctl[m].queue[Broker] = << >>
    BY <1>1, <1>8, <2>4, <2>8
  <2>12. \A a, b \in Node : ~(a = m /\ b \in {Broker, i}) =>
           Peer(r.ctl, a, b) = Peer(q.ctl, a, b) /\ r.ctl[a].queue[b] = q.ctl[a].queue[b]
    BY <1>6, <2>4, <2>8 DEF SameWaits
  <2>13. PeersPut(q.ctl, r.ctl, m)
    BY <1>5, <1>8, <2>8, <2>11, <2>12 DEF PeersPut
  <2> QED BY <2>7, <2>8, <2>10, <2>13 DEF WelcomePut, r
<1> QED BY <1>7, <1>8

\* Process m has read that it is a client of the broker.
LEMMA WelcomeFacts ==
  ASSUME Inv, NEW m \in Node, NEW c \in Open(m), Receives(m, c, "AcceptBrokerClient")
  PROVE /\ m \in Guests /\ c = Invitation(m) /\ Head(wire[c][m]) = Welcome(m) /\ m \in alive
        /\ OneOn(wire, c, m, Welcome(m)) /\ Token(ctl, wire, shut, alive, m)
        /\ ~IsClient(ctl, m) /\ Inviter[m] # m /\ ctl[m].inviter = Inviter[m] /\ ctl[m].boot = c
        /\ c \in DOMAIN wire /\ Via(m) \in DOMAIN wire /\ c \notin ctl[Inviter[m]].invitations
        /\ Peer(ctl, m, Broker) = NoChannel /\ Peer(ctl, m, Inviter[m]) = NoChannel
        /\ ~On(wire, c, m, Hello(m)) /\ ~On(wire, c, Inviter[m], Reply(m))
        /\ Inviter[m] # Broker => /\ ~On(wire, Via(Inviter[m]), Broker, AskFor(m))
                                  /\ ~On(wire, Via(Inviter[m]), Inviter[m], Added(m))
<1> DEFINE i == Inviter[m]
<1>1. /\ On(wire, c, m, Head(wire[c][m])) /\ Fits(c, m, Head(wire[c][m]))
      /\ Head(wire[c][m]).type = "AcceptBrokerClient"
  BY ReadFacts
<1>2. m \in Guests /\ c = Invitation(m) /\ Head(wire[c][m]) = Welcome(m)
  BY <1>1, FitsType
<1>3. m \in alive /\ c \in DOMAIN wire
  BY OpenFacts
<1>4. /\ NameOK(ctl, wire, m) /\ StageOK(ctl, wire, shut, alive, m)
      /\ m # Broker /\ Broker \in Node /\ i \in Node /\ NoNode \notin Node
  BY <1>2, GuestFacts, Constants
<1>5. On(wire, c, m, Welcome(m))
  BY <1>1, <1>2
<1>6. Token(ctl, wire, shut, alive, m) /\ OneOn(wire, c, m, Welcome(m))
  BY <1>2, <1>4, <1>5 DEF StageOK
<1>7. /\ ~IsClient(ctl, m) /\ ctl[m].inviter # NoNode /\ c \notin ctl[i].invitations
      /\ i # Broker => Client(m) \in DOMAIN wire
  BY <1>2, <1>6 DEF Token
<1>8. /\ ~On(wire, c, m, Hello(m)) /\ ~On(wire, c, i, Reply(m))
      /\ i # Broker => /\ ~On(wire, Via(i), Broker, AskFor(m))
                       /\ ~On(wire, Via(i), i, Added(m))
  BY <1>2, <1>4, <1>5, <1>7 DEF StageOK
<1>9. /\ i # m /\ ctl[m].inviter = i /\ ctl[m].boot = c
      /\ i # Broker => Inviter[i] # m
  BY <1>2, <1>3, <1>4, <1>7 DEF NameOK, IsClient
<1>10. Via(m) \in DOMAIN wire
  BY <1>2, <1>3, <1>7 DEF Via
<1>11. Peer(ctl, m, Broker) = NoChannel
  <2>1. PeerOK(ctl, wire, m, Broker)
    BY <1>4 DEF Inv, PeersOK
  <2> QED BY <1>4, <1>7, <2>1 DEF PeerOK
<1>12. Peer(ctl, m, i) = NoChannel
  <2>1. PeerOK(ctl, wire, m, i)
    BY <1>4 DEF Inv, PeersOK
  <2> QED BY <1>4, <1>7, <1>9, <2>1 DEF PeerOK
<1> QED BY <1>2, <1>3, <1>6, <1>7, <1>8, <1>9, <1>10, <1>11, <1>12

\* Process m becomes a client, and may ask its inviter to merge a port.
LEMMA AcceptBrokerClientStep ==
  ASSUME Inv, Broker \in alive, NEW m \in Guests, NEW c \in Open(m),
         Receives(m, c, "AcceptBrokerClient"), c = Invitation(m), m \in alive,
         NEW i \in Node, i = Inviter[m], Head(wire[c][m]) = Welcome(m),
         OneOn(wire, c, m, Welcome(m)), Token(ctl, wire, shut, alive, m),
         ~IsClient(ctl, m), i # m, ctl[m].inviter = i,
         c \in DOMAIN wire, Via(m) \in DOMAIN wire, c \notin ctl[i].invitations,
         Peer(ctl, m, Broker) = NoChannel, Peer(ctl, m, i) = NoChannel,
         ~On(wire, c, m, Hello(m)), ~On(wire, c, i, Reply(m)),
         i # Broker => /\ ~On(wire, Via(i), Broker, AskFor(m)) /\ ~On(wire, Via(i), i, Added(m)),
         NEW q, q = Taken(m, c), NEW w, w = KnownBoth(q, m),
         NEW r, Handler(r), Commit(r), alive' = alive, send' = send,
         r.ctl = w.ctl, r.shut = w.shut, DOMAIN r.wire = DOMAIN w.wire,
         Moves(w.wire, r.wire, {<<c, i, MergeReq(m)>>}), Calm(w.wire, r.wire),
         \A a, b, y : On(w.wire, a, b, y) => On(r.wire, a, b, y),
         \A a \in Node : r.merge[a] = merge[a] \/ r.merge[a] # "sending"
  PROVE Inv'
<1> DEFINE z == Welcome(m)
           x == MergeReq(m)
           X == {<<c, i, x>>}
<1>1. /\ Handler(q) /\ q.ctl = ctl /\ q.shut = shut /\ Takes(wire, q.wire, c, m)
      /\ DOMAIN q.wire = DOMAIN wire /\ Queue(wire, c, m) # << >> /\ Head(Queue(wire, c, m)) = z
  BY ReadFacts, Constants
<1>2. /\ NameOK(ctl, wire, m) /\ LinkOK(ctl, wire, shut, alive, m) /\ StageOK(ctl, wire, shut, alive, m)
      /\ m \in Node /\ m # Broker /\ Broker \in Node /\ Broker # NoNode
  BY GuestFacts, Constants
<1>4. WireType(wire) /\ alive \subseteq Node /\ send \in [Talks -> Sending]
  BY TypedFacts DEF Inv
<1>5. z.type = "AcceptBrokerClient"
  BY MessageKinds
<1>7. x.type = "RequestPortMerge"
  BY MessageKinds
<1>8. z \notin Events
  BY NotEvents
<1>9. WelcomePut(q, w, m)
  BY <1>1, KnownBothFacts
<1>10. Moves(wire, q.wire, {}) /\ Calm(wire, q.wire) /\ Keeps(wire, q.wire, c, m)
       /\ ~On(q.wire, c, m, z)
  <2>1. \A y : ~IntroMsg(z, y)
    BY <1>5 DEF IntroMsg
  <2> HIDE DEF z
  <2> QED BY <1>1, <1>4, <2>1, MovesTake DEF z
<1> HIDE DEF x, z
<1>11. /\ w.shut = shut /\ DOMAIN w.wire = DOMAIN wire
       /\ Moves(q.wire, w.wire, {}) /\ Calm(q.wire, w.wire)
       /\ \A a, b, y : On(q.wire, a, b, y) => On(w.wire, a, b, y)
       /\ ClientPut(ctl, w.ctl, m) /\ PeersPut(ctl, w.ctl, m)
  BY <1>1, <1>9 DEF WelcomePut
<1>19. /\ Typed' /\ ctl' = w.ctl /\ wire' = r.wire /\ shut' = shut /\ merge' = r.merge
       /\ DOMAIN wire' = DOMAIN wire
  BY <1>4, <1>11, Committed
<1>20. Moves(wire, wire', X) /\ Calm(wire, wire') /\ Moves(q.wire, wire', X)
  <2>1. {} \cap X = {} /\ {} \cup X = X
    OBVIOUS
  <2>2. Moves(w.wire, wire', X)
    BY <1>19 DEF x
  <2> HIDE DEF X
  <2>3. Moves(q.wire, wire', X)
    BY <1>11, <2>1, <2>2, MovesMore
  <2>4. Moves(wire, wire', X)
    BY <1>10, <2>1, <2>3, MovesMore
  <2>5. Calm(q.wire, wire')
    BY <1>11, <1>19, CalmMore
  <2>6. Calm(wire, wire')
    BY <1>10, <2>5, CalmMore
  <2> QED BY <2>3, <2>4, <2>6
<1>21. Holds(wire, wire', alive)
  BY <1>1, <1>5, <1>10, <1>11, <1>19 DEF Holds, Keeps
<1>22. /\ \A a \in Node : /\ ctl'[a].inviter = ctl[a].inviter /\ ctl'[a].invitations = ctl[a].invitations
                          /\ ctl'[a].lost = ctl[a].lost
                          /\ a # m => ctl'[a].boot = ctl[a].boot /\ ctl'[a].broker = ctl[a].broker
       /\ ctl'[m].boot = NoChannel /\ ctl'[m].broker = Broker
  BY <1>11, <1>19 DEF ClientPut
<1>23. /\ \A a, b \in Node : ~(a = m /\ b \in {Broker, i}) =>
            Peer(ctl', a, b) = Peer(ctl, a, b) /\ ctl'[a].queue[b] = ctl[a].queue[b]
       /\ Peer(ctl', m, Broker) = Via(m) /\ ctl'[m].queue[Broker] = << >>
       /\ Peer(ctl', m, i) = c /\ ctl'[m].queue[i] = << >>
  BY <1>11, <1>19 DEF PeersPut
<1>24. /\ \A a \in Node : a # m => (IsClient(ctl', a) <=> IsClient(ctl, a))
       /\ IsClient(ctl', m)
  BY <1>2, <1>22 DEF IsClient
<1>26. \A k : k # m => Invitation(k) # c
  BY ChannelsDiffer
<1>27. ASSUME NEW k \in Guests, k # m
       PROVE Still(ctl, ctl', wire, wire', shut, shut', alive', X, k)
  <2>1. k \in Node /\ Inviter[k] \in Node /\ k # Broker
    BY Constants
  <2>2. /\ Peer(ctl', Broker, k) = Peer(ctl, Broker, k) /\ Peer(ctl', k, Broker) = Peer(ctl, k, Broker)
        /\ Peer(ctl', k, Inviter[k]) = Peer(ctl, k, Inviter[k])
    BY <1>2, <1>23, <1>27, <2>1
  <2>3. Peer(ctl', Inviter[k], k) = Peer(ctl, Inviter[k], k)
    <3>1. SUFFICES ASSUME Inviter[k] = m, k = i PROVE FALSE
      BY <1>23, <2>1
    <3>2. i # Broker => Inviter[i] # m
      BY <1>2 DEF NameOK
    <3> QED BY <2>1, <3>1, <3>2
  <2>4. Invitation(k) # c
    BY <1>26, <1>27
  <2>6. AskFor(k).type = "AddBrokerClient" /\ Added(k).type = "BrokerClientAdded"
    BY MessageKinds
  <2>8. /\ \A b, y : <<Invitation(k), b, y>> \notin X
        /\ \A a, b : <<a, b, AskFor(k)>> \notin X /\ <<a, b, Added(k)>> \notin X
    BY <1>7, <2>4, <2>6
  <2> HIDE DEF X
  <2>9. /\ ctl'[k].inviter = ctl[k].inviter /\ ctl'[k].boot = ctl[k].boot /\ ctl'[k].broker = ctl[k].broker
        /\ ctl'[Inviter[k]].invitations = ctl[Inviter[k]].invitations
    BY <1>22, <1>27, <2>1
  <2>10. \/ IsClient(ctl', Inviter[k])
         \/ ctl'[Inviter[k]].boot = ctl[Inviter[k]].boot /\ ctl'[Inviter[k]].broker = ctl[Inviter[k]].broker
    BY <1>22, <1>24, <2>1
  <2> QED BY <1>19, <2>2, <2>3, <2>8, <2>9, <2>10 DEF Still
<1>28. NameOK(ctl', wire', m)
  <2>1. /\ ctl'[m].inviter = i /\ ctl'[m].boot = NoChannel /\ ctl'[m].broker = Broker
        /\ i \in Node /\ i # NoNode
    BY <1>2, <1>22, Constants
  <2>2. ctl'[i].boot = ctl[i].boot /\ (IsClient(ctl', i) <=> IsClient(ctl, i))
    BY <1>22, <1>24
  <2> QED BY <1>2, <1>19, <2>1, <2>2 DEF NameOK
<1>30. /\ ~On(wire', c, m, Hello(m)) /\ OneOn(wire', c, m, Hello(m))
       /\ ~On(wire', c, i, Reply(m)) /\ OneOn(wire', c, i, Reply(m))
       /\ ~On(wire', c, m, z) /\ OneOn(wire', c, m, z)
       /\ i # Broker => /\ ~On(wire', Via(i), Broker, AskFor(m)) /\ OneOn(wire', Via(i), Broker, AskFor(m))
                        /\ ~On(wire', Via(i), i, Added(m)) /\ OneOn(wire', Via(i), i, Added(m))
  <2>1. Hello(m).type = "AcceptInvitee" /\ Reply(m).type = "AcceptInvitation"
    BY MessageKinds
  <2>2. AskFor(m).type = "AddBrokerClient" /\ Added(m).type = "BrokerClientAdded"
    BY MessageKinds
  <2>3. \A a, b : /\ <<a, b, Hello(m)>> \notin X /\ <<a, b, Reply(m)>> \notin X
                  /\ <<a, b, AskFor(m)>> \notin X /\ <<a, b, Added(m)>> \notin X
                  /\ <<a, b, z>> \notin X
    BY <1>5, <1>7, <2>1, <2>2
  <2>4. Hello(m) \notin Events /\ Reply(m) \notin Events /\ AskFor(m) \notin Events /\ Added(m) \notin Events
    BY NotEvents
  <2> HIDE DEF X
  <2>6. ~On(wire', c, m, Hello(m)) /\ ~On(wire', c, i, Reply(m))
    BY <1>20, <2>3, <2>4 DEF Moves
  <2>7. ~On(wire', c, m, z)
    BY <1>8, <1>10, <1>20, <2>3 DEF Moves
  <2>8. i # Broker => ~On(wire', Via(i), Broker, AskFor(m)) /\ ~On(wire', Via(i), i, Added(m))
    BY <1>20, <2>3, <2>4 DEF Moves
  <2> QED BY <2>6, <2>7, <2>8, NotOnOne
<1>31. /\ ctl'[m].inviter # NoNode /\ c \notin ctl'[i].invitations
       /\ Client(m) \in DOMAIN wire' => i # Broker
  BY <1>2, <1>19, <1>22, Constants DEF StageOK
<1>32. StageOK(ctl', wire', shut', alive', m)
  BY <1>2, <1>19, <1>24, <1>30, <1>31 DEF StageOK, z
<1>33. LinkOK(ctl', wire', shut', alive', m)
  <2>1. Peer(ctl', i, m) = Peer(ctl, i, m) /\ Peer(ctl', Broker, m) = Peer(ctl, Broker, m)
    BY <1>2, <1>23
  <2>2. i \in alive => /\ <<c, i>> \notin shut /\ <<c, m>> \notin shut /\ Peer(ctl, i, m) = c
    BY <1>2 DEF LinkOK
  <2>3. Peer(ctl, Broker, m) = Via(m) /\ <<Via(m), m>> \notin shut /\ <<Via(m), Broker>> \notin shut
    <3>1. CASE i = Broker
      <4>1. Via(m) = c
        BY <3>1 DEF Via
      <4> QED BY <2>2, <3>1, <4>1
    <3>2. CASE i # Broker
      <4>1. Via(m) = Client(m)
        BY <3>2 DEF Via
      <4> QED BY <3>2, <4>1 DEF Token
    <3> QED BY <3>1, <3>2
  <2> QED BY <1>19, <1>23, <2>1, <2>2, <2>3 DEF LinkOK
<1>34. \A k \in Guests : \/ Still(ctl, ctl', wire, wire', shut, shut', alive', X, k)
                         \/ /\ NameOK(ctl', wire', k) /\ StageOK(ctl', wire', shut', alive', k)
                            /\ LinkOK(ctl', wire', shut', alive', k)
  BY <1>27, <1>28, <1>32, <1>33
<1>35. PeersBut(ctl, ctl', wire')
  <2>1. ~Apart(m, Broker) /\ ~Apart(m, i)
    BY <1>2 DEF Apart, Guests
  <2>2. ~Intro(Via(m)) /\ ~Intro(c)
    BY BetweenFacts DEF Intro
  <2>3. PeerOK(ctl', wire', m, i)
    BY <1>2, <1>19, <1>23, <1>24 DEF PeerOK
  <2>4. PeerOK(ctl', wire', m, Broker)
    <3>1. CASE i = Broker
      BY <2>3, <3>1
    <3>2. CASE i # Broker
      <4>1. Via(m) = Client(m)
        BY <3>2 DEF Via
      <4> QED BY <1>2, <1>19, <1>23, <1>24, <3>2, <4>1 DEF PeerOK
    <3> QED BY <3>1, <3>2
  <2>5. \A a, b \in Node : ~(a = m /\ b \in {Broker, i}) => Peer(ctl', a, b) = Peer(ctl, a, b)
    BY <1>23
  <2> QED BY <1>23, <2>1, <2>2, <2>3, <2>4, <2>5 DEF PeersBut
<1>36. Numbered(wire')
  BY <1>19, NumberedSame DEF Inv
<1>37. \A a, b, y : <<a, b, y>> \in X => Fits(a, b, y) /\ y.type \notin IntroTypes
  <2>1. Fits(c, i, x)
    BY DEF Fits, x
  <2> QED BY <1>7, <2>1 DEF IntroTypes
<1>38. /\ \A a \in Node : \A e \in ctl'[a].invitations : e \in ctl[a].invitations
       /\ \A a \in Node : ctl'[a].lost = ctl[a].lost
       /\ \A a \in Node : IsClient(ctl, a) => IsClient(ctl', a)
       /\ ctl'[Broker].inviter = ctl[Broker].inviter /\ ctl'[Broker].boot = ctl[Broker].boot
       /\ ctl'[Broker].broker = ctl[Broker].broker
  BY <1>2, <1>22, <1>24
<1>39. DOMAIN wire \subseteq DOMAIN wire' /\ shut \subseteq shut'
       /\ \A s \in shut' : s \in shut \/ (s[1] \in DOMAIN wire' /\ ~Intro(s[1]))
  BY <1>19
<1>40. \A a, b \in Node : ctl'[a].queue[b] = ctl[a].queue[b] \/ ctl'[a].queue[b] = << >>
  BY <1>23
<1>41. ASSUME NEW k \in Guests, IsClient(ctl', k)
       PROVE IsClient(ctl, k) \/ Inviter[k] = Broker \/ <<Client(k), k>> \notin shut
  <2>1. k \in Node
    BY Constants
  <2>2. CASE k = m
    BY <2>2 DEF Token
  <2> QED BY <1>24, <1>41, <2>1, <2>2
<1>42. \A a \in Node : merge'[a] = merge[a] \/ merge'[a] # "sending"
  BY <1>19
<1> HIDE DEF X
<1> QED BY <1>19, <1>20, <1>21, <1>34, <1>35, <1>36, <1>37, <1>38, <1>39, <1>40, <1>41, <1>42, Progress

\* The port that waited is to be merged.
PutMerge(st, m) == [st EXCEPT !.merge[m] = "sent"]

MergedPut(w, g, m) ==
  /\ Handler(g) /\ g.ctl = w.ctl /\ g.shut = w.shut /\ DOMAIN g.wire = DOMAIN w.wire
  /\ Moves(w.wire, g.wire, {<<Invitation(m), Inviter[m], MergeReq(m)>>}) /\ Calm(w.wire, g.wire)
  /\ \A a, b, y : On(w.wire, a, b, y) => On(g.wire, a, b, y)
  /\ \A a \in Node : g.merge[a] = w.merge[a] \/ g.merge[a] # "sending"

\* A deferred request to merge a port, sent or not.
LEMMA MergedFacts ==
  ASSUME NEW w, Handler(w), NEW m \in Guests, Invitation(m) \in DOMAIN w.wire, Inviter[m] # m
  PROVE /\ MergedPut(w, w, m)
        /\ MergedPut(w, Post(PutMerge(w, m), m, Invitation(m), MergeReq(m)), m)
<1> DEFINE G == [w.merge EXCEPT ![m] = "sent"]
           q == PutMerge(w, m)
           c == Invitation(m)
           i == Inviter[m]
           x == MergeReq(m)
           r == Post(q, m, c, x)
<1>1. m \in Node /\ i \in Node /\ Ends(c) = {m, i} /\ w.merge \in [Node -> Merging]
  BY Constants, InvitationFacts DEF Handler
<1>2. MergedPut(w, w, m)
  BY MovesNone DEF MergedPut, Moves
<1>3. G \in [Node -> Merging] /\ \A a \in Node : G[a] = w.merge[a] \/ G[a] # "sending"
  BY <1>1 DEF Merging
<1>4. q = [ctl |-> w.ctl, wire |-> w.wire, shut |-> w.shut, merge |-> G]
  BY DEF PutMerge, Handler
<1> HIDE DEF G, q
<1>5. Handler(q) /\ q.ctl = w.ctl /\ q.wire = w.wire /\ q.shut = w.shut /\ q.merge = G
  BY <1>3, <1>4 DEF Handler
<1>6. x \in Message
  BY MessageTypes
<1>7. x.ch = NoChannel
  BY MessageFields
<1>8. c \in DOMAIN q.wire
  BY <1>5
<1> HIDE DEF x
<1>9. Posted(q, r, m, c, i, x)
  BY <1>1, <1>5, <1>6, <1>7, <1>8, PostPlain
<1> HIDE DEF r
<1>10. /\ Handler(r) /\ r.ctl = w.ctl /\ r.merge = G /\ r.shut = w.shut
       /\ DOMAIN r.wire = DOMAIN w.wire
       /\ Moves(w.wire, r.wire, {<<c, i, x>>}) /\ Calm(w.wire, r.wire)
       /\ \A a, b, y : On(w.wire, a, b, y) => On(r.wire, a, b, y)
  BY <1>5, <1>9 DEF Posted
<1>11. MergedPut(w, r, m)
  BY <1>3, <1>10 DEF MergedPut, x
<1> QED BY <1>2, <1>11 DEF r, q, x

\* None of the invitees that wait for the broker is found among the invitations:
\* these go by temporary names.
LEMMA NoneFound ==
  ASSUME Inv, NEW m \in Node
  PROVE {k \in DOMAIN ctl[m].clients : ctl[m].clients[k] \in ctl[m].invitations} = {}
<1>1. SUFFICES ASSUME NEW k \in DOMAIN ctl[m].clients, ctl[m].clients[k] \in ctl[m].invitations
               PROVE FALSE
  OBVIOUS
<1>2. ctl[m] \in Controller
  BY TypedFacts DEF Inv
<1>3. ctl[m].clients \in Seq(Node)
  BY <1>2 DEF Controller
<1>4. ctl[m].clients[k] \in Node
  BY <1>1, <1>3
<1>5. PICK x \in Guests : ctl[m].clients[k] = Invitation(x)
  BY <1>1 DEF Inv, NamesOK
<1>6. x \in Node
  BY Constants
<1> QED BY <1>4, <1>5, <1>6, ConnectionsAssumption DEF Invitation

\* Writing no messages.
NonePut(g, r) ==
  /\ Handler(r) /\ r.ctl = g.ctl /\ r.merge = g.merge /\ r.shut = g.shut
  /\ DOMAIN r.wire = DOMAIN g.wire /\ Moves(g.wire, r.wire, {}) /\ Calm(g.wire, r.wire)
  /\ \A a, b, y : On(g.wire, a, b, y) => On(r.wire, a, b, y)

\* Posting what an inviter has queued for its own guests.
LEMMA PostNone ==
  ASSUME NEW g, Handler(g), NEW c \in DOMAIN g.wire, NEW n \in Node, NEW e \in Node,
         n # e, Ends(c) = {n, e}, NEW t \in Seq(Events)
  PROVE NonePut(g, PostAll(g, n, c, t))
<1> DEFINE r == PostAll(g, n, c, t)
<1>1. /\ Handler(r) /\ r.ctl = g.ctl /\ r.merge = g.merge /\ r.shut = g.shut
      /\ r.wire = g.wire \/ Appends(g.wire, r.wire, c, e, t)
  BY FlushFacts
<1> HIDE DEF r
<1>2. CASE r.wire = g.wire
  BY <1>1, <1>2, MovesNone DEF NonePut, r
<1>3. CASE Appends(g.wire, r.wire, c, e, t)
  <2>1. WireType(g.wire)
    BY DEF Handler
  <2>2. /\ Moves(g.wire, r.wire, {}) /\ Calm(g.wire, r.wire)
        /\ \A a, b, y : On(g.wire, a, b, y) => On(r.wire, a, b, y)
    BY <1>3, <2>1, MovesEvents
  <2>3. DOMAIN r.wire = DOMAIN g.wire
    BY <1>3 DEF Appends
  <2> QED BY <1>1, <2>2, <2>3 DEF NonePut, r
<1> QED BY <1>1, <1>2, <1>3

\* A guest is told that it is a client of the broker (OnAcceptBrokerClient).
LEMMA AcceptBrokerClientRead ==
  ASSUME Inv, Broker \in alive, NEW m \in Node, NEW c \in Open(m), OnAcceptBrokerClient(m, c)
  PROVE Inv'
<1> DEFINE msg == Head(wire[c][m])
           t == ctl[m]
           found == {k \in DOMAIN t.clients : t.clients[k] \in t.invitations}
           fed == [k \in 1 .. Cardinality(found) |->
                     t.clients[CHOOSE j \in found : Cardinality({h \in found : h <= j}) = k]]
           st == [Taken(m, c) EXCEPT !.ctl[m].boot = NoChannel,
                                     !.ctl[m].broker = msg.name,
                                     !.ctl[m].clients = << >>]
           known == IF msg.name = t.inviter THEN st
                    ELSE AddPeer(st, m, msg.name, msg.ch)
           added == AddPeer(known, m, t.inviter, t.boot)
           merged == IF merge[m] # "pending" THEN added
                     ELSE Post([added EXCEPT !.merge[m] = "sent"], m, t.boot,
                               Plain("RequestPortMerge", m))
           list == [k \in DOMAIN fed |-> Plain("AddBrokerClient", fed[k])]
           i == Inviter[m]
           q == Taken(m, c)
           w == KnownBoth(q, m)
<1>1. /\ Receives(m, c, "AcceptBrokerClient") /\ alive' = alive /\ send' = send
      /\ Commit(PostAll(merged, m, merged.ctl[m].peers[msg.name], list))
  BY DEF OnAcceptBrokerClient
<1>2. /\ m \in Guests /\ c = Invitation(m) /\ Head(wire[c][m]) = Welcome(m) /\ m \in alive
      /\ OneOn(wire, c, m, Welcome(m)) /\ Token(ctl, wire, shut, alive, m)
      /\ ~IsClient(ctl, m) /\ i # m /\ ctl[m].inviter = i /\ ctl[m].boot = c
      /\ c \in DOMAIN wire /\ Via(m) \in DOMAIN wire /\ c \notin ctl[i].invitations
      /\ Peer(ctl, m, Broker) = NoChannel /\ Peer(ctl, m, i) = NoChannel
      /\ ~On(wire, c, m, Hello(m)) /\ ~On(wire, c, i, Reply(m))
      /\ i # Broker => /\ ~On(wire, Via(i), Broker, AskFor(m))
                       /\ ~On(wire, Via(i), i, Added(m))
  BY <1>1, WelcomeFacts
<1>3. found = {}
  BY NoneFound
<1> HIDE DEF found
<1>4. DOMAIN list = {}
  <2>1. Cardinality(found) = 0
    BY <1>3, FS_EmptySet
  <2> QED BY <2>1
<1>5. list \in Seq(Events)
  <2>1. Cardinality(found) = 0
    BY <1>3, FS_EmptySet
  <2>2. DOMAIN fed = 1 .. 0
    BY <2>1
  <2> HIDE DEF fed
  <2>3. list = [k \in 1 .. 0 |-> Plain("AddBrokerClient", fed[k])]
    BY <2>2
  <2> HIDE DEF list
  <2>4. list \in [1 .. 0 -> Events]
    BY <2>3
  <2> QED BY <2>4
<1> HIDE DEF list, fed
<1>6. Welcome(m).name = Broker
  BY MessageFields
<1>7. i # Broker => Welcome(m).ch = Client(m)
  BY DEF Welcome, Carry
<1>8. st = PutBroker(q, m)
  BY <1>2, <1>6 DEF PutBroker
<1>9. known = Known(q, m)
  BY <1>2, <1>6, <1>7, <1>8 DEF Known
<1> HIDE DEF known
<1>10. added = w
  BY <1>2, <1>9 DEF KnownBoth
<1>11. merged = w \/ merged = Post(PutMerge(w, m), m, c, MergeReq(m))
  BY <1>2, <1>10 DEF PutMerge, MergeReq
<1>12. Handler(q) /\ q.ctl = ctl /\ q.merge = merge /\ DOMAIN q.wire = DOMAIN wire
  BY <1>1, ReadFacts
<1> HIDE DEF q, w, merged, added
<1>13. WelcomePut(q, w, m)
  BY <1>2, <1>12, KnownBothFacts DEF w
<1>14. /\ Handler(w) /\ w.merge = merge /\ DOMAIN w.wire = DOMAIN wire /\ PeersPut(ctl, w.ctl, m)
  BY <1>12, <1>13 DEF WelcomePut
<1>15. MergedPut(w, merged, m)
  BY <1>2, <1>11, <1>14, MergedFacts
<1>16. /\ Handler(merged) /\ merged.ctl = w.ctl /\ merged.shut = w.shut
       /\ DOMAIN merged.wire = DOMAIN w.wire
       /\ Moves(w.wire, merged.wire, {<<c, i, MergeReq(m)>>}) /\ Calm(w.wire, merged.wire)
       /\ \A a, b, y : On(w.wire, a, b, y) => On(merged.wire, a, b, y)
       /\ \A a \in Node : merged.merge[a] = merge[a] \/ merged.merge[a] # "sending"
  BY <1>2, <1>14, <1>15 DEF MergedPut
<1>17. m # Broker /\ Broker \in Node /\ i \in Node /\ Ends(Via(m)) = {m, Broker} /\ Via(m) # NoChannel
  BY <1>2, Constants, InvitationFacts
<1>18. merged.ctl[m].peers[msg.name] = Via(m)
  <2>1. Peer(w.ctl, m, Broker) = Via(m)
    BY <1>14 DEF PeersPut
  <2>2. w.ctl[m].peers[Broker] = Via(m)
    BY <1>17, <2>1 DEF Peer, PeerChannel
  <2> QED BY <1>2, <1>6, <1>16, <2>2
<1> DEFINE r == PostAll(merged, m, Via(m), list)
<1>19. Commit(r)
  BY <1>1, <1>18
<1>20. NonePut(merged, r)
  <2>1. Via(m) \in DOMAIN merged.wire
    BY <1>2, <1>14, <1>16
  <2> QED BY <1>2, <1>5, <1>16, <1>17, <2>1, PostNone
<1> HIDE DEF r
<1>21. /\ Handler(r) /\ r.ctl = w.ctl /\ r.shut = w.shut /\ DOMAIN r.wire = DOMAIN w.wire
       /\ \A a, b, y : On(w.wire, a, b, y) => On(r.wire, a, b, y)
       /\ \A a \in Node : r.merge[a] = merge[a] \/ r.merge[a] # "sending"
       /\ Moves(merged.wire, r.wire, {}) /\ Calm(merged.wire, r.wire)
  BY <1>16, <1>20 DEF NonePut
<1>22. Moves(w.wire, r.wire, {<<c, i, MergeReq(m)>>}) /\ Calm(w.wire, r.wire)
  <2> DEFINE X == {<<c, i, MergeReq(m)>>}
  <2>1. X \cap {} = {} /\ X \cup {} = X
    OBVIOUS
  <2>2. Moves(w.wire, merged.wire, X)
    BY <1>16
  <2> HIDE DEF X
  <2>3. Moves(w.wire, r.wire, X)
    BY <1>21, <2>1, <2>2, MovesMore
  <2>4. Calm(w.wire, r.wire)
    BY <1>16, <1>21, CalmMore
  <2> QED BY <2>3, <2>4 DEF X
<1> HIDE DEF msg, t, st
<1> QED BY <1>1, <1>2, <1>17, <1>19, <1>21, <1>22, AcceptBrokerClientStep DEF q, w

-----------------------------------------------------------------------------
(***************************************************************************)
(* Death of a process.                                                     *)
(***************************************************************************)
\* The messages on their way to n, and the ends of channels they carry.
Bound(n) == UNION {{wire[c][n][i] : i \in 1 .. Len(wire[c][n])} :
                     c \in {x \in DOMAIN wire : n \in DOMAIN wire[x]}}
EndsIn(M) == {<<m.ch, m.for>> : m \in {x \in M : x.ch # NoChannel}}

\* The wire when nothing is on its way to n.
Emptied(n) == [c \in DOMAIN wire |->
                  [e \in DOMAIN wire[c] |-> IF e = n THEN << >> ELSE wire[c][e]]]

\* A message to n that carries an end.
LEMMA CarriedEnds ==
  ASSUME NEW c, NEW n, NEW x, Fits(c, n, x), x.ch # NoChannel
  PROVE /\ n \in Guests
        /\ \/ \E m \in Guests : c = Via(n) /\ x = Added(m) /\ Inviter[m] = n
           \/ c = Invitation(n) /\ x = Welcome(n) /\ Inviter[n] # Broker
           \/ \E m \in Guests : \E d \in Between(n, m) : c = Via(n) /\ m # n /\ x = Meet(n, m, d)
<1>1. x \notin Events
  BY EventFields
<1>2. \A m : /\ Hello(m).ch = NoChannel /\ Reply(m).ch = NoChannel /\ AskFor(m).ch = NoChannel
             /\ MergeReq(m).ch = NoChannel /\ IntroReq(m).ch = NoChannel /\ Unknown(m).ch = NoChannel
  BY MessageFields
<1>3. Inviter[n] = Broker => Welcome(n).ch = NoChannel
  BY MessageFields
<1> QED BY <1>1, <1>2, <1>3 DEF Fits

\* What is in the queues to n.
LEMMA BoundFacts ==
  ASSUME WireType(wire), NEW n, NEW x
  PROVE x \in Bound(n) <=> \E c : On(wire, c, n, x)
<1>1. ASSUME NEW c \in DOMAIN wire, n \in DOMAIN wire[c]
      PROVE DOMAIN wire[c][n] = 1 .. Len(wire[c][n])
  <2>1. wire[c] \in [Ends(c) -> Seq(Message)]
    BY DEF WireType
  <2>2. wire[c][n] \in Seq(Message)
    BY <1>1, <2>1
  <2> QED BY <2>2
<1>2. ASSUME x \in Bound(n) PROVE \E c : On(wire, c, n, x)
  <2>1. PICK c \in DOMAIN wire : n \in DOMAIN wire[c] /\ \E i \in 1 .. Len(wire[c][n]) : x = wire[c][n][i]
    BY <1>2 DEF Bound
  <2> QED BY <1>1, <2>1 DEF On, In, Queue
<1>3. ASSUME NEW c, On(wire, c, n, x) PROVE x \in Bound(n)
  <2>1. c \in DOMAIN wire /\ n \in DOMAIN wire[c] /\ \E i \in DOMAIN wire[c][n] : wire[c][n][i] = x
    BY <1>3 DEF On, In, Queue
  <2> QED BY <1>1, <2>1 DEF Bound
<1> QED BY <1>2, <1>3

\* The ends that are lost with n.
LostEnd(n, s) ==
  \/ \E m \in Guests : /\ s = <<Client(m), m>> /\ Inviter[m] = n
                       /\ n \in Guests /\ On(wire, Via(n), n, Added(m))
  \/ /\ s = <<Client(n), n>> /\ n \in Guests /\ Inviter[n] # Broker
     /\ On(wire, Invitation(n), n, Welcome(n))
  \/ s[2] = n /\ n \in Guests /\ Intro(s[1]) /\ s[1] \in DOMAIN wire

\* Every end that a dying process takes with it is its own or is on its way to it.
LEMMA LostEnds ==
  ASSUME Inv, NEW n \in Node, NEW s \in EndsIn(Bound(n))
  PROVE LostEnd(n, s)
<1>1. PICK x \in Bound(n) : x.ch # NoChannel /\ s = <<x.ch, x.for>>
  BY DEF EndsIn
<1>2. PICK c : On(wire, c, n, x)
  BY BoundFacts, TypedFacts DEF Inv
<1>3. Fits(c, n, x)
  BY <1>2 DEF Inv, AllFit
<1>4. n \in Guests
  BY <1>1, <1>3, CarriedEnds
<1>5. CASE \E m \in Guests : c = Via(n) /\ x = Added(m) /\ Inviter[m] = n
  <2>1. PICK m \in Guests : c = Via(n) /\ x = Added(m) /\ Inviter[m] = n
    BY <1>5
  <2>2. Added(m).ch = Client(m) /\ Added(m).for = m
    BY MessageFields
  <2> QED BY <1>1, <1>2, <1>4, <2>1, <2>2 DEF LostEnd
<1>6. CASE c = Invitation(n) /\ x = Welcome(n) /\ Inviter[n] # Broker
  <2>1. Welcome(n).ch = Client(n) /\ Welcome(n).for = n
    BY <1>6, MessageFields
  <2> QED BY <1>1, <1>2, <1>4, <1>6, <2>1 DEF LostEnd
<1>7. CASE \E m \in Guests : \E d \in Between(n, m) : c = Via(n) /\ m # n /\ x = Meet(n, m, d)
  <2>0. PICK m \in Guests : \E d \in Between(n, m) : c = Via(n) /\ m # n /\ x = Meet(n, m, d)
    BY <1>7
  <2>1. PICK d \in Between(n, m) : c = Via(n) /\ m # n /\ x = Meet(n, m, d)
    BY <2>0
  <2>2. Meet(n, m, d).ch = d /\ Meet(n, m, d).for = n
    BY MessageFields
  <2>3. d \in DOMAIN wire
    BY <1>2, <2>1 DEF Inv, AsksOK
  <2>4. s[1] = d /\ s[2] = n
    BY <1>1, <2>1, <2>2
  <2>5. Intro(d)
    BY <1>4, <2>1 DEF Intro
  <2> QED BY <1>4, <2>3, <2>4, <2>5 DEF LostEnd
<1> QED BY <1>1, <1>3, <1>5, <1>6, <1>7, CarriedEnds

\* They are ends of channels that exist.
LEMMA LostEndFacts ==
  ASSUME Inv, NEW n \in Node, NEW s, LostEnd(n, s), s = <<s[1], s[2]>>
  PROVE s \in Chan \X Node /\ s[1] \in DOMAIN wire
<1>1. WireType(wire)
  BY TypedFacts DEF Inv
<1>2. ASSUME NEW m \in Guests, Token(ctl, wire, shut, alive, m), Inviter[m] # Broker, s = <<Client(m), m>>
      PROVE s[1] \in DOMAIN wire /\ s[2] \in Node
  <2>1. Client(m) \in DOMAIN wire /\ m \in Node
    BY <1>2, Constants DEF Token
  <2> QED BY <1>2, <2>1
<1>3. s[1] \in DOMAIN wire /\ s[2] \in Node
  <2>1. CASE \E m \in Guests : /\ s = <<Client(m), m>> /\ Inviter[m] = n
                               /\ n \in Guests /\ On(wire, Via(n), n, Added(m))
    <3>1. PICK m \in Guests : /\ s = <<Client(m), m>> /\ Inviter[m] = n
                              /\ n \in Guests /\ On(wire, Via(n), n, Added(m))
      BY <2>1
    <3>2. StageOK(ctl, wire, shut, alive, m) /\ Inviter[m] # Broker
      BY <3>1, GuestFacts, Constants
    <3>3. Token(ctl, wire, shut, alive, m)
      BY <3>1, <3>2 DEF StageOK
    <3> QED BY <1>2, <3>1, <3>2, <3>3
  <2>2. CASE /\ s = <<Client(n), n>> /\ n \in Guests /\ Inviter[n] # Broker
             /\ On(wire, Invitation(n), n, Welcome(n))
    <3>1. StageOK(ctl, wire, shut, alive, n)
      BY <2>2, GuestFacts
    <3>2. Token(ctl, wire, shut, alive, n)
      BY <2>2, <3>1 DEF StageOK
    <3> QED BY <1>2, <2>2, <3>2
  <2>3. CASE s[2] = n /\ n \in Guests /\ Intro(s[1]) /\ s[1] \in DOMAIN wire
    BY <2>3
  <2> QED BY <2>1, <2>2, <2>3 DEF LostEnd
<1> QED BY <1>1, <1>3 DEF WireType

\* Nothing is on its way to n.
LEMMA EmptiedWire ==
  ASSUME WireType(wire), NEW n
  PROVE /\ WireType(Emptied(n)) /\ DOMAIN Emptied(n) = DOMAIN wire
        /\ \A a, b : Queue(Emptied(n), a, b) = IF b = n THEN << >> ELSE Queue(wire, a, b)
<1> DEFINE V == Emptied(n)
<1>1. DOMAIN V = DOMAIN wire
  BY DEF Emptied
<1>2. ASSUME NEW c \in DOMAIN wire
      PROVE /\ V[c] \in [Ends(c) -> Seq(Message)] /\ DOMAIN V[c] = DOMAIN wire[c]
            /\ \A e \in DOMAIN wire[c] : V[c][e] = IF e = n THEN << >> ELSE wire[c][e]
  <2>1. wire[c] \in [Ends(c) -> Seq(Message)]
    BY DEF WireType
  <2>2. << >> \in Seq(Message)
    OBVIOUS
  <2>3. V[c] = [e \in DOMAIN wire[c] |-> IF e = n THEN << >> ELSE wire[c][e]]
    BY DEF Emptied
  <2> QED BY <2>1, <2>2, <2>3
<1> HIDE DEF V
<1>3. WireType(V)
  BY <1>1, <1>2 DEF WireType
<1>4. \A a, b : Queue(V, a, b) = IF b = n THEN << >> ELSE Queue(wire, a, b)
  BY <1>1, <1>2 DEF Queue
<1> QED BY <1>1, <1>3, <1>4 DEF V

\* What a crash changes.
LEMMA CrashFacts ==
  ASSUME Inv, NEW n \in Node, Crash(n)
  PROVE /\ Typed' /\ ctl' = ctl /\ merge' = merge /\ send' = send /\ alive' = alive \ {n} /\ n \in alive
        /\ DOMAIN wire' = DOMAIN wire
        /\ \A a, b : Queue(wire', a, b) = IF b = n THEN << >> ELSE Queue(wire, a, b)
        /\ shut \subseteq shut'
        /\ \A s \in shut' : s \in shut \/ (LostEnd(n, s) /\ s[1] \in DOMAIN wire)
<1> DEFINE L == EndsIn(Bound(n))
           V == Emptied(n)
           r == [LoseHandles(Begin, Bound(n)) EXCEPT !.wire = V]
<1>1. Typed
  BY DEF Inv
<1>2. /\ Handler(Begin) /\ Begin.ctl = ctl /\ Begin.shut = shut /\ Begin.merge = merge /\ WireType(wire)
      /\ alive \subseteq Node /\ send \in [Talks -> Sending]
  BY <1>1, TypedFacts
<1>3. alive' = alive \ {n} /\ n \in alive /\ Commit(r) /\ send' = send
  BY DEF Crash, Emptied, Bound
<1>4. LoseHandles(Begin, Bound(n)) = [Begin EXCEPT !.shut = Begin.shut \cup L]
  BY DEF LoseHandles, EndsIn
<1>5. WireType(V) /\ DOMAIN V = DOMAIN wire
      /\ \A a, b : Queue(V, a, b) = IF b = n THEN << >> ELSE Queue(wire, a, b)
  BY <1>2, EmptiedWire
<1>6. ASSUME NEW s \in L PROVE LostEnd(n, s) /\ s \in Chan \X Node /\ s[1] \in DOMAIN wire
  <2>1. LostEnd(n, s)
    BY LostEnds
  <2>2. s = <<s[1], s[2]>>
    BY DEF EndsIn
  <2> QED BY <2>1, <2>2, LostEndFacts
<1> HIDE DEF L, V
<1>7. r = [ctl |-> ctl, wire |-> V, shut |-> shut \cup L, merge |-> merge]
  <2>1. Begin = [ctl |-> ctl, wire |-> wire, shut |-> shut, merge |-> merge]
    BY DEF Begin
  <2>2. LoseHandles(Begin, Bound(n)) =
          [ctl |-> ctl, wire |-> wire, shut |-> shut \cup L, merge |-> merge]
    BY <1>2, <1>4, <2>1
  <2>3. PICK q : q = LoseHandles(Begin, Bound(n))
    OBVIOUS
  <2>4. [q EXCEPT !.wire = V] = [ctl |-> ctl, wire |-> V, shut |-> shut \cup L, merge |-> merge]
    BY <2>2, <2>3
  <2>5. r = [q EXCEPT !.wire = V]
    BY <2>3
  <2> QED BY <2>4, <2>5
<1>8. Handler(r)
  BY <1>2, <1>5, <1>6, <1>7 DEF Handler
<1>9. alive' \subseteq Node /\ send' \in [Talks -> Sending]
  BY <1>2, <1>3
<1>10. r.ctl = ctl /\ r.wire = V /\ r.shut = shut \cup L /\ r.merge = merge
  BY <1>7
<1> HIDE DEF r
<1>11. Typed' /\ ctl' = r.ctl /\ wire' = r.wire /\ shut' = r.shut /\ merge' = r.merge
  BY <1>3, <1>8, <1>9, Committed
<1> QED BY <1>3, <1>5, <1>6, <1>10, <1>11

\* The end for m was on its way, to m or to its inviter, and is lost.
Orphaned(n, m) ==
  \/ n = Inviter[m] /\ n # Broker /\ On(wire, Via(n), n, Added(m))
  \/ n = m /\ Inviter[m] # Broker /\ On(wire, Invitation(m), m, Welcome(m))

\* Nothing carries it any more.
LEMMA OrphanStage ==
  ASSUME NEW C, NEW W, NEW V, NEW S, NEW T, NEW A, NEW B, NEW m \in Guests, NEW n,
         StageOK(C, W, S, A, m), Moves(W, V, {}), DOMAIN V = DOMAIN W, S \subseteq T,
         \A a, y : ~On(V, a, n, y),
         \/ n = Inviter[m] /\ n # Broker /\ On(W, Via(n), n, Added(m))
         \/ n = m /\ Inviter[m] # Broker /\ On(W, Invitation(m), m, Welcome(m))
  PROVE StageOK(C, V, T, B, m) /\ ~IsClient(C, m)
<1> DEFINE i == Inviter[m]
           c == Invitation(m)
<1>1. /\ On(V, c, m, Hello(m)) => On(W, c, m, Hello(m))
      /\ On(V, c, i, Reply(m)) => On(W, c, i, Reply(m))
      /\ On(V, c, m, Welcome(m)) => On(W, c, m, Welcome(m))
      /\ On(V, Via(i), Broker, AskFor(m)) => On(W, Via(i), Broker, AskFor(m))
      /\ On(V, Via(i), i, Added(m)) => On(W, Via(i), i, Added(m))
  BY NotEvents DEF Moves
<1>2. /\ OneOn(W, c, m, Hello(m)) => OneOn(V, c, m, Hello(m))
      /\ OneOn(W, c, i, Reply(m)) => OneOn(V, c, i, Reply(m))
      /\ OneOn(W, c, m, Welcome(m)) => OneOn(V, c, m, Welcome(m))
      /\ OneOn(W, Via(i), Broker, AskFor(m)) => OneOn(V, Via(i), Broker, AskFor(m))
      /\ OneOn(W, Via(i), i, Added(m)) => OneOn(V, Via(i), i, Added(m))
  BY NotEvents DEF Moves
<1>3. ~On(V, c, m, Welcome(m)) /\ ~On(V, Via(i), i, Added(m))
  BY <1>1 DEF StageOK
<1>4. ~IsClient(C, m)
  BY DEF StageOK, Token
<1> QED BY <1>1, <1>2, <1>3, <1>4 DEF StageOK

\* A crash leaves the invitations of everybody else as they were.
LEMMA CrashStill ==
  ASSUME Inv, NEW n \in Node, n # Broker, n \in alive, NEW V, NEW T, NEW m \in Guests,
         DOMAIN V = DOMAIN wire, shut \subseteq T,
         \A s \in T : s \in shut \/ LostEnd(n, s), ~Orphaned(n, m)
  PROVE Still(ctl, ctl, wire, V, shut, T, alive \ {n}, {}, m)
<1>1. Inviter[m] \in Node /\ m \in Node /\ m # Broker
  BY Constants
<1>2. \A x : ~Intro(Invitation(x)) /\ ~Intro(Client(x))
  BY BetweenFacts DEF Intro
<1>3. ASSUME NEW e, <<Invitation(m), e>> \in T PROVE <<Invitation(m), e>> \in shut
  <2>1. \A x, y : Invitation(m) # Client(x)
    BY ChannelsDiffer
  <2>2. \A x : <<Invitation(m), e>> # <<Client(x), x>>
    BY <2>1
  <2>3. ~LostEnd(n, <<Invitation(m), e>>)
    BY <1>2, <2>2 DEF LostEnd
  <2> QED BY <1>3, <2>3
<1>4. ASSUME NEW e, <<Client(m), e>> \in T PROVE <<Client(m), e>> \in shut
  <2>1. SUFFICES ASSUME LostEnd(n, <<Client(m), e>>) PROVE FALSE
    BY <1>4
  <2>2. <<Client(m), e>>[1] = Client(m)
    OBVIOUS
  <2>3. \A x : <<Client(m), e>> = <<Client(x), x>> => x = m
    BY ChannelsDiffer
  <2>4. CASE \E x \in Guests : /\ <<Client(m), e>> = <<Client(x), x>> /\ Inviter[x] = n
                               /\ n \in Guests /\ On(wire, Via(n), n, Added(x))
    BY <2>3, <2>4 DEF Orphaned
  <2>5. CASE /\ <<Client(m), e>> = <<Client(n), n>> /\ n \in Guests /\ Inviter[n] # Broker
             /\ On(wire, Invitation(n), n, Welcome(n))
    BY <2>3, <2>5 DEF Orphaned
  <2> QED BY <1>2, <2>1, <2>2, <2>4, <2>5 DEF LostEnd
<1> QED BY <1>1, <1>3, <1>4 DEF Still

\* A process dies.
LEMMA CrashStep ==
  ASSUME Inv, Broker \in alive', NEW n \in Node, Crash(n)
  PROVE Inv'
<1>1. /\ Typed' /\ ctl' = ctl /\ merge' = merge /\ send' = send /\ alive' = alive \ {n} /\ n \in alive
      /\ DOMAIN wire' = DOMAIN wire
      /\ \A a, b : Queue(wire', a, b) = IF b = n THEN << >> ELSE Queue(wire, a, b)
      /\ shut \subseteq shut'
      /\ \A s \in shut' : s \in shut \/ (LostEnd(n, s) /\ s[1] \in DOMAIN wire)
  BY CrashFacts
<1>2. n # Broker /\ Broker \in alive /\ alive' \subseteq alive
  BY <1>1
<1>3. /\ \A a, y : ~On(wire', a, n, y) /\ OneOn(wire', a, n, y)
      /\ \A a, b, y : b # n => /\ On(wire', a, b, y) <=> On(wire, a, b, y)
                               /\ OneOn(wire', a, b, y) <=> OneOn(wire, a, b, y)
  BY <1>1, InNone DEF On, OneOn
<1>4. Moves(wire, wire', {})
  BY <1>3 DEF Moves
<1>5. Holds(wire, wire', alive') /\ SameFirst(wire, wire', alive')
  BY <1>1, <1>3 DEF Holds, SameFirst
<1>6. /\ WaitsOK(ctl, send, merge) /\ AwaitsOK(ctl, wire, send, alive) /\ LostOK(ctl, shut, alive)
      /\ MeetsOK(ctl, wire, shut, alive) /\ AllFit(wire) /\ PeersOK(ctl, wire) /\ Numbered(wire)
      /\ AsksOK(ctl, wire, alive) /\ WireType(wire) /\ \A s \in shut : s[1] \in DOMAIN wire
  BY TypedFacts DEF Inv
<1>7. ASSUME NEW m \in Guests
      PROVE \/ Still(ctl, ctl', wire, wire', shut, shut', alive', {}, m)
            \/ /\ NameOK(ctl', wire', m) /\ StageOK(ctl', wire', shut', alive', m)
               /\ LinkOK(ctl', wire', shut', alive', m)
  <2>1. NameOK(ctl, wire, m) /\ StageOK(ctl, wire, shut, alive, m)
    BY GuestFacts
  <2>2. CASE Orphaned(n, m)
    <3>1. StageOK(ctl, wire', shut', alive', m) /\ ~IsClient(ctl, m)
      BY <1>1, <1>3, <1>4, <2>1, <2>2, OrphanStage DEF Orphaned
    <3>2. NameOK(ctl, wire', m)
      BY <1>1, <2>1 DEF NameOK
    <3>3. LinkOK(ctl, wire', shut', alive', m)
      BY <1>1, <2>2, <3>1 DEF LinkOK, Orphaned
    <3> QED BY <1>1, <3>1, <3>2, <3>3
  <2>3. CASE ~Orphaned(n, m)
    <3>1. \A s \in shut' : s \in shut \/ LostEnd(n, s)
      BY <1>1
    <3>2. Still(ctl, ctl, wire, wire', shut, shut', alive \ {n}, {}, m)
      BY <1>1, <1>2, <2>3, <3>1, CrashStill
    <3> QED BY <1>1, <3>2
  <2> QED BY <2>2, <2>3
<1>8. WaitsOK(ctl', send', merge')
  BY <1>1, <1>6
<1>9. AwaitsOK(ctl', wire', send', alive')
  <2>1. \A p \in Talks : send[p].at = "asking" => send'[p].at = "asking"
    BY <1>1
  <2>2. \A x \in alive', m \in Node : ctl'[x].queue[m] = ctl[x].queue[m] \/ ctl'[x].queue[m] = << >>
    BY <1>1
  <2> QED BY <1>2, <1>5, <1>6, <2>1, <2>2, AwaitsKept
<1>10. LostOK(ctl', shut', alive')
  BY <1>1, <1>2, <1>6, LostKept
<1>11. MeetsOK(ctl', wire', shut', alive')
  <2>1. ASSUME NEW x \in alive', NEW c, Intro(c), <<c, x>> \in shut' PROVE <<c, x>> \in shut
    <3>1. SUFFICES ASSUME LostEnd(n, <<c, x>>) PROVE FALSE
      BY <1>1, <2>1
    <3>2. \A y : ~Intro(Client(y))
      BY BetweenFacts DEF Intro
    <3>3. \A y : <<c, x>> # <<Client(y), y>>
      BY <2>1, <3>2
    <3>4. <<c, x>>[2] = n
      BY <3>1, <3>3 DEF LostEnd
    <3> QED BY <1>1, <3>4
  <2>2. \A x, m \in alive' : Apart(x, m) => Peer(ctl', x, m) = Peer(ctl, x, m)
    BY <1>1
  <2> QED BY <1>2, <1>5, <1>6, <2>1, <2>2, MeetsKept
<1>12. Numbered(wire')
  BY <1>1, <1>6, NumberedSame
<1>13. AsksNew(ctl', wire, wire', alive', {})
  BY DEF AsksNew
<1>14. \A s \in shut' : s[1] \in DOMAIN wire'
  BY <1>1, <1>6
<1>15. \A a, b, y : <<a, b, y>> \in {} => Fits(a, b, y)
  OBVIOUS
<1>16. /\ ctl'[Broker].inviter = ctl[Broker].inviter /\ ctl'[Broker].boot = ctl[Broker].boot
       /\ ctl'[Broker].broker = ctl[Broker].broker /\ DOMAIN wire \subseteq DOMAIN wire'
       /\ \A x \in Node : \A c \in ctl'[x].invitations :
            c \in ctl[x].invitations \/ NewInvitation(wire, wire', x, c)
       /\ \A x \in Node : IsClient(ctl, x) => IsClient(ctl', x)
       /\ \A x, m \in Node : Peer(ctl', x, m) = Peer(ctl, x, m)
  BY <1>1
<1> QED BY <1>1, <1>2, <1>4, <1>7, <1>8, <1>9, <1>10, <1>11, <1>12, <1>13, <1>14, <1>15, <1>16, Preserve

\* As MeetsKept: an end may be closed, of a channel that is not between two
\* living processes.
LEMMA MeetsOpen ==
  ASSUME NEW C, NEW D, NEW W, NEW S, NEW T, NEW A,
         WireType(W), AllFit(W), PeersOK(C, W), AsksOK(C, W, A), MeetsOK(C, W, S, A),
         \A n, m \in A : Apart(n, m) => Peer(D, n, m) = Peer(C, n, m),
         \A n, m \in A : Apart(n, m) => \A c \in Between(n, m) : <<c, n>> \in T => <<c, n>> \in S
  PROVE MeetsOK(D, W, T, A)
<1>1. SUFFICES ASSUME NEW n \in A, NEW m \in A, Apart(n, m), NEW c, Meets(D, W, n, m, c)
               PROVE Meets(D, W, m, n, c) /\ <<c, n>> \notin T
  BY DEF MeetsOK
<1>2. Apart(m, n)
  BY <1>1 DEF Apart
<1>3. Meets(D, W, n, m, c) <=> Meets(C, W, n, m, c)
  BY <1>1 DEF Meets
<1>4. Meets(D, W, m, n, c) <=> Meets(C, W, m, n, c)
  BY <1>2 DEF Meets
<1>5. Meets(C, W, m, n, c) /\ <<c, n>> \notin S
  BY <1>1, <1>3 DEF MeetsOK
<1>6. c \in Between(n, m)
  BY <1>1, <1>3, MeetsIntro
<1> QED BY <1>1, <1>4, <1>5, <1>6

\* Process n has dropped what it knows under a name, and its end of channel c.
ErrorDropped(n, name, c) ==
  /\ Typed' /\ wire' = wire /\ shut \subseteq shut' /\ <<c, n>> \in shut'
  /\ \A s \in shut' : \/ s \in shut \/ s = <<c, n>>
                      \/ Peer(ctl, n, name) # NoChannel /\ s = <<Peer(ctl, n, name), n>>
  /\ SameOthers(ctl, ctl', n) /\ SameNames(ctl[n], ctl'[n])
  /\ ctl'[n].invitations = ctl[n].invitations \ {name} /\ ctl'[n].lost = ctl[n].lost \cup {name}
  /\ \A y : PeerChannel(ctl'[n], y) = IF y = name THEN NoChannel ELSE PeerChannel(ctl[n], y)
  /\ \A y \in Node : ctl'[n].queue[y] = IF y = name THEN << >> ELSE ctl[n].queue[y]
  /\ \A x \in Node : merge'[x] = merge[x] \/ merge'[x] = "closed"

\* What a channel error changes.
LEMMA DroppedFacts ==
  ASSUME Inv, NEW n \in Node, NEW name \in Names \cup Chan, NEW c \in Chan,
         Commit(DropPeer(Begin, n, name, c)), alive' = alive, send' = send
  PROVE ErrorDropped(n, name, c)
<1> DEFINE r == DropPeer(Begin, n, name, c)
<1>1. /\ Handler(Begin) /\ Begin.ctl = ctl /\ Begin.wire = wire /\ Begin.shut = shut
      /\ Begin.merge = merge /\ alive \subseteq Node /\ send \in [Talks -> Sending]
  BY TypedFacts DEF Inv
<1>2. c # NoChannel /\ c \in Chan \cup {NoChannel}
  BY NoChannelIsNone
<1>3. /\ Handler(r) /\ r.wire = wire
      /\ \A s : s \in r.shut <=> \/ s \in shut \/ s = <<c, n>>
                                 \/ /\ PeerChannel(ctl[n], name) # NoChannel
                                    /\ s = <<PeerChannel(ctl[n], name), n>>
      /\ SameOthers(ctl, r.ctl, n) /\ SameNames(ctl[n], r.ctl[n])
      /\ r.ctl[n].invitations = ctl[n].invitations \ {name} /\ r.ctl[n].lost = ctl[n].lost \cup {name}
      /\ \A y : PeerChannel(r.ctl[n], y) = IF y = name THEN NoChannel ELSE PeerChannel(ctl[n], y)
      /\ \A y \in Node : r.ctl[n].queue[y] = IF y = name THEN << >> ELSE ctl[n].queue[y]
      /\ \A x \in Node : r.merge[x] = merge[x] \/ r.merge[x] = "closed"
  <2>1. PeerDropped(Begin, r, n, name, c)
    BY <1>1, <1>2, DropPeerFacts
  <2> HIDE DEF r
  <2> QED BY <1>1, <1>2, <2>1 DEF PeerDropped
<1> HIDE DEF r
<1>4. Typed' /\ ctl' = r.ctl /\ wire' = r.wire /\ shut' = r.shut /\ merge' = r.merge
  BY <1>1, <1>3, Committed DEF r
<1> QED BY <1>3, <1>4 DEF ErrorDropped, Peer

\* The controllers C and D, before and after that.
Forgets(C, D, n, name) ==
  /\ \A a, y : a \in Node => Peer(D, a, y) = IF a = n /\ y = name THEN NoChannel ELSE Peer(C, a, y)
  /\ \A a \in Node : SameNames(C[a], D[a]) /\ (IsClient(D, a) <=> IsClient(C, a))
  /\ \A a \in Node : D[a].invitations = IF a = n THEN C[n].invitations \ {name}
                                        ELSE C[a].invitations
  /\ \A a \in Node : D[a].lost = IF a = n THEN C[n].lost \cup {name} ELSE C[a].lost
  /\ \A a, y \in Node : D[a].queue[y] = C[a].queue[y] \/ D[a].queue[y] = << >>

\* The same in the words of the invariant.
LEMMA DroppedParts ==
  ASSUME Inv, NEW n \in Node, NEW name, NEW c, ErrorDropped(n, name, c)
  PROVE Forgets(ctl, ctl', n, name)
<1>1. \A a \in Node : a # n => ctl'[a] = ctl[a]
  BY DEF ErrorDropped, SameOthers
<1>2. \A a, y : a \in Node => Peer(ctl', a, y) = IF a = n /\ y = name THEN NoChannel
                                                 ELSE Peer(ctl, a, y)
  BY <1>1 DEF ErrorDropped, Peer
<1>3. \A a \in Node : SameNames(ctl[a], ctl'[a]) /\ (IsClient(ctl', a) <=> IsClient(ctl, a))
  BY <1>1 DEF ErrorDropped, SameNames, IsClient
<1>4. \A a \in Node : ctl'[a].invitations = IF a = n THEN ctl[n].invitations \ {name}
                                            ELSE ctl[a].invitations
  BY <1>1 DEF ErrorDropped
<1>5. \A a \in Node : ctl'[a].lost = IF a = n THEN ctl[n].lost \cup {name} ELSE ctl[a].lost
  BY <1>1 DEF ErrorDropped
<1>6. \A a, y \in Node : ctl'[a].queue[y] = ctl[a].queue[y] \/ ctl'[a].queue[y] = << >>
  BY <1>1 DEF ErrorDropped
<1> QED BY <1>2, <1>3, <1>4, <1>5, <1>6 DEF Forgets

\* Forgetting a dead peer keeps the invariant.
LEMMA DropStep ==
  ASSUME Inv, Broker \in alive, alive' = alive, send' = send, NEW n \in Node, NEW name,
         NEW c \in DOMAIN wire, ErrorDropped(n, name, c), n \in alive,
         Peer(ctl, n, name) # NoChannel => Peer(ctl, n, name) \in DOMAIN wire,
         \A m \in Guests :
           \/ Still(ctl, ctl', wire, wire, shut, shut', alive, {}, m)
           \/ StageOK(ctl', wire, shut', alive, m) /\ LinkOK(ctl', wire, shut', alive, m),
         \A a, b \in alive : Apart(a, b) =>
           /\ Peer(ctl', a, b) = Peer(ctl, a, b)
           /\ \A d \in Between(a, b) : <<d, a>> \in shut' => <<d, a>> \in shut,
         name \in Node => \/ name \notin alive
                          \/ /\ n = Broker /\ name \in Guests /\ Inviter[name] # Broker
                             /\ <<Client(name), name>> \in shut /\ ~IsClient(ctl, name)
  PROVE Inv'
<1>1. /\ WaitsOK(ctl, send, merge) /\ AwaitsOK(ctl, wire, send, alive) /\ LostOK(ctl, shut, alive)
      /\ MeetsOK(ctl, wire, shut, alive) /\ AllFit(wire) /\ PeersOK(ctl, wire) /\ Numbered(wire)
      /\ AsksOK(ctl, wire, alive) /\ WireType(wire) /\ \A s \in shut : s[1] \in DOMAIN wire
      /\ alive \subseteq Node
  BY TypedFacts DEF Inv
<1>2. /\ \A a, y : a \in Node => Peer(ctl', a, y) = IF a = n /\ y = name THEN NoChannel
                                                    ELSE Peer(ctl, a, y)
      /\ \A a \in Node : SameNames(ctl[a], ctl'[a]) /\ (IsClient(ctl', a) <=> IsClient(ctl, a))
      /\ \A a \in Node : ctl'[a].invitations = IF a = n THEN ctl[n].invitations \ {name}
                                               ELSE ctl[a].invitations
      /\ \A a \in Node : ctl'[a].lost = IF a = n THEN ctl[n].lost \cup {name} ELSE ctl[a].lost
      /\ \A a, y \in Node : ctl'[a].queue[y] = ctl[a].queue[y] \/ ctl'[a].queue[y] = << >>
  <2>1. Forgets(ctl, ctl', n, name)
    BY DroppedParts
  <2> QED BY <2>1 DEF Forgets
<1>3. /\ Typed' /\ wire' = wire /\ shut \subseteq shut'
      /\ \A s \in shut' : \/ s \in shut \/ s = <<c, n>>
                          \/ Peer(ctl, n, name) # NoChannel /\ s = <<Peer(ctl, n, name), n>>
      /\ \A x \in Node : merge'[x] = merge[x] \/ merge'[x] = "closed"
  BY DEF ErrorDropped
<1>4. WaitsOK(ctl', send', merge')
  <2>1. \A p \in Talks : send'[p].at = "idle" \/ (send[p].at # "idle" /\ send'[p].via = send[p].via)
    OBVIOUS
  <2>2. \A a, m \in Node :
          /\ ctl'[a].queue[m] = ctl[a].queue[m] \/ ctl'[a].queue[m] = << >>
          /\ \/ Peer(ctl', a, m) = Peer(ctl, a, m) \/ Peer(ctl', a, m) = NoChannel
             \/ ctl'[a].queue[m] = << >>
    BY <1>2
  <2>3. \A m \in Node : merge'[m] = merge[m] \/ merge'[m] # "sending"
    BY <1>3
  <2>4. \A a \in Node : IsClient(ctl, a) => IsClient(ctl', a)
    BY <1>2
  <2> QED BY <1>1, <2>1, <2>2, <2>3, <2>4, WaitsKept
<1>5. AwaitsOK(ctl', wire', send', alive')
  <2>1. \A p \in Talks : send[p].at = "asking" => send'[p].at = "asking"
    OBVIOUS
  <2>2. \A x \in alive, m \in Node : ctl'[x].queue[m] = ctl[x].queue[m] \/ ctl'[x].queue[m] = << >>
    BY <1>1, <1>2
  <2>3. Holds(wire, wire', alive) /\ alive \subseteq alive
    BY <1>3 DEF Holds
  <2> QED BY <1>1, <2>1, <2>2, <2>3, AwaitsKept
<1>6. LostOK(ctl', shut', alive')
  <2>1. SUFFICES ASSUME NEW a \in alive, NEW x \in ctl'[a].lost \cap Node
                 PROVE x \notin alive \/ (a = Broker /\ x \in Guests /\ Inviter[x] # Broker
                                          /\ <<Client(x), x>> \in shut' /\ ~IsClient(ctl', x))
    BY DEF LostOK
  <2>2. a \in Node /\ (IsClient(ctl', x) <=> IsClient(ctl, x))
    BY <1>1, <1>2
  <2>3. CASE x \in ctl[a].lost
    BY <1>1, <1>3, <2>1, <2>2, <2>3 DEF LostOK
  <2>4. CASE a = n /\ x = name
    BY <1>3, <2>1, <2>2, <2>4
  <2> QED BY <1>2, <2>1, <2>2, <2>3, <2>4
<1>7. MeetsOK(ctl', wire', shut', alive')
  <2>1. MeetsOK(ctl', wire, shut', alive)
    BY <1>1, MeetsOpen
  <2> QED BY <1>3, <2>1
<1>8. ASSUME NEW m \in Guests
      PROVE \/ Still(ctl, ctl', wire, wire', shut, shut', alive', {}, m)
            \/ /\ NameOK(ctl', wire', m) /\ StageOK(ctl', wire', shut', alive', m)
               /\ LinkOK(ctl', wire', shut', alive', m)
  <2>1. NameOK(ctl, wire, m) /\ m \in Node /\ Inviter[m] \in Node
    BY GuestFacts, Constants
  <2>2. NameOK(ctl', wire, m)
    BY <1>2, <2>1 DEF NameOK, SameNames, IsClient
  <2> QED BY <1>3, <2>2
<1>9. Moves(wire, wire', {})
  BY <1>3, MovesNone
<1>10. \A s \in shut' : s[1] \in DOMAIN wire'
  BY <1>1, <1>3
<1>11. AsksNew(ctl', wire, wire', alive', {}) /\ Numbered(wire') /\ DOMAIN wire \subseteq DOMAIN wire'
  BY <1>1, <1>3 DEF AsksNew
<1>12. /\ ctl'[Broker].inviter = ctl[Broker].inviter /\ ctl'[Broker].boot = ctl[Broker].boot
       /\ ctl'[Broker].broker = ctl[Broker].broker
  BY <1>2, Constants DEF SameNames
<1>13. /\ \A x \in Node : \A d \in ctl'[x].invitations :
            d \in ctl[x].invitations \/ NewInvitation(wire, wire', x, d)
       /\ \A x \in Node : IsClient(ctl, x) => IsClient(ctl', x)
       /\ \A x, m \in Node : Peer(ctl', x, m) = Peer(ctl, x, m) \/ Peer(ctl', x, m) = NoChannel
  BY <1>2
<1>14. ~Intro(NoChannel)
  BY BetweenFacts DEF Intro
<1>15. \A x, m \in Node : Peer(ctl', x, m) = Peer(ctl, x, m) \/ ~Intro(Peer(ctl', x, m))
  BY <1>13, <1>14
<1>16. alive' \subseteq alive /\ Broker \in alive' /\ \A a, b, y : <<a, b, y>> \in {} => Fits(a, b, y)
  OBVIOUS
<1> QED BY <1>3, <1>4, <1>5, <1>6, <1>7, <1>8, <1>9, <1>10, <1>11, <1>12, <1>13, <1>15, <1>16, Preserve

\* Temporary names are no names of nodes.
LEMMA TemporaryNames ==
  ASSUME NEW m \in Guests
  PROVE Invitation(m) \notin Node /\ Invitation(m) # NoNode
<1>1. m \in Node
  BY Constants
<1> QED BY <1>1, ConnectionsAssumption DEF Invitation

\* The other end of the channel is at a process that is no more.
LEMMA DropDead ==
  ASSUME Inv, Broker \in alive, alive' = alive, send' = send, NEW n \in Node, n \in alive,
         NEW c \in DOMAIN wire, NEW e \in Node, e \notin alive, Ends(c) = {n, e},
         NEW name \in {e, NoNode}, ErrorDropped(n, name, c)
  PROVE Inv'
<1>0. Broker \in Node /\ PeersOK(ctl, wire) /\ NamesOK(ctl, wire) /\ alive \subseteq Node
  BY Constants, TypedFacts DEF Inv
<1>1. Peer(ctl, n, name) # NoChannel =>
        Peer(ctl, n, name) \in DOMAIN wire /\ Ends(Peer(ctl, n, name)) = {n, e}
  <2>1. CASE name = NoNode
    BY <2>1, NoPeerNoNode
  <2>2. CASE name = e
    BY <1>0, <2>2, PeerEnds
  <2> QED BY <2>1, <2>2
<1>2. shut \subseteq shut' /\ wire' = wire
  BY DEF ErrorDropped
<1>3. ASSUME NEW d, NEW a, <<d, a>> \in shut', <<d, a>> \notin shut
      PROVE a = n /\ Ends(d) = {n, e}
  <2>1. \/ <<d, a>> = <<c, n>>
        \/ Peer(ctl, n, name) # NoChannel /\ <<d, a>> = <<Peer(ctl, n, name), n>>
    BY <1>3 DEF ErrorDropped
  <2> QED BY <1>1, <2>1
<1>4. /\ \A a, y : a \in Node => Peer(ctl', a, y) = IF a = n /\ y = name THEN NoChannel
                                                    ELSE Peer(ctl, a, y)
      /\ \A a \in Node : SameNames(ctl[a], ctl'[a]) /\ (IsClient(ctl', a) <=> IsClient(ctl, a))
      /\ \A a \in Node : ctl'[a].invitations = IF a = n THEN ctl[n].invitations \ {name}
                                               ELSE ctl[a].invitations
  <2>1. Forgets(ctl, ctl', n, name)
    BY DroppedParts
  <2> QED BY <2>1 DEF Forgets
<1>5. name \notin ctl[n].invitations
  <2>1. \A d \in ctl[n].invitations : \E m \in Guests : d = Invitation(m)
    BY <1>0 DEF NamesOK
  <2> QED BY <2>1, TemporaryNames
<1>6. \A a \in Node : ctl'[a].invitations = ctl[a].invitations
  BY <1>4, <1>5
<1>7. name \notin alive
  BY <1>0, Constants
<1>8. \A a, y \in alive : Peer(ctl', a, y) = Peer(ctl, a, y)
  BY <1>0, <1>4, <1>7
<1>9. ASSUME NEW d, NEW a \in alive, NEW b \in alive, Ends(d) = {a, b}, <<d, a>> \in shut'
      PROVE <<d, a>> \in shut
  BY <1>3, <1>9
<1>10. ASSUME NEW m \in Guests
       PROVE Still(ctl, ctl', wire, wire, shut, shut', alive, {}, m)
  <2>1. m \in Node /\ Inviter[m] \in Node /\ m # Broker
    BY Constants
  <2>2. Ends(Invitation(m)) = {Inviter[m], m} /\ Ends(Client(m)) = {Broker, m}
    BY InvitationFacts
  <2>3. <<Client(m), m>> \in shut' => <<Client(m), m>> \in shut
    BY <1>3, <2>1, <2>2
  <2>4. m \in alive => /\ <<Client(m), Broker>> \in shut' => <<Client(m), Broker>> \in shut
                       /\ Peer(ctl', Broker, m) = Peer(ctl, Broker, m)
                       /\ Peer(ctl', m, Broker) = Peer(ctl, m, Broker)
    BY <1>8, <1>9, <2>2
  <2>5. m \in alive /\ Inviter[m] \in alive =>
          /\ <<Invitation(m), Inviter[m]>> \in shut' => <<Invitation(m), Inviter[m]>> \in shut
          /\ <<Invitation(m), m>> \in shut' => <<Invitation(m), m>> \in shut
          /\ Peer(ctl', Inviter[m], m) = Peer(ctl, Inviter[m], m)
          /\ Peer(ctl', m, Inviter[m]) = Peer(ctl, m, Inviter[m])
    BY <1>8, <1>9, <2>2
  <2> QED BY <1>2, <1>4, <1>6, <2>1, <2>3, <2>4, <2>5 DEF Still, SameNames
<1>11. ASSUME NEW a \in alive, NEW b \in alive, Apart(a, b)
       PROVE /\ Peer(ctl', a, b) = Peer(ctl, a, b)
             /\ \A d \in Between(a, b) : <<d, a>> \in shut' => <<d, a>> \in shut
  <2>1. \A d \in Between(a, b) : Ends(d) = {a, b}
    BY <1>11, BetweenFacts DEF Apart
  <2> QED BY <1>8, <1>9, <2>1
<1> QED BY <1>1, <1>7, <1>10, <1>11, DropStep

\* An invitation that was not answered.
LEMMA DropInvitation ==
  ASSUME Inv, Broker \in alive, alive' = alive, send' = send, NEW m \in Guests, Inviter[m] \in alive,
         Invitation(m) \in DOMAIN wire, m \notin alive, Queue(wire, Invitation(m), Inviter[m]) = << >>,
         Invitation(m) \in ctl[Inviter[m]].invitations,
         ErrorDropped(Inviter[m], Invitation(m), Invitation(m))
  PROVE Inv'
<1> DEFINE n == Inviter[m]
           c == Invitation(m)
<1>0. /\ n \in Node /\ m \in Node /\ Broker \in Node /\ alive \subseteq Node
      /\ c \notin Node /\ ctl[n] \in Controller
  BY Constants, TypedFacts, TemporaryNames DEF Inv
<1>1. Peer(ctl, n, c) = NoChannel
  <2>1. ctl[n].peers \in PeerMaps
    BY <1>0 DEF Controller
  <2>2. DOMAIN ctl[n].peers \subseteq Node
    BY <2>1 DEF PeerMaps
  <2> QED BY <1>0, <2>2 DEF Peer, PeerChannel
<1>2. shut \subseteq shut' /\ wire' = wire /\ <<c, n>> \in shut'
  BY DEF ErrorDropped
<1>3. \A s \in shut' : s \in shut \/ s = <<c, n>>
  BY <1>1 DEF ErrorDropped
<1>4. /\ \A a, y \in Node : Peer(ctl', a, y) = Peer(ctl, a, y)
      /\ \A a \in Node : SameNames(ctl[a], ctl'[a]) /\ (IsClient(ctl', a) <=> IsClient(ctl, a))
      /\ \A a \in Node : ctl'[a].invitations = IF a = n THEN ctl[n].invitations \ {c}
                                               ELSE ctl[a].invitations
  <2>1. Forgets(ctl, ctl', n, c)
    BY <1>0, DroppedParts
  <2> QED BY <1>0, <2>1 DEF Forgets
<1>5. \A d, a : d # c /\ <<d, a>> \in shut' => <<d, a>> \in shut
  BY <1>3
<1>6. ASSUME NEW x \in Guests, x # m
      PROVE Still(ctl, ctl', wire, wire, shut, shut', alive, {}, x)
  <2>1. x \in Node /\ Inviter[x] \in Node
    BY Constants
  <2>2. Invitation(x) # c /\ Client(x) # c
    BY <1>6, ChannelsDiffer
  <2>3. \A a : /\ <<Invitation(x), a>> \in shut' => <<Invitation(x), a>> \in shut
               /\ <<Client(x), a>> \in shut' => <<Client(x), a>> \in shut
    BY <1>5, <2>2
  <2>4. Invitation(x) \in ctl'[Inviter[x]].invitations <=> Invitation(x) \in ctl[Inviter[x]].invitations
    BY <1>4, <2>1, <2>2
  <2> QED BY <1>0, <1>2, <1>4, <2>1, <2>3, <2>4 DEF Still, SameNames
<1>7. StageOK(ctl, wire, shut, alive, m)
  BY GuestFacts
<1>8. ~On(wire, c, n, Reply(m))
  BY InNone DEF On
<1>9. /\ ~On(wire, c, m, Welcome(m)) /\ ~IsClient(ctl, m) /\ Client(m) \notin DOMAIN wire
      /\ n # Broker => ~On(wire, Via(n), Broker, AskFor(m)) /\ ~On(wire, Via(n), n, Added(m))
  BY <1>7 DEF StageOK, Token
<1>10. StageOK(ctl', wire, shut', alive, m)
  BY <1>0, <1>2, <1>4, <1>7, <1>8, <1>9 DEF StageOK, SameNames
<1>11. LinkOK(ctl', wire, shut', alive, m)
  BY DEF LinkOK
<1>12. ASSUME NEW a \in alive, NEW b \in alive, Apart(a, b)
       PROVE /\ Peer(ctl', a, b) = Peer(ctl, a, b)
             /\ \A d \in Between(a, b) : <<d, a>> \in shut' => <<d, a>> \in shut
  <2>1. \A d \in Between(a, b) : d # c
    BY <1>12, BetweenFacts DEF Apart
  <2> QED BY <1>0, <1>4, <1>5, <2>1
<1> HIDE DEF c, n
<1>13. ErrorDropped(n, c, c) /\ c \in DOMAIN wire /\ n \in alive
  BY DEF c, n
<1> QED BY <1>0, <1>1, <1>6, <1>10, <1>11, <1>12, <1>13, DropStep

\* A client of the broker whose end of the channel was lost on the way to it.
LEMMA DropOrphan ==
  ASSUME Inv, Broker \in alive, alive' = alive, send' = send, NEW m \in Guests, m \in alive,
         Client(m) \in DOMAIN wire, <<Client(m), m>> \in shut, ErrorDropped(Broker, m, Client(m))
  PROVE Inv'
<1> DEFINE c == Client(m)
<1>0. /\ Broker \in Node /\ m \in Node /\ alive \subseteq Node /\ PeersOK(ctl, wire)
      /\ Inviter[m] \in Node /\ m # Broker
  BY Constants, TypedFacts DEF Inv
<1>1. StageOK(ctl, wire, shut, alive, m) /\ LinkOK(ctl, wire, shut, alive, m)
  BY GuestFacts
<1>2. Inviter[m] # Broker
  BY <1>1 DEF StageOK
<1>3. ~IsClient(ctl, m)
  BY <1>1, <1>2 DEF LinkOK, Via
<1>4. Peer(ctl, Broker, m) \in {NoChannel, c}
  <2>1. PeerOK(ctl, wire, Broker, m)
    BY <1>0 DEF PeersOK
  <2> QED BY <1>0, <1>2, <2>1 DEF PeerOK
<1>5. shut \subseteq shut' /\ wire' = wire /\ \A s \in shut' : s \in shut \/ s = <<c, Broker>>
  BY <1>4 DEF ErrorDropped
<1>6. /\ \A a, y \in Node : Peer(ctl', a, y) = IF a = Broker /\ y = m THEN NoChannel
                                               ELSE Peer(ctl, a, y)
      /\ \A a \in Node : SameNames(ctl[a], ctl'[a]) /\ (IsClient(ctl', a) <=> IsClient(ctl, a))
      /\ \A a \in Node : ctl'[a].invitations = IF a = Broker THEN ctl[Broker].invitations \ {m}
                                               ELSE ctl[a].invitations
  <2>1. Forgets(ctl, ctl', Broker, m)
    BY <1>0, DroppedParts
  <2> QED BY <1>0, <2>1 DEF Forgets
<1>7. \A a \in Node : ctl'[a].invitations = ctl[a].invitations
  <2>1. \A d \in ctl[Broker].invitations : \E x \in Guests : d = Invitation(x)
    BY <1>0 DEF Inv, NamesOK
  <2>2. m \notin ctl[Broker].invitations
    BY <1>0, <2>1, TemporaryNames
  <2> QED BY <1>6, <2>2
<1>8. \A d, a : d # c \/ a # Broker => (<<d, a>> \in shut' => <<d, a>> \in shut)
  BY <1>5
<1>9. ASSUME NEW x \in Guests, x # m
      PROVE Still(ctl, ctl', wire, wire, shut, shut', alive, {}, x)
  <2>1. x \in Node /\ Inviter[x] \in Node /\ x # Broker
    BY Constants
  <2>2. Invitation(x) # c /\ Client(x) # c
    BY <1>9, ChannelsDiffer
  <2>3. \A a : /\ <<Invitation(x), a>> \in shut' => <<Invitation(x), a>> \in shut
               /\ <<Client(x), a>> \in shut' => <<Client(x), a>> \in shut
    BY <1>8, <2>2
  <2>4. /\ Peer(ctl', Broker, x) = Peer(ctl, Broker, x) /\ Peer(ctl', x, Broker) = Peer(ctl, x, Broker)
        /\ Peer(ctl', Inviter[x], x) = Peer(ctl, Inviter[x], x)
        /\ Peer(ctl', x, Inviter[x]) = Peer(ctl, x, Inviter[x])
    BY <1>0, <1>6, <1>9, <2>1
  <2> QED BY <1>0, <1>5, <1>6, <1>7, <2>1, <2>3, <2>4 DEF Still, SameNames
<1>10. ~Token(ctl, wire, shut, alive, m)
  BY <1>2 DEF Token
<1>11. ~On(wire, Invitation(m), m, Welcome(m)) /\ ~On(wire, Via(Inviter[m]), Inviter[m], Added(m))
  BY <1>1, <1>2, <1>10 DEF StageOK
<1>12. StageOK(ctl', wire, shut', alive, m)
  BY <1>0, <1>1, <1>5, <1>6, <1>7, <1>11 DEF StageOK, SameNames
<1>13. LinkOK(ctl', wire, shut', alive, m)
  <2>1. Invitation(m) # c
    BY ChannelsDiffer
  <2>2. \A a : <<Invitation(m), a>> \in shut' => <<Invitation(m), a>> \in shut
    BY <1>8, <2>1
  <2> QED BY <1>0, <1>1, <1>2, <1>3, <1>6, <1>7, <2>2 DEF LinkOK
<1>14. ASSUME NEW a \in alive, NEW b \in alive, Apart(a, b)
       PROVE /\ Peer(ctl', a, b) = Peer(ctl, a, b)
             /\ \A d \in Between(a, b) : <<d, a>> \in shut' => <<d, a>> \in shut
  <2>1. \A d \in Between(a, b) : d # c
    BY <1>14, BetweenFacts DEF Apart
  <2>2. a # Broker
    BY <1>14, Constants DEF Apart
  <2> QED BY <1>0, <1>6, <1>8, <2>1, <2>2
<1>15. Peer(ctl, Broker, m) # NoChannel => Peer(ctl, Broker, m) \in DOMAIN wire
  BY <1>4
<1> QED BY <1>0, <1>2, <1>3, <1>9, <1>12, <1>13, <1>14, <1>15, DropStep

\* The process at the other end of a channel that fails.
Failed(n, c, e) == e \notin alive \/ <<c, e>> \in shut

\* The channel of an invitation fails only when the other process is dead.
LEMMA InvitationFails ==
  ASSUME Inv, Broker \in alive, NEW m \in Guests, Invitation(m) \in DOMAIN wire,
         NEW n, NEW e, {n, e} = {Inviter[m], m}, n \in alive, Failed(n, Invitation(m), e)
  PROVE e \notin alive
<1>1. LinkOK(ctl, wire, shut, alive, m)
  BY GuestFacts
<1> QED BY <1>1 DEF LinkOK, Failed

\* A client's channel to a living broker does not fail.
LEMMA ClientFails ==
  ASSUME Inv, Broker \in alive, NEW m \in Guests, Client(m) \in Open(m), Failed(m, Client(m), Broker)
  PROVE FALSE
<1>1. m \in Node /\ m # Broker
  BY Constants
<1>2. /\ m \in alive
      /\ \/ \E y \in Node : Peer(ctl, m, y) = Client(m)
         \/ m \in Guests /\ Client(m) = Invitation(m) /\ Client(m) = ctl[m].boot
         \/ Client(m) \in ctl[m].invitations
  BY <1>1, OpenFacts
<1>3. \A x : Client(m) # Invitation(x)
  BY ChannelsDiffer
<1>4. \A d \in ctl[m].invitations : \E x \in Guests : d = Invitation(x)
  BY <1>1 DEF Inv, NamesOK
<1>5. PICK y \in Node : Peer(ctl, m, y) = Client(m)
  BY <1>2, <1>3, <1>4
<1>6. PeerOK(ctl, wire, m, y) /\ Client(m) # NoChannel
  BY <1>1, InvitationFacts DEF Inv, PeersOK
<1>7. ASSUME m # Broker, y # Broker PROVE Client(m) \notin Between(m, y)
  BY <1>1, <1>7, Constants, BetweenFacts
<1>8. IsClient(ctl, m) /\ Inviter[m] # Broker
  BY <1>1, <1>3, <1>5, <1>6, <1>7 DEF PeerOK
<1>9. LinkOK(ctl, wire, shut, alive, m)
  BY GuestFacts
<1>10. <<Client(m), Broker>> \notin shut
  BY <1>2, <1>8, <1>9 DEF LinkOK, Via
<1> QED BY <1>10 DEF Failed

\* A channel of an introduction, between processes that know each other.
LEMMA IntroOpen ==
  ASSUME Inv, NEW n \in Node, NEW c \in Open(n), Intro(c)
  PROVE \E m \in Guests : /\ Peer(ctl, n, m) = c /\ c \in Between(n, m) /\ n # m /\ n \in Guests
                          /\ IsClient(ctl, n) /\ IsClient(ctl, m)
<1>1. /\ c \in DOMAIN wire
      /\ \/ \E m \in Node : Peer(ctl, n, m) = c
         \/ n \in Guests /\ c = Invitation(n) /\ c = ctl[n].boot
         \/ c \in ctl[n].invitations
  BY OpenFacts
<1>2. \A x : c # Invitation(x) /\ c # Client(x)
  BY BetweenFacts DEF Intro
<1>3. c # NoChannel
  BY BetweenFacts DEF Intro
<1>4. \A d \in ctl[n].invitations : \E x \in Guests : d = Invitation(x)
  BY DEF Inv, NamesOK
<1>5. PICK m \in Node : Peer(ctl, n, m) = c
  BY <1>1, <1>2, <1>4
<1>6. PeerOK(ctl, wire, n, m)
  BY DEF Inv, PeersOK
<1>7. /\ n # Broker /\ m # Broker /\ c \in Between(n, m) /\ n # m
      /\ IsClient(ctl, n) /\ IsClient(ctl, m)
  BY <1>2, <1>3, <1>5, <1>6 DEF PeerOK
<1> QED BY <1>5, <1>7, Constants

\* The channel of an introduction in use fails only when the other process is dead.
LEMMA IntroFails ==
  ASSUME Inv, Broker \in alive, NEW n \in Guests, NEW m \in Guests, n # m, n \in alive,
         NEW c \in Between(n, m), Peer(ctl, n, m) = c, IsClient(ctl, n), IsClient(ctl, m),
         Failed(n, c, m)
  PROVE m \notin alive
<1>1. SUFFICES ASSUME m \in alive PROVE FALSE
  OBVIOUS
<1>2. /\ NameOK(ctl, wire, n) /\ LinkOK(ctl, wire, shut, alive, n)
      /\ NameOK(ctl, wire, m) /\ LinkOK(ctl, wire, shut, alive, m) /\ StageOK(ctl, wire, shut, alive, m)
  BY GuestFacts
<1>3. n # Broker /\ m # Broker
  BY Constants
<1>4. Invitation(n) \in DOMAIN wire /\ Invitation(m) \in DOMAIN wire
  BY <1>2, <1>3 DEF NameOK, IsClient
<1>5. c # Invitation(n) /\ c # Invitation(m) /\ c # NoChannel
  BY BetweenFacts
<1>6. Inviter[n] # m
  BY <1>1, <1>2, <1>4, <1>5 DEF LinkOK
<1>7. Inviter[m] # n
  BY <1>1, <1>2, <1>4, <1>5 DEF LinkOK, StageOK
<1>8. Apart(n, m) /\ Apart(m, n)
  BY <1>6, <1>7 DEF Apart
<1>9. MeetsOK(ctl, wire, shut, alive)
  BY DEF Inv
<1>10. Meets(ctl, wire, n, m, c)
  BY <1>5 DEF Meets
<1>11. Meets(ctl, wire, m, n, c)
  BY <1>1, <1>8, <1>9, <1>10 DEF MeetsOK
<1>12. <<c, m>> \notin shut
  BY <1>1, <1>8, <1>9, <1>11 DEF MeetsOK
<1> QED BY <1>1, <1>12 DEF Failed

\* A process hears that a channel has failed (OnChannelError).
LEMMA ChannelErrorStep ==
  ASSUME Inv, Broker \in alive, NEW n \in Node, NEW c \in Open(n), OnChannelError(n, c)
  PROVE Inv'
<1>1. /\ n \in alive /\ c \in DOMAIN wire /\ c \in Chan /\ n \in Ends(c) /\ <<c, n>> \notin shut
  BY OpenFacts
<1>2. /\ wire[c][n] = << >> /\ Gone(Begin, c, OtherEnd(c, n))
      /\ Commit(DropPeer(Begin, n, RemoteName(n, c), c)) /\ alive' = alive /\ send' = send
  BY DEF OnChannelError
<1>3. Failed(n, c, OtherEnd(c, n))
  BY <1>2 DEF Failed, Gone, Begin
<1>4. ASSUME NEW name \in Names \cup Chan, RemoteName(n, c) = name PROVE ErrorDropped(n, name, c)
  BY <1>1, <1>2, <1>4, DroppedFacts
<1>5. Node \subseteq Names /\ NoNode \in Names
  BY DEF Names
<1>6. ASSUME NEW m \in Guests, c = Invitation(m) PROVE Inv'
  <2>1. /\ Ends(c) = {Inviter[m], m} /\ NameOK(ctl, wire, m) /\ Inviter[m] \in Node /\ m \in Node
    BY <1>6, InvitationFacts, GuestFacts, Constants
  <2>2. Inviter[m] # m
    BY <1>1, <1>6, <2>1 DEF NameOK
  <2>3. CASE n = m
    <3>1. OtherEnd(c, n) = Inviter[m]
      BY <1>1, <2>1, <2>2, <2>3, OtherEndOf
    <3>2. Inviter[m] \notin alive
      BY <1>1, <1>3, <1>6, <2>3, <3>1, InvitationFails
    <3>3. RemoteName(n, c) = ctl[m].inviter
      BY <1>6, <2>3, RemoteNames
    <3>4. ctl[m].inviter \in {Inviter[m], NoNode}
      BY <2>1 DEF NameOK
    <3>5. ErrorDropped(n, ctl[m].inviter, c)
      BY <1>4, <1>5, <2>1, <3>3, <3>4
    <3> QED BY <1>1, <1>2, <2>1, <2>3, <3>2, <3>4, <3>5, DropDead
  <2>4. CASE n = Inviter[m]
    <3>1. OtherEnd(c, n) = m
      BY <1>1, <2>1, <2>2, <2>4, OtherEndOf
    <3>2. m \notin alive
      BY <1>1, <1>3, <1>6, <2>4, <3>1, InvitationFails
    <3>3. RemoteName(n, c) = IF c \in ctl[n].invitations THEN c ELSE m
      BY <1>1, <1>6, <2>4, RemoteNames
    <3>4. CASE c \in ctl[n].invitations
      <4>1. ErrorDropped(n, c, c)
        BY <1>1, <1>4, <3>3, <3>4
      <4>2. Queue(wire, c, n) = << >>
        BY <1>2 DEF Queue
      <4> QED BY <1>1, <1>2, <1>6, <2>4, <3>2, <3>4, <4>1, <4>2, DropInvitation
    <3>5. CASE c \notin ctl[n].invitations
      <4>1. ErrorDropped(n, m, c)
        BY <1>4, <1>5, <2>1, <3>3, <3>5
      <4> QED BY <1>1, <1>2, <2>1, <2>4, <3>2, <4>1, DropDead
    <3> QED BY <3>4, <3>5
  <2> QED BY <1>1, <2>1, <2>3, <2>4
<1>7. ASSUME NEW m \in Guests, c = Client(m) PROVE Inv'
  <2>1. Ends(c) = {Broker, m} /\ Broker \in Node /\ m \in Node /\ m # Broker
    BY <1>7, InvitationFacts, Constants
  <2>2. CASE n = m
    <3>0. Ends(c) = {n, Broker} /\ n # Broker
      BY <2>1, <2>2
    <3>1. OtherEnd(c, n) = Broker
      BY <1>1, <3>0, OtherEndOf
    <3> QED BY <1>3, <1>7, <2>2, <3>1, ClientFails
  <2>3. CASE n = Broker
    <3>1. OtherEnd(c, n) = m
      BY <1>1, <2>1, <2>3, OtherEndOf
    <3>2. RemoteName(n, c) = m
      BY <1>1, <1>7, <2>3, RemoteNames
    <3>3. ErrorDropped(n, m, c)
      BY <1>4, <1>5, <2>1, <3>2
    <3>4. CASE m \notin alive
      BY <1>1, <1>2, <2>1, <2>3, <3>3, <3>4, DropDead
    <3>5. CASE m \in alive
      <4>1. <<Client(m), m>> \in shut
        BY <1>3, <1>7, <3>1, <3>5 DEF Failed
      <4> QED BY <1>1, <1>2, <1>7, <2>3, <3>3, <3>5, <4>1, DropOrphan
    <3> QED BY <3>4, <3>5
  <2> QED BY <1>1, <2>1, <2>2, <2>3
<1>8. ASSUME Intro(c) PROVE Inv'
  <2>1. PICK m \in Guests : /\ Peer(ctl, n, m) = c /\ c \in Between(n, m) /\ n # m /\ n \in Guests
                            /\ IsClient(ctl, n) /\ IsClient(ctl, m)
    BY <1>8, IntroOpen
  <2>2. Ends(c) = {n, m} /\ m \in Node
    BY <2>1, BetweenFacts, Constants
  <2>3. OtherEnd(c, n) = m
    BY <1>1, <2>1, <2>2, OtherEndOf
  <2>4. m \notin alive
    BY <1>1, <1>3, <2>1, <2>3, IntroFails
  <2>5. RemoteName(n, c) = m
    BY <1>1, <2>1, RemoteNames
  <2>6. ErrorDropped(n, m, c)
    BY <1>4, <1>5, <2>2, <2>5
  <2> QED BY <1>1, <1>2, <2>2, <2>4, <2>6, DropDead
<1> QED BY <1>1, <1>6, <1>7, <1>8, ChannelKinds DEF Intro

-----------------------------------------------------------------------------
(***************************************************************************)
(* The invariant.                                                          *)
(***************************************************************************)
\* At first there are no channels, and nobody knows anybody.
LEMMA InitTyped ==
  ASSUME Init
  PROVE Typed
<1>1. ctl = [n \in Node |-> NewController]
  BY DEF Init
<1>2. /\ wire = << >> /\ shut = {} /\ alive = Node /\ merge = [n \in Node |-> "none"]
      /\ send = [p \in Talks |-> [at |-> "idle", count |-> 0, via |-> NoChannel]]
  BY DEF Init
<1>3. << >> \in PeerMaps
  <2>1. << >> \in [{} -> Chan]
    OBVIOUS
  <2> QED BY <2>1 DEF PeerMaps
<1>4. << >> \in Seq(Node) /\ << >> \in Seq(Events)
  OBVIOUS
<1>5. [m \in Node |-> << >>] \in [Node -> Seq(Events)]
  BY <1>4
<1>6. NoNode \in Names
  BY DEF Names
<1>7. NewController \in Controller
  BY <1>3, <1>4, <1>5, <1>6 DEF NewController, Controller
<1>8. ctl \in [Node -> Controller]
  BY <1>1, <1>7
<1>9. WireType(wire)
  BY <1>2 DEF WireType
<1>10. merge \in [Node -> Merging] /\ send \in [Talks -> Sending] /\ shut \subseteq Chan \X Node
  BY <1>2 DEF Merging, Sending
<1> QED BY <1>2, <1>8, <1>9, <1>10 DEF Typed, Handler, Begin

\* The invariant holds at the start.
LEMMA InitInv ==
  ASSUME Init
  PROVE Inv
<1>1. Typed
  BY InitTyped
<1>2. /\ \A n \in Node : /\ ctl[n].inviter = NoNode /\ ctl[n].boot = NoChannel
                         /\ ctl[n].broker = NoNode /\ ctl[n].invitations = {} /\ ctl[n].lost = {}
                         /\ ctl[n].peers = << >>
      /\ \A n, m \in Node : ctl[n].queue[m] = << >>
  BY DEF Init, NewController
<1>3. /\ wire = << >> /\ shut = {} /\ alive = Node
      /\ \A m \in Node : merge[m] = "none"
      /\ \A p \in Talks : send[p].at = "idle"
  BY DEF Init
<1>4. DOMAIN wire = {}
  BY <1>3
<1>5. \A c, e, x : ~On(wire, c, e, x) /\ OneOn(wire, c, e, x)
  BY <1>4, NotOn
<1>6. \A n, m \in Node : Peer(ctl, n, m) = NoChannel
  <2>1. \A n \in Node : DOMAIN ctl[n].peers = {}
    BY <1>2
  <2> QED BY <2>1 DEF Peer, PeerChannel
<1>7. AllFit(wire) /\ \A s \in shut : s[1] \in DOMAIN wire
  BY <1>3, <1>5 DEF AllFit
<1>8. Numbered(wire)
  BY <1>4, FS_EmptySet DEF Numbered
<1>9. \A m \in Guests : m \in Node /\ Inviter[m] \in Node /\ m # Broker
  BY Constants
<1>10. NamesOK(ctl, wire)
  BY <1>2, <1>4, <1>9, Constants DEF NamesOK, NameOK
<1>11. PeersOK(ctl, wire)
  BY <1>6 DEF PeersOK, PeerOK
<1>12. \A m \in Guests : ~IsClient(ctl, m)
  BY <1>2, <1>9 DEF IsClient
<1>13. StagesOK(ctl, wire, shut, alive)
  BY <1>4, <1>5, <1>12 DEF StagesOK, StageOK
<1>14. LinksOK(ctl, wire, shut, alive)
  BY <1>4, <1>12 DEF LinksOK, LinkOK
<1>15. AsksOK(ctl, wire, alive)
  BY <1>5 DEF AsksOK
<1>16. WaitsOK(ctl, send, merge)
  BY <1>2, <1>3 DEF WaitsOK
<1>17. AwaitsOK(ctl, wire, send, alive)
  BY <1>2, <1>3 DEF AwaitsOK
<1>18. LostOK(ctl, shut, alive)
  BY <1>2, <1>3 DEF LostOK
<1>19. MeetsOK(ctl, wire, shut, alive)
  <2>1. \A a, b : Queue(wire, a, b) = << >>
    BY <1>4 DEF Queue
  <2>2. \A m, c : ~First(<< >>, m, c)
    BY DEF First
  <2> QED BY <1>3, <1>6, <2>1, <2>2 DEF MeetsOK, Meets
<1> QED BY <1>1, <1>7, <1>8, <1>10, <1>11, <1>13, <1>14, <1>15, <1>16, <1>17, <1>18, <1>19 DEF Inv

\* What the I/O thread of a process does.
LEMMA IOThreadStep ==
  ASSUME Inv, Broker \in alive, NEW n \in Node, IOThread(n)
  PROVE Inv'
<1>1. CASE AcceptBrokerClientInvitation(n)
  BY <1>1, AcceptBrokerClientInvitationStep
<1>2. ASSUME NEW c \in Open(n), OnAcceptInvitee(n, c) PROVE Inv'
  BY <1>2, AcceptInviteeRead
<1>3. ASSUME NEW c \in Open(n), OnAcceptInvitation(n, c) PROVE Inv'
  BY <1>3, AcceptInvitationRead
<1>4. ASSUME NEW c \in Open(n), OnAddBrokerClient(n, c) PROVE Inv'
  BY <1>4, AddBrokerClientRead
<1>5. ASSUME NEW c \in Open(n), OnBrokerClientAdded(n, c) PROVE Inv'
  BY <1>5, BrokerClientAddedRead
<1>6. ASSUME NEW c \in Open(n), OnAcceptBrokerClient(n, c) PROVE Inv'
  BY <1>6, AcceptBrokerClientRead
<1>7. ASSUME NEW c \in Open(n), OnRequestPortMerge(n, c) PROVE Inv'
  BY <1>7, RequestPortMergeRead
<1>8. ASSUME NEW c \in Open(n), OnRequestIntroduction(n, c) PROVE Inv'
  BY <1>8, RequestIntroductionRead
<1>9. ASSUME NEW c \in Open(n), OnIntroduce(n, c) PROVE Inv'
  BY <1>9, IntroduceRead
<1>10. ASSUME NEW c \in Open(n), OnEventMessage(n, c) PROVE Inv'
  BY <1>10, EventMessageStep
<1>11. ASSUME NEW c \in Open(n), OnChannelError(n, c) PROVE Inv'
  BY <1>11, ChannelErrorStep
<1> QED BY <1>1, <1>2, <1>3, <1>4, <1>5, <1>6, <1>7, <1>8, <1>9, <1>10, <1>11 DEF IOThread

\* A step in which the broker does not die.
LEMMA InvStep ==
  ASSUME Inv, Broker \in alive, Broker \in alive', [Next]_vars
  PROVE Inv'
<1>1. CASE UNCHANGED vars
  BY <1>1 DEF vars, Inv, Typed, Begin
<1>2. ASSUME NEW n \in Node, IOThread(n) PROVE Inv'
  BY <1>2, IOThreadStep
<1>3. ASSUME NEW n \in Node, RequestPortMerge(n) PROVE Inv'
  BY <1>3, RequestPortMergeStep
<1>4. ASSUME NEW p \in Talks, QueueEvent(p) PROVE Inv'
  BY <1>4, QueueEventStep
<1>5. ASSUME NEW p \in Talks, RequestIntroduction(p) PROVE Inv'
  BY <1>5, RequestIntroductionStep
<1>6. ASSUME NEW n \in Node, MergePortIntoInviter(n) PROVE Inv'
  BY <1>6, MergeStep
<1>7. ASSUME NEW n \in Node, Crash(n) PROVE Inv'
  BY <1>7, CrashStep
<1>8. ASSUME NEW n \in Node, NEW m \in Node, SendBrokerClientInvitation(n, m) PROVE Inv'
  BY <1>8, SendBrokerClientInvitationStep
<1>9. ASSUME NEW p \in Talks, SendPeerEvent(p) PROVE Inv'
  BY <1>9, SendPeerEventStep
<1> QED BY <1>1, <1>2, <1>3, <1>4, <1>5, <1>6, <1>7, <1>8, <1>9 DEF Next, Internal

\* Only death takes a process away.
LEMMA OnlyCrashKills ==
  ASSUME [Next]_vars
  PROVE alive' = alive \/ \E n \in Node : Crash(n)
<1>1. CASE UNCHANGED vars
  BY <1>1 DEF vars
<1>2. ASSUME NEW n, IOThread(n) PROVE alive' = alive
  <2>1. CASE AcceptBrokerClientInvitation(n)
    BY <2>1 DEF AcceptBrokerClientInvitation
  <2>2. ASSUME NEW c, OnAcceptInvitee(n, c) PROVE alive' = alive
    BY <2>2 DEF OnAcceptInvitee
  <2>3. ASSUME NEW c, OnAcceptInvitation(n, c) PROVE alive' = alive
    BY <2>3 DEF OnAcceptInvitation
  <2>4. ASSUME NEW c, OnAddBrokerClient(n, c) PROVE alive' = alive
    BY <2>4 DEF OnAddBrokerClient
  <2>5. ASSUME NEW c, OnBrokerClientAdded(n, c) PROVE alive' = alive
    BY <2>5 DEF OnBrokerClientAdded
  <2>6. ASSUME NEW c, OnAcceptBrokerClient(n, c) PROVE alive' = alive
    BY <2>6 DEF OnAcceptBrokerClient
  <2>7. ASSUME NEW c, OnRequestPortMerge(n, c) \/ OnEventMessage(n, c) \/ OnChannelError(n, c)
        PROVE alive' = alive
    BY <2>7 DEF OnRequestPortMerge, OnEventMessage, OnChannelError
  <2>8. ASSUME NEW c, OnRequestIntroduction(n, c) \/ OnIntroduce(n, c) PROVE alive' = alive
    BY <2>8 DEF OnRequestIntroduction, OnIntroduce
  <2> QED BY <1>2, <2>1, <2>2, <2>3, <2>4, <2>5, <2>6, <2>7, <2>8 DEF IOThread
<1>4. ASSUME NEW n, NEW m, \/ RequestPortMerge(n) \/ MergePortIntoInviter(n)
                           \/ SendBrokerClientInvitation(n, m)
      PROVE alive' = alive
  BY <1>4 DEF RequestPortMerge, MergePortIntoInviter, SendBrokerClientInvitation
<1>5. ASSUME NEW p, QueueEvent(p) \/ RequestIntroduction(p) \/ SendPeerEvent(p)
      PROVE alive' = alive
  BY <1>5 DEF QueueEvent, RequestIntroduction, SendPeerEvent
<1> QED BY <1>1, <1>2, <1>4, <1>5 DEF Next, Internal

\* As long as the broker lives, the invariant holds.
THEOREM BrokerInvariant == Spec => []BrokerInv
<1>1. Init => BrokerInv
  BY InitInv DEF BrokerInv
<1>2. BrokerInv /\ [Next]_vars => BrokerInv'
  <2>1. ASSUME [Next]_vars PROVE alive' \subseteq alive
    BY <2>1, OnlyCrashKills DEF Crash
  <2> QED BY <2>1, InvStep DEF BrokerInv
<1> QED BY <1>1, <1>2, PTL DEF Spec

-----------------------------------------------------------------------------
(***************************************************************************)
(* What the invariant says of the properties.                              *)
(***************************************************************************)
\* A process and its inviter, when both have each other as peers.
LEMMA InviterAgrees ==
  ASSUME Inv, NEW n \in Guests, n \in alive, Inviter[n] \in alive,
         Peer(ctl, n, Inviter[n]) # NoChannel
  PROVE Peer(ctl, n, Inviter[n]) = Invitation(n) /\ Peer(ctl, Inviter[n], n) = Invitation(n)
<1> DEFINE m == Inviter[n]
<1>1. n \in Node /\ m \in Node /\ n # Broker
  BY Constants
<1>2. /\ NameOK(ctl, wire, n) /\ StageOK(ctl, wire, shut, alive, n) /\ LinkOK(ctl, wire, shut, alive, n)
      /\ PeerOK(ctl, wire, n, m)
  BY <1>1, GuestFacts DEF Inv, PeersOK
<1>3. ASSUME m # Broker PROVE ~(Inviter[m] = n /\ Invitation(m) \in DOMAIN wire)
  <2>1. m \in Guests /\ NameOK(ctl, wire, m)
    BY <1>1, <1>3, Constants, GuestFacts
  <2> QED BY <1>1, <2>1 DEF NameOK
<1>4. IsClient(ctl, n)
  BY <1>1, <1>2, <1>3 DEF PeerOK
<1>5. Invitation(n) \in DOMAIN wire /\ Invitation(n) \notin ctl[m].invitations
  BY <1>1, <1>2, <1>4 DEF NameOK, StageOK, IsClient
<1> QED BY <1>2, <1>4, <1>5 DEF LinkOK

\* A process and the broker.
LEMMA BrokerAgrees ==
  ASSUME Inv, Broker \in alive, NEW n \in Guests, n \in alive, Peer(ctl, n, Broker) # NoChannel
  PROVE Peer(ctl, n, Broker) = Via(n) /\ Peer(ctl, Broker, n) = Via(n)
<1>1. n \in Node /\ Broker \in Node /\ n # Broker
  BY Constants
<1>2. PeerOK(ctl, wire, n, Broker) /\ LinkOK(ctl, wire, shut, alive, n)
  BY <1>1, GuestFacts DEF Inv, PeersOK
<1>3. IsClient(ctl, n)
  BY <1>1, <1>2 DEF PeerOK
<1> QED BY <1>2, <1>3 DEF LinkOK

\* Two living processes that know each other do so through one channel.
LEMMA BothAgree ==
  ASSUME Inv, Broker \in alive, NEW n \in alive, NEW m \in alive,
         Peer(ctl, n, m) # NoChannel, Peer(ctl, m, n) # NoChannel
  PROVE Peer(ctl, n, m) = Peer(ctl, m, n)
<1>1. n \in Node /\ m \in Node /\ Broker \in Node
  BY Constants, TypedFacts DEF Inv
<1>2. n # m
  BY <1>1 DEF Inv, PeersOK, PeerOK
<1>3. CASE n = Broker
  BY <1>1, <1>2, <1>3, Constants, BrokerAgrees
<1>4. CASE m = Broker
  BY <1>1, <1>2, <1>4, Constants, BrokerAgrees
<1>5. CASE n \in Guests /\ m \in Guests /\ Inviter[n] = m
  BY <1>5, InviterAgrees
<1>6. CASE n \in Guests /\ m \in Guests /\ Inviter[m] = n
  BY <1>6, InviterAgrees
<1>7. CASE Apart(n, m)
  <2>1. MeetsOK(ctl, wire, shut, alive)
    BY DEF Inv
  <2>2. Meets(ctl, wire, n, m, Peer(ctl, n, m))
    BY DEF Meets
  <2>3. Meets(ctl, wire, m, n, Peer(ctl, n, m))
    BY <1>7, <2>1, <2>2 DEF MeetsOK
  <2> QED BY <2>3 DEF Meets
<1> QED BY <1>1, <1>2, <1>3, <1>4, <1>5, <1>6, <1>7, Constants DEF Apart

\* The invariant implies PeersAgree while the broker lives.
LEMMA InvPeersAgree ==
  ASSUME Inv, Broker \in alive
  PROVE PeersAgree
<1>1. SUFFICES ASSUME NEW n \in alive, NEW m \in alive, Has(n, m), Has(m, n)
               PROVE ctl[n].peers[m] = ctl[m].peers[n]
  BY DEF PeersAgree
<1>2. n \in Node /\ m \in Node
  BY TypedFacts DEF Inv
<1>3. Peer(ctl, n, m) = ctl[n].peers[m] /\ Peer(ctl, m, n) = ctl[m].peers[n]
  BY <1>1 DEF Peer, PeerChannel, Has
<1>4. Peer(ctl, n, m) # NoChannel /\ Peer(ctl, m, n) # NoChannel
  BY <1>1, <1>2, HasFacts
<1> QED BY <1>3, <1>4, BothAgree

\* The invariant implies LostMeansDead.
LEMMA InvLostMeansDead ==
  ASSUME Inv
  PROVE LostMeansDead
<1>1. LostOK(ctl, shut, alive)
  BY DEF Inv
<1>2. \A m : Accepted(m) <=> IsClient(ctl, m)
  BY DEF Accepted, IsClient
<1> QED BY <1>1, <1>2 DEF LostOK, LostMeansDead

\* A message that is there.
LEMMA IsOnTheWay ==
  ASSUME NEW c, NEW n, NEW x, On(wire, c, n, x)
  PROVE OnTheWay(c, n, x.type, x.name)
  BY DEF On, In, Queue, OnTheWay

\* The invariant implies QueuedIsAwaited while the broker lives.
LEMMA InvQueuedIsAwaited ==
  ASSUME Inv, Broker \in alive
  PROVE QueuedIsAwaited
<1>1. SUFFICES ASSUME NEW n \in alive, NEW m \in Node, ctl[n].queue[m] # << >>,
                      ~(\E p \in Talks : p[1] = n /\ p[2] = m /\ send[p].at = "asking")
               PROVE \/ BrokerChannel(n) = NoChannel
                     \/ OnTheWay(BrokerChannel(n), Broker, "RequestIntroduction", m)
                     \/ OnTheWay(BrokerChannel(n), n, "Introduce", m)
  BY DEF QueuedIsAwaited
<1>2. /\ AllFit(wire) /\ AsksOK(ctl, wire, alive) /\ WaitsOK(ctl, send, merge)
      /\ AwaitsOK(ctl, wire, send, alive) /\ n \in Node
  BY TypedFacts DEF Inv
<1>3. Await(wire, send, n, m) /\ IsClient(ctl, n)
  BY <1>1, <1>2 DEF AwaitsOK, WaitsOK
<1>4. \/ On(wire, Via(n), Broker, IntroReq(m))
      \/ On(wire, Via(n), n, Unknown(m))
      \/ \E d : On(wire, Via(n), n, Meet(n, m, d))
  BY <1>1, <1>3 DEF Await
<1>5. CASE n = Broker
  BY <1>5 DEF BrokerChannel
<1>6. CASE n # Broker
  <2>1. BrokerChannel(n) = Via(n)
    BY <1>2, <1>3, <1>6, Constants, ClientFacts
  <2>2. CASE On(wire, Via(n), Broker, IntroReq(m))
    <3>1. IntroReq(m).type = "RequestIntroduction" /\ IntroReq(m).name = m
      BY MessageFields
    <3>2. OnTheWay(Via(n), Broker, IntroReq(m).type, IntroReq(m).name)
      BY <2>2, IsOnTheWay
    <3> QED BY <2>1, <3>1, <3>2
  <2>3. CASE On(wire, Via(n), n, Unknown(m))
    <3>1. Unknown(m).type = "Introduce" /\ Unknown(m).name = m
      BY MessageFields
    <3>2. OnTheWay(Via(n), n, Unknown(m).type, Unknown(m).name)
      BY <2>3, IsOnTheWay
    <3> QED BY <2>1, <3>1, <3>2
  <2>4. ASSUME NEW d, On(wire, Via(n), n, Meet(n, m, d))
        PROVE OnTheWay(Via(n), n, "Introduce", m)
    <3>1. Meet(n, m, d).type = "Introduce" /\ Meet(n, m, d).name = m
      BY MessageFields
    <3>2. OnTheWay(Via(n), n, Meet(n, m, d).type, Meet(n, m, d).name)
      BY <2>4, IsOnTheWay
    <3> QED BY <3>1, <3>2
  <2> QED BY <1>4, <2>1, <2>2, <2>3, <2>4
<1> QED BY <1>5, <1>6

\* The invariant implies TypeOK.
LEMMA InvTypeOK ==
  ASSUME Inv
  PROVE TypeOK
<1>1. /\ ctl \in [Node -> Controller] /\ WireType(wire) /\ alive \subseteq Node
      /\ merge \in [Node -> Merging] /\ NamesOK(ctl, wire) /\ PeersOK(ctl, wire)
  BY TypedFacts DEF Inv
<1>2. ASSUME NEW n \in Node
      PROVE /\ DOMAIN ctl[n].peers \subseteq Node
            /\ \A m \in DOMAIN ctl[n].peers : ctl[n].peers[m] \in Channels
                                             /\ n \in DOMAIN wire[ctl[n].peers[m]]
            /\ ctl[n].inviter \in Names /\ ctl[n].broker \in Names
            /\ ctl[n].boot \in Channels \cup {NoChannel}
            /\ ctl[n].invitations \subseteq Channels
  <2>1. /\ ctl[n].peers \in PeerMaps /\ ctl[n].inviter \in Names /\ ctl[n].broker \in Names
    BY <1>1 DEF Controller
  <2>2. DOMAIN ctl[n].peers \subseteq Node
    BY <2>1 DEF PeerMaps
  <2>3. ASSUME NEW m \in DOMAIN ctl[n].peers
        PROVE ctl[n].peers[m] \in Channels /\ n \in DOMAIN wire[ctl[n].peers[m]]
    <3>1. m \in Node /\ Has(n, m)
      BY <2>2 DEF Has
    <3>2. Peer(ctl, n, m) = ctl[n].peers[m] /\ Peer(ctl, n, m) # NoChannel
      BY <3>1, HasFacts DEF Peer, PeerChannel, Has
    <3>3. ctl[n].peers[m] \in DOMAIN wire /\ Ends(ctl[n].peers[m]) = {n, m}
      BY <1>1, <3>1, <3>2, PeerEnds
    <3>4. wire[ctl[n].peers[m]] \in [Ends(ctl[n].peers[m]) -> Seq(Message)]
      BY <1>1, <3>3 DEF WireType
    <3>5. DOMAIN wire[ctl[n].peers[m]] = Ends(ctl[n].peers[m])
      BY <3>4
    <3> QED BY <3>3, <3>5 DEF Channels
  <2>4. ctl[n].boot \in Channels \cup {NoChannel}
    <3>1. CASE n = Broker
      BY <1>1, <3>1 DEF NamesOK
    <3>2. CASE n # Broker
      <4>1. NameOK(ctl, wire, n)
        BY <1>1, <3>2, Constants DEF NamesOK
      <4> QED BY <4>1 DEF NameOK, Channels
    <3> QED BY <3>1, <3>2
  <2>5. ctl[n].invitations \subseteq Channels
    BY <1>1 DEF NamesOK, Channels
  <2> QED BY <2>1, <2>2, <2>3, <2>4, <2>5
<1> QED BY <1>1, <1>2 DEF TypeOK, Merging

-----------------------------------------------------------------------------
\* While the broker lives, controllers keep their types, and peers_ and the
\* invitations of a NodeController hold channels that exist and end there.
THEOREM TypesHold == Spec => [](Broker \in alive => TypeOK)
<1>1. BrokerInv => (Broker \in alive => TypeOK)
  BY InvTypeOK DEF BrokerInv
<1> QED BY <1>1, BrokerInvariant, PTL

\* While the broker lives, two processes that have each other as peers share
\* one channel, however their introductions raced: AddPeer keeps the first
\* channel, and both processes read them in the order the broker made them.
THEOREM PeersAlwaysAgree == Spec => [](Broker \in alive => PeersAgree)
<1>1. BrokerInv => (Broker \in alive => PeersAgree)
  BY InvPeersAgree DEF BrokerInv
<1> QED BY <1>1, BrokerInvariant, PTL

\* While the broker lives, LostConnectionToNode is called only for processes
\* that are dead, or are not clients of the broker yet: no channel of two
\* living clients is ever closed, by AddPeer, DropPeer or a lost message.
THEOREM LostAreDead == Spec => [](Broker \in alive => LostMeansDead)
<1>1. BrokerInv => (Broker \in alive => LostMeansDead)
  BY InvLostMeansDead DEF BrokerInv
<1> QED BY <1>1, BrokerInvariant, PTL

\* While the broker lives, messages in pending_peer_messages_ have a thread
\* that is about to ask for the introduction, or a request for it or the answer
\* on its way: none is left behind by the race in SendPeerEvent.
THEOREM QueuedAreAwaited == Spec => [](Broker \in alive => QueuedIsAwaited)
<1>1. BrokerInv => (Broker \in alive => QueuedIsAwaited)
  BY InvQueuedIsAwaited DEF BrokerInv
<1> QED BY <1>1, BrokerInvariant, PTL

\* A broker that does not die is alive.
LEMMA BrokerStays ==
  ASSUME Broker \notin Mortal
  PROVE Spec => [](Broker \in alive)
<1>1. Init => Broker \in alive
  BY ConnectionsAssumption DEF Init
<1>2. Broker \in alive /\ [Next]_vars => (Broker \in alive)'
  BY OnlyCrashKills DEF Crash
<1> QED BY <1>1, <1>2, PTL DEF Spec

\* With a broker that does not die, the properties hold without condition.
COROLLARY WithLivingBroker ==
  ASSUME Broker \notin Mortal
  PROVE Spec => [](TypeOK /\ PeersAgree /\ LostMeansDead /\ QueuedIsAwaited)
BY BrokerStays, TypesHold, PeersAlwaysAgree, LostAreDead, QueuedAreAwaited, PTL
==============================================================================
