------------------------------- MODULE DataPipe -------------------------------
(***************************************************************************)
(* Data pipes (mojo/core/data_pipe_{producer,consumer}_dispatcher.cc): a   *)
(* ring buffer in shared memory, and a message pipe on which the producer  *)
(* announces the bytes it has written and the consumer those it has read.  *)
(*                                                                         *)
(* A step is a section under the lock of one dispatcher.  WriteData,       *)
(* EndWriteData, ReadData and EndReadData release that lock to send their  *)
(* announcement, so that other threads and the transfer of the handle come *)
(* in between.  A byte is the number of its place in what is written; an   *)
(* element is one byte.                                                    *)
(***************************************************************************)
EXTENDS Integers, Sequences, FiniteSets, Functions

CONSTANTS
  Capacity,   \* capacity_num_bytes
  Thread,     \* threads that call WriteData, ReadData and the like
  MaxBytes,   \* bound: bytes written in all
  MaxMoves    \* bound: transfers of a handle that are begun

ASSUME CapacityAssumption == Capacity \in Nat \ {0}
ASSUME ThreadAssumption == IsFiniteSet(Thread)

Producer == "producer"
Consumer == "consumer"
Side     == {Producer, Consumer}
Peer(s)  == IF s = Producer THEN Consumer ELSE Producer

Idle   == << >>
Closed == -1        \* in a control pipe: the other side has closed its port

VARIABLES
  ring,       \* offset -> the byte last stored there
  side,       \* the dispatcher of each side and its control port
  net,        \* side -> control messages on their way to it
  changed,    \* sides with an OnPortStatusChanged still to come
  call,       \* thread -> the announcement it is about to send
  moves,      \* transfers begun
  told,       \* last_known_state_ of the watchers of each side
  written,    \* (history) bytes the producer has committed
  consumed,   \* (history) bytes the consumer has taken
  lost        \* (history) bytes whose announcement no port would take

vars == <<ring, side, net, changed, call, moves, told, written, consumed, lost>>

\* at: "here", "transit" (in_transit_), "wire" (serialised into a message; no
\* dispatcher) or "away" (that message has left the process).
\* grant: bytes handed out by a two-phase operation, 0 if there is none.
\* queue, ended: what has reached the control port, and whether the port of
\* the other side is closed behind it.  home, number: node of the control port
\* and number of the dispatcher, as far as they tell calls apart.  overlooked
\* is history: a transfer was given up without a look at the control port, and
\* there has been none since.
NewSide(avail) ==
  [at |-> "here", closed |-> FALSE, offset |-> 0, avail |-> avail, grant |-> 0,
   newData |-> FALSE, peerClosed |-> FALSE, queue |-> << >>, ended |-> FALSE,
   home |-> 0, number |-> 0, overlooked |-> FALSE]

Total(q) == SumFunction(q)

Least(a, b) == IF a < b THEN a ELSE b

Usable(s) == side[s].at = "here" /\ ~side[s].closed

\* The satisfied signals of a side whose dispatcher is d.
Signals(s, d) ==
  IF d.closed \/ d.at \in {"wire", "away"} THEN {}
  ELSE {x \in {"WRITABLE", "READABLE", "NEW_DATA_READABLE", "PEER_CLOSED"} :
          CASE x = "WRITABLE" -> s = Producer /\ ~d.peerClosed /\ d.grant = 0
                                   /\ d.avail > 0
            [] x = "READABLE" -> s = Consumer /\ d.avail > 0 /\ d.grant = 0
            [] x = "NEW_DATA_READABLE" -> s = Consumer /\ d.avail > 0
                                            /\ d.grant = 0 /\ d.newData
            [] x = "PEER_CLOSED" -> d.peerClosed}

\* The dispatcher of side s becomes d; if notify, WatcherSet::NotifyState is
\* called, which passes a state on unless the watchers know it already.
Set(s, d, notify) ==
  /\ side' = [side EXCEPT ![s] = d]
  /\ told' = [told EXCEPT ![s] = IF notify THEN Signals(s, d) ELSE @]

-----------------------------------------------------------------------------
(***************************************************************************)
(* The ring buffer.                                                        *)
(***************************************************************************)
\* Mutant of WriteSize: the room that is left is not regarded.
WriteAll(n) == n

WriteSize(n) == Least(n, side[Producer].avail)

Slot(o, i) == (o + i) % Capacity

\* The ring after k bytes have been stored from the write offset on.
Stored(k) ==
  [o \in DOMAIN ring |->
     IF \E i \in 0 .. k - 1 : o = Slot(side[Producer].offset, i)
     THEN written + 1 + CHOOSE i \in 0 .. k - 1 :
                          o = Slot(side[Producer].offset, i)
     ELSE ring[o]]

\* Thread t, which has given up the lock of side s, is to announce n bytes.
Announcing(t, s, n, end) ==
  call' = [call EXCEPT ![t] = [side |-> s, n |-> n, end |-> end,
                               home |-> side[s].home,
                               number |-> side[s].number]]

WriteData(t, n) ==
  LET d == side[Producer]
      k == WriteSize(n)
  IN /\ call[t] = Idle /\ Usable(Producer)
     /\ d.grant = 0 /\ ~d.peerClosed /\ k > 0
     /\ written + k <= MaxBytes
     /\ ring' = Stored(k)
     /\ written' = written + k
     /\ Set(Producer, [d EXCEPT !.avail = @ - k, !.offset = Slot(@, k)], TRUE)
     /\ Announcing(t, Producer, k, FALSE)
     /\ UNCHANGED <<net, changed, moves, consumed, lost>>

\* The caller may store what it likes in the part that is handed out, which
\* ends at the end of the ring.
BeginWriteData ==
  LET d == side[Producer]
      k == Least(Capacity - d.offset, d.avail)
  IN /\ Usable(Producer) /\ d.grant = 0 /\ ~d.peerClosed /\ d.avail > 0
     /\ written < MaxBytes
     /\ ring' = [o \in DOMAIN ring |->
                   IF o \in d.offset .. d.offset + k - 1 THEN 0 ELSE ring[o]]
     /\ Set(Producer, [d EXCEPT !.grant = k], FALSE)
     /\ UNCHANGED <<net, changed, call, moves, written, consumed, lost>>

\* A thread is in EndWriteData or EndReadData: it is called once.
Ending(s) == \E t \in Thread : call[t] # Idle /\ call[t].side = s /\ call[t].end

\* As much may be committed as there is room for by now up to the end of the
\* ring, also where that is more than was handed out; the caller has filled it.
EndWriteData(t, n) ==
  LET d == side[Producer] IN
  /\ call[t] = Idle /\ Usable(Producer) /\ d.grant > 0 /\ ~Ending(Producer)
  /\ n <= d.avail /\ d.offset + n <= Capacity
  /\ written + n <= MaxBytes
  /\ ring' = Stored(n)
  /\ written' = written + n
  /\ Set(Producer, [d EXCEPT !.avail = @ - n, !.offset = Slot(@, n)], FALSE)
  /\ Announcing(t, Producer, n, TRUE)
  /\ UNCHANGED <<net, changed, moves, consumed, lost>>

\* The call is refused if it claims more than that.  (One that commits nothing
\* leaves the same state; that it announces no bytes is left out.)
EndWriteDataInvalid ==
  LET d == side[Producer] IN
  /\ Usable(Producer) /\ d.grant > 0 /\ ~Ending(Producer)
  /\ Set(Producer, [d EXCEPT !.grant = 0], TRUE)
  /\ UNCHANGED <<ring, net, changed, call, moves, written, consumed, lost>>

\* Also with MOJO_READ_DATA_FLAG_DISCARD.
ReadData(t, n) ==
  LET d == side[Consumer]
      k == Least(n, d.avail)
  IN /\ call[t] = Idle /\ Usable(Consumer) /\ d.grant = 0 /\ k > 0
     /\ consumed' = consumed + k
     /\ Set(Consumer, [d EXCEPT !.avail = @ - k, !.offset = Slot(@, k),
                                !.newData = FALSE], FALSE)
     /\ Announcing(t, Consumer, k, FALSE)
     /\ UNCHANGED <<ring, net, changed, moves, written, lost>>

\* MOJO_READ_DATA_FLAG_QUERY and PEEK, and a read that finds nothing or less
\* than it insists on: the data is no longer new.
QueryData ==
  LET d == side[Consumer] IN
  /\ Usable(Consumer) /\ d.grant = 0 /\ d.newData
  /\ Set(Consumer, [d EXCEPT !.newData = FALSE], TRUE)
  /\ UNCHANGED <<ring, net, changed, call, moves, written, consumed, lost>>

BeginReadData ==
  LET d == side[Consumer] IN
  /\ Usable(Consumer) /\ d.grant = 0 /\ d.avail > 0
  /\ Set(Consumer, [d EXCEPT !.newData = FALSE,
                             !.grant = Least(d.avail, Capacity - d.offset)],
         d.newData)
  /\ UNCHANGED <<ring, net, changed, call, moves, written, consumed, lost>>

\* Mutant of EndReadData: all that was handed out is announced as read.
EndReadAnnouncesAll(t, n) ==
  LET d == side[Consumer] IN
  /\ call[t] = Idle /\ Usable(Consumer) /\ d.grant > 0 /\ ~Ending(Consumer)
  /\ n <= d.grant
  /\ consumed' = consumed + n
  /\ Set(Consumer, [d EXCEPT !.avail = @ - n, !.offset = Slot(@, n)], FALSE)
  /\ Announcing(t, Consumer, d.grant, TRUE)
  /\ UNCHANGED <<ring, net, changed, moves, written, lost>>

EndReadData(t, n) ==
  LET d == side[Consumer] IN
  /\ call[t] = Idle /\ Usable(Consumer) /\ d.grant > 0 /\ ~Ending(Consumer)
  /\ n <= d.grant
  /\ consumed' = consumed + n
  /\ Set(Consumer, [d EXCEPT !.avail = @ - n, !.offset = Slot(@, n)], FALSE)
  /\ Announcing(t, Consumer, n, TRUE)
  /\ UNCHANGED <<ring, net, changed, moves, written, lost>>

\* Refused: more than was handed out.
EndReadDataInvalid ==
  LET d == side[Consumer] IN
  /\ Usable(Consumer) /\ d.grant > 0 /\ ~Ending(Consumer)
  /\ Set(Consumer, [d EXCEPT !.grant = 0], TRUE)
  /\ UNCHANGED <<ring, net, changed, call, moves, written, consumed, lost>>

-----------------------------------------------------------------------------
(***************************************************************************)
(* Control messages.                                                       *)
(***************************************************************************)
\* Mutant of NotifiedAfter: the end of a two-phase write is not noticed.
NotifiedAfterReads(s, end) == s = Consumer

\* Who notifies the watchers after the announcement: WriteData has done so
\* before.
NotifiedAfter(s, end) == s = Consumer \/ end

\* NotifyWrite and NotifyRead, and what follows under the lock again.  The
\* port refuses a message once it has been closed or sent away; nobody is
\* told.
Announce(t) ==
  LET c == call[t]
      s == c.side
      d == side[s]
      taken == ~d.closed /\ c.home = d.home
  IN /\ c # Idle
     /\ call' = [call EXCEPT ![t] = Idle]
     /\ net' = IF taken /\ ~side[Peer(s)].closed
               THEN [net EXCEPT ![Peer(s)] = Append(@, c.n)] ELSE net
     /\ lost' = IF taken THEN lost ELSE lost + c.n
     /\ IF c.number = d.number
        THEN Set(s, IF c.end THEN [d EXCEPT !.grant = 0] ELSE d,
                 NotifiedAfter(s, c.end))
        ELSE UNCHANGED <<side, told>>
     /\ UNCHANGED <<ring, changed, moves, written, consumed>>

\* The ports layer: messages arrive in order, closure after the last of them.
Deliver(s) ==
  LET m == Head(net[s])
      d == side[s]
  IN /\ net[s] # << >>
     /\ net' = [net EXCEPT ![s] = Tail(@)]
     /\ side' = [side EXCEPT ![s] =
                   IF m = Closed THEN [d EXCEPT !.ended = TRUE]
                   ELSE [d EXCEPT !.queue = Append(@, m)]]
     /\ changed' = IF d.at \in {"here", "transit"} THEN changed \cup {s}
                   ELSE changed
     /\ UNCHANGED <<ring, call, moves, told, written, consumed, lost>>

\* How many messages of q are accepted: up to the first one that claims more
\* bytes than there can be.
Accepted(q, room) ==
  CHOOSE k \in 0 .. Len(q) :
    /\ Total(SubSeq(q, 1, k)) <= room
    /\ k < Len(q) => Total(SubSeq(q, 1, k + 1)) > room

\* Mutant of Updated: closure is taken for the end of messages.
UpdatedEarly(s, d) ==
  LET k == Accepted(d.queue, Capacity - d.avail)
      n == Total(SubSeq(d.queue, 1, k))
  IN IF d.at = "transit" /\ d.queue # << >>
     THEN [d EXCEPT !.peerClosed = @ \/ d.ended]
     ELSE [d EXCEPT !.avail = @ + n,
                    !.newData = @ \/ (s = Consumer /\ n > 0),
                    !.peerClosed = @ \/ d.ended,
                    !.queue = SubSeq(@, k + 2, Len(@))]

\* Mutant of Updated: one message is read and not all there are.
UpdatedOnce(s, d) ==
  IF d.queue = << >> THEN [d EXCEPT !.peerClosed = @ \/ d.ended]
  ELSE IF d.at = "transit" THEN d
  ELSE [d EXCEPT !.avail = @ + Head(d.queue),
                 !.newData = @ \/ (s = Consumer /\ Head(d.queue) > 0),
                 !.queue = Tail(@)]

\* UpdateSignalsStateNoLock: while the handle is in transit messages are left
\* in the port.
Updated(s, d) ==
  LET k == Accepted(d.queue, Capacity - d.avail)
      n == Total(SubSeq(d.queue, 1, k))
      overclaimed == k < Len(d.queue)
  IN IF d.at = "transit" /\ d.queue # << >> THEN d
     ELSE [d EXCEPT !.avail = @ + n,
                    !.newData = @ \/ (s = Consumer /\ n > 0),
                    !.peerClosed = \/ @
                                   \/ overclaimed /\ s = Consumer
                                   \/ d.ended /\ ~overclaimed,
                    !.queue = SubSeq(@, k + 2, Len(@)),
                    !.overlooked = FALSE]

UpdateSignalsState(s, d) ==
  LET new == Updated(s, d)
  IN Set(s, new, new.avail # d.avail \/ new.peerClosed # d.peerClosed)

OnPortStatusChanged(s) ==
  /\ s \in changed
  /\ changed' = changed \ {s}
  /\ UpdateSignalsState(s, side[s])
  /\ UNCHANGED <<ring, net, call, moves, written, consumed, lost>>

\* Mutant of Close: the control port stays open.
CloseDispatcherOnly(s) ==
  /\ Usable(s)
  /\ Set(s, [side[s] EXCEPT !.closed = TRUE, !.queue = << >>], FALSE)
  /\ net' = [net EXCEPT ![s] = << >>]
  /\ changed' = changed \ {s}
  /\ UNCHANGED <<ring, call, moves, written, consumed, lost>>

\* Watchers are told that the handle is closed, and the control port is closed.
Close(s) ==
  /\ Usable(s)
  /\ Set(s, [side[s] EXCEPT !.closed = TRUE, !.queue = << >>], FALSE)
  /\ net' = [net EXCEPT ![s] = << >>,
                        ![Peer(s)] = IF side[Peer(s)].closed THEN @
                                     ELSE Append(@, Closed)]
  /\ changed' = changed \ {s}
  /\ UNCHANGED <<ring, call, moves, written, consumed, lost>>

-----------------------------------------------------------------------------
(***************************************************************************)
(* Transfer of a handle in a message.                                      *)
(***************************************************************************)
BeginTransit(s) ==
  /\ Usable(s) /\ side[s].grant = 0
  /\ moves < MaxMoves
  /\ moves' = moves + 1
  /\ side' = [side EXCEPT ![s].at = "transit"]
  /\ UNCHANGED <<ring, net, changed, call, told, written, consumed, lost>>

\* Mutant of CancelTransit: what has arrived in the meantime is left.
CancelTransitOnly(s) ==
  /\ side[s].at = "transit"
  /\ Set(s, [side[s] EXCEPT !.at = "here", !.overlooked = s = Producer], TRUE)
  /\ UNCHANGED <<ring, net, changed, call, moves, written, consumed, lost>>

\* Another handle of the same message cannot be sent.  Only the consumer looks
\* at what has happened in the meantime.
CancelTransit(s) ==
  LET d == [side[s] EXCEPT !.at = "here"]
  IN /\ side[s].at = "transit"
     /\ IF s = Consumer THEN UpdateSignalsState(s, d)
        ELSE Set(s, [d EXCEPT !.overlooked = TRUE], TRUE)
     /\ UNCHANGED <<ring, net, changed, call, moves, written, consumed, lost>>

CompleteTransitAndClose(s) ==
  /\ side[s].at = "transit"
  /\ Set(s, [side[s] EXCEPT !.at = "wire", !.newData = FALSE], FALSE)
  /\ changed' = changed \ {s}
  /\ UNCHANGED <<ring, net, call, moves, written, consumed, lost>>

\* The message is sent to another process: the control port becomes a proxy,
\* which sends on what it has.
SendAway(s) ==
  LET d == side[s]
      again == IF d.ended THEN Append(d.queue, Closed) ELSE d.queue
  IN /\ d.at = "wire"
     /\ side' = [side EXCEPT ![s] = [d EXCEPT !.at = "away", !.home = @ + 1,
                                      !.queue = << >>, !.ended = FALSE]]
     /\ net' = [net EXCEPT ![s] = again \o @]
     /\ UNCHANGED <<ring, changed, call, moves, told, written, consumed, lost>>

Deserialize(s) ==
  LET d == [side[s] EXCEPT !.at = "here", !.number = @ + 1,
                           !.newData = s = Consumer /\ side[s].avail > 0]
  IN /\ side[s].at \in {"wire", "away"}
     /\ Set(s, Updated(s, d), TRUE)
     /\ UNCHANGED <<ring, net, changed, call, moves, written, consumed, lost>>

-----------------------------------------------------------------------------
Init ==
  /\ ring = [o \in 0 .. Capacity - 1 |-> 0]
  /\ side = [s \in Side |-> NewSide(IF s = Producer THEN Capacity ELSE 0)]
  /\ net = [s \in Side |-> << >>]
  /\ changed = {}
  /\ call = [t \in Thread |-> Idle]
  /\ moves = 0
  /\ told = [s \in Side |-> Signals(s, side[s])]
  /\ written = 0 /\ consumed = 0 /\ lost = 0

Next ==
  \/ \E t \in Thread :
       \/ \E n \in 1 .. Capacity :
            \/ WriteData(t, n) \/ EndWriteData(t, n)
            \/ ReadData(t, n) \/ EndReadData(t, n)
       \/ Announce(t)
  \/ BeginWriteData \/ EndWriteDataInvalid
  \/ BeginReadData \/ EndReadDataInvalid \/ QueryData
  \/ \E s \in Side :
       \/ Deliver(s) \/ OnPortStatusChanged(s) \/ Close(s)
       \/ BeginTransit(s) \/ CancelTransit(s) \/ CompleteTransitAndClose(s)
       \/ SendAway(s) \/ Deserialize(s)

Spec == Init /\ [][Next]_vars

\* Calls that have begun return, the channels are read and the observers run;
\* nobody need write, read, send or close.
Fairness ==
  /\ \A t \in Thread : WF_vars(Announce(t))
  /\ \A s \in Side : /\ WF_vars(Deliver(s))
                     /\ WF_vars(OnPortStatusChanged(s))
                     /\ WF_vars(CancelTransit(s) \/ CompleteTransitAndClose(s))

FairSpec == Spec /\ Fairness

-----------------------------------------------------------------------------
(***************************************************************************)
(* Properties.                                                             *)
(***************************************************************************)
SideType ==
  [at: {"here", "transit", "wire", "away"}, closed: BOOLEAN,
   offset: 0 .. Capacity - 1, avail: 0 .. Capacity, grant: 0 .. Capacity,
   newData: BOOLEAN, peerClosed: BOOLEAN, queue: Seq(0 .. Capacity),
   ended: BOOLEAN, home: Nat, number: Nat, overlooked: BOOLEAN]

\* Offsets stay inside the ring, neither side counts more bytes than the ring
\* holds (the DCHECKs on available_capacity_ and bytes_available_).
TypeOK ==
  /\ ring \in [0 .. Capacity - 1 -> Nat]
  /\ side \in [Side -> SideType]
  /\ changed \subseteq Side
  /\ moves \in Nat /\ written \in Nat /\ consumed \in Nat /\ lost \in Nat

\* What the consumer may read next are the bytes that follow those it has
\* read, as they were written: the producer overwrites nothing unread, also
\* around the end of the ring, while a part of it is handed out to either
\* side, when announcements of several threads overtake each other, and when
\* announcements are lost.
ReadsInOrder ==
  \A i \in 0 .. side[Consumer].avail - 1 :
    ring[Slot(side[Consumer].offset, i)] = consumed + 1 + i

\* Bytes to be announced by the threads, on one side or on both.
Unsent(S) ==
  SumFunction([t \in Thread |-> IF call[t] # Idle /\ call[t].side \in S
                                THEN call[t].n ELSE 0])

\* Bytes announced to side s by the control messages on their way to it.
Announced(s) ==
  LET q == side[s].queue \o net[s]
  IN Total([i \in DOMAIN q |-> IF q[i] = Closed THEN 0 ELSE q[i]])

\* While both sides are open, every byte of the capacity is accounted for: it
\* is free, readable, or the subject of one announcement under way (or of one
\* that was lost).  Otherwise room in the ring is lost for good, or a side
\* takes the other for a liar and ends the pipe.
CapacityConserved ==
  (\A s \in Side : ~side[s].closed) =>
    side[Producer].avail + side[Consumer].avail
      + Announced(Producer) + Announced(Consumer) + Unsent(Side) + lost
    = Capacity

\* A control message, or word of closure behind one, that the producer's
\* CancelTransit has left in the port: nothing will make it look again before
\* the next event for the port.
LeftBehind(s) == side[s].overlooked /\ side[s].queue # << >>

\* Nothing waits unread in the control port of a dispatcher that is in use,
\* unless it is about to be told: a writer that got MOJO_RESULT_SHOULD_WAIT
\* waits for exactly such a message (types.h, MOJO_RESULT_SHOULD_WAIT).  The
\* one exception is a producer whose transfer was given up after the message
\* had come, until its next event; the consumer has none.
NothingUnread ==
  \A s \in Side : Usable(s) /\ s \notin changed /\ side[s].queue # << >> =>
    s = Producer /\ side[s].overlooked

\* Of every signal that is set the watchers have been notified by the state
\* they were last given, whether or not NotifyState drops a state as known:
\* otherwise one armed before is never tripped.
SignalsAnnounced == \A s \in Side : Signals(s, side[s]) \subseteq told[s]

\* The consumer learns of closure only when the producer is closed and all it
\* announced has been received; only what a racing call could not announce is
\* missing.
ClosureAfterData ==
  side[Consumer].peerClosed =>
    /\ side[Producer].closed
    /\ \/ side[Consumer].closed
       \/ consumed + side[Consumer].avail + Unsent({Producer}) + lost >= written
    /\ Announced(Consumer) = 0

\* When the threads rest, all that was written can be read and all room that
\* was freed can be written, unless a side is closed, is on its way in a
\* message, has lost an announcement, or is a producer that overlooks one.
CreditReturns ==
  <>[](\/ \E s \in Side : side[s].closed \/ side[s].at \in {"wire", "away"}
       \/ lost > 0 \/ LeftBehind(Producer)
       \/ side[Producer].avail + side[Consumer].avail = Capacity)

\* A side has learnt of the closure of the other, or has no use for it.
Learnt(s) == side[s].peerClosed \/ side[s].closed \/ side[s].at \in {"wire", "away"}

\* Each side learns that the other has been closed, unless it is a producer
\* that overlooks a message ahead of the closure.
ClosureSeen ==
  /\ side[Producer].closed ~> Learnt(Consumer)
  /\ side[Consumer].closed ~> Learnt(Producer) \/ LeftBehind(Producer)

\* When the consumer is closed the producer's watchers are told that its peer
\* is closed (mojo/public/c/system/types.h, MOJO_HANDLE_SIGNAL_PEER_CLOSED).
PeerClosureSignalled ==
  side[Consumer].closed ~> "PEER_CLOSED" \in told[Producer]
                             \/ side[Producer].closed
                             \/ side[Producer].at \in {"wire", "away"}

==============================================================================
