------------------------------ MODULE PortsFifo ------------------------------
(***************************************************************************)
(* The ports layer over channels that keep order.  A Channel delivers what *)
(* is written to it in order, and all that a process sends in answer to    *)
(* events is written by its I/O thread; `links' is that order.  The steps  *)
(* are those of Ports, restricted to accept the oldest event of a link;    *)
(* the events of one step enter their links in either order.               *)
(***************************************************************************)
EXTENDS Ports, SequencesExt

VARIABLE links     \* <<source, destination>> -> events under way, oldest first

LinkOf(e) == <<e.src, e.to[1]>>

Taken == {e \in BagToSet(net) : CopiesIn(e, net') < CopiesIn(e, net)}
Sent  == {e \in BagToSet(net') : CopiesIn(e, net') > CopiesIn(e, net)}

\* A process that dies takes the events for it along; one that loses its
\* connection to a dead process, the events from there.
Failed == alive' # alive \/ ~(peers \subseteq peers')

Kept(l) ==
  IF Failed THEN SelectSeq(links[l], LAMBDA e : e \in BagToSet(net'))
  ELSE IF \E e \in Taken : LinkOf(e) = l THEN Tail(links[l])
  ELSE links[l]

Transmit ==
  /\ ~Failed => \A e \in Taken : e = Head(links[LinkOf(e)])
  /\ \E new \in SetToSeqs(Sent) :
       links' = [l \in Node \X Node |->
                   Kept(l) \o SelectSeq(new, LAMBDA e : LinkOf(e) = l)]

FifoInit == Init /\ links = [l \in Node \X Node |-> << >>]

FifoNext == Next /\ Transmit

fifoVars == <<vars, links>>

\* Every process keeps reading its channels, finishes the loops it is in, and
\* learns of the death of another.  These steps stay enabled while they are
\* pending, so each disjunction is weak fairness written without ENABLED.
Unaware(n) == \E m \in Node \ alive : <<n, m>> \in peers

Fairness ==
  /\ \A l \in Node \X Node :
       \/ []<>(links[l] = << >>)
       \/ []<><<\E e \in Taken : LinkOf(e) = l>>_fifoVars
  /\ \A n \in Node :
       /\ \/ []<>(On(n, orphans) = {})
          \/ []<><<On(n, orphans \ orphans') # {}>>_fifoVars
       /\ \/ []<>~Unaware(n)
          \/ []<><<On(n, peers \ peers') # {}>>_fifoVars

FifoSpec == FifoInit /\ [][FifoNext]_fifoVars /\ Fairness

\* Proxies are only for the time of rerouting: when the embedder has stopped
\* moving ports, every port left is a receiving one.
ProxiesLeave == <>[](\A a \in DOMAIN ports : ports[a].state = "receiving")

\* When one end of a pipe is no more, closed or lost with its process, the
\* other end learns of it.
ClosureSpreads ==
  \A e \in InitialEnds :
    (/\ e \in DOMAIN ends
     /\ PortSeats(Conjugate(e)) = {} /\ WireSeats(Conjugate(e)) = {})
      ~> \A a \in PortSeats(e) : ports[a].peerClosed

==============================================================================
