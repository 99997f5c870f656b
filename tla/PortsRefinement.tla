--------------------------- MODULE PortsRefinement ---------------------------
(***************************************************************************)
(* The ports layer implements message pipes: however ports are moved,      *)
(* proxied, bypassed and merged, those who hold the ends of a pipe see the *)
(* steps of MessagePipe and nothing else, as long as no process dies.      *)
(***************************************************************************)
EXTENDS Ports

\* What an end that stands at port or descriptor s has read and learnt.
EndAt(e, s) ==
  [conj |-> Conjugate(e), sent |-> ends[e].sent, read |-> s.nextRecv - 1,
   last |-> IF s.peerClosed THEN s.lastRecv ELSE -1, open |-> TRUE]

NoEnd(e) ==
  [conj |-> Conjugate(e), sent |-> ends[e].sent, read |-> 0, last |-> -1,
   open |-> FALSE]

\* The refinement mapping: an end is where its one receiving port is, or the
\* descriptor on its way to become that port.
EndOf(e) ==
  IF PortSeats(e) # {} THEN EndAt(e, ports[CHOOSE a \in PortSeats(e) : TRUE])
  ELSE IF WireSeats(e) # {} THEN EndAt(e, CHOOSE d \in WireSeats(e) : TRUE)
  ELSE NoEnd(e)

Pipe == INSTANCE MessagePipe
          WITH End <- PortName, pipe <- [e \in DOMAIN ends |-> EndOf(e)]

\* Every step of the ports layer is, for the holders of the ends, a step of a
\* message pipe or none at all: reading proceeds one message at a time and
\* never back, a port on the move loses nothing of what it had read or learnt,
\* an end disappears only by being closed or merged, and closure is learnt
\* after it happened and with the right number of messages.
ImplementsMessagePipe == Pipe!Spec

==============================================================================
