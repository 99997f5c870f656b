----------------------------- MODULE MessagePipe -----------------------------
(***************************************************************************)
(* What a message pipe is to those who hold its ends: each end sends       *)
(* messages, reads the messages of the opposite end one after the other,   *)
(* and, when the opposite end is closed, learns how many messages that end *)
(* had sent.  Nothing is said of processes, of routes or of where an end   *)
(* is.  Two pipes may be joined by merging an end of each.                 *)
(***************************************************************************)
EXTENDS Integers

CONSTANT End       \* names of ends

VARIABLE pipe      \* end -> its opposite end and what has happened to it

Unknown == -1

Fresh(e) == [conj |-> e, sent |-> 0, read |-> 0, last |-> Unknown, open |-> TRUE]

\* What is left of an end that is no more: what it has sent.
Gone(p) == [p EXCEPT !.read = 0, !.last = Unknown, !.open = FALSE]

Opposite(e) == pipe[e].conj

Init ==
  /\ DOMAIN pipe \subseteq End
  /\ pipe = [e \in DOMAIN pipe |-> Fresh(Opposite(e))]
  /\ \A e \in DOMAIN pipe : Opposite(e) \in DOMAIN pipe \ {e}
                            /\ Opposite(Opposite(e)) = e

Create ==
  \E p, q \in DOMAIN pipe' \ DOMAIN pipe :
    /\ p # q /\ {p, q} \subseteq End
    /\ pipe' = [e \in DOMAIN pipe \cup {p, q} |->
                  CASE e = p -> Fresh(q) [] e = q -> Fresh(p) [] OTHER -> pipe[e]]

Send(e) ==
  /\ pipe[e].open
  /\ pipe' = [pipe EXCEPT ![e].sent = @ + 1]

Read(e) ==
  /\ pipe[e].open
  /\ pipe[e].read < pipe[Opposite(e)].sent
  /\ pipe' = [pipe EXCEPT ![e].read = @ + 1]

Close(e) ==
  /\ pipe[e].open
  /\ pipe' = [pipe EXCEPT ![e] = Gone(@)]

\* Two ends that could not be merged are closed together.
CloseBoth(e, f) ==
  /\ e # f /\ pipe[e].open /\ pipe[f].open
  /\ pipe' = [pipe EXCEPT ![e] = Gone(@), ![f] = Gone(@)]

\* The opposite end is no more, and the number of its last message is known.
Learn(e) ==
  /\ pipe[e].open /\ pipe[e].last = Unknown
  /\ ~pipe[Opposite(e)].open
  /\ pipe' = [pipe EXCEPT ![e].last = pipe[Opposite(e)].sent]

\* Ends that have sent nothing are merged: their opposites face each other.
Merge(e, f) ==
  /\ e # f /\ pipe[e].open /\ pipe[f].open
  /\ pipe[e].sent = 0 /\ pipe[f].sent = 0
  /\ pipe' = [pipe EXCEPT ![e] = Gone(@), ![f] = Gone(@),
                          ![Opposite(e)].conj = Opposite(f),
                          ![Opposite(f)].conj = Opposite(e)]

Next ==
  \/ Create
  \/ \E e \in DOMAIN pipe : Send(e) \/ Read(e) \/ Close(e) \/ Learn(e)
  \/ \E e, f \in DOMAIN pipe : Merge(e, f) \/ CloseBoth(e, f)

Spec == Init /\ [][Next]_pipe
==============================================================================
