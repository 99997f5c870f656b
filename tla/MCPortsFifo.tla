----------------------------- MODULE MCPortsFifo -----------------------------
EXTENDS PortsFifo, PortsRefinement

CONSTANTS A, B, C

\* A chain of control pipes A - B - C; a pipe with both ends on A.
Chain == {<< <<A, 3>>, <<B, 4>> >>, << <<B, 5>>, <<C, 6>> >>,
          << <<A, 7>>, <<A, 8>> >>}

\* Two pipes from A to B and to C, to be fused on A.
Fuse == {<< <<A, 9>>, <<B, 10>> >>, << <<A, 11>>, <<C, 12>> >>}

\* One pipe; another may be created.
Pair == {<< <<A, 1>>, <<B, 2>> >>}

All == {Pair, Chain, Fuse}
LiveSends == [e \in {1, 3, 5, 8, 10} |-> 1]
LivePairs == {<<9, 11>>}
==============================================================================
