------------------------------- MODULE MCPorts -------------------------------
EXTENDS Ports

CONSTANTS A, B, C

\* An invitation: A reserves 1 for B, B keeps 3 for it.  A node may create the
\* pair 5, 6 as well.
Invitation == {<< <<A, 1>>, <<A, 2>> >>, << <<B, 3>>, <<B, 4>> >>}

\* A control pipe between A and B, and a pipe with both ends on A.
Move == {<< <<A, 7>>, <<B, 8>> >>, << <<A, 9>>, <<A, 10>> >>}

\* Two pipes with one end each on A, to be fused there.
Fuse == {<< <<A, 11>>, <<B, 12>> >>, << <<A, 13>>, <<B, 14>> >>}

TwoNodes == {Invitation, Move, Fuse}
TwoNodeSends == [e \in {2, 4, 7, 9, 10, 12, 14} |-> IF e \in {12, 14} THEN 2 ELSE 1]
TwoNodePairs == {<<1, 3>>, <<11, 13>>}

\* A chain of control pipes A - B - C; a pipe with both ends on A.
Chain == {<< <<A, 1>>, <<B, 2>> >>, << <<B, 3>>, <<C, 4>> >>,
          << <<A, 5>>, <<A, 6>> >>}

\* B controls A and C; a pipe with both ends on B.
Star == {<< <<B, 7>>, <<A, 8>> >>, << <<B, 9>>, <<C, 10>> >>,
         << <<B, 11>>, <<B, 12>> >>}

\* The chain again, for processes that die.
MortalChain == {<< <<A, 13>>, <<B, 14>> >>, << <<B, 15>>, <<C, 16>> >>,
                << <<A, 17>>, <<A, 18>> >>}

\* An end that starts on B and goes through C to A, which dies.
Detour == {<< <<B, 19>>, <<C, 20>> >>, << <<C, 21>>, <<A, 22>> >>,
           << <<B, 23>>, <<C, 24>> >>}

\* An invitation: B reserves 25 for A, A keeps 27 for it, and dies.
LostInvitee == {<< <<B, 25>>, <<B, 26>> >>, << <<A, 27>>, <<A, 28>> >>}

ThreeNodes == {Chain, Star, MortalChain, Detour, LostInvitee}
ThreeNodeSends == [e \in {1, 3, 5, 6, 7, 9, 11, 13, 15, 18, 19, 21, 24, 26, 28} |-> 1]
ThreeNodePairs == {<<25, 27>>}
ThreeNodeMortals == {<<A, 13>>, <<C, 16>>, <<A, 22>>, <<A, 27>>}

OnlyChain == {Chain}
MortalA == {<<A, 1>>}
SendsAll == [e \in {1, 3, 5, 6} |-> 1]
SendsDown == [e \in {1, 3} |-> 1]

\* Two pipes on one node.
Local == {<< <<A, 1>>, <<A, 2>> >>, << <<A, 3>>, <<A, 4>> >>}
OnlyLocal == {Local}
LocalSends == [e \in {2} |-> 1]
FusePair == {<<1, 3>>}
==============================================================================
