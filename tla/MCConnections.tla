---------------------------- MODULE MCConnections ----------------------------
EXTENDS Connections

CONSTANTS B, M, L, S

\* The broker B invites M and S, and M invites L.
Family == [n \in {M, L, S} |-> IF n = L THEN M ELSE B]

\* S and L have events for each other, S on two threads.
Siblings == {<<S, L, 1>>, <<S, L, 2>>, <<L, S, 1>>}

\* A chain of three.
Line == [n \in {M, L} |-> IF n = L THEN M ELSE B]
==============================================================================
