------------------------------- MODULE MCMesh -------------------------------
(* Topologies and per-node settings for the Mesh runs.                      *)
EXTENDS Mesh

CONSTANTS A, B, C, D, ab, bc, ca, cd, bd

\* The triangle A-B-C: every flood closes a loop.
TriangleEnds == (ab :> <<A, B>>) @@ (bc :> <<B, C>>) @@ (ca :> <<C, A>>)

\* The triangle with a tail C-D (D ran --peer C).  The longest simple path
\* from any node is 3 hops.
TailEnds == (cd :> <<D, C>>) @@ TriangleEnds

\* The triangle with D hanging off B (D ran --peer B): the hop distance
\* between any two nodes is at most 2, the longest simple path from A
\* (A-C-B-D) is 3.
DiamondEnds == (bd :> <<D, B>>) @@ TriangleEnds

TTL2 == [n \in Node |-> 2]
TTL3 == [n \in Node |-> 3]
TTL7 == [n \in Node |-> 7]
AllRelay == [n \in Node |-> TRUE]

\* The wall clock set back one second.
SetBack == {-1}

\* Packet IDs are random bytes: renaming them changes nothing.
IdSymmetry == Permutations(Ids)

=============================================================================
