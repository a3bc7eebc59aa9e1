-------------------------- MODULE MCConnectionPool --------------------------
EXTENDS ConnectionPool

\* Three nodes; each dials the nodes with a smaller id, so every pair is
\* dialled in exactly one direction.
MCNodes == {1, 2, 3}
MCConnList == [n \in MCNodes |-> {m \in MCNodes : m < n}]

\* Two nodes that dial each other.
MCMutualNodes == {1, 2}
MCMutualConnList == [n \in MCMutualNodes |-> MCMutualNodes \ {n}]

\* A config with a single entry: the node has no peer to dial or accept.
MCSingleNodes == {1}
MCSingleConnList == [n \in MCSingleNodes |-> {}]
=============================================================================
