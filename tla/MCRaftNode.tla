------------------------------ MODULE MCRaftNode ------------------------------
\* Bounded instances of RaftNode for TLC.
EXTENDS RaftNode

=============================================================================
