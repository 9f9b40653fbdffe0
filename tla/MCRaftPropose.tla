---------------------------- MODULE MCRaftPropose ----------------------------
\* Bounded instance of RaftPropose for TLC.
EXTENDS RaftPropose

=============================================================================
