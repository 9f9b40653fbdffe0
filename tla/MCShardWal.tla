------------------------------ MODULE MCShardWal ------------------------------
\* Bounded instances of ShardWal for TLC.
EXTENDS ShardWal

=============================================================================
