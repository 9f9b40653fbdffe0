---------------------------- MODULE RaftStorage ----------------------------
(***************************************************************************)
(* What the raft library relies on when it is given a Storage: entries     *)
(* without gaps, one of each index, of which only those above the commit   *)
(* index are ever rewritten or lost, whatever crashes, and from which a    *)
(* committed prefix may be cleared.                                        *)
(***************************************************************************)
EXTENDS Integers, FiniteSets

VARIABLES entries,  \* pairs of index and term
          commit    \* HardState.Commit

storeVars == <<entries, commit>>

Indexes(es) == {e[1] : e \in es}
UpTo(es, c) == {e \in es : e[1] <= c}
From(es, c) == {e \in es : e[1] >= c}

\* One entry of every index between the first and the last, c among them.
Sound(es, c) == \E lo, hi \in Indexes(es) : /\ c \in lo..hi
                                            /\ Indexes(es) = lo..hi
                                            /\ Cardinality(es) = hi - lo + 1

Init == Sound(entries, commit)

\* Entries and hard state are saved, or were being saved in a crash.
Save == /\ UpTo(entries', commit) = UpTo(entries, commit)
        /\ commit' >= commit
        /\ Sound(entries', commit')

\* Entries before one that is committed are cleared.
Clear == /\ entries' \in {From(entries, i) : i \in Indexes(UpTo(entries, commit))}
         /\ UNCHANGED commit

Next == Save \/ Clear
Spec == Init /\ [][Next]_storeVars
============================================================================
