--------------------------- MODULE ShardWalProofs ---------------------------
(***************************************************************************)
(* The inductive invariant of ShardWal and what follows from it: types,    *)
(* the balance of the memory tokens, and that an acknowledged write is     *)
(* never lost and can be read in an opened shard, for any number of        *)
(* writes, partitions, records per file and tokens.                        *)
(***************************************************************************)
EXTENDS ShardWal, TLAPS, FiniteSetTheorems, SequenceTheorems

\* A flusher that has switched the tables and not yet ended.
Flushing(f) == fl[f].at \in {"commit", "remove"}
\* The phases in which the log takes or may still own files.
LogPhases == {"open", "closing", "locked"}
OpenPhases == LogPhases \cup {"walClosed", "dropped"}

\* Who may run when: the replay only while the shard is opened, the Snapshot
\* goroutine only of a shard that was opened, and of the two flushers one at a
\* time beyond prepareSnapshot.
CtlInv ==
  /\ phase = "opening" <=> replay.at # "idle"
  /\ ~ticker => fl["tick"].at = "idle"
  /\ ticker => phase \in OpenPhases
  /\ fl["tick"].at # "wait"
  /\ ~(Prepared("tick") /\ Prepared("force"))
  /\ phase = "closed" => \A f \in Flushers : ~Flushing(f)
  /\ replay.at = "flushing" => fl["force"].at # "idle"

\* A request of the present object began while it was open; one that is past
\* the index holds s.mu, and what it has put in the table is still there.
WriteInv ==
  \A w \in Writes :
    /\ pc[w] \in {"enter", "alloc", "index", "table", "wal"} /\ w \notin stale
         => phase \in OpenPhases \cup {"closed"}
    /\ pc[w] \in {"alloc", "index", "table", "wal"} /\ w \notin stale
         => phase \in {"open", "closing", "closed"}
    /\ pc[w] \in {"table", "wal"} => w \notin stale /\ phase \in {"open", "closing"}
    /\ pc[w] = "wal" => w \in Range(active.rows)

\* Files of the log: the names of LogWriter are on disk and apart from those a
\* flush is about to remove, and a new file gets a number of its own.
LogInv ==
  /\ phase \notin LogPhases => \A p \in Parts : names[p] = <<>>
  /\ phase # "down" => \A p \in Parts : \A n \in DOMAIN disk[p] : n <= fileSeq[p]
  /\ \A p \in Parts : \A n \in Range(names[p]) : n \in DOMAIN disk[p] /\ n <= fileSeq[p]
  /\ \A f \in Flushers : NoneLeft(fl[f].wal) \/ (Flushing(f) /\ phase \in OpenPhases)
  /\ \A f \in Flushers : \A p \in Parts : \A n \in Range(fl[f].wal.names[p]) :
       n <= fileSeq[p] /\ n \notin Range(names[p])

\* snapshotTbl is set between the switch and the end of a flush only, and its
\* rows are in the files once it is committed.
SnapInv ==
  /\ (\A f \in Flushers : ~Flushing(f)) => snap.rows = <<>>
  /\ \A f \in Flushers : fl[f].at = "remove" => Range(snap.rows) \subseteq Range(files)

\* Every record of a file that may be removed without being read again.
Covered(p, n, rows) == n \in DOMAIN disk[p] => Range(disk[p][n]) \subseteq rows
Flushed == Range(files)
Seen == Range(files) \cup Range(snap.rows) \cup Range(active.rows)
Todo(p) == UNION {Range(replay.todo[p][i]) : i \in DOMAIN replay.todo[p]}

\* Where the rows of the records on disk are: of the current log files in the
\* active table; of switched files in the snapshot table, then in files; of
\* files being replayed in any of them or still to be read.
CoverInv ==
  /\ \A p \in Parts : \A n \in Range(names[p]) : Covered(p, n, Range(active.rows))
  /\ \A f \in Flushers : \A p \in Parts : \A n \in Range(fl[f].wal.names[p]) :
       /\ fl[f].at = "commit" => Covered(p, n, Range(snap.rows))
       /\ fl[f].at = "remove" => Covered(p, n, Flushed)
  /\ replay.at = "read" /\ ~replay.errs =>
       \A p \in Parts : \A n \in DOMAIN disk[p] : Covered(p, n, Seen \cup Todo(p))
  /\ \A p \in Parts : \A n \in DOMAIN disk[p] :
       /\ replay.at \in {"flush", "flushing"} => Covered(p, n, Seen)
       /\ replay.at = "flushing" /\ fl["force"].at = "commit" => Covered(p, n, Flushed \cup Range(snap.rows))
       /\ replay.at = "flushing" /\ fl["force"].at = "remove" => Covered(p, n, Flushed)
       /\ replay.at = "remove" => Covered(p, n, Flushed)

IInv == /\ TypeOK
        /\ TokensKept
        /\ CtlInv
        /\ WriteInv
        /\ LogInv
        /\ SnapInv
        /\ CoverInv
        /\ Durable
        /\ Readable

----------------------------------------------------------------------------
(***************************************************************************)
(* Sequences and sets.                                                     *)
(***************************************************************************)

\* What a sequence holds after Append, Tail and concatenation.
LEMMA RangeAppend ==
  ASSUME NEW S, NEW s \in Seq(S), NEW e \in S
  PROVE  Range(Append(s, e)) = Range(s) \cup {e}
<1>1. /\ DOMAIN s = 1..Len(s) /\ Len(s) \in Nat
      /\ DOMAIN Append(s, e) = 1..(Len(s) + 1)
      /\ \A i \in 1..Len(s) : Append(s, e)[i] = s[i]
      /\ Append(s, e)[Len(s) + 1] = e
  OBVIOUS
<1>2. 1..(Len(s) + 1) = 1..Len(s) \cup {Len(s) + 1}
  BY <1>1
<1> QED
  BY <1>1, <1>2, Zenon DEF Range

LEMMA RangeConcat ==
  ASSUME NEW S, NEW s \in Seq(S), NEW t \in Seq(S)
  PROVE  Range(s \o t) = Range(s) \cup Range(t)
  BY RangeConcatenation

LEMMA RangeTail ==
  ASSUME NEW S, NEW s \in Seq(S), s # <<>>
  PROVE  Range(s) = {Head(s)} \cup Range(Tail(s))
<1>1. /\ DOMAIN s = 1..Len(s) /\ Len(s) \in Nat /\ Len(s) >= 1
      /\ DOMAIN Tail(s) = 1..(Len(s) - 1)
      /\ \A i \in 1..(Len(s) - 1) : Tail(s)[i] = s[i + 1]
      /\ s[1] = Head(s)
  OBVIOUS
<1>2. \A i \in DOMAIN s : i = 1 \/ (i - 1 \in DOMAIN Tail(s) /\ Tail(s)[i - 1] = s[i])
  BY <1>1
<1>3. \A i \in DOMAIN Tail(s) : i + 1 \in DOMAIN s /\ Tail(s)[i] = s[i + 1]
  BY <1>1
<1>4. 1 \in DOMAIN s
  BY <1>1
<1>5. ASSUME NEW x \in Range(s) PROVE x \in {Head(s)} \cup Range(Tail(s))
  <2>1. PICK i \in DOMAIN s : x = s[i]
    BY DEF Range
  <2> QED
    BY <1>1, <1>2, <2>1, Zenon DEF Range
<1>6. ASSUME NEW x \in Range(Tail(s)) PROVE x \in Range(s)
  <2>1. PICK i \in DOMAIN Tail(s) : x = Tail(s)[i]
    BY DEF Range
  <2>2. i + 1 \in DOMAIN s /\ x = s[i + 1]
    BY <1>3, <2>1
  <2> QED
    BY <2>2 DEF Range
<1>7. Head(s) \in Range(s)
  BY <1>1, <1>4 DEF Range
<1> QED
  BY <1>5, <1>6, <1>7

LEMMA RangeEmpty == Range(<<>>) = {}
  BY DEF Range

LEMMA RangeType ==
  ASSUME NEW S, NEW s \in Seq(S)
  PROVE  Range(s) \subseteq S
  BY DEF Range

\* A sequence of the elements of a finite set in some order.
LEMMA InOrderType ==
  ASSUME NEW S, IsFiniteSet(S), NEW key, NEW q \in InOrder(S, key)
  PROVE  q \in Seq(S) /\ Range(q) = S
  BY FS_CardinalityType DEF InOrder

\* The last of an ascending sequence is its greatest element.
LEMMA AscendingLast ==
  ASSUME NEW S, IsFiniteSet(S), S \subseteq Nat, NEW q \in Ascending(S)
  PROVE  /\ q \in Seq(Nat) /\ Range(q) = S
         /\ q # <<>> => Last(q) \in Nat /\ \A n \in S : n <= Last(q)
         /\ q = <<>> => S = {}
<1>1. q \in Seq(S) /\ Range(q) = S
  BY InOrderType DEF Ascending
<1>2. Cardinality(S) \in Nat
  BY FS_CardinalityType
<1>3. q \in [1..Cardinality(S) -> S] /\ \A i, j \in 1..Cardinality(S) : i < j => q[i] < q[j]
  BY <1>2 DEF Ascending, InOrder
<1>4. Len(q) = Cardinality(S)
  BY <1>1, <1>2, <1>3
<1>5. ASSUME q # <<>> PROVE Len(q) \in 1..Len(q) /\ Last(q) = q[Len(q)] /\ Last(q) \in Nat
  <2>1. Len(q) \in Nat \ {0}
    BY <1>1, <1>5, EmptySeq
  <2>2. Len(q) \in 1..Len(q) /\ q[Len(q)] \in S
    BY <1>3, <1>4, <2>1
  <2> QED
    BY <2>2, Zenon DEF Last
<1>6. ASSUME q # <<>>, NEW n \in S PROVE n <= Last(q)
  <2>1. PICK i \in 1..Len(q) : q[i] = n
    BY <1>1 DEF Range
  <2>2. q[i] \in Nat
    BY <1>3, <1>4, <2>1
  <2>3. i < Len(q) \/ i = Len(q)
    BY <2>1, <1>2, <1>4
  <2> QED
    BY <1>3, <1>4, <1>5, <1>6, <2>1, <2>2, <2>3
<1>7. q = <<>> => S = {}
  BY <1>1, RangeEmpty
<1>8. q \in Seq(Nat)
  BY <1>1, SeqMonotonic
<1> QED
  BY <1>1, <1>5, <1>6, <1>7, <1>8

----------------------------------------------------------------------------
(***************************************************************************)
(* The parts of the invariant and the variables they depend on.            *)
(***************************************************************************)
LEMMA CtlSame == CtlInv /\ UNCHANGED <<phase, ticker, fl, replay>> => CtlInv'
  BY DEF CtlInv, Prepared, Flushing

LEMMA LogSame == LogInv /\ UNCHANGED <<phase, disk, names, fileSeq, fl>> => LogInv'
  BY DEF LogInv, Flushing, NoneLeft

LEMMA SnapSame == SnapInv /\ UNCHANGED <<files, snap, fl>> => SnapInv'
  BY DEF SnapInv, Flushing

LEMMA CoverSame ==
  CoverInv /\ UNCHANGED <<disk, names, active, snap, files, fl, replay>> => CoverInv'
  BY DEF CoverInv, Covered, Flushed, Seen, Todo

LEMMA DurableSame == Durable /\ UNCHANGED <<pc, files, disk>> => Durable'
  BY DEF Durable, Acked, InWal

LEMMA ReadableSame == Readable /\ UNCHANGED <<phase, pc, files, snap, active>> => Readable'
  BY DEF Readable, Acked

----------------------------------------------------------------------------
(***************************************************************************)
(* The tokens.                                                             *)
(***************************************************************************)

\* The requests that hold a token.
Holders == {w \in Writes : pc[w] \in {"index", "table"}}

LEMMA HoldersFinite == IsFiniteSet(Holders) /\ Cardinality(Holders) \in Nat
<1>1. IsFiniteSet(Writes)
  BY WalAssumption
<1>2. IsFiniteSet(Holders)
  BY <1>1, FS_Subset DEF Holders
<1> QED
  BY <1>2, FS_CardinalityType

\* A request gets a token, or one that held it gives it away.
LEMMA HoldersAdd ==
  ASSUME TypeOK, NEW w \in Writes, NEW s,
         pc[w] \notin {"index", "table"}, s \in {"index", "table"}, pc' = [pc EXCEPT ![w] = s]
  PROVE  Cardinality(Holders') = Cardinality(Holders) + 1
<1>1. Holders' = Holders \cup {w} /\ w \notin Holders
  BY SMTT(40) DEF TypeOK, Holders
<1> QED
  BY <1>1, HoldersFinite, FS_AddElement

LEMMA HoldersRemove ==
  ASSUME TypeOK, NEW w \in Writes, pc[w] \in {"index", "table"},
         \E s \in {"wal", "failed"} : pc' = [pc EXCEPT ![w] = s]
  PROVE  Cardinality(Holders) = Cardinality(Holders') + 1 /\ Cardinality(Holders') \in Nat
<1>1. Holders' = Holders \ {w} /\ w \in Holders
  BY DEF TypeOK, Holders
<1>2. Cardinality(Holders') = Cardinality(Holders) - 1
  BY <1>1, HoldersFinite, FS_RemoveElement
<1>3. Cardinality(Holders') \in Nat
  BY <1>1, HoldersFinite, FS_RemoveElement, FS_CardinalityType
<1> QED
  BY <1>2, <1>3, HoldersFinite

LEMMA HoldersKeep ==
  ASSUME TypeOK, NEW w \in Writes, NEW s,
         pc[w] \in {"index", "table"} <=> s \in {"index", "table"}, pc' = [pc EXCEPT ![w] = s]
  PROVE  Holders' = Holders
  BY DEF TypeOK, Holders

\* A table that is being flushed holds its tokens until it is committed.
Held(f) == IF fl[f].at = "commit" THEN fl[f].size ELSE 0

LEMMA TokensKeptDef ==
  TokensKept <=> free + active.size + Held("tick") + Held("force") + Cardinality(Holders) = MemLimit
  BY DEF TokensKept, Held, Holders

LEMMA Budget ==
  ASSUME TypeOK, TokensKept
  PROVE  /\ free \in Nat /\ active.size \in Nat /\ MemLimit \in Nat
         /\ \A f \in Flushers : Held(f) \in Nat
         /\ free + active.size + Held("tick") + Held("force") + Cardinality(Holders) = MemLimit
         /\ Cardinality(Holders) \in Nat
<1>1. free \in Nat /\ active.size \in Nat /\ MemLimit \in Nat
  BY WalAssumption DEF TypeOK
<1>2. \A f \in Flushers : Held(f) \in Nat
  BY WalAssumption DEF TypeOK, Held
<1> QED
  BY <1>1, <1>2, HoldersFinite, TokensKeptDef

LEMMA TokensSame == TokensKept /\ UNCHANGED <<free, active, fl, pc>> => TokensKept'
  BY DEF TokensKept

LEMMA PartsFacts == NumParts \in Nat \ {0} /\ 0 \in Parts /\ \A i \in Nat : i % NumParts \in Parts
  BY WalAssumption DEF Parts

----------------------------------------------------------------------------
(***************************************************************************)
(* One lemma per action: the steps of a write.                             *)
(***************************************************************************)

\* The answers of a write and its table are all that a step of it may change in
\* these parts of the invariant.
LEMMA PcOnly ==
  ASSUME IInv, UNCHANGED <<stale, phase, ticker, tblVars, walVars, fl, rnames, replay>>
  PROVE  CtlInv' /\ LogInv' /\ SnapInv' /\ CoverInv'
  BY CtlSame, LogSame, SnapSame, CoverSame DEF IInv, tblVars, walVars

LEMMA NotAcked ==
  ASSUME IInv, NEW w \in Writes, NEW s, s # "acked", pc' = [pc EXCEPT ![w] = s],
         UNCHANGED <<phase, tblVars, disk>>
  PROVE  Durable' /\ Readable'
<1>1. \A v \in Acked' : v \in Acked
  BY DEF IInv, TypeOK, Acked
<1>2. Durable'
  BY <1>1 DEF IInv, Durable, InWal, tblVars
<1>3. Readable'
  BY <1>1 DEF IInv, Readable, tblVars
<1> QED
  BY <1>2, <1>3

LEMMA BeginWriteStep == ASSUME IInv, NEW w \in Writes, BeginWrite(w) PROVE IInv'
<1> USE DEF BeginWrite
<1>1. TypeOK'
  BY DEF IInv, TypeOK, Acked, tblVars, walVars
<1>2. TokensKept'
  <2>1. Holders' = Holders
    BY HoldersKeep DEF IInv
  <2> QED
    BY <2>1, TokensKeptDef DEF IInv, TokensKept, Holders, tblVars
<1>3. WriteInv'
  BY DEF IInv, TypeOK, WriteInv, tblVars, OpenPhases, LogPhases
<1>4. Durable' /\ Readable'
  BY NotAcked DEF walVars
<1> QED
  BY <1>1, <1>2, <1>3, <1>4, PcOnly DEF IInv

LEMMA EnterWriteStep == ASSUME IInv, NEW w \in Writes, EnterWrite(w) PROVE IInv'
<1> USE DEF EnterWrite
<1>1. TypeOK'
  BY DEF IInv, TypeOK, tblVars, walVars
<1>2. TokensKept'
  <2>1. Holders' = Holders
    BY HoldersKeep DEF IInv
  <2> QED
    BY <2>1 DEF IInv, TokensKept, Holders, tblVars
<1>3. WriteInv'
  BY DEF IInv, TypeOK, WriteInv, tblVars, OpenPhases, LogPhases, MuLocked
<1>4. Durable' /\ Readable'
  BY NotAcked DEF walVars
<1> QED
  BY <1>1, <1>2, <1>3, <1>4, PcOnly DEF IInv

LEMMA AllocResourceStep == ASSUME IInv, NEW w \in Writes, AllocResource(w) PROVE IInv'
<1> USE DEF AllocResource
<1>1. TypeOK'
  <2>1. free' \in 0..MemLimit
    <3>1. free \in 0..MemLimit
      BY DEF IInv, TypeOK
    <3> QED
      BY <3>1, WalAssumption
  <2> QED
    BY <2>1 DEF IInv, TypeOK, tblVars, walVars
<1>2. TokensKept'
  <2>1. Cardinality(Holders') = Cardinality(Holders) + 1
    BY HoldersAdd DEF IInv
  <2>2. Held("tick")' = Held("tick") /\ Held("force")' = Held("force") /\ active' = active
    BY DEF Held, tblVars
  <2>3. free' + active'.size + Held("tick")' + Held("force")' + Cardinality(Holders') = MemLimit
    BY <2>1, <2>2, Budget DEF IInv, Flushers
  <2> QED
    BY <2>3 DEF TokensKept, Held, Holders
<1>3. WriteInv'
  BY DEF IInv, TypeOK, WriteInv, tblVars
<1>4. Durable' /\ Readable'
  BY NotAcked DEF walVars
<1> QED
  BY <1>1, <1>2, <1>3, <1>4, PcOnly DEF IInv

LEMMA AllocTimeoutStep == ASSUME IInv, NEW w \in Writes, AllocTimeout(w) PROVE IInv'
<1> USE DEF AllocTimeout
<1>1. TypeOK'
  BY DEF IInv, TypeOK, tblVars, walVars
<1>2. TokensKept'
  <2>1. Holders' = Holders
    BY HoldersKeep DEF IInv
  <2> QED
    BY <2>1 DEF IInv, TokensKept, Holders, tblVars
<1>3. WriteInv'
  BY DEF IInv, TypeOK, WriteInv, tblVars
<1>4. Durable' /\ Readable'
  BY NotAcked DEF walVars
<1> QED
  BY <1>1, <1>2, <1>3, <1>4, PcOnly DEF IInv

LEMMA WriteIndexStep == ASSUME IInv, NEW w \in Writes, WriteIndex(w) PROVE IInv'
<1> USE DEF WriteIndex
<1>1. TypeOK'
  BY DEF IInv, TypeOK, tblVars, walVars
<1>2. TokensKept'
  <2>1. Holders' = Holders
    BY HoldersKeep DEF IInv
  <2> QED
    BY <2>1 DEF IInv, TokensKept, Holders, tblVars
<1>3. WriteInv'
  BY DEF IInv, TypeOK, WriteInv, tblVars, ClosedFor
<1>4. Durable' /\ Readable'
  BY NotAcked DEF walVars
<1> QED
  BY <1>1, <1>2, <1>3, <1>4, PcOnly DEF IInv

LEMMA WriteIndexFailsStep == ASSUME IInv, NEW w \in Writes, WriteIndexFails(w) PROVE IInv'
<1> USE DEF WriteIndexFails
<1>1. Cardinality(Holders) = Cardinality(Holders') + 1 /\ Cardinality(Holders') \in Nat
  BY HoldersRemove DEF IInv
<1>2. TypeOK'
  <2>1. free' \in 0..MemLimit
    BY <1>1, Budget DEF IInv, Flushers
  <2> QED
    BY <2>1 DEF IInv, TypeOK, tblVars, walVars
<1>3. TokensKept'
  <2>1. Held("tick")' = Held("tick") /\ Held("force")' = Held("force") /\ active' = active
    BY DEF Held, tblVars
  <2>2. free' + active'.size + Held("tick")' + Held("force")' + Cardinality(Holders') = MemLimit
    BY <1>1, <2>1, Budget DEF IInv, Flushers
  <2> QED
    BY <2>2 DEF TokensKept, Held, Holders
<1>4. WriteInv'
  BY DEF IInv, TypeOK, WriteInv, tblVars
<1>5. Durable' /\ Readable'
  BY NotAcked DEF walVars
<1> QED
  BY <1>2, <1>3, <1>4, <1>5, PcOnly DEF IInv

\* The active table only grows: what it covers stays covered.
LEMMA ActiveGrows ==
  ASSUME IInv, Range(active.rows) \subseteq Range(active'.rows),
         UNCHANGED <<disk, names, snap, files, fl, replay>>
  PROVE  CoverInv'
<1>1. Range(active.rows) \subseteq Range(active.rows)'
  OBVIOUS
<1>2. Seen \subseteq Seen' /\ Flushed' = Flushed /\ \A p \in Parts : Todo(p)' = Todo(p)
  BY <1>1 DEF Seen, Flushed, Todo
<1>3. \A p, n, A, B : A \subseteq B /\ Covered(p, n, A) => Covered(p, n, B)'
  BY DEF Covered
<1> HIDE DEF Covered, Seen, Flushed, Todo
<1>4. \A p \in Parts : \A n \in Range(names'[p]) : Covered(p, n, Range(active.rows))'
  BY <1>1, <1>3 DEF IInv, CoverInv
<1>5. \A f \in Flushers : \A p \in Parts : \A n \in Range(fl'[f].wal.names[p]) :
         /\ fl'[f].at = "commit" => Covered(p, n, Range(snap.rows))'
         /\ fl'[f].at = "remove" => Covered(p, n, Flushed)'
  BY <1>2, <1>3 DEF IInv, CoverInv
<1>6. replay'.at = "read" /\ ~replay'.errs =>
         \A p \in Parts : \A n \in DOMAIN disk'[p] : Covered(p, n, Seen \cup Todo(p))'
  BY <1>2, <1>3 DEF IInv, CoverInv
<1>7. \A p \in Parts : \A n \in DOMAIN disk'[p] :
       /\ replay'.at \in {"flush", "flushing"} => Covered(p, n, Seen)'
       /\ replay'.at = "flushing" /\ fl'["force"].at = "commit"
            => Covered(p, n, Flushed \cup Range(snap.rows))'
       /\ replay'.at = "flushing" /\ fl'["force"].at = "remove" => Covered(p, n, Flushed)'
       /\ replay'.at = "remove" => Covered(p, n, Flushed)'
  BY <1>2, <1>3 DEF IInv, CoverInv
<1> QED
  BY <1>4, <1>5, <1>6, <1>7 DEF CoverInv

LEMMA WriteTableStep == ASSUME IInv, NEW w \in Writes, WriteTable(w) PROVE IInv'
<1> USE DEF WriteTable
<1>1. Cardinality(Holders) = Cardinality(Holders') + 1 /\ Cardinality(Holders') \in Nat
  BY HoldersRemove DEF IInv
<1>2. active.rows \in Seq(Writes) /\ active.size \in Nat
  BY DEF IInv, TypeOK
<1>3. Range(active'.rows) = Range(active.rows) \cup {w}
  BY <1>2, RangeAppend
<1>4. TypeOK'
  <2>1. active' \in [rows : Seq(Writes), size : Nat]
    BY <1>2
  <2> QED
    BY <2>1 DEF IInv, TypeOK, walVars
<1>5. TokensKept'
  <2>1. Held("tick")' = Held("tick") /\ Held("force")' = Held("force") /\ active'.size = active.size + 1
    BY DEF Held
  <2>2. free' = free
    OBVIOUS
  <2> HIDE DEF WriteTable
  <2>3. free' + active'.size + Held("tick")' + Held("force")' + Cardinality(Holders') = MemLimit
    BY <1>1, <2>1, <2>2, Budget DEF IInv, Flushers
  <2> QED
    BY <2>3 DEF TokensKept, Held, Holders
<1>6. WriteInv'
  BY <1>3 DEF IInv, TypeOK, WriteInv
<1>7. CtlInv' /\ LogInv' /\ SnapInv'
  BY CtlSame, LogSame, SnapSame DEF IInv, walVars
<1>8. CoverInv'
  BY <1>3, ActiveGrows DEF walVars
<1>9. Durable' /\ Readable'
  <2>1. Acked' = Acked
    BY DEF IInv, TypeOK, Acked
  <2> QED
    BY <1>3, <2>1 DEF IInv, Durable, Readable, InWal, walVars
<1> QED
  BY <1>4, <1>5, <1>6, <1>7, <1>8, <1>9 DEF IInv

LEMMA WriteTableFailsStep == ASSUME IInv, NEW w \in Writes, WriteTableFails(w) PROVE IInv'
<1> USE DEF WriteTableFails
<1>1. Cardinality(Holders) = Cardinality(Holders') + 1 /\ Cardinality(Holders') \in Nat
  BY HoldersRemove DEF IInv
<1>2. active' \in [rows : Seq(Writes), size : Nat] /\ active'.rows = active.rows /\ active'.size = active.size + 1
  <2>1. active \in [rows : Seq(Writes), size : Nat]
    BY DEF IInv, TypeOK
  <2> QED
    BY <2>1
<1>3. TypeOK'
  BY <1>2 DEF IInv, TypeOK, walVars
<1>4. TokensKept'
  <2>1. Held("tick")' = Held("tick") /\ Held("force")' = Held("force") /\ active'.size = active.size + 1
    BY <1>2 DEF Held
  <2>2. free' = free
    OBVIOUS
  <2> HIDE DEF WriteTableFails
  <2>3. free' + active'.size + Held("tick")' + Held("force")' + Cardinality(Holders') = MemLimit
    BY <1>1, <2>1, <2>2, Budget DEF IInv, Flushers
  <2> QED
    BY <2>3 DEF TokensKept, Held, Holders
<1>5. WriteInv'
  BY <1>2 DEF IInv, TypeOK, WriteInv
<1>6. CtlInv' /\ LogInv' /\ SnapInv'
  BY CtlSame, LogSame, SnapSame DEF IInv, walVars
<1>7. CoverInv'
  BY <1>2, ActiveGrows DEF walVars
<1>8. Durable' /\ Readable'
  <2>1. Acked' = Acked
    BY DEF IInv, TypeOK, Acked
  <2> QED
    BY <1>2, <2>1 DEF IInv, Durable, Readable, InWal, walVars
<1> QED
  BY <1>3, <1>4, <1>5, <1>6, <1>7, <1>8 DEF IInv

LEMMA FlNames ==
  ASSUME TypeOK
  PROVE  \A f \in Flushers : \A p \in Parts :
           fl[f].wal.names[p] \in Seq(Nat) /\ Range(fl[f].wal.names[p]) \subseteq Nat
<1> SUFFICES ASSUME NEW f \in Flushers, NEW p \in Parts
             PROVE  fl[f].wal.names[p] \in Seq(Nat) /\ Range(fl[f].wal.names[p]) \subseteq Nat
  OBVIOUS
<1>1. fl[f].wal \in [order : Orders, names : [Parts -> Seq(Nat)]]
  BY DEF TypeOK
<1>2. fl[f].wal.names[p] \in Seq(Nat)
  BY <1>1
<1> QED
  BY <1>2, RangeType

\* A record is added to a file of a partition, new or not.
LEMMA WithType ==
  ASSUME NEW fs, NEW n, NEW w \in Writes, fs \in [DOMAIN fs -> Seq(Writes) \ {<<>>}]
  PROVE  With(fs, n, w) \in [DOMAIN fs \cup {n} -> Seq(Writes) \ {<<>>}]
<1>1. <<w>> \in Seq(Writes) \ {<<>>}
  OBVIOUS
<1>2. \A m \in DOMAIN fs : fs[m] \in Seq(Writes) \ {<<>>}
  OBVIOUS
<1>3. \A s \in Seq(Writes) : Append(s, w) \in Seq(Writes) \ {<<>>}
  OBVIOUS
<1>4. n \in DOMAIN fs => Append(fs[n], w) \in Seq(Writes) \ {<<>>}
  BY <1>2, <1>3, Zenon
<1> QED
  BY <1>1, <1>2, <1>4 DEF With

LEMMA WithOther ==
  ASSUME NEW fs, NEW n, NEW w \in Writes, fs \in [DOMAIN fs -> Seq(Writes) \ {<<>>}]
  PROVE  \A m \in DOMAIN fs : m # n => With(fs, n, w)[m] = fs[m]
  BY DEF With

LEMMA WithNew ==
  ASSUME NEW fs, NEW n, NEW w \in Writes, fs \in [DOMAIN fs -> Seq(Writes) \ {<<>>}]
  PROVE  n \notin DOMAIN fs => Range(With(fs, n, w)[n]) = {w}
<1>1. Range(<<w>>) = {w}
  BY DEF Range
<1> QED
  BY <1>1 DEF With

LEMMA WithOld ==
  ASSUME NEW fs, NEW n, NEW w \in Writes, fs \in [DOMAIN fs -> Seq(Writes) \ {<<>>}]
  PROVE  n \in DOMAIN fs => Range(With(fs, n, w)[n]) = Range(fs[n]) \cup {w}
<1>1. n \in DOMAIN fs => Range(Append(fs[n], w)) = Range(fs[n]) \cup {w}
  BY RangeAppend
<1>2. n \in DOMAIN fs => With(fs, n, w)[n] = Append(fs[n], w)
  BY DEF With
<1> QED
  BY <1>1, <1>2, Zenon

\* The file that WriteWal writes, k: it belongs to the names of the log, it is not
\* one that a flush removes, and a new one is not on disk yet.
LEMMA WriteWalFile ==
  ASSUME IInv, NEW w \in Writes, WriteWal(w)
  PROVE  \E k \in Nat :
           /\ disk' = [disk EXCEPT ![writeReq] = With(@, k, w)]
           /\ names' \in [Parts -> Seq(Nat)] /\ fileSeq' \in [Parts -> Nat]
           /\ \A q \in Parts : fileSeq[q] <= fileSeq'[q]
           /\ \A q \in Parts : q # writeReq => names'[q] = names[q]
           /\ Range(names'[writeReq]) = Range(names[writeReq]) \cup {k}
           /\ k <= fileSeq'[writeReq]
           /\ k \in DOMAIN disk[writeReq] => k \in Range(names[writeReq])
           /\ \A f \in Flushers : k \notin Range(fl[f].wal.names[writeReq])
<1> DEFINE p == writeReq
           n == fileSeq[p] + 1
<1>1. p \in Parts /\ names \in [Parts -> Seq(Nat)] /\ fileSeq \in [Parts -> Nat] /\ names[p] \in Seq(Nat)
      /\ fileSeq[p] \in Nat /\ n \in Nat
  <2>1. p \in Parts /\ names \in [Parts -> Seq(Nat)] /\ fileSeq \in [Parts -> Nat]
    BY DEF IInv, TypeOK
  <2> QED
    BY <2>1
<1>2. phase \in {"open", "closing"}
  BY DEF IInv, WriteInv, WriteWal
<1>3. DOMAIN disk[p] \subseteq Nat /\ \A m \in DOMAIN disk[p] : m <= fileSeq[p]
  BY <1>1, <1>2 DEF IInv, TypeOK, LogInv
<1>4. \A f \in Flushers : Range(fl[f].wal.names[p]) \subseteq Nat /\ \A m \in Range(fl[f].wal.names[p]) :
        m <= fileSeq[p] /\ m \notin Range(names[p])
  <2>1. \A f \in Flushers : Range(fl[f].wal.names[p]) \subseteq Nat
    BY <1>1, FlNames DEF IInv
  <2> QED
    BY <1>1, <2>1 DEF IInv, LogInv
<1>5. CASE NeedNewFile(p)
  <2>1. /\ fileSeq' = [fileSeq EXCEPT ![p] = n]
        /\ names' = [names EXCEPT ![p] = Append(@, n)]
        /\ disk' = [disk EXCEPT ![p] = With(@, n, w)]
    BY <1>5 DEF WriteWal
  <2>2. names'[p] = Append(names[p], n) /\ fileSeq'[p] = n
    BY <1>1, <2>1
  <2>3. Range(names'[p]) = Range(names[p]) \cup {n}
    <3> HIDE DEF n, p
    <3>1. names[p] \in Seq(Nat) /\ n \in Nat
      BY <1>1
    <3>2. Range(Append(names[p], n)) = Range(names[p]) \cup {n}
      BY <3>1, RangeAppend
    <3> QED
      BY <2>2, <3>2, Zenon
  <2>4. names' \in [Parts -> Seq(Nat)] /\ fileSeq' \in [Parts -> Nat]
    <3>1. Append(names[p], n) \in Seq(Nat)
      BY <1>1
    <3> QED
      BY <1>1, <2>1, <3>1
  <2>5. n \notin DOMAIN disk[p] /\ \A f \in Flushers : n \notin Range(fl[f].wal.names[p])
    BY <1>1, <1>3, <1>4
  <2>6. \A q \in Parts : fileSeq[q] <= fileSeq'[q]
    BY <1>1, <2>1
  <2>7. \A q \in Parts : q # p => names'[q] = names[q]
    BY <1>1, <2>1
  <2>8. n <= fileSeq'[p]
    BY <1>1, <2>2
  <2> HIDE DEF n
  <2> QED
    BY <1>1, <2>1, <2>3, <2>4, <2>5, <2>6, <2>7, <2>8
<1>6. CASE ~NeedNewFile(p)
  <2>1. disk' = [disk EXCEPT ![p] = With(@, Last(names[p]), w)] /\ fileSeq' = fileSeq /\ names' = names
    BY <1>6 DEF WriteWal
  <2>2. Len(names[p]) \in DOMAIN names[p] /\ Last(names[p]) = names[p][Len(names[p])]
    <3>1. names[p] # <<>>
      BY <1>6 DEF NeedNewFile
    <3>2. Len(names[p]) \in 1..Len(names[p])
      BY <1>1, <3>1
    <3> QED
      BY <1>1, <3>2 DEF Last
  <2>3. Last(names[p]) \in Range(names[p])
    BY <2>2, Zenon DEF Range
  <2>4. Last(names[p]) \in Nat /\ Last(names[p]) <= fileSeq[p]
    BY <1>1, <2>3, RangeType DEF IInv, LogInv
  <2>5. Range(names[p]) = Range(names[p]) \cup {Last(names[p])}
    BY <2>3
  <2>6. \A f \in Flushers : Last(names[p]) \notin Range(fl[f].wal.names[p])
    BY <1>4, <2>3
  <2>7. \A q \in Parts : fileSeq[q] <= fileSeq[q]
    BY <1>1
  <2> QED
    BY <1>1, <2>1, <2>3, <2>4, <2>5, <2>6, <2>7
<1> QED
  BY <1>5, <1>6

LEMMA WriteWalStep == ASSUME IInv, NEW w \in Writes, WriteWal(w) PROVE IInv'
<1>1. PICK k \in Nat :
        /\ disk' = [disk EXCEPT ![writeReq] = With(@, k, w)]
        /\ names' \in [Parts -> Seq(Nat)] /\ fileSeq' \in [Parts -> Nat]
        /\ \A q \in Parts : fileSeq[q] <= fileSeq'[q]
        /\ \A q \in Parts : q # writeReq => names'[q] = names[q]
        /\ Range(names'[writeReq]) = Range(names[writeReq]) \cup {k}
        /\ k <= fileSeq'[writeReq]
        /\ k \in DOMAIN disk[writeReq] => k \in Range(names[writeReq])
        /\ \A f \in Flushers : k \notin Range(fl[f].wal.names[writeReq])
  BY WriteWalFile
<1>2. /\ writeReq' = NextWriter(writeReq)
      /\ pc[w] = "wal"
      /\ part' = [part EXCEPT ![w] = writeReq]
      /\ \E answer \in {"acked", "failed"} : pc' = [pc EXCEPT ![w] = answer]
      /\ UNCHANGED <<prec, stale, phase, ticker, active, snap, files, free, fl, rnames, replay>>
  BY DEF WriteWal, tblVars
<1>3. phase \in {"open", "closing"} /\ w \in Range(active.rows) /\ w \notin stale
  BY <1>2 DEF IInv, WriteInv
<1>4. writeReq \in Parts /\ DOMAIN disk = Parts
  BY DEF IInv, TypeOK
<1> DEFINE p == writeReq
           D == DOMAIN disk[p]
<1>5. /\ D \subseteq Nat /\ IsFiniteSet(D)
      /\ disk[p] \in [D -> Seq(Writes) \ {<<>>}]
  BY <1>4 DEF IInv, TypeOK
<1>6. /\ disk'[p] = With(disk[p], k, w)
      /\ DOMAIN disk' = Parts
      /\ \A q \in Parts : q # p => disk'[q] = disk[q]
  BY <1>1, <1>4
<1>7. /\ disk'[p] \in [D \cup {k} -> Seq(Writes) \ {<<>>}]
      /\ DOMAIN disk'[p] = D \cup {k}
      /\ \A m \in D : m # k => disk'[p][m] = disk[p][m]
      /\ k \in D => Range(disk'[p][k]) = Range(disk[p][k]) \cup {w}
      /\ k \notin D => Range(disk'[p][k]) = {w}
  <2> HIDE DEF D, p
  <2>1. disk[p] \in [DOMAIN disk[p] -> Seq(Writes) \ {<<>>}]
    BY <1>5 DEF D
  <2>2. With(disk[p], k, w) \in [D \cup {k} -> Seq(Writes) \ {<<>>}]
    BY <2>1, WithType, Zenon DEF D
  <2>3. DOMAIN With(disk[p], k, w) = D \cup {k}
    BY DEF D, With
  <2>4. \A m \in D : m # k => With(disk[p], k, w)[m] = disk[p][m]
    BY <2>1, WithOther DEF D
  <2>5. k \in D => Range(With(disk[p], k, w)[k]) = Range(disk[p][k]) \cup {w}
    BY <2>1, WithOld DEF D
  <2>6. k \notin D => Range(With(disk[p], k, w)[k]) = {w}
    BY <2>1, WithNew, ZenonT(40) DEF D
  <2> QED
    BY <1>6, <2>2, <2>3, <2>4, <2>5, <2>6, Zenon
<1> HIDE DEF p, D
<1>8. \A q \in Parts : \A m \in DOMAIN disk[q] :
        m \in DOMAIN disk'[q] /\ Range(disk[q][m]) \subseteq Range(disk'[q][m])
  BY <1>6, <1>7 DEF D
<1>9. TypeOK'
  <2>1. IsFiniteSet(D \cup {k}) /\ D \cup {k} \subseteq Nat
    BY <1>1, <1>5, FS_AddElement
  <2>2. \A q \in Parts : /\ DOMAIN disk'[q] \subseteq Nat /\ IsFiniteSet(DOMAIN disk'[q])
                          /\ disk'[q] \in [DOMAIN disk'[q] -> Seq(Writes) \ {<<>>}]
    BY <1>6, <1>7, <2>1 DEF IInv, TypeOK
  <2>3. writeReq' \in Parts
    <3>1. writeReq + 1 \in Nat
      BY <1>4, WalAssumption DEF Parts
    <3> QED
      BY <1>2, <3>1, PartsFacts DEF NextWriter
  <2>4. pc' \in [Writes -> {"new", "enter", "alloc", "index", "table", "wal", "acked", "failed"}]
    BY <1>2, SMTT(40) DEF IInv, TypeOK
  <2>5. part' \in [Writes -> 0..NumParts]
    <3>1. writeReq \in 0..NumParts
      BY <1>4, WalAssumption DEF Parts
    <3> QED
      BY <1>2, <3>1 DEF IInv, TypeOK
  <2> QED
    BY <1>1, <1>2, <1>6, <2>2, <2>3, <2>4, <2>5 DEF IInv, TypeOK
<1>10. TokensKept'
  <2>1. Holders' = Holders
    BY <1>2, HoldersKeep DEF IInv
  <2> QED
    BY <1>2, <2>1 DEF IInv, TokensKept, Holders
<1>11. CtlInv' /\ SnapInv'
  BY <1>2, CtlSame, SnapSame DEF IInv
<1>12. WriteInv'
  BY <1>2 DEF IInv, TypeOK, WriteInv
<1>13. LogInv'
  <2>1. \A q \in Parts : \A m \in DOMAIN disk'[q] : m <= fileSeq'[q]
    <3>1. \A q \in Parts : DOMAIN disk[q] \subseteq Nat /\ \A m \in DOMAIN disk[q] : m <= fileSeq[q]
      BY <1>3 DEF IInv, LogInv, TypeOK
    <3>2. \A q \in Parts : fileSeq[q] \in Nat /\ fileSeq'[q] \in Nat
      BY <1>1 DEF IInv, TypeOK
    <3>3. ASSUME NEW q \in Parts, NEW m \in DOMAIN disk'[q]
          PROVE  m <= fileSeq'[q]
      <4>1. CASE q = p /\ m = k
        BY <1>1, <4>1 DEF p
      <4>2. CASE ~(q = p /\ m = k)
        <5>1. m \in DOMAIN disk[q]
          BY <1>6, <1>7, <3>3, <4>2 DEF D
        <5>2. m \in Nat /\ m <= fileSeq[q] /\ fileSeq[q] <= fileSeq'[q]
          BY <1>1, <3>1, <5>1
        <5> QED
          BY <3>2, <5>2
      <4> QED
        BY <4>1, <4>2
    <3> QED
      BY <3>3
  <2>2. \A q \in Parts : \A m \in Range(names'[q]) : m \in DOMAIN disk'[q]
    BY <1>1, <1>6, <1>7 DEF IInv, LogInv, D, p
  <2>3. \A f \in Flushers : NoneLeft(fl'[f].wal) \/ (Flushing(f)' /\ phase' \in OpenPhases)
    BY <1>2 DEF IInv, LogInv, Flushing
  <2>4. \A f \in Flushers : \A q \in Parts : \A m \in Range(fl'[f].wal.names[q]) :
          m <= fileSeq'[q] /\ m \notin Range(names'[q])
    <3>1. \A f \in Flushers : \A q \in Parts : Range(fl[f].wal.names[q]) \subseteq Nat
      BY FlNames DEF IInv
    <3>2. \A q \in Parts : fileSeq[q] \in Nat /\ fileSeq'[q] \in Nat
      BY <1>1 DEF IInv, TypeOK
    <3>3. ASSUME NEW f \in Flushers, NEW q \in Parts, NEW m \in Range(fl[f].wal.names[q])
          PROVE  m <= fileSeq'[q] /\ m \notin Range(names'[q])
      <4>1. m <= fileSeq[q] /\ m \notin Range(names[q]) /\ m \in Nat
        BY <3>1 DEF IInv, LogInv
      <4>2. m <= fileSeq'[q]
        BY <1>1, <3>2, <4>1
      <4>3. m \notin Range(names'[q])
        BY <1>1, <3>3, <4>1
      <4> QED
        BY <4>2, <4>3
    <3> QED
      BY <1>2, <3>3
  <2>5. phase' \in LogPhases
    BY <1>2, <1>3 DEF LogPhases
  <2>6. \A q \in Parts : \A m \in Range(names'[q]) : m <= fileSeq'[q]
    BY <2>1, <2>2
  <2> QED
    BY <2>1, <2>2, <2>3, <2>4, <2>5, <2>6 DEF LogInv, NoneLeft
<1>14. CoverInv'
  <2>1. replay'.at = "idle"
    BY <1>2, <1>3 DEF IInv, CtlInv
  <2>2. ASSUME NEW q \in Parts, NEW m \in Range(names'[q]) PROVE Covered(q, m, Range(active.rows))'
    <3>1. CASE q = p /\ m = k
      <4>1. k \in D => Range(disk[p][k]) \subseteq Range(active.rows)
        BY <1>1, <1>4 DEF IInv, CoverInv, Covered, D, p
      <4> QED
        BY <1>2, <1>3, <1>7, <3>1, <4>1 DEF Covered
    <3>2. CASE ~(q = p /\ m = k)
      <4>1. m \in Range(names[q])
        BY <1>1, <2>2, <3>2 DEF p
      <4>2. m \in DOMAIN disk[q] => disk'[q][m] = disk[q][m]
        BY <1>6, <1>7, <3>2 DEF D
      <4>3. m \in DOMAIN disk'[q] => m \in DOMAIN disk[q]
        BY <1>6, <1>7, <3>2 DEF D
      <4> QED
        BY <1>2, <4>1, <4>2, <4>3 DEF IInv, CoverInv, Covered
    <3> QED
      BY <3>1, <3>2
  <2>3. ASSUME NEW f \in Flushers, NEW q \in Parts, NEW m \in Range(fl'[f].wal.names[q])
        PROVE  /\ fl'[f].at = "commit" => Covered(q, m, Range(snap.rows))'
               /\ fl'[f].at = "remove" => Covered(q, m, Flushed)'
    <3>1. ~(q = p /\ m = k) /\ m \in Range(fl[f].wal.names[q])
      BY <1>1, <1>2, <2>3 DEF p
    <3>2. m \in DOMAIN disk[q] => disk'[q][m] = disk[q][m]
      BY <1>6, <1>7, <3>1 DEF D
    <3>3. m \in DOMAIN disk'[q] => m \in DOMAIN disk[q]
      BY <1>6, <1>7, <3>1 DEF D
    <3> QED
      BY <1>2, <3>1, <3>2, <3>3 DEF IInv, CoverInv, Covered, Flushed
  <2> QED
    BY <2>1, <2>2, <2>3 DEF CoverInv
<1>15. Durable'
  <2>1. InWal(w)'
    <3>1. p \in Parts /\ k \in DOMAIN disk'[p] /\ w \in Range(disk'[p][k])
      BY <1>4, <1>7 DEF p
    <3> QED
      BY <3>1 DEF InWal
  <2>2. \A v \in Writes : InWal(v) => InWal(v)'
    BY <1>8 DEF InWal
  <2>3. \A v \in Acked' : v = w \/ v \in Acked
    BY <1>2 DEF IInv, TypeOK, Acked
  <2> QED
    BY <1>2, <2>1, <2>2, <2>3 DEF IInv, Durable, Acked
<1>16. Readable'
  <2>1. \A v \in Acked' : v = w \/ v \in Acked
    BY <1>2 DEF IInv, TypeOK, Acked
  <2> QED
    BY <1>2, <1>3, <2>1 DEF IInv, Readable
<1> QED
  BY <1>9, <1>10, <1>11, <1>12, <1>13, <1>14, <1>15, <1>16 DEF IInv

----------------------------------------------------------------------------
(***************************************************************************)
(* One lemma per action: the flushers.                                     *)
(***************************************************************************)
FlAts == {"idle", "wait", "ready", "commit", "remove"}
Lists == [order : Orders, names : [Parts -> Seq(Nat)]]
FlRec == [at : FlAts, wal : Lists, size : 0..MemLimit]

LEMMA NoListType == NoList \in Lists /\ NoneLeft(NoList)
<1>1. [i \in 1..NumParts |-> i - 1] \in Orders
  BY WalAssumption DEF Orders, Parts, IsInjective
<1>2. [p \in Parts |-> <<>>] \in [Parts -> Seq(Nat)]
  OBVIOUS
<1> QED
  BY <1>1, <1>2 DEF NoList, Listing, Lists, NoneLeft

LEMMA NoFlushType == NoFlush \in FlRec /\ NoFlush.at = "idle" /\ NoFlush.wal = NoList
  BY NoListType, WalAssumption DEF NoFlush, FlRec, FlAts

LEMMA FlUpdate ==
  ASSUME TypeOK, NEW f \in Flushers, NEW r \in FlRec, fl' = [fl EXCEPT ![f] = r]
  PROVE  fl' \in [Flushers -> FlRec] /\ fl'[f] = r /\ \A g \in Flushers : g # f => fl'[g] = fl[g]
<1>1. fl \in [Flushers -> FlRec]
  BY DEF TypeOK, FlRec, FlAts, Lists
<1> QED
  BY <1>1

LEMMA FlAt ==
  ASSUME TypeOK, NEW f \in Flushers, NEW s \in FlAts, fl' = [fl EXCEPT ![f].at = s]
  PROVE  /\ fl' \in [Flushers -> FlRec]
         /\ fl'[f].at = s /\ fl'[f].wal = fl[f].wal /\ fl'[f].size = fl[f].size
         /\ \A g \in Flushers : g # f => fl'[g] = fl[g]
<1>1. fl \in [Flushers -> FlRec]
  BY DEF TypeOK, FlRec, FlAts, Lists
<1> QED
  BY <1>1 DEF FlRec

\* A caller of writeSnapshot that has switched nothing yet moves on.
LEMMA FlWaits ==
  ASSUME IInv, NEW f \in Flushers, NEW s \in {"wait", "ready"}, fl[f].at \in {"idle", "wait"},
         fl' = [fl EXCEPT ![f].at = s],
         UNCHANGED <<pc, prec, part, stale, phase, ticker, tblVars, walVars, free, rnames>>
  PROVE  /\ fl' \in [Flushers -> FlRec]
         /\ TokensKept' /\ WriteInv' /\ LogInv' /\ SnapInv' /\ Durable' /\ Readable'
         /\ replay' = replay => CoverInv'
<1>1. /\ fl' \in [Flushers -> FlRec]
      /\ fl'[f].at = s /\ fl'[f].wal = fl[f].wal /\ fl'[f].size = fl[f].size
      /\ \A g \in Flushers : g # f => fl'[g] = fl[g]
  BY FlAt DEF IInv, FlAts
<1>2. \A g \in Flushers : /\ fl'[g].wal = fl[g].wal
                          /\ Flushing(g)' <=> Flushing(g)
                          /\ fl'[g].at = "commit" <=> fl[g].at = "commit"
                          /\ fl'[g].at = "remove" <=> fl[g].at = "remove"
                          /\ Held(g)' = Held(g)
  BY <1>1 DEF Flushing, Held
<1>3. TokensKept'
  <2>1. Held("tick")' = Held("tick") /\ Held("force")' = Held("force")
    BY <1>2 DEF Flushers
  <2> QED
    BY <2>1, Zenon DEF IInv, TokensKept, Held, tblVars
<1>4. WriteInv'
  BY DEF IInv, WriteInv, tblVars
<1>5. LogInv'
  BY <1>2 DEF IInv, LogInv, walVars, NoneLeft
<1>6. SnapInv'
  BY <1>2 DEF IInv, SnapInv, tblVars
<1>7. Durable' /\ Readable'
  BY DurableSame, ReadableSame DEF IInv, tblVars, walVars
<1>8. ASSUME replay' = replay PROVE CoverInv'
  <2>1. /\ fl'["force"].at = "commit" <=> fl["force"].at = "commit"
        /\ fl'["force"].at = "remove" <=> fl["force"].at = "remove"
    BY <1>2 DEF Flushers
  <2> QED
    BY <1>2, <1>8, <2>1 DEF IInv, CoverInv, tblVars, walVars, Covered, Flushed, Seen, Todo
<1> QED
  BY <1>1, <1>3, <1>4, <1>5, <1>6, <1>7, <1>8

LEMMA ShouldSnapshotStep == ASSUME IInv, ShouldSnapshot PROVE IInv'
<1> USE DEF ShouldSnapshot
<1>1. /\ fl' \in [Flushers -> FlRec]
      /\ TokensKept' /\ WriteInv' /\ LogInv' /\ SnapInv' /\ Durable' /\ Readable' /\ CoverInv'
  BY FlWaits DEF Flushers
<1>2. TypeOK'
  BY <1>1 DEF IInv, TypeOK, FlRec, FlAts, Lists, tblVars, walVars
<1>3. CtlInv'
  <2>1. fl'["tick"].at = "ready" /\ fl'["force"] = fl["force"]
    BY FlAt DEF IInv, Flushers, FlAts
  <2> QED
    BY <2>1 DEF IInv, CtlInv, Prepared, Flushing, Flushers, ForceFlushing
<1> QED
  BY <1>1, <1>2, <1>3 DEF IInv

LEMMA ForceWaitStep == ASSUME IInv, ForceWait PROVE IInv'
<1> USE DEF ForceWait
<1>1. /\ fl' \in [Flushers -> FlRec]
      /\ TokensKept' /\ WriteInv' /\ LogInv' /\ SnapInv' /\ Durable' /\ Readable' /\ CoverInv'
  BY FlWaits DEF Flushers
<1>2. TypeOK'
  BY <1>1 DEF IInv, TypeOK, FlRec, FlAts, Lists, tblVars, walVars
<1>3. CtlInv'
  <2>1. fl'["force"].at = "ready" /\ fl'["tick"] = fl["tick"]
    BY FlAt DEF IInv, Flushers, FlAts
  <2> QED
    BY <2>1 DEF IInv, CtlInv, Prepared, Flushing, Flushers
<1> QED
  BY <1>1, <1>2, <1>3 DEF IInv

LEMMA ForceFlushStep == ASSUME IInv, ForceFlush PROVE IInv'
<1> USE DEF ForceFlush, ForceFlushing
<1>1. /\ fl' \in [Flushers -> FlRec]
      /\ TokensKept' /\ WriteInv' /\ LogInv' /\ SnapInv' /\ Durable' /\ Readable'
      /\ replay' = replay => CoverInv'
  BY FlWaits DEF Flushers
<1>2. fl'["force"].at = "wait" /\ fl'["tick"] = fl["tick"] /\ fl'["force"].wal = fl["force"].wal
  BY FlAt DEF IInv, Flushers, FlAts
<1>3. \/ replay' = replay /\ replay.at # "flush"
      \/ /\ replay.at = "flush" /\ replay'.at = "flushing"
         /\ replay'.todo = replay.todo /\ replay'.turn = replay.turn
         /\ replay'.errs = replay.errs /\ replay'.rm = replay.rm
  BY DEF IInv, TypeOK
<1>4. TypeOK'
  <2>1. replay' \in [at : {"idle", "read", "flush", "flushing", "remove"},
                 todo : [Parts -> Seq(Seq(Writes) \ {<<>>})], turn : Parts, errs : BOOLEAN,
                 rm : [order : Orders, names : [Parts -> Seq(Nat)]]]
    BY DEF IInv, TypeOK
  <2> QED
    BY <1>1, <2>1 DEF IInv, TypeOK, FlRec, FlAts, Lists, tblVars, walVars
<1>5. CtlInv'
  BY <1>2, <1>3 DEF IInv, CtlInv, Prepared, Flushing, Flushers
<1>6. CoverInv'
  <2>1. CASE replay' = replay
    BY <1>1, <2>1
  <2>2. CASE replay.at = "flush" /\ replay'.at = "flushing"
    BY <1>2, <2>2 DEF IInv, CoverInv, tblVars, walVars, Covered, Flushed, Seen, Todo, Flushers
  <2> QED
    BY <1>3, <2>1, <2>2
<1> QED
  BY <1>1, <1>4, <1>5, <1>6 DEF IInv

LEMMA SwitchNothingStep == ASSUME IInv, NEW f \in Flushers, SwitchNothing(f) PROVE IInv'
<1> USE DEF SwitchNothing
<1>1. fl' \in [Flushers -> FlRec] /\ fl'[f] = NoFlush /\ \A g \in Flushers : g # f => fl'[g] = fl[g]
  BY FlUpdate, NoFlushType DEF IInv
<1>2. replay' = replay /\ replay.at = "idle"
  BY DEF IInv, CtlInv, ActiveNil, AfterFlush
<1>3. NoneLeft(fl[f].wal) /\ ~Flushing(f)
  BY DEF IInv, LogInv, Flushing
<1>4. \A g \in Flushers : \A p \in Parts : fl'[g].wal.names[p] = fl[g].wal.names[p]
  BY <1>1, <1>3, NoFlushType, NoListType DEF NoneLeft
<1>5. \A g \in Flushers : /\ Flushing(g)' <=> Flushing(g)
                          /\ fl'[g].at = "commit" <=> fl[g].at = "commit"
                          /\ fl'[g].at = "remove" <=> fl[g].at = "remove"
                          /\ Held(g)' = Held(g)
  BY <1>1, NoFlushType DEF Flushing, Held
<1>6. TypeOK'
  BY <1>1, <1>2 DEF IInv, TypeOK, FlRec, FlAts, Lists, tblVars, walVars
<1>7. TokensKept'
  <2>1. Held("tick")' = Held("tick") /\ Held("force")' = Held("force")
    BY <1>5 DEF Flushers
  <2> QED
    BY <2>1, Zenon DEF IInv, TokensKept, Held, tblVars
<1>8. CtlInv'
  <2>1. fl'[f].at = "idle"
    BY <1>1, NoFlushType
  <2> QED
    BY <1>1, <1>2, <2>1 DEF IInv, CtlInv, Prepared, Flushing, Flushers
<1>9. WriteInv'
  BY DEF IInv, WriteInv, tblVars
<1>10. LogInv'
  BY <1>4, <1>5 DEF IInv, LogInv, walVars, NoneLeft
<1>11. SnapInv'
  BY <1>5 DEF IInv, SnapInv, tblVars
<1>12. CoverInv'
  BY <1>2, <1>4, <1>5 DEF IInv, CoverInv, tblVars, walVars, Covered, Flushed
<1>13. Durable' /\ Readable'
  BY DurableSame, ReadableSame DEF IInv, tblVars, walVars
<1> QED
  BY <1>6, <1>7, <1>8, <1>9, <1>10, <1>11, <1>12, <1>13 DEF IInv

LEMMA SwitchTablesStep == ASSUME IInv, NEW f \in Flushers, SwitchTables(f) PROVE IInv'
<1>1. PICK order \in Orders :
        fl' = [fl EXCEPT ![f] = [at |-> "commit", wal |-> Listing(order, names), size |-> active.size]]
  BY DEF SwitchTables
<1>2. /\ fl[f].at = "ready"
      /\ \A w \in Writes : pc[w] # "wal"
      /\ phase \notin {"dropped", "closed"}
      /\ names' = [p \in Parts |-> <<>>]
      /\ snap' = [used |-> TRUE, rows |-> active.rows]
      /\ active' = [rows |-> <<>>, size |-> 0]
      /\ UNCHANGED <<pc, prec, part, stale, phase, ticker, files, disk, fileSeq, writeReq, free, rnames, replay>>
  BY DEF SwitchTables, ActiveNil, Snapshotted, EmptyTbl
<1> DEFINE r == [at |-> "commit", wal |-> Listing(order, names), size |-> active.size]
<1>3. r \in FlRec /\ r.at = "commit" /\ r.wal.names = names /\ r.size = active.size
  <2>1. active.size \in 0..MemLimit
    BY Budget DEF IInv, Flushers
  <2>2. names \in [Parts -> Seq(Nat)]
    BY DEF IInv, TypeOK
  <2> QED
    BY <2>1, <2>2 DEF FlRec, FlAts, Lists, Listing
<1>4. fl' \in [Flushers -> FlRec] /\ fl'[f] = r /\ \A g \in Flushers : g # f => fl'[g] = fl[g]
  <2> HIDE DEF r
  <2> QED
    BY <1>1, <1>3, FlUpdate DEF IInv, r
<1> HIDE DEF r
<1>5. \A g \in Flushers : ~Flushing(g)
  BY <1>2 DEF IInv, CtlInv, Prepared, Flushing, Flushers
<1>6. snap.rows = <<>> /\ Range(snap.rows) = {}
  BY <1>5, RangeEmpty DEF IInv, SnapInv
<1>7. \A g \in Flushers : g # f => NoneLeft(fl'[g].wal) /\ ~Flushing(g)'
  BY <1>4, <1>5 DEF IInv, LogInv, Flushing
<1>8. snap'.rows = active.rows /\ Range(active'.rows) = {} /\ active'.size = 0
  BY <1>2, RangeEmpty
<1>9. Seen' = Seen /\ Flushed' = Flushed /\ \A p \in Parts : Todo(p)' = Todo(p)
  BY <1>2, <1>6, <1>8 DEF Seen, Flushed, Todo
<1>10. TypeOK'
  <2>1. snap' \in [used : BOOLEAN, rows : Seq(Writes)] /\ active' \in [rows : Seq(Writes), size : Nat]
    BY <1>2 DEF IInv, TypeOK
  <2>2. names' \in [Parts -> Seq(Nat)]
    BY <1>2
  <2> QED
    BY <1>2, <1>4, <2>1, <2>2 DEF IInv, TypeOK, FlRec, FlAts, Lists
<1>11. TokensKept'
  <2>1. Held(f)' = active.size /\ Held(f) = 0 /\ \A g \in Flushers : g # f => Held(g)' = Held(g)
    BY <1>2, <1>3, <1>4 DEF Held
  <2>2. Holders' = Holders /\ free' = free
    BY <1>2 DEF Holders
  <2>3. Held("tick")' + Held("force")' = Held("tick") + Held("force") + active.size
    BY <2>1, Budget DEF IInv, Flushers
  <2>4. \A g \in Flushers : Held(g)' \in Nat
    BY <2>1, Budget DEF IInv
  <2>5. free' + active'.size + Held("tick")' + Held("force")' + Cardinality(Holders') = MemLimit
    BY <1>8, <2>2, <2>3, <2>4, Budget DEF IInv, Flushers
  <2> QED
    BY <2>5 DEF TokensKept, Held, Holders
<1>12. CtlInv'
  BY <1>2, <1>3, <1>4 DEF IInv, CtlInv, Prepared, Flushing, Flushers
<1>13. WriteInv'
  BY <1>2 DEF IInv, WriteInv
<1>14. LogInv'
  <2>1. \A p \in Parts : names'[p] = <<>> /\ Range(names'[p]) = {}
    BY <1>2, RangeEmpty
  <2>2. \A g \in Flushers : NoneLeft(fl'[g].wal) \/ (Flushing(g)' /\ phase' \in OpenPhases)
    <3>1. Flushing(f)'
      BY <1>3, <1>4 DEF Flushing
    <3>2. phase \in OpenPhases \/ NoneLeft(fl'[f].wal)
      BY <1>3, <1>4 DEF IInv, LogInv, OpenPhases, NoneLeft
    <3> QED
      BY <1>2, <1>7, <3>1, <3>2
  <2>3. \A g \in Flushers : \A p \in Parts : \A n \in Range(fl'[g].wal.names[p]) : n <= fileSeq'[p]
    <3>1. \A g \in Flushers : \A p \in Parts : g # f => Range(fl'[g].wal.names[p]) = {}
      BY <1>7, RangeEmpty DEF NoneLeft
    <3>2. \A p \in Parts : \A n \in Range(fl'[f].wal.names[p]) : n <= fileSeq'[p]
      BY <1>2, <1>3, <1>4 DEF IInv, LogInv
    <3> QED
      BY <3>1, <3>2
  <2>4. phase' # "down" => \A p \in Parts : \A n \in DOMAIN disk'[p] : n <= fileSeq'[p]
    BY <1>2 DEF IInv, LogInv
  <2> QED
    BY <2>1, <2>2, <2>3, <2>4 DEF LogInv, NoneLeft
<1>15. SnapInv'
  <2>1. Flushing(f)' /\ \A g \in Flushers : fl'[g].at # "remove"
    BY <1>3, <1>4, <1>7 DEF Flushing
  <2> QED
    BY <2>1 DEF SnapInv
<1>16. CoverInv'
  <2>1. \A p \in Parts : Range(names'[p]) = {}
    BY <1>2, RangeEmpty
  <2>2. ASSUME NEW g \in Flushers, NEW p \in Parts, NEW n \in Range(fl'[g].wal.names[p])
        PROVE  /\ fl'[g].at = "commit" => Covered(p, n, Range(snap.rows))'
               /\ fl'[g].at = "remove" => Covered(p, n, Flushed)'
    <3>1. g = f /\ n \in Range(names[p]) /\ fl'[g].at = "commit"
      BY <1>3, <1>4, <1>7, <2>2, RangeEmpty DEF NoneLeft
    <3>2. Covered(p, n, Range(active.rows))
      BY <3>1 DEF IInv, CoverInv
    <3> QED
      BY <1>2, <1>8, <3>1, <3>2 DEF Covered
  <2>3. replay'.at = "read" /\ ~replay'.errs =>
          \A p \in Parts : \A n \in DOMAIN disk'[p] : Covered(p, n, Seen \cup Todo(p))'
    BY <1>2, <1>9 DEF IInv, CoverInv, Covered
  <2>4. ASSUME NEW p \in Parts, NEW n \in DOMAIN disk'[p]
        PROVE /\ replay'.at \in {"flush", "flushing"} => Covered(p, n, Seen)'
              /\ replay'.at = "flushing" /\ fl'["force"].at = "commit" =>
                   Covered(p, n, Flushed \cup Range(snap.rows))'
              /\ replay'.at = "flushing" /\ fl'["force"].at = "remove" => Covered(p, n, Flushed)'
              /\ replay'.at = "remove" => Covered(p, n, Flushed)'
    <3>1. replay'.at \in {"flush", "flushing"} => Covered(p, n, Seen)'
      BY <1>2, <1>9 DEF IInv, CoverInv, Covered
    <3>2. Seen' = Flushed' \cup Range(snap'.rows)
      BY <1>8 DEF Seen, Flushed
    <3>3. fl'["force"].at # "remove"
      BY <1>3, <1>4, <1>7 DEF Flushing, Flushers
    <3>4. replay'.at = "remove" => Covered(p, n, Flushed)'
      BY <1>2, <1>9 DEF IInv, CoverInv, Covered
    <3> QED
      BY <3>1, <3>2, <3>3, <3>4 DEF Covered
  <2> QED
    BY <2>1, <2>2, <2>3, <2>4 DEF CoverInv
<1>17. Durable'
  BY <1>2, DurableSame DEF IInv
<1>18. Readable'
  <2>1. Acked' = Acked
    BY <1>2 DEF Acked
  <2> QED
    BY <1>2, <1>9, <2>1 DEF IInv, Readable, Seen
<1> QED
  BY <1>10, <1>11, <1>12, <1>13, <1>14, <1>15, <1>16, <1>17, <1>18 DEF IInv

LEMMA CommitSnapshotStep == ASSUME IInv, NEW f \in Flushers, CommitSnapshot(f) PROVE IInv'
<1>1. /\ fl[f].at = "commit"
      /\ files' \in LastCopies(files \o snap.rows)
      /\ free' = free + fl[f].size
      /\ fl' = [fl EXCEPT ![f].at = "remove"]
      /\ UNCHANGED <<pc, prec, part, stale, phase, ticker, active, snap, disk, fileSeq, names, writeReq, rnames, replay>>
  BY DEF CommitSnapshot, walVars
<1>2. files' \in Seq(Writes) /\ Range(files') = Range(files) \cup Range(snap.rows)
  <2>1. files \in Seq(Writes) /\ snap.rows \in Seq(Writes)
    BY DEF IInv, TypeOK
  <2>2. files \o snap.rows \in Seq(Writes) /\ Range(files \o snap.rows) = Range(files) \cup Range(snap.rows)
    BY <2>1, RangeConcat
  <2> DEFINE s == files \o snap.rows
  <2> HIDE DEF s
  <2>3. s \in Seq(Writes) /\ Range(s) \subseteq Writes
    BY <2>2, RangeType DEF s
  <2>4. IsFiniteSet(Range(s))
    BY <2>3, WalAssumption, FS_Subset
  <2>5. files' \in InOrder(Range(s), [w \in Range(s) |-> LastPos(s, w)])
    BY <1>1 DEF LastCopies, s
  <2>6. files' \in Seq(Range(s)) /\ Range(files') = Range(s)
    BY <2>4, <2>5, InOrderType
  <2>7. files' \in Seq(Writes)
    BY <2>3, <2>6, SeqMonotonic
  <2> QED
    BY <2>2, <2>6, <2>7 DEF s
<1>3. /\ fl' \in [Flushers -> FlRec]
      /\ fl'[f].at = "remove" /\ fl'[f].wal = fl[f].wal /\ fl'[f].size = fl[f].size
      /\ \A g \in Flushers : g # f => fl'[g] = fl[g]
  BY <1>1, FlAt DEF IInv, FlAts
<1>4. \A g \in Flushers : g # f => ~Flushing(g) /\ ~Flushing(g)'
  BY <1>1, <1>3 DEF IInv, CtlInv, Prepared, Flushing, Flushers
<1>5. Seen' = Seen /\ Flushed' = Flushed \cup Range(snap.rows) /\ \A p \in Parts : Todo(p)' = Todo(p)
  BY <1>1, <1>2 DEF Seen, Flushed, Todo
<1>6. fl[f].size = Held(f) /\ Held(f)' = 0 /\ \A g \in Flushers : g # f => Held(g)' = Held(g)
  BY <1>1, <1>3 DEF Held
<1>7. TypeOK'
  <2>1. free' \in 0..MemLimit
    BY <1>1, <1>6, Budget DEF IInv, Flushers
  <2> QED
    BY <1>1, <1>2, <1>3, <2>1 DEF IInv, TypeOK, FlRec, FlAts, Lists
<1>8. TokensKept'
  <2>1. free' = free + Held(f) /\ Holders' = Holders /\ active' = active
    BY <1>1, <1>6 DEF Holders
  <2>2. free' + active'.size + Held("tick")' + Held("force")' + Cardinality(Holders') = MemLimit
    BY <1>6, <2>1, Budget DEF IInv, Flushers
  <2> QED
    BY <2>2 DEF TokensKept, Held, Holders
<1>9. CtlInv'
  BY <1>1, <1>3, <1>4 DEF IInv, CtlInv, Prepared, Flushing, Flushers
<1>10. WriteInv'
  BY <1>1 DEF IInv, WriteInv
<1>11. LogInv'
  <2>1. \A g \in Flushers : fl'[g].wal = fl[g].wal /\ (Flushing(g)' <=> Flushing(g))
    BY <1>1, <1>3, <1>4 DEF Flushing
  <2> QED
    BY <1>1, <2>1 DEF IInv, LogInv, NoneLeft
<1>12. SnapInv'
  BY <1>1, <1>2, <1>3, <1>4 DEF SnapInv, Flushing
<1>13. CoverInv'
  <2>1. \A p, n, A, B : A \subseteq B /\ Covered(p, n, A) => Covered(p, n, B)'
    BY <1>1 DEF Covered
  <2>2. \A p \in Parts : \A n \in Range(names'[p]) : Covered(p, n, Range(active.rows))'
    BY <1>1, <2>1 DEF IInv, CoverInv
  <2>3. \A g \in Flushers : \A p \in Parts : \A n \in Range(fl'[g].wal.names[p]) :
         /\ fl'[g].at = "commit" => Covered(p, n, Range(snap.rows))'
         /\ fl'[g].at = "remove" => Covered(p, n, Flushed)'
    <3>1. \A p \in Parts : \A n \in Range(fl[f].wal.names[p]) : Covered(p, n, Range(snap.rows))
      BY <1>1 DEF IInv, CoverInv
    <3> QED
      BY <1>3, <1>4, <1>5, <2>1, <3>1 DEF Flushing
  <2>4. replay'.at = "read" /\ ~replay'.errs =>
          \A p \in Parts : \A n \in DOMAIN disk'[p] : Covered(p, n, Seen \cup Todo(p))'
    BY <1>1, <1>5, <2>1 DEF IInv, CoverInv
  <2>5. ASSUME NEW p \in Parts, NEW n \in DOMAIN disk'[p]
        PROVE /\ replay'.at \in {"flush", "flushing"} => Covered(p, n, Seen)'
              /\ replay'.at = "flushing" /\ fl'["force"].at = "commit" =>
                   Covered(p, n, Flushed \cup Range(snap.rows))'
              /\ replay'.at = "flushing" /\ fl'["force"].at = "remove" => Covered(p, n, Flushed)'
              /\ replay'.at = "remove" => Covered(p, n, Flushed)'
    <3>1. replay'.at \in {"flush", "flushing"} => Covered(p, n, Seen)'
      BY <1>1, <1>5, <2>1 DEF IInv, CoverInv
    <3>2. fl'["force"].at # "commit"
      BY <1>3, <1>4 DEF Flushers, Flushing
    <3>3. replay'.at = "flushing" /\ fl'["force"].at = "remove" => Covered(p, n, Flushed)'
      <4>1. fl'["force"].at = "remove" => fl["force"].at = "commit"
        BY <1>1, <1>3, <1>4 DEF Flushers, Flushing
      <4> QED
        BY <1>1, <1>5, <2>1, <4>1 DEF IInv, CoverInv
    <3>4. replay'.at = "remove" => Covered(p, n, Flushed)'
      BY <1>1, <1>5, <2>1 DEF IInv, CoverInv
    <3> QED
      BY <3>1, <3>2, <3>3, <3>4
  <2> QED
    BY <2>2, <2>3, <2>4, <2>5 DEF CoverInv
<1>14. Durable' /\ Readable'
  <2>1. Acked' = Acked
    BY <1>1 DEF Acked
  <2> QED
    BY <1>1, <1>2, <2>1 DEF IInv, Durable, Readable, InWal
<1> QED
  BY <1>7, <1>8, <1>9, <1>10, <1>11, <1>12, <1>13, <1>14 DEF IInv

\* What is left on disk when a file is removed.
LEMMA WithoutRest ==
  ASSUME TypeOK, NEW p \in Parts, NEW n, disk' = [disk EXCEPT ![p] = Without(@, n)]
  PROVE  \A q \in Parts : /\ \A m \in DOMAIN disk[q] : ~(q = p /\ m = n) => m \in DOMAIN disk'[q]
                          /\ \A m \in DOMAIN disk'[q] : m \in DOMAIN disk[q] /\ disk'[q][m] = disk[q][m]
<1>1. DOMAIN disk = Parts
  BY DEF TypeOK
<1>2. disk'[p] = Without(disk[p], n) /\ \A q \in Parts : q # p => disk'[q] = disk[q]
  BY <1>1
<1>3. DOMAIN disk'[p] = DOMAIN disk[p] \ {n} /\ \A m \in DOMAIN disk'[p] : disk'[p][m] = disk[p][m]
  BY <1>2 DEF Without
<1> QED
  BY <1>2, <1>3

LEMMA WithoutType ==
  ASSUME TypeOK, NEW p \in Parts, NEW n, disk' = [disk EXCEPT ![p] = Without(@, n)]
  PROVE  /\ DOMAIN disk' = Parts
         /\ \A q \in Parts : /\ DOMAIN disk'[q] \subseteq Nat /\ IsFiniteSet(DOMAIN disk'[q])
                             /\ disk'[q] \in [DOMAIN disk'[q] -> Seq(Writes) \ {<<>>}]
<1>1. DOMAIN disk = Parts /\ DOMAIN disk' = Parts
  BY DEF TypeOK
<1>2. disk'[p] = Without(disk[p], n) /\ \A q \in Parts : q # p => disk'[q] = disk[q]
  BY <1>1
<1>3. /\ DOMAIN disk[p] \subseteq Nat /\ IsFiniteSet(DOMAIN disk[p])
      /\ \A m \in DOMAIN disk[p] : disk[p][m] \in Seq(Writes) \ {<<>>}
  BY DEF TypeOK
<1>4. DOMAIN disk'[p] = DOMAIN disk[p] \ {n}
  BY <1>2 DEF Without
<1>5. IsFiniteSet(DOMAIN disk'[p])
  BY <1>3, <1>4, FS_Subset
<1>6. disk'[p] \in [DOMAIN disk'[p] -> Seq(Writes) \ {<<>>}]
  BY <1>2, <1>3 DEF Without
<1> QED
  BY <1>1, <1>2, <1>3, <1>4, <1>5, <1>6 DEF TypeOK

\* A file whose records have all been flushed may go.
LEMMA RemoveFlushed ==
  ASSUME IInv, NEW p \in Parts, NEW n, disk' = [disk EXCEPT ![p] = Without(@, n)],
         Covered(p, n, Flushed), UNCHANGED <<pc, files>>
  PROVE  Durable'
<1>1. Acked' = Acked
  BY DEF Acked
<1>2. \A q \in Parts : /\ \A m \in DOMAIN disk[q] : ~(q = p /\ m = n) => m \in DOMAIN disk'[q]
                       /\ \A m \in DOMAIN disk'[q] : m \in DOMAIN disk[q] /\ disk'[q][m] = disk[q][m]
  BY WithoutRest, Zenon DEF IInv
<1>3. ASSUME NEW w \in Acked, InWal(w), w \notin Range(files) PROVE InWal(w)'
  <2>1. PICK q \in Parts : \E m \in DOMAIN disk[q] : w \in Range(disk[q][m])
    BY <1>3 DEF InWal
  <2>2. PICK m \in DOMAIN disk[q] : w \in Range(disk[q][m])
    BY <2>1
  <2>3. ~(q = p /\ m = n)
    BY <1>3, <2>2 DEF Covered, Flushed
  <2>4. m \in DOMAIN disk'[q] /\ disk'[q][m] = disk[q][m]
    BY <1>2, <2>2, <2>3
  <2> QED
    BY <2>2, <2>4 DEF InWal
<1> QED
  BY <1>1, <1>3 DEF IInv, Durable

LEMMA RemoveWalFileStep == ASSUME IInv, NEW f \in Flushers, NEW p \in Parts, RemoveWalFile(f, p) PROVE IInv'
<1> DEFINE n == Head(fl[f].wal.names[p])
<1>1. /\ fl[f].at = "remove"
      /\ fl[f].wal.names[p] # <<>>
      /\ disk' = [disk EXCEPT ![p] = Without(@, n)]
      /\ fl' = [fl EXCEPT ![f].wal.names[p] = Tail(@)]
      /\ UNCHANGED <<pc, prec, part, stale, phase, ticker, active, snap, files, fileSeq, names, writeReq, free, rnames, replay>>
  BY DEF RemoveWalFile, IsFirst, tblVars
<1>2. fl[f].wal.names[p] \in Seq(Nat) /\ fl \in [Flushers -> FlRec]
  BY FlNames DEF IInv, TypeOK, FlRec, FlAts, Lists
<1>3. Range(fl[f].wal.names[p]) = {n} \cup Range(Tail(fl[f].wal.names[p])) /\ Tail(fl[f].wal.names[p]) \in Seq(Nat)
  BY <1>1, <1>2, RangeTail
<1> HIDE DEF n
<1>4. /\ fl' \in [Flushers -> FlRec]
      /\ \A g \in Flushers : fl'[g].at = fl[g].at /\ fl'[g].size = fl[g].size
      /\ fl'[f].wal.names[p] = Tail(fl[f].wal.names[p])
      /\ \A g \in Flushers : \A q \in Parts : ~(g = f /\ q = p) => fl'[g].wal.names[q] = fl[g].wal.names[q]
  <2>1. fl[f] \in FlRec /\ fl[f].wal \in Lists /\ fl[f].wal.names \in [Parts -> Seq(Nat)]
    BY <1>2 DEF FlRec, Lists
  <2> DEFINE ns == [fl[f].wal.names EXCEPT ![p] = Tail(@)]
             r == [fl[f] EXCEPT !.wal = [fl[f].wal EXCEPT !.names = ns]]
  <2>2. fl' = [fl EXCEPT ![f] = r]
    BY <1>1
  <2>3. /\ ns \in [Parts -> Seq(Nat)] /\ ns[p] = Tail(fl[f].wal.names[p])
        /\ \A q \in Parts : q # p => ns[q] = fl[f].wal.names[q]
    BY <1>3, <2>1
  <2> HIDE DEF ns
  <2>4. r \in FlRec /\ r.at = fl[f].at /\ r.size = fl[f].size /\ r.wal.names = ns
    BY <2>1, <2>3 DEF FlRec, Lists
  <2> HIDE DEF r
  <2>5. fl' \in [Flushers -> FlRec] /\ fl'[f] = r /\ \A g \in Flushers : g # f => fl'[g] = fl[g]
    BY <2>2, <2>4, FlUpdate DEF IInv
  <2> QED
    BY <2>3, <2>4, <2>5
<1>5. \A g \in Flushers : \A q \in Parts : \A m \in Range(fl'[g].wal.names[q]) : m \in Range(fl[g].wal.names[q])
  BY <1>3, <1>4
<1>6. n \in Range(fl[f].wal.names[p])
  BY <1>3
<1>7. Covered(p, n, Flushed) /\ n \notin Range(names[p])
  BY <1>1, <1>6 DEF IInv, CoverInv, LogInv
<1>8. \A q \in Parts : /\ \A m \in DOMAIN disk[q] : ~(q = p /\ m = n) => m \in DOMAIN disk'[q]
                       /\ \A m \in DOMAIN disk'[q] : m \in DOMAIN disk[q] /\ disk'[q][m] = disk[q][m]
  BY <1>1, WithoutRest, Zenon DEF IInv
<1>9. TypeOK'
  <2>1. /\ DOMAIN disk' = Parts
        /\ \A q \in Parts : /\ DOMAIN disk'[q] \subseteq Nat /\ IsFiniteSet(DOMAIN disk'[q])
                            /\ disk'[q] \in [DOMAIN disk'[q] -> Seq(Writes) \ {<<>>}]
    BY <1>1, WithoutType, Zenon DEF IInv
  <2> QED
    BY <1>1, <1>4, <2>1 DEF IInv, TypeOK, FlRec, FlAts, Lists
<1>10. TokensKept'
  <2>1. \A g \in Flushers : Held(g)' = Held(g)
    BY <1>4 DEF Held
  <2>2. Held("tick")' = Held("tick") /\ Held("force")' = Held("force")
    BY <2>1 DEF Flushers
  <2> QED
    BY <1>1, <2>2, Zenon DEF IInv, TokensKept, Held
<1>11. CtlInv'
  <2>1. fl'["tick"].at = fl["tick"].at /\ fl'["force"].at = fl["force"].at
    BY <1>4 DEF Flushers
  <2> QED
    BY <1>1, <2>1 DEF IInv, CtlInv, Prepared, Flushing, Flushers
<1>12. WriteInv'
  BY <1>1 DEF IInv, WriteInv
<1>13. LogInv'
  <2>1. \A q \in Parts : \A m \in Range(names'[q]) : m \in DOMAIN disk'[q] /\ m <= fileSeq'[q]
    BY <1>1, <1>7, <1>8 DEF IInv, LogInv
  <2>2. \A g \in Flushers : NoneLeft(fl'[g].wal) \/ (Flushing(g)' /\ phase' \in OpenPhases)
    <3>1. Flushing(f)' /\ phase' \in OpenPhases
      BY <1>1, <1>4 DEF IInv, LogInv, Flushing, NoneLeft
    <3>2. \A g \in Flushers : g # f => (NoneLeft(fl'[g].wal) <=> NoneLeft(fl[g].wal)) /\ (Flushing(g)' <=> Flushing(g))
      BY <1>4 DEF NoneLeft, Flushing
    <3> QED
      BY <1>1, <3>1, <3>2 DEF IInv, LogInv
  <2>3. \A g \in Flushers : \A q \in Parts : \A m \in Range(fl'[g].wal.names[q]) :
          m <= fileSeq'[q] /\ m \notin Range(names'[q])
    BY <1>1, <1>5 DEF IInv, LogInv
  <2>4. phase' # "down" => \A q \in Parts : \A m \in DOMAIN disk'[q] : m <= fileSeq'[q]
    BY <1>1, <1>8 DEF IInv, LogInv
  <2>5. phase' \notin LogPhases => \A q \in Parts : names'[q] = <<>>
    BY <1>1 DEF IInv, LogInv
  <2> QED
    BY <2>1, <2>2, <2>3, <2>4, <2>5 DEF LogInv, NoneLeft
<1>14. SnapInv'
  BY <1>1, <1>4 DEF IInv, SnapInv, Flushing
<1>15. CoverInv'
  <2>1. \A q \in Parts : \A m, A : Covered(q, m, A) => Covered(q, m, A)'
    BY <1>8 DEF Covered
  <2>2. Seen' = Seen /\ Flushed' = Flushed /\ \A q \in Parts : Todo(q)' = Todo(q)
    BY <1>1 DEF Seen, Flushed, Todo
  <2>3. \A q \in Parts : \A m \in Range(names'[q]) : Covered(q, m, Range(active.rows))'
    BY <1>1, <2>1 DEF IInv, CoverInv
  <2>4. \A g \in Flushers : \A q \in Parts : \A m \in Range(fl'[g].wal.names[q]) :
         /\ fl'[g].at = "commit" => Covered(q, m, Range(snap.rows))'
         /\ fl'[g].at = "remove" => Covered(q, m, Flushed)'
    BY <1>1, <1>4, <1>5, <2>1, <2>2 DEF IInv, CoverInv
  <2>5. replay'.at = "read" /\ ~replay'.errs =>
          \A q \in Parts : \A m \in DOMAIN disk'[q] : Covered(q, m, Seen \cup Todo(q))'
    BY <1>1, <1>8, <2>1, <2>2 DEF IInv, CoverInv
  <2>6. ASSUME NEW q \in Parts, NEW m \in DOMAIN disk'[q]
        PROVE /\ replay'.at \in {"flush", "flushing"} => Covered(q, m, Seen)'
              /\ replay'.at = "flushing" /\ fl'["force"].at = "commit" =>
                   Covered(q, m, Flushed \cup Range(snap.rows))'
              /\ replay'.at = "flushing" /\ fl'["force"].at = "remove" => Covered(q, m, Flushed)'
              /\ replay'.at = "remove" => Covered(q, m, Flushed)'
    <3>1. fl'["force"].at = fl["force"].at /\ m \in DOMAIN disk[q]
      BY <1>4, <1>8 DEF Flushers
    <3> QED
      BY <1>1, <2>1, <2>2, <3>1 DEF IInv, CoverInv
  <2> QED
    BY <2>3, <2>4, <2>5, <2>6 DEF CoverInv
<1>16. Durable'
  BY <1>1, <1>7, RemoveFlushed, Zenon
<1>17. Readable'
  BY <1>1, ReadableSame DEF IInv
<1> QED
  BY <1>9, <1>10, <1>11, <1>12, <1>13, <1>14, <1>15, <1>16, <1>17 DEF IInv

LEMMA EndSnapshotStep == ASSUME IInv, NEW f \in Flushers, EndSnapshot(f) PROVE IInv'
<1>1. /\ fl[f].at = "remove"
      /\ NoneLeft(fl[f].wal)
      /\ snap' = [used |-> FALSE, rows |-> <<>>]
      /\ fl' = [fl EXCEPT ![f] = NoFlush]
      /\ replay' = AfterFlush(f)
      /\ UNCHANGED <<pc, prec, part, stale, phase, ticker, active, files, disk, fileSeq, names, writeReq, free, rnames>>
  BY DEF EndSnapshot, NoSnap, walVars
<1>2. fl' \in [Flushers -> FlRec] /\ fl'[f] = NoFlush /\ \A g \in Flushers : g # f => fl'[g] = fl[g]
  BY <1>1, FlUpdate, NoFlushType DEF IInv
<1>3. \A g \in Flushers : g # f => ~Flushing(g) /\ ~Flushing(g)'
  BY <1>1, <1>2 DEF IInv, CtlInv, Prepared, Flushing, Flushers
<1>4. fl'[f].at = "idle" /\ NoneLeft(fl'[f].wal) /\ ~Flushing(f)'
  BY <1>2, NoFlushType, NoListType DEF Flushing
<1>5. \A g \in Flushers : NoneLeft(fl'[g].wal) /\ \A p \in Parts : Range(fl'[g].wal.names[p]) = {}
  <2>1. \A g \in Flushers : NoneLeft(fl'[g].wal)
    BY <1>2, <1>3, <1>4 DEF IInv, LogInv
  <2> QED
    BY <2>1, RangeEmpty DEF NoneLeft
<1>6. /\ replay'.todo = replay.todo /\ replay'.turn = replay.turn /\ replay'.errs = replay.errs /\ replay'.rm = replay.rm
      /\ replay' \in [at : {"idle", "read", "flush", "flushing", "remove"},
                      todo : [Parts -> Seq(Seq(Writes) \ {<<>>})], turn : Parts, errs : BOOLEAN,
                      rm : [order : Orders, names : [Parts -> Seq(Nat)]]]
      /\ IF f = "force" /\ replay.at = "flushing" THEN replay'.at = "remove" ELSE replay'.at = replay.at
  <2>1. replay \in [at : {"idle", "read", "flush", "flushing", "remove"},
                      todo : [Parts -> Seq(Seq(Writes) \ {<<>>})], turn : Parts, errs : BOOLEAN,
                      rm : [order : Orders, names : [Parts -> Seq(Nat)]]]
    BY DEF IInv, TypeOK
  <2> QED
    BY <1>1, <2>1 DEF AfterFlush
<1>7. Range(snap.rows) \subseteq Range(files) /\ Range(snap'.rows) = {}
  BY <1>1, RangeEmpty DEF IInv, SnapInv
<1>8. Seen' = Seen /\ Flushed' = Flushed /\ \A p \in Parts : Todo(p)' = Todo(p)
  BY <1>1, <1>6, <1>7 DEF Seen, Flushed, Todo
<1>9. TypeOK'
  <2>1. snap' \in [used : BOOLEAN, rows : Seq(Writes)]
    BY <1>1
  <2> QED
    BY <1>1, <1>2, <1>6, <2>1 DEF IInv, TypeOK, FlRec, FlAts, Lists
<1>10. TokensKept'
  <2>1. \A g \in Flushers : Held(g)' = Held(g)
    BY <1>1, <1>2, <1>4 DEF Held
  <2>2. Held("tick")' = Held("tick") /\ Held("force")' = Held("force")
    BY <2>1 DEF Flushers
  <2> QED
    BY <1>1, <2>2, Zenon DEF IInv, TokensKept, Held
<1>11. CtlInv'
  BY <1>1, <1>2, <1>3, <1>4, <1>6 DEF IInv, CtlInv, Prepared, Flushing, Flushers
<1>12. WriteInv'
  BY <1>1 DEF IInv, WriteInv
<1>13. LogInv'
  BY <1>1, <1>5 DEF IInv, LogInv
<1>14. SnapInv'
  BY <1>1, <1>3, <1>4 DEF SnapInv, Flushing
<1>15. CoverInv'
  <2>1. \A p, n, A : Covered(p, n, A) => Covered(p, n, A)'
    BY <1>1 DEF Covered
  <2>2. \A p \in Parts : \A n \in Range(names'[p]) : Covered(p, n, Range(active.rows))'
    BY <1>1, <2>1 DEF IInv, CoverInv
  <2>3. replay'.at = "read" /\ ~replay'.errs =>
          \A p \in Parts : \A n \in DOMAIN disk'[p] : Covered(p, n, Seen \cup Todo(p))'
    <3>1. replay'.at = "read" => replay.at = "read" /\ replay'.errs = replay.errs
      BY <1>6
    <3> QED
      BY <1>1, <1>8, <2>1, <3>1 DEF IInv, CoverInv
  <2>4. ASSUME NEW p \in Parts, NEW n \in DOMAIN disk'[p]
        PROVE /\ replay'.at \in {"flush", "flushing"} => Covered(p, n, Seen)'
              /\ replay'.at = "flushing" /\ fl'["force"].at = "commit" =>
                   Covered(p, n, Flushed \cup Range(snap.rows))'
              /\ replay'.at = "flushing" /\ fl'["force"].at = "remove" => Covered(p, n, Flushed)'
              /\ replay'.at = "remove" => Covered(p, n, Flushed)'
    <3>1. replay'.at \in {"flush", "flushing"} => Covered(p, n, Seen)'
      BY <1>1, <1>6, <1>8, <2>1 DEF IInv, CoverInv
    <3>2. fl'["force"].at \notin {"commit", "remove"}
      BY <1>3, <1>4 DEF Flushers, Flushing
    <3>3. replay'.at = "remove" => Covered(p, n, Flushed)'
      BY <1>1, <1>6, <1>8, <2>1 DEF IInv, CoverInv
    <3> QED
      BY <3>1, <3>2, <3>3
  <2> QED
    BY <1>5, <2>2, <2>3, <2>4 DEF CoverInv
<1>16. Durable'
  BY <1>1, DurableSame DEF IInv
<1>17. Readable'
  <2>1. Acked' = Acked
    BY <1>1 DEF Acked
  <2> QED
    BY <1>1, <1>8, <2>1 DEF IInv, Readable, Seen
<1> QED
  BY <1>9, <1>10, <1>11, <1>12, <1>13, <1>14, <1>15, <1>16, <1>17 DEF IInv

----------------------------------------------------------------------------
(***************************************************************************)
(* One lemma per action: OpenAndEnable and the replay.                     *)
(***************************************************************************)
Record == Seq(Writes) \ {<<>>}
ReplayRec == [at : {"idle", "read", "flush", "flushing", "remove"},
              todo : [Parts -> Seq(Record)], turn : Parts, errs : BOOLEAN, rm : Lists]

LEMMA ReplayType == TypeOK => replay \in ReplayRec
  BY DEF TypeOK, ReplayRec, Record, Lists

LEMMA NoReplayType == NoReplay \in ReplayRec /\ NoReplay.at = "idle"
<1>1. [p \in Parts |-> <<>>] \in [Parts -> Seq(Record)]
  OBVIOUS
<1> QED
  BY <1>1, NoListType, PartsFacts DEF NoReplay, ReplayRec

\* Outside its life the log has no names and no flush has files to remove.
LEMMA NoLogFiles ==
  ASSUME IInv, phase \notin OpenPhases
  PROVE  /\ \A p \in Parts : names[p] = <<>> /\ Range(names[p]) = {}
         /\ \A f \in Flushers : NoneLeft(fl[f].wal)
         /\ \A f \in Flushers : \A p \in Parts : Range(fl[f].wal.names[p]) = {}
         /\ ticker = FALSE
<1>1. \A p \in Parts : names[p] = <<>>
  BY DEF IInv, LogInv, OpenPhases
<1>2. \A f \in Flushers : NoneLeft(fl[f].wal)
  BY DEF IInv, LogInv
<1>3. ticker = FALSE
  BY DEF IInv, CtlInv, TypeOK
<1> QED
  BY <1>1, <1>2, <1>3, RangeEmpty DEF NoneLeft

\* What restoreLogs finds: every file of the directory, and the highest number.
LEMMA RestoredFacts ==
  ASSUME TypeOK, NEW ns, \A p \in Parts : ns[p] \in Ascending(DOMAIN disk[p])
  PROVE  \A p \in Parts : /\ ns[p] \in Seq(Nat) /\ Range(ns[p]) = DOMAIN disk[p]
                          /\ ns[p] # <<>> => Last(ns[p]) \in Nat /\ \A n \in DOMAIN disk[p] : n <= Last(ns[p])
                          /\ ns[p] = <<>> => DOMAIN disk[p] = {}
<1> SUFFICES ASSUME NEW p \in Parts
             PROVE  /\ ns[p] \in Seq(Nat) /\ Range(ns[p]) = DOMAIN disk[p]
                    /\ ns[p] # <<>> => Last(ns[p]) \in Nat /\ \A n \in DOMAIN disk[p] : n <= Last(ns[p])
                    /\ ns[p] = <<>> => DOMAIN disk[p] = {}
  OBVIOUS
<1>1. IsFiniteSet(DOMAIN disk[p]) /\ DOMAIN disk[p] \subseteq Nat /\ ns[p] \in Ascending(DOMAIN disk[p])
  BY DEF TypeOK
<1> QED
  BY <1>1, AscendingLast

LEMMA RestoreLogsFacts ==
  ASSUME IInv, NEW ns, \A p \in Parts : ns[p] \in Ascending(DOMAIN disk[p]), RestoreLogs(ns)
  PROVE  /\ rnames' \in [Parts -> Seq(Nat)]
         /\ fileSeq' \in [Parts -> Nat]
         /\ \A p \in Parts : \A n \in DOMAIN disk[p] : n <= fileSeq'[p]
         /\ replay' \in ReplayRec /\ replay'.at = "read"
         /\ ~replay'.errs => \A p \in Parts : \A n \in DOMAIN disk[p] :
              \E i \in DOMAIN replay'.todo[p] : replay'.todo[p][i] = disk[p][n]
<1> DEFINE rn == RestoredNames(ns)
<1>1. \A p \in Parts : /\ ns[p] \in Seq(Nat) /\ Range(ns[p]) = DOMAIN disk[p]
                       /\ ns[p] # <<>> => Last(ns[p]) \in Nat /\ \A n \in DOMAIN disk[p] : n <= Last(ns[p])
                       /\ ns[p] = <<>> => DOMAIN disk[p] = {}
  BY RestoredFacts DEF IInv
<1>2. rnames \in [Parts -> Seq(Nat)] /\ fileSeq \in [Parts -> Nat]
  BY DEF IInv, TypeOK
<1>3. rnames' = rn /\ rn \in [Parts -> Seq(Nat)] /\ \A p \in Parts : rn[p] = rnames[p] \o ns[p]
  BY <1>1, <1>2 DEF RestoreLogs, RestoredNames
<1>4. \A p \in Parts : Range(rn[p]) = Range(rnames[p]) \cup DOMAIN disk[p]
  <2> SUFFICES ASSUME NEW p \in Parts PROVE Range(rn[p]) = Range(rnames[p]) \cup DOMAIN disk[p]
    OBVIOUS
  <2>1. rnames[p] \in Seq(Nat) /\ ns[p] \in Seq(Nat) /\ Range(ns[p]) = DOMAIN disk[p] /\ rn[p] = rnames[p] \o ns[p]
    BY <1>1, <1>2, <1>3
  <2> QED
    BY <2>1, RangeConcat
<1> HIDE DEF rn
<1>5. fileSeq' \in [Parts -> Nat] /\ \A p \in Parts : \A n \in DOMAIN disk[p] : n <= fileSeq'[p]
  <2>1. fileSeq' = [p \in Parts |-> IF ns[p] = <<>> THEN fileSeq[p] ELSE Last(ns[p])]
    BY DEF RestoreLogs
  <2> QED
    BY <1>1, <1>2, <2>1
<1> DEFINE todo == [p \in Parts |-> IF p \in Gone(ns) THEN <<>> ELSE RecordsOf(p, rn[p])]
<1>6. replay' = [NoReplay EXCEPT !.at = "read", !.errs = Gone(ns) # {}, !.todo = todo]
  BY DEF RestoreLogs, rn
<1>7. ASSUME NEW p \in Parts, p \notin Gone(ns)
      PROVE  /\ RecordsOf(p, rn[p]) \in Seq(Record) /\ DOMAIN RecordsOf(p, rn[p]) = DOMAIN rn[p]
             /\ \A i \in DOMAIN rn[p] : RecordsOf(p, rn[p])[i] = disk[p][rn[p][i]]
  <2>1. \A n \in Range(rn[p]) : n \in DOMAIN disk[p]
    BY <1>7 DEF Gone, OnDisk, rn
  <2>2. rn[p] \in Seq(Nat)
    BY <1>3
  <2>3. Len(rn[p]) \in Nat /\ DOMAIN rn[p] = 1..Len(rn[p])
    BY <2>2
  <2>4. \A i \in DOMAIN rn[p] : disk[p][rn[p][i]] \in Record
    <3>1. \A n \in DOMAIN disk[p] : disk[p][n] \in Record
      BY DEF IInv, TypeOK, Record
    <3>2. \A i \in DOMAIN rn[p] : rn[p][i] \in Range(rn[p])
      BY Zenon DEF Range
    <3> QED
      BY <2>1, <3>1, <3>2
  <2>5. RecordsOf(p, rn[p]) = [i \in 1..Len(rn[p]) |-> disk[p][rn[p][i]]]
    BY <2>3 DEF RecordsOf
  <2>6. RecordsOf(p, rn[p]) \in [1..Len(rn[p]) -> Record]
    BY <2>3, <2>4, <2>5
  <2> QED
    BY <2>3, <2>5, <2>6
<1>8. todo \in [Parts -> Seq(Record)]
  <2>1. \A p \in Parts : (IF p \in Gone(ns) THEN <<>> ELSE RecordsOf(p, rn[p])) \in Seq(Record)
    BY <1>7
  <2> QED
    BY <2>1
<1>9. \A p \in Parts : p \notin Gone(ns) => todo[p] = RecordsOf(p, rn[p])
  OBVIOUS
<1> HIDE DEF todo
<1>10. replay' \in ReplayRec /\ replay'.at = "read" /\ replay'.todo = todo /\ replay'.errs = (Gone(ns) # {})
  BY <1>6, <1>8, NoReplayType DEF ReplayRec
<1>11. ASSUME ~replay'.errs, NEW p \in Parts, NEW n \in DOMAIN disk[p]
       PROVE  \E i \in DOMAIN replay'.todo[p] : replay'.todo[p][i] = disk[p][n]
  <2>1. p \notin Gone(ns)
    BY <1>10, <1>11
  <2>2. n \in Range(rn[p])
    BY <1>4
  <2>3. PICK i \in DOMAIN rn[p] : rn[p][i] = n
    BY <2>2, Zenon DEF Range
  <2> QED
    BY <1>7, <1>9, <1>10, <2>1, <2>3
<1> QED
  BY <1>3, <1>5, <1>10, <1>11

LEMMA OpenShardStep == ASSUME IInv, OpenShard PROVE IInv'
<1>1. /\ phase \in {"down", "failed"} /\ phase' = "opening"
      /\ UNCHANGED <<pc, prec, part, stale, ticker, active, snap, files, disk, names, writeReq, free, fl>>
  BY DEF OpenShard, tblVars
<1>2. PICK ns : (\A p \in Parts : ns[p] \in Ascending(DOMAIN disk[p])) /\ RestoreLogs(ns)
  BY DEF OpenShard
<1>3. /\ rnames' \in [Parts -> Seq(Nat)]
      /\ fileSeq' \in [Parts -> Nat]
      /\ \A p \in Parts : \A n \in DOMAIN disk[p] : n <= fileSeq'[p]
      /\ replay' \in ReplayRec /\ replay'.at = "read"
      /\ ~replay'.errs => \A p \in Parts : \A n \in DOMAIN disk[p] :
           \E i \in DOMAIN replay'.todo[p] : replay'.todo[p][i] = disk[p][n]
  BY <1>2, RestoreLogsFacts
<1>4. /\ \A p \in Parts : names[p] = <<>> /\ Range(names[p]) = {}
      /\ \A f \in Flushers : NoneLeft(fl[f].wal)
      /\ \A f \in Flushers : \A p \in Parts : Range(fl[f].wal.names[p]) = {}
      /\ ticker = FALSE
  BY <1>1, NoLogFiles DEF OpenPhases, LogPhases
<1>5. TypeOK'
  BY <1>1, <1>3 DEF IInv, TypeOK, ReplayRec, Record, Lists
<1>6. TokensKept'
  BY <1>1, TokensSame DEF IInv
<1>7. CtlInv'
  BY <1>1, <1>3, <1>4 DEF IInv, CtlInv, Prepared, Flushing
<1>8. WriteInv'
  BY <1>1 DEF IInv, WriteInv, OpenPhases, LogPhases
<1>9. LogInv'
  BY <1>1, <1>3, <1>4 DEF LogInv
<1>10. SnapInv'
  BY <1>1, SnapSame DEF IInv
<1>11. CoverInv'
  <2>1. ASSUME ~replay'.errs, NEW p \in Parts, NEW n \in DOMAIN disk'[p]
        PROVE  Covered(p, n, Seen \cup Todo(p))'
    <3>1. PICK i \in DOMAIN replay'.todo[p] : replay'.todo[p][i] = disk'[p][n]
      BY <1>1, <1>3, <2>1
    <3>2. Range(disk'[p][n]) \subseteq Todo(p)'
      BY <3>1 DEF Todo
    <3> QED
      BY <3>2 DEF Covered
  <2> QED
    BY <1>1, <1>3, <1>4, <2>1 DEF CoverInv
<1>12. Durable' /\ Readable'
  BY <1>1, DurableSame DEF IInv, Readable
<1> QED
  BY <1>5, <1>6, <1>7, <1>8, <1>9, <1>10, <1>11, <1>12 DEF IInv

LEMMA TailFacts ==
  ASSUME NEW S, NEW s \in Seq(S), s # <<>>
  PROVE  /\ Len(s) = 1 => Tail(s) = <<>>
         /\ Len(s) # 1 => Tail(s) # <<>>
         /\ \A i \in DOMAIN s : i = 1 \/ (i - 1 \in DOMAIN Tail(s) /\ Tail(s)[i - 1] = s[i])
<1>1. Len(s) \in Nat /\ Len(s) >= 1 /\ Tail(s) \in Seq(S) /\ Len(Tail(s)) = Len(s) - 1
  OBVIOUS
<1>2. Len(s) = 1 => Tail(s) = <<>>
  <2>1. \A u \in Seq(S) : Len(u) = 0 => u = <<>>
    BY EmptySeq
  <2>2. Len(s) = 1 => Len(Tail(s)) = 0
    BY <1>1
  <2> QED
    BY <1>1, <2>1, <2>2, Zenon
<1>3. Len(s) # 1 => Tail(s) # <<>>
  <2>1. Len(<<>>) = 0
    OBVIOUS
  <2> QED
    BY <1>1, <2>1
<1>4. \A i \in DOMAIN s : i = 1 \/ (i - 1 \in DOMAIN Tail(s) /\ Tail(s)[i - 1] = s[i])
  OBVIOUS
<1> QED
  BY <1>2, <1>3, <1>4

LEMMA NewHead ==
  ASSUME NEW S, NEW s \in Seq(S), s # <<>>, NEW e \in S
  PROVE  /\ <<e>> \o Tail(s) \in Seq(S)
         /\ 1 \in DOMAIN (<<e>> \o Tail(s)) /\ (<<e>> \o Tail(s))[1] = e
         /\ \A i \in DOMAIN s : i # 1 => i \in DOMAIN (<<e>> \o Tail(s)) /\ (<<e>> \o Tail(s))[i] = s[i]
<1>1. Len(s) \in Nat /\ Len(s) >= 1 /\ Tail(s) \in Seq(S) /\ Len(Tail(s)) = Len(s) - 1
  OBVIOUS
<1>2. <<e>> \in Seq(S) /\ Len(<<e>>) = 1
  OBVIOUS
<1> QED
  BY <1>1, <1>2

\* One record is taken from the front of a partition's files.
LEMMA ConsumedFacts ==
  ASSUME TypeOK, NEW p \in Parts, replay.todo[p] # <<>>
  PROVE  /\ NextRecord(p) \in Writes
         /\ Consumed(p) \in ReplayRec
         /\ Consumed(p).at = replay.at /\ Consumed(p).errs = replay.errs /\ Consumed(p).rm = replay.rm
         /\ \A q \in Parts : q # p => Consumed(p).todo[q] = replay.todo[q]
         /\ \A w \in Todo(p) : \/ w = NextRecord(p)
                               \/ \E i \in DOMAIN Consumed(p).todo[p] : w \in Range(Consumed(p).todo[p][i])
<1> DEFINE t == replay.todo[p]
           h == Head(t)
           rest == IF Len(h) = 1 THEN Tail(t) ELSE <<Tail(h)>> \o Tail(t)
<1>1. replay \in ReplayRec /\ t \in Seq(Record)
  BY ReplayType DEF ReplayRec
<1>2. t # <<>> /\ h \in Record /\ Tail(t) \in Seq(Record)
  BY <1>1
<1>3. h \in Seq(Writes) /\ h # <<>> /\ Len(h) \in Nat \ {0}
  BY <1>2, EmptySeq DEF Record
<1>4. NextRecord(p) = Head(h) /\ Head(h) \in Writes /\ Tail(h) \in Seq(Writes)
  BY <1>3 DEF NextRecord
<1> HIDE DEF h, t
<1>5. Len(h) = 1 => Tail(h) = <<>>
  BY <1>3, TailFacts
<1>6. Len(h) # 1 => Tail(h) \in Record
  BY <1>3, <1>4, TailFacts DEF Record
<1>7. Range(h) = {Head(h)} \cup Range(Tail(h))
  BY <1>3, RangeTail
<1>8. rest \in Seq(Record)
  <2>1. Len(h) # 1 => <<Tail(h)>> \o Tail(t) \in Seq(Record)
    BY <1>1, <1>2, <1>6, NewHead
  <2> QED
    BY <1>2, <2>1
<1>9. (p + 1) % NumParts \in Parts
  <2>1. p + 1 \in Nat
    BY WalAssumption DEF Parts
  <2> QED
    BY <2>1, PartsFacts
<1>10. Consumed(p) = [replay EXCEPT !.todo[p] = rest, !.turn = (p + 1) % NumParts]
  BY DEF Consumed, t, h
<1>11. ASSUME NEW w \in Todo(p) PROVE w = NextRecord(p) \/ \E i \in DOMAIN rest : w \in Range(rest[i])
  <2>1. PICK i \in DOMAIN t : w \in Range(t[i])
    BY DEF Todo, t
  <2>2. CASE i = 1
    <3>1. w \in Range(h)
      BY <1>1, <1>2, <2>1, <2>2 DEF h
    <3>2. w = Head(h) \/ w \in Range(Tail(h))
      BY <1>7, <3>1
    <3>3. Len(h) = 1 => w = Head(h)
      BY <1>5, <3>2, RangeEmpty
    <3>4. Len(h) # 1 => 1 \in DOMAIN rest /\ rest[1] = Tail(h)
      BY <1>1, <1>2, <1>6, NewHead
    <3> QED
      BY <1>4, <3>2, <3>3, <3>4
  <2>3. CASE i # 1
    <3>1. i - 1 \in DOMAIN Tail(t) /\ Tail(t)[i - 1] = t[i]
      BY <1>1, <1>2, <2>1, <2>3, TailFacts
    <3>2. Len(h) # 1 => i \in DOMAIN rest /\ rest[i] = t[i]
      BY <1>1, <1>2, <1>6, <2>1, <2>3, NewHead
    <3> QED
      BY <2>1, <3>1, <3>2
  <2> QED
    BY <2>2, <2>3
<1> HIDE DEF rest
<1>12. /\ Consumed(p) \in ReplayRec
       /\ Consumed(p).at = replay.at /\ Consumed(p).errs = replay.errs /\ Consumed(p).rm = replay.rm
       /\ \A q \in Parts : q # p => Consumed(p).todo[q] = replay.todo[q]
       /\ Consumed(p).todo[p] = rest
  <2> DEFINE td == [replay.todo EXCEPT ![p] = rest]
             tn == (p + 1) % NumParts
  <2>1. td \in [Parts -> Seq(Record)] /\ td[p] = rest /\ \A q \in Parts : q # p => td[q] = replay.todo[q]
    BY <1>1, <1>8 DEF ReplayRec
  <2>2. tn \in Parts
    BY <1>9
  <2>3. Consumed(p) = [replay EXCEPT !.todo = td, !.turn = tn]
    BY <1>10
  <2> HIDE DEF td, tn
  <2> QED
    BY <1>1, <2>1, <2>2, <2>3 DEF ReplayRec
<1> QED
  BY <1>4, <1>11, <1>12

LEMMA ReplayRecordStep == ASSUME IInv, NEW p \in Parts, ReplayRecord(p) PROVE IInv'
<1> DEFINE rec == NextRecord(p)
<1>1. /\ replay.at = "read" /\ replay.todo[p] # <<>>
      /\ free >= 1 /\ free' = free - 1
      /\ active' = [rows |-> Append(active.rows, rec), size |-> active.size + 1]
      /\ replay' = Consumed(p)
      /\ UNCHANGED <<pc, prec, part, stale, phase, ticker, snap, files, disk, fileSeq, names, writeReq, fl, rnames>>
  BY DEF ReplayRecord, IsNext, walVars
<1>2. /\ rec \in Writes
      /\ replay' \in ReplayRec
      /\ replay'.at = replay.at /\ replay'.errs = replay.errs /\ replay'.rm = replay.rm
      /\ \A q \in Parts : q # p => replay'.todo[q] = replay.todo[q]
      /\ \A w \in Todo(p) : w = rec \/ \E i \in DOMAIN replay'.todo[p] : w \in Range(replay'.todo[p][i])
  BY <1>1, ConsumedFacts DEF IInv
<1> HIDE DEF rec
<1>3. active.rows \in Seq(Writes) /\ active.size \in Nat
  BY DEF IInv, TypeOK
<1>4. Range(active'.rows) = Range(active.rows) \cup {rec} /\ active'.size = active.size + 1
  BY <1>1, <1>2, <1>3, RangeAppend
<1>5. \A q \in Parts : \A w \in Todo(q) : w = rec \/ w \in Todo(q)'
  BY <1>2 DEF Todo
<1>6. Seen' = Seen \cup {rec} /\ Flushed' = Flushed
  BY <1>1, <1>4 DEF Seen, Flushed
<1>7. TypeOK'
  <2>1. active' \in [rows : Seq(Writes), size : Nat]
    BY <1>1, <1>2, <1>3
  <2>2. free' \in 0..MemLimit
    BY <1>1, WalAssumption DEF IInv, TypeOK
  <2> QED
    BY <1>1, <1>2, <2>1, <2>2 DEF IInv, TypeOK, ReplayRec, Record, Lists
<1>8. TokensKept'
  <2>1. Held("tick")' = Held("tick") /\ Held("force")' = Held("force") /\ Holders' = Holders
    BY <1>1 DEF Held, Holders
  <2>2. free' = free - 1
    BY <1>1
  <2>3. free' + active'.size + Held("tick")' + Held("force")' + Cardinality(Holders') = MemLimit
    BY <1>4, <2>1, <2>2, Budget DEF IInv, Flushers
  <2> QED
    BY <2>3 DEF TokensKept, Held, Holders
<1>9. CtlInv'
  BY <1>1, <1>2 DEF IInv, CtlInv, Prepared, Flushing
<1>10. WriteInv'
  BY <1>1, <1>4 DEF IInv, WriteInv
<1>11. LogInv' /\ SnapInv'
  BY <1>1, LogSame, SnapSame DEF IInv
<1>12. CoverInv'
  <2>1. \A q, m, A, B : A \subseteq B /\ Covered(q, m, A) => Covered(q, m, B)'
    BY <1>1 DEF Covered
  <2>2. \A q \in Parts : \A m \in Range(names'[q]) : Covered(q, m, Range(active.rows))'
    BY <1>1, <1>4, <2>1 DEF IInv, CoverInv
  <2>3. \A f \in Flushers : \A q \in Parts : \A m \in Range(fl'[f].wal.names[q]) :
          /\ fl'[f].at = "commit" => Covered(q, m, Range(snap.rows))'
          /\ fl'[f].at = "remove" => Covered(q, m, Flushed)'
    BY <1>1, <1>6, <2>1 DEF IInv, CoverInv
  <2>4. ASSUME ~replay'.errs, NEW q \in Parts, NEW m \in DOMAIN disk'[q]
        PROVE  Covered(q, m, Seen \cup Todo(q))'
    <3>1. Covered(q, m, Seen \cup Todo(q))
      BY <1>1, <1>2, <2>4 DEF IInv, CoverInv
    <3>2. Seen \cup Todo(q) \subseteq Seen' \cup Todo(q)'
      BY <1>5, <1>6
    <3> QED
      BY <2>1, <3>1, <3>2
  <2> QED
    BY <1>1, <1>2, <2>2, <2>3, <2>4 DEF CoverInv
<1>13. Durable'
  BY <1>1, DurableSame DEF IInv
<1>14. Readable'
  BY <1>1 DEF IInv, CtlInv, Readable
<1> QED
  BY <1>7, <1>8, <1>9, <1>10, <1>11, <1>12, <1>13, <1>14 DEF IInv

LEMMA ReplayRecordFailsStep == ASSUME IInv, NEW p \in Parts, ReplayRecordFails(p) PROVE IInv'
<1>1. /\ replay.at = "read" /\ replay.todo[p] # <<>>
      /\ replay' = [Consumed(p) EXCEPT !.errs = TRUE]
      /\ UNCHANGED <<pc, prec, part, stale, phase, ticker, snap, files, disk, fileSeq, names, writeReq, fl, rnames>>
  BY DEF ReplayRecordFails, IsNext, walVars
<1>2. replay' \in ReplayRec /\ replay'.at = "read" /\ replay'.errs = TRUE
  <2>1. Consumed(p) \in ReplayRec /\ Consumed(p).at = "read"
    BY <1>1, ConsumedFacts DEF IInv
  <2> QED
    BY <1>1, <2>1 DEF ReplayRec
<1>3. active \in [rows : Seq(Writes), size : Nat] /\ free \in 0..MemLimit /\ MemLimit \in Nat
  BY WalAssumption DEF IInv, TypeOK
<1>4. \/ active' = active /\ free' = free
      \/ free >= 1 /\ free' = free - 1 /\ active' = [active EXCEPT !.size = @ + 1]
  BY DEF ReplayRecordFails
<1>5. /\ active' \in [rows : Seq(Writes), size : Nat] /\ free' \in 0..MemLimit
      /\ active'.rows = active.rows /\ free' + active'.size = free + active.size
  BY <1>3, <1>4
<1>6. TypeOK'
  BY <1>1, <1>2, <1>5 DEF IInv, TypeOK, ReplayRec, Record, Lists
<1>7. TokensKept'
  <2>1. Held("tick")' = Held("tick") /\ Held("force")' = Held("force") /\ Holders' = Holders
    BY <1>1 DEF Held, Holders
  <2>2. free' + active'.size + Held("tick")' + Held("force")' + Cardinality(Holders') = MemLimit
    BY <1>5, <2>1, Budget DEF IInv, Flushers
  <2> QED
    BY <2>2 DEF TokensKept, Held, Holders
<1>8. LogInv' /\ SnapInv' /\ Durable'
  BY <1>1, LogSame, SnapSame, DurableSame DEF IInv
<1>9. CtlInv'
  BY <1>1, <1>2 DEF IInv, CtlInv, Prepared, Flushing
<1>10. WriteInv'
  BY <1>1, <1>5 DEF IInv, WriteInv
<1>11. CoverInv'
  BY <1>1, <1>2, <1>5 DEF IInv, CoverInv, Covered, Flushed
<1>12. Readable'
  BY <1>1 DEF IInv, CtlInv, Readable
<1> QED
  BY <1>6, <1>7, <1>8, <1>9, <1>10, <1>11, <1>12 DEF IInv

\* OpenAndEnable fails and leaves everything as it is.
LEMMA OpenFails ==
  ASSUME IInv, replay.at # "idle", replay' = NoReplay, phase' = "failed",
         UNCHANGED <<pc, prec, part, stale, ticker, tblVars, walVars, free, fl, rnames>>
  PROVE  IInv'
<1>1. phase = "opening"
  BY DEF IInv, CtlInv
<1>2. replay' \in ReplayRec /\ replay'.at = "idle"
  BY NoReplayType
<1>3. ticker = FALSE
  BY <1>1, NoLogFiles DEF OpenPhases, LogPhases
<1>4. TypeOK'
  BY <1>2 DEF IInv, TypeOK, ReplayRec, Record, Lists, tblVars, walVars
<1>5. TokensKept' /\ SnapInv' /\ Durable' /\ Readable'
  BY TokensSame, SnapSame, DurableSame DEF IInv, Readable, tblVars, walVars
<1>6. CtlInv'
  BY <1>1, <1>2, <1>3 DEF IInv, CtlInv, Prepared, Flushing
<1>7. WriteInv'
  BY <1>1 DEF IInv, WriteInv, tblVars, OpenPhases, LogPhases
<1>8. LogInv'
  BY <1>1 DEF IInv, LogInv, NoneLeft, Flushing, walVars, OpenPhases, LogPhases
<1>9. CoverInv'
  BY <1>2 DEF IInv, CoverInv, Covered, Flushed, tblVars, walVars
<1> QED
  BY <1>4, <1>5, <1>6, <1>7, <1>8, <1>9 DEF IInv

LEMMA ReplayReturnsStep == ASSUME IInv, ReplayReturns PROVE IInv'
<1>1. /\ replay.at = "read" /\ \A p \in Parts : replay.todo[p] = <<>>
      /\ UNCHANGED <<pc, prec, part, stale, ticker, active, snap, files, disk, fileSeq, names, writeReq, free, fl, rnames>>
  BY DEF ReplayReturns, tblVars, walVars
<1>2. CASE replay.errs
  BY <1>1, <1>2, OpenFails DEF ReplayReturns, ReplayFailed, tblVars, walVars
<1>3. CASE ~replay.errs
  <2>1. PICK order \in Orders : replay' = [replay EXCEPT !.at = "flush", !.rm = Listing(order, rnames)]
    BY <1>3 DEF ReplayReturns, ReplayFailed
  <2>2. phase' = phase
    BY <1>3 DEF ReplayReturns, ReplayFailed
  <2>3. replay' \in ReplayRec /\ replay'.at = "flush"
    <3>1. replay \in ReplayRec
      BY ReplayType DEF IInv
    <3>2. Listing(order, rnames) \in Lists
      BY DEF IInv, TypeOK, Lists, Listing
    <3> QED
      BY <2>1, <3>1, <3>2 DEF ReplayRec
  <2>4. TypeOK'
    BY <1>1, <2>2, <2>3 DEF IInv, TypeOK, ReplayRec, Record, Lists
  <2>5. TokensKept' /\ LogInv' /\ SnapInv' /\ Durable' /\ Readable'
    BY <1>1, <2>2, TokensSame, LogSame, SnapSame, DurableSame, ReadableSame DEF IInv
  <2>6. CtlInv'
    BY <1>1, <2>2, <2>3 DEF IInv, CtlInv, Prepared, Flushing
  <2>7. WriteInv'
    BY <1>1, <2>2 DEF IInv, WriteInv
  <2>8. CoverInv'
    <3>1. \A p \in Parts : Todo(p) = {}
      BY <1>1 DEF Todo
    <3>2. Seen' = Seen /\ Flushed' = Flushed
      BY <1>1 DEF Seen, Flushed
    <3>3. \A q, m, A, B : A \subseteq B /\ Covered(q, m, A) => Covered(q, m, B)'
      BY <1>1 DEF Covered
    <3>4. \A p \in Parts : \A n \in DOMAIN disk'[p] : Covered(p, n, Seen)'
      BY <1>1, <1>3, <3>1, <3>2, <3>3 DEF IInv, CoverInv
    <3>5. \A q \in Parts : \A m \in Range(names'[q]) : Covered(q, m, Range(active.rows))'
      BY <1>1, <3>3 DEF IInv, CoverInv
    <3>6. \A f \in Flushers : \A q \in Parts : \A m \in Range(fl'[f].wal.names[q]) :
            /\ fl'[f].at = "commit" => Covered(q, m, Range(snap.rows))'
            /\ fl'[f].at = "remove" => Covered(q, m, Flushed)'
      BY <1>1, <3>2, <3>3 DEF IInv, CoverInv
    <3> QED
      BY <2>3, <3>4, <3>5, <3>6 DEF CoverInv
  <2> QED
    BY <2>4, <2>5, <2>6, <2>7, <2>8 DEF IInv
<1> QED
  BY <1>2, <1>3

LEMMA RemoveReplayedStep == ASSUME IInv, NEW p \in Parts, RemoveReplayed(p) PROVE IInv'
<1> DEFINE n == Head(replay.rm.names[p])
<1>1. /\ replay.at = "remove" /\ replay.rm.names[p] # <<>>
      /\ UNCHANGED <<pc, prec, part, stale, ticker, active, snap, files, fileSeq, names, writeReq, free, fl, rnames>>
  BY DEF RemoveReplayed, IsFirst, tblVars
<1>2. phase = "opening"
  BY <1>1 DEF IInv, CtlInv
<1>3. CASE ~OnDisk(p, n)
  BY <1>1, <1>3, OpenFails DEF RemoveReplayed, tblVars, walVars
<1>4. CASE OnDisk(p, n)
  <2>1. /\ disk' = [disk EXCEPT ![p] = Without(@, n)]
        /\ replay' = [replay EXCEPT !.rm.names[p] = Tail(@)]
        /\ phase' = phase
    BY <1>4 DEF RemoveReplayed
  <2>2. replay' \in ReplayRec /\ replay'.at = "remove"
    <3>1. replay \in ReplayRec /\ replay.rm \in Lists /\ replay.rm.names \in [Parts -> Seq(Nat)]
      BY ReplayType DEF IInv, ReplayRec, Lists
    <3> DEFINE ns == [replay.rm.names EXCEPT ![p] = Tail(@)]
               l == [replay.rm EXCEPT !.names = ns]
    <3>2. ns \in [Parts -> Seq(Nat)]
      <4>1. replay.rm.names[p] \in Seq(Nat) /\ Tail(replay.rm.names[p]) \in Seq(Nat)
        BY <1>1, <3>1
      <4> QED
        BY <3>1, <4>1
    <3>3. replay' = [replay EXCEPT !.rm = l]
      BY <2>1
    <3> HIDE DEF ns
    <3>4. l \in Lists
      BY <3>1, <3>2 DEF Lists
    <3> HIDE DEF l
    <3> QED
      BY <1>1, <3>1, <3>3, <3>4 DEF ReplayRec
  <2> HIDE DEF n
  <2>3. \A q \in Parts : /\ \A m \in DOMAIN disk[q] : ~(q = p /\ m = n) => m \in DOMAIN disk'[q]
                         /\ \A m \in DOMAIN disk'[q] : m \in DOMAIN disk[q] /\ disk'[q][m] = disk[q][m]
    BY <2>1, WithoutRest, Zenon DEF IInv
  <2>4. /\ \A q \in Parts : names[q] = <<>> /\ Range(names[q]) = {}
        /\ \A f \in Flushers : NoneLeft(fl[f].wal)
        /\ \A f \in Flushers : \A q \in Parts : Range(fl[f].wal.names[q]) = {}
    BY <1>2, NoLogFiles DEF OpenPhases, LogPhases
  <2>5. TypeOK'
    <3>1. /\ DOMAIN disk' = Parts
          /\ \A q \in Parts : /\ DOMAIN disk'[q] \subseteq Nat /\ IsFiniteSet(DOMAIN disk'[q])
                              /\ disk'[q] \in [DOMAIN disk'[q] -> Seq(Writes) \ {<<>>}]
      BY <2>1, WithoutType, Zenon DEF IInv
    <3> QED
      BY <1>1, <2>1, <2>2, <3>1 DEF IInv, TypeOK, ReplayRec, Record, Lists
  <2>6. TokensKept' /\ SnapInv' /\ Readable'
    BY <1>1, <2>1, TokensSame, SnapSame, ReadableSame DEF IInv
  <2>7. CtlInv'
    BY <1>1, <2>1, <2>2 DEF IInv, CtlInv, Prepared, Flushing
  <2>8. WriteInv'
    BY <1>1, <2>1 DEF IInv, WriteInv
  <2>9. LogInv'
    <3>1. \A q \in Parts : \A m \in DOMAIN disk'[q] : m <= fileSeq'[q]
      BY <1>1, <1>2, <2>3 DEF IInv, LogInv
    <3> QED
      BY <1>1, <2>4, <3>1 DEF LogInv
  <2>10. CoverInv'
    <3>1. \A q \in Parts : \A m \in DOMAIN disk'[q] : Covered(q, m, Flushed)'
      BY <1>1, <2>3 DEF IInv, CoverInv, Covered, Flushed
    <3> QED
      BY <1>1, <2>2, <2>4, <3>1 DEF CoverInv
  <2>11. Durable'
    <3>1. Covered(p, n, Flushed)
      BY <1>1, <1>4 DEF IInv, CoverInv, Covered
    <3> QED
      BY <1>1, <2>1, <3>1, RemoveFlushed, Zenon
  <2> QED
    BY <2>5, <2>6, <2>7, <2>8, <2>9, <2>10, <2>11 DEF IInv
<1> QED
  BY <1>3, <1>4

LEMMA OpenDoneStep == ASSUME IInv, OpenDone PROVE IInv'
<1>1. /\ replay.at = "remove" /\ replay' = NoReplay /\ phase' = "open" /\ ticker' = TRUE
      /\ UNCHANGED <<pc, prec, part, stale, active, snap, files, disk, fileSeq, names, writeReq, free, fl, rnames>>
  BY DEF OpenDone, tblVars, walVars
<1>2. phase = "opening"
  BY <1>1 DEF IInv, CtlInv
<1>3. replay' \in ReplayRec /\ replay'.at = "idle"
  BY <1>1, NoReplayType
<1>4. TypeOK'
  BY <1>1, <1>3 DEF IInv, TypeOK, ReplayRec, Record, Lists
<1>5. TokensKept' /\ SnapInv' /\ Durable'
  BY <1>1, TokensSame, SnapSame, DurableSame DEF IInv
<1>6. CtlInv'
  BY <1>1, <1>2, <1>3 DEF IInv, CtlInv, Prepared, Flushing, OpenPhases, LogPhases
<1>7. WriteInv'
  BY <1>1, <1>2 DEF IInv, WriteInv, OpenPhases, LogPhases
<1>8. LogInv'
  BY <1>1, <1>2 DEF IInv, LogInv, NoneLeft, Flushing, OpenPhases, LogPhases
<1>9. CoverInv'
  BY <1>1, <1>3 DEF IInv, CoverInv, Covered, Flushed
<1>10. Readable'
  <2>1. \A w : InWal(w) => w \in Range(files)
    BY <1>1 DEF IInv, CoverInv, Covered, Flushed, InWal
  <2>2. Acked' = Acked
    BY <1>1 DEF Acked
  <2> QED
    BY <1>1, <2>1, <2>2 DEF IInv, Durable, Readable
<1> QED
  BY <1>4, <1>5, <1>6, <1>7, <1>8, <1>9, <1>10 DEF IInv

----------------------------------------------------------------------------
(***************************************************************************)
(* One lemma per action: Close, a new object and the end of the process.   *)
(***************************************************************************)

\* A step of Close that only moves on to the next phase.
LEMMA PhaseOnly ==
  ASSUME IInv, phase \notin {"down", "opening"}, phase' \notin {"down", "opening", "open"},
         phase' \in {"closing", "locked", "closed"}, ticker' \in BOOLEAN,
         UNCHANGED <<pc, prec, part, stale, tblVars, walVars, free, fl, rnames, replay>>
  PROVE  TypeOK' /\ TokensKept' /\ SnapInv' /\ CoverInv' /\ Durable' /\ Readable'
<1>1. TypeOK'
  BY DEF IInv, TypeOK, tblVars, walVars
<1>2. TokensKept' /\ SnapInv' /\ CoverInv' /\ Durable'
  BY TokensSame, SnapSame, CoverSame, DurableSame DEF IInv, tblVars, walVars
<1>3. Readable'
  BY DEF Readable
<1> QED
  BY <1>1, <1>2, <1>3

LEMMA BeginCloseStep == ASSUME IInv, BeginClose PROVE IInv'
<1> USE DEF BeginClose
<1>1. TypeOK' /\ TokensKept' /\ SnapInv' /\ CoverInv' /\ Durable' /\ Readable'
  BY PhaseOnly DEF IInv, TypeOK
<1>2. CtlInv'
  BY DEF IInv, CtlInv, Prepared, Flushing, OpenPhases, LogPhases
<1>3. WriteInv'
  BY DEF IInv, WriteInv, OpenPhases, LogPhases, tblVars
<1>4. LogInv'
  BY DEF IInv, LogInv, NoneLeft, Flushing, OpenPhases, LogPhases, walVars
<1> QED
  BY <1>1, <1>2, <1>3, <1>4 DEF IInv

LEMMA LockCloseStep == ASSUME IInv, LockClose PROVE IInv'
<1> USE DEF LockClose
<1>1. TypeOK' /\ TokensKept' /\ SnapInv' /\ CoverInv' /\ Durable' /\ Readable'
  BY PhaseOnly DEF IInv, TypeOK
<1>2. CtlInv'
  BY DEF IInv, CtlInv, Prepared, Flushing, OpenPhases, LogPhases
<1>3. WriteInv'
  BY DEF IInv, WriteInv, OpenPhases, LogPhases, Reading, tblVars
<1>4. LogInv'
  BY DEF IInv, LogInv, NoneLeft, Flushing, OpenPhases, LogPhases, walVars
<1> QED
  BY <1>1, <1>2, <1>3, <1>4 DEF IInv

LEMMA EndCloseStep == ASSUME IInv, EndClose PROVE IInv'
<1> USE DEF EndClose
<1>1. TypeOK' /\ TokensKept' /\ SnapInv' /\ CoverInv' /\ Durable' /\ Readable'
  BY PhaseOnly
<1>2. \A f \in Flushers : ~Flushing(f) /\ NoneLeft(fl[f].wal)
  BY DEF IInv, LogInv, Flushing, Prepared
<1>3. fl["tick"].at = "idle"
  BY DEF IInv, TypeOK, CtlInv, Prepared, Flushers
<1>4. CtlInv'
  BY <1>2, <1>3 DEF IInv, CtlInv, Prepared, Flushing, OpenPhases, LogPhases
<1>5. WriteInv'
  BY DEF IInv, WriteInv, OpenPhases, LogPhases, tblVars
<1>6. LogInv'
  BY <1>2 DEF IInv, LogInv, NoneLeft, Flushing, OpenPhases, LogPhases, walVars
<1> QED
  BY <1>1, <1>4, <1>5, <1>6 DEF IInv

LEMMA CloseWalStep == ASSUME IInv, CloseWal PROVE IInv'
<1>1. /\ phase = "locked" /\ phase' = "walClosed" /\ names' = [p \in Parts |-> <<>>]
      /\ UNCHANGED <<pc, prec, part, stale, ticker, active, snap, files, disk, fileSeq, writeReq, free, fl, rnames, replay>>
  BY DEF CloseWal, tblVars
<1>2. \A p \in Parts : names'[p] = <<>> /\ Range(names'[p]) = {}
  BY <1>1, RangeEmpty
<1>3. replay.at = "idle"
  BY <1>1 DEF IInv, CtlInv
<1>4. TypeOK'
  <2>1. names' \in [Parts -> Seq(Nat)]
    BY <1>1
  <2> QED
    BY <1>1, <2>1 DEF IInv, TypeOK
<1>5. TokensKept' /\ SnapInv' /\ Durable' /\ Readable'
  BY <1>1, TokensSame, SnapSame, DurableSame DEF IInv, Readable
<1>6. CtlInv'
  BY <1>1 DEF IInv, CtlInv, Prepared, Flushing, OpenPhases, LogPhases
<1>7. WriteInv'
  BY <1>1 DEF IInv, WriteInv, OpenPhases, LogPhases
<1>8. LogInv'
  <2>1. \A f \in Flushers : NoneLeft(fl'[f].wal) \/ (Flushing(f)' /\ phase' \in OpenPhases)
    BY <1>1 DEF IInv, LogInv, Flushing, OpenPhases
  <2> QED
    BY <1>1, <1>2, <2>1 DEF IInv, LogInv
<1>9. CoverInv'
  BY <1>1, <1>2, <1>3 DEF IInv, CoverInv, Covered, Flushed
<1> QED
  BY <1>4, <1>5, <1>6, <1>7, <1>8, <1>9 DEF IInv

LEMMA DropActiveStep == ASSUME IInv, DropActive PROVE IInv'
<1>1. /\ phase = "walClosed" /\ phase' = "dropped"
      /\ free' = free + active.size /\ active' = [rows |-> <<>>, size |-> 0]
      /\ UNCHANGED <<pc, prec, part, stale, ticker, snap, files, disk, fileSeq, names, writeReq, fl, rnames, replay>>
  BY DEF DropActive, EmptyTbl, walVars
<1>2. \A p \in Parts : Range(names'[p]) = {}
  BY <1>1, RangeEmpty DEF IInv, LogInv, LogPhases
<1>3. replay.at = "idle"
  BY <1>1 DEF IInv, CtlInv
<1>4. TypeOK'
  <2>1. free' \in 0..MemLimit
    BY <1>1, Budget, SMTT(30) DEF IInv, Flushers
  <2>2. active' \in [rows : Seq(Writes), size : Nat]
    BY <1>1
  <2> QED
    BY <1>1, <2>1, <2>2 DEF IInv, TypeOK
<1>5. TokensKept'
  <2>1. Held("tick")' = Held("tick") /\ Held("force")' = Held("force") /\ Holders' = Holders /\ active'.size = 0
    BY <1>1 DEF Held, Holders
  <2>2. free' = free + active.size
    BY <1>1
  <2>3. free' + active'.size + Held("tick")' + Held("force")' + Cardinality(Holders') = MemLimit
    BY <2>1, <2>2, Budget DEF IInv, Flushers
  <2> QED
    BY <2>3 DEF TokensKept, Held, Holders
<1>6. CtlInv'
  BY <1>1 DEF IInv, CtlInv, Prepared, Flushing, OpenPhases, LogPhases
<1>7. WriteInv'
  BY <1>1 DEF IInv, WriteInv, OpenPhases, LogPhases
<1>8. LogInv'
  <2>1. \A f \in Flushers : NoneLeft(fl'[f].wal) \/ (Flushing(f)' /\ phase' \in OpenPhases)
    BY <1>1 DEF IInv, LogInv, Flushing, OpenPhases
  <2>2. \A p \in Parts : names'[p] = <<>>
    BY <1>1 DEF IInv, LogInv, LogPhases
  <2> QED
    BY <1>1, <1>2, <2>1, <2>2 DEF IInv, LogInv
<1>9. SnapInv' /\ Durable' /\ Readable'
  BY <1>1, SnapSame, DurableSame DEF IInv, Readable
<1>10. CoverInv'
  BY <1>1, <1>2, <1>3 DEF IInv, CoverInv, Covered, Flushed
<1> QED
  BY <1>4, <1>5, <1>6, <1>7, <1>8, <1>9, <1>10 DEF IInv

LEMMA NewShardStep == ASSUME IInv, NewShard PROVE IInv'
<1>1. /\ phase = "closed" /\ phase' = "down"
      /\ \A f \in Flushers : fl[f].at = "idle"
      /\ stale' = stale \cup {w \in Writes : pc[w] \in {"enter", "alloc", "index"}}
      /\ fileSeq' = [p \in Parts |-> 0] /\ rnames' = [p \in Parts |-> <<>>] /\ writeReq' = 0
      /\ UNCHANGED <<pc, prec, part, ticker, active, snap, files, disk, names, free, fl, replay>>
  BY DEF NewShard, tblVars
<1>2. /\ \A p \in Parts : names[p] = <<>> /\ Range(names[p]) = {}
      /\ \A f \in Flushers : NoneLeft(fl[f].wal)
      /\ \A f \in Flushers : \A p \in Parts : Range(fl[f].wal.names[p]) = {}
      /\ ticker = FALSE
  BY <1>1, NoLogFiles DEF OpenPhases, LogPhases
<1>3. TypeOK'
  <2>1. fileSeq' \in [Parts -> Nat] /\ rnames' \in [Parts -> Seq(Nat)] /\ writeReq' \in Parts
    BY <1>1, PartsFacts
  <2>2. stale' \subseteq Writes
    BY <1>1 DEF IInv, TypeOK
  <2> QED
    BY <1>1, <2>1, <2>2 DEF IInv, TypeOK
<1>4. TokensKept' /\ SnapInv' /\ CoverInv' /\ Durable' /\ Readable'
  BY <1>1, TokensSame, SnapSame, CoverSame, DurableSame DEF IInv, Readable
<1>5. CtlInv'
  BY <1>1, <1>2 DEF IInv, CtlInv, Prepared, Flushing
<1>6. WriteInv'
  BY <1>1 DEF IInv, TypeOK, WriteInv
<1>7. LogInv'
  BY <1>1, <1>2 DEF LogInv
<1> QED
  BY <1>3, <1>4, <1>5, <1>6, <1>7 DEF IInv

LEMMA CrashStep == ASSUME IInv, Crash PROVE IInv'
<1>1. /\ pc' = [w \in Writes |-> IF pc[w] \in {"new", "acked", "failed"} THEN pc[w] ELSE "failed"]
      /\ stale' = {} /\ phase' = "down" /\ ticker' = FALSE
      /\ active' = [rows |-> <<>>, size |-> 0] /\ snap' = [used |-> FALSE, rows |-> <<>>]
      /\ fileSeq' = [p \in Parts |-> 0] /\ names' = [p \in Parts |-> <<>>]
      /\ writeReq' = 0 /\ free' = MemLimit /\ fl' = [f \in Flushers |-> NoFlush]
      /\ rnames' = [p \in Parts |-> <<>>] /\ replay' = NoReplay
      /\ UNCHANGED <<prec, part, files, disk>>
  BY DEF Crash, EmptyTbl, NoSnap
<1>2. /\ fl' \in [Flushers -> FlRec]
      /\ \A f \in Flushers : fl'[f].at = "idle" /\ NoneLeft(fl'[f].wal) /\ ~Flushing(f)'
  BY <1>1, NoFlushType, NoListType DEF Flushing
<1>3. \A f \in Flushers : \A p \in Parts : Range(fl'[f].wal.names[p]) = {}
  BY <1>2, RangeEmpty DEF NoneLeft
<1>4. \A p \in Parts : names'[p] = <<>> /\ Range(names'[p]) = {}
  BY <1>1, RangeEmpty
<1>5. replay' \in ReplayRec /\ replay'.at = "idle"
  BY <1>1, NoReplayType
<1>6. /\ pc' \in [Writes -> {"new", "enter", "alloc", "index", "table", "wal", "acked", "failed"}]
      /\ \A w \in Writes : pc'[w] \in {"new", "acked", "failed"} /\ (pc'[w] = "acked" <=> pc[w] = "acked")
  BY <1>1 DEF IInv, TypeOK
<1>7. TypeOK'
  <2>1. fileSeq' \in [Parts -> Nat] /\ names' \in [Parts -> Seq(Nat)] /\ rnames' \in [Parts -> Seq(Nat)]
        /\ writeReq' \in Parts
    BY <1>1, PartsFacts
  <2>2. /\ active' \in [rows : Seq(Writes), size : Nat] /\ snap' \in [used : BOOLEAN, rows : Seq(Writes)]
        /\ free' \in 0..MemLimit
    BY <1>1, WalAssumption
  <2> QED
    BY <1>1, <1>2, <1>5, <1>6, <2>1, <2>2 DEF IInv, TypeOK, FlRec, FlAts, ReplayRec, Record, Lists
<1>8. TokensKept'
  <2>1. Holders' = {}
    BY <1>6 DEF Holders
  <2>2. Cardinality(Holders') = 0 /\ active'.size = 0
    BY <1>1, <2>1, FS_EmptySet
  <2>3. Held("tick")' = 0 /\ Held("force")' = 0
    BY <1>2 DEF Held, Flushers
  <2>4. free' + active'.size + Held("tick")' + Held("force")' + Cardinality(Holders') = MemLimit
    BY <1>1, <2>2, <2>3, WalAssumption
  <2> QED
    BY <2>4 DEF TokensKept, Held, Holders
<1>9. CtlInv'
  BY <1>1, <1>2, <1>5 DEF CtlInv, Prepared, Flushers
<1>10. WriteInv'
  BY <1>6 DEF WriteInv
<1>11. LogInv'
  BY <1>1, <1>2, <1>3, <1>4 DEF LogInv
<1>12. SnapInv'
  BY <1>1, <1>2 DEF SnapInv
<1>13. CoverInv'
  BY <1>3, <1>4, <1>5 DEF CoverInv
<1>14. Durable' /\ Readable'
  <2>1. Acked' = Acked
    BY <1>6 DEF Acked
  <2> QED
    BY <1>1, <2>1 DEF IInv, Durable, Readable, InWal
<1> QED
  BY <1>7, <1>8, <1>9, <1>10, <1>11, <1>12, <1>13, <1>14 DEF IInv

----------------------------------------------------------------------------
(***************************************************************************)
(* The invariant and what it implies.                                      *)
(***************************************************************************)
LEMMA InitIInv == Init => IInv
<1> SUFFICES ASSUME Init PROVE IInv
  OBVIOUS
<1> USE DEF Init
<1>1. /\ fl \in [Flushers -> FlRec]
      /\ \A f \in Flushers : fl[f].at = "idle" /\ NoneLeft(fl[f].wal) /\ ~Flushing(f)
  BY NoFlushType, NoListType DEF Flushing
<1>2. \A f \in Flushers : \A p \in Parts : Range(fl[f].wal.names[p]) = {}
  BY <1>1, RangeEmpty DEF NoneLeft
<1>3. \A p \in Parts : names[p] = <<>> /\ Range(names[p]) = {}
  BY RangeEmpty
<1>4. replay \in ReplayRec /\ replay.at = "idle"
  BY NoReplayType
<1>5. \A p \in Parts : /\ DOMAIN disk[p] = {} /\ IsFiniteSet(DOMAIN disk[p])
                       /\ disk[p] \in [DOMAIN disk[p] -> Seq(Writes) \ {<<>>}]
  <2>1. DOMAIN NoFiles = {} /\ NoFiles \in [{} -> Seq(Writes) \ {<<>>}] /\ IsFiniteSet({})
    BY FS_EmptySet DEF NoFiles
  <2> QED
    BY <2>1
<1>6. TypeOK
  <2>1. fileSeq \in [Parts -> Nat] /\ names \in [Parts -> Seq(Nat)] /\ rnames \in [Parts -> Seq(Nat)]
        /\ writeReq \in Parts /\ part \in [Writes -> 0..NumParts]
    BY PartsFacts
  <2>2. /\ active \in [rows : Seq(Writes), size : Nat] /\ snap \in [used : BOOLEAN, rows : Seq(Writes)]
        /\ free \in 0..MemLimit /\ files \in Seq(Writes)
    BY WalAssumption DEF EmptyTbl, NoSnap
  <2> QED
    BY <1>1, <1>4, <1>5, <2>1, <2>2 DEF TypeOK, FlRec, FlAts, ReplayRec, Record, Lists
<1>7. TokensKept
  <2>1. Holders = {}
    BY DEF Holders
  <2>2. Cardinality(Holders) = 0 /\ active.size = 0
    BY <2>1, FS_EmptySet DEF EmptyTbl
  <2>3. Held("tick") = 0 /\ Held("force") = 0
    BY <1>1 DEF Held, Flushers
  <2>4. free + active.size + Held("tick") + Held("force") + Cardinality(Holders) = MemLimit
    BY <2>2, <2>3, WalAssumption
  <2> QED
    BY <2>4, TokensKeptDef
<1>8. CtlInv
  BY <1>1, <1>4 DEF CtlInv, Prepared, Flushers
<1>9. WriteInv
  BY DEF WriteInv
<1>10. LogInv
  BY <1>1, <1>2, <1>3 DEF LogInv
<1>11. SnapInv
  BY <1>1 DEF SnapInv, NoSnap
<1>12. CoverInv
  BY <1>2, <1>3, <1>4 DEF CoverInv
<1>13. Durable /\ Readable
  BY DEF Durable, Readable, Acked
<1> QED
  BY <1>6, <1>7, <1>8, <1>9, <1>10, <1>11, <1>12, <1>13 DEF IInv

LEMMA NextIInv == ASSUME IInv, [Next]_vars PROVE IInv'
<1>1. CASE UNCHANGED vars
  <2>1. TypeOK'
    BY <1>1 DEF IInv, TypeOK, vars, tblVars, walVars
  <2>2. WriteInv'
    BY <1>1 DEF IInv, WriteInv, vars, tblVars
  <2> QED
    BY <1>1, <2>1, <2>2, CtlSame, LogSame, SnapSame, CoverSame, DurableSame, ReadableSame, TokensSame
    DEF IInv, vars, tblVars, walVars
<1>2. ASSUME NEW w \in Writes, BeginWrite(w) \/ WriteStep(w) PROVE IInv'
  BY <1>2, BeginWriteStep, EnterWriteStep, AllocResourceStep, AllocTimeoutStep, WriteIndexStep,
     WriteIndexFailsStep, WriteTableStep, WriteTableFailsStep, WriteWalStep DEF WriteStep
<1>3. CASE ShouldSnapshot \/ ForceFlush \/ ForceWait
  BY <1>3, ShouldSnapshotStep, ForceFlushStep, ForceWaitStep
<1>4. ASSUME NEW f \in Flushers, FlushStep(f) PROVE IInv'
  BY <1>4, SwitchTablesStep, SwitchNothingStep, CommitSnapshotStep, RemoveWalFileStep, EndSnapshotStep DEF FlushStep
<1>5. CASE OpenShard \/ OpenStep
  BY <1>5, OpenShardStep, ReplayRecordStep, ReplayRecordFailsStep, RemoveReplayedStep, ReplayReturnsStep, OpenDoneStep
  DEF OpenStep
<1>6. CASE BeginClose \/ CloseStep \/ NewShard \/ Crash
  BY <1>6, BeginCloseStep, LockCloseStep, CloseWalStep, DropActiveStep, EndCloseStep, NewShardStep, CrashStep
  DEF CloseStep
<1> QED
  BY <1>1, <1>2, <1>3, <1>4, <1>5, <1>6 DEF Next

\* The inductive invariant of the shard: types, the account of the memory
\* tokens, where writes, flushers, Open and Close are, what the log and the
\* snapshot hold, that the log or the files cover every acknowledged write.
THEOREM Invariant == Spec => []IInv
<1>1. IInv /\ [Next]_vars => IInv'
  BY NextIInv
<1> QED
  BY <1>1, InitIInv, PTL DEF Spec

\* The types of the shard's state, with the bounds on the memory tokens.
THEOREM TypeCorrect == Spec => []TypeOK
<1>1. IInv => TypeOK
  BY DEF IInv
<1> QED
  BY <1>1, Invariant, PTL

\* nodeMutableLimit: whatever fails, closes or crashes, no token is lost or
\* freed twice.
THEOREM TokensAlwaysKept == Spec => []TokensKept
<1>1. IInv => TokensKept
  BY DEF IInv
<1> QED
  BY <1>1, Invariant, PTL

\* An acknowledged write is in the immutable files or in a log file on disk,
\* through flushes, Close, failed replays and crashes, for any number of writes
\* and of log partitions.
THEOREM AckedIsDurable == Spec => []Durable
<1>1. IInv => Durable
  BY DEF IInv
<1> QED
  BY <1>1, Invariant, PTL

\* An acknowledged write is found by a query of an opened shard.
THEOREM AckedIsReadable == Spec => []Readable
<1>1. IInv => Readable
  BY DEF IInv
<1> QED
  BY <1>1, Invariant, PTL

=============================================================================
