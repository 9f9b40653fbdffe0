------------------------------ MODULE ShardWal ------------------------------
(***************************************************************************)
(* One shard of the row store (engine/shard.go, ts_storage.go, wal.go,     *)
(* log_writer.go): how a write reaches the memory table and the            *)
(* write-ahead log, how a snapshot of the table is flushed to immutable    *)
(* files and its log files are removed, how Close leaves the rest to the   *)
(* log and how OpenAndEnable replays it, before or after a crash.          *)
(*                                                                         *)
(* Data is abstracted: a write is its identity, all writes update the same *)
(* point (so their order matters), a row costs one token of the memory     *)
(* bucket, and a log file is full after RecsPerFile records.  The immutable *)
(* files are the sequence of the rows flushed so far; a later row hides an *)
(* earlier one of the same point.  A crash ends the process: what the      *)
(* operating system was given (log records, files) stays.                  *)
(***************************************************************************)
EXTENDS Naturals, FiniteSets, SequencesExt

CONSTANTS Writes,       \* the write requests, each made once
          NumParts,     \* partitionNum of the WAL
          RecsPerFile,  \* records a WAL file takes before it is rotated
          MemLimit,     \* NodeMutableSizeLimit, in rows
          MaxNames      \* bound on LogReplay.fileNames when OpenAndEnable is called

ASSUME WalAssumption == /\ IsFiniteSet(Writes)
                        /\ NumParts \in Nat \ {0}
                        /\ RecsPerFile \in Nat \ {0}
                        /\ MemLimit \in Nat
                        /\ MaxNames \in Nat

Parts == 0..(NumParts - 1)
Flushers == {"tick", "force"}

VARIABLES
  pc,        \* where each write request is
  prec,      \* history: the writes that were acknowledged when a write began
  part,      \* history: the WAL partition that took a write's record, NumParts for none
  stale,     \* requests that hold a shard object which has been replaced
  phase,     \* life of the shard object
  ticker,    \* the Snapshot goroutine runs
  active,    \* activeTbl: its rows and its memSize
  snap,      \* snapshotTbl: whether it is set, and its rows
  files,     \* rows in the immutable files, in the order of the flushes
  disk,      \* WAL files on disk, by partition and number: their records
  fileSeq,   \* LogWriter.fileSeq, by partition
  names,     \* LogWriter.fileNames, by partition: files since the last Switch
  writeReq,  \* WAL.writeReq modulo NumParts
  free,      \* free tokens of nodeMutableLimit
  fl,        \* the two callers of writeSnapshot
  rnames,    \* LogReplay.fileNames, by partition
  replay     \* the replay under way

walVars == <<disk, fileSeq, names, writeReq>>
tblVars == <<active, snap, files>>
vars == <<pc, prec, part, stale, phase, ticker, tblVars, walVars, free, fl, rnames, replay>>

\* A list of log files as Switch and Replay return it: partition after partition,
\* in the order in which their goroutines end, the files of each in their order.
Orders == {q \in [1..NumParts -> Parts] : IsInjective(q)}
Listing(order, ns) == [order |-> order, names |-> ns]
NoList == Listing([i \in 1..NumParts |-> i - 1], [p \in Parts |-> <<>>])
NoneLeft(list) == \A p \in Parts : list.names[p] = <<>>
\* The file that comes first is one of partition p.
IsFirst(list, p) ==
  /\ list.names[p] # <<>>
  /\ \E i \in 1..NumParts : /\ list.order[i] = p
                            /\ \A j \in 1..(i - 1) : list.names[list.order[j]] = <<>>

EmptyTbl == [rows |-> <<>>, size |-> 0]
NoSnap == [used |-> FALSE, rows |-> <<>>]
NoFlush == [at |-> "idle", wal |-> NoList, size |-> 0]
NoReplay == [at |-> "idle", todo |-> [p \in Parts |-> <<>>], turn |-> 0, errs |-> FALSE, rm |-> NoList]

Acked == {w \in Writes : pc[w] = "acked"}

(***************************************************************************)
(* s.mu is read-locked by a write between WriteRows and its return, and    *)
(* locked by OpenAndEnable and by Close.                                   *)
(***************************************************************************)
Reading(w) == w \notin stale /\ pc[w] \in {"alloc", "index", "table", "wal"}
MuLocked == phase \in {"opening", "locked", "walClosed", "dropped"}
ActiveNil == phase \in {"dropped", "closed"}
ClosedFor(w) == w \in stale \/ phase \in {"locked", "walClosed", "dropped", "closed"}

(***************************************************************************)
(* Files of a partition: a function from their numbers to their records.   *)
(***************************************************************************)
NoFiles == [n \in {} |-> <<>>]
OnDisk(p, n) == n \in DOMAIN disk[p]
With(fs, n, w) == [m \in DOMAIN fs \cup {n} |->
                     IF m # n THEN fs[m] ELSE IF n \in DOMAIN fs THEN Append(fs[n], w) ELSE <<w>>]
Without(fs, n) == [m \in DOMAIN fs \ {n} |-> fs[m]]
InWal(w) == \E p \in Parts : \E n \in DOMAIN disk[p] : w \in Range(disk[p][n])

\* The elements of S by ascending key.
InOrder(S, key) == {q \in [1..Cardinality(S) -> S] :
                      /\ Range(q) = S
                      /\ \A i, j \in 1..Cardinality(S) : i < j => key[q[i]] < key[q[j]]}
Ascending(S) == InOrder(S, [n \in S |-> n])

\* Rows of one point hide one another: only the last copy of a write counts.
LastPos(s, w) == Max({i \in DOMAIN s : s[i] = w} \cup {0})
LastCopies(s) == InOrder(Range(s), [w \in Range(s) |-> LastPos(s, w)])

Init ==
  /\ pc = [w \in Writes |-> "new"]
  /\ prec = [w \in Writes |-> {}]
  /\ part = [w \in Writes |-> NumParts]
  /\ stale = {}
  /\ phase = "down"
  /\ ticker = FALSE
  /\ active = EmptyTbl
  /\ snap = NoSnap
  /\ files = <<>>
  /\ disk = [p \in Parts |-> NoFiles]
  /\ fileSeq = [p \in Parts |-> 0]
  /\ names = [p \in Parts |-> <<>>]
  /\ writeReq = 0
  /\ free = MemLimit
  /\ fl = [f \in Flushers |-> NoFlush]
  /\ rnames = [p \in Parts |-> <<>>]
  /\ replay = NoReplay

----------------------------------------------------------------------------
(***************************************************************************)
(* Writing.                                                                *)
(***************************************************************************)

\* The engine finds the shard opened and WriteRows finds it not closing.
BeginWrite(w) ==
  /\ pc[w] = "new"
  /\ phase = "open"
  /\ pc' = [pc EXCEPT ![w] = "enter"]
  /\ prec' = [prec EXCEPT ![w] = Acked]
  /\ UNCHANGED <<part, stale, phase, ticker, tblVars, walVars, free, fl, rnames, replay>>

\* s.mu.RLock.
EnterWrite(w) ==
  /\ pc[w] = "enter"
  /\ w \in stale \/ ~MuLocked
  /\ pc' = [pc EXCEPT ![w] = "alloc"]
  /\ UNCHANGED <<prec, part, stale, phase, ticker, tblVars, walVars, free, fl, rnames, replay>>

AllocResource(w) ==
  /\ pc[w] = "alloc"
  /\ free >= 1
  /\ free' = free - 1
  /\ pc' = [pc EXCEPT ![w] = "index"]
  /\ UNCHANGED <<prec, part, stale, phase, ticker, tblVars, walVars, fl, rnames, replay>>

\* The timer of the request ends its wait for tokens.
AllocTimeout(w) ==
  /\ pc[w] = "alloc"
  /\ free < 1
  /\ pc' = [pc EXCEPT ![w] = "failed"]
  /\ UNCHANGED <<prec, part, stale, phase, ticker, tblVars, walVars, free, fl, rnames, replay>>

WriteIndex(w) ==
  /\ pc[w] = "index"
  /\ ~ClosedFor(w)
  /\ pc' = [pc EXCEPT ![w] = "table"]
  /\ UNCHANGED <<prec, part, stale, phase, ticker, tblVars, walVars, free, fl, rnames, replay>>

\* Mutant of WriteIndexFails: the tokens are not given back.
WriteIndexFailsKept(w) ==
  /\ pc[w] = "index"
  /\ pc' = [pc EXCEPT ![w] = "failed"]
  /\ UNCHANGED <<prec, part, stale, phase, ticker, tblVars, walVars, free, fl, rnames, replay>>

\* ErrShardClosed or an error of the index: the tokens go back.
WriteIndexFails(w) ==
  /\ pc[w] = "index"
  /\ free' = free + 1
  /\ pc' = [pc EXCEPT ![w] = "failed"]
  /\ UNCHANGED <<prec, part, stale, phase, ticker, tblVars, walVars, fl, rnames, replay>>

\* writeRows takes snapshotLock.RLock and writes the memory table; the lock
\* is held until the log is written.
WriteTable(w) ==
  /\ pc[w] = "table"
  /\ active' = [rows |-> Append(active.rows, w), size |-> active.size + 1]
  /\ pc' = [pc EXCEPT ![w] = "wal"]
  /\ UNCHANGED <<prec, part, stale, phase, ticker, snap, files, walVars, free, fl, rnames, replay>>

\* The memory table refuses the rows; their size is still added to it.
WriteTableFails(w) ==
  /\ pc[w] = "table"
  /\ active' = [active EXCEPT !.size = @ + 1]
  /\ pc' = [pc EXCEPT ![w] = "failed"]
  /\ UNCHANGED <<prec, part, stale, phase, ticker, snap, files, walVars, free, fl, rnames, replay>>

\* LogWriter.Write: a new file when none is open or the current one is full.
NeedNewFile(p) == \/ names[p] = <<>>
                  \/ Len(disk[p][Last(names[p])]) >= RecsPerFile

\* Mutant of NextWriter: the partition is not taken modulo their number.
NextWriterUnwrapped(n) == n + 1
NextWriter(n) == (n + 1) % NumParts

\* The log takes the record and the request is answered: with success, or
\* with the SeriesLimited error that WriteIndex met and writeRows ignored.
WriteWal(w) ==
  LET p == writeReq
      n == fileSeq[p] + 1
  IN
  /\ pc[w] = "wal"
  /\ writeReq' = NextWriter(writeReq)
  /\ part' = [part EXCEPT ![w] = p]
  /\ IF NeedNewFile(p)
     THEN /\ fileSeq' = [fileSeq EXCEPT ![p] = n]
          /\ names' = [names EXCEPT ![p] = Append(@, n)]
          /\ disk' = [disk EXCEPT ![p] = With(@, n, w)]
     ELSE /\ disk' = [disk EXCEPT ![p] = With(@, Last(names[p]), w)]
          /\ UNCHANGED <<fileSeq, names>>
  /\ \E answer \in {"acked", "failed"} : pc' = [pc EXCEPT ![w] = answer]
  /\ UNCHANGED <<prec, stale, phase, ticker, tblVars, free, fl, rnames, replay>>

----------------------------------------------------------------------------
(***************************************************************************)
(* Snapshots: the Snapshot goroutine ("tick") and ForceFlush ("force").    *)
(***************************************************************************)

ForceFlushing == fl["force"].at # "idle"
\* snapshotWg counts the callers between prepareSnapshot and endSnapshot.
Prepared(f) == fl[f].at \in {"ready", "commit", "remove"}

\* Mutant of WorthFlushing: only a full table is flushed, never a cold one.
WorthFlushingFull == active.size >= MemLimit
WorthFlushing == active.size > 0

\* shouldSnapshot finds the table large or cold enough and prepares.
ShouldSnapshot ==
  /\ ticker
  /\ fl["tick"].at = "idle"
  /\ ~ActiveNil
  /\ ~snap.used
  /\ ~ForceFlushing
  /\ WorthFlushing
  /\ fl' = [fl EXCEPT !["tick"].at = "ready"]
  /\ UNCHANGED <<pc, prec, part, stale, phase, ticker, tblVars, walVars, free, rnames, replay>>

\* ForceFlush, called by the engine or by the replay of the log.
ForceFlush ==
  /\ ~ForceFlushing
  /\ \/ replay.at = "flush" /\ replay' = [replay EXCEPT !.at = "flushing"]
     \/ replay.at # "flush" /\ phase # "closed" /\ UNCHANGED replay
  /\ fl' = [fl EXCEPT !["force"].at = "wait"]
  /\ UNCHANGED <<pc, prec, part, stale, phase, ticker, tblVars, walVars, free, rnames>>

\* waitSnapshot, then prepareSnapshot.
ForceWait ==
  /\ fl["force"].at = "wait"
  /\ ~Prepared("tick")
  /\ fl' = [fl EXCEPT !["force"].at = "ready"]
  /\ UNCHANGED <<pc, prec, part, stale, phase, ticker, tblVars, walVars, free, rnames, replay>>

\* A ForceFlush that returns may be the one of the replay.
AfterFlush(f) == IF f = "force" /\ replay.at = "flushing"
                 THEN [replay EXCEPT !.at = "remove"] ELSE replay

\* Mutant of Snapshotted: no table shows the rows until the files are written.
SnapshottedLate == [used |-> TRUE, rows |-> <<>>]
Snapshotted == [used |-> TRUE, rows |-> active.rows]

\* The first half of writeSnapshot, under snapshotLock: the log is switched
\* (its partitions report their files in any order) and the table is moved.
SwitchTables(f) ==
  /\ fl[f].at = "ready"
  /\ \A w \in Writes : pc[w] # "wal"
  /\ ~ActiveNil
  /\ \E order \in Orders :
       fl' = [fl EXCEPT ![f] = [at |-> "commit", wal |-> Listing(order, names), size |-> active.size]]
  /\ names' = [p \in Parts |-> <<>>]
  /\ snap' = Snapshotted
  /\ active' = EmptyTbl
  /\ UNCHANGED <<pc, prec, part, stale, phase, ticker, files, disk, fileSeq, writeReq, free, rnames, replay>>

\* writeSnapshot finds activeTbl nil.
SwitchNothing(f) ==
  /\ fl[f].at = "ready"
  /\ ActiveNil
  /\ fl' = [fl EXCEPT ![f] = NoFlush]
  /\ replay' = AfterFlush(f)
  /\ UNCHANGED <<pc, prec, part, stale, phase, ticker, tblVars, walVars, free, rnames>>

\* commitSnapshot writes snapshotTbl to files, then its tokens are freed.
CommitSnapshot(f) ==
  /\ fl[f].at = "commit"
  /\ files' \in LastCopies(files \o snap.rows)
  /\ free' = free + fl[f].size
  /\ fl' = [fl EXCEPT ![f].at = "remove"]
  /\ UNCHANGED <<pc, prec, part, stale, phase, ticker, active, snap, walVars, rnames, replay>>

\* wal.Remove removes the switched files one by one.
RemoveWalFile(f, p) ==
  /\ fl[f].at = "remove"
  /\ IsFirst(fl[f].wal, p)
  /\ disk' = [disk EXCEPT ![p] = Without(@, Head(fl[f].wal.names[p]))]
  /\ fl' = [fl EXCEPT ![f].wal.names[p] = Tail(@)]
  /\ UNCHANGED <<pc, prec, part, stale, phase, ticker, tblVars, fileSeq, names, writeReq, free, rnames, replay>>

\* Mutant of EndSnapshot: endSnapshot is forgotten.
EndSnapshotNever(f) ==
  /\ fl[f].at = "remove"
  /\ NoneLeft(fl[f].wal)
  /\ snap' = NoSnap
  /\ UNCHANGED <<pc, prec, part, stale, phase, ticker, active, files, walVars, free, fl, rnames, replay>>

\* snapshotTbl = nil, endSnapshot, disableForceFlush.
EndSnapshot(f) ==
  /\ fl[f].at = "remove"
  /\ NoneLeft(fl[f].wal)
  /\ snap' = NoSnap
  /\ fl' = [fl EXCEPT ![f] = NoFlush]
  /\ replay' = AfterFlush(f)
  /\ UNCHANGED <<pc, prec, part, stale, phase, ticker, active, files, walVars, free, rnames>>

----------------------------------------------------------------------------
(***************************************************************************)
(* OpenAndEnable with synchronous replay (wal-replay-async = false).       *)
(***************************************************************************)

\* Mutant of RestoredNames: the files are taken in the wrong order.
RestoredNamesReversed(ns) == [p \in Parts |-> rnames[p] \o Reverse(ns[p])]

\* restoreLogs appends the files of the directory, ns, to what earlier calls on
\* this object left; a name whose file is gone fails the partition.
RestoredNames(ns) == [p \in Parts |-> rnames[p] \o ns[p]]
Gone(ns) == {p \in Parts : \E n \in Range(RestoredNames(ns)[p]) : ~OnDisk(p, n)}
RecordsOf(p, ns) == [i \in DOMAIN ns |-> disk[p][ns[i]]]
RestoreLogs(ns) ==
  /\ rnames' = RestoredNames(ns)
  /\ fileSeq' = [p \in Parts |-> IF ns[p] = <<>> THEN fileSeq[p] ELSE Last(ns[p])]
  /\ replay' = [NoReplay EXCEPT
       !.at = "read",
       !.errs = Gone(ns) # {},
       !.todo = [p \in Parts |-> IF p \in Gone(ns) THEN <<>> ELSE RecordsOf(p, RestoredNames(ns)[p])]]

OpenShard ==
  /\ phase \in {"down", "failed"}
  /\ \A p \in Parts : Len(rnames[p]) <= MaxNames
  /\ phase' = "opening"
  /\ \E ns \in [Parts -> UNION {Ascending(DOMAIN disk[p]) : p \in Parts}] :
       /\ \A p \in Parts : ns[p] \in Ascending(DOMAIN disk[p])
       /\ RestoreLogs(ns)
  /\ UNCHANGED <<pc, prec, part, stale, ticker, tblVars, disk, names, writeReq, free, fl>>

\* consumeRecordSerial takes one record of each partition in turn and skips
\* the partitions that are done.
Turn(p) == (p + NumParts - replay.turn) % NumParts
IsNext(p) ==
  /\ replay.at = "read"
  /\ replay.todo[p] # <<>>
  /\ \A q \in Parts : replay.todo[q] # <<>> => Turn(p) <= Turn(q)
NextRecord(p) == Head(Head(replay.todo[p]))
Consumed(p) ==
  LET t == replay.todo[p] IN
  [replay EXCEPT !.todo[p] = IF Len(Head(t)) = 1 THEN Tail(t) ELSE <<Tail(Head(t))>> \o Tail(t),
                 !.turn = (p + 1) % NumParts]

\* writeWalForLineProtocol: the record goes the way of a write, without the
\* log.
ReplayRecord(p) ==
  /\ IsNext(p)
  /\ free >= 1
  /\ free' = free - 1
  /\ active' = [rows |-> Append(active.rows, NextRecord(p)), size |-> active.size + 1]
  /\ replay' = Consumed(p)
  /\ UNCHANGED <<pc, prec, part, stale, phase, ticker, snap, files, walVars, fl, rnames>>

\* No tokens in time, an error of the index (whose tokens go back), or a memory
\* table that refuses the row (whose size is still added to it): the error is kept
\* and the next record is taken.
ReplayRecordFails(p) ==
  /\ IsNext(p)
  /\ replay' = [Consumed(p) EXCEPT !.errs = TRUE]
  /\ \/ UNCHANGED <<active, free>>
     \/ /\ free >= 1
        /\ free' = free - 1
        /\ active' = [active EXCEPT !.size = @ + 1]
  /\ UNCHANGED <<pc, prec, part, stale, phase, ticker, snap, files, walVars, fl, rnames>>

\* Mutant of ReplayFailed: an error of a record is logged and forgotten.
ReplayFailedNever == FALSE
ReplayFailed == replay.errs

\* Replay returns: without an error the table is flushed and then the files
\* are removed, else OpenAndEnable fails and leaves everything as it is.
ReplayReturns ==
  /\ replay.at = "read"
  /\ \A p \in Parts : replay.todo[p] = <<>>
  /\ IF ReplayFailed
     THEN /\ replay' = NoReplay
          /\ phase' = "failed"
     ELSE /\ \E order \in Orders :
               replay' = [replay EXCEPT !.at = "flush", !.rm = Listing(order, rnames)]
          /\ UNCHANGED phase
  /\ UNCHANGED <<pc, prec, part, stale, ticker, tblVars, walVars, free, fl, rnames>>

\* wal.Remove of the replayed files; the second removal of a file fails.
RemoveReplayed(p) ==
  LET n == Head(replay.rm.names[p]) IN
  /\ replay.at = "remove"
  /\ IsFirst(replay.rm, p)
  /\ IF OnDisk(p, n)
     THEN /\ disk' = [disk EXCEPT ![p] = Without(@, n)]
          /\ replay' = [replay EXCEPT !.rm.names[p] = Tail(@)]
          /\ UNCHANGED phase
     ELSE /\ replay' = NoReplay
          /\ phase' = "failed"
          /\ UNCHANGED disk
  /\ UNCHANGED <<pc, prec, part, stale, ticker, tblVars, fileSeq, names, writeReq, free, fl, rnames>>

\* The Snapshot goroutine starts and the shard is opened.
OpenDone ==
  /\ replay.at = "remove"
  /\ NoneLeft(replay.rm)
  /\ replay' = NoReplay
  /\ phase' = "open"
  /\ ticker' = TRUE
  /\ UNCHANGED <<pc, prec, part, stale, tblVars, walVars, free, fl, rnames>>

----------------------------------------------------------------------------
(***************************************************************************)
(* Close, and what comes after it.                                         *)
(***************************************************************************)

\* cacheClosed: from here WriteRows answers ErrShardClosed.
BeginClose ==
  /\ phase \in {"open", "failed"}
  /\ phase' = "closing"
  /\ UNCHANGED <<pc, prec, part, stale, ticker, tblVars, walVars, free, fl, rnames, replay>>

\* s.mu.Lock and closed.Close.
LockClose ==
  /\ phase = "closing"
  /\ ~\E w \in Writes : Reading(w)
  /\ phase' = "locked"
  /\ UNCHANGED <<pc, prec, part, stale, ticker, tblVars, walVars, free, fl, rnames, replay>>

\* wal.Close forgets the file names; the files stay.
CloseWal ==
  /\ phase = "locked"
  /\ phase' = "walClosed"
  /\ names' = [p \in Parts |-> <<>>]
  /\ UNCHANGED <<pc, prec, part, stale, ticker, tblVars, disk, fileSeq, writeReq, free, fl, rnames, replay>>

\* activeTbl = nil, its tokens are freed.
DropActive ==
  /\ phase = "walClosed"
  /\ phase' = "dropped"
  /\ free' = free + active.size
  /\ active' = EmptyTbl
  /\ UNCHANGED <<pc, prec, part, stale, ticker, snap, files, walVars, fl, rnames, replay>>

\* waitSnapshot, immTables.Close and the end of the Snapshot goroutine.  An error
\* of skIdx, wal or immTables ends Close in the phase "closing", "locked" or
\* "dropped", with s.mu unlocked and cacheClosed set for good: what follows is what
\* the model allows in that phase when no step of Close is taken, and that a waiting
\* request gets in to be told ErrShardClosed.
EndClose ==
  /\ phase = "dropped"
  /\ \A f \in Flushers : ~Prepared(f)
  /\ phase' = "closed"
  /\ ticker' = FALSE
  /\ UNCHANGED <<pc, prec, part, stale, tblVars, walVars, free, fl, rnames, replay>>

\* NewShard: a new object takes the place of the closed one.
NewShard ==
  /\ phase = "closed"
  /\ \A f \in Flushers : fl[f].at = "idle"
  /\ phase' = "down"
  /\ stale' = stale \cup {w \in Writes : pc[w] \in {"enter", "alloc", "index"}}
  /\ fileSeq' = [p \in Parts |-> 0]
  /\ rnames' = [p \in Parts |-> <<>>]
  /\ writeReq' = 0
  /\ UNCHANGED <<pc, prec, part, ticker, tblVars, disk, names, free, fl, replay>>

\* The process ends at any point and is started again.
Crash ==
  /\ phase # "down"
  /\ pc' = [w \in Writes |-> IF pc[w] \in {"new", "acked", "failed"} THEN pc[w] ELSE "failed"]
  /\ stale' = {}
  /\ phase' = "down"
  /\ ticker' = FALSE
  /\ active' = EmptyTbl
  /\ snap' = NoSnap
  /\ fileSeq' = [p \in Parts |-> 0]
  /\ names' = [p \in Parts |-> <<>>]
  /\ writeReq' = 0
  /\ free' = MemLimit
  /\ fl' = [f \in Flushers |-> NoFlush]
  /\ rnames' = [p \in Parts |-> <<>>]
  /\ replay' = NoReplay
  /\ UNCHANGED <<prec, part, files, disk>>

----------------------------------------------------------------------------
WriteStep(w) == \/ EnterWrite(w) \/ AllocResource(w) \/ AllocTimeout(w)
                \/ WriteIndex(w) \/ WriteIndexFails(w)
                \/ WriteTable(w) \/ WriteTableFails(w) \/ WriteWal(w)
FlushStep(f) == \/ SwitchTables(f) \/ SwitchNothing(f) \/ CommitSnapshot(f)
                \/ (\E p \in Parts : RemoveWalFile(f, p)) \/ EndSnapshot(f)
OpenStep == \/ \E p \in Parts : ReplayRecord(p) \/ ReplayRecordFails(p) \/ RemoveReplayed(p)
            \/ ReplayReturns \/ OpenDone
CloseStep == LockClose \/ CloseWal \/ DropActive \/ EndClose

Next == \/ \E w \in Writes : BeginWrite(w) \/ WriteStep(w)
        \/ ShouldSnapshot \/ ForceFlush \/ ForceWait
        \/ \E f \in Flushers : FlushStep(f)
        \/ OpenShard \/ OpenStep
        \/ BeginClose \/ CloseStep \/ NewShard
        \/ Crash

Spec == Init /\ [][Next]_vars

\* The goroutines of the shard run on, a waiting write has a timer, and the
\* callers of OpenAndEnable and Close run them to their end.  Fairness is strong
\* where the code waits for s.mu (a released RWMutex lets the waiting side in) or
\* for snapshotWg (which releases its waiters when its count reaches zero, though
\* the next caller may add to it at once).  Nothing forces a write, a close, a
\* forced flush, an open or a crash to begin.
Fairness ==
  /\ \A w \in Writes : WF_vars(WriteStep(w)) /\ SF_vars(EnterWrite(w))
  /\ WF_vars(ShouldSnapshot)
  /\ WF_vars(ForceWait)
  /\ \A f \in Flushers : WF_vars(FlushStep(f))
  /\ WF_vars(ForceFlush /\ replay.at = "flush")
  /\ WF_vars(OpenStep)
  /\ SF_vars(CloseStep)

FairSpec == Spec /\ Fairness

----------------------------------------------------------------------------
TypeOK ==
  /\ pc \in [Writes -> {"new", "enter", "alloc", "index", "table", "wal", "acked", "failed"}]
  /\ prec \in [Writes -> SUBSET Writes]
  /\ part \in [Writes -> 0..NumParts]
  /\ stale \subseteq Writes
  /\ phase \in {"down", "opening", "failed", "open", "closing", "locked", "walClosed", "dropped", "closed"}
  /\ ticker \in BOOLEAN
  /\ active \in [rows : Seq(Writes), size : Nat]
  /\ snap \in [used : BOOLEAN, rows : Seq(Writes)]
  /\ files \in Seq(Writes)
  /\ DOMAIN disk = Parts
  /\ \A p \in Parts : /\ DOMAIN disk[p] \subseteq Nat /\ IsFiniteSet(DOMAIN disk[p])
                      /\ disk[p] \in [DOMAIN disk[p] -> Seq(Writes) \ {<<>>}]
  /\ fileSeq \in [Parts -> Nat]
  /\ names \in [Parts -> Seq(Nat)]
  /\ writeReq \in Parts
  /\ free \in 0..MemLimit
  /\ fl \in [Flushers -> [at : {"idle", "wait", "ready", "commit", "remove"},
                         wal : [order : Orders, names : [Parts -> Seq(Nat)]],
                         size : 0..MemLimit]]
  /\ rnames \in [Parts -> Seq(Nat)]
  /\ replay \in [at : {"idle", "read", "flush", "flushing", "remove"},
                 todo : [Parts -> Seq(Seq(Writes) \ {<<>>})], turn : Parts, errs : BOOLEAN,
                 rm : [order : Orders, names : [Parts -> Seq(Nat)]]]

\* Whatever happens next, a crash included, an acknowledged write can be
\* recovered: it is in the immutable files or in a WAL file on disk.  (wal.Remove
\* only after commitSnapshot, Close leaves the WAL, a failed replay keeps it.)
Durable == \A w \in Acked : w \in Range(files) \/ InWal(w)

\* In an opened shard every acknowledged write can be read: it is in the files or
\* in a table a query looks at (a write is in no gap between activeTbl,
\* snapshotTbl and the files, and a replay that returned without error has
\* brought back all of them).
Readable == phase = "open" =>
  \A w \in Acked : w \in Range(files) \cup Range(snap.rows) \cup Range(active.rows)

\* What a query of the shard sees of v is hidden by w.
Hidden(v, w) ==
  LET seen == files \o snap.rows \o active.rows IN LastPos(seen, v) < LastPos(seen, w)

\* A write that began after another was acknowledged hides it, also when both
\* come back from the log: replay and partial removal of log files keep the order.
LastWriteWins == phase = "open" => \A w \in Acked : \A v \in prec[w] : Hidden(v, w)

\* What the code keeps of that order for every number of WAL partitions: a write
\* hides those acknowledged before it began whose record went to the partition
\* that took its own, whatever the other partitions replay or lose in between.
PartitionOrder == phase = "open" =>
  \A w \in Acked : \A v \in prec[w] : part[v] = part[w] => Hidden(v, w)

\* Tokens of nodeMutableLimit are neither lost nor freed twice: those not free are
\* held by a request, by the active table or by a table being flushed.
TokensKept ==
  free + active.size
       + (IF fl["tick"].at = "commit" THEN fl["tick"].size ELSE 0)
       + (IF fl["force"].at = "commit" THEN fl["force"].size ELSE 0)
       + Cardinality({w \in Writes : pc[w] \in {"index", "table"}}) = MemLimit

\* Requests that wait for an answer, and the calls that hold or wait for s.mu.
Unanswered == {w \in Writes : pc[w] \in {"enter", "alloc", "index", "table", "wal"}}
InCall == phase \in {"opening", "closing", "locked", "walClosed", "dropped"}

\* Write requests are answered (each is made once: none stays unanswered), and Close
\* and OpenAndEnable return (unless the process ends), though they wait for one
\* another's locks, tokens and flushes.
CallsReturn == /\ (Unanswered # {}) ~> (Unanswered = {})
               /\ InCall ~> ~InCall

\* While the shard stays open, all that was acknowledged gets flushed to files.
AckedIsFlushed == <>[](phase = "open") => []<>(Acked \subseteq Range(files))
=============================================================================
