------------------------------ MODULE RaftNode ------------------------------
(***************************************************************************)
(* One replica of a replicated partition: what lib/raftconn/node.go does   *)
(* with the raft library's Ready, its storage (lib/raftlog), the goroutine *)
(* that applies committed entries (engine/partition_raft.go), the one that *)
(* writes the replayed rows meanwhile, the flush of a shard that moves the *)
(* snapshot index, the clearing of entries, and the restart.               *)
(*                                                                         *)
(* The raft library is external: it appends entries above the commit index *)
(* behind one that is stored, may rewrite uncommitted ones under another   *)
(* term, and hands out the committed entries in order; what it does once a *)
(* file it still needs was cleared is left open.  The node starts          *)
(* after its bootstrap: entry 1 is the configuration change, committed and *)
(* its ConfState saved.  A crash ends the process, or is an offload of the *)
(* partition: what was written to files stays.                             *)
(***************************************************************************)
EXTENDS RaftLog

CONSTANTS Large,      \* indexes of entries whose data does not fit behind other data
          Shards,     \* shards of the partition, which flush independently
          MaxIndex,   \* bound on the entries of the group
          MaxTerm,    \* bound on the terms
          MaxBatch,   \* bound on the entries of one Ready
          MaxExtra,   \* bound on the files one conflict deletes
          MaxClears   \* bound on the ClearEntryLogs in the log and proposed

ASSUME BoundsAssumption == /\ MaxIndex \in Nat \ {0}
                           /\ {MaxTerm, MaxBatch, MaxExtra, MaxClears} \subseteq Nat

VARIABLES
  log,       \* RaftDiskStorage.entryLog
  commit,    \* HardState.Commit
  meta,      \* the meta file: the word SnapshotIndex and the marshalled snapshot's index
  phase,     \* of the node
  rapplied,  \* the raft library's applied index
  appliedIndex, \* RaftNode.appliedIndex
  sv,        \* serveChannels, and the committed entries of its Ready
  ap,        \* readCommitFromRaft, the entries it has to apply, CommittedIndex
  replay,    \* is the partition listed in DBPartitions, and the rows waiting in ReplayC
  cindex,    \* SnapShotter.CommittedIndex
  flag,      \* SnapShotter.RaftFlag
  fl,        \* writeSnapshot of every shard
  sg,        \* snapshotAfterFlush, and the index it stores
  proposal,  \* the ClearEntryLog on its way to the raft library, or NoData
  chosen,    \* history: the entries as they were committed
  given,     \* history: indexes taken from the log for the shards since the start
  cleared    \* history: highest index a ClearEntryLog was applied with

storage == <<log, commit, meta>>
serving == <<rapplied, appliedIndex, sv, ap, replay, given>>
snapping == <<cindex, flag, fl, sg>>
vars == <<storage, phase, serving, snapping, proposal, chosen, cleared>>

Idle == [at |-> "idle", ents |-> <<>>]
NotApplying == [at |-> "idle", todo |-> <<>>, ci |-> 0]
NotReplaying == [listed |-> FALSE, todo |-> <<>>]
NotSnapping == [at |-> "idle", index |-> 0]

\* math.MaxUint64: an index above all entries.
MaxUint64 == MaxIndex + 1
\* A ClearEntryLog that names no entry was applied.
Overcleared == cleared > MaxIndex

Init ==
  /\ log = [files |-> <<>>, current |-> <<[term |-> 1, index |-> 1, data |-> NoData]>>, next |-> 1]
  /\ commit = 1
  /\ meta = [index |-> 0, snap |-> 0]
  /\ phase = "down"
  /\ rapplied = 0
  /\ appliedIndex = 0
  /\ sv = Idle
  /\ ap = NotApplying
  /\ replay = NotReplaying
  /\ cindex = 0
  /\ flag = 1
  /\ fl = [s \in Shards |-> "unset"]
  /\ sg = NotSnapping
  /\ proposal = NoData
  /\ chosen = log.current
  /\ given = <<>>
  /\ cleared = 0

----------------------------------------------------------------------------
(***************************************************************************)
(* raftlog.Init and InitAndStartNode.                                      *)
(***************************************************************************)
OpenedLog == OpenEntryLogs(log)
FirstIndexWithSnap == IF meta.index > 0 THEN meta.index + 1 ELSE FirstIndex(OpenedLog)
InitRefuses == meta.snap > 0 /\ meta.snap + 1 # FirstIndexWithSnap
\* Mutant of InitedLog: the file of the snapshot index itself may go.
InitedLogBeyond == DeleteBefore(OpenedLog, FirstIndexWithSnap)
InitedLog == DeleteBefore(OpenedLog, FirstIndexWithSnap - 1)
ReplayFrom == IF meta.snap = 0 THEN 1 ELSE meta.snap
ReplayedEntries == Entries(InitedLog, ReplayFrom, commit + 1)

RowsOf(ents) == Filter(ents, {e \in ToSet(ents) : e.data.kind = "rows"})

\* The node is started: the entries from the snapshot to the commit index count
\* as applied; their rows wait in ReplayC.
Start ==
  /\ phase = "down"
  /\ ~InitRefuses
  /\ ReplayedEntries.err = "nil"
  /\ phase' = "up"
  /\ log' = InitedLog
  /\ appliedIndex' = commit
  /\ cindex' = meta.snap
  /\ replay' = [listed |-> FALSE, todo |-> RowsOf(ReplayedEntries.ents)]
  /\ given' = [k \in DOMAIN ReplayedEntries.ents |-> ReplayedEntries.ents[k].index]
  /\ rapplied' = FirstIndex(InitedLog) - 1
  /\ UNCHANGED <<commit, meta, sv, ap, flag, fl, sg, proposal, chosen, cleared>>

\* Init finds snapshot and SnapshotIndex different and returns an error.
StartRefused ==
  /\ phase = "down"
  /\ InitRefuses
  /\ phase' = "refused"
  /\ UNCHANGED <<storage, serving, snapping, proposal, chosen, cleared>>

\* The entries cannot be read: "replay wal error".
StartPanics ==
  /\ phase = "down"
  /\ ~InitRefuses
  /\ ReplayedEntries.err # "nil"
  /\ phase' = "panicked"
  /\ log' = InitedLog
  /\ UNCHANGED <<commit, meta, serving, snapping, proposal, chosen, cleared>>

\* Assign lists the partition: only now raft messages reach its node.
AddDBPTInfo ==
  /\ phase = "up"
  /\ ~replay.listed
  /\ replay' = [replay EXCEPT !.listed = TRUE]
  /\ UNCHANGED <<storage, phase, rapplied, appliedIndex, sv, ap, given, snapping, proposal, chosen, cleared>>

\* readReplayForReplication writes a row of ReplayC, while readCommitFromRaft may
\* already be writing what is committed after the start.
ReadReplay ==
  /\ replay.listed
  /\ replay.todo # <<>>
  /\ \E s \in Shards : fl[s] # "locked"
  /\ replay' = [replay EXCEPT !.todo = Tail(@)]
  /\ UNCHANGED <<storage, phase, rapplied, appliedIndex, sv, ap, given, snapping, proposal, chosen, cleared>>

\* What the process kept in memory is gone.
Volatile ==
  /\ phase' = "down"
  /\ rapplied' = 0 /\ appliedIndex' = 0 /\ given' = <<>>
  /\ sv' = Idle /\ ap' = NotApplying /\ replay' = NotReplaying
  /\ cindex' = 0 /\ flag' = 1 /\ fl' = [s \in Shards |-> "unset"] /\ sg' = NotSnapping
  /\ proposal' = NoData

Crash ==
  /\ phase # "down"
  /\ Volatile
  /\ UNCHANGED <<storage, chosen, cleared>>

----------------------------------------------------------------------------
(***************************************************************************)
(* serveChannels.                                                          *)
(***************************************************************************)
TermOf(i) == SeekEntry(log, i).term
Stored(i) == SeekEntry(log, i).err = "nil"

\* Entries the raft library may have appended: behind a stored entry, after the
\* commit index, of a term not below its predecessor's, different from what is
\* stored; rows, this node's proposal, or another node's ClearEntryLog.
Batch(i, n, t, d) == [x \in 1..n |-> [term |-> t, index |-> i + x - 1, data |-> d]]
Clears == Len(Filter(Contents(log), {e \in ToSet(Contents(log)) : e.data.kind = "clear"}))
          + (IF proposal = NoData THEN 0 ELSE 1)
Datas(i) == {Rows}
            \cup (IF Clears < MaxClears THEN {ClearEntryLog(k, 0) : k \in 2..(i - 1) \cup {MaxUint64}}
                ELSE {})
            \cup (IF proposal = NoData THEN {} ELSE {proposal})
Appended ==
  UNION {UNION {{Batch(i, 1, t, d) : d \in Datas(i)}
                \cup {Batch(i, n, t, Rows) : n \in 1..Min({MaxBatch, MaxIndex - i + 1})}
                : t \in {u \in TermOf(i - 1)..MaxTerm : ~Stored(i) \/ u # TermOf(i)}}
         : i \in {j \in (commit + 1)..Min({LastIndex(log) + 1, MaxIndex}) :
                    Stored(j - 1) /\ ExtraFiles(log, j) <= MaxExtra}}

\* Ready: SaveToStorage, then the committed entries are on their way.
Ready(ents, c) ==
  LET saved == AddEntries(log, ents, Large)
  IN
  /\ c \in commit..LastIndex(saved)
  /\ log' = saved
  /\ commit' = c
  /\ chosen' = chosen \o AllEntries(saved, commit + 1, c + 1)
  /\ \E upto \in {c, Min({c, rapplied + 1})} :
       /\ ents # <<>> \/ c > commit \/ upto > rapplied
       /\ rapplied' = upto
       /\ sv' = [at |-> "publish", ents |-> AllEntries(saved, rapplied + 1, upto + 1)]
  /\ proposal' = IF proposal # NoData /\ \E k \in DOMAIN ents : ents[k].data = proposal
                 THEN NoData ELSE proposal
  /\ UNCHANGED <<meta, phase, appliedIndex, ap, replay, given, snapping, cleared>>

\* The process ends while the entries are being saved: some extra files are
\* deleted, or the conflict is discarded and some entries are written.
CrashInSave(ents) ==
  /\ ents # <<>>
  /\ log' \in {DeletedExtra(log, ents[1].index, k) : k \in 1..ExtraFiles(log, ents[1].index)}
              \cup {WriteEntries(DiscardFrom(log, ents[1].index), SubSeq(ents, 1, k), Large)
                    : k \in 0..(Len(ents) - 1)}
  /\ Volatile
  /\ UNCHANGED <<commit, meta, chosen, cleared>>

\* Mutant of EntriesToApply: what was applied before is not cut off.
EntriesToApplyAll(ents) ==
  IF ents = <<>> \/ ents[1].index > appliedIndex + 1 THEN <<>> ELSE ents

\* entriesToApply: what was applied before is cut off; ahead of the applied
\* index the unsigned difference is huge and nothing is left.
EntriesToApply(ents) ==
  IF ents = <<>> \/ ents[1].index > appliedIndex + 1 THEN <<>>
  ELSE SubSeq(ents, appliedIndex - ents[1].index + 2, Len(ents))
WithData(ents) == Filter(ents, {e \in ToSet(ents) : e.data # NoData})

\* Mutant of PublishEntries: the commit carries HardState.Commit as its index.
PublishEntriesCommit ==
  LET ents == EntriesToApply(sv.ents) IN
  /\ sv.at = "publish"
  /\ IF WithData(ents) = <<>>
     THEN sv' = Idle /\ UNCHANGED ap
     ELSE /\ ap.at = "idle"
          /\ ap' = [at |-> "apply", todo |-> WithData(ents), ci |-> commit]
          /\ sv' = [at |-> "wait", ents |-> <<>>]
  /\ appliedIndex' = IF ents = <<>> THEN appliedIndex ELSE Last(ents).index
  /\ given' = given \o [k \in DOMAIN ents |-> ents[k].index]
  /\ UNCHANGED <<storage, phase, rapplied, replay, snapping, proposal, chosen, cleared>>

\* PublishEntries: the data goes to readCommitFromRaft, which takes it when it
\* is done with the commit before; without data only appliedIndex moves.
PublishEntries ==
  LET ents == EntriesToApply(sv.ents) IN
  /\ sv.at = "publish"
  /\ IF WithData(ents) = <<>>
     THEN sv' = Idle /\ UNCHANGED ap
     ELSE /\ ap.at = "idle"
          /\ ap' = [at |-> "apply", todo |-> WithData(ents), ci |-> Last(ents).index]
          /\ sv' = [at |-> "wait", ents |-> <<>>]
  /\ appliedIndex' = IF ents = <<>> THEN appliedIndex ELSE Last(ents).index
  /\ given' = given \o [k \in DOMAIN ents |-> ents[k].index]
  /\ UNCHANGED <<storage, phase, rapplied, replay, snapping, proposal, chosen, cleared>>

\* waitWriteOK, then Advance.
WaitWriteOK ==
  /\ sv.at = "wait"
  /\ ap.at # "apply"
  /\ sv' = Idle
  /\ UNCHANGED <<storage, phase, rapplied, appliedIndex, ap, replay, given, snapping, proposal, chosen, cleared>>

----------------------------------------------------------------------------
(***************************************************************************)
(* readCommitFromRaft.                                                     *)
(***************************************************************************)

\* dealCommitData: rows go to the shard, which is told the SnapShotter and waits
\* for a flush that holds its snapshotLock; a ClearEntryLog deletes files.
DealCommitData ==
  LET d == Head(ap.todo).data IN
  /\ ap.at = "apply"
  /\ ap.todo # <<>>
  /\ ap' = [ap EXCEPT !.todo = Tail(@)]
  /\ IF d.kind = "clear"
     THEN /\ log' = DeleteBefore(log, d.index)
          /\ cleared' = IF Overcleared THEN cleared ELSE Max({cleared, d.index})
          /\ UNCHANGED fl
     ELSE /\ \E s \in Shards : fl[s] # "locked" /\ fl' = [fl EXCEPT ![s] = "idle"]
          /\ UNCHANGED <<log, cleared>>
  /\ UNCHANGED <<commit, meta, phase, rapplied, appliedIndex, sv, replay, given, cindex, flag, sg,
                 proposal, chosen>>

\* close(ApplyDoneC)
ApplyDone ==
  /\ ap.at = "apply"
  /\ ap.todo = <<>>
  /\ ap' = [ap EXCEPT !.at = "update"]
  /\ UNCHANGED <<storage, phase, rapplied, appliedIndex, sv, replay, given, snapping, proposal, chosen, cleared>>

TryToUpdateCommittedIndex ==
  /\ ap.at = "update"
  /\ cindex' = IF cindex > ap.ci \/ flag # 1 THEN cindex ELSE ap.ci
  /\ ap' = NotApplying
  /\ UNCHANGED <<storage, phase, rapplied, appliedIndex, sv, replay, given, flag, fl, sg, proposal, chosen, cleared>>

----------------------------------------------------------------------------
(***************************************************************************)
(* writeSnapshot of a shard and snapshotAfterFlush.                        *)
(***************************************************************************)

\* writeSnapshot of a shard that knows the SnapShotter suspends the index, locks
\* snapshotLock and switches the tables; of a closed shard there is none and it
\* returns.
WriteSnapshot(s) ==
  /\ phase = "up"
  /\ fl[s] = "idle"
  /\ flag' = 0
  /\ \E then \in {"locked", "idle"} : fl' = [fl EXCEPT ![s] = then]
  /\ UNCHANGED <<storage, phase, serving, cindex, sg, proposal, chosen, cleared>>

\* RaftFlushC <- true is received by snapshotAfterFlush, the index moves again
\* and snapshotLock is released.
RaftFlush(s) ==
  /\ fl[s] = "locked"
  /\ sg.at = "idle"
  /\ fl' = [fl EXCEPT ![s] = "idle"]
  /\ flag' = 1
  /\ sg' = [sg EXCEPT !.at = "read"]
  /\ UNCHANGED <<storage, phase, serving, cindex, proposal, chosen, cleared>>

SnapShot ==
  /\ sg.at = "read"
  /\ sg' = [at |-> "create", index |-> cindex]
  /\ UNCHANGED <<storage, phase, serving, cindex, flag, fl, proposal, chosen, cleared>>

\* CreateSnapshot: an index that is cleared is out of date, any other error is
\* tried again; SnapshotIndex is written first, then the snapshot.
OutOfDate == sg.index < FirstIndex(log)
CreateSnapshot ==
  /\ sg.at = "create"
  /\ OutOfDate \/ Stored(sg.index)
  /\ IF OutOfDate
     THEN sg' = NotSnapping /\ UNCHANGED meta
     ELSE sg' = [sg EXCEPT !.at = "store"] /\ meta' = [meta EXCEPT !.index = sg.index]
  /\ UNCHANGED <<log, commit, phase, serving, cindex, flag, fl, proposal, chosen, cleared>>
StoreSnapshot ==
  /\ sg.at = "store"
  /\ meta' = [meta EXCEPT !.snap = sg.index]
  /\ sg' = NotSnapping
  /\ UNCHANGED <<log, commit, phase, serving, cindex, flag, fl, proposal, chosen, cleared>>

----------------------------------------------------------------------------
(***************************************************************************)
(* deleteEntryLog of a leader: match is the lowest Match of the group, or  *)
(* math.MaxUint64 when the leadership is lost after isLeader: the Progress *)
(* read then is empty.  Proposals of index 0 or 1 delete nothing and are   *)
(* left out.                                                               *)
(***************************************************************************)
\* Mutant of ClearIndex: the snapshot index of the leader alone.
ClearIndexOwn(index, match) == index
ClearIndex(index, match) ==
  IF SlotGe(log, match)[1] # SlotGe(log, index)[1] THEN match ELSE index

PrepareDeleteEntryLog(match) ==
  /\ phase = "up"
  /\ replay.listed
  /\ proposal = NoData
  /\ Clears < MaxClears
  /\ ClearIndex(meta.snap, match) > 1
  /\ proposal' = ClearEntryLog(ClearIndex(meta.snap, match), IF match = MaxUint64 THEN 0 ELSE match)
  /\ UNCHANGED <<storage, phase, serving, snapping, chosen, cleared>>

----------------------------------------------------------------------------
FlushStep(s) == WriteSnapshot(s) \/ RaftFlush(s)
ServeStep == PublishEntries \/ WaitWriteOK
ApplyStep == DealCommitData \/ ApplyDone \/ TryToUpdateCommittedIndex
SnapStep == SnapShot \/ CreateSnapshot \/ StoreSnapshot

Next ==
  \/ Start \/ StartRefused \/ StartPanics \/ Crash \/ AddDBPTInfo \/ ReadReplay
  \/ /\ phase = "up" /\ sv.at = "idle" /\ FirstIndex(log) <= rapplied + 1
     /\ \/ Ready(<<>>, commit)
        \/ /\ replay.listed
           /\ \E ents \in Appended \cup {<<>>} : \/ \E c \in commit..MaxIndex : Ready(ents, c)
                                               \/ CrashInSave(ents)
  \/ ServeStep \/ ApplyStep \/ SnapStep
  \/ \E s \in Shards : FlushStep(s)
  \/ \E m \in 0..commit \cup {MaxUint64} : PrepareDeleteEntryLog(m)

Spec == Init /\ [][Next]_vars

----------------------------------------------------------------------------
TypeOK ==
  /\ \A i \in DOMAIN log.files : log.files[i] # <<>> /\ Len(log.files[i]) <= MaxNumEntries
  /\ log.next = Len(log.current) /\ log.next <= MaxNumEntries
  /\ commit \in 1..MaxIndex
  /\ meta \in [index : 0..MaxIndex, snap : 0..MaxIndex]
  /\ phase \in {"down", "up", "refused", "panicked"}
  /\ rapplied \in 0..MaxIndex /\ appliedIndex \in 0..MaxIndex /\ cindex \in 0..MaxIndex
  /\ sv.at \in {"idle", "publish", "wait"}
  /\ ap.at \in {"idle", "apply", "update"}
  /\ flag \in {0, 1}
  /\ replay.listed \in BOOLEAN
  /\ fl \in [Shards -> {"unset", "idle", "locked"}]
  /\ sg \in [at : {"idle", "read", "create", "store"}, index : 0..MaxIndex]

\* A committed entry that is not cleared is found where it was committed, under
\* the term it was committed with, through conflicts, rotations, clearing and
\* crashes in the middle of a save; the log reaches the commit index and has no
\* entry missing before it, and only a ClearEntryLog that names no entry clears
\* more than what is committed.  (The raft library panics on less.)
CommittedKept ==
  /\ LastIndex(log) >= commit
  /\ Overcleared \/ FirstIndex(log) <= commit
  /\ \A i \in FirstIndex(log)..commit : Stored(i) /\ TermOf(i) = chosen[i].term

\* No ClearEntryLog clears more than what is committed: one whose leader lost the
\* leadership between isLeader and Status does.
ClearsCommitted == FirstIndex(log) <= commit

\* A committed entry keeps its data: AddEntries overwrites entries from the first
\* new index on and "the entries after that", none before.
CommittedDataKept ==
  \A e \in ToSet(Contents(log)) : e.index <= commit => e.data = chosen[e.index].data

\* Since the start every committed entry from the snapshot on is taken from the
\* log once and in order, by replay or as committed, though the raft library hands
\* out again what the restarted node has replayed; a row that waits in ReplayC is
\* behind every row readCommitFromRaft has to write.  (Which of the two is written
\* first is open.)
GivenOnce ==
  /\ \A k \in 1..(Len(given) - 1) : given[k + 1] = given[k] + 1
  /\ given # <<>> => given[1] <= Max({meta.snap, 1}) /\ Last(given) = appliedIndex
  /\ appliedIndex <= commit
  /\ \A k \in DOMAIN replay.todo :
       /\ replay.todo[k].index <= appliedIndex
       /\ \A j \in DOMAIN ap.todo : replay.todo[k].index < ap.todo[j].index

\* The rows of a restarted node are written in the order of their entries: not
\* while readReplayForReplication and readCommitFromRaft run side by side.
ReplayedFirst ==
  [][ap.todo # <<>> /\ ap'.todo = Tail(ap.todo) /\ Head(ap.todo).data.kind = "rows" /\ phase' = "up"
     => replay.todo = <<>>]_vars

\* A snapshot does not cover rows that still wait in ReplayC, which the next start
\* would not replay: the index of a later commit does.
ReplayNotCovered == \A k \in DOMAIN replay.todo : replay.todo[k].index >= meta.snap

\* snapshotAfterFlush is never left trying again ("We should never let
\* CreateSnapshot have an error"): the index it reads is in the log or out of
\* date, and the snapshot stays behind what is applied.
SnapshotTaken ==
  /\ sg.at = "create" => OutOfDate \/ Stored(sg.index)
  /\ cindex <= appliedIndex
  /\ meta.snap <= commit

\* A restarted node finds the entries it has to replay, unless a ClearEntryLog
\* went beyond its snapshot or a crash came between the two halves of StoreSnapshot.
ReplayReads == phase = "panicked" => cleared > meta.snap \/ meta.index # meta.snap

\* A ClearEntryLog this node proposed from the Progress it read as the leader
\* keeps, when it is applied later, the entry its slowest peer had matched, and so
\* all that peer needs.
PeersKept ==
  [][\A m \in 0..MaxIndex :
       (/\ ap.todo # <<>> /\ Head(ap.todo).data.kind = "clear" /\ Head(ap.todo).data.match = m
        /\ m > 0 /\ log' # log /\ ap'.at = "apply")
       => Overcleared \/ FirstIndex(log') <= m]_vars

\* The files of the entry log are a Storage: they hold one entry of each index
\* without a gap, and change only above the commit index, or by clearing; until a
\* ClearEntryLog that names no entry is applied.
Slotted == UNION {{<<f[k].index, f[k].term>> : k \in DOMAIN f} : f \in ToSet(log.files) \cup {log.current}}
Storage == INSTANCE RaftStorage WITH entries <- Slotted
StorageRefined == Storage!Init /\ [][Overcleared' \/ Storage!Next]_<<Slotted, commit>>
=============================================================================
