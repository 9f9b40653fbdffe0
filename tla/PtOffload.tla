------------------------------ MODULE PtOffload ------------------------------
(***************************************************************************)
(* Reference counting and offloading of one database partition (dbPT) of   *)
(* a ts-store engine.                                                      *)
(*                                                                         *)
(* Requests pin the partition with ref() and let it go with unref(); a     *)
(* migration (Engine.Offload) and a drop (Engine.DeleteDatabase) mark it   *)
(* as offloading, wait until every pin has gone or a timeout fires, and    *)
(* then close it and remove it from Engine.DBPartitions.  Three locks meet *)
(* here:                                                                   *)
(*   dbPT.mu   markOffload and unMarkOffload hold its write side and       *)
(*             exclude ref and unref, which hold its read side and count   *)
(*             atomically: each of the four is one step;                   *)
(*   Engine.mu a Go RWMutex: a waiting writer blocks new readers, those    *)
(*             that already hold the read side included.  DeleteDatabase   *)
(*             keeps the read side WHILE IT WAITS for the pins, and most   *)
(*             requests need the read side to let theirs go;               *)
(*   migratingDbPT / droppingDB  one migration and one drop at a time.     *)
(*                                                                         *)
(* What a request does with its pin and with Engine.mu is its kind:        *)
(*   "request" pins while it works and takes Engine.mu only for ref and    *)
(*             unref (searches of the index, CreateShard, DeleteShard,     *)
(*             DropMeasurement, HierarchicalStorage, ...);                 *)
(*   "sweep"   keeps Engine.mu.RLock as well, from ref to unref            *)
(*             (ForceFlush, GetShardDownSamplePolicyInfos);                *)
(*   "write"   getShard: the pin is gone when it returns, and the write    *)
(*             goes on with the shard it got;                              *)
(*   "raft"    checkAndGetDBPTInfo: like a write, but unrefDBPT takes      *)
(*             Engine.mu.RLock AGAIN under the RLock of its caller;        *)
(*   "select"  Engine.GetShard: no pin at all.                             *)
(* ts-meta never runs a drop and a migration of one database together      *)
(* (checkMigrateConflict, checkDDLConflict in meta/data.go): see the       *)
(* guards of BeginOffload and BeginDelete.  A partition that is only       *)
(* preloaded, which ref() refuses as well, is left to PtMigration.         *)
(***************************************************************************)
EXTENDS Naturals, FiniteSets

CONSTANTS
    Users,          \* goroutines that serve requests on the partition
    Kind,           \* Kind[u]: what the request u does, one of Kinds
    Others,         \* goroutines that take Engine.mu for another partition
    MaxCloseFail,   \* how many times closing a shard may fail
    MaxForgotten    \* how many pins a failing sweep may forget

Kinds == {"request", "sweep", "write", "raft", "select"}

\* The two operations that offload the partition.
Callers == {"Offload", "Delete"}

ASSUME UsersAssumption == IsFiniteSet(Users) /\ Kind \in [Users -> Kinds]
ASSUME NamesAssumption ==
    /\ (Callers \cup {"nil"}) \cap Others = {}
    /\ Callers \cap Users = {}
ASSUME BoundAssumption == MaxCloseFail \in Nat /\ MaxForgotten \in Nat

VARIABLES
    holders,     \* the users between ref() and unref()
    forgotten,   \* pins whose sweep has returned without unref()
    bare,        \* the users that use a shard without a pin
    exeCount,    \* dbPT.exeCount
    offloading,  \* dbPT.offloading
    ch,          \* dbPT.ch: the caller whose channel it is, or "nil"
    done,        \* done[c]: the channel c waits on: "empty", "true", "closed"
    present,     \* the partition is in Engine.DBPartitions
    shards,      \* "open", "partly" (a shard failed to close), "closed"
    pc,          \* pc[c]: where the operation c is
    readers,     \* who holds Engine.mu.RLock from one step to another
    writer,      \* the goroutine in Engine.mu.Lock (holder of RWMutex.w), or "nil"
    fault,       \* the panic a request hit: "none", "chan is nil", "pt not found"
    closeFails   \* how many closes have failed

pinVars == <<holders, forgotten, exeCount>>
ptVars == <<pinVars, offloading, ch, done, present, shards, fault>>
vars == <<ptVars, bare, pc, readers, writer, closeFails>>

Idle(c) == pc[c] = "idle"

\* sync.RWMutex: a reader enters unless a writer holds or waits for the lock
\* (the critical sections of the writers below are single steps).
CanRLock == writer = "nil"

\* sync.RWMutex: one writer at a time announces itself and blocks new readers;
\* the others queue on RWMutex.w and leave the lock alone.
Announce(w) == writer = "nil" /\ writer' = w

\* sync.RWMutex: a writer enters once no reader is inside.
CanLock == readers = {}

\* DeleteDatabase gives its read lock back.
RUnlock(c) == readers' = readers \ {c}

Init ==
    /\ holders = {} /\ forgotten = 0 /\ bare = {}
    /\ exeCount = 0
    /\ offloading = FALSE
    /\ ch = "nil"
    /\ done = [c \in Callers |-> "empty"]
    /\ present = TRUE
    /\ shards = "open"
    /\ pc = [c \in Callers |-> "idle"]
    /\ readers = {}
    /\ writer = "nil"
    /\ fault = "none"
    /\ closeFails = 0

-----------------------------------------------------------------------------
(* Requests.                                                               *)

\* Kinds that keep Engine.mu.RLock between ref and unref.
KeepsRLock(u) == Kind[u] \in {"sweep", "raft"}

\* Kinds that go on with a shard, or with the partition's raft node, after unref.
GoesOn(u) == Kind[u] \in {"write", "raft"}

\* The request takes Engine.mu.RLock and finds the partition; a pin is refused
\* on the condition given.
Pins(u, refused) ==
    /\ u \notin holders \cup bare /\ Kind[u] # "select"
    /\ CanRLock /\ present /\ ~refused
    /\ holders' = holders \cup {u}
    /\ readers' = IF KeepsRLock(u) THEN readers \cup {u} ELSE readers
    /\ UNCHANGED <<forgotten, bare, offloading, ch, done, present, shards, fault,
                   pc, writer, closeFails>>

\* Mutant: the refusal while offloading is forgotten.
RefWhileOffloading(u) == Pins(u, FALSE) /\ exeCount' = exeCount + 1

\* Mutant: the reference is not counted.
RefUncounted(u) == Pins(u, offloading) /\ exeCount' = exeCount

\* checkAndAddRefPTNoLock, getPartition(db, pt, true): look the partition up
\* and ref() it.
Ref(u) == Pins(u, offloading) /\ exeCount' = exeCount + 1

\* A request that has its pin lets it go.  unrefDBPT takes Engine.mu.RLock,
\* that of checkAndGetDBPTInfo although its caller has it already; only the
\* sweeps call unref under the lock they have.
Unpins(u) ==
    /\ u \in holders
    /\ CanRLock \/ Kind[u] = "sweep"
    /\ holders' = holders \ {u}
    /\ exeCount' = exeCount - 1
    /\ bare' = IF GoesOn(u) THEN bare \cup {u} ELSE bare
    /\ RUnlock(u)
    /\ UNCHANGED <<forgotten, offloading, present, shards, pc, writer, closeFails>>

\* Mutant: the last request leaves without signalling the waiting caller.
UnrefSilently(u) ==
    /\ Unpins(u)
    /\ ch' = IF offloading /\ exeCount - 1 = 0 THEN "nil" ELSE ch
    /\ UNCHANGED <<done, fault>>

\* unrefDBPT(db, pt): look the partition up BY NAME and unref() it; the last
\* request to leave an offloading partition signals dbPT.ch and forgets it.
Unref(u) ==
    /\ Unpins(u)
    /\ LET last == offloading /\ exeCount - 1 = 0
       IN  /\ fault' = IF ~present THEN "pt not found"
                       ELSE IF last /\ ch = "nil" THEN "chan is nil" ELSE fault
           /\ done' = IF last /\ ch # "nil" THEN [done EXCEPT ![ch] = "true"]
                      ELSE done
           /\ ch' = IF last THEN "nil" ELSE ch

\* GetShardDownSamplePolicyInfos returns early, because a shard cannot be
\* opened or ts-meta cannot be told: Engine.mu is given back, the pin is not.
UnrefForgotten(u) ==
    /\ u \in holders /\ Kind[u] = "sweep" /\ forgotten < MaxForgotten
    /\ holders' = holders \ {u}
    /\ forgotten' = forgotten + 1
    /\ RUnlock(u)
    /\ UNCHANGED <<exeCount, offloading, ch, done, present, shards, fault, bare,
                   pc, writer, closeFails>>

\* Engine.GetShard, for CreateLogicalPlan and the scans: the shard is handed
\* out without a pin, whatever marks the partition carries.
GetShard(u) ==
    /\ Kind[u] = "select" /\ u \notin bare
    /\ CanRLock /\ present
    /\ bare' = bare \cup {u}
    /\ UNCHANGED <<ptVars, pc, readers, writer, closeFails>>

\* A write (sh.WriteRows, sh.WriteCols, WriteToRaft) or a select is over.
EndUse(u) ==
    /\ u \in bare
    /\ bare' = bare \ {u}
    /\ UNCHANGED <<ptVars, pc, readers, writer, closeFails>>

-----------------------------------------------------------------------------
(* The two callers of markOffload.                                         *)

\* Mutant: markOffload does not look at the number of requests inside.
MarkOffloadAtOnce(c) ==
    /\ offloading' = TRUE
    /\ ch' = ch
    /\ pc' = [pc EXCEPT ![c] = "close"]
    /\ done' = [done EXCEPT ![c] = "empty"]

\* dbPT.markOffload(done): only the first caller marks; it may go on at once
\* when no request is inside, otherwise it waits on its channel.
MarkOffload(c) ==
    /\ offloading' = TRUE
    /\ ch' = IF ~offloading /\ exeCount # 0 THEN c ELSE ch
    /\ pc' = [pc EXCEPT ![c] = IF ~offloading /\ exeCount = 0 THEN "close"
                               ELSE "wait"]
    /\ done' = [done EXCEPT ![c] = "empty"]

\* Mutant: the mark is left behind when the operation gives up.
KeepOffloadMark ==
    /\ ch' = "nil"
    /\ UNCHANGED <<offloading, done>>

\* dbPT.unMarkOffload(): the channel, if there is one, is closed.
UnMarkOffload ==
    /\ offloading' = FALSE
    /\ ch' = IF offloading THEN "nil" ELSE ch
    /\ done' = IF offloading /\ ch # "nil" THEN [done EXCEPT ![ch] = "closed"]
               ELSE done

\* Engine.Offload, after trySetDbPtMigrating: look the partition up (without
\* a reference) and enter offloadDbPT.
BeginOffload ==
    /\ Idle("Offload") /\ Idle("Delete")
    /\ CanRLock /\ present
    /\ MarkOffload("Offload")
    /\ UNCHANGED <<pinVars, bare, present, shards, fault, readers, writer,
                   closeFails>>

\* Engine.DeleteDatabase, after startDrop: Engine.mu.RLock is kept from here
\* until the operation has closed the partition or given up.
BeginDelete ==
    /\ Idle("Offload") /\ Idle("Delete")
    /\ CanRLock /\ present
    /\ MarkOffload("Delete")
    /\ readers' = readers \cup {"Delete"}
    /\ UNCHANGED <<pinVars, bare, present, shards, fault, writer,
                   closeFails>>

\* The select of either operation sees its channel signalled or closed.
AllIoBack(c) ==
    /\ pc[c] = "wait" /\ done[c] # "empty"
    /\ pc' = [pc EXCEPT ![c] = "close"]
    /\ UNCHANGED <<ptVars, bare, readers, writer, closeFails>>

\* offloadDbPT: the third arm of the select, pt.unload, is ready when an
\* earlier close failed half way; the operation gives up (DBPTClosed).
PtHasUnloaded ==
    /\ pc["Offload"] = "wait" /\ shards = "partly"
    /\ UnMarkOffload
    /\ pc' = [pc EXCEPT !["Offload"] = "idle"]
    /\ UNCHANGED <<pinVars, bare, present, shards, fault, readers, writer,
                   closeFails>>

\* Mutant: DeleteDatabase waits for the requests for ever.
TimeoutOfOffloadOnly(c) ==
    /\ c = "Offload" /\ pc[c] = "wait"
    /\ UnMarkOffload
    /\ pc' = [pc EXCEPT ![c] = "idle"]
    /\ UNCHANGED <<pinVars, bare, present, shards, fault, readers, writer,
                   closeFails>>

\* time.After fires first: the mark is taken back, ErrConflictWithIo.
Timeout(c) ==
    /\ pc[c] = "wait"
    /\ UnMarkOffload
    /\ pc' = [pc EXCEPT ![c] = "idle"]
    /\ RUnlock(c)
    /\ UNCHANGED <<pinVars, bare, present, shards, fault, writer,
                   closeFails>>

\* closeDBPt (or deleteShardsAndIndexes) succeeds; the caller goes on to
\* Engine.mu.Lock, DeleteDatabase after giving its read lock back.
CloseDBPt(c) ==
    /\ pc[c] = "close"
    /\ shards' = "closed"
    /\ pc' = [pc EXCEPT ![c] = "lock"]
    /\ RUnlock(c)
    /\ UNCHANGED <<pinVars, bare, offloading, ch, done, present, fault,
                   writer, closeFails>>

\* A shard or an index fails to close: unload is already closed, the mark is
\* taken back and the partition stays in DBPartitions.
CloseDBPtFails(c) ==
    /\ pc[c] = "close" /\ closeFails < MaxCloseFail
    /\ closeFails' = closeFails + 1
    /\ shards' = "partly"
    /\ UnMarkOffload
    /\ pc' = [pc EXCEPT ![c] = "idle"]
    /\ RUnlock(c)
    /\ UNCHANGED <<pinVars, bare, present, fault, writer>>

\* Engine.mu.Lock begins to wait for the readers ...
Lock(c) ==
    /\ pc[c] = "lock"
    /\ Announce(c)
    /\ pc' = [pc EXCEPT ![c] = "drop"]
    /\ UNCHANGED <<ptVars, bare, readers, closeFails>>

\* ... gets the lock; dropDBPTInfo; Unlock.
DropDBPTInfo(c) ==
    /\ pc[c] = "drop" /\ CanLock
    /\ present' = FALSE
    /\ writer' = "nil"
    /\ pc' = [pc EXCEPT ![c] = "idle"]
    /\ UNCHANGED <<pinVars, bare, offloading, ch, done, shards, fault, readers,
                   closeFails>>

-----------------------------------------------------------------------------
(* The rest of the engine.                                                 *)

\* Engine.Assign loads the partition again: a new DBPTInfo under Engine.mu.
Assign ==
    /\ ~present /\ Idle("Offload") /\ Idle("Delete")
    /\ CanRLock /\ CanLock
    /\ present' = TRUE
    /\ shards' = "open"
    /\ exeCount' = 0 /\ forgotten' = 0
    /\ offloading' = FALSE
    /\ ch' = "nil"
    /\ UNCHANGED <<holders, bare, done, fault, pc, readers, writer, closeFails>>

\* Another partition is created or dropped: Engine.mu.Lock ...
OtherLocks(o) ==
    /\ Announce(o)
    /\ UNCHANGED <<ptVars, bare, pc, readers, closeFails>>

\* ... and its critical section.
OtherUnlocks(o) ==
    /\ writer = o /\ CanLock
    /\ writer' = "nil"
    /\ UNCHANGED <<ptVars, bare, pc, readers, closeFails>>

Operation(c) ==
    \/ AllIoBack(c)
    \/ Timeout(c)
    \/ CloseDBPt(c)
    \/ CloseDBPtFails(c)
    \/ Lock(c)
    \/ DropDBPTInfo(c)

Next ==
    \/ \E u \in Users :
            Ref(u) \/ Unref(u) \/ UnrefForgotten(u) \/ GetShard(u) \/ EndUse(u)
    \/ BeginOffload
    \/ BeginDelete
    \/ PtHasUnloaded
    \/ \E c \in Callers : Operation(c)
    \/ Assign
    \/ \E o \in Others : OtherLocks(o) \/ OtherUnlocks(o)

Spec == Init /\ [][Next]_vars

(***************************************************************************)
(* Fairness.  The timers of the two selects fire, a step that no lock      *)
(* blocks is eventually taken, and a goroutine that waits for Engine.mu    *)
(* gets it: Go's RWMutex lets the readers that queued behind a writer in   *)
(* before the next writer, and sync.Mutex hands a starving goroutine       *)
(* RWMutex.w, hence strong fairness for unref and for Lock.                *)
(***************************************************************************)
Fairness ==
    /\ \A u \in Users : SF_vars(Unref(u))
    /\ \A c \in Callers : WF_vars(Operation(c)) /\ SF_vars(Lock(c))
    /\ \A o \in Others : WF_vars(OtherUnlocks(o))

FairSpec == Spec /\ Fairness

-----------------------------------------------------------------------------
(* Properties.                                                             *)

\* Every variable has the type of the field it stands for.
TypeOK ==
    /\ holders \subseteq Users /\ bare \subseteq Users
    /\ forgotten \in 0..MaxForgotten
    /\ exeCount \in Nat
    /\ offloading \in BOOLEAN
    /\ ch \in Callers \cup {"nil"}
    /\ done \in [Callers -> {"empty", "true", "closed"}]
    /\ present \in BOOLEAN
    /\ shards \in {"open", "partly", "closed"}
    /\ pc \in [Callers -> {"idle", "wait", "close", "lock", "drop"}]
    /\ readers \subseteq Users \cup {"Delete"}
    /\ writer \in Others \cup Callers \cup {"nil"}
    /\ fault \in {"none", "chan is nil", "pt not found"}
    /\ closeFails \in 0..MaxCloseFail

\* A partition whose shards are being closed, or that has left DBPartitions,
\* is pinned by no request: the wait of offloadDbPT and DeleteDatabase covers
\* every pin, whatever requests, timeouts and failed closes came before.  What
\* goes on without a pin (writes, selects) is not covered: NoBareUseAfterClose.
NoUseAfterClose ==
    (shards = "closed" \/ ~present \/ \E c \in Callers : pc[c] \in {"close", "lock", "drop"})
        => holders = {}

\* The same for those that use a shard without a pin.  The code does not keep
\* it: a write that has its shard from getShard, or a select, meets a shard
\* that Offload or DeleteDatabase has closed meanwhile.
NoBareUseAfterClose == shards = "closed" => bare = {}

\* No request ever hits one of the two panics of unref and unrefDBPTNoLock.
NoPanic == fault = "none"

\* When both operations have returned and the partition is still there, it is
\* not left marked: otherwise every later request would be refused for good.
MarkTakenBack ==
    (present /\ \A c \in Callers : Idle(c)) => ~offloading

\* A replicated write waits in unrefDBPT for the read side of Engine.mu that it
\* holds itself, behind a writer that waits for it: neither ever goes on.
Stuck == writer # "nil" /\ \E u \in readers \cap Users : Kind[u] = "raft"

\* A drop or a migration returns, even when a request can leave only after
\* DeleteDatabase has given Engine.mu back (a writer is queued); only the
\* recursive read lock of checkAndGetDBPTInfo can hold one up for ever, and
\* then not while it waits for the requests but in Engine.mu.Lock.
OperationsReturn ==
    \A c \in Callers :
        pc[c] # "idle" ~> (pc[c] = "idle" \/ (Stuck /\ pc[c] \in {"lock", "drop"}))

\* A request that has pinned the partition gets to unpin it, unless that same
\* recursive read lock has stopped everybody who needs Engine.mu.
RequestsLeave ==
    \A u \in Users :
        u \in holders ~> (u \notin holders \/ (Stuck /\ Kind[u] # "sweep"))

\* What the two properties would say of an engine without the recursive lock:
\* the code does not keep it.
NeverStuck == ~Stuck

-----------------------------------------------------------------------------
(* The inductive invariant behind NoUseAfterClose, NoPanic, MarkTakenBack. *)

\* The two operations exclude each other.
OneOperation == Idle("Offload") \/ Idle("Delete")

\* exeCount counts the requests inside and the pins that were forgotten.
CountInv == exeCount = Cardinality(holders) + forgotten

\* No request is inside and no pin was forgotten.
Unpinned == holders = {} /\ forgotten = 0

\* While an operation waits, the partition is marked, and either dbPT.ch is
\* its channel and pins are left, or they have gone and signalled it.
WaitInv ==
    \A c \in Callers :
        pc[c] = "wait" =>
            /\ present /\ offloading
            /\ IF ch = c THEN ~Unpinned /\ done[c] = "empty"
               ELSE ch = "nil" /\ Unpinned /\ done[c] = "true"

\* Past the wait, the partition is still marked and nobody is inside.
CloseInv ==
    \A c \in Callers :
        pc[c] \in {"close", "lock", "drop"} =>
            present /\ offloading /\ ch = "nil" /\ Unpinned

\* Without an operation a partition that is there carries no mark, no channel.
RestInv ==
    (\A c \in Callers : Idle(c)) =>
        IF present THEN ~offloading /\ ch = "nil" /\ shards # "closed"
        ELSE Unpinned

\* Who keeps the read side of Engine.mu: DeleteDatabase until it has closed the
\* partition or given up, a sweep or a replicated write while it has its pin.
LockInv ==
    /\ "Delete" \in readers <=> pc["Delete"] \in {"wait", "close"}
    /\ \A u \in readers \cap Users : u \in holders /\ KeepsRLock(u)

\* Shards are closed only on the way out of DBPartitions.
ShardsInv ==
    shards = "closed" => ~present \/ \E c \in Callers : pc[c] \in {"lock", "drop"}

\* The inductive invariant.
IInv ==
    /\ TypeOK
    /\ OneOperation
    /\ CountInv
    /\ WaitInv
    /\ CloseInv
    /\ RestInv
    /\ LockInv
    /\ ShardsInv
    /\ NoPanic
==============================================================================
