--------------------------- MODULE ResourceBucket ---------------------------
(***************************************************************************)
(* Int64bucket (lib/bucket): a number of tokens that goroutines take and   *)
(* give back.  One who finds too few waits, on the broadcast channel that  *)
(* was current when it looked, until the channel is closed or its timer    *)
(* fires.  ReleaseResource replaces the channel under the lock and closes  *)
(* the old one after it has let the lock go.  The store takes memory for   *)
(* writes, series and shards for queries from buckets.                     *)
(***************************************************************************)
EXTENDS Integers, FiniteSets

CONSTANTS
    Procs,          \* the goroutines
    Costs,          \* what they ask for
    Total,          \* totalResource
    OutOfLimitOnce  \* outOfLimitOnce: one taker may go below zero

ASSUME ProcsAssumption ==
    IsFiniteSet(Procs) /\ Procs \cap {"none", "current", "closed"} = {}
ASSUME CostsAssumption == Costs \subseteq Nat
ASSUME TotalAssumption == Total \in Nat
ASSUME OutOfLimitOnceAssumption == OutOfLimitOnce \in BOOLEAN

VARIABLES
    freeResource,    \* tokens left
    blockExecutor,   \* how many wait
    pc,              \* pc[p]: where p is in getResImpl and ReleaseResource
    cost,            \* cost[p]: what p asked for
    chan             \* chan[p]: the channel p waits on: the current one, the
                     \* one that a goroutine is about to close, a closed one

bucketVars == <<freeResource, blockExecutor, pc, cost, chan>>

BucketInit ==
    /\ freeResource = Total
    /\ blockExecutor = 0
    /\ pc = [p \in Procs |-> "idle"]
    /\ cost = [p \in Procs |-> 0]
    /\ chan = [p \in Procs |-> "none"]

-----------------------------------------------------------------------------
(* getResImpl.                                                             *)

\* Mutant: going below zero is not limited to one taker.
AdmitsAny(c) == OutOfLimitOnce \/ freeResource - c >= 0

\* There is enough for c, or it is not used up and may be overdrawn.
Admits(c) == IF OutOfLimitOnce THEN freeResource >= 0 ELSE freeResource - c >= 0

\* GetResource, GetResDetected: the call.
GetResource(p, c) ==
    /\ pc[p] = "idle"
    /\ pc' = [pc EXCEPT ![p] = "try"]
    /\ cost' = [cost EXCEPT ![p] = c]
    /\ UNCHANGED <<freeResource, blockExecutor, chan>>

\* Mutant: a waiting goroutine is not counted.
TryUncounted(p) ==
    /\ pc[p] = "try"
    /\ IF Admits(cost[p])
       THEN /\ freeResource' = freeResource - cost[p]
            /\ pc' = [pc EXCEPT ![p] = "hold"]
            /\ UNCHANGED chan
       ELSE /\ pc' = [pc EXCEPT ![p] = "wait"]
            /\ chan' = [chan EXCEPT ![p] = "current"]
            /\ UNCHANGED freeResource
    /\ UNCHANGED <<blockExecutor, cost>>

\* One pass under the lock: take the tokens, or join those who wait for the
\* channel that is current now.
Try(p) ==
    /\ pc[p] = "try"
    /\ IF Admits(cost[p])
       THEN /\ freeResource' = freeResource - cost[p]
            /\ pc' = [pc EXCEPT ![p] = "hold"]
            /\ UNCHANGED <<blockExecutor, chan>>
       ELSE /\ blockExecutor' = blockExecutor + 1
            /\ pc' = [pc EXCEPT ![p] = "wait"]
            /\ chan' = [chan EXCEPT ![p] = "current"]
            /\ UNCHANGED freeResource
    /\ UNCHANGED <<cost>>

\* The channel is closed: look again.  The count falls outside the lock.
Wake(p) ==
    /\ pc[p] = "wait" /\ chan[p] = "closed"
    /\ blockExecutor' = blockExecutor - 1
    /\ pc' = [pc EXCEPT ![p] = "try"]
    /\ chan' = [chan EXCEPT ![p] = "none"]
    /\ UNCHANGED <<freeResource, cost>>

\* Mutant: a goroutine that gives up stays counted.
TimeOutCounted(p) ==
    /\ pc[p] = "wait"
    /\ pc' = [pc EXCEPT ![p] = "lacks"]
    /\ cost' = [cost EXCEPT ![p] = 0]
    /\ chan' = [chan EXCEPT ![p] = "none"]
    /\ UNCHANGED <<freeResource, blockExecutor>>

\* The timer fires: the call returns BucketLacks, even if the channel is closed
\* by now.
TimeOut(p) ==
    /\ pc[p] = "wait"
    /\ blockExecutor' = blockExecutor - 1
    /\ pc' = [pc EXCEPT ![p] = "lacks"]
    /\ cost' = [cost EXCEPT ![p] = 0]
    /\ chan' = [chan EXCEPT ![p] = "none"]
    /\ UNCHANGED freeResource

\* The caller takes the error as the end of it.
GiveUp(p) ==
    /\ pc[p] = "lacks"
    /\ pc' = [pc EXCEPT ![p] = "idle"]
    /\ UNCHANGED <<freeResource, blockExecutor, cost, chan>>

-----------------------------------------------------------------------------
(* ReleaseResource.                                                        *)

\* Mutant: the broadcast is for more than one only.
ReleaseToMany(p, n) ==
    /\ pc[p] \in {"idle", "hold", "lacks"}
    /\ freeResource' = freeResource + n
    /\ cost' = [cost EXCEPT ![p] = 0]
    /\ IF blockExecutor > 1
       THEN /\ pc' = [pc EXCEPT ![p] = "close"]
            /\ chan' = [q \in Procs |-> IF chan[q] = "current" THEN p ELSE chan[q]]
       ELSE pc' = [pc EXCEPT ![p] = "idle"] /\ UNCHANGED chan
    /\ UNCHANGED <<blockExecutor>>

\* Under the lock: n tokens come back, and p takes the channel of those who
\* wait away, if there are any.  Callers give back 0 too, after an error or
\* where they have taken nothing.
ReleaseResource(p, n) ==
    /\ pc[p] \in {"idle", "hold", "lacks"}
    /\ freeResource' = freeResource + n
    /\ cost' = [cost EXCEPT ![p] = 0]
    /\ IF blockExecutor # 0
       THEN /\ pc' = [pc EXCEPT ![p] = "close"]
            /\ chan' = [q \in Procs |-> IF chan[q] = "current" THEN p ELSE chan[q]]
       ELSE pc' = [pc EXCEPT ![p] = "idle"] /\ UNCHANGED chan
    /\ UNCHANGED <<blockExecutor>>

\* Mutant: the old channel is never closed.
CloseNothing(p) ==
    /\ pc[p] = "close"
    /\ pc' = [pc EXCEPT ![p] = "idle"]
    /\ UNCHANGED <<freeResource, blockExecutor, cost, chan>>

\* After the lock: close(waitBroadcast).
Close(p) ==
    /\ pc[p] = "close"
    /\ chan' = [q \in Procs |-> IF chan[q] = p THEN "closed" ELSE chan[q]]
    /\ pc' = [pc EXCEPT ![p] = "idle"]
    /\ UNCHANGED <<freeResource, blockExecutor, cost>>

\* What a goroutine does by itself once it has called.
Proceed(p) == Try(p) \/ Wake(p) \/ TimeOut(p) \/ Close(p)

\* Goroutines that give back what they took.
BucketNext ==
    \E p \in Procs :
        \/ \E c \in Costs : GetResource(p, c)
        \/ Proceed(p)
        \/ GiveUp(p)
        \/ ReleaseResource(p, cost[p])

BucketSpec == BucketInit /\ [][BucketNext]_bucketVars

-----------------------------------------------------------------------------
(* Properties.                                                             *)

\* Every variable has its type; the count of waiting goroutines is not negative.
BucketTypeOK ==
    /\ freeResource \in Int
    /\ blockExecutor \in Nat
    /\ pc \in [Procs -> {"idle", "try", "wait", "lacks", "hold", "close"}]
    /\ cost \in [Procs -> Nat]
    /\ chan \in [Procs -> Procs \cup {"none", "current", "closed"}]

\* No wakeup is lost: who waits for the channel that is still current could not
\* have what it asks for, although the count of waiters that ReleaseResource
\* looks at changes outside the lock and timers fire at any time.
NoLostWakeup ==
    \A p \in Procs : pc[p] = "wait" /\ chan[p] = "current" => ~Admits(cost[p])

\* The bucket is overdrawn only if it may be, and then by one taker: without
\* that one's tokens it would not be.
LimitKept ==
    freeResource < 0 =>
        /\ OutOfLimitOnce
        /\ \E p \in Procs : pc[p] = "hold" /\ freeResource + cost[p] >= 0

-----------------------------------------------------------------------------
(* The inductive invariant behind NoLostWakeup and LimitKept.              *)

\* blockExecutor counts the goroutines that wait.
BlockInv == blockExecutor = Cardinality({p \in Procs : pc[p] = "wait"})

\* Only who waits has a channel, and one that is being closed has its closer.
ChanInv ==
    \A p \in Procs :
        IF pc[p] = "wait"
        THEN /\ chan[p] # "none"
             /\ chan[p] \in Procs => pc[chan[p]] = "close"
        ELSE chan[p] = "none"

BucketInv ==
    /\ BucketTypeOK
    /\ BlockInv
    /\ ChanInv
    /\ NoLostWakeup
    /\ LimitKept
==============================================================================
