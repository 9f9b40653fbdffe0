------------------------- MODULE ResourceBucketProofs -------------------------
(***************************************************************************)
(* For any number of goroutines, any requests and any total: the count of  *)
(* waiting goroutines is exact, no wakeup is lost and the limit is kept.   *)
(***************************************************************************)
EXTENDS ResourceBucket, FiniteSetTheorems, TLAPS

\* The goroutines that wait.
Waiting == {p \in Procs : pc[p] = "wait"}

\* ReleaseResource, which reads blockExecutor, can trust it: 0 means nobody waits.
LEMMA NobodyWaits ==
  ASSUME BlockInv, blockExecutor = 0
  PROVE  \A p \in Procs : pc[p] # "wait"
<1>1. IsFiniteSet(Waiting)
  BY ProcsAssumption, FS_Subset DEF Waiting
<1>2. Waiting = {}
  BY <1>1, FS_EmptySet DEF BlockInv, Waiting
<1> QED
  BY <1>2 DEF Waiting

\* The count follows the set when a goroutine starts to wait ...
LEMMA OneMoreWaits ==
  ASSUME BucketTypeOK, BlockInv, NEW p \in Procs, pc[p] # "wait",
         pc' = [pc EXCEPT ![p] = "wait"],
         blockExecutor' = blockExecutor + 1
  PROVE  BlockInv'
<1>1. IsFiniteSet(Waiting) /\ p \notin Waiting
  BY ProcsAssumption, FS_Subset DEF Waiting
<1>2. Waiting' = Waiting \cup {p}
  BY DEF Waiting, BucketTypeOK
<1>3. Cardinality(Waiting \cup {p}) = Cardinality(Waiting) + 1
  BY <1>1, FS_AddElement
<1> QED
  BY <1>2, <1>3 DEF BlockInv, Waiting

\* ... and when it stops, however it stops.
LEMMA OneLessWaits ==
  ASSUME BucketTypeOK, BlockInv, NEW p \in Procs, NEW s, pc[p] = "wait",
         s # "wait", pc' = [pc EXCEPT ![p] = s],
         blockExecutor' = blockExecutor - 1
  PROVE  BlockInv' /\ blockExecutor' \in Nat
<1>1. IsFiniteSet(Waiting) /\ p \in Waiting
  BY ProcsAssumption, FS_Subset DEF Waiting
<1>2. Waiting' = Waiting \ {p}
  BY DEF Waiting, BucketTypeOK
<1>3. /\ Cardinality(Waiting \ {p}) = Cardinality(Waiting) - 1
      /\ IsFiniteSet(Waiting \ {p})
  BY <1>1, FS_RemoveElement
<1>4. Cardinality(Waiting \ {p}) \in Nat
  BY <1>3, FS_CardinalityType
<1> QED
  BY <1>2, <1>3, <1>4 DEF BlockInv, Waiting

\* Nothing happens to the count when the same goroutines wait.
LEMMA SameWait ==
  ASSUME BlockInv, UNCHANGED blockExecutor,
         \A q \in Procs : pc'[q] = "wait" <=> pc[q] = "wait"
  PROVE  BlockInv'
<1>1. Waiting' = Waiting
  BY DEF Waiting
<1> QED
  BY <1>1 DEF BlockInv, Waiting

\* The initial state satisfies the inductive invariant.
LEMMA InitInv == BucketInit => BucketInv
<1> SUFFICES ASSUME BucketInit PROVE BucketInv
  OBVIOUS
<1>1. BucketTypeOK /\ ChanInv /\ NoLostWakeup /\ LimitKept
  BY TotalAssumption
  DEF BucketInit, BucketTypeOK, ChanInv, NoLostWakeup, LimitKept
<1>2. {p \in Procs : pc[p] = "wait"} = {}
  BY DEF BucketInit
<1>3. BlockInv
  BY <1>2, FS_EmptySet DEF BlockInv, BucketInit
<1> QED
  BY <1>1, <1>3 DEF BucketInv

\* A call changes nothing that the invariant looks at.
LEMMA GetResourceInv ==
  ASSUME BucketInv, NEW p \in Procs, NEW c \in Costs, GetResource(p, c)
  PROVE  BucketInv'
<1> USE DEF BucketInv, GetResource
<1>0. c \in Nat
  BY CostsAssumption
<1>1. BucketTypeOK'
  BY <1>0 DEF BucketTypeOK
<1>2. BlockInv'
  BY SameWait DEF BucketTypeOK
<1>3. ChanInv'
  BY ProcsAssumption DEF BucketTypeOK, ChanInv
<1>4. NoLostWakeup'
  BY DEF BucketTypeOK, NoLostWakeup, Admits
<1>5. LimitKept'
  BY DEF BucketTypeOK, LimitKept
<1> QED
  BY <1>1, <1>2, <1>3, <1>4, <1>5

\* One pass of getResImpl: who takes tokens leaves fewer, so those who wait wait
\* rightly, and takes them only from a bucket that is not overdrawn.
LEMMA TryInv ==
  ASSUME BucketInv, NEW p \in Procs, Try(p)
  PROVE  BucketInv'
<1> USE DEF BucketInv
<1>0. pc[p] = "try" /\ cost[p] \in Nat /\ freeResource \in Int
  BY DEF Try, BucketTypeOK
<1>1. CASE Admits(cost[p])
  <2>1. /\ freeResource' = freeResource - cost[p]
        /\ pc' = [pc EXCEPT ![p] = "hold"]
        /\ UNCHANGED <<blockExecutor, chan, cost>>
    BY <1>1 DEF Try
  <2>2. BucketTypeOK'
    BY <1>0, <2>1 DEF BucketTypeOK
  <2>3. BlockInv'
    BY <1>0, <2>1, SameWait DEF BucketTypeOK
  <2>4. ChanInv'
    BY <1>0, <2>1 DEF BucketTypeOK, ChanInv
  <2>5. NoLostWakeup'
    <3>1. \A q \in Procs : pc'[q] = "wait" => pc[q] = "wait" /\ cost[q] \in Nat
      BY <1>0, <2>1 DEF BucketTypeOK
    <3>2. SUFFICES ASSUME NEW q \in Procs, pc'[q] = "wait", chan'[q] = "current"
                   PROVE  ~(Admits(cost[q]))'
      BY DEF NoLostWakeup
    <3>3. ~Admits(cost[q])
      BY <2>1, <3>1, <3>2 DEF NoLostWakeup
    <3> QED
      BY <1>0, <2>1, <3>1, <3>2, <3>3 DEF Admits
  <2>6. LimitKept'
    <3>1. pc'[p] = "hold" /\ cost'[p] = cost[p]
      BY <2>1 DEF BucketTypeOK
    <3>2. freeResource' < 0 => OutOfLimitOnce /\ freeResource' + cost[p] >= 0
      BY <1>0, <1>1, <2>1 DEF Admits
    <3> QED
      BY <3>1, <3>2 DEF LimitKept
  <2> QED
    BY <2>2, <2>3, <2>4, <2>5, <2>6
<1>2. CASE ~Admits(cost[p])
  <2>1. /\ blockExecutor' = blockExecutor + 1
        /\ pc' = [pc EXCEPT ![p] = "wait"]
        /\ chan' = [chan EXCEPT ![p] = "current"]
        /\ UNCHANGED <<freeResource, cost>>
    BY <1>2 DEF Try
  <2>2. BucketTypeOK'
    BY <2>1 DEF BucketTypeOK
  <2>3. BlockInv'
    BY <1>0, <2>1, OneMoreWaits
  <2>4. ChanInv'
    BY <1>0, <2>1, ProcsAssumption DEF BucketTypeOK, ChanInv
  <2>5. NoLostWakeup'
    BY <1>2, <2>1 DEF BucketTypeOK, NoLostWakeup, Admits
  <2>6. LimitKept'
    BY <1>0, <2>1 DEF BucketTypeOK, LimitKept
  <2> QED
    BY <2>2, <2>3, <2>4, <2>5, <2>6
<1> QED
  BY <1>1, <1>2

\* Who stops waiting leaves the rest as it is.
LEMMA StopsWaitingInv ==
  ASSUME BucketInv, NEW p \in Procs, Wake(p) \/ TimeOut(p)
  PROVE  BucketInv'
<1> USE DEF BucketInv
<1>0. PICK s \in {"try", "lacks"} :
        /\ pc[p] = "wait"
        /\ pc' = [pc EXCEPT ![p] = s]
        /\ blockExecutor' = blockExecutor - 1
        /\ chan' = [chan EXCEPT ![p] = "none"]
        /\ UNCHANGED freeResource
        /\ cost' = cost \/ cost' = [cost EXCEPT ![p] = 0]
  BY DEF Wake, TimeOut
<1>1. BlockInv' /\ blockExecutor' \in Nat
  BY <1>0, OneLessWaits
<1>2. BucketTypeOK'
  BY <1>0, <1>1 DEF BucketTypeOK
<1>3. ChanInv'
  BY <1>0, ProcsAssumption DEF BucketTypeOK, ChanInv
<1>4. NoLostWakeup'
  BY <1>0 DEF BucketTypeOK, NoLostWakeup, Admits
<1>5. LimitKept'
  BY <1>0 DEF BucketTypeOK, LimitKept
<1> QED
  BY <1>1, <1>2, <1>3, <1>4, <1>5

\* The error is taken note of.
LEMMA GiveUpInv ==
  ASSUME BucketInv, NEW p \in Procs, GiveUp(p)
  PROVE  BucketInv'
<1> USE DEF BucketInv, GiveUp
<1>1. BucketTypeOK'
  BY DEF BucketTypeOK
<1>2. BlockInv'
  BY SameWait DEF BucketTypeOK
<1>3. ChanInv'
  BY ProcsAssumption DEF BucketTypeOK, ChanInv
<1>4. NoLostWakeup' /\ LimitKept'
  BY DEF BucketTypeOK, NoLostWakeup, LimitKept, Admits
<1> QED
  BY <1>1, <1>2, <1>3, <1>4

\* ReleaseResource: everybody who waits is on the channel that p will close, or
\* the count says, and is right, that nobody waits.  Only a bucket that may be
\* overdrawn needs p to give back as much as it took.
LEMMA ReleaseInv ==
  ASSUME BucketInv, NEW p \in Procs, NEW n \in Nat, ReleaseResource(p, n),
         OutOfLimitOnce => n = cost[p]
  PROVE  BucketInv'
<1> USE DEF BucketInv
<1>0. /\ pc[p] \in {"idle", "hold", "lacks"}
      /\ freeResource' = freeResource + n
      /\ cost' = [cost EXCEPT ![p] = 0]
      /\ UNCHANGED blockExecutor
      /\ cost[p] \in Nat /\ freeResource \in Int
  BY DEF ReleaseResource, BucketTypeOK
<1>1. PICK s \in {"idle", "close"} :
        /\ pc' = [pc EXCEPT ![p] = s]
        /\ s = "close" =>
             chan' = [q \in Procs |-> IF chan[q] = "current" THEN p ELSE chan[q]]
        /\ s = "idle" => blockExecutor = 0 /\ chan' = chan
  BY DEF ReleaseResource, BucketTypeOK
<1>2. BucketTypeOK'
  BY <1>0, <1>1 DEF BucketTypeOK
<1>3. BlockInv'
  <2>1. \A q \in Procs : pc'[q] = "wait" <=> pc[q] = "wait"
    BY <1>0, <1>1 DEF BucketTypeOK
  <2> QED
    BY <1>0, <2>1, SameWait
<1>4. ChanInv'
  BY <1>0, <1>1, ProcsAssumption DEF BucketTypeOK, ChanInv
<1>5. NoLostWakeup'
  <2>1. CASE s = "close"
    <3>1. \A q \in Procs : chan'[q] # "current"
      BY <1>1, <2>1, ProcsAssumption DEF BucketTypeOK
    <3> QED
      BY <3>1 DEF NoLostWakeup
  <2>2. CASE s = "idle"
    <3>1. \A q \in Procs : pc[q] # "wait"
      BY <1>1, <2>2, NobodyWaits
    <3> QED
      BY <1>1, <2>2, <3>1 DEF BucketTypeOK, NoLostWakeup
  <2> QED
    BY <2>1, <2>2
<1>6. LimitKept'
  <2>1. SUFFICES ASSUME freeResource' < 0
                 PROVE  /\ OutOfLimitOnce
                        /\ \E q \in Procs :
                             pc'[q] = "hold" /\ freeResource' + cost'[q] >= 0
    BY DEF LimitKept
  <2>2. freeResource < 0
    BY <1>0, <2>1
  <2>3. PICK h \in Procs : pc[h] = "hold" /\ freeResource + cost[h] >= 0
    BY <2>2 DEF LimitKept
  <2>4. OutOfLimitOnce /\ n = cost[p]
    BY <2>2 DEF LimitKept
  <2>5. h # p
    BY <1>0, <2>1, <2>3, <2>4
  <2>6. pc'[h] = "hold" /\ cost'[h] = cost[h] /\ cost[h] \in Nat
    BY <1>0, <1>1, <2>3, <2>5 DEF BucketTypeOK
  <2>7. freeResource' + cost[h] >= 0
    BY <1>0, <2>3, <2>6
  <2> QED
    BY <2>4, <2>6, <2>7
<1> QED
  BY <1>2, <1>3, <1>4, <1>5, <1>6

\* close(waitBroadcast) touches only channels that are no longer current.
LEMMA CloseInv ==
  ASSUME BucketInv, NEW p \in Procs, Close(p)
  PROVE  BucketInv'
<1> USE DEF BucketInv, Close
<1>1. BucketTypeOK'
  BY DEF BucketTypeOK
<1>2. BlockInv'
  BY SameWait DEF BucketTypeOK
<1>3. ChanInv'
  BY ProcsAssumption DEF BucketTypeOK, ChanInv
<1>4. NoLostWakeup'
  BY DEF BucketTypeOK, NoLostWakeup, Admits
<1>5. LimitKept'
  BY DEF BucketTypeOK, LimitKept
<1> QED
  BY <1>1, <1>2, <1>3, <1>4, <1>5

\* What a goroutine does by itself once it has called.
LEMMA ProceedInv ==
  ASSUME BucketInv, NEW p \in Procs, Proceed(p)
  PROVE  BucketInv'
BY TryInv, StopsWaitingInv, CloseInv DEF Proceed

-----------------------------------------------------------------------------
(* Where the tokens are.  A function w gives every goroutine a number of   *)
(* tokens; the sum of them is the cardinality of a set.                    *)

Tokens(w) == {x \in Procs \X Nat : x[2] \in 1..w[x[1]]}

\* The set holds w[p] tokens of p.
LEMMA TokensOfOne ==
  ASSUME NEW p, NEW n \in Nat
  PROVE  IsFiniteSet({p} \X (1..n)) /\ Cardinality({p} \X (1..n)) = n
<1>1. IsFiniteSet({p}) /\ Cardinality({p}) = 1
  BY FS_Singleton
<1>2. IsFiniteSet(1..n) /\ Cardinality(1..n) = n
  <2>1. 1 \in Int /\ n \in Int
    OBVIOUS
  <2>2. IsFiniteSet(1..n) /\ Cardinality(1..n) = IF 1 > n THEN 0 ELSE n - 1 + 1
    BY <2>1, FS_Interval
  <2> QED
    BY <2>2
<1>3. /\ IsFiniteSet({p} \X (1..n))
      /\ Cardinality({p} \X (1..n)) = Cardinality({p}) * Cardinality(1..n)
  BY <1>1, <1>2, FS_Product
<1> QED
  BY <1>1, <1>2, <1>3

\* v is w but for p, who had no tokens and gets n of them.
LEMMA TokensAdded ==
  ASSUME NEW w, NEW p \in Procs, NEW n \in Nat, w[p] = 0,
         IsFiniteSet(Tokens(w)),
         NEW v, v[p] = n, \A q \in Procs \ {p} : v[q] = w[q]
  PROVE  /\ IsFiniteSet(Tokens(v))
         /\ Cardinality(Tokens(v)) = Cardinality(Tokens(w)) + n
<1> DEFINE T == {p} \X (1..n)
<1>1. IsFiniteSet(T) /\ Cardinality(T) = n
  BY TokensOfOne
<1>2. Tokens(v) = Tokens(w) \cup T
  <2>1. v[p] = n /\ \A q \in Procs : q # p => v[q] = w[q]
    OBVIOUS
  <2>2. ASSUME NEW x \in Procs \X Nat
        PROVE  x \in Tokens(v) <=> x \in Tokens(w) \cup T
    <3>1. CASE x[1] = p
      BY <2>1, <3>1 DEF Tokens
    <3>2. CASE x[1] # p
      BY <2>1, <3>2 DEF Tokens
    <3> QED
      BY <3>1, <3>2
  <2>3. Tokens(v) \subseteq Procs \X Nat /\ Tokens(w) \cup T \subseteq Procs \X Nat
    BY DEF Tokens
  <2> HIDE DEF T
  <2> QED
    BY <2>2, <2>3
<1>3. Tokens(w) \cap T = {}
  <2>1. ASSUME NEW x \in Tokens(w) \cap T
        PROVE  FALSE
    <3>1. x[1] = p /\ x[2] \in 1..w[p]
      BY DEF Tokens
    <3> QED
      BY <3>1
  <2> HIDE DEF T
  <2> QED
    BY <2>1
<1> HIDE DEF T
<1>4. /\ IsFiniteSet(Tokens(w) \cup T)
      /\ Cardinality(Tokens(w) \cup T) =
           Cardinality(Tokens(w)) + Cardinality(T) - Cardinality(Tokens(w) \cap T)
  BY <1>1, FS_Union
<1>5. Cardinality(Tokens(w) \cap T) = 0
  BY <1>3, FS_EmptySet
<1>6. Cardinality(Tokens(w)) \in Nat
  BY FS_CardinalityType
<1>7. Cardinality(Tokens(w) \cup T) = Cardinality(Tokens(w)) + n
  BY <1>1, <1>4, <1>5, <1>6
<1> QED
  BY <1>2, <1>4, <1>7, Zenon

\* p gives all its tokens back.
LEMMA TokensRemoved ==
  ASSUME NEW w \in [Procs -> Nat], NEW p \in Procs, IsFiniteSet(Tokens(w)),
         NEW v, v = [w EXCEPT ![p] = 0]
  PROVE  /\ IsFiniteSet(Tokens(v))
         /\ Cardinality(Tokens(v)) = Cardinality(Tokens(w)) - w[p]
<1>1. /\ v[p] = 0 /\ w[p] \in Nat
      /\ \A q \in Procs \ {p} : w[q] = v[q]
  OBVIOUS
<1>2. Tokens(v) \in SUBSET Tokens(w)
  <2>1. \A q \in Procs : v[q] \in Nat /\ w[q] \in Nat /\ v[q] <= w[q]
    OBVIOUS
  <2> QED
    BY <2>1 DEF Tokens
<1>3. IsFiniteSet(Tokens(v))
  BY <1>2, FS_Subset
<1>4. Cardinality(Tokens(w)) = Cardinality(Tokens(v)) + w[p]
  BY <1>1, <1>3, TokensAdded, Zenon
<1>5. Cardinality(Tokens(v)) \in Nat
  BY <1>3, FS_CardinalityType
<1> QED
  BY <1>1, <1>3, <1>4, <1>5

\* Nobody has tokens.
LEMMA NoTokens ==
  ASSUME NEW w, \A p \in Procs : w[p] = 0
  PROVE  IsFiniteSet(Tokens(w)) /\ Cardinality(Tokens(w)) = 0
<1>1. Tokens(w) = {}
  BY DEF Tokens
<1> QED
  BY <1>1, FS_EmptySet

-----------------------------------------------------------------------------
(* The tokens of the bucket are with those who hold them, or free.         *)

\* What a goroutine has taken.
Held == [p \in Procs |-> IF pc[p] = "hold" THEN cost[p] ELSE 0]

\* Who has not called, or has got an error, is charged nothing.
CostInv == \A p \in Procs : pc[p] \in {"idle", "lacks", "close"} => cost[p] = 0

\* Of t tokens those that nobody holds are free.
Account(t) ==
  IsFiniteSet(Tokens(Held)) /\ freeResource = t - Cardinality(Tokens(Held))

TokensInv == Account(Total)

\* When nobody holds tokens, all of them are free.
AllBack == (\A p \in Procs : pc[p] # "hold") => freeResource = Total

\* The first state, and a step of every kind, keep the account.
LEMMA InitTokens == BucketInit => CostInv /\ TokensInv
<1> SUFFICES ASSUME BucketInit PROVE CostInv /\ TokensInv
  OBVIOUS
<1>1. CostInv /\ \A p \in Procs : Held[p] = 0
  BY DEF BucketInit, CostInv, Held
<1>2. IsFiniteSet(Tokens(Held)) /\ Cardinality(Tokens(Held)) = 0
  BY <1>1, NoTokens
<1> QED
  BY <1>1, <1>2, TotalAssumption DEF TokensInv, Account, BucketInit

LEMMA SameHeld ==
  ASSUME NEW t, Account(t), Held' = Held, UNCHANGED freeResource
  PROVE  Account(t)'
BY DEF Account, Tokens

LEMMA GetResourceTokens ==
  ASSUME BucketTypeOK, CostInv, NEW t \in Int, Account(t), NEW p \in Procs, NEW c,
         GetResource(p, c)
  PROVE  CostInv' /\ Account(t)'
<1>1. CostInv'
  BY DEF CostInv, GetResource, BucketTypeOK
<1>2. Held' = Held
  BY DEF Held, GetResource, BucketTypeOK
<1> QED
  BY <1>1, <1>2, SameHeld DEF GetResource

LEMMA ProceedTokens ==
  ASSUME BucketTypeOK, CostInv, NEW t \in Int, Account(t), NEW p \in Procs, Proceed(p)
  PROVE  CostInv' /\ Account(t)'
<1>1. CASE Try(p) /\ Admits(cost[p])
  <2>1. /\ pc[p] = "try" /\ pc' = [pc EXCEPT ![p] = "hold"]
        /\ freeResource' = freeResource - cost[p]
        /\ UNCHANGED cost
    BY <1>1 DEF Try
  <2>2. Held \in [Procs -> Nat] /\ Held[p] = 0 /\ cost[p] \in Nat
    BY <2>1 DEF Held, BucketTypeOK
  <2>3. Held' = [Held EXCEPT ![p] = cost[p]]
    BY <2>1 DEF Held, BucketTypeOK
  <2>4. IsFiniteSet(Tokens(Held))
    BY DEF Account
  <2>5. /\ IsFiniteSet(Tokens(Held'))
        /\ Cardinality(Tokens(Held')) = Cardinality(Tokens(Held)) + cost[p]
    <3>1. Held'[p] = cost[p] /\ \A q \in Procs \ {p} : Held'[q] = Held[q]
      BY <2>2, <2>3
    <3> QED
      BY <2>2, <2>4, <3>1, TokensAdded, Zenon
  <2>6. Cardinality(Tokens(Held)) \in Nat
    BY <2>4, FS_CardinalityType
  <2>7. (Tokens(Held))' = Tokens(Held')
    BY DEF Tokens
  <2>8. Account(t)'
    BY <2>1, <2>2, <2>5, <2>6, <2>7 DEF Account
  <2> QED
    BY <2>1, <2>8 DEF CostInv, BucketTypeOK
<1>2. CASE Try(p) /\ ~Admits(cost[p])
  <2>1. CostInv'
    BY <1>2 DEF Try, CostInv, BucketTypeOK
  <2>2. Held' = Held
    BY <1>2 DEF Try, Held, BucketTypeOK
  <2> QED
    BY <1>2, <2>1, <2>2, SameHeld DEF Try
<1>3. CASE Wake(p) \/ TimeOut(p) \/ Close(p)
  <2>1. CostInv'
    BY <1>3 DEF Wake, TimeOut, Close, CostInv, BucketTypeOK
  <2>2. Held' = Held
    BY <1>3 DEF Wake, TimeOut, Close, Held, BucketTypeOK
  <2> QED
    BY <1>3, <2>1, <2>2, SameHeld DEF Wake, TimeOut, Close
<1> QED
  BY <1>1, <1>2, <1>3 DEF Proceed

LEMMA GiveUpTokens ==
  ASSUME BucketTypeOK, CostInv, NEW t \in Int, Account(t), NEW p \in Procs, GiveUp(p)
  PROVE  CostInv' /\ Account(t)'
<1>1. CostInv'
  BY DEF CostInv, GiveUp, BucketTypeOK
<1>2. Held' = Held
  BY DEF Held, GiveUp, BucketTypeOK
<1> QED
  BY <1>1, <1>2, SameHeld DEF GiveUp

\* Whatever is given back, who gives it back is charged nothing any more ...
LEMMA ReleaseCost ==
  ASSUME BucketTypeOK, CostInv, NEW p \in Procs, NEW n, ReleaseResource(p, n)
  PROVE  CostInv'
BY DEF CostInv, ReleaseResource, BucketTypeOK

\* ... and the account is short of what it took and did not give back.
LEMMA ReleaseTokens ==
  ASSUME BucketTypeOK, CostInv, NEW t \in Int, Account(t), NEW p \in Procs,
         NEW n \in Nat, ReleaseResource(p, n), NEW d, d = cost[p] - n
  PROVE  Account(t - d)'
<1>1. /\ pc[p] \in {"idle", "hold", "lacks"}
      /\ freeResource' = freeResource + n
      /\ cost' = [cost EXCEPT ![p] = 0]
  BY DEF ReleaseResource
<1>2. PICK s \in {"idle", "close"} : pc' = [pc EXCEPT ![p] = s]
  BY DEF ReleaseResource
<1>3. Held \in [Procs -> Nat] /\ Held[p] = cost[p] /\ cost[p] \in Nat
  BY <1>1 DEF Held, BucketTypeOK, CostInv
<1>4. Held' = [Held EXCEPT ![p] = 0]
  BY <1>1, <1>2 DEF Held, BucketTypeOK
<1>5. IsFiniteSet(Tokens(Held)) /\ freeResource = t - Cardinality(Tokens(Held))
  BY DEF Account
<1>6. /\ IsFiniteSet(Tokens(Held'))
      /\ Cardinality(Tokens(Held')) = Cardinality(Tokens(Held)) - cost[p]
  <2> HIDE DEF Held
  <2> QED
    BY <1>3, <1>4, <1>5, TokensRemoved
<1>7. Cardinality(Tokens(Held)) \in Nat
  BY <1>5, FS_CardinalityType
<1>8. (Tokens(Held))' = Tokens(Held')
  BY DEF Tokens
<1>9. freeResource' = (t - d) - Cardinality(Tokens(Held'))
  BY <1>1, <1>3, <1>5, <1>6, <1>7
<1> QED
  BY <1>6, <1>8, <1>9 DEF Account

\* When nobody holds tokens, all that are accounted for are free.
LEMMA AccountBack ==
  ASSUME NEW t \in Int, Account(t), \A p \in Procs : pc[p] # "hold"
  PROVE  freeResource = t
<1>1. \A p \in Procs : Held[p] = 0
  BY DEF Held
<1>2. Cardinality(Tokens(Held)) = 0
  BY <1>1, NoTokens
<1> QED
  BY <1>2 DEF Account

LEMMA TokensBack == CostInv /\ TokensInv => AllBack
<1>1. Total \in Int
  BY TotalAssumption
<1> QED
  BY <1>1, AccountBack DEF TokensInv, AllBack

-----------------------------------------------------------------------------

\* The invariant of Int64bucket with the account of the tokens.
FullInv == BucketInv /\ CostInv /\ TokensInv

LEMMA InitFull == BucketInit => FullInv
BY InitInv, InitTokens DEF FullInv

LEMMA StepFull ==
  ASSUME FullInv, [BucketNext]_bucketVars
  PROVE  FullInv'
<1> USE DEF FullInv, TokensInv
<1>0. BucketTypeOK /\ Total \in Int
  BY TotalAssumption DEF BucketInv
<1>1. ASSUME NEW p \in Procs, NEW c \in Costs, GetResource(p, c)
      PROVE  FullInv'
  BY <1>0, <1>1, GetResourceInv, GetResourceTokens
<1>2. ASSUME NEW p \in Procs, Proceed(p)
      PROVE  FullInv'
  BY <1>0, <1>2, ProceedInv, ProceedTokens
<1>3. ASSUME NEW p \in Procs, GiveUp(p)
      PROVE  FullInv'
  BY <1>0, <1>3, GiveUpInv, GiveUpTokens
<1>4. ASSUME NEW p \in Procs, ReleaseResource(p, cost[p])
      PROVE  FullInv'
  <2>1. cost[p] \in Nat /\ 0 = cost[p] - cost[p] /\ Total - 0 = Total
    BY <1>0 DEF BucketTypeOK
  <2>2. Account(Total - 0)'
    BY <1>0, <1>4, <2>1, ReleaseTokens
  <2> QED
    BY <1>0, <1>4, <2>1, <2>2, ReleaseInv, ReleaseCost
<1>5. CASE UNCHANGED bucketVars
  <2>1. BucketInv'
    BY <1>5
    DEF BucketInv, BucketTypeOK, BlockInv, ChanInv, NoLostWakeup, LimitKept,
        Admits, bucketVars
  <2>2. CostInv' /\ TokensInv'
    BY <1>5 DEF CostInv, TokensInv, Account, Tokens, Held, bucketVars
  <2> QED
    BY <2>1, <2>2
<1> QED
  BY <1>1, <1>2, <1>3, <1>4, <1>5 DEF BucketNext

\* The invariant of Int64bucket: types, the exact count of the waiting
\* goroutines, the state of their channels, no lost wakeup, the limit.
THEOREM BucketCorrect == BucketSpec => []BucketInv
<1>1. FullInv /\ [BucketNext]_bucketVars => FullInv'
  BY StepFull
<1>2. FullInv => BucketInv
  BY DEF FullInv
<1> QED
  BY <1>1, <1>2, InitFull, PTL DEF BucketSpec

\* The types, and that the count of the waiting goroutines, which falls outside
\* the lock, is never negative.
THEOREM BucketTypeCorrect == BucketSpec => []BucketTypeOK
<1>1. BucketInv => BucketTypeOK
  BY DEF BucketInv
<1> QED
  BY <1>1, BucketCorrect, PTL

\* Who waits on the channel that the next ReleaseResource will close could not
\* have what it asks for: the unlocked count of waiters loses no wakeup.
THEOREM WakeupsKept == BucketSpec => []NoLostWakeup
<1>1. BucketInv => NoLostWakeup
  BY DEF BucketInv
<1> QED
  BY <1>1, BucketCorrect, PTL

\* Whatever times out or is refused, the tokens are with those who hold them, or
\* free.
THEOREM TokensReturn == BucketSpec => []AllBack
<1>1. FullInv /\ [BucketNext]_bucketVars => FullInv'
  BY StepFull
<1>2. FullInv => AllBack
  BY TokensBack DEF FullInv
<1> QED
  BY <1>1, <1>2, InitFull, PTL DEF BucketSpec
==============================================================================
