--------------------------- MODULE PtOffloadProofs ---------------------------
(***************************************************************************)
(* PtOffload, for any number of requests, of other writers and of failed   *)
(* closes: the inductive invariant IInv holds, and with it no request pins *)
(* a closed partition, none panics and no mark is left behind.             *)
(***************************************************************************)
EXTENDS PtOffload, FiniteSetTheorems, TLAPS

-----------------------------------------------------------------------------
(* Facts about the set of requests inside and their number.                *)

\* The requests inside are finitely many, so exeCount can count them.
LEMMA HoldersFinite ==
    ASSUME TypeOK PROVE IsFiniteSet(holders) /\ Cardinality(holders) \in Nat
<1>1. IsFiniteSet(holders)
  BY UsersAssumption, FS_Subset DEF TypeOK
<1>2. QED
  BY <1>1, FS_CardinalityType

\* Forgotten pins are counted too.
LEMMA ForgottenNat == ASSUME TypeOK PROVE forgotten \in Nat
<1>1. forgotten \in 0..MaxForgotten
  BY DEF TypeOK
<1>2. QED
  BY <1>1, BoundAssumption

\* ref() of a request that is not inside adds one to the number inside.
LEMMA CountAdd ==
    ASSUME TypeOK, NEW u, u \notin holders
    PROVE  Cardinality(holders \cup {u}) = Cardinality(holders) + 1
BY HoldersFinite, FS_AddElement

\* unref() of a request inside takes one away: exeCount is at least 1 then,
\* and it reaches 0 exactly when the last request leaves.
LEMMA CountRemove ==
    ASSUME TypeOK, NEW u \in holders
    PROVE  /\ Cardinality(holders \ {u}) = Cardinality(holders) - 1
           /\ Cardinality(holders) # 0
           /\ Cardinality(holders \ {u}) \in Nat
           /\ (Cardinality(holders) - 1 = 0) <=> (holders \ {u} = {})
<1>1. Cardinality(holders \ {u}) = Cardinality(holders) - 1
  BY HoldersFinite, FS_RemoveElement
<1>2. IsFiniteSet(holders \ {u})
  BY HoldersFinite, FS_RemoveElement
<1>3. Cardinality(holders \ {u}) \in Nat
  BY <1>2, FS_CardinalityType
<1>4. Cardinality(holders) # 0
  BY HoldersFinite, FS_EmptySet
<1>5. (Cardinality(holders \ {u}) = 0) <=> (holders \ {u} = {})
  BY <1>2, FS_EmptySet
<1>6. QED
  BY <1>1, <1>3, <1>4, <1>5

\* exeCount is 0 exactly when no request is inside and no pin was forgotten.
LEMMA CountZero ==
    ASSUME TypeOK, CountInv PROVE (exeCount = 0) <=> Unpinned
<1>1. (Cardinality(holders) = 0) <=> (holders = {})
  BY HoldersFinite, FS_EmptySet
<1>2. Cardinality(holders) \in Nat /\ forgotten \in Nat
  BY HoldersFinite, ForgottenNat
<1>3. QED
  BY <1>1, <1>2 DEF CountInv, Unpinned

-----------------------------------------------------------------------------
(* Types.                                                                  *)

\* Every step keeps the types, given that no request leaves that is not
\* counted (CountInv).
LEMMA TypeStep ==
    ASSUME TypeOK, CountInv, [Next]_vars PROVE TypeOK'
<1>a. exeCount \in Nat /\ exeCount + 1 \in Nat
  <2>1. exeCount \in Nat
    BY DEF TypeOK
  <2>2. QED
    BY <2>1
<1>b. closeFails < MaxCloseFail => closeFails + 1 \in 0..MaxCloseFail
  <2>1. closeFails \in 0..MaxCloseFail
    BY DEF TypeOK
  <2>2. QED
    BY <2>1, BoundAssumption
<1>c. forgotten \in 0..MaxForgotten /\ 0 \in 0..MaxForgotten
      /\ (forgotten < MaxForgotten => forgotten + 1 \in 0..MaxForgotten)
  <2>1. forgotten \in 0..MaxForgotten
    BY DEF TypeOK
  <2>2. QED
    BY <2>1, BoundAssumption
<1>1. ASSUME NEW u \in Users, Ref(u) PROVE TypeOK'
  BY <1>1, <1>a DEF Ref, Pins, TypeOK
<1>2. ASSUME NEW u \in Users, Unref(u) PROVE TypeOK'
  <2>1. exeCount - 1 \in Nat
    <3>1. u \in holders
      BY <1>2 DEF Unref, Unpins
    <3>2. Cardinality(holders) \in Nat /\ Cardinality(holders) # 0
      BY <3>1, HoldersFinite, CountRemove
    <3>3. QED
      BY <3>2, <1>c, BoundAssumption DEF CountInv
  <2>2. QED
    BY <1>2, <2>1 DEF Unref, Unpins, RUnlock, TypeOK
<1>2a. ASSUME NEW u \in Users, UnrefForgotten(u) PROVE TypeOK'
  BY <1>2a, <1>c DEF UnrefForgotten, RUnlock, TypeOK
<1>2b. ASSUME NEW u \in Users, GetShard(u) \/ EndUse(u) PROVE TypeOK'
  BY <1>2b DEF GetShard, EndUse, ptVars, pinVars, TypeOK
<1> USE DEF TypeOK, RUnlock, pinVars
<1>3. CASE BeginOffload
  BY <1>3 DEF BeginOffload, MarkOffload, Callers
<1>4. CASE BeginDelete
  BY <1>4 DEF BeginDelete, MarkOffload, Callers
<1>5. CASE PtHasUnloaded
  BY <1>5 DEF PtHasUnloaded, UnMarkOffload
<1>6. ASSUME NEW c \in Callers, Operation(c) PROVE TypeOK'
  <2>1. CASE AllIoBack(c)
    BY <2>1 DEF AllIoBack, ptVars
  <2>2. CASE Timeout(c)
    BY <2>2 DEF Timeout, UnMarkOffload
  <2>3. CASE CloseDBPt(c)
    BY <2>3 DEF CloseDBPt
  <2>4. CASE CloseDBPtFails(c)
    BY <2>4, <1>b DEF CloseDBPtFails, UnMarkOffload
  <2>5. CASE Lock(c)
    BY <2>5 DEF Lock, Announce, ptVars
  <2>6. CASE DropDBPTInfo(c)
    BY <2>6 DEF DropDBPTInfo
  <2>7. QED
    BY <1>6, <2>1, <2>2, <2>3, <2>4, <2>5, <2>6 DEF Operation
<1>7. CASE Assign
  BY <1>7, <1>c DEF Assign
<1>8. ASSUME NEW o \in Others, OtherLocks(o) \/ OtherUnlocks(o) PROVE TypeOK'
  BY <1>8 DEF OtherLocks, OtherUnlocks, Announce, ptVars
<1>9. CASE UNCHANGED vars
  BY <1>9 DEF vars, ptVars
<1>10. QED
  BY <1>1, <1>2, <1>2a, <1>2b, <1>3, <1>4, <1>5, <1>6, <1>7, <1>8, <1>9 DEF Next

-----------------------------------------------------------------------------
(* The inductive invariant.                                                *)

\* A loaded, idle partition satisfies the invariant.
LEMMA IInvInit == ASSUME Init PROVE IInv
<1> USE DEF Init, Idle
<1>1. TypeOK
  <2>1. 0 \in Nat /\ 0 \in 0..MaxCloseFail /\ 0 \in 0..MaxForgotten
    BY BoundAssumption
  <2>2. QED
    BY <2>1 DEF TypeOK
<1>2. CountInv
  BY FS_EmptySet DEF CountInv
<1>3. QED
  BY <1>1, <1>2 DEF IInv, OneOperation, WaitInv, CloseInv, RestInv, LockInv,
                    ShardsInv, NoPanic, Unpinned, Callers

\* ref(): the partition is not marked, so no operation is past its beginning.
LEMMA RefStep ==
    ASSUME IInv, NEW u \in Users, Ref(u)
    PROVE  CountInv' /\ WaitInv' /\ CloseInv' /\ RestInv' /\ LockInv' /\ ShardsInv'
<1> USE DEF IInv
<1>1. CountInv'
  <2>1. Cardinality(holders \cup {u}) = Cardinality(holders) + 1
    BY CountAdd DEF Ref, Pins
  <2>2. Cardinality(holders) \in Nat /\ forgotten \in Nat
    BY HoldersFinite, ForgottenNat
  <2>3. QED
    BY <2>1, <2>2 DEF Ref, Pins, CountInv
<1>2. WaitInv' /\ CloseInv'
  BY DEF Ref, Pins, WaitInv, CloseInv
<1>3. RestInv' /\ ShardsInv'
  BY DEF Ref, Pins, RestInv, ShardsInv, Idle
<1>4. LockInv'
  BY NamesAssumption DEF Ref, Pins, LockInv, Callers, KeepsRLock
<1>5. QED
  BY <1>1, <1>2, <1>3, <1>4

\* A pin left means that no operation is past its wait: the partition is there,
\* and it is marked exactly when dbPT.ch is the channel of the one that waits.
LEMMA PinnedState ==
    ASSUME IInv, ~Unpinned
    PROVE  /\ \A c \in Callers : pc[c] \in {"idle", "wait"}
           /\ present
           /\ \A c \in Callers : pc[c] = "wait" => ch = c /\ offloading /\ done[c] = "empty"
           /\ (\A c \in Callers : Idle(c)) =>
                 ~offloading /\ ch = "nil" /\ shards # "closed"
           /\ offloading => ch \in Callers
<1> USE DEF IInv
<1>1. \A c \in Callers : pc[c] \in {"idle", "wait"}
  BY DEF CloseInv, TypeOK
<1>2. present
  BY <1>1 DEF WaitInv, RestInv, Idle, Callers
<1>3. \A c \in Callers : pc[c] = "wait" => ch = c /\ offloading /\ done[c] = "empty"
  BY DEF WaitInv
<1>4. (\A c \in Callers : Idle(c)) => ~offloading /\ ch = "nil" /\ shards # "closed"
  BY <1>2 DEF RestInv
<1>5. offloading => ch \in Callers
  BY <1>1, <1>3, <1>4 DEF Idle
<1>6. QED
  BY <1>1, <1>2, <1>3, <1>4, <1>5

\* unref(): a request inside means that no operation is past its wait; the
\* last one hands its signal to the operation whose channel dbPT.ch is.
LEMMA UnrefStep ==
    ASSUME IInv, NEW u \in Users, Unref(u)
    PROVE  /\ CountInv' /\ WaitInv' /\ CloseInv' /\ RestInv' /\ LockInv' /\ ShardsInv'
           /\ NoPanic'
<1> USE DEF IInv
<1>1. /\ u \in holders /\ holders' = holders \ {u}
      /\ UNCHANGED <<forgotten, offloading, present, shards, pc>>
  BY DEF Unref, Unpins
<1>b. /\ Cardinality(holders \ {u}) = Cardinality(holders) - 1
      /\ Cardinality(holders \ {u}) \in Nat /\ Cardinality(holders) \in Nat
      /\ forgotten \in Nat
      /\ (Cardinality(holders) - 1 = 0) <=> (holders \ {u} = {})
  BY <1>1, CountRemove, HoldersFinite, ForgottenNat
<1>c. exeCount = Cardinality(holders) + forgotten
  BY DEF CountInv
<1>2. CountInv'
  <2>1. exeCount' = exeCount - 1
    BY DEF Unref, Unpins
  <2>2. exeCount' = Cardinality(holders \ {u}) + forgotten
    BY <1>b, <1>c, <2>1
  <2>3. QED
    BY <1>1, <2>2 DEF CountInv
<1>3. (exeCount - 1 = 0) <=> Unpinned'
  <2>1. (exeCount - 1 = 0) <=> (holders \ {u} = {} /\ forgotten = 0)
    BY <1>b, <1>c
  <2>2. QED
    BY <1>1, <2>1 DEF Unpinned
<1>4. ~Unpinned
  BY <1>1 DEF Unpinned
<1>a. /\ ch' = IF offloading /\ Unpinned' THEN "nil" ELSE ch
      /\ done' = IF offloading /\ Unpinned' /\ ch # "nil"
                 THEN [done EXCEPT ![ch] = "true"] ELSE done
  BY <1>3, Zenon DEF Unref
<1>5. NoPanic'
  BY <1>4, PinnedState DEF Unref, NoPanic, Callers
<1>6. WaitInv'
  <2> SUFFICES ASSUME NEW c \in Callers, pc'[c] = "wait"
               PROVE  /\ present' /\ offloading'
                      /\ IF ch' = c THEN ~Unpinned' /\ done'[c] = "empty"
                         ELSE ch' = "nil" /\ Unpinned' /\ done'[c] = "true"
    BY DEF WaitInv
  <2>1. ch = c /\ offloading /\ done[c] = "empty" /\ present
    BY <1>1, <1>4, PinnedState
  <2>2. CASE Unpinned'
    BY <1>1, <1>a, <2>1, <2>2 DEF TypeOK, Callers
  <2>3. CASE ~Unpinned'
    BY <1>1, <1>a, <2>1, <2>3
  <2>4. QED
    BY <2>2, <2>3
<1>7. CloseInv' /\ ShardsInv'
  BY <1>1, <1>4, PinnedState DEF CloseInv, ShardsInv
<1>8. RestInv'
  BY <1>1, <1>a, <1>4, PinnedState DEF RestInv, Idle
<1>9. LockInv'
  BY NamesAssumption DEF Unref, Unpins, RUnlock, LockInv, Callers, KeepsRLock
<1>10. QED
  BY <1>2, <1>5, <1>6, <1>7, <1>8, <1>9

\* A sweep that forgets its pin leaves as many pins behind as there were.
LEMMA ForgottenStep ==
    ASSUME IInv, NEW u \in Users, UnrefForgotten(u)
    PROVE  CountInv' /\ WaitInv' /\ CloseInv' /\ RestInv' /\ LockInv' /\ ShardsInv'
<1> USE DEF IInv
<1>1. /\ u \in holders /\ holders' = holders \ {u}
      /\ forgotten' = forgotten + 1
      /\ UNCHANGED <<exeCount, offloading, ch, done, present, shards, pc>>
  BY DEF UnrefForgotten
<1>2. forgotten \in Nat
  BY ForgottenNat
<1>3. CountInv'
  <2>1. /\ Cardinality(holders \ {u}) = Cardinality(holders) - 1
        /\ Cardinality(holders) \in Nat
    BY <1>1, CountRemove, HoldersFinite
  <2>2. QED
    BY <1>1, <1>2, <2>1 DEF CountInv
<1>4. ~Unpinned /\ ~Unpinned'
  BY <1>1, <1>2 DEF Unpinned
<1>5. WaitInv' /\ CloseInv' /\ ShardsInv'
  BY <1>1, <1>4, PinnedState DEF WaitInv, CloseInv, ShardsInv
<1>6. RestInv'
  BY <1>1, <1>4, PinnedState DEF RestInv, Idle
<1>7. LockInv'
  BY NamesAssumption DEF UnrefForgotten, RUnlock, LockInv, Callers, KeepsRLock
<1>8. QED
  BY <1>3, <1>5, <1>6, <1>7

\* The invariant, TypeOK and NoPanic apart, as the operations disturb it.
OperationInv ==
    /\ OneOperation /\ CountInv /\ WaitInv /\ CloseInv /\ RestInv
    /\ LockInv /\ ShardsInv

\* The beginning of either operation: a partition without a mark gets one, and
\* its channel exactly when a pin is left.
LEMMA BeginStep ==
    ASSUME IInv, BeginOffload \/ BeginDelete PROVE OperationInv'
<1> USE DEF IInv
<1>1. /\ \A c \in Callers : Idle(c)
      /\ present /\ UNCHANGED <<holders, forgotten, exeCount, present, shards>>
  BY DEF BeginOffload, BeginDelete, Callers, pinVars
<1>2. ~offloading /\ ch = "nil" /\ shards # "closed"
  BY <1>1 DEF RestInv
<1>3. (exeCount = 0) <=> Unpinned
  BY CountZero
<1>4. PICK c \in Callers : /\ MarkOffload(c)
                          /\ readers' = IF c = "Delete" THEN readers \cup {c} ELSE readers
  BY DEF BeginOffload, BeginDelete, Callers
<1>5. /\ offloading'
      /\ ch' = IF ~Unpinned THEN c ELSE "nil"
      /\ pc' = [pc EXCEPT ![c] = IF Unpinned THEN "close" ELSE "wait"]
      /\ done' = [done EXCEPT ![c] = "empty"]
  BY <1>2, <1>3, <1>4 DEF MarkOffload
<1>6. OneOperation' /\ RestInv' /\ ShardsInv'
  BY <1>1, <1>2, <1>5 DEF OneOperation, RestInv, ShardsInv, Idle, TypeOK, Callers
<1>7. CountInv' /\ (Unpinned' <=> Unpinned)
  BY <1>1 DEF CountInv, Unpinned
<1>8. WaitInv' /\ CloseInv'
  BY <1>1, <1>5, <1>7 DEF WaitInv, CloseInv, Idle, TypeOK, Callers
<1>9. LockInv'
  BY <1>1, <1>4, <1>5, NamesAssumption DEF LockInv, Idle, TypeOK, Callers, KeepsRLock
<1>10. QED
  BY <1>6, <1>7, <1>8, <1>9 DEF OperationInv

\* An operation that gives up takes its mark back and leaves the partition as
\* it found it: the only operation under way is this one.
LEMMA GiveUpStep ==
    ASSUME IInv, NEW c \in Callers, pc[c] \in {"wait", "close"}, UnMarkOffload,
           pc' = [pc EXCEPT ![c] = "idle"],
           UNCHANGED <<holders, forgotten, exeCount, present>>,
           readers' = readers \ {c}, shards' \in {shards, "partly"}
    PROVE  OperationInv'
<1> USE DEF IInv
<1>1. present /\ offloading /\ shards # "closed"
  BY DEF WaitInv, CloseInv, ShardsInv, OneOperation, Idle, Callers
<1>2. \A d \in Callers : pc'[d] = "idle"
  BY DEF OneOperation, Idle, TypeOK, Callers
<1>3. CountInv'
  BY DEF CountInv
<1>4. ~offloading' /\ ch' = "nil"
  BY <1>1 DEF UnMarkOffload
<1>5. LockInv'
  BY <1>2, NamesAssumption DEF LockInv, OneOperation, Idle, Callers, KeepsRLock
<1>6. QED
  BY <1>1, <1>2, <1>3, <1>4, <1>5 DEF OperationInv, OneOperation, WaitInv, CloseInv,
                                      RestInv, ShardsInv, Idle, Callers

\* Past the wait nothing but the operation itself moves.
LEMMA OperationStep ==
    ASSUME IInv, NEW c \in Callers, Operation(c) PROVE OperationInv'
<1> USE DEF IInv, pinVars, RUnlock
<1>0. ASSUME UNCHANGED <<holders, forgotten, exeCount>>
      PROVE  CountInv' /\ (Unpinned' <=> Unpinned)
  BY <1>0 DEF CountInv, Unpinned
<1>1. CASE AllIoBack(c)
  <2>1. present /\ offloading /\ ch = "nil" /\ Unpinned
    BY <1>1 DEF AllIoBack, WaitInv
  <2>2. QED
    BY <1>0, <1>1, <2>1 DEF AllIoBack, ptVars, OperationInv, OneOperation,
        WaitInv, CloseInv, RestInv, LockInv, ShardsInv, Idle, TypeOK, Callers, KeepsRLock
<1>2. CASE Timeout(c)
  BY <1>2, GiveUpStep DEF Timeout
<1>3. CASE CloseDBPt(c)
  <2>1. present /\ offloading /\ ch = "nil" /\ Unpinned
    BY <1>3 DEF CloseDBPt, CloseInv
  <2>2. LockInv'
    BY <1>3, NamesAssumption DEF CloseDBPt, LockInv, OneOperation, Idle, TypeOK,
        Callers, KeepsRLock
  <2>3. QED
    BY <1>0, <1>3, <2>1, <2>2 DEF CloseDBPt, OperationInv, OneOperation,
        WaitInv, CloseInv, RestInv, ShardsInv, Idle, TypeOK, Callers
<1>4. CASE CloseDBPtFails(c)
  BY <1>4, GiveUpStep DEF CloseDBPtFails
<1>5. CASE Lock(c)
  BY <1>0, <1>5 DEF Lock, ptVars, OperationInv, OneOperation,
      WaitInv, CloseInv, RestInv, LockInv, ShardsInv, Idle, TypeOK, Callers, KeepsRLock
<1>6. CASE DropDBPTInfo(c)
  <2>1. Unpinned
    BY <1>6 DEF DropDBPTInfo, CloseInv
  <2>2. QED
    BY <1>0, <1>6, <2>1 DEF DropDBPTInfo, OperationInv, OneOperation,
        WaitInv, CloseInv, RestInv, LockInv, ShardsInv, Idle, TypeOK, Callers, KeepsRLock
<1>7. QED
  BY <1>1, <1>2, <1>3, <1>4, <1>5, <1>6 DEF Operation

\* Every step of a request, an operation or another writer keeps IInv.
LEMMA IInvStep == ASSUME IInv, [Next]_vars PROVE IInv'
<1> USE DEF IInv
<1>1. TypeOK'
  BY TypeStep
<1>2. ASSUME NEW u \in Users, Ref(u) PROVE OperationInv' /\ NoPanic'
  BY <1>2, RefStep DEF Ref, Pins, OperationInv, OneOperation, Idle, NoPanic
<1>3. ASSUME NEW u \in Users, Unref(u) PROVE OperationInv' /\ NoPanic'
  BY <1>3, UnrefStep DEF Unref, Unpins, OperationInv, OneOperation, Idle
<1>3a. ASSUME NEW u \in Users, UnrefForgotten(u) PROVE OperationInv' /\ NoPanic'
  BY <1>3a, ForgottenStep DEF UnrefForgotten, OperationInv, OneOperation, Idle, NoPanic
<1>4. ASSUME BeginOffload \/ BeginDelete PROVE OperationInv' /\ NoPanic'
  <2>1. NoPanic'
    BY <1>4 DEF BeginOffload, BeginDelete, NoPanic
  <2>2. QED
    BY <1>4, <2>1, BeginStep
<1>5. ASSUME PtHasUnloaded PROVE OperationInv' /\ NoPanic'
  <2>1. /\ pc["Offload"] = "wait" /\ UnMarkOffload
        /\ pc' = [pc EXCEPT !["Offload"] = "idle"]
        /\ UNCHANGED <<holders, forgotten, exeCount, present, shards, fault, readers>>
    BY <1>5 DEF PtHasUnloaded, pinVars
  <2>2. readers' = readers \ {"Offload"}
    BY <2>1, NamesAssumption DEF TypeOK, Callers
  <2>3. OperationInv'
    BY <2>1, <2>2, GiveUpStep DEF Callers
  <2>4. QED
    BY <2>1, <2>3 DEF NoPanic
<1>6. ASSUME NEW c \in Callers, Operation(c) PROVE OperationInv' /\ NoPanic'
  <2>1. NoPanic'
    BY <1>6 DEF Operation, AllIoBack, Timeout, CloseDBPt, CloseDBPtFails, Lock,
                DropDBPTInfo, ptVars, NoPanic
  <2>2. QED
    BY <1>6, <2>1, OperationStep
<1>7. ASSUME Assign PROVE OperationInv' /\ NoPanic'
  <2>1. holders = {}
    BY <1>7 DEF Assign, RestInv, Callers, Unpinned
  <2>2. CountInv'
    BY <1>7, <2>1, FS_EmptySet DEF Assign, CountInv
  <2>3. /\ \A c \in Callers : pc'[c] = "idle"
        /\ present' /\ ~offloading' /\ ch' = "nil" /\ shards' = "open"
        /\ fault' = fault /\ UNCHANGED <<holders, readers, pc>>
    BY <1>7 DEF Assign, Idle, Callers
  <2>4. QED
    BY <2>2, <2>3 DEF OperationInv, OneOperation, WaitInv, CloseInv, RestInv,
        LockInv, ShardsInv, NoPanic, Idle, Callers, KeepsRLock
<1>8. ASSUME NEW o \in Others, OtherLocks(o) \/ OtherUnlocks(o)
      PROVE  UNCHANGED <<ptVars, pc, readers>>
  BY <1>8 DEF OtherLocks, OtherUnlocks
<1>8a. ASSUME NEW u \in Users, GetShard(u) \/ EndUse(u)
       PROVE  UNCHANGED <<ptVars, pc, readers>>
  BY <1>8a DEF GetShard, EndUse
<1>9. ASSUME UNCHANGED <<ptVars, pc, readers>> PROVE OperationInv' /\ NoPanic'
  <2>1. OneOperation' /\ CountInv' /\ NoPanic' /\ (Unpinned' <=> Unpinned)
    BY <1>9 DEF ptVars, pinVars, OneOperation, CountInv, NoPanic, Idle, Unpinned
  <2>2. WaitInv' /\ CloseInv' /\ LockInv'
    BY <1>9, <2>1 DEF ptVars, pinVars, WaitInv, CloseInv, LockInv, KeepsRLock
  <2>3. RestInv' /\ ShardsInv'
    BY <1>9, <2>1 DEF ptVars, pinVars, RestInv, ShardsInv, Idle
  <2>4. QED
    BY <2>1, <2>2, <2>3 DEF OperationInv
<1>10. OperationInv' /\ NoPanic'
  BY <1>2, <1>3, <1>3a, <1>4, <1>5, <1>6, <1>7, <1>8, <1>8a, <1>9 DEF Next, vars
<1>11. QED
  BY <1>1, <1>10 DEF OperationInv

-----------------------------------------------------------------------------
(* Theorems.                                                               *)

\* The invariant of ref, unref, markOffload, unMarkOffload and their callers
\* holds for any number of requests, other writers and failed closes.
THEOREM InductiveInvariant == Spec => []IInv
<1>1. Init => IInv
  BY IInvInit
<1>2. IInv /\ [Next]_vars => IInv'
  BY IInvStep
<1>3. QED
  BY <1>1, <1>2, PTL DEF Spec

\* The fields of dbPT and the locks keep their types; exeCount in particular
\* never falls below 0.
THEOREM TypeCorrect == Spec => []TypeOK
<1>1. IInv => TypeOK
  BY DEF IInv
<1>2. QED
  BY <1>1, InductiveInvariant, PTL

\* No request has a pin on a partition that offloadDbPT or DeleteDatabase closes,
\* has closed or has taken out of DBPartitions.
THEOREM UseAfterClose == Spec => []NoUseAfterClose
<1>1. IInv => NoUseAfterClose
  <2> SUFFICES ASSUME IInv,
                      shards = "closed" \/ ~present
                        \/ \E c \in Callers : pc[c] \in {"close", "lock", "drop"}
               PROVE  holders = {}
    BY DEF NoUseAfterClose
  <2>1. CASE \E c \in Callers : pc[c] \in {"close", "lock", "drop"}
    BY <2>1 DEF IInv, CloseInv, Unpinned
  <2>2. CASE ~present
    BY <2>2 DEF IInv, TypeOK, WaitInv, CloseInv, RestInv, Idle, Unpinned
  <2>3. CASE shards = "closed"
    BY <2>1, <2>2, <2>3 DEF IInv, ShardsInv
  <2>4. QED
    BY <2>1, <2>2, <2>3
<1>2. QED
  BY <1>1, InductiveInvariant, PTL

\* No request hits the panics of unref (no channel) and unrefDBPTNoLock (no
\* partition of that name).
THEOREM PanicFree == Spec => []NoPanic
<1>1. IInv => NoPanic
  BY DEF IInv
<1>2. QED
  BY <1>1, InductiveInvariant, PTL

\* A drop or a migration that gives up leaves the partition usable.
THEOREM MarksTakenBack == Spec => []MarkTakenBack
<1>1. IInv => MarkTakenBack
  BY DEF IInv, RestInv, MarkTakenBack
<1>2. QED
  BY <1>1, InductiveInvariant, PTL
==============================================================================
