---------------------------- MODULE RaftNodeProofs ----------------------------
(***************************************************************************)
(* A replica keeps what is committed, takes it from the log for the shards *)
(* once and in order, and its files implement the storage the raft library *)
(* relies on: for any number of entries, terms, files, slots and shards,   *)
(* as long as a conflict deletes at most one file, and until a             *)
(* ClearEntryLog that names no entry is applied.                           *)
(***************************************************************************)
EXTENDS RaftNode, RaftLogProofs, FiniteSetTheorems

\* A crash while two extra files are being deleted leaves a gap in the log.
OneExtraFile == MaxExtra <= 1

-----------------------------------------------------------------------------
(* The inductive invariant.                                                *)

\* A ClearEntryLog is about indexes before its own, or names no entry.
ClearsBefore(e) == e.data.kind = "clear" => e.data.index < e.index \/ e.data.index = MaxUint64
\* Of one this node proposed: where the entry it names is now in log l, clearing
\* the files before it leaves what the slowest peer had, or clears nothing.
PeerSafe(l, c, d) ==
  d.kind = "clear" /\ d.match > 0 =>
    /\ d.match <= c /\ d.index <= c
    /\ d.index = d.match \/ \A k \in 1..Num(l) : In(l, k, d.index) => k = 1 \/ Starts(l)[k] <= d.match
Harmless(l, c, e) == ClearsBefore(e) /\ PeerSafe(l, c, e.data)

\* A log without gaps that reaches the commit index c, with the committed entries
\* as they were chosen.
LogOK(l, c, ch) ==
  /\ Wf(l)
  /\ Lo(l) <= c /\ c < Hi(l) /\ Hi(l) <= MaxIndex + 1
  /\ ch \in Seq(Entry) /\ Len(ch) = c
  /\ \A k \in 1..Num(l), i \in 1..MaxIndex : In(l, k, i) =>
       /\ i <= c => At(l, k, i).term = ch[i].term
       /\ Harmless(l, c, At(l, k, i))

LogInv ==
  /\ LogOK(log, commit, chosen)
  /\ Lo(log) <= 1 \/ Lo(log) <= cleared \/ Lo(log) <= meta.index
  /\ phase = "up" => Lo(log) <= rapplied + 1

\* Nothing runs in a node that is not up.
DownInv ==
  phase # "up" => /\ rapplied = 0 /\ appliedIndex = 0 /\ given = <<>>
                  /\ sv = Idle /\ ap = NotApplying /\ replay = NotReplaying /\ sg = NotSnapping
                  /\ cindex = 0 /\ proposal = NoData
                  /\ \A s \in Shards : fl[s] = "unset"

Rising(ents) == \A j \in 1..Len(ents) : ents[j].index = ents[1].index + j - 1

\* What the raft library hands out follows what was handed out before.
ServeInv ==
  /\ sv \in [at : {"idle", "publish", "wait"}, ents : Seq(Entry)]
  /\ sv.ents # <<>> => sv.at = "publish"
  /\ Rising(sv.ents)
  /\ sv.ents = <<>> => rapplied <= appliedIndex
  /\ sv.ents # <<>> => /\ sv.ents[1].index <= appliedIndex + 1
                       /\ Last(sv.ents).index = rapplied
  /\ \A j \in 1..Len(sv.ents) : Harmless(log, commit, sv.ents[j])
  /\ rapplied <= commit

ApplyInv ==
  /\ ap \in [at : {"idle", "apply", "update"}, todo : Seq(Entry), ci : Nat]
  /\ ap.todo # <<>> => ap.at = "apply"
  /\ ap.ci <= appliedIndex
  /\ ap.at = "apply" => sv.at = "wait"
  /\ \A j \in 1..Len(ap.todo) : ap.todo[j].index <= rapplied /\ Harmless(log, commit, ap.todo[j])

\* The indexes taken from the log for the shards since the start.
GivenInv ==
  /\ given \in Seq(Nat)
  /\ \A k \in 1..Len(given) : given[k] = given[1] + k - 1
  /\ phase = "up" => /\ given # <<>>
                     /\ given[1] <= 1 \/ given[1] <= meta.snap
                     /\ Last(given) = appliedIndex
  /\ appliedIndex <= commit

\* Rows of the replay wait behind what is applied, and before what the commits have
\* to write.
ReplayInv ==
  /\ replay \in [listed : BOOLEAN, todo : Seq(Entry)]
  /\ \A k \in 1..Len(replay.todo) :
       /\ replay.todo[k].index <= appliedIndex
       /\ \A j \in 1..Len(ap.todo) : replay.todo[k].index < ap.todo[j].index

\* The snapshot index moves up, behind what is applied.
SnapInv ==
  /\ cindex <= appliedIndex
  /\ meta.index <= commit /\ meta.snap <= commit
  /\ phase = "up" => meta.snap <= cindex
  /\ sg.at \in {"create", "store"} => meta.snap <= sg.index
  /\ sg.index <= cindex

ProposalInv ==
  /\ proposal \in Data
  /\ proposal.kind = "clear" => proposal.index <= commit \/ proposal.index = MaxUint64
  /\ PeerSafe(log, commit, proposal)

Typed ==
  /\ commit \in Nat /\ rapplied \in Nat /\ appliedIndex \in Nat /\ cindex \in Nat /\ cleared \in Nat
  /\ meta \in [index : Nat, snap : Nat]
  /\ phase \in {"down", "up", "refused", "panicked"}
  /\ flag \in {0, 1}
  /\ fl \in [Shards -> {"unset", "idle", "locked"}]
  /\ sg \in [at : {"idle", "read", "create", "store"}, index : Nat]

IInv == /\ Typed
        /\ LogInv
        /\ DownInv
        /\ ServeInv
        /\ ApplyInv
        /\ GivenInv
        /\ ReplayInv
        /\ SnapInv
        /\ ProposalInv
        /\ ReplayReads
-----------------------------------------------------------------------------
(* Logs that reach the commit index.                                       *)

LEMMA MinOfTwo ==
  ASSUME NEW a \in Int, NEW b \in Int
  PROVE  Min({a, b}) \in {a, b} /\ Min({a, b}) <= a /\ Min({a, b}) <= b
<1>1. PICK S : S = {a, b}
  OBVIOUS
<1>2. CASE a <= b
  <2>1. S \subseteq Int /\ a \in S /\ \A y \in S : a <= y
    BY <1>1, <1>2
  <2>2. Min(S) = a
    BY <2>1, MinIs
  <2> QED
    BY <1>1, <1>2, <2>2
<1>3. CASE b <= a
  <2>1. S \subseteq Int /\ b \in S /\ \A y \in S : b <= y
    BY <1>1, <1>3
  <2>2. Min(S) = b
    BY <2>1, MinIs
  <2> QED
    BY <1>1, <1>3, <2>2
<1> QED
  BY <1>2, <1>3

LEMMA MaxOfTwo ==
  ASSUME NEW a \in Int, NEW b \in Int
  PROVE  Max({a, b}) \in {a, b} /\ Max({a, b}) >= a /\ Max({a, b}) >= b
<1>1. PICK S : S = {a, b}
  OBVIOUS
<1>2. CASE a >= b
  <2>1. S \subseteq Int /\ a \in S /\ \A y \in S : a >= y
    BY <1>1, <1>2
  <2>2. Max(S) = a
    BY <2>1, MaxIs
  <2> QED
    BY <1>1, <1>2, <2>2
<1>3. CASE b >= a
  <2>1. S \subseteq Int /\ b \in S /\ \A y \in S : b >= y
    BY <1>1, <1>3
  <2>2. Max(S) = b
    BY <2>1, MaxIs
  <2> QED
    BY <1>1, <1>3, <2>2
<1> QED
  BY <1>2, <1>3

\* A ClearEntryLog stays safe for the peers in a log that keeps what is committed.
LEMMA PeerKept ==
  ASSUME NEW l, NEW m, NEW b \in Nat, NEW c \in Nat, NEW c2 \in Nat, c <= b, c <= c2,
         Keeps(l, m, b), NEW d \in Data, PeerSafe(l, c, d)
  PROVE  PeerSafe(m, c2, d)
<1>1. SUFFICES ASSUME d.kind = "clear", d.match > 0
               PROVE  /\ d.match <= c2 /\ d.index <= c2
                      /\ d.index = d.match
                         \/ \A k \in 1..Num(m) : In(m, k, d.index) => k = 1 \/ Starts(m)[k] <= d.match
  BY DEF PeerSafe
<1>2. d.match \in Nat /\ d.index \in Nat
  BY DEF Data
<1>3. d.match <= c /\ d.index <= c
  BY <1>1 DEF PeerSafe
<1>4. d.match <= c2 /\ d.index <= c2 /\ d.index <= b
  BY <1>2, <1>3
<1>5. ASSUME d.index # d.match, NEW k \in 1..Num(m), In(m, k, d.index)
      PROVE  k = 1 \/ Starts(m)[k] <= d.match
  <2>1. PICK j \in 1..Num(l) : In(l, j, d.index) /\ Starts(m)[k] = Starts(l)[j] /\ (j = 1 => k = 1)
    BY <1>2, <1>4, <1>5 DEF Keeps
  <2>2. j = 1 \/ Starts(l)[j] <= d.match
    BY <1>1, <1>5, <2>1 DEF PeerSafe
  <2> QED
    BY <2>1, <2>2
<1> QED
  BY <1>4, <1>5

LEMMA HarmlessKept ==
  ASSUME NEW l, NEW m, NEW b \in Nat, NEW c \in Nat, NEW c2 \in Nat, c <= b, c <= c2,
         Keeps(l, m, b), NEW e \in Entry, NEW f \in Entry, SameSlot(f, e), Harmless(l, c, e)
  PROVE  Harmless(m, c2, f)
<1>1. e.data \in Data /\ f.data \in Data
  BY DEF Entry
<1>2. CASE f.data = e.data
  <2>1. PeerSafe(l, c, e.data)
    BY DEF Harmless
  <2>2. PeerSafe(m, c2, f.data)
    BY <1>1, <1>2, <2>1, PeerKept
  <2> QED
    BY <1>2, <2>2 DEF Harmless, ClearsBefore, SameSlot
<1>3. CASE f.data = NoData
  BY <1>3 DEF Harmless, ClearsBefore, PeerSafe, NoData
<1> QED
  BY <1>2, <1>3 DEF SameSlot

\* What LogOK says of a slot.
LEMMA LogSlot ==
  ASSUME NEW l, NEW c \in Nat, NEW ch, LogOK(l, c, ch), NEW k, NEW i \in Nat, In(l, k, i)
  PROVE  /\ i <= c => At(l, k, i).term = ch[i].term
         /\ Harmless(l, c, At(l, k, i))
         /\ At(l, k, i) \in Entry /\ At(l, k, i).index = i /\ k \in 1..Num(l) /\ i \in 1..MaxIndex
<1>1. /\ Wf(l) /\ Hi(l) <= MaxIndex + 1
  BY DEF LogOK
<1>2. /\ k \in 1..Num(l) /\ At(l, k, i) \in Entry /\ At(l, k, i).index = i
      /\ Lo(l) <= i /\ i < Hi(l)
  BY <1>1, InFacts
<1>3. Lo(l) \in Nat \ {0} /\ Hi(l) \in Nat /\ MaxIndex \in Nat
  BY <1>1, LoHi, BoundsAssumption
<1>4. i \in 1..MaxIndex
  BY <1>1, <1>2, <1>3
<1> QED
  BY <1>2, <1>4 DEF LogOK

LEMMA LogNums ==
  ASSUME NEW l, NEW c \in Nat, NEW ch, LogOK(l, c, ch)
  PROVE  /\ Wf(l) /\ Lo(l) \in Nat \ {0} /\ Hi(l) \in Nat /\ MaxIndex \in Nat \ {0}
         /\ Lo(l) <= c /\ c < Hi(l) /\ Hi(l) <= MaxIndex + 1 /\ c \in 1..MaxIndex
         /\ FirstIndex(l) = Lo(l) /\ LastIndex(l) = Hi(l) - 1
<1>1. Wf(l) /\ Lo(l) <= c /\ c < Hi(l) /\ Hi(l) <= MaxIndex + 1
  BY DEF LogOK
<1>2. Lo(l) \in Nat \ {0} /\ Hi(l) \in Nat /\ MaxIndex \in Nat \ {0}
  BY <1>1, LoHi, BoundsAssumption
<1>3. FirstIndex(l) = Lo(l) /\ LastIndex(l) = Hi(l) - 1
  BY <1>1, FirstIndexIs, LastIndexIs
<1>4. c \in 1..MaxIndex
  BY <1>1, <1>2
<1> QED
  BY <1>1, <1>2, <1>3, <1>4

\* A log that keeps another up to index b, and is sound above.
LEMMA LogKept ==
  ASSUME NEW l, NEW c \in Nat, NEW ch, LogOK(l, c, ch),
         NEW m, Wf(m), Lo(m) <= c, c < Hi(m), Hi(m) <= MaxIndex + 1,
         NEW b \in Nat, c <= b, Keeps(l, m, b),
         \A k \in 1..Num(m), i \in Nat : In(m, k, i) /\ i > b => Harmless(m, c, At(m, k, i))
  PROVE  LogOK(m, c, ch)
<1>1. ASSUME NEW k \in 1..Num(m), NEW i \in 1..MaxIndex, In(m, k, i)
      PROVE  /\ i <= c => At(m, k, i).term = ch[i].term
             /\ Harmless(m, c, At(m, k, i))
  <2>0. i \in Nat
    BY BoundsAssumption
  <2>1. CASE i <= b
    <3>1. PICK j \in 1..Num(l) : In(l, j, i) /\ SameSlot(At(m, k, i), At(l, j, i))
      BY <1>1, <2>0, <2>1 DEF Keeps
    <3>2. /\ i <= c => At(l, j, i).term = ch[i].term
          /\ Harmless(l, c, At(l, j, i)) /\ At(l, j, i) \in Entry
      BY <2>0, <3>1, LogSlot
    <3>3. At(m, k, i) \in Entry
      BY <1>1, <2>0, InFacts
    <3>4. Harmless(m, c, At(m, k, i))
      <4>1. c <= c
        OBVIOUS
      <4> QED
        BY <3>1, <3>2, <3>3, <4>1, HarmlessKept
    <3>5. At(m, k, i).term = At(l, j, i).term
      BY <3>1 DEF SameSlot
    <3> QED
      BY <3>2, <3>4, <3>5
  <2>2. CASE ~(i <= b)
    <3>1. i > b /\ ~(i <= c)
      BY <2>0, <2>2
    <3> QED
      BY <1>1, <2>0, <3>1
  <2> QED
    BY <2>1, <2>2
<1> QED
  BY <1>1 DEF LogOK

\* Deleting, opening, cutting: a log that keeps all it holds.
LEMMA LogShrunk ==
  ASSUME NEW l, NEW c \in Nat, NEW ch, LogOK(l, c, ch),
         NEW m, Wf(m), Lo(m) <= c, c < Hi(m), Hi(m) <= Hi(l), \A d \in Nat : Keeps(l, m, d)
  PROVE  LogOK(m, c, ch) /\ Keeps(l, m, c)
<1>1. /\ Hi(l) \in Nat /\ MaxIndex \in Nat /\ Hi(l) <= MaxIndex + 1
  BY LogNums
<1>2. Hi(m) \in Nat
  BY LoHi
<1>3. Hi(m) <= MaxIndex + 1 /\ Keeps(l, m, Hi(m)) /\ c <= Hi(m) /\ Keeps(l, m, c)
  BY <1>1, <1>2
<1>4. ASSUME NEW k \in 1..Num(m), NEW i \in Nat, In(m, k, i), i > Hi(m)
      PROVE  FALSE
  <2>1. i < Hi(m)
    BY <1>4, InFacts
  <2> QED
    BY <1>2, <1>4, <2>1
<1>5. \A k \in 1..Num(m), i \in Nat : In(m, k, i) /\ i > Hi(m) => Harmless(m, c, At(m, k, i))
  BY <1>4
<1> QED
  BY <1>2, <1>3, <1>5, LogKept

\* es are the entries after a up to b.
IsRead(l, a, b, es) == /\ Wf(l) /\ a \in Nat /\ b \in Nat
                       /\ Lo(l) <= a + 1 /\ a <= b /\ b < Hi(l)
                       /\ es = AllEntries(l, a + 1, b + 1)

Copies(l, a, b, es) ==
  /\ es \in Seq(Entry) /\ Len(es) = b - a
  /\ \A x \in 1..(b - a) : /\ es[x] \in Entry /\ es[x].index = a + x
                           /\ \E k \in 1..Num(l) : In(l, k, a + x) /\ es[x] = At(l, k, a + x)

LEMMA Read ==
  ASSUME NEW l, NEW a, NEW b, NEW es, IsRead(l, a, b, es)
  PROVE  Copies(l, a, b, es)
<1>0. /\ Wf(l) /\ a \in Nat /\ b \in Nat
      /\ Lo(l) <= a + 1 /\ a <= b /\ b < Hi(l)
      /\ es = AllEntries(l, a + 1, b + 1)
  BY DEF IsRead
<1>1. PICK lo \in Nat, hi \in Nat : lo = a + 1 /\ hi = b + 1
  BY <1>0
<1>2. Hi(l) \in Nat
  BY <1>0, LoHi
<1>3. Lo(l) <= lo /\ lo <= hi /\ hi <= Hi(l) /\ hi - lo = b - a
  BY <1>0, <1>1, <1>2
<1>4. es = AllEntries(l, lo, hi)
  BY <1>0, <1>1
<1>5. /\ AllEntries(l, lo, hi) \in Seq(Entry) /\ Len(AllEntries(l, lo, hi)) = hi - lo
      /\ \A x \in 1..(hi - lo) : \E k \in 1..Num(l) :
           In(l, k, lo + x - 1) /\ AllEntries(l, lo, hi)[x] = At(l, k, lo + x - 1)
  BY <1>0, <1>3, AllEntriesIs, ZenonT(30)
<1>6. es \in Seq(Entry) /\ Len(es) = b - a
  BY <1>3, <1>4, <1>5
<1>7. ASSUME NEW x \in 1..(b - a)
      PROVE  /\ es[x] \in Entry /\ es[x].index = a + x
             /\ \E k \in 1..Num(l) : In(l, k, a + x) /\ es[x] = At(l, k, a + x)
  <2>1. lo + x - 1 = a + x /\ a + x \in Nat /\ x \in 1..(hi - lo)
    BY <1>0, <1>1, <1>3
  <2>2. PICK k \in 1..Num(l) : In(l, k, a + x) /\ es[x] = At(l, k, a + x)
    BY <1>4, <1>5, <2>1
  <2>3. At(l, k, a + x) \in Entry /\ At(l, k, a + x).index = a + x
    BY <1>0, <2>1, <2>2, InFacts
  <2> QED
    BY <2>2, <2>3
<1> QED
  BY <1>6, <1>7 DEF Copies

\* The commit index moves: the entries are chosen as they are in the log.
LEMMA LogCommitted ==
  ASSUME NEW l, NEW c \in Nat, NEW ch, LogOK(l, c, ch), NEW c2 \in Nat, c <= c2, c2 < Hi(l)
  PROVE  LogOK(l, c2, ch \o AllEntries(l, c + 1, c2 + 1))
<1>0. /\ Wf(l) /\ Lo(l) <= c /\ Lo(l) \in Nat /\ Hi(l) \in Nat /\ Hi(l) <= MaxIndex + 1
      /\ MaxIndex \in Nat
  BY LogNums
<1>1. PICK es : es = AllEntries(l, c + 1, c2 + 1)
  OBVIOUS
<1>2. Lo(l) <= c + 1 /\ Lo(l) <= c2
  BY <1>0
<1>3. /\ es \in Seq(Entry) /\ Len(es) = c2 - c
      /\ \A x \in 1..(c2 - c) : \E k \in 1..Num(l) : In(l, k, c + x) /\ es[x] = At(l, k, c + x)
  <2>1. IsRead(l, c, c2, es)
    BY <1>0, <1>1, <1>2 DEF IsRead
  <2> QED
    <3>1. Copies(l, c, c2, es)
      BY <2>1, Read
    <3> QED
      BY <3>1 DEF Copies
<1>4. ch \in Seq(Entry) /\ Len(ch) = c
  BY DEF LogOK
<1>5. PICK ch2 : ch2 = ch \o es
  OBVIOUS
<1>6. /\ ch2 \in Seq(Entry) /\ Len(ch2) = c2
      /\ \A i \in 1..c2 : ch2[i] = IF i <= c THEN ch[i] ELSE es[i - c]
  <2>1. /\ ch2 \in Seq(Entry) /\ Len(ch2) = Len(ch) + Len(es)
        /\ \A i \in 1..(Len(ch) + Len(es)) : ch2[i] = IF i <= Len(ch) THEN ch[i] ELSE es[i - Len(ch)]
    BY <1>3, <1>4, <1>5, ConcatProperties
  <2>2. Len(ch) + Len(es) = c2
    BY <1>3, <1>4
  <2> QED
    BY <1>4, <2>1, <2>2
<1>7. ASSUME NEW k \in 1..Num(l), NEW i \in 1..MaxIndex, In(l, k, i)
      PROVE  /\ i <= c2 => At(l, k, i).term = ch2[i].term
             /\ Harmless(l, c2, At(l, k, i))
  <2>0. i \in Nat /\ i >= 1
    BY <1>0
  <2>1. /\ i <= c => At(l, k, i).term = ch[i].term
        /\ Harmless(l, c, At(l, k, i)) /\ At(l, k, i) \in Entry
    BY <1>7, <2>0, LogSlot
  <2>2. Harmless(l, c2, At(l, k, i))
    <3>1. Keeps(l, l, c) /\ c <= c /\ SameSlot(At(l, k, i), At(l, k, i))
      BY DEF Keeps, SameSlot
    <3> QED
      BY <2>1, <3>1, HarmlessKept
  <2>3. ASSUME i <= c2
        PROVE  At(l, k, i).term = ch2[i].term
    <3>1. i \in 1..c2
      BY <2>0, <2>3
    <3>2. CASE i <= c
      BY <1>6, <2>1, <3>1, <3>2
    <3>3. CASE ~(i <= c)
      <4>1. i - c \in 1..(c2 - c) /\ c + (i - c) = i
        BY <2>0, <2>3, <3>3
      <4>2. PICK j \in 1..Num(l) : In(l, j, i) /\ es[i - c] = At(l, j, i)
        BY <1>3, <4>1
      <4>3. j = k
        BY <1>0, <1>7, <2>0, <4>2, InFacts
      <4> QED
        BY <1>6, <3>1, <3>3, <4>2, <4>3
    <3> QED
      BY <3>2, <3>3
  <2> QED
    BY <2>2, <2>3
<1> QED
  BY <1>0, <1>1, <1>2, <1>5, <1>6, <1>7 DEF LogOK

-----------------------------------------------------------------------------
(* The actions that leave the entry log alone.                             *)

\* What runs, runs in a node that is up.
LEMMA Running ==
  ASSUME IInv
  PROVE  /\ sv.at # "idle" => phase = "up"
         /\ ap.at # "idle" => phase = "up"
         /\ sg.at # "idle" => phase = "up"
         /\ (\E s \in Shards : fl[s] # "unset") => phase = "up"
         /\ replay.todo # <<>> => phase = "up"
  BY DEF IInv, DownInv, Idle, NotApplying, NotReplaying, NotSnapping

LEMMA CrashKeeps ==
  ASSUME IInv, Crash
  PROVE  IInv'
<1> USE DEF Crash, Volatile, storage, IInv
<1>1. Typed'
  BY DEF Typed, NotSnapping
<1>2. LogInv'
  BY DEF LogInv
<1>3. DownInv'
  BY DEF DownInv
<1>4. ServeInv' /\ ApplyInv'
  BY DEF ServeInv, ApplyInv, Idle, NotApplying, Rising, Typed
<1>5. GivenInv' /\ SnapInv'
  BY DEF GivenInv, SnapInv, NotSnapping, Typed
<1>6. ProposalInv'
  BY DEF ProposalInv, PeerSafe, NoData, Data
<1>7. ReplayReads' /\ ReplayInv'
  BY DEF ReplayReads, ReplayInv, NotReplaying
<1> QED
  BY <1>1, <1>2, <1>3, <1>4, <1>5, <1>6, <1>7

LEMMA StartRefusedKeeps ==
  ASSUME IInv, StartRefused
  PROVE  IInv'
<1> USE DEF StartRefused, storage, serving, snapping, IInv
<1>1. Typed' /\ LogInv'
  BY DEF Typed, LogInv
<1>2. DownInv'
  BY DEF DownInv
<1>3. ServeInv' /\ ApplyInv' /\ GivenInv'
  BY DEF ServeInv, ApplyInv, GivenInv
<1>4. SnapInv' /\ ProposalInv' /\ ReplayReads' /\ ReplayInv'
  BY DEF SnapInv, ProposalInv, ReplayReads, ReplayInv
<1> QED
  BY <1>1, <1>2, <1>3, <1>4

LEMMA WaitWriteOKKeeps ==
  ASSUME IInv, WaitWriteOK
  PROVE  IInv'
<1> USE DEF WaitWriteOK, storage, snapping, IInv
<1>0. phase = "up"
  BY Running
<1>1. Typed' /\ LogInv'
  BY DEF Typed, LogInv
<1>2. DownInv' /\ ReplayReads'
  BY <1>0 DEF DownInv, ReplayReads
<1>3. ServeInv'
  BY DEF ServeInv, Idle, Rising
<1>4. ApplyInv' /\ GivenInv'
  BY DEF ApplyInv, GivenInv
<1>5. SnapInv' /\ ProposalInv' /\ ReplayInv'
  BY DEF SnapInv, ProposalInv, ReplayInv
<1> QED
  BY <1>1, <1>2, <1>3, <1>4, <1>5

LEMMA ApplyDoneKeeps ==
  ASSUME IInv, ApplyDone
  PROVE  IInv'
<1> USE DEF ApplyDone, storage, snapping, IInv
<1>0. phase = "up"
  BY Running
<1>1. Typed' /\ LogInv'
  BY DEF Typed, LogInv
<1>2. DownInv' /\ ReplayReads'
  BY <1>0 DEF DownInv, ReplayReads
<1>3. ServeInv' /\ GivenInv'
  BY DEF ServeInv, GivenInv
<1>4. ApplyInv'
  BY DEF ApplyInv
<1>5. SnapInv' /\ ProposalInv' /\ ReplayInv'
  BY DEF SnapInv, ProposalInv, ReplayInv
<1> QED
  BY <1>1, <1>2, <1>3, <1>4, <1>5

LEMMA TryToUpdateKeeps ==
  ASSUME IInv, TryToUpdateCommittedIndex
  PROVE  IInv'
<1> USE DEF TryToUpdateCommittedIndex, storage, IInv
<1>0. phase = "up"
  BY Running
<1>1. Typed' /\ cindex <= cindex' /\ cindex' <= appliedIndex
  BY DEF Typed, ApplyInv, SnapInv
<1>2. DownInv' /\ ReplayReads' /\ LogInv'
  BY <1>0 DEF DownInv, ReplayReads, LogInv
<1>3. ServeInv' /\ GivenInv'
  BY DEF ServeInv, GivenInv
<1>4. ApplyInv'
  BY DEF ApplyInv, NotApplying, Typed
<1>5. SnapInv'
  BY <1>1 DEF SnapInv, Typed
<1>6. ProposalInv' /\ ReplayInv'
  BY DEF ProposalInv, ReplayInv, NotApplying
<1> QED
  BY <1>1, <1>2, <1>3, <1>4, <1>5, <1>6

\* The partition is listed, a replayed row is written.
LEMMA AssignKeeps ==
  ASSUME IInv, AddDBPTInfo \/ ReadReplay
  PROVE  IInv'
<1> USE DEF AddDBPTInfo, ReadReplay, storage, snapping, IInv
<1>0. phase = "up" /\ phase' = "up"
  BY Running
<1>1. Typed' /\ LogInv'
  BY DEF Typed, LogInv
<1>2. DownInv' /\ ReplayReads'
  BY <1>0 DEF DownInv, ReplayReads
<1>3. ServeInv' /\ ApplyInv'
  BY SMTT(30) DEF ServeInv, ApplyInv
<1>4. SnapInv' /\ ProposalInv' /\ GivenInv'
  BY DEF SnapInv, ProposalInv, GivenInv
<1>5. ReplayInv'
  <2>1. replay \in [listed : BOOLEAN, todo : Seq(Entry)]
    BY DEF ReplayInv
  <2>2. CASE AddDBPTInfo
    <3>1. /\ replay'.todo = replay.todo /\ replay' \in [listed : BOOLEAN, todo : Seq(Entry)]
      BY <2>1, <2>2
    <3> QED
      BY <2>2, <3>1 DEF ReplayInv
  <2>3. CASE ReadReplay
    <3>1. PICK td : td = Tail(replay.todo)
      OBVIOUS
    <3>2. /\ td \in Seq(Entry) /\ Len(td) = Len(replay.todo) - 1 /\ Len(replay.todo) \in Nat
          /\ \A j \in 1..Len(td) : td[j] = replay.todo[j + 1]
      BY <2>1, <2>3, <3>1
    <3>3. replay'.todo = td /\ replay' \in [listed : BOOLEAN, todo : Seq(Entry)]
      BY <2>1, <2>3, <3>1, <3>2
    <3>4. ASSUME NEW k \in 1..Len(td)
          PROVE  /\ td[k].index <= appliedIndex
                 /\ \A j \in 1..Len(ap.todo) : td[k].index < ap.todo[j].index
      <4>1. k + 1 \in 1..Len(replay.todo) /\ td[k] = replay.todo[k + 1]
        BY <3>2
      <4> QED
        BY <4>1 DEF ReplayInv
    <3> QED
      BY <2>3, <3>3, <3>4 DEF ReplayInv
  <2> QED
    BY <2>2, <2>3
<1> QED
  BY <1>1, <1>2, <1>3, <1>4, <1>5

LEMMA FlushKeeps ==
  ASSUME IInv, NEW s \in Shards, FlushStep(s)
  PROVE  IInv'
<1> USE DEF FlushStep, WriteSnapshot, RaftFlush, storage, serving, IInv
<1>0. phase = "up"
  BY Running
<1>1. Typed' /\ LogInv'
  BY DEF Typed, LogInv
<1>2. DownInv' /\ ReplayReads'
  BY <1>0 DEF DownInv, ReplayReads
<1>3. ServeInv' /\ ApplyInv' /\ GivenInv'
  BY SMTT(30) DEF ServeInv, ApplyInv, GivenInv
<1>4. SnapInv' /\ ProposalInv' /\ ReplayInv'
  BY SMTT(40) DEF SnapInv, ProposalInv, ReplayInv, Typed
<1> QED
  BY <1>1, <1>2, <1>3, <1>4

LEMMA SnapKeeps ==
  ASSUME IInv, SnapStep
  PROVE  IInv'
<1> USE DEF serving, storage, IInv
<1>0. phase = "up" /\ phase' = "up"
  BY Running DEF SnapStep, SnapShot, CreateSnapshot, StoreSnapshot
<1>1. /\ UNCHANGED <<log, commit, rapplied, appliedIndex, sv, ap, replay, given, cindex, flag, fl>>
      /\ UNCHANGED <<proposal, chosen, cleared>>
  BY DEF SnapStep, SnapShot, CreateSnapshot, StoreSnapshot
<1>2. sg' \in [at : {"idle", "read", "create", "store"}, index : Nat]
  BY DEF SnapStep, SnapShot, CreateSnapshot, StoreSnapshot, NotSnapping, Typed
<1>3. meta' \in [index : Nat, snap : Nat]
  BY DEF SnapStep, SnapShot, CreateSnapshot, StoreSnapshot, Typed
<1>4. Typed'
  BY <1>0, <1>1, <1>2, <1>3 DEF Typed
<1>5. FirstIndex(log) = Lo(log) /\ Lo(log) \in Nat
  BY LogNums DEF LogInv, Typed
<1>6. LogInv'
  <2>1. meta.index <= meta'.index \/ Lo(log) <= meta'.index \/ meta'.index = meta.index
    BY <1>5 DEF SnapStep, SnapShot, CreateSnapshot, StoreSnapshot, OutOfDate, Typed
  <2> QED
    BY <1>0, <1>1, <1>3, <1>5, <2>1 DEF LogInv, Typed
<1>7. DownInv' /\ ReplayReads'
  BY <1>0 DEF DownInv, ReplayReads
<1>8. ServeInv' /\ ApplyInv' /\ ProposalInv' /\ ReplayInv'
  BY <1>1 DEF ServeInv, ApplyInv, ProposalInv, ReplayInv
<1>9. SnapInv' /\ meta.snap <= meta'.snap
  <2>1. CASE SnapShot
    BY <1>0, <1>1, <2>1 DEF SnapShot, SnapInv, Typed
  <2>0. /\ appliedIndex <= commit /\ cindex <= appliedIndex /\ sg.index <= cindex
        /\ commit \in Nat /\ appliedIndex \in Nat /\ cindex \in Nat /\ sg.index \in Nat
        /\ sg \in [at : {"idle", "read", "create", "store"}, index : Nat]
        /\ meta \in [index : Nat, snap : Nat]
    BY DEF GivenInv, SnapInv, Typed
  <2>2. CASE CreateSnapshot
    <3>1. \/ sg' = [at |-> "idle", index |-> 0] /\ meta' = meta
          \/ /\ sg' = [sg EXCEPT !.at = "store"] /\ meta' = [meta EXCEPT !.index = sg.index]
             /\ sg.at = "create"
      BY <2>2 DEF CreateSnapshot, NotSnapping
    <3>2. /\ sg'.index <= cindex /\ meta'.snap = meta.snap /\ meta'.index <= commit
          /\ sg'.at \in {"create", "store"} => sg.at = "create" /\ sg'.index = sg.index
      BY <2>0, <3>1 DEF SnapInv
    <3> QED
      BY <1>0, <1>1, <2>0, <3>2 DEF SnapInv
  <2>3. CASE StoreSnapshot
    BY <1>0, <1>1, <2>0, <2>3 DEF StoreSnapshot, SnapInv, NotSnapping
  <2> QED
    BY <2>1, <2>2, <2>3 DEF SnapStep
<1>10. GivenInv'
  <2>1. given # <<>> => given[1] \in Nat
    BY DEF GivenInv
  <2> QED
    BY <1>0, <1>1, <1>3, <1>9, <2>1 DEF GivenInv, Typed
<1> QED
  BY <1>4, <1>6, <1>7, <1>8, <1>9, <1>10

\* deleteEntryLog: two indexes in one file leave the same files.
LEMMA ClearIndexSafe ==
  ASSUME IInv, NEW match \in 0..commit
  PROVE  /\ ClearEntryLog(ClearIndex(meta.snap, match), match) \in Data
         /\ ClearIndex(meta.snap, match) <= commit
         /\ PeerSafe(log, commit, ClearEntryLog(ClearIndex(meta.snap, match), match))
<1> DEFINE i == ClearIndex(meta.snap, match)
<1>0. /\ commit \in Nat /\ meta.snap \in Nat /\ meta.snap <= commit /\ match \in Nat /\ match <= commit
      /\ LogOK(log, commit, chosen)
  BY DEF IInv, Typed, SnapInv, LogInv
<1>1. i = match \/ (i = meta.snap /\ SlotGe(log, match)[1] = SlotGe(log, meta.snap)[1])
  BY DEF ClearIndex
<1>2. i \in Nat /\ i <= commit
  BY <1>0, <1>1
<1>3. Wf(log) /\ commit < Hi(log) /\ Hi(log) \in Nat /\ Lo(log) \in Nat
  BY <1>0, LogNums
<1>4. Num(log) \in Nat /\ Num(log) >= 1
  BY <1>3, WfTypes
<1>5. ASSUME i # match, NEW k \in 1..Num(log), In(log, k, i)
      PROVE  k = 1 \/ Starts(log)[k] <= match
  <2>1. SlotGe(log, i)[1] = SlotGe(log, match)[1]
    BY <1>1, <1>5
  <2>2. SlotGe(log, i)[1] = IF k = Num(log) THEN -1 ELSE k - 1
    BY <1>2, <1>3, <1>5, SlotIn
  <2>3. CASE match < Lo(log)
    <3>1. SlotGe(log, match)[1] = IF Num(log) = 1 THEN -1 ELSE 0
      BY <1>0, <1>3, <2>3, SlotBelow
    <3>2. CASE k = Num(log)
      <4>1. -1 = IF Num(log) = 1 THEN -1 ELSE 0
        BY <2>1, <2>2, <3>1, <3>2
      <4>2. Num(log) = 1
        BY <4>1
      <4> QED
        BY <3>2, <4>2
    <3>3. CASE k # Num(log)
      <4>1. k - 1 = IF Num(log) = 1 THEN -1 ELSE 0
        BY <2>1, <2>2, <3>1, <3>3
      <4> QED
        BY <1>4, <4>1
    <3> QED
      BY <3>2, <3>3
  <2>4. CASE ~(match < Lo(log))
    <3>1. PICK j \in 1..Num(log) : In(log, j, match)
      BY <1>0, <1>3, <2>4, Located
    <3>2. SlotGe(log, match)[1] = IF j = Num(log) THEN -1 ELSE j - 1
      BY <1>0, <1>3, <3>1, SlotIn
    <3>3. j = k
      <4>1. (IF k = Num(log) THEN -1 ELSE k - 1) = (IF j = Num(log) THEN -1 ELSE j - 1)
        BY <2>1, <2>2, <3>2
      <4>2. k \in Nat /\ j \in Nat /\ k - 1 # -1 /\ j - 1 # -1
        BY <1>4
      <4>3. CASE k = Num(log)
        BY <4>1, <4>2, <4>3
      <4>4. CASE k # Num(log)
        BY <4>1, <4>2, <4>4
      <4> QED
        BY <4>3, <4>4
    <3> QED
      BY <3>1, <3>3 DEF In
  <2> QED
    BY <2>3, <2>4
<1> HIDE DEF i
<1>6. ClearEntryLog(i, match) \in Data /\ ClearEntryLog(i, match).index = i
      /\ ClearEntryLog(i, match).match = match
  BY <1>0, <1>2 DEF ClearEntryLog, Data
<1>7. PeerSafe(log, commit, ClearEntryLog(i, match))
  BY <1>0, <1>2, <1>5, <1>6 DEF PeerSafe
<1> QED
  BY <1>2, <1>6, <1>7 DEF i

LEMMA PrepareKeeps ==
  ASSUME IInv, NEW match \in 0..commit \cup {MaxUint64}, PrepareDeleteEntryLog(match)
  PROVE  IInv'
<1> USE DEF PrepareDeleteEntryLog, storage, serving, snapping
<1>1. Typed' /\ LogInv'
  BY DEF IInv, Typed, LogInv
<1>2. DownInv' /\ ReplayReads'
  BY DEF DownInv, ReplayReads
<1>3. ServeInv' /\ ApplyInv' /\ GivenInv'
  BY DEF IInv, ServeInv, ApplyInv, GivenInv
<1>4. SnapInv' /\ ReplayInv'
  BY DEF IInv, SnapInv, ReplayInv
<1>5. ProposalInv'
  <2>0. /\ commit' = commit /\ log' = log /\ commit \in 1..MaxIndex /\ meta.snap \in Nat
        /\ meta.snap <= commit /\ MaxUint64 \in Nat /\ MaxUint64 > MaxIndex
    BY LogNums DEF IInv, LogInv, Typed, SnapInv, MaxUint64
  <2>1. CASE match = MaxUint64
    <3>1. PICK i \in Nat : i = ClearIndex(meta.snap, match) /\ (i = MaxUint64 \/ i <= commit)
      BY <2>0, <2>1 DEF ClearIndex
    <3>2. proposal' = ClearEntryLog(i, 0)
      BY <2>1, <3>1
    <3> QED
      BY <2>0, <3>1, <3>2 DEF ProposalInv, ClearEntryLog, Data, PeerSafe
  <2>2. CASE match \in 0..commit
    <3>1. match # MaxUint64
      <4>1. match \in Nat /\ match <= MaxIndex /\ MaxIndex \in Nat
        BY <2>0, <2>2, BoundsAssumption
      <4> QED
        BY <2>0, <4>1
    <3>2. proposal' = ClearEntryLog(ClearIndex(meta.snap, match), match)
      BY <3>1
    <3>3. proposal'.index = ClearIndex(meta.snap, match)
      BY <3>2 DEF ClearEntryLog
    <3> QED
      BY <2>0, <2>2, <3>2, <3>3, ClearIndexSafe DEF ProposalInv
  <2> QED
    BY <2>1, <2>2
<1> QED
  BY <1>1, <1>2, <1>3, <1>4, <1>5 DEF IInv

-----------------------------------------------------------------------------
(* PublishEntries.                                                         *)

\* A sequence that begins with index f, from the slot of index a + 1 on.
LEMMA Behind ==
  ASSUME NEW n \in Nat, NEW f \in Nat, NEW a \in Nat, NEW b \in Nat, b = a - f + 2, b >= 1, b <= n
  PROVE  n - b + 1 \in Nat /\ n - b + 1 >= 1 /\ f + n - 1 = a + (n - b + 1)
  OBVIOUS

\* Two such sequences, one behind the other.
IsJoint(n, m, f, a) == {n, m, f, a} \subseteq Nat /\ a = f + n - 1 /\ n >= 1

LEMMA Joint ==
  ASSUME NEW n, NEW m, NEW f, NEW a, IsJoint(n, m, f, a)
  PROVE  /\ n + m \in 1..(n + m) /\ f + (n + m) - 1 = a + m
         /\ \A k \in 1..(n + m) : k <= n \/ (k - n \in 1..m /\ a + (k - n) = f + k - 1)
  BY DEF IsJoint

\* entriesToApply: the entries after the applied index.
LEMMA ToApply ==
  ASSUME IInv, sv.at = "publish", NEW es, es = EntriesToApply(sv.ents)
  PROVE  /\ es \in Seq(Entry)
         /\ \A j \in 1..Len(es) : es[j].index = appliedIndex + j
         /\ \A j \in 1..Len(es) : es[j] \in Entry /\ Harmless(log, commit, es[j])
         /\ es = <<>> => rapplied <= appliedIndex
         /\ es # <<>> => Last(es).index = rapplied /\ rapplied = appliedIndex + Len(es)
<1>0. /\ sv.ents \in Seq(Entry) /\ appliedIndex \in Nat /\ rapplied \in Nat
      /\ sv.ents = <<>> => rapplied <= appliedIndex
      /\ \A j \in 1..Len(sv.ents) : Harmless(log, commit, sv.ents[j])
  BY DEF IInv, ServeInv, Typed
<1>1. CASE sv.ents = <<>>
  <2>1. es = <<>>
    BY <1>1 DEF EntriesToApply
  <2>2. es \in Seq(Entry) /\ Len(es) = 0
    BY <2>1
  <2>3. rapplied <= appliedIndex
    BY <1>0, <1>1
  <2> QED
    BY <2>1, <2>2, <2>3
<1>2. CASE sv.ents # <<>>
  <2>1. PICK n, f, a : n = Len(sv.ents) /\ f = sv.ents[1].index /\ a = appliedIndex
    OBVIOUS
  <2>2. n \in Nat /\ n >= 1 /\ f \in Nat /\ a \in Nat
    <3>1. Len(sv.ents) \in Nat /\ Len(sv.ents) >= 1
      BY <1>0, <1>2
    <3>2. sv.ents[1] \in Entry
      BY <1>0, <3>1
    <3> QED
      BY <1>0, <2>1, <3>1, <3>2 DEF Entry
  <2>3. f <= a + 1 /\ Last(sv.ents).index = rapplied
    BY <1>2, <2>1 DEF IInv, ServeInv
  <2>4. \A j \in 1..n : sv.ents[j].index = f + j - 1
    BY <2>1 DEF IInv, ServeInv, Rising
  <2>5. rapplied = f + n - 1
    <3>1. n \in 1..n
      BY <2>2
    <3> QED
      BY <2>1, <2>3, <2>4, <3>1 DEF Last
  <2>6. es = SubSeq(sv.ents, a - f + 2, n)
    <3>1. ~(sv.ents[1].index > appliedIndex + 1)
      BY <2>1, <2>2, <2>3
    <3>2. es = SubSeq(sv.ents, appliedIndex - sv.ents[1].index + 2, Len(sv.ents))
      BY <1>2, <3>1 DEF EntriesToApply
    <3> QED
      BY <2>1, <3>2
  <2>7. PICK b \in Nat : b = a - f + 2 /\ b >= 1
    <3>1. a - f + 2 \in Nat /\ a - f + 2 >= 1
      BY <2>2, <2>3
    <3> QED
      BY <3>1
  <2>8. /\ es \in Seq(Entry) /\ Len(es) = (IF b <= n THEN n - b + 1 ELSE 0)
        /\ \A j \in 1..(n - b + 1) : es[j] = sv.ents[b + j - 1]
    <3>1. b \in Int /\ n \in Int /\ \A j \in b..n : sv.ents[j] \in Entry
      BY <1>0, <2>1, <2>2, <2>7
    <3>2. es = SubSeq(sv.ents, b, n)
      BY <2>6, <2>7
    <3> QED
      BY <3>1, <3>2, SubSeqProperties
  <2>9. CASE b <= n
    <3>1. Len(es) = n - b + 1 /\ Len(es) \in Nat /\ Len(es) >= 1 /\ rapplied = a + Len(es)
      <4>1. Len(es) = n - b + 1
        BY <2>8, <2>9
      <4>2. n - b + 1 \in Nat /\ n - b + 1 >= 1 /\ f + n - 1 = a + (n - b + 1)
        BY <2>2, <2>7, <2>9, Behind
      <4> QED
        BY <2>5, <4>1, <4>2
    <3>2. ASSUME NEW j \in 1..Len(es)
          PROVE  /\ es[j].index = a + j /\ es[j] \in Entry /\ Harmless(log, commit, es[j])
      <4>1. b + j - 1 \in 1..n /\ f + (b + j - 1) - 1 = a + j
        BY <2>2, <2>7, <2>9, <3>1
      <4>2. es[j] = sv.ents[b + j - 1] /\ sv.ents[b + j - 1] \in Entry
        BY <1>0, <2>1, <2>8, <3>1, <4>1, SMTT(30)
      <4>3. sv.ents[b + j - 1].index = f + (b + j - 1) - 1
        BY <2>4, <4>1
      <4> QED
        BY <1>0, <2>1, <4>1, <4>2, <4>3
    <3>3. Len(es) \in 1..Len(es) /\ es # <<>>
      BY <3>1
    <3>4. Last(es).index = rapplied
      BY <3>1, <3>2, <3>3 DEF Last
    <3> QED
      BY <2>1, <2>8, <3>1, <3>2, <3>3, <3>4
  <2>10. CASE ~(b <= n)
    <3>1. es = <<>>
      BY <2>8, <2>10
    <3>2. rapplied <= a
      BY <2>2, <2>5, <2>7, <2>10
    <3> QED
      BY <2>1, <3>1, <3>2
  <2> QED
    BY <2>9, <2>10
<1> QED
  BY <1>1, <1>2

\* The indexes given to the shards go on where they were.
LEMMA GivenOn ==
  ASSUME NEW g \in Seq(Nat), g # <<>>, NEW a \in Nat, Last(g) = a,
         \A k \in 1..Len(g) : g[k] = g[1] + k - 1,
         NEW h \in Seq(Nat), \A k \in 1..Len(h) : h[k] = a + k
  PROVE  /\ g \o h \in Seq(Nat) /\ g \o h # <<>> /\ (g \o h)[1] = g[1]
         /\ \A k \in 1..Len(g \o h) : (g \o h)[k] = (g \o h)[1] + k - 1
         /\ Last(g \o h) = a + Len(h)
<1>1. PICK n \in Nat, m \in Nat, f \in Nat : n = Len(g) /\ m = Len(h) /\ f = g[1] /\ n >= 1
  <2>1. Len(g) \in Nat /\ Len(h) \in Nat /\ Len(g) >= 1
    OBVIOUS
  <2>2. g[1] \in Nat
    BY <2>1
  <2> QED
    BY <2>1, <2>2
<1>2. n >= 1
  BY <1>1
<1>3. a = f + n - 1
  <2>1. n \in 1..Len(g)
    BY <1>1
  <2> QED
    BY <1>1, <2>1 DEF Last
<1>4. IsJoint(n, m, f, a)
  BY <1>2, <1>3 DEF IsJoint
<1>5. PICK r : r = g \o h
  OBVIOUS
<1>6. /\ r \in Seq(Nat) /\ Len(r) = n + m
      /\ \A k \in 1..(n + m) : r[k] = IF k <= n THEN g[k] ELSE h[k - n]
  BY <1>1, <1>5, ConcatProperties
<1>7. ASSUME NEW k \in 1..(n + m)
      PROVE  r[k] = f + k - 1
  <2>1. CASE k <= n
    <3>1. k \in 1..Len(g)
      BY <1>1, <2>1
    <3> QED
      BY <1>1, <1>6, <2>1, <3>1
  <2>2. CASE ~(k <= n)
    <3>0. \A j \in 1..(n + m) : j <= n \/ (j - n \in 1..m /\ a + (j - n) = f + j - 1)
      BY <1>4, Joint
    <3>1. k - n \in 1..Len(h) /\ a + (k - n) = f + k - 1
      BY <1>1, <2>2, <3>0
    <3>2. h[k - n] = a + (k - n)
      BY <3>1
    <3> QED
      BY <1>6, <2>2, <3>1, <3>2
  <2> QED
    BY <2>1, <2>2
<1>8. r # <<>> /\ r[1] = f
  <2>1. 1 \in 1..(n + m) /\ f + 1 - 1 = f
    BY <1>1
  <2> QED
    BY <1>1, <1>6, <1>7, <2>1
<1>9. Last(r) = a + m
  <2>1. n + m \in 1..(n + m) /\ f + (n + m) - 1 = a + m
    BY <1>4, Joint
  <2> QED
    BY <1>6, <1>7, <2>1 DEF Last
<1> QED
  BY <1>1, <1>5, <1>6, <1>7, <1>8, <1>9

LEMMA PublishKeeps ==
  ASSUME IInv, PublishEntries
  PROVE  IInv'
<1>0. sv.at = "publish" /\ phase = "up"
  BY Running DEF PublishEntries
<1>1. PICK es : es = EntriesToApply(sv.ents)
  OBVIOUS
<1>2. /\ es \in Seq(Entry)
      /\ \A j \in 1..Len(es) : es[j].index = appliedIndex + j
      /\ \A j \in 1..Len(es) : es[j] \in Entry /\ Harmless(log, commit, es[j])
      /\ es = <<>> => rapplied <= appliedIndex
      /\ es # <<>> => Last(es).index = rapplied /\ rapplied = appliedIndex + Len(es)
  BY <1>0, <1>1, ToApply
<1>3. PICK td : td = WithData(es)
  OBVIOUS
<1>4. td \in Seq(Entry) /\ \A x \in 1..Len(td) : \E y \in 1..Len(es) : td[x] = es[y]
  <2>1. PICK S : S = {e \in ToSet(es) : e.data # NoData}
    OBVIOUS
  <2>2. td = Filter(es, S)
    BY <1>3, <2>1 DEF WithData
  <2> QED
    BY <1>2, <2>2, FilterRange
<1>5. /\ \/ td = <<>> /\ sv' = Idle /\ ap' = ap
         \/ /\ td # <<>> /\ ap.at = "idle"
            /\ ap' = [at |-> "apply", todo |-> td, ci |-> Last(es).index]
            /\ sv' = [at |-> "wait", ents |-> <<>>]
      /\ appliedIndex' = IF es = <<>> THEN appliedIndex ELSE Last(es).index
      /\ given' = given \o [k \in DOMAIN es |-> es[k].index]
      /\ UNCHANGED <<log, commit, meta, phase, rapplied, replay, cindex, flag, fl, sg, proposal, chosen>>
      /\ UNCHANGED cleared
  BY <1>1, <1>3 DEF PublishEntries, storage, snapping
<1>6. /\ appliedIndex \in Nat /\ rapplied \in Nat /\ commit \in Nat /\ rapplied <= commit
      /\ appliedIndex <= commit /\ Len(es) \in Nat
  BY <1>2 DEF IInv, Typed, ServeInv, GivenInv
<1>7. /\ appliedIndex' = appliedIndex + Len(es) /\ rapplied <= appliedIndex' /\ appliedIndex' <= commit
      /\ appliedIndex' \in Nat /\ appliedIndex <= appliedIndex'
      /\ (es # <<>> => appliedIndex' = rapplied /\ Last(es).index = rapplied)
  <2>1. CASE es = <<>>
    BY <1>2, <1>5, <1>6, <2>1
  <2>2. CASE es # <<>>
    BY <1>2, <1>5, <1>6, <2>2
  <2> QED
    BY <2>1, <2>2
<1>8. td # <<>> => es # <<>>
  <2>1. ASSUME es = <<>>, td # <<>> PROVE FALSE
    <3>1. 1 \in 1..Len(td) /\ Len(es) = 0
      BY <1>4, <2>1
    <3> QED
      BY <1>4, <3>1
  <2> QED
    BY <2>1
<1>9. Typed' /\ LogInv'
  BY <1>5, <1>7 DEF IInv, Typed, LogInv
<1>10. DownInv' /\ ReplayReads'
  BY <1>0, <1>5 DEF DownInv, ReplayReads
<1>11. sv'.ents = <<>> /\ sv' \in [at : {"idle", "publish", "wait"}, ents : Seq(Entry)]
  <2>1. sv' = [at |-> "idle", ents |-> <<>>] \/ sv' = [at |-> "wait", ents |-> <<>>]
    BY <1>5 DEF Idle
  <2>2. <<>> \in Seq(Entry)
    OBVIOUS
  <2>3. CASE sv' = [at |-> "idle", ents |-> <<>>]
    BY <2>2, <2>3
  <2>4. CASE sv' = [at |-> "wait", ents |-> <<>>]
    BY <2>2, <2>4
  <2> QED
    BY <2>1, <2>3, <2>4
<1>12. ServeInv'
  BY <1>5, <1>6, <1>7, <1>11 DEF ServeInv, Rising
<1>13. ApplyInv'
  <2>1. CASE td = <<>>
    <3>1. ap.at # "apply"
      BY <1>0 DEF IInv, ApplyInv
    <3> QED
      BY <1>5, <1>6, <1>7, <2>1, <3>1 DEF IInv, ApplyInv
  <2>2. CASE td # <<>>
    <3>1. /\ ap' = [at |-> "apply", todo |-> td, ci |-> Last(es).index]
          /\ sv'.at = "wait" /\ Last(es).index = rapplied
      BY <1>5, <1>7, <1>8, <2>2
    <3>2. ASSUME NEW x \in 1..Len(td)
          PROVE  td[x].index <= rapplied /\ Harmless(log, commit, td[x])
      <4>1. PICK y \in 1..Len(es) : td[x] = es[y]
        BY <1>4
      <4>2. es[y].index = appliedIndex + y /\ Harmless(log, commit, es[y])
        BY <1>2
      <4>3. rapplied = appliedIndex + Len(es)
        BY <1>2, <1>8, <2>2
      <4> QED
        BY <1>6, <4>1, <4>2, <4>3
    <3>3. ap' \in [at : {"idle", "apply", "update"}, todo : Seq(Entry), ci : Nat]
      BY <1>4, <1>6, <3>1
    <3> QED
      BY <1>5, <1>6, <1>7, <3>1, <3>2, <3>3 DEF ApplyInv
  <2> QED
    BY <2>1, <2>2
<1>14. GivenInv'
  <2>1. /\ given \in Seq(Nat) /\ given # <<>> /\ Last(given) = appliedIndex
        /\ \A k \in 1..Len(given) : given[k] = given[1] + k - 1
        /\ given[1] <= 1 \/ given[1] <= meta.snap
    BY <1>0 DEF IInv, GivenInv
  <2>2. PICK h : h = [k \in DOMAIN es |-> es[k].index]
    OBVIOUS
  <2>3. DOMAIN es = 1..Len(es)
    BY <1>2
  <2>4. h \in Seq(Nat) /\ Len(h) = Len(es) /\ \A k \in 1..Len(h) : h[k] = appliedIndex + k
    <3>1. \A k \in 1..Len(es) : es[k].index \in Nat
      BY <1>2, <1>6
    <3>2. h = [k \in 1..Len(es) |-> es[k].index]
      BY <2>2, <2>3
    <3>3. h \in Seq(Nat) /\ Len(h) = Len(es)
      BY <1>6, <3>1, <3>2
    <3> QED
      BY <1>2, <3>2, <3>3
  <2>5. /\ given \o h \in Seq(Nat) /\ given \o h # <<>> /\ (given \o h)[1] = given[1]
        /\ \A k \in 1..Len(given \o h) : (given \o h)[k] = (given \o h)[1] + k - 1
        /\ Last(given \o h) = appliedIndex + Len(h)
    BY <1>6, <2>1, <2>4, GivenOn
  <2>6. given' = given \o h
    BY <1>5, <2>2
  <2> HIDE DEF GivenInv
  <2>7. PICK g : g = given \o h
    OBVIOUS
  <2>8. /\ g \in Seq(Nat) /\ g # <<>> /\ g[1] = given[1] /\ Last(g) = appliedIndex'
        /\ \A k \in 1..Len(g) : g[k] = g[1] + k - 1
    BY <1>7, <2>4, <2>5, <2>7
  <2> QED
    BY <1>5, <1>7, <2>1, <2>6, <2>7, <2>8 DEF GivenInv
<1>15. SnapInv'
  BY <1>5, <1>6, <1>7 DEF IInv, SnapInv, Typed
<1>16. ProposalInv'
  BY <1>5 DEF IInv, ProposalInv
<1>17. ReplayInv'
  <2>1. /\ replay \in [listed : BOOLEAN, todo : Seq(Entry)] /\ replay' = replay
        /\ replay.todo \in Seq(Entry)
        /\ \A k \in 1..Len(replay.todo) :
             /\ replay.todo[k].index <= appliedIndex
             /\ \A j \in 1..Len(ap.todo) : replay.todo[k].index < ap.todo[j].index
    BY <1>5 DEF IInv, ReplayInv
  <2>2. ASSUME NEW k \in 1..Len(replay.todo)
         PROVE  /\ replay.todo[k].index <= appliedIndex'
                /\ \A j \in 1..Len(ap'.todo) : replay.todo[k].index < ap'.todo[j].index
    <3>0. replay.todo[k] \in Entry
      BY <2>1
    <3>1. replay.todo[k].index \in Nat /\ replay.todo[k].index <= appliedIndex
      BY <2>1, <3>0 DEF Entry
    <3>2. replay.todo[k].index <= appliedIndex'
      BY <1>6, <1>7, <3>1
    <3>3. CASE ap' = ap
      BY <2>1, <3>2, <3>3
    <3>4. CASE ap'.todo = td
      <4>1. ASSUME NEW j \in 1..Len(td)
            PROVE  replay.todo[k].index < td[j].index
        <5>1. PICK y \in 1..Len(es) : td[j] = es[y]
          BY <1>4
        <5>2. es[y].index = appliedIndex + y
          BY <1>2
        <5> QED
          BY <1>6, <3>1, <5>1, <5>2
      <4> QED
        BY <3>2, <3>4, <4>1
    <3> QED
      BY <1>5, <3>3, <3>4
  <2> QED
    BY <2>1, <2>2 DEF ReplayInv
<1> QED
  BY <1>9, <1>10, <1>12, <1>13, <1>14, <1>15, <1>16, <1>17 DEF IInv

-----------------------------------------------------------------------------
(* Start.                                                                  *)

\* raftlog.Init deletes files before the snapshot index only.
LEMMA InitedIs ==
  ASSUME IInv, NEW m, m = InitedLog
  PROVE  /\ LogOK(m, commit, chosen)
         /\ Lo(m) <= 1 \/ Lo(m) <= cleared \/ Lo(m) <= meta.index
         /\ Lo(log) <= Lo(m) /\ Hi(m) = Hi(log) /\ \A d \in Nat : Keeps(log, m, d)
<1>0. /\ commit \in Nat /\ cleared \in Nat /\ meta.index \in Nat /\ meta.index <= commit
      /\ LogOK(log, commit, chosen)
      /\ Lo(log) <= 1 \/ Lo(log) <= cleared \/ Lo(log) <= meta.index
  BY DEF IInv, Typed, LogInv, SnapInv
<1>1. /\ Wf(log) /\ Lo(log) \in Nat \ {0} /\ Hi(log) \in Nat /\ Lo(log) <= commit /\ commit < Hi(log)
  BY <1>0, LogNums
<1>2. PICK o : o = OpenEntryLogs(log)
  OBVIOUS
<1>3. Wf(o) /\ Lo(o) = Lo(log) /\ Hi(o) = Hi(log) /\ \A c \in Nat : Keeps(log, o, c)
  BY <1>1, <1>2, OpenIs
<1>4. FirstIndex(o) = Lo(log)
  BY <1>3, FirstIndexIs
<1>5. PICK i \in Nat : /\ i = FirstIndexWithSnap - 1 /\ i < Hi(o) /\ i <= commit
                       /\ i < Lo(log) \/ i = meta.index
  <2>1. FirstIndexWithSnap = IF meta.index > 0 THEN meta.index + 1 ELSE Lo(log)
    BY <1>2, <1>4 DEF FirstIndexWithSnap, OpenedLog
  <2>2. CASE meta.index > 0
    <3>1. FirstIndexWithSnap - 1 = meta.index
      BY <1>0, <2>1, <2>2
    <3> QED
      BY <1>0, <1>1, <1>3, <3>1
  <2>3. CASE ~(meta.index > 0)
    <3>1. FirstIndexWithSnap - 1 = Lo(log) - 1
      BY <2>1, <2>3
    <3>2. Lo(log) - 1 \in Nat /\ Lo(log) - 1 < Hi(o) /\ Lo(log) - 1 < Lo(log) /\ Lo(log) - 1 <= commit
      BY <1>0, <1>1, <1>3
    <3> QED
      BY <3>1, <3>2
  <2> QED
    BY <2>2, <2>3
<1>6. m = DeleteBefore(o, i)
  BY <1>2, <1>5 DEF InitedLog, OpenedLog
<1>7. /\ Wf(DeleteBefore(o, i)) /\ Hi(DeleteBefore(o, i)) = Hi(o)
      /\ Lo(o) <= Lo(DeleteBefore(o, i))
      /\ Lo(DeleteBefore(o, i)) <= i \/ Lo(DeleteBefore(o, i)) = Lo(o)
      /\ \A c \in Nat : Keeps(o, DeleteBefore(o, i), c)
      /\ i < Lo(o) => DeleteBefore(o, i) = o
  BY <1>3, <1>5, DeleteIs
<1>8. /\ Wf(m) /\ Hi(m) = Hi(log) /\ (Lo(m) <= i \/ Lo(m) = Lo(log)) /\ Lo(log) <= Lo(m)
      /\ \A c \in Nat : Keeps(o, m, c)
      /\ i < Lo(log) => Lo(m) = Lo(log)
  BY <1>3, <1>6, <1>7
<1>9. Lo(m) \in Nat
  BY <1>8, LoHi
<1>10. \A c \in Nat : Keeps(log, m, c)
  <2>1. \A c \in Nat : c <= c
    OBVIOUS
  <2> QED
    BY <1>3, <1>8, <2>1, KeepsTrans
<1>11. Lo(m) <= commit /\ commit < Hi(m) /\ Hi(m) <= Hi(log)
  BY <1>0, <1>1, <1>5, <1>8, <1>9
<1>12. LogOK(m, commit, chosen)
  BY <1>0, <1>8, <1>10, <1>11, LogShrunk
<1>13. Lo(m) = Lo(log) \/ Lo(m) <= meta.index
  BY <1>5, <1>8
<1> QED
  BY <1>0, <1>8, <1>10, <1>12, <1>13

\* The replay begins with the snapshot index and ends with the commit index.
LEMMA ReplayIs ==
  ASSUME IInv, ReplayedEntries.err = "nil"
  PROVE  \E r \in Nat, es \in Seq(Entry) :
           /\ es = ReplayedEntries.ents /\ Len(es) = commit - r + 1 /\ r <= commit
           /\ r <= 1 \/ r <= meta.snap
           /\ \A x \in 1..Len(es) : es[x].index = r + x - 1
<1>0. /\ commit \in Nat /\ meta.snap \in Nat /\ meta.snap <= commit
  BY DEF IInv, Typed, SnapInv
<1>1. PICK m : m = InitedLog
  OBVIOUS
<1>2. LogOK(m, commit, chosen)
  BY <1>1, InitedIs
<1>3. /\ Wf(m) /\ Lo(m) \in Nat \ {0} /\ Hi(m) \in Nat /\ Lo(m) <= commit /\ commit < Hi(m)
      /\ FirstIndex(m) = Lo(m)
  BY <1>0, <1>2, LogNums
<1>4. PICK r \in Nat : r = ReplayFrom /\ (r <= 1 \/ r <= meta.snap) /\ r <= commit /\ r >= 1
  BY <1>0, <1>3 DEF ReplayFrom
<1>5. PICK R : R = Entries(m, r, commit + 1)
  OBVIOUS
<1>6. R = ReplayedEntries
  BY <1>1, <1>4, <1>5 DEF ReplayedEntries
<1>7. ~(r < Lo(m)) /\ R.ents = AllEntries(m, r, commit + 1)
  BY <1>3, <1>5, <1>6 DEF Entries
<1>8. PICK a \in Nat : a = r - 1 /\ a + 1 = r
  <2>1. r - 1 \in Nat /\ (r - 1) + 1 = r
    BY <1>4
  <2> QED
    BY <2>1
<1>9. PICK es : es = AllEntries(m, a + 1, commit + 1)
  OBVIOUS
<1>10. Lo(m) <= a + 1 /\ a <= commit /\ commit < Hi(m)
  BY <1>0, <1>3, <1>4, <1>7, <1>8
<1>11. IsRead(m, a, commit, es)
  BY <1>0, <1>3, <1>9, <1>10 DEF IsRead
<1>12. /\ es \in Seq(Entry) /\ Len(es) = commit - a
       /\ \A x \in 1..(commit - a) : es[x].index = a + x
  BY <1>11, Read DEF Copies
<1>13. es = ReplayedEntries.ents
  BY <1>6, <1>7, <1>8, <1>9
<1>14. commit - a = commit - r + 1 /\ \A x \in 1..(commit - a) : a + x = r + x - 1
  BY <1>0, <1>4, <1>8
<1>15. /\ Len(es) = commit - r + 1 /\ \A x \in 1..Len(es) : es[x].index = r + x - 1
  BY <1>12, <1>14
<1> QED
  BY <1>4, <1>12, <1>13, <1>15

LEMMA StartKeeps ==
  ASSUME IInv, Start
  PROVE  IInv'
<1>0. PICK m : m = InitedLog
  OBVIOUS
<1>1. /\ phase = "down" /\ phase' = "up" /\ log' = m /\ appliedIndex' = commit /\ cindex' = meta.snap
      /\ rapplied' = FirstIndex(m) - 1 /\ ReplayedEntries.err = "nil"
      /\ given' = [k \in DOMAIN ReplayedEntries.ents |-> ReplayedEntries.ents[k].index]
      /\ replay' = [listed |-> FALSE, todo |-> RowsOf(ReplayedEntries.ents)]
      /\ UNCHANGED <<commit, meta, sv, ap, flag, fl, sg, proposal, chosen, cleared>>
  BY <1>0 DEF Start
<1>2. /\ LogOK(m, commit, chosen)
      /\ Lo(m) <= 1 \/ Lo(m) <= cleared \/ Lo(m) <= meta.index
  BY <1>0, InitedIs
<1>3. /\ commit \in Nat /\ meta \in [index : Nat, snap : Nat] /\ meta.snap \in Nat
      /\ meta.snap <= commit /\ meta.index <= commit
  BY DEF IInv, Typed, SnapInv
<1>4. Lo(m) \in Nat \ {0} /\ Lo(m) <= commit /\ FirstIndex(m) = Lo(m)
  BY <1>2, <1>3, LogNums
<1>5. rapplied' \in Nat /\ Lo(m) <= rapplied' + 1 /\ rapplied' <= commit
  BY <1>1, <1>3, <1>4
<1>6. sv = Idle /\ ap = NotApplying /\ sg = NotSnapping /\ proposal = NoData
  BY <1>1 DEF IInv, DownInv
<1>7. Typed'
  BY <1>1, <1>3, <1>5 DEF IInv, Typed
<1>8. LogInv'
  BY <1>1, <1>2, <1>5 DEF LogInv
<1>9. DownInv' /\ ReplayReads'
  BY <1>1 DEF DownInv, ReplayReads
<1>10. ServeInv'
  BY <1>1, <1>3, <1>5, <1>6 DEF ServeInv, Idle, Rising
<1>11. ApplyInv'
  BY <1>1, <1>3, <1>6 DEF ApplyInv, NotApplying
<1>12. GivenInv'
  <2>1. PICK r \in Nat, es \in Seq(Entry) :
           /\ es = ReplayedEntries.ents /\ Len(es) = commit - r + 1 /\ r <= commit
           /\ r <= 1 \/ r <= meta.snap
           /\ \A x \in 1..Len(es) : es[x].index = r + x - 1
    BY <1>1, ReplayIs
  <2>2. PICK n \in Nat : n = Len(es) /\ n >= 1 /\ n = commit - r + 1
    BY <1>3, <2>1
  <2>3. PICK g : g = [k \in 1..n |-> es[k].index]
    OBVIOUS
  <2>4. given' = g
    BY <1>1, <2>1, <2>2, <2>3
  <2>5. \A k \in 1..n : es[k].index \in Nat /\ es[k].index = r + k - 1
    BY <2>1, <2>2
  <2>6. g \in Seq(Nat) /\ Len(g) = n /\ g # <<>>
    <3>1. g \in [1..n -> Nat]
      BY <2>3, <2>5
    <3>2. g \in Seq(Nat) /\ Len(g) = n
      BY <3>1
    <3> QED
      BY <2>2, <3>2
  <2>7. \A k \in 1..n : g[k] = r + k - 1
    BY <2>3, <2>5
  <2>8. g[1] = r /\ Last(g) = commit
    BY <1>3, <2>2, <2>6, <2>7, SMTT(40) DEF Last
  <2>9. \A k \in 1..Len(g) : g[k] = g[1] + k - 1
    BY <2>6, <2>7, <2>8
  <2>10. g[1] <= 1 \/ g[1] <= meta'.snap
    BY <1>1, <2>1, <2>8
  <2>11. Last(g) = appliedIndex' /\ appliedIndex' <= commit'
    BY <1>1, <1>3, <2>8
  <2> QED
    BY <2>4, <2>6, <2>9, <2>10, <2>11 DEF GivenInv
<1>13. SnapInv'
  BY <1>1, <1>3, <1>6 DEF SnapInv, NotSnapping
<1>14. ProposalInv'
  BY <1>1, <1>6 DEF ProposalInv, PeerSafe, NoData, Data
<1>15. ReplayInv'
  <2>1. PICK r \in Nat, es \in Seq(Entry) :
           /\ es = ReplayedEntries.ents /\ Len(es) = commit - r + 1 /\ r <= commit
           /\ \A x \in 1..Len(es) : es[x].index = r + x - 1
    BY <1>1, ReplayIs
  <2>2. PICK S : S = {e \in ToSet(es) : e.data.kind = "rows"}
    OBVIOUS
  <2>3. PICK td : td = Filter(es, S)
    OBVIOUS
  <2>4. td \in Seq(Entry) /\ \A x \in 1..Len(td) : \E y \in 1..Len(es) : td[x] = es[y]
    BY <2>1, <2>3, FilterRange, SMTT(40)
  <2>5. replay' = [listed |-> FALSE, todo |-> td]
    BY <1>1, <2>1, <2>2, <2>3 DEF RowsOf
  <2>6. replay' \in [listed : BOOLEAN, todo : Seq(Entry)] /\ replay'.todo = td
    BY <2>4, <2>5
  <2>7. ASSUME NEW k \in 1..Len(td)
         PROVE  td[k].index <= appliedIndex'
    <3>1. PICK y \in 1..Len(es) : td[k] = es[y]
      BY <2>4
    <3>2. es[y].index = r + y - 1
      BY <2>1
    <3>3. y <= commit - r + 1 /\ y \in Nat
      BY <1>3, <2>1
    <3> QED
      BY <1>1, <1>3, <3>1, <3>2, <3>3
  <2>8. Len(ap'.todo) = 0
    BY <1>1, <1>6 DEF NotApplying
  <2> QED
    BY <2>6, <2>7, <2>8 DEF ReplayInv
<1> QED
  BY <1>7, <1>8, <1>9, <1>10, <1>11, <1>12, <1>13, <1>14, <1>15 DEF IInv

\* What cannot be replayed was cleared.
LEMMA StartPanicsKeeps ==
  ASSUME IInv, StartPanics
  PROVE  IInv'
<1>0. PICK m : m = InitedLog
  OBVIOUS
<1>1. /\ phase = "down" /\ phase' = "panicked" /\ log' = m /\ ReplayedEntries.err # "nil"
      /\ UNCHANGED <<commit, meta, rapplied, appliedIndex, sv, ap, replay, given, cindex, flag, fl, sg>>
      /\ UNCHANGED <<proposal, chosen, cleared>>
  BY <1>0 DEF StartPanics, serving, snapping
<1>2. /\ LogOK(m, commit, chosen)
      /\ Lo(m) <= 1 \/ Lo(m) <= cleared \/ Lo(m) <= meta.index
  BY <1>0, InitedIs
<1>3. /\ commit \in Nat /\ meta.snap \in Nat /\ meta.index \in Nat /\ cleared \in Nat
  BY DEF IInv, Typed
<1>4. /\ Lo(m) \in Nat /\ Hi(m) \in Nat /\ commit < Hi(m) /\ FirstIndex(m) = Lo(m)
      /\ LastIndex(m) = Hi(m) - 1
  BY <1>2, <1>3, LogNums
<1>5. /\ rapplied = 0 /\ appliedIndex = 0 /\ given = <<>> /\ cindex = 0
      /\ sv = Idle /\ ap = NotApplying /\ sg = NotSnapping /\ proposal = NoData
  BY <1>1 DEF IInv, DownInv
<1>6. PICK r \in Nat : r = ReplayFrom /\ r >= 1 /\ r >= meta.snap
  BY <1>3 DEF ReplayFrom
<1>7. r < Lo(m)
  <2>1. ~(commit + 1 > LastIndex(m) + 1)
    BY <1>3, <1>4
  <2>2. ReplayedEntries = Entries(m, r, commit + 1)
    BY <1>0, <1>6 DEF ReplayedEntries
  <2> QED
    BY <1>1, <1>4, <2>1, <2>2 DEF Entries
<1>8. ReplayReads'
  <2>1. cleared > meta.snap \/ meta.index # meta.snap
    BY <1>2, <1>3, <1>4, <1>6, <1>7
  <2> QED
    BY <1>1, <2>1 DEF ReplayReads
<1>9. Typed'
  BY <1>1 DEF IInv, Typed
<1>10. LogInv'
  BY <1>1, <1>2 DEF LogInv
<1>11. DownInv' /\ GivenInv' /\ SnapInv' /\ ReplayInv'
  BY <1>1 DEF IInv, DownInv, GivenInv, SnapInv, ReplayInv
<1>12. ServeInv'
  BY <1>1, <1>3, <1>5 DEF ServeInv, Idle, Rising
<1>13. ApplyInv'
  BY <1>1, <1>3, <1>5 DEF ApplyInv, NotApplying
<1>14. ProposalInv'
  BY <1>1, <1>5 DEF ProposalInv, PeerSafe, NoData, Data
<1> QED
  BY <1>8, <1>9, <1>10, <1>11, <1>12, <1>13, <1>14 DEF IInv
-----------------------------------------------------------------------------
(* Ready.                                                                  *)

\* What the raft library gives the node to save from index i on.
IsAppended(i, ents) ==
  /\ i \in Nat /\ commit < i /\ i <= Hi(log)
  /\ ents \in Seq(Entry) /\ Len(ents) \in Nat /\ Len(ents) >= 1 /\ i + Len(ents) <= MaxIndex + 1
  /\ \A x \in 1..Len(ents) : /\ ents[x].index = i + x - 1 /\ ents[x] \in Entry
                             /\ Harmless(log, commit, ents[x])
  /\ ExtraFiles(log, i) <= MaxExtra

\* Data an entry of index i may carry.
Carried(i, d) == /\ d \in Data /\ PeerSafe(log, commit, d)
                 /\ d.kind = "clear" => d.index < i \/ d.index = MaxUint64

IsBatch(i, n, t, d, ents) ==
  i \in Nat /\ n \in Nat /\ t \in Nat /\ Carried(i, d) /\ ents = Batch(i, n, t, d)

LEMMA BatchIs ==
  ASSUME NEW i, NEW n, NEW t, NEW d, NEW ents, IsBatch(i, n, t, d, ents)
  PROVE  /\ ents \in Seq(Entry) /\ Len(ents) = n
         /\ \A x \in 1..n : /\ ents[x].index = i + x - 1 /\ ents[x] \in Entry
                            /\ Harmless(log, commit, ents[x])
<1>1. /\ d \in Data /\ PeerSafe(log, commit, d)
      /\ d.kind = "clear" => d.index < i \/ d.index = MaxUint64
  BY DEF Carried, IsBatch
<1>2. i \in Nat /\ n \in Nat /\ t \in Nat
  BY DEF IsBatch
<1>3. ents = [x \in 1..n |-> [term |-> t, index |-> i + x - 1, data |-> d]]
  BY DEF Batch, IsBatch
<1>4. ASSUME NEW x \in 1..n
      PROVE  /\ ents[x].index = i + x - 1 /\ ents[x].data = d /\ ents[x] \in Entry /\ i <= i + x - 1
  <2>1. i + x - 1 \in Nat /\ i <= i + x - 1
    BY <1>2
  <2>2. ents[x] = [term |-> t, index |-> i + x - 1, data |-> d]
    BY <1>3
  <2> QED
    BY <1>1, <1>2, <2>1, <2>2 DEF Entry
<1>5. ASSUME NEW x \in 1..n
      PROVE  Harmless(log, commit, ents[x])
  <2>1. d.index \in Nat /\ ents[x].index \in Nat
    BY <1>1, <1>4 DEF Data, Entry
  <2>2. ASSUME d.kind = "clear" PROVE d.index < ents[x].index \/ d.index = MaxUint64
    BY <1>1, <1>2, <1>4, <2>1, <2>2
  <2> QED
    BY <1>1, <1>4, <2>2 DEF Harmless, ClearsBefore
<1>6. ents \in [1..n -> Entry]
  BY <1>3, <1>4
<1>7. ents \in Seq(Entry) /\ Len(ents) = n
  BY <1>2, <1>6
<1> QED
  BY <1>4, <1>5, <1>7

LEMMA DatasAre ==
  ASSUME IInv, NEW i \in Nat, commit < i, NEW d \in Datas(i)
  PROVE  Carried(i, d)
<1>1. CASE d = Rows
  BY <1>1 DEF Rows, Data, PeerSafe, Carried
<1>2. CASE \E k \in 2..(i - 1) \cup {MaxUint64} : d = ClearEntryLog(k, 0)
  <2>1. PICK k \in 2..(i - 1) \cup {MaxUint64} : d = ClearEntryLog(k, 0)
    BY <1>2
  <2>2. k \in Nat /\ (k < i \/ k = MaxUint64)
    BY BoundsAssumption DEF MaxUint64
  <2> QED
    BY <2>1, <2>2 DEF ClearEntryLog, Data, PeerSafe, Carried
<1>3. CASE d = proposal
  <2>1. /\ proposal \in Data /\ (proposal.kind = "clear" => proposal.index <= commit \/ proposal.index = MaxUint64)
        /\ PeerSafe(log, commit, proposal) /\ commit \in Nat
    BY DEF IInv, ProposalInv, Typed
  <2>2. d.index \in Nat
    BY <1>3, <2>1 DEF Data
  <2> QED
    BY <1>3, <2>1, <2>2 DEF Carried
<1> QED
  BY <1>1, <1>2, <1>3 DEF Datas

LEMMA AppendedIs ==
  ASSUME IInv, NEW ents \in Appended
  PROVE  \E i \in Nat : IsAppended(i, ents)
<1>0. /\ commit \in Nat /\ LogOK(log, commit, chosen) /\ MaxIndex \in Nat /\ MaxBatch \in Nat
      /\ MaxTerm \in Nat
  BY BoundsAssumption DEF IInv, Typed, LogInv
<1>1. /\ Wf(log) /\ Lo(log) \in Nat \ {0} /\ Hi(log) \in Nat /\ Lo(log) <= commit /\ commit < Hi(log)
      /\ LastIndex(log) = Hi(log) - 1
  BY <1>0, LogNums
<1>2. PICK M : M = Min({LastIndex(log) + 1, MaxIndex})
  OBVIOUS
<1>3. M \in Int /\ M <= Hi(log) /\ M <= MaxIndex
  <2>1. LastIndex(log) + 1 = Hi(log)
    BY <1>1
  <2>2. PICK a \in Int, b \in Int : a = LastIndex(log) + 1 /\ b = MaxIndex
    BY <1>0, <1>1, <2>1
  <2>3. Min({a, b}) \in {a, b} /\ Min({a, b}) <= a /\ Min({a, b}) <= b
    BY MinOfTwo
  <2>4. M = Min({a, b})
    BY <1>2, <2>2
  <2> QED
    BY <2>1, <2>2, <2>3, <2>4
<1>4. PICK i \in (commit + 1)..M :
        /\ ExtraFiles(log, i) <= MaxExtra
        /\ ents \in UNION {{Batch(i, 1, t, d) : d \in Datas(i)}
                           \cup {Batch(i, n, t, Rows) : n \in 1..Min({MaxBatch, MaxIndex - i + 1})}
                           : t \in {u \in TermOf(i - 1)..MaxTerm : ~Stored(i) \/ u # TermOf(i)}}
  BY <1>2 DEF Appended
<1>5. i \in Nat /\ commit < i /\ i <= Hi(log) /\ i <= MaxIndex /\ i - 1 \in Nat
      /\ Lo(log) <= i - 1 /\ i - 1 < Hi(log)
  BY <1>0, <1>1, <1>3
<1>6. TermOf(i - 1) \in Nat
  <2>1. PICK k \in 1..Num(log) : In(log, k, i - 1)
    BY <1>1, <1>5, Located
  <2>2. SeekEntry(log, i - 1) = [err |-> "nil", term |-> At(log, k, i - 1).term]
    BY <1>1, <1>5, <2>1, SeekIn
  <2>3. At(log, k, i - 1) \in Entry
    BY <1>1, <1>5, <2>1, InFacts
  <2> QED
    BY <2>2, <2>3 DEF TermOf, Entry
<1>7. PICK t \in TermOf(i - 1)..MaxTerm :
        ents \in {Batch(i, 1, t, d) : d \in Datas(i)}
                 \cup {Batch(i, n, t, Rows) : n \in 1..Min({MaxBatch, MaxIndex - i + 1})}
  BY <1>4
<1>8. t \in Nat
  BY <1>0, <1>6
<1>9. PICK n \in Nat : /\ n >= 1 /\ i + n <= MaxIndex + 1
                       /\ \E d : Carried(i, d) /\ ents = Batch(i, n, t, d)
  <2>1. CASE ents \in {Batch(i, 1, t, d) : d \in Datas(i)}
    <3>1. PICK d \in Datas(i) : ents = Batch(i, 1, t, d)
      BY <2>1
    <3>2. Carried(i, d)
      BY <1>5, DatasAre
    <3>3. 1 \in Nat /\ 1 >= 1 /\ i + 1 <= MaxIndex + 1
      BY <1>0, <1>5
    <3> QED
      BY <3>1, <3>2, <3>3
  <2>2. CASE ents \in {Batch(i, n, t, Rows) : n \in 1..Min({MaxBatch, MaxIndex - i + 1})}
    <3>1. PICK n \in 1..Min({MaxBatch, MaxIndex - i + 1}) : ents = Batch(i, n, t, Rows)
      BY <2>2
    <3>2. PICK a \in Int : a = MaxIndex - i + 1
      BY <1>0, <1>5
    <3>3. Min({MaxBatch, a}) \in {MaxBatch, a} /\ Min({MaxBatch, a}) <= a
      BY <1>0, MinOfTwo
    <3>4. n \in Nat /\ n >= 1 /\ n <= a
      BY <1>0, <3>2, <3>3
    <3>5. i + n <= MaxIndex + 1
      BY <1>0, <1>5, <3>2, <3>4
    <3>6. Carried(i, Rows)
      BY DEF Rows, Data, PeerSafe, Carried
    <3> QED
      BY <3>1, <3>4, <3>5, <3>6
  <2> QED
    BY <1>7, <2>1, <2>2
<1>10. /\ ents \in Seq(Entry) /\ Len(ents) = n
       /\ \A x \in 1..n : /\ ents[x].index = i + x - 1 /\ ents[x] \in Entry
                          /\ Harmless(log, commit, ents[x])
  <2>1. PICK d : Carried(i, d) /\ ents = Batch(i, n, t, d)
    BY <1>9
  <2>2. IsBatch(i, n, t, d, ents)
    BY <1>5, <1>8, <2>1 DEF IsBatch
  <2> QED
    BY <2>2, BatchIs
<1>11. IsAppended(i, ents)
  BY <1>4, <1>5, <1>9, <1>10 DEF IsAppended
<1> QED
  BY <1>5, <1>11

\* SaveToStorage, of all the entries or of some: what is committed stays.
LEMMA SavedIs ==
  ASSUME IInv, NEW i, NEW ents, IsAppended(i, ents), NEW n \in 0..Len(ents), NEW m,
         m = WriteEntries(DiscardFrom(log, i), SubSeq(ents, 1, n), Large)
  PROVE  /\ LogOK(m, commit, chosen) /\ Lo(m) = Lo(log) /\ Hi(m) = i + n /\ Keeps(log, m, commit)
<1>0. /\ commit \in Nat /\ LogOK(log, commit, chosen)
  BY DEF IInv, Typed, LogInv
<1>1. /\ Wf(log) /\ Lo(log) \in Nat \ {0} /\ Hi(log) \in Nat /\ Lo(log) <= commit /\ MaxIndex \in Nat
  BY <1>0, LogNums
<1>2. /\ i \in Nat /\ commit < i /\ i <= Hi(log)
      /\ ents \in Seq(Entry) /\ Len(ents) \in Nat /\ Len(ents) >= 1 /\ i + Len(ents) <= MaxIndex + 1
      /\ \A x \in 1..Len(ents) : /\ ents[x].index = i + x - 1 /\ ents[x] \in Entry
                                 /\ Harmless(log, commit, ents[x])
  BY DEF IsAppended
<1>3. Lo(log) < i /\ ents # <<>>
  BY <1>0, <1>1, <1>2
<1>4. /\ Wf(m) /\ Lo(m) = Lo(log) /\ Hi(m) = i + n
      /\ Keeps(log, m, i - 1)
      /\ \A k \in 1..Num(m), j \in Nat : In(m, k, j) /\ j >= i =>
           j - i + 1 \in 1..Len(ents) /\ SameSlot(At(m, k, j), ents[j - i + 1])
  BY <1>1, <1>2, <1>3, AddEntriesIs
<1>5. n \in Nat /\ n <= Len(ents)
  BY <1>2
<1>6. PICK b \in Nat : b = i - 1 /\ commit <= b
  <2>1. i - 1 \in Nat /\ commit <= i - 1
    BY <1>0, <1>2
  <2> QED
    BY <2>1
<1>7. Lo(m) <= commit /\ commit < Hi(m) /\ Hi(m) <= MaxIndex + 1
  BY <1>0, <1>1, <1>2, <1>4, <1>5
<1>8. Keeps(log, m, b)
  BY <1>4, <1>6
<1>9. Keeps(log, m, commit)
  BY <1>0, <1>6, <1>8 DEF Keeps
<1>10. ASSUME NEW k \in 1..Num(m), NEW j \in Nat, In(m, k, j), j > b
       PROVE  Harmless(m, commit, At(m, k, j))
  <2>1. j >= i
    BY <1>2, <1>6, <1>10
  <2>2. PICK x \in 1..Len(ents) : SameSlot(At(m, k, j), ents[x])
    BY <1>4, <1>10, <2>1
  <2>3. ents[x] \in Entry /\ Harmless(log, commit, ents[x])
    BY <1>2
  <2>4. At(m, k, j) \in Entry
    BY <1>4, <1>10, InFacts
  <2>5. commit <= commit
    BY <1>0
  <2> QED
    BY <1>0, <1>9, <2>2, <2>3, <2>4, <2>5, HarmlessKept
<1>11. \A k \in 1..Num(m), j \in Nat : In(m, k, j) /\ j > b => Harmless(m, commit, At(m, k, j))
  BY <1>10
<1>12. LogOK(m, commit, chosen)
  BY <1>0, <1>4, <1>6, <1>7, <1>8, <1>11, LogKept
<1> QED
  BY <1>4, <1>9, <1>12
LEMMA AddedIs ==
  ASSUME IInv, NEW ents \in Appended \cup {<<>>}, NEW m, m = AddEntries(log, ents, Large)
  PROVE  LogOK(m, commit, chosen) /\ Lo(m) = Lo(log) /\ Keeps(log, m, commit)
<1>1. CASE ents = <<>>
  <2>1. m = log
    BY <1>1 DEF AddEntries
  <2>2. LogOK(log, commit, chosen) /\ Keeps(log, log, commit)
    BY DEF IInv, LogInv, Keeps, SameSlot
  <2> QED
    BY <2>1, <2>2
<1>2. CASE ents # <<>>
  <2>1. PICK i \in Nat : IsAppended(i, ents)
    BY <1>2, AppendedIs
  <2>2. /\ ents \in Seq(Entry) /\ Len(ents) \in Nat /\ Len(ents) >= 1
        /\ \A x \in 1..Len(ents) : ents[x].index = i + x - 1
    BY <2>1 DEF IsAppended
  <2>3. ents[1].index = i
    <3>1. 1 \in 1..Len(ents) /\ i + 1 - 1 = i
      BY <2>2
    <3> QED
      BY <2>2, <3>1
  <2>4. SubSeq(ents, 1, Len(ents)) = ents
    BY <2>2
  <2>5. m = WriteEntries(DiscardFrom(log, i), SubSeq(ents, 1, Len(ents)), Large)
    BY <1>2, <2>3, <2>4 DEF AddEntries
  <2>6. Len(ents) \in 0..Len(ents)
    BY <2>2
  <2> QED
    BY <2>1, <2>5, <2>6, SavedIs
<1> QED
  BY <1>1, <1>2

LEMMA ReadyKeeps ==
  ASSUME IInv, phase = "up", sv.at = "idle", NEW ents \in Appended \cup {<<>>},
         NEW c \in commit..MaxIndex, Ready(ents, c)
  PROVE  IInv'
<1>0. PICK m : m = AddEntries(log, ents, Large)
  OBVIOUS
<1>1. LogOK(m, commit, chosen) /\ Lo(m) = Lo(log) /\ Keeps(log, m, commit)
  BY <1>0, AddedIs
<1>2. PICK upto \in {c, Min({c, rapplied + 1})} :
        /\ c \in commit..LastIndex(m) /\ log' = m /\ commit' = c
        /\ chosen' = chosen \o AllEntries(m, commit + 1, c + 1)
        /\ rapplied' = upto
        /\ sv' = [at |-> "publish", ents |-> AllEntries(m, rapplied + 1, upto + 1)]
        /\ proposal' = NoData \/ proposal' = proposal
        /\ UNCHANGED <<meta, phase, appliedIndex, ap, replay, given, cindex, flag, fl, sg, cleared>>
  BY <1>0 DEF Ready, snapping
<1>3. /\ commit \in Nat /\ rapplied \in Nat /\ appliedIndex \in Nat /\ rapplied <= commit
      /\ appliedIndex <= commit /\ Lo(log) <= rapplied + 1
  BY DEF IInv, Typed, ServeInv, GivenInv, LogInv
<1>4. /\ Wf(m) /\ Lo(m) \in Nat /\ Hi(m) \in Nat /\ LastIndex(m) = Hi(m) - 1 /\ MaxIndex \in Nat
  BY <1>1, <1>3, LogNums
<1>5. c \in Nat /\ commit <= c /\ c < Hi(m)
  BY <1>2, <1>3, <1>4
<1>6. upto \in Nat /\ rapplied <= upto /\ upto <= c
  <2>1. PICK a \in Int, b \in Int : a = c /\ b = rapplied + 1
    BY <1>3, <1>5
  <2>2. Min({a, b}) \in {a, b} /\ Min({a, b}) <= a
    BY MinOfTwo
  <2>3. upto \in {a, Min({a, b})}
    BY <2>1
  <2> QED
    BY <1>3, <1>5, <2>1, <2>2, <2>3
<1>7. LogOK(m, c, chosen')
  BY <1>1, <1>2, <1>3, <1>5, LogCommitted
<1>8. PICK es : es = AllEntries(m, rapplied + 1, upto + 1)
  OBVIOUS
<1>9. IsRead(m, rapplied, upto, es)
  <2>1. Lo(m) <= rapplied + 1 /\ upto < Hi(m)
    BY <1>1, <1>3, <1>4, <1>5, <1>6
  <2> QED
    BY <1>3, <1>4, <1>6, <1>8, <2>1 DEF IsRead
<1>10. /\ es \in Seq(Entry) /\ Len(es) = upto - rapplied
       /\ \A x \in 1..(upto - rapplied) :
            /\ es[x] \in Entry /\ es[x].index = rapplied + x
            /\ \E k \in 1..Num(m) : In(m, k, rapplied + x) /\ es[x] = At(m, k, rapplied + x)
  BY <1>9, Read DEF Copies
<1>11. \A x \in 1..Len(es) : Harmless(m, c, es[x])
  <2> TAKE x \in 1..Len(es)
  <2>1. x \in 1..(upto - rapplied) /\ rapplied + x \in Nat
    BY <1>3, <1>6, <1>10
  <2>2. PICK k \in 1..Num(m) : In(m, k, rapplied + x) /\ es[x] = At(m, k, rapplied + x)
    BY <1>10, <2>1
  <2>3. Harmless(m, c, At(m, k, rapplied + x))
    BY <1>5, <1>7, <2>1, <2>2, LogSlot
  <2> QED
    BY <2>2, <2>3
<1>12. sv.ents = <<>> /\ rapplied <= appliedIndex
  BY DEF IInv, ServeInv
<1>13. Typed'
  BY <1>2, <1>3, <1>5, <1>6 DEF IInv, Typed
<1>14. LogInv'
  <2>1. Lo(m) <= upto + 1
    BY <1>1, <1>3, <1>4, <1>6
  <2> QED
    BY <1>1, <1>2, <1>7, <2>1 DEF IInv, LogInv
<1>15. DownInv' /\ ReplayReads'
  BY <1>2 DEF DownInv, ReplayReads
<1>16. ServeInv'
  <2>1. sv'.at = "publish" /\ sv'.ents = es
        /\ sv' \in [at : {"idle", "publish", "wait"}, ents : Seq(Entry)]
    BY <1>2, <1>8, <1>10
  <2>2. es = <<>> => upto <= appliedIndex
    BY <1>3, <1>6, <1>10, <1>12
  <2>3. ASSUME es # <<>>
        PROVE  es[1].index <= appliedIndex + 1 /\ Last(es).index = upto
               /\ \A j \in 1..Len(es) : es[j].index = es[1].index + j - 1
    <3>1. Len(es) \in Nat /\ Len(es) >= 1 /\ 1 \in 1..(upto - rapplied)
          /\ upto - rapplied \in 1..(upto - rapplied) /\ rapplied + (upto - rapplied) = upto
      BY <1>3, <1>6, <1>10, <2>3
    <3>2. es[1].index = rapplied + 1 /\ es[upto - rapplied].index = upto
      BY <1>10, <3>1
    <3>3. \A j \in 1..Len(es) : es[j].index = rapplied + j
      BY <1>10
    <3> QED
      BY <1>3, <1>10, <1>12, <3>1, <3>2, <3>3, SMTT(30) DEF Last
  <2>4. Rising(es)
    <3>1. CASE es = <<>>
      BY <3>1 DEF Rising
    <3> QED
      BY <2>3, <3>1 DEF Rising
  <2> QED
    BY <1>2, <1>6, <1>11, <2>1, <2>2, <2>3, <2>4 DEF ServeInv
<1>17. ApplyInv'
  <2>1. ap.at # "apply" /\ ap.todo = <<>>
    BY DEF IInv, ApplyInv
  <2> QED
    BY <1>2, <2>1 DEF IInv, ApplyInv
<1>18. GivenInv' /\ ReplayInv'
  <2>1. GivenInv'
    BY <1>2, <1>3, <1>5, SMTT(40) DEF IInv, GivenInv
  <2>2. ReplayInv'
    BY <1>2, SMTT(40) DEF IInv, ReplayInv
  <2> QED
    BY <2>1, <2>2
<1>19. SnapInv'
  BY <1>2, <1>3, <1>5 DEF IInv, SnapInv, Typed
<1>20. ProposalInv'
  <2>1. CASE proposal' = NoData
    BY <1>2, <2>1 DEF ProposalInv, PeerSafe, NoData, Data
  <2>2. CASE proposal' = proposal
    <3>1. /\ proposal \in Data /\ PeerSafe(log, commit, proposal)
          /\ proposal.kind = "clear" => proposal.index <= commit \/ proposal.index = MaxUint64
      BY DEF IInv, ProposalInv
    <3>2. commit <= commit
      BY <1>3
    <3>3. PeerSafe(m, c, proposal)
      BY <1>1, <1>3, <1>5, <3>1, <3>2, PeerKept
    <3>4. proposal.index \in Nat
      BY <3>1 DEF Data
    <3> QED
      BY <1>2, <1>3, <1>5, <2>2, <3>1, <3>3, <3>4 DEF ProposalInv
  <2> QED
    BY <1>2, <2>1, <2>2
<1> QED
  BY <1>13, <1>14, <1>15, <1>16, <1>17, <1>18, <1>19, <1>20 DEF IInv

\* The files AddEntries deletes can be counted.
LEMMA ExtraIs ==
  ASSUME NEW l, Wf(l), NEW i \in Nat, Lo(l) <= i, i <= Hi(l)
  PROVE  ExtraFiles(l, i) \in Int
<1>1. PICK k \in 1..Num(l) : SlotGe(l, i) = <<IF k = Num(l) THEN -1 ELSE k - 1, i - Starts(l)[k]>>
  BY SlotOf
<1>2. Len(l.files) \in Nat /\ k \in Int
  BY WfTypes
<1>3. SlotGe(l, i)[1] \in Int
  BY <1>1, <1>2
<1> QED
  BY <1>2, <1>3 DEF ExtraFiles

\* A crash in the middle of a save leaves a log without gaps.
LEMMA CrashedIs ==
  ASSUME IInv, OneExtraFile, NEW ents \in Appended \cup {<<>>}, CrashInSave(ents)
  PROVE  LogOK(log', commit, chosen) /\ Lo(log') = Lo(log)
<1>0. PICK i \in Nat : IsAppended(i, ents)
  BY AppendedIs DEF CrashInSave
<1>1. /\ i \in Nat /\ commit < i /\ i <= Hi(log) /\ ExtraFiles(log, i) <= MaxExtra
      /\ ents \in Seq(Entry) /\ Len(ents) \in Nat /\ Len(ents) >= 1
      /\ \A x \in 1..Len(ents) : ents[x].index = i + x - 1
  BY <1>0 DEF IsAppended
<1>2. ents[1].index = i
  <2>1. 1 \in 1..Len(ents) /\ i + 1 - 1 = i
    BY <1>1
  <2> QED
    BY <1>1, <2>1
<1>3. /\ commit \in Nat /\ LogOK(log, commit, chosen)
  BY DEF IInv, Typed, LogInv
<1>4. /\ Wf(log) /\ Lo(log) \in Nat /\ Hi(log) \in Nat /\ Lo(log) <= commit
  BY <1>3, LogNums
<1>5. Lo(log) <= i
  BY <1>1, <1>3, <1>4
<1>6. CASE \E k \in 1..ExtraFiles(log, i) : log' = DeletedExtra(log, i, k)
  <2>1. PICK k \in 1..ExtraFiles(log, i) : log' = DeletedExtra(log, i, k)
    BY <1>6
  <2>2. ExtraFiles(log, i) \in Int /\ MaxExtra \in Nat
    BY <1>1, <1>4, <1>5, ExtraIs, BoundsAssumption
  <2>3. ExtraFiles(log, i) = 1 /\ k = 1
    BY <1>1, <2>2 DEF OneExtraFile
  <2>4. PICK m : m = DeletedExtra(log, i, 1)
    OBVIOUS
  <2>5. /\ Wf(m) /\ Lo(m) = Lo(log) /\ i <= Hi(m) /\ Hi(m) <= Hi(log)
        /\ \A c \in Nat : Keeps(log, m, c)
    BY <1>1, <1>4, <1>5, <2>3, <2>4, DeletedOneIs
  <2>6. Hi(m) \in Nat
    BY <2>5, LoHi
  <2>7. Lo(m) <= commit /\ commit < Hi(m)
    BY <1>1, <1>3, <1>4, <2>5, <2>6
  <2>8. LogOK(m, commit, chosen)
    BY <1>3, <2>5, <2>7, LogShrunk
  <2> QED
    BY <2>1, <2>3, <2>4, <2>5, <2>8
<1>7. CASE \E k \in 0..(Len(ents) - 1) :
             log' = WriteEntries(DiscardFrom(log, i), SubSeq(ents, 1, k), Large)
  <2>1. PICK k \in 0..(Len(ents) - 1) :
          log' = WriteEntries(DiscardFrom(log, i), SubSeq(ents, 1, k), Large)
    BY <1>7
  <2>2. PICK m : m = WriteEntries(DiscardFrom(log, i), SubSeq(ents, 1, k), Large)
    OBVIOUS
  <2>3. k \in 0..Len(ents)
    BY <1>1
  <2>4. LogOK(m, commit, chosen) /\ Lo(m) = Lo(log)
    BY <1>0, <2>2, <2>3, SavedIs
  <2> QED
    BY <2>1, <2>2, <2>4
<1> QED
  BY <1>2, <1>6, <1>7 DEF CrashInSave

LEMMA CrashInSaveKeeps ==
  ASSUME IInv, OneExtraFile, NEW ents \in Appended \cup {<<>>}, CrashInSave(ents)
  PROVE  IInv'
<1>1. commit \in Nat
  BY DEF IInv, Typed
<1>2. LogOK(log', commit, chosen) /\ Lo(log') = Lo(log)
  BY CrashedIs
<1>3. Volatile /\ UNCHANGED <<commit, meta, chosen, cleared>>
  BY DEF CrashInSave
<1>4. Typed'
  BY <1>3 DEF IInv, Typed, NotSnapping, Volatile
<1>5. LogInv'
  BY <1>2, <1>3 DEF IInv, LogInv, Volatile
<1>6. DownInv'
  BY <1>3 DEF DownInv, Volatile
<1>7. ServeInv' /\ ApplyInv'
  BY <1>1, <1>3 DEF ServeInv, ApplyInv, Idle, NotApplying, Rising, Volatile
<1>8. GivenInv' /\ SnapInv'
  BY <1>3 DEF IInv, GivenInv, SnapInv, NotSnapping, Typed, Volatile
<1>9. ProposalInv'
  BY <1>3 DEF ProposalInv, PeerSafe, NoData, Data, Volatile
<1>10. ReplayReads' /\ ReplayInv'
  BY <1>3 DEF ReplayReads, ReplayInv, NotReplaying, Volatile
<1> QED
  BY <1>4, <1>5, <1>6, <1>7, <1>8, <1>9, <1>10 DEF IInv
-----------------------------------------------------------------------------
(* dealCommitData.                                                         *)

\* A ClearEntryLog of math.MaxUint64 is remembered.
LEMMA ClearedToo ==
  ASSUME cleared \in Nat, ~Overcleared, DealCommitData, ~Overcleared',
         Head(ap.todo).data.kind = "clear", NEW i \in Nat, i = Head(ap.todo).data.index
  PROVE  i # MaxUint64
<1>1. SUFFICES ASSUME i = MaxUint64 PROVE FALSE
  OBVIOUS
<1>2. PICK a \in Int, b \in Int : a = cleared /\ b = i
  OBVIOUS
<1>3. cleared' = Max({a, b})
  BY <1>2 DEF DealCommitData
<1>4. Max({a, b}) \in {a, b} /\ Max({a, b}) >= a /\ Max({a, b}) >= b
  BY MaxOfTwo
<1>5. cleared' \in Nat /\ cleared' >= MaxIndex + 1 /\ MaxIndex \in Nat
  BY <1>1, <1>2, <1>3, <1>4, BoundsAssumption DEF MaxUint64
<1> QED
  BY <1>5 DEF Overcleared

LEMMA DealKeeps ==
  ASSUME IInv, ~Overcleared, DealCommitData, ~Overcleared'
  PROVE  IInv'
<1>0. /\ ap.at = "apply" /\ ap.todo # <<>> /\ ap' = [ap EXCEPT !.todo = Tail(ap.todo)]
      /\ UNCHANGED <<commit, meta, phase, rapplied, appliedIndex, sv, replay, given, cindex, flag, sg>>
      /\ UNCHANGED <<proposal, chosen>>
  BY DEF DealCommitData
<1>1. phase = "up" /\ sv.at = "wait"
  BY <1>0, Running DEF IInv, ApplyInv
<1>2. /\ commit \in Nat /\ rapplied \in Nat /\ cleared \in Nat /\ rapplied <= commit
      /\ meta.index \in Nat /\ Lo(log) <= rapplied + 1 /\ LogOK(log, commit, chosen)
      /\ Lo(log) <= 1 \/ Lo(log) <= cleared \/ Lo(log) <= meta.index
  BY <1>1 DEF IInv, Typed, ServeInv, LogInv
<1>3. /\ Wf(log) /\ Lo(log) \in Nat /\ Hi(log) \in Nat /\ Lo(log) <= commit /\ commit < Hi(log)
  BY <1>2, LogNums
<1>4. /\ ap.todo \in Seq(Entry) /\ ap \in [at : {"idle", "apply", "update"}, todo : Seq(Entry), ci : Nat]
      /\ \A j \in 1..Len(ap.todo) : ap.todo[j].index <= rapplied /\ Harmless(log, commit, ap.todo[j])
  BY DEF IInv, ApplyInv
<1>5. PICK e : e = Head(ap.todo)
  OBVIOUS
<1>6. e \in Entry /\ e.index <= rapplied /\ Harmless(log, commit, e)
  <2>1. 1 \in 1..Len(ap.todo) /\ e = ap.todo[1]
    BY <1>0, <1>4, <1>5
  <2> QED
    BY <1>4, <2>1
<1>7. /\ e.data \in Data /\ e.data.index \in Nat /\ e.index \in Nat
  BY <1>6 DEF Entry, Data
<1>8. /\ LogOK(log', commit, chosen) /\ Keeps(log, log', commit) /\ cleared' \in Nat
      /\ Lo(log') <= 1 \/ Lo(log') <= cleared' \/ Lo(log') <= meta.index
      /\ Lo(log') <= rapplied + 1
  <2>1. CASE e.data.kind = "clear"
    <3>0. PICK i \in Nat : i = e.data.index
      BY <1>7
    <3>1. PICK m : i = e.data.index /\ m = DeleteBefore(log, i)
      BY <3>0
    <3>2. log' = m /\ cleared' = Max({cleared, i})
      BY <1>5, <2>1, <3>1 DEF DealCommitData
    <3>3. i < e.index
      <4>1. i # MaxUint64
        BY <1>2, <1>5, <2>1, <3>0, ClearedToo
      <4> QED
        BY <1>6, <2>1, <3>1, <4>1 DEF Harmless, ClearsBefore
    <3>4. i < rapplied /\ i <= commit /\ i < Hi(log)
      BY <1>2, <1>3, <1>6, <1>7, <3>3
    <3>5. /\ Wf(m) /\ Hi(m) = Hi(log) /\ (Lo(m) <= i \/ Lo(m) = Lo(log))
          /\ \A c \in Nat : Keeps(log, m, c)
      BY <1>3, <3>1, <3>4, DeleteIs
    <3>6. Lo(m) \in Nat
      BY <3>5, LoHi
    <3>7. Lo(m) <= commit /\ commit < Hi(m) /\ Hi(m) <= Hi(log) /\ Lo(m) <= rapplied + 1
      BY <1>2, <1>3, <3>4, <3>5, <3>6
    <3>8. LogOK(m, commit, chosen) /\ Keeps(log, m, commit)
      BY <1>2, <3>5, <3>7, LogShrunk
    <3>9. cleared' \in Nat /\ cleared <= cleared' /\ i <= cleared'
      <4>1. PICK a \in Int, b \in Int : a = cleared /\ b = i
        BY <1>2
      <4>2. Max({a, b}) \in {a, b} /\ Max({a, b}) >= a /\ Max({a, b}) >= b
        BY MaxOfTwo
      <4> QED
        BY <1>2, <3>2, <4>1, <4>2
    <3>10. Lo(m) <= 1 \/ Lo(m) <= cleared' \/ Lo(m) <= meta.index
      BY <1>2, <1>3, <3>5, <3>6, <3>9
    <3> QED
      BY <3>2, <3>7, <3>8, <3>9, <3>10
  <2>2. CASE e.data.kind # "clear"
    <3>1. log' = log /\ cleared' = cleared
      BY <1>5, <2>2 DEF DealCommitData
    <3>2. Keeps(log, log, commit)
      BY DEF Keeps, SameSlot
    <3> QED
      BY <1>2, <3>1, <3>2
  <2> QED
    BY <2>1, <2>2
<1>9. Typed' /\ LogInv'
  <2>1. fl' \in [Shards -> {"unset", "idle", "locked"}]
    BY DEF IInv, Typed, DealCommitData
  <2> QED
    BY <1>0, <1>8, <2>1 DEF IInv, Typed, LogInv
<1>10. DownInv' /\ ReplayReads'
  BY <1>0, <1>1 DEF DownInv, ReplayReads
<1>11. ServeInv'
  <2>1. sv.ents = <<>>
    BY <1>1 DEF IInv, ServeInv
  <2>2. Len(sv.ents) = 0
    BY <2>1
  <2> QED
    BY <1>0, <2>1, <2>2 DEF IInv, ServeInv
<1>12. commit <= commit
  BY <1>2
<1>13. ApplyInv'
  <2>1. PICK td : td = Tail(ap.todo)
    OBVIOUS
  <2>2. /\ td \in Seq(Entry) /\ Len(td) = Len(ap.todo) - 1 /\ Len(ap.todo) \in Nat
        /\ \A j \in 1..Len(td) : td[j] = ap.todo[j + 1]
    BY <1>0, <1>4, <2>1
  <2>3. /\ ap'.at = "apply" /\ ap'.todo = td /\ ap'.ci = ap.ci
        /\ ap' \in [at : {"idle", "apply", "update"}, todo : Seq(Entry), ci : Nat]
    BY <1>0, <1>4, <2>1, <2>2
  <2>4. ASSUME NEW j \in 1..Len(td)
        PROVE  td[j].index <= rapplied /\ Harmless(log', commit, td[j])
    <3>1. j + 1 \in 1..Len(ap.todo)
      BY <2>2
    <3>2. /\ td[j] = ap.todo[j + 1] /\ ap.todo[j + 1] \in Entry
          /\ ap.todo[j + 1].index <= rapplied /\ Harmless(log, commit, ap.todo[j + 1])
      BY <1>4, <2>2, <3>1
    <3>3. PICK f : f = td[j]
      OBVIOUS
    <3>4. f \in Entry /\ Harmless(log, commit, f) /\ f.index <= rapplied /\ SameSlot(f, f)
      BY <3>2, <3>3 DEF SameSlot
    <3>5. Harmless(log', commit, f)
      BY <1>2, <1>8, <1>12, <3>4, HarmlessKept
    <3> QED
      BY <3>3, <3>4, <3>5
  <2>5. ap.ci <= appliedIndex
    BY DEF IInv, ApplyInv
  <2> QED
    BY <1>0, <1>1, <2>3, <2>4, <2>5 DEF ApplyInv
<1>14. ReplayInv'
  <2>1. PICK td : td = Tail(ap.todo)
    OBVIOUS
  <2>2. /\ Len(td) = Len(ap.todo) - 1 /\ Len(ap.todo) \in Nat
        /\ \A j \in 1..Len(td) : td[j] = ap.todo[j + 1]
    BY <1>0, <1>4, <2>1
  <2>3. ap'.todo = td
    BY <1>0, <1>4, <2>1
  <2>4. ASSUME NEW k \in 1..Len(replay.todo), NEW j \in 1..Len(td)
        PROVE  replay.todo[k].index < td[j].index
    <3>1. j + 1 \in 1..Len(ap.todo) /\ td[j] = ap.todo[j + 1]
      BY <2>2
    <3> QED
      BY <3>1 DEF IInv, ReplayInv
  <2> QED
    BY <1>0, <2>3, <2>4 DEF IInv, ReplayInv
<1>16. SnapInv' /\ GivenInv'
  BY <1>0 DEF IInv, SnapInv, GivenInv
<1>15. ProposalInv'
  <2>1. /\ proposal \in Data /\ PeerSafe(log, commit, proposal)
        /\ proposal.kind = "clear" => proposal.index <= commit \/ proposal.index = MaxUint64
    BY DEF IInv, ProposalInv
  <2>2. PeerSafe(log', commit, proposal)
    BY <1>2, <1>8, <1>12, <2>1, PeerKept
  <2> QED
    BY <1>0, <2>1, <2>2 DEF ProposalInv
<1> QED
  BY <1>9, <1>10, <1>11, <1>13, <1>14, <1>15, <1>16 DEF IInv

-----------------------------------------------------------------------------
(* The invariant.                                                          *)

LEMMA InitKeeps ==
  ASSUME Init
  PROVE  IInv
<1>0. PICK e : e = [term |-> 1, index |-> 1, data |-> NoData]
  OBVIOUS
<1>1. e \in Entry /\ e.index = 1 /\ e.term = 1 /\ e.data = NoData
  BY <1>0 DEF Entry, Data, NoData
<1>2. PICK cur : cur = <<e>>
  OBVIOUS
<1>3. cur \in Seq(Entry) /\ Len(cur) = 1 /\ cur[1] = e
  BY <1>1, <1>2
<1>4. PICK l : l = [files |-> <<>>, current |-> cur, next |-> 1]
  OBVIOUS
<1>5. l \in LogType /\ l.files = <<>> /\ l.current = cur /\ l.next = 1
  <2>1. <<>> \in Seq(Seq(Entry))
    OBVIOUS
  <2> QED
    BY <1>3, <1>4, <2>1 DEF LogType
<1>6. Len(l.files) = 0 /\ Num(l) = 1
  BY <1>5 DEF Num
<1>7. File(l, 1) = cur
  BY <1>5, <1>6 DEF File
<1>8. PICK st : st = [k \in 1..1 |-> 1]
  OBVIOUS
<1>9. Chain(l, st) /\ Used(l)
  <2>1. MaxNumEntries \in Nat /\ 1 <= MaxNumEntries
    BY SlotsAssumption
  <2>2. \A k \in 1..1 : k = 1
    OBVIOUS
  <2>3. st \in [1..1 -> Nat \ {0}] /\ st[1] = 1
    BY <1>8
  <2>4. \A k \in 1..Num(l) : /\ Len(File(l, k)) <= MaxNumEntries
                             /\ k # Num(l) => Len(File(l, k)) > 0
    BY <1>3, <1>6, <1>7, <2>1, <2>2
  <2>5. \A k \in 1..Num(l) : \A x \in 1..Len(File(l, k)) : File(l, k)[x].index = st[k] + x - 1
    BY <1>1, <1>3, <1>6, <1>7, <2>2, <2>3
  <2>6. \A k \in 1..Len(l.files) : st[k + 1] = st[k] + Len(File(l, k))
    BY <1>6
  <2>7. \A j, k \in 1..Num(l) : j < k => st[j] + Len(File(l, j)) <= st[k]
    BY <1>6, <2>2
  <2>8. Chain(l, st)
    BY <1>3, <1>5, <1>6, <2>3, <2>4, <2>5, <2>6, <2>7 DEF Chain
  <2>9. Used(l)
    BY <1>2, <1>5 DEF Used
  <2> QED
    BY <2>8, <2>9
<1>10. Starts(l) = st /\ Wf(l)
  BY <1>9, StartsUnique
<1>11. Lo(l) = 1 /\ Hi(l) = 2
  <2>1. Starts(l)[1] = 1
    BY <1>8, <1>10
  <2>2. Len(l.current) = 1
    BY <1>3, <1>5
  <2> QED
    BY <1>6, <2>1, <2>2 DEF Lo, Hi
<1>12. LogOK(l, 1, cur)
  <2>1. MaxIndex \in Nat /\ 2 <= MaxIndex + 1
    BY BoundsAssumption
  <2>2. ASSUME NEW k \in 1..Num(l), NEW i \in 1..MaxIndex, In(l, k, i)
        PROVE  At(l, k, i).term = cur[i].term /\ Harmless(l, 1, At(l, k, i))
    <3>1. k = 1 /\ i = 1
      <4>1. i \in Nat
        BY <2>1
      <4>2. Lo(l) <= i /\ i < Hi(l)
        BY <1>10, <2>2, <4>1, InFacts
      <4>3. i = 1
        BY <1>11, <4>1, <4>2
      <4>4. k = 1
        BY <1>6
      <4> QED
        BY <4>3, <4>4
    <3>2. At(l, k, i) = e
      BY <1>3, <1>7, <1>8, <1>10, <3>1 DEF At
    <3>3. Harmless(l, 1, e)
      BY <1>1 DEF Harmless, ClearsBefore, PeerSafe, NoData
    <3> QED
      BY <1>3, <3>1, <3>2, <3>3
  <2> QED
    BY <1>3, <1>10, <1>11, <2>1, <2>2 DEF LogOK
<1>13. log = l /\ chosen = cur
  BY <1>0, <1>2, <1>4, <1>5 DEF Init
<1>14. Typed
  BY DEF Init, Typed, NotSnapping
<1>15. LogInv
  BY <1>11, <1>12, <1>13 DEF Init, LogInv
<1>16. DownInv
  BY DEF Init, DownInv
<1>17. ServeInv /\ ApplyInv
  BY DEF Init, ServeInv, ApplyInv, Idle, NotApplying, Rising
<1>18. GivenInv /\ SnapInv /\ ReplayInv
  BY DEF Init, GivenInv, SnapInv, NotSnapping, ReplayInv, NotReplaying
<1>19. ProposalInv
  BY DEF Init, ProposalInv, PeerSafe, NoData, Data
<1>20. ReplayReads
  BY DEF Init, ReplayReads
<1> QED
  BY <1>14, <1>15, <1>16, <1>17, <1>18, <1>19, <1>20 DEF IInv

LEMMA StutterKeeps ==
  ASSUME IInv, UNCHANGED vars
  PROVE  IInv'
<1> USE DEF vars, storage, serving, snapping
<1>1. Typed' /\ LogInv'
  BY DEF IInv, Typed, LogInv
<1>2. DownInv' /\ ServeInv'
  BY DEF IInv, DownInv, ServeInv
<1>3. ApplyInv' /\ GivenInv'
  BY DEF IInv, ApplyInv, GivenInv
<1>4. SnapInv' /\ ProposalInv' /\ ReplayReads' /\ ReplayInv'
  BY DEF IInv, SnapInv, ProposalInv, ReplayReads, ReplayInv
<1> QED
  BY <1>1, <1>2, <1>3, <1>4 DEF IInv

\* A ClearEntryLog of math.MaxUint64 stays applied.
LEMMA OverclearedStays ==
  ASSUME Overcleared, [Next]_vars
  PROVE  Overcleared'
<1>1. cleared' = cleared
  <2>1. CASE Start \/ StartRefused \/ StartPanics \/ Crash \/ AddDBPTInfo \/ ReadReplay
    BY <2>1 DEF Start, StartRefused, StartPanics, Crash, AddDBPTInfo, ReadReplay
  <2>2. ASSUME NEW ents, NEW c, Ready(ents, c) PROVE cleared' = cleared
    BY <2>2 DEF Ready
  <2>3. ASSUME NEW ents, CrashInSave(ents) PROVE cleared' = cleared
    BY <2>3 DEF CrashInSave
  <2>4. CASE ServeStep \/ SnapStep
    BY <2>4 DEF ServeStep, PublishEntries, WaitWriteOK, SnapStep, SnapShot, CreateSnapshot, StoreSnapshot
  <2>5. CASE ApplyStep
    BY <2>5 DEF ApplyStep, DealCommitData, ApplyDone, TryToUpdateCommittedIndex
  <2>6. CASE \E s \in Shards : FlushStep(s)
    BY <2>6 DEF FlushStep, WriteSnapshot, RaftFlush
  <2>7. CASE \E m \in 0..commit \cup {MaxUint64} : PrepareDeleteEntryLog(m)
    BY <2>7 DEF PrepareDeleteEntryLog
  <2>8. CASE UNCHANGED vars
    BY <2>8 DEF vars
  <2> QED
    BY <2>1, <2>2, <2>3, <2>4, <2>5, <2>6, <2>7, <2>8 DEF Next
<1> QED
  BY <1>1 DEF Overcleared

LEMMA CommitIn ==
  ASSUME IInv
  PROVE  commit \in commit..MaxIndex
<1>1. commit \in Nat /\ LogOK(log, commit, chosen)
  BY DEF IInv, Typed, LogInv
<1>2. commit \in 1..MaxIndex /\ MaxIndex \in Nat
  BY <1>1, LogNums
<1> QED
  BY <1>2

LEMMA NextKeeps ==
  ASSUME OneExtraFile, IInv, ~Overcleared, [Next]_vars, ~Overcleared'
  PROVE  IInv'
<1>1. CASE Start
  BY <1>1, StartKeeps
<1>2. CASE StartRefused
  BY <1>2, StartRefusedKeeps
<1>3. CASE StartPanics
  BY <1>3, StartPanicsKeeps
<1>4. CASE Crash
  BY <1>4, CrashKeeps
<1>5. ASSUME phase = "up", sv.at = "idle", NEW ents \in Appended \cup {<<>>},
             NEW c \in commit..MaxIndex, Ready(ents, c)
      PROVE  IInv'
  BY <1>5, ReadyKeeps
<1>6. ASSUME NEW ents \in Appended \cup {<<>>}, CrashInSave(ents)
      PROVE  IInv'
  BY <1>6, CrashInSaveKeeps
<1>7. CASE ServeStep
  BY <1>7, PublishKeeps, WaitWriteOKKeeps DEF ServeStep
<1>8. CASE ApplyStep
  BY <1>8, DealKeeps, ApplyDoneKeeps, TryToUpdateKeeps DEF ApplyStep
<1>9. CASE SnapStep
  BY <1>9, SnapKeeps
<1>10. CASE \E s \in Shards : FlushStep(s)
  BY <1>10, FlushKeeps
<1>11. CASE \E m \in 0..commit \cup {MaxUint64} : PrepareDeleteEntryLog(m)
  BY <1>11, PrepareKeeps
<1>12. CASE UNCHANGED vars
  BY <1>12, StutterKeeps
<1>13. CASE AddDBPTInfo \/ ReadReplay
  BY <1>13, AssignKeeps
<1>14. ASSUME phase = "up", sv.at = "idle", Ready(<<>>, commit)
       PROVE  IInv'
  BY <1>5, <1>14, CommitIn
<1> QED
  BY <1>1, <1>2, <1>3, <1>4, <1>5, <1>6, <1>7, <1>8, <1>9, <1>10, <1>11, <1>12, <1>13, <1>14 DEF Next

-----------------------------------------------------------------------------
(* What the invariant gives.                                               *)

LEMMA TypeFromInv ==
  ASSUME IInv
  PROVE  TypeOK
<1>0. /\ commit \in Nat /\ rapplied \in Nat /\ appliedIndex \in Nat /\ cindex \in Nat
      /\ meta \in [index : Nat, snap : Nat] /\ sg \in [at : {"idle", "read", "create", "store"}, index : Nat]
      /\ LogOK(log, commit, chosen)
  BY DEF IInv, Typed, LogInv
<1>1. /\ rapplied <= commit /\ appliedIndex <= commit /\ cindex <= appliedIndex
      /\ meta.index <= commit /\ meta.snap <= commit /\ sg.index <= cindex
  BY DEF IInv, ServeInv, GivenInv, SnapInv
<1>2. Wf(log) /\ MaxIndex \in Nat /\ commit \in 1..MaxIndex
  BY <1>0, LogNums
<1>3. /\ rapplied \in 0..MaxIndex /\ appliedIndex \in 0..MaxIndex /\ cindex \in 0..MaxIndex
  BY <1>0, <1>1, <1>2
<1>4. meta \in [index : 0..MaxIndex, snap : 0..MaxIndex]
  <2>1. meta.index \in 0..MaxIndex /\ meta.snap \in 0..MaxIndex
    BY <1>0, <1>1, <1>2
  <2> QED
    BY <1>0, <2>1
<1>5. sg \in [at : {"idle", "read", "create", "store"}, index : 0..MaxIndex]
  <2>1. sg.index \in 0..MaxIndex
    BY <1>0, <1>1, <1>2
  <2> QED
    BY <1>0, <2>1
<1>6. \A i \in DOMAIN log.files : log.files[i] # <<>> /\ Len(log.files[i]) <= MaxNumEntries
  <2>1. /\ log.files \in Seq(Seq(Entry))
        /\ \A k \in 1..Len(log.files) : /\ k \in 1..Num(log) /\ k # Num(log)
                                        /\ File(log, k) = log.files[k]
    BY <1>2, WfTypes
  <2>2. /\ \A k \in 1..Num(log) : Len(File(log, k)) <= MaxNumEntries
        /\ \A k \in 1..Num(log) : k # Num(log) => Len(File(log, k)) > 0
    BY <1>2, WfFacts
  <2>3. DOMAIN log.files = 1..Len(log.files)
    BY <2>1
  <2>4. ASSUME NEW i \in 1..Len(log.files)
        PROVE  log.files[i] # <<>> /\ Len(log.files[i]) <= MaxNumEntries
    <3>1. Len(log.files[i]) > 0 /\ Len(log.files[i]) <= MaxNumEntries
      BY <2>1, <2>2
    <3> QED
      BY <3>1
  <2> QED
    BY <2>3, <2>4
<1>7. log.next = Len(log.current) /\ log.next <= MaxNumEntries
  <2>1. log.next = Len(log.current) /\ \A k \in 1..Num(log) : Len(File(log, k)) <= MaxNumEntries
    BY <1>2, WfFacts
  <2>2. Num(log) \in 1..Num(log) /\ File(log, Num(log)) = log.current
    BY <1>2, WfTypes
  <2> QED
    BY <2>1, <2>2
<1>8. /\ phase \in {"down", "up", "refused", "panicked"} /\ flag \in {0, 1}
      /\ fl \in [Shards -> {"unset", "idle", "locked"}]
      /\ sv.at \in {"idle", "publish", "wait"} /\ ap.at \in {"idle", "apply", "update"}
      /\ replay.listed \in BOOLEAN
  BY DEF IInv, Typed, ServeInv, ApplyInv, ReplayInv
<1> QED
  BY <1>2, <1>3, <1>4, <1>5, <1>6, <1>7, <1>8 DEF TypeOK

\* Entries from the first index to the commit index are found.
LEMMA FoundIs ==
  ASSUME IInv, NEW i \in Nat, FirstIndex(log) <= i, i <= commit
  PROVE  Stored(i) /\ TermOf(i) = chosen[i].term
<1>0. commit \in Nat /\ LogOK(log, commit, chosen)
  BY DEF IInv, Typed, LogInv
<1>1. Wf(log) /\ commit < Hi(log) /\ Hi(log) \in Nat /\ FirstIndex(log) = Lo(log)
  BY <1>0, LogNums
<1>2. Lo(log) <= i /\ i < Hi(log)
  BY <1>0, <1>1
<1>3. PICK k \in 1..Num(log) : In(log, k, i)
  BY <1>1, <1>2, Located
<1>4. SeekEntry(log, i) = [err |-> "nil", term |-> At(log, k, i).term]
  BY <1>1, <1>3, SeekIn
<1>5. At(log, k, i).term = chosen[i].term
  BY <1>0, <1>3, LogSlot
<1> QED
  BY <1>4, <1>5 DEF Stored, TermOf

LEMMA KeptFromInv ==
  ASSUME IInv
  PROVE  CommittedKept
<1>0. commit \in Nat /\ LogOK(log, commit, chosen)
  BY DEF IInv, Typed, LogInv
<1>1. /\ Lo(log) <= commit /\ commit < Hi(log) /\ Hi(log) \in Nat /\ Lo(log) \in Nat
      /\ FirstIndex(log) = Lo(log) /\ LastIndex(log) = Hi(log) - 1
  BY <1>0, LogNums
<1>2. LastIndex(log) >= commit /\ FirstIndex(log) <= commit
  BY <1>0, <1>1
<1>3. ASSUME NEW i \in FirstIndex(log)..commit
      PROVE  Stored(i) /\ TermOf(i) = chosen[i].term
  <2>1. i \in Nat /\ FirstIndex(log) <= i /\ i <= commit
    BY <1>0, <1>1
  <2> QED
    BY <2>1, FoundIs
<1> QED
  BY <1>2, <1>3 DEF CommittedKept

LEMMA GivenFromInv ==
  ASSUME IInv
  PROVE  GivenOnce
<1>0. /\ given \in Seq(Nat) /\ \A k \in 1..Len(given) : given[k] = given[1] + k - 1
      /\ phase = "up" => /\ given # <<>>
                         /\ given[1] <= 1 \/ given[1] <= meta.snap
                         /\ Last(given) = appliedIndex
      /\ appliedIndex <= commit
  BY DEF IInv, GivenInv
<1>1. ASSUME NEW k \in 1..(Len(given) - 1)
      PROVE  given[k + 1] = given[k] + 1
  <2>1. Len(given) \in Nat
    BY <1>0
  <2>2. k \in 1..Len(given) /\ k + 1 \in 1..Len(given) /\ 1 \in 1..Len(given)
    BY <2>1
  <2>3. given[1] \in Nat
    BY <1>0, <2>2
  <2>4. given[k] = given[1] + k - 1 /\ given[k + 1] = given[1] + (k + 1) - 1
    BY <1>0, <2>2
  <2> QED
    BY <2>2, <2>3, <2>4
<1>2. ASSUME given # <<>>
      PROVE  given[1] <= Max({meta.snap, 1}) /\ Last(given) = appliedIndex
  <2>1. phase = "up"
    BY <1>2 DEF IInv, DownInv
  <2>2. PICK a \in Int, b \in Int : a = meta.snap /\ b = 1
    BY DEF IInv, Typed
  <2>3. Max({a, b}) \in {a, b} /\ Max({a, b}) >= a /\ Max({a, b}) >= b
    BY MaxOfTwo
  <2>4. given[1] \in Nat
    BY <1>0, <1>2
  <2>5. given[1] <= 1 \/ given[1] <= meta.snap
    BY <1>0, <2>1
  <2>6. given[1] <= Max({a, b})
    BY <2>2, <2>3, <2>4, <2>5
  <2> QED
    BY <1>0, <2>1, <2>2, <2>6
<1>3. \A k \in DOMAIN replay.todo :
        /\ replay.todo[k].index <= appliedIndex
        /\ \A j \in DOMAIN ap.todo : replay.todo[k].index < ap.todo[j].index
  <2>1. replay.todo \in Seq(Entry) /\ ap.todo \in Seq(Entry)
    BY DEF IInv, ReplayInv, ApplyInv
  <2>2. DOMAIN replay.todo = 1..Len(replay.todo) /\ DOMAIN ap.todo = 1..Len(ap.todo)
    BY <2>1
  <2> QED
    BY <2>2 DEF IInv, ReplayInv
<1> QED
  BY <1>0, <1>1, <1>2, <1>3 DEF GivenOnce

LEMMA SnapFromInv ==
  ASSUME IInv
  PROVE  SnapshotTaken
<1>0. /\ cindex <= appliedIndex /\ meta.snap <= commit /\ sg.index <= cindex /\ appliedIndex <= commit
      /\ commit \in Nat /\ cindex \in Nat /\ appliedIndex \in Nat /\ sg.index \in Nat
      /\ LogOK(log, commit, chosen)
  BY DEF IInv, Typed, SnapInv, GivenInv, LogInv
<1>1. FirstIndex(log) \in Nat
  BY <1>0, LogNums
<1>2. ASSUME ~OutOfDate
      PROVE  Stored(sg.index)
  <2>1. FirstIndex(log) <= sg.index /\ sg.index <= commit
    BY <1>0, <1>1, <1>2 DEF OutOfDate
  <2> QED
    BY <1>0, <2>1, FoundIs
<1> QED
  BY <1>0, <1>2 DEF SnapshotTaken

\* A ClearEntryLog that is applied.
LEMMA DealtIs ==
  ASSUME IInv, ~Overcleared, DealCommitData, log' # log, ~Overcleared'
  PROVE  /\ Wf(log') /\ Lo(log) <= Lo(log') /\ Lo(log') <= commit /\ Hi(log') = Hi(log)
         /\ \A d \in Nat : Keeps(log, log', d)
<1>0. /\ commit \in Nat /\ rapplied \in Nat /\ rapplied <= commit /\ LogOK(log, commit, chosen)
  BY DEF IInv, Typed, ServeInv, LogInv
<1>1. /\ Wf(log) /\ Lo(log) \in Nat /\ Hi(log) \in Nat /\ Lo(log) <= commit /\ commit < Hi(log)
  BY <1>0, LogNums
<1>2. PICK e : e = Head(ap.todo)
  OBVIOUS
<1>3. e \in Entry /\ e.index <= rapplied /\ Harmless(log, commit, e)
  <2>1. ap.todo \in Seq(Entry) /\ ap.todo # <<>>
    BY DEF IInv, ApplyInv, DealCommitData
  <2>2. 1 \in 1..Len(ap.todo) /\ e = ap.todo[1]
    BY <1>2, <2>1
  <2> QED
    BY <2>1, <2>2 DEF IInv, ApplyInv
<1>4. PICK i : i = e.data.index
  OBVIOUS
<1>5. i \in Nat /\ e.index \in Nat
  BY <1>3, <1>4 DEF Entry, Data
<1>6. e.data.kind = "clear" /\ log' = DeleteBefore(log, i)
  BY <1>2, <1>4 DEF DealCommitData
<1>7. i < e.index
  <2>1. i # MaxUint64
    BY <1>2, <1>4, <1>5, <1>6, ClearedToo DEF IInv, Typed
  <2> QED
    BY <1>3, <1>4, <1>6, <2>1 DEF Harmless, ClearsBefore
<1>8. i <= commit /\ i < Hi(log)
  BY <1>0, <1>1, <1>3, <1>5, <1>7
<1>9. PICK m : m = DeleteBefore(log, i)
  OBVIOUS
<1>10. /\ Wf(m) /\ Hi(m) = Hi(log) /\ Lo(log) <= Lo(m) /\ (Lo(m) <= i \/ Lo(m) = Lo(log))
       /\ \A c \in Nat : Keeps(log, m, c)
  BY <1>1, <1>5, <1>8, <1>9, DeleteIs
<1>11. Lo(m) \in Nat
  BY <1>10, LoHi
<1>12. Lo(m) <= commit
  BY <1>0, <1>1, <1>5, <1>8, <1>10, <1>11
<1> QED
  BY <1>6, <1>9, <1>10, <1>12

\* Only dealCommitData changes the entry log while entries are to be applied.
LEMMA OnlyDeal ==
  ASSUME IInv, [Next]_vars, ap.todo # <<>>, log' # log, ap'.at = "apply"
  PROVE  DealCommitData
<1>1. ap.at = "apply" /\ sv.at = "wait" /\ phase = "up"
  BY Running DEF IInv, ApplyInv
<1>2. ~Start /\ ~StartRefused /\ ~StartPanics /\ ~AddDBPTInfo /\ ~ReadReplay
  BY <1>1 DEF Start, StartRefused, StartPanics, AddDBPTInfo, ReadReplay, storage
<1>3. ~Crash
  BY DEF Crash, Volatile, NotApplying
<1>4. ~ServeStep
  BY DEF ServeStep, PublishEntries, WaitWriteOK, storage
<1>5. ApplyStep => DealCommitData
  BY DEF ApplyStep, ApplyDone, TryToUpdateCommittedIndex, storage
<1>6. ~SnapStep
  BY DEF SnapStep, SnapShot, CreateSnapshot, StoreSnapshot, storage
<1>7. ~(\E s \in Shards : FlushStep(s))
  BY DEF FlushStep, WriteSnapshot, RaftFlush, storage
<1>8. ~(\E m \in 0..commit \cup {MaxUint64} : PrepareDeleteEntryLog(m))
  BY DEF PrepareDeleteEntryLog, storage
<1>9. ~(UNCHANGED vars)
  BY DEF vars, storage
<1> QED
  BY <1>1, <1>2, <1>3, <1>4, <1>5, <1>6, <1>7, <1>8, <1>9 DEF Next

LEMMA PeersStep ==
  ASSUME IInv, [Next]_vars, NEW m \in 0..MaxIndex,
         ap.todo # <<>>, Head(ap.todo).data.kind = "clear", Head(ap.todo).data.match = m, m > 0,
         log' # log, ap'.at = "apply"
  PROVE  FirstIndex(log') <= m
<1>0. DealCommitData
  BY OnlyDeal
<1>1. PICK e : e = Head(ap.todo)
  OBVIOUS
<1>2. /\ e \in Entry /\ Harmless(log, commit, e)
  <2>1. ap.todo \in Seq(Entry) /\ \A j \in 1..Len(ap.todo) : Harmless(log, commit, ap.todo[j])
    BY DEF IInv, ApplyInv
  <2>2. 1 \in 1..Len(ap.todo) /\ e = ap.todo[1]
    BY <1>1, <2>1
  <2> QED
    BY <2>1, <2>2
<1>3. PICK i : i = e.data.index
  OBVIOUS
<1>4. i \in Nat /\ m \in Nat
  BY <1>2, <1>3, BoundsAssumption DEF Entry, Data
<1>5. /\ i <= commit
      /\ i = m \/ \A k \in 1..Num(log) : In(log, k, i) => k = 1 \/ Starts(log)[k] <= m
  BY <1>1, <1>2, <1>3 DEF Harmless, PeerSafe
<1>6. log' = DeleteBefore(log, i)
  BY <1>0, <1>1, <1>3 DEF DealCommitData
<1>7. commit \in Nat /\ LogOK(log, commit, chosen)
  BY DEF IInv, Typed, LogInv
<1>8. Wf(log) /\ commit < Hi(log) /\ Hi(log) \in Nat /\ Lo(log) \in Nat
  BY <1>7, LogNums
<1>9. i < Hi(log)
  BY <1>4, <1>5, <1>7, <1>8
<1>10. PICK l : l = DeleteBefore(log, i)
  OBVIOUS
<1>11. /\ Wf(l)
       /\ \A k \in 1..Num(log) : In(log, k, i) => Lo(l) = Starts(log)[k]
       /\ i < Lo(log) \/ In(log, 1, i) => l = log
  BY <1>4, <1>8, <1>9, <1>10, DeleteIs
<1>12. Lo(log) <= i
  BY <1>4, <1>6, <1>8, <1>10, <1>11
<1>13. PICK k \in 1..Num(log) : In(log, k, i)
  BY <1>4, <1>8, <1>9, <1>12, Located
<1>14. k # 1
  BY <1>6, <1>10, <1>11, <1>13
<1>15. Lo(l) = Starts(log)[k] /\ Starts(log)[k] <= i
  BY <1>11, <1>13 DEF In
<1>16. Lo(l) <= m
  BY <1>5, <1>13, <1>14, <1>15
<1>17. FirstIndex(l) = Lo(l)
  BY <1>11, FirstIndexIs
<1> QED
  BY <1>6, <1>10, <1>16, <1>17

-----------------------------------------------------------------------------
(* The theorems.                                                           *)

\* The inductive invariant of a replica, until a ClearEntryLog that names no entry
\* is applied: a log without gaps that reaches the commit index, and where the raft
\* library, the appliers, the snapshot and the clearing are against it.
THEOREM Invariant ==
  ASSUME OneExtraFile
  PROVE  Spec => [](Overcleared \/ IInv)
<1>1. Init => IInv
  BY InitKeeps
<1>2. (Overcleared \/ IInv) /\ [Next]_vars => (Overcleared \/ IInv)'
  BY NextKeeps, OverclearedStays
<1> QED
  BY <1>1, <1>2, PTL DEF Spec

\* The types of a replica's state: no file of more than maxNumEntries slots, no
\* full file without an entry, no index beyond the last one.
THEOREM TypeCorrect ==
  ASSUME OneExtraFile
  PROVE  Spec => [](Overcleared \/ TypeOK)
<1>1. IInv => TypeOK
  BY TypeFromInv
<1> QED
  BY <1>1, Invariant, PTL

\* AddEntries, deleteBefore and openEntryLogs: a committed entry is found under
\* its term until it is cleared, through conflicts, rotations and crashes in the
\* middle of a save.
THEOREM CommittedIsKept ==
  ASSUME OneExtraFile
  PROVE  Spec => [](Overcleared \/ CommittedKept)
<1>1. IInv => CommittedKept
  BY KeptFromInv
<1> QED
  BY <1>1, Invariant, PTL

\* entriesToApply and the replay: every committed entry from the snapshot on is
\* taken from the log once and in order after a start, for ReplayC up to the commit
\* index of the start and for commitC behind it, and no row waits in both.
THEOREM GivenOnceOnly ==
  ASSUME OneExtraFile
  PROVE  Spec => [](Overcleared \/ GivenOnce)
<1>1. IInv => GivenOnce
  BY GivenFromInv
<1> QED
  BY <1>1, Invariant, PTL

\* CreateSnapshot never has an error to try again: its index is in the log or
\* out of date.
THEOREM SnapshotIsTaken ==
  ASSUME OneExtraFile
  PROVE  Spec => [](Overcleared \/ SnapshotTaken)
<1>1. IInv => SnapshotTaken
  BY SnapFromInv
<1> QED
  BY <1>1, Invariant, PTL

\* InitAndStartNode reads what it has to replay unless it was cleared, or a crash
\* came between the two halves of a snapshot.
THEOREM ReplayIsRead ==
  ASSUME OneExtraFile
  PROVE  Spec => [](Overcleared \/ ReplayReads)
<1>1. IInv => ReplayReads
  BY DEF IInv
<1> QED
  BY <1>1, Invariant, PTL

\* deleteEntryLog: a ClearEntryLog this node made from the Progress it read leaves
\* what its slowest peer needs, however the files change before it is applied.
THEOREM PeersAreKept ==
  ASSUME OneExtraFile
  PROVE  Spec => PeersKept
<1>1. IInv /\ [Next]_vars =>
        [\A m \in 0..MaxIndex :
           (/\ ap.todo # <<>> /\ Head(ap.todo).data.kind = "clear" /\ Head(ap.todo).data.match = m
            /\ m > 0 /\ log' # log /\ ap'.at = "apply")
           => Overcleared \/ FirstIndex(log') <= m]_vars
  BY PeersStep
<1>2. Overcleared /\ [Next]_vars =>
        [\A m \in 0..MaxIndex :
           (/\ ap.todo # <<>> /\ Head(ap.todo).data.kind = "clear" /\ Head(ap.todo).data.match = m
            /\ m > 0 /\ log' # log /\ ap'.at = "apply")
           => Overcleared \/ FirstIndex(log') <= m]_vars
  OBVIOUS
<1> QED
  BY <1>1, <1>2, Invariant, PTL DEF Spec, PeersKept

-----------------------------------------------------------------------------
(* The files implement the storage of the raft library.                    *)

LEMMA SameCardinality == \A S : Storage!Cardinality(S) = Cardinality(S)
  BY DEF Cardinality, Storage!Cardinality

\* The pairs of index and term in a log, and how they are read.
SlottedOf(l) ==
  UNION {{<<f[k].index, f[k].term>> : k \in DOMAIN f} : f \in ToSet(l.files) \cup {l.current}}
TermIn(l, i) == SeekEntry(l, i).term

LEMMA SlottedIs ==
  ASSUME NEW l, Wf(l)
  PROVE  SlottedOf(l) = {<<i, TermIn(l, i)>> : i \in Lo(l)..(Hi(l) - 1)}
<1>0. /\ Lo(l) \in Nat /\ Hi(l) \in Nat
  BY LoHi
<1>1. /\ l.files \in Seq(Seq(Entry)) /\ Num(l) = Len(l.files) + 1 /\ Len(l.files) \in Nat
      /\ File(l, Num(l)) = l.current /\ Num(l) \in 1..Num(l)
      /\ \A k \in 1..Len(l.files) : k \in 1..Num(l) /\ File(l, k) = l.files[k]
  BY WfTypes
<1>2. ASSUME NEW p \in SlottedOf(l)
      PROVE  \E i \in Lo(l)..(Hi(l) - 1) : p = <<i, TermIn(l, i)>>
  <2>0. PICK f \in ToSet(l.files) \cup {l.current} : \E x \in DOMAIN f : p = <<f[x].index, f[x].term>>
    BY DEF SlottedOf
  <2>1. PICK x \in DOMAIN f : p = <<f[x].index, f[x].term>>
    BY <2>0
  <2>2. PICK j \in 1..Num(l) : f = File(l, j)
    <3>1. CASE f = l.current
      BY <1>1, <3>1
    <3>2. CASE f \in ToSet(l.files)
      <4>1. PICK j \in DOMAIN l.files : f = l.files[j]
        BY <3>2 DEF ToSet
      <4>2. j \in 1..Len(l.files)
        BY <1>1
      <4> QED
        BY <1>1, <4>1, <4>2
    <3> QED
      BY <3>1, <3>2
  <2>3. /\ f \in Seq(Entry) /\ Len(f) \in Nat /\ Starts(l)[j] \in Nat
    BY <2>2, WfTypes
  <2>4. x \in 1..Len(f) /\ x \in Nat
    BY <2>3
  <2>5. PICK i \in Nat : i = Starts(l)[j] + x - 1
    <3>1. Starts(l)[j] + x - 1 \in Nat
      BY <2>3, <2>4
    <3> QED
      BY <3>1
  <2>6. f[x].index = i
    BY <2>2, <2>4, <2>5, WfFacts
  <2>7. In(l, j, i)
    <3>1. Starts(l)[j] <= i /\ i < Starts(l)[j] + Len(f)
      BY <2>3, <2>4, <2>5
    <3> QED
      BY <2>2, <3>1 DEF In
  <2>8. At(l, j, i) = f[x]
    <3>1. i - Starts(l)[j] + 1 = x
      BY <2>3, <2>4, <2>5
    <3> QED
      BY <2>2, <3>1 DEF At
  <2>9. TermIn(l, i) = f[x].term
    <3>1. SeekEntry(l, i) = [err |-> "nil", term |-> At(l, j, i).term]
      BY <2>7, SeekIn
    <3> QED
      BY <2>8, <3>1 DEF TermIn
  <2>10. Lo(l) <= i /\ i < Hi(l)
    BY <2>7, InFacts
  <2>11. i \in Lo(l)..(Hi(l) - 1)
    BY <1>0, <2>10
  <2> QED
    BY <2>1, <2>6, <2>9, <2>11
<1>3. ASSUME NEW i \in Lo(l)..(Hi(l) - 1)
      PROVE  <<i, TermIn(l, i)>> \in SlottedOf(l)
  <2>1. i \in Nat /\ Lo(l) <= i /\ i < Hi(l)
    BY <1>0
  <2>2. PICK k \in 1..Num(l) : In(l, k, i)
    BY <2>1, Located
  <2>3. PICK f, x : f = File(l, k) /\ x = i - Starts(l)[k] + 1
    OBVIOUS
  <2>4. x \in 1..Len(f) /\ f[x] = At(l, k, i) /\ f[x].index = i /\ f \in Seq(Entry)
    <3>1. /\ i - Starts(l)[k] + 1 \in 1..Len(File(l, k)) /\ At(l, k, i).index = i
      BY <2>1, <2>2, InFacts
    <3>2. File(l, k) \in Seq(Entry)
      BY WfTypes
    <3> QED
      BY <2>3, <3>1, <3>2 DEF At
  <2>5. TermIn(l, i) = f[x].term
    <3>1. SeekEntry(l, i) = [err |-> "nil", term |-> At(l, k, i).term]
      BY <2>1, <2>2, SeekIn
    <3> QED
      BY <2>4, <3>1 DEF TermIn
  <2>6. f \in ToSet(l.files) \cup {l.current}
    <3>1. CASE k = Num(l)
      BY <1>1, <2>3, <3>1
    <3>2. CASE k # Num(l)
      <4>1. k \in 1..Len(l.files)
        BY <1>1, <3>2
      <4>2. k \in DOMAIN l.files /\ f = l.files[k]
        BY <1>1, <2>3, <4>1
      <4> QED
        BY <4>2 DEF ToSet
    <3> QED
      BY <3>1, <3>2
  <2>7. x \in DOMAIN f
    BY <2>4
  <2> QED
    BY <2>4, <2>5, <2>6, <2>7 DEF SlottedOf
<1> QED
  BY <1>2, <1>3

\* One entry of every index.
LEMMA SoundIs ==
  ASSUME NEW l, Wf(l), NEW c \in Nat, Lo(l) <= c, c < Hi(l)
  PROVE  Storage!Sound(SlottedOf(l), c)
<1>0. Lo(l) \in Nat /\ Hi(l) \in Nat /\ Lo(l) < Hi(l)
  BY LoHi
<1>1. PICK a \in Int, b \in Int : a = Lo(l) /\ b = Hi(l) - 1 /\ a <= b
  BY <1>0
<1>2. PICK S : S = SlottedOf(l)
  OBVIOUS
<1>3. S = {<<i, TermIn(l, i)>> : i \in a..b}
  BY <1>1, <1>2, SlottedIs
<1>4. Storage!Indexes(S) = a..b
  <2>1. Storage!Indexes(S) = {e[1] : e \in S}
    BY DEF Storage!Indexes
  <2>2. ASSUME NEW e \in S
        PROVE  e[1] \in a..b
    BY <1>3
  <2>3. ASSUME NEW i \in a..b
        PROVE  \E e \in S : e[1] = i
    <3>1. PICK e : e = <<i, TermIn(l, i)>>
      OBVIOUS
    <3>2. e \in S /\ e[1] = i
      BY <1>3, <3>1
    <3> QED
      BY <3>2
  <2> QED
    BY <2>1, <2>2, <2>3
<1>5. PICK f : f = [i \in a..b |-> <<i, TermIn(l, i)>>]
  OBVIOUS
<1>6. f \in Bijection(a..b, S)
  <2>1. f \in [a..b -> S]
    BY <1>3, <1>5
  <2>2. \A i, j \in a..b : f[i] = f[j] => i = j
    BY <1>5
  <2>3. \A t \in S : \E i \in a..b : f[i] = t
    BY <1>3, <1>5
  <2>4. IsInjective(f)
    BY <2>1, <2>2 DEF IsInjective
  <2> QED
    BY <2>1, <2>3, <2>4 DEF Bijection, Injection, Surjection
<1>7. Cardinality(S) = b - a + 1
  <2>1. IsFiniteSet(a..b) /\ Cardinality(a..b) = b - a + 1
    BY <1>1, FS_Interval
  <2>2. ExistsBijection(a..b, S)
    BY <1>6 DEF ExistsBijection
  <2> QED
    BY <2>1, <2>2, FS_Bijection
<1>8. a \in Storage!Indexes(S) /\ b \in Storage!Indexes(S) /\ c \in a..b
  BY <1>0, <1>1, <1>4
<1>9. Storage!Cardinality(S) = b - a + 1
  BY <1>7, SameCardinality
<1> QED
  BY <1>2, <1>4, <1>8, <1>9 DEF Storage!Sound

\* Two logs that hold the entries chosen up to c hold the same up to c.
LEMMA UpToIs ==
  ASSUME NEW l, NEW c \in Nat, NEW ch, LogOK(l, c, ch)
  PROVE  Storage!UpTo(SlottedOf(l), c) = {<<i, ch[i].term>> : i \in Lo(l)..c}
<1>0. Wf(l) /\ Lo(l) \in Nat /\ Hi(l) \in Nat /\ Lo(l) <= c /\ c < Hi(l)
  BY LogNums
<1>1. \A i \in Lo(l)..c : TermIn(l, i) = ch[i].term
  <2> TAKE i \in Lo(l)..c
  <2>1. i \in Nat /\ Lo(l) <= i /\ i < Hi(l) /\ i <= c
    BY <1>0
  <2>2. PICK k \in 1..Num(l) : In(l, k, i)
    BY <1>0, <2>1, Located
  <2>3. At(l, k, i).term = ch[i].term
    BY <2>1, <2>2, LogSlot
  <2>4. SeekEntry(l, i) = [err |-> "nil", term |-> At(l, k, i).term]
    BY <1>0, <2>1, <2>2, SeekIn
  <2> QED
    BY <2>3, <2>4 DEF TermIn
<1>2. PICK S : S = SlottedOf(l)
  OBVIOUS
<1>3. S = {<<i, TermIn(l, i)>> : i \in Lo(l)..(Hi(l) - 1)}
  BY <1>0, <1>2, SlottedIs
<1>4. \A i : i \in Lo(l)..c <=> i \in Lo(l)..(Hi(l) - 1) /\ i <= c
  BY <1>0
<1>5. Storage!UpTo(S, c) = {<<i, TermIn(l, i)>> : i \in Lo(l)..c}
  BY <1>3, <1>4 DEF Storage!UpTo
<1> QED
  BY <1>1, <1>2, <1>5

\* Files are dropped at the front: what is left is what was there from its first
\* index on.
LEMMA FromIs ==
  ASSUME NEW l, Wf(l), NEW m, Wf(m), Lo(l) <= Lo(m), Hi(m) = Hi(l), \A d \in Nat : Keeps(l, m, d)
  PROVE  SlottedOf(m) = Storage!From(SlottedOf(l), Lo(m))
<1>0. Lo(l) \in Nat /\ Lo(m) \in Nat /\ Hi(l) \in Nat
  BY LoHi
<1>1. \A i \in Lo(m)..(Hi(l) - 1) : TermIn(m, i) = TermIn(l, i)
  <2> TAKE i \in Lo(m)..(Hi(l) - 1)
  <2>1. i \in Nat /\ Lo(m) <= i /\ i < Hi(m) /\ i <= i
    BY <1>0
  <2>2. PICK k \in 1..Num(m) : In(m, k, i)
    BY <2>1, Located
  <2>3. Keeps(l, m, i)
    BY <2>1
  <2>4. PICK j \in 1..Num(l) : In(l, j, i) /\ SameSlot(At(m, k, i), At(l, j, i))
    BY <2>1, <2>2, <2>3 DEF Keeps
  <2>5. /\ SeekEntry(m, i) = [err |-> "nil", term |-> At(m, k, i).term]
        /\ SeekEntry(l, i) = [err |-> "nil", term |-> At(l, j, i).term]
    BY <2>1, <2>2, <2>4, SeekIn
  <2> QED
    BY <2>4, <2>5 DEF TermIn, SameSlot
<1>2. PICK S : S = SlottedOf(l)
  OBVIOUS
<1>3. S = {<<i, TermIn(l, i)>> : i \in Lo(l)..(Hi(l) - 1)}
  BY <1>2, SlottedIs
<1>4. \A i : i \in Lo(m)..(Hi(l) - 1) <=> i \in Lo(l)..(Hi(l) - 1) /\ i >= Lo(m)
  BY <1>0
<1>5. Storage!From(S, Lo(m)) = {<<i, TermIn(l, i)>> : i \in Lo(m)..(Hi(l) - 1)}
  BY <1>3, <1>4 DEF Storage!From
<1>6. SlottedOf(m) = {<<i, TermIn(m, i)>> : i \in Lo(m)..(Hi(l) - 1)}
  BY SlottedIs
<1> QED
  BY <1>1, <1>2, <1>5, <1>6

\* A save, or a crash in one.
LEMMA SaveStep ==
  ASSUME commit \in Nat, LogOK(log, commit, chosen), LogOK(log', commit, chosen), Lo(log') = Lo(log),
         commit' \in Nat, commit <= commit', commit' < Hi(log')
  PROVE  Storage!Save
<1>1. Slotted = SlottedOf(log) /\ Slotted' = SlottedOf(log')
  BY DEF Slotted, SlottedOf
<1>2. /\ Storage!UpTo(SlottedOf(log), commit) = {<<i, chosen[i].term>> : i \in Lo(log)..commit}
      /\ Storage!UpTo(SlottedOf(log'), commit) = {<<i, chosen[i].term>> : i \in Lo(log')..commit}
  BY UpToIs
<1>3. Wf(log') /\ Lo(log') \in Nat /\ Lo(log') <= commit
  BY LogNums
<1>4. Lo(log') <= commit'
  BY <1>3
<1>5. Storage!Sound(SlottedOf(log'), commit')
  BY <1>3, <1>4, SoundIs
<1> QED
  BY <1>1, <1>2, <1>5 DEF Storage!Save

\* Files before one that holds a committed entry are deleted.
LEMMA ClearStep ==
  ASSUME commit \in Nat, LogOK(log, commit, chosen), Wf(log'), Lo(log) <= Lo(log'), Lo(log') <= commit,
         Hi(log') = Hi(log), \A d \in Nat : Keeps(log, log', d), commit' = commit
  PROVE  Storage!Clear
<1>1. Slotted = SlottedOf(log) /\ Slotted' = SlottedOf(log')
  BY DEF Slotted, SlottedOf
<1>2. Wf(log) /\ Lo(log) \in Nat
  BY LogNums
<1>3. Lo(log') \in Nat
  BY LoHi
<1>4. SlottedOf(log') = Storage!From(SlottedOf(log), Lo(log'))
  BY <1>2, FromIs
<1>5. Lo(log') \in Storage!Indexes(Storage!UpTo(SlottedOf(log), commit))
  <2>1. Storage!UpTo(SlottedOf(log), commit) = {<<i, chosen[i].term>> : i \in Lo(log)..commit}
    BY UpToIs
  <2>2. PICK i : i = Lo(log')
    OBVIOUS
  <2>3. i \in Lo(log)..commit
    BY <1>2, <1>3, <2>2
  <2>4. PICK e : e = <<i, chosen[i].term>>
    OBVIOUS
  <2>5. e \in Storage!UpTo(SlottedOf(log), commit) /\ e[1] = i
    BY <2>1, <2>3, <2>4
  <2> QED
    BY <2>2, <2>5 DEF Storage!Indexes
<1> QED
  BY <1>1, <1>4, <1>5 DEF Storage!Clear

LEMMA StorageStep ==
  ASSUME OneExtraFile, IInv, ~Overcleared, [Next]_vars, ~Overcleared'
  PROVE  [Storage!Next]_<<Slotted, commit>>
<1>0. commit \in Nat /\ LogOK(log, commit, chosen) /\ MaxIndex \in Nat
  BY BoundsAssumption DEF IInv, Typed, LogInv
<1>1. ASSUME log' = log, commit' = commit
      PROVE  UNCHANGED <<Slotted, commit>>
  BY <1>1 DEF Slotted
<1>2. CASE Start \/ StartPanics
  <2>1. PICK m : m = InitedLog
    OBVIOUS
  <2>2. log' = m /\ commit' = commit
    BY <1>2, <2>1 DEF Start, StartPanics
  <2>3. /\ LogOK(m, commit, chosen) /\ Lo(log) <= Lo(m) /\ Hi(m) = Hi(log)
        /\ \A d \in Nat : Keeps(log, m, d)
    BY <2>1, InitedIs
  <2>4. Wf(m) /\ Lo(m) <= commit
    BY <1>0, <2>3, LogNums
  <2>5. Storage!Clear
    BY <1>0, <2>2, <2>3, <2>4, ClearStep
  <2> QED
    BY <2>5 DEF Storage!Next
<1>3. CASE StartRefused \/ Crash \/ AddDBPTInfo \/ ReadReplay \/ ServeStep
  BY <1>1, <1>3 DEF StartRefused, Crash, AddDBPTInfo, ReadReplay, ServeStep, PublishEntries,
                    WaitWriteOK, storage
<1>4. CASE SnapStep \/ ApplyDone \/ TryToUpdateCommittedIndex
  BY <1>1, <1>4 DEF SnapStep, SnapShot, CreateSnapshot, StoreSnapshot, ApplyDone,
                    TryToUpdateCommittedIndex, storage
<1>5. CASE \E s \in Shards : FlushStep(s)
  BY <1>1, <1>5 DEF FlushStep, WriteSnapshot, RaftFlush, storage
<1>6. CASE \E m \in 0..commit \cup {MaxUint64} : PrepareDeleteEntryLog(m)
  BY <1>1, <1>6 DEF PrepareDeleteEntryLog, storage
<1>7. CASE UNCHANGED vars
  BY <1>1, <1>7 DEF vars, storage
<1>8. ASSUME NEW ents \in Appended \cup {<<>>}, NEW c \in commit..MaxIndex, Ready(ents, c)
      PROVE  Storage!Save
  <2>1. PICK m : m = AddEntries(log, ents, Large)
    OBVIOUS
  <2>2. LogOK(m, commit, chosen) /\ Lo(m) = Lo(log)
    BY <2>1, AddedIs
  <2>3. log' = m /\ commit' = c /\ c \in commit..LastIndex(m)
    BY <1>8, <2>1 DEF Ready
  <2>4. Hi(m) \in Nat /\ LastIndex(m) = Hi(m) - 1
    BY <1>0, <2>2, LogNums
  <2>5. c \in Nat /\ commit <= c /\ c < Hi(m)
    BY <1>0, <2>3, <2>4
  <2> QED
    BY <1>0, <2>2, <2>3, <2>5, SaveStep
<1>9. ASSUME NEW ents \in Appended \cup {<<>>}, CrashInSave(ents)
      PROVE  Storage!Save
  <2>1. LogOK(log', commit, chosen) /\ Lo(log') = Lo(log)
    BY <1>9, CrashedIs
  <2>2. commit' = commit
    BY <1>9 DEF CrashInSave
  <2>3. commit < Hi(log')
    BY <1>0, <2>1, LogNums
  <2>4. commit' \in Nat /\ commit <= commit' /\ commit' < Hi(log')
    BY <1>0, <2>2, <2>3
  <2> QED
    BY <1>0, <2>1, <2>4, SaveStep
<1>10. CASE DealCommitData
  <2>1. CASE log' = log
    BY <1>1, <1>10, <2>1 DEF DealCommitData
  <2>2. CASE log' # log
    <3>1. /\ Wf(log') /\ Lo(log) <= Lo(log') /\ Lo(log') <= commit /\ Hi(log') = Hi(log)
          /\ \A d \in Nat : Keeps(log, log', d)
      BY <1>10, <2>2, DealtIs
    <3>2. commit' = commit
      BY <1>10 DEF DealCommitData
    <3>3. Storage!Clear
      BY <1>0, <3>1, <3>2, ClearStep
    <3> QED
      BY <3>3 DEF Storage!Next
  <2> QED
    BY <2>1, <2>2
<1>11. ASSUME Ready(<<>>, commit) PROVE Storage!Save
  BY <1>8, <1>11, CommitIn
<1> QED
  BY <1>2, <1>3, <1>4, <1>5, <1>6, <1>7, <1>8, <1>9, <1>10, <1>11 DEF Next, ApplyStep, Storage!Next

\* The files of the entry log implement the Storage the raft library is given:
\* without a gap, rewritten only above the commit index, cleared only before it,
\* until a ClearEntryLog that names no entry is applied.
THEOREM StorageIsRefined ==
  ASSUME OneExtraFile
  PROVE  Spec => StorageRefined
<1>1. Init => Storage!Init
  <2> SUFFICES ASSUME Init PROVE Storage!Init
    OBVIOUS
  <2>1. IInv
    BY InitKeeps
  <2>2. commit \in Nat /\ LogOK(log, commit, chosen)
    BY <2>1 DEF IInv, Typed, LogInv
  <2>3. Wf(log) /\ Lo(log) <= commit /\ commit < Hi(log)
    BY <2>2, LogNums
  <2>4. Storage!Sound(SlottedOf(log), commit)
    BY <2>2, <2>3, SoundIs
  <2> QED
    BY <2>4 DEF Storage!Init, Slotted, SlottedOf
<1>2. IInv /\ [Next]_vars => [Overcleared' \/ Storage!Next]_<<Slotted, commit>>
  <2> SUFFICES ASSUME IInv, [Next]_vars, ~Overcleared' PROVE [Storage!Next]_<<Slotted, commit>>
    OBVIOUS
  <2>1. ~Overcleared
    BY OverclearedStays
  <2> QED
    BY <2>1, StorageStep
<1>3. Overcleared /\ [Next]_vars => [Overcleared' \/ Storage!Next]_<<Slotted, commit>>
  BY OverclearedStays
<1> QED
  BY <1>1, <1>2, <1>3, Invariant, PTL DEF Spec, StorageRefined

=============================================================================
