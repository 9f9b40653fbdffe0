------------------------ MODULE ShardWalOrderProofs ------------------------
(***************************************************************************)
(* A write that began after another was acknowledged, and whose record     *)
(* went to the same WAL partition, hides it in an opened shard, whatever   *)
(* flushes, failed replays, closes and crashes came in between: for any    *)
(* number of partitions, writes, records per log file and tokens.          *)
(***************************************************************************)
EXTENDS ShardWalProofs, WellFoundedInduction

----------------------------------------------------------------------------
(***************************************************************************)
(* The inductive invariant.                                                *)
(***************************************************************************)

\* The records of partition b of the log, by file number.
Log(b) == disk[b]
Logged(b, w) == \E n \in DOMAIN Log(b) : w \in Range(Log(b)[n])
\* The names of partition b that f has yet to remove.
Doomed(b, f) == fl[f].wal.names[b]

\* The acknowledged writes whose record went to partition b, and those of them
\* that were acknowledged before w began.
Mine(b) == {w \in Acked : part[w] = b}
Earlier(b, w) == {v \in prec[w] : part[v] = b}

\* In s, w is there and comes after every copy of v.
Hides(s, w, v) ==
  /\ w \in Range(s)
  /\ \A i \in DOMAIN s : s[i] = v => \E j \in DOMAIN s : i < j /\ s[j] = w

\* The same of a sequence of sequences, read one after the other.
Holds(ss, w) == \E k \in DOMAIN ss : w \in Range(ss[k])
HidesIn(ss, w, v) ==
  /\ Holds(ss, w)
  /\ \A k \in DOMAIN ss : \A i \in DOMAIN ss[k] : ss[k][i] = v =>
       \E l \in DOMAIN ss : \E j \in DOMAIN ss[l] : ss[l][j] = w /\ (k < l \/ (k = l /\ i < j))

Stored == files \o snap.rows
Shown == files \o snap.rows \o active.rows

\* Of the files S on disk, the list r names one only when it has named all before it.
InTurn(S, r) == \A i \in DOMAIN r : \A n \in S :
  r[i] \in S /\ n < r[i] => \E j \in DOMAIN r : j < i /\ r[j] = n

\* The Snapshot goroutine runs from the end of OpenAndEnable to the end of Close:
\* only then are there writes and log files of this object.
OwnInv(b) ==
  /\ phase = "open" => ticker
  /\ \A w \in Writes : pc[w] \in {"enter", "alloc", "index", "table", "wal"} /\ w \notin stale
       => ticker \/ phase = "closed"
  /\ names[b] # <<>> => ticker
  /\ \A f \in Flushers : Doomed(b, f) # <<>> => ticker
  /\ phase \in {"dropped", "closed"} => active.rows = <<>>
  /\ phase = "down" => rnames[b] = <<>>

\* Log files are written, listed and removed in the order of their numbers, and
\* what is on disk of an opened shard is current or about to be removed.
FileInv(b) ==
  /\ names[b] # <<>> => Last(names[b]) = fileSeq[b]
  /\ \A i, j \in DOMAIN names[b] : i < j => names[b][i] < names[b][j]
  /\ ticker /\ phase \in LogPhases =>
       \A n \in DOMAIN Log(b) : n \in Range(names[b]) \/ \E f \in Flushers : n \in Range(Doomed(b, f))
  /\ \A f \in Flushers : InTurn(DOMAIN Log(b), Doomed(b, f))
  /\ phase \in {"down", "opening", "failed"} => InTurn(DOMAIN Log(b), rnames[b])
  /\ replay.at = "read" => DOMAIN Log(b) \subseteq Range(rnames[b])
  /\ replay.at \in {"flush", "flushing", "remove"} =>
       InTurn(DOMAIN Log(b), replay.rm.names[b]) /\ DOMAIN Log(b) \subseteq Range(replay.rm.names[b])

\* The log has only records of writes that were answered, and the record of a
\* write after those of the writes before it; these are removed first.
RecordInv(b) ==
  /\ \A w \in Writes : prec[w] \subseteq Acked
  /\ \A n \in DOMAIN Log(b) : \A u \in Range(Log(b)[n]) : pc[u] \in {"acked", "failed"} /\ part[u] = b
  /\ \A w \in Mine(b) : \A v \in Earlier(b, w) : \A m \in DOMAIN Log(b) : \A i \in DOMAIN Log(b)[m] :
       Log(b)[m][i] = v => \E n \in DOMAIN Log(b) : \E j \in DOMAIN Log(b)[n] :
                          Log(b)[n][j] = w /\ (m < n \/ (m = n /\ i < j))

\* The tables show what was acknowledged: while the shard is open, and in
\* OpenAndEnable once the log is read.
Shows == (ticker /\ phase # "dropped") \/ replay.at \in {"flush", "flushing", "remove"}

\* Committed, the snapshot table adds nothing to the files.
Absorbed == \A f \in Flushers : fl[f].at = "remove" =>
  \A v, w \in Writes : Hides(Stored, w, v) <=> Hides(files, w, v)

\* A write whose record is gone hides those before it in the files, and no table
\* on top of them changes that.
Settled(b) == \A w \in Mine(b) : \A v \in Earlier(b, w) :
  Logged(b, w) \/ (Hides(files, w, v) /\ Hides(Stored, w, v) /\ Hides(Shown, w, v))

ShownInOrder(b) == Shows =>
  \A w \in Writes : \A v \in Earlier(b, w) : pc[w] = "wal" \/ w \in Mine(b) => Hides(Shown, w, v)

\* While the log is read, what is yet to be read comes on top of the tables.
ReadInOrder(b) == replay.at = "read" /\ ~replay.errs => \A w \in Mine(b) : \A v \in Earlier(b, w) :
  \/ HidesIn(replay.todo[b], w, v)
  \/ ~Holds(replay.todo[b], w) /\ ~Holds(replay.todo[b], v) /\ Hides(Shown, w, v)
TodoLogged(b) == replay.at = "read" => \A u \in Writes : Holds(replay.todo[b], u) => Logged(b, u)

\* What a flush is about to remove hides in the files and its table already.
DoomedInOrder(b) == \A f \in Flushers : \A n \in Range(Doomed(b, f)) : n \in DOMAIN Log(b) =>
  \A w \in Range(Log(b)[n]) : \A v \in Earlier(b, w) : w \in Mine(b) => Hides(Stored, w, v)

\* The flush that ends the replay leaves both tables empty.
Emptied ==
  /\ replay.at = "flushing" /\ fl["force"].at \in {"commit", "remove"} => active.rows = <<>>
  /\ replay.at = "remove" => active.rows = <<>> /\ snap.rows = <<>>

OrderInv(b) ==
  /\ Absorbed
  /\ Settled(b)
  /\ ShownInOrder(b)
  /\ ReadInOrder(b)
  /\ TodoLogged(b)
  /\ DoomedInOrder(b)
  /\ Emptied

PInv(b) == OwnInv(b) /\ FileInv(b) /\ RecordInv(b) /\ OrderInv(b)

\* The record of an acknowledged write went to one of the partitions.
Parted == \A w \in Acked : part[w] \in Parts

\* All of it of every partition.
OInv == Parted /\ \A b \in Parts : PInv(b)

----------------------------------------------------------------------------
(***************************************************************************)
(* What hides what in sequences.                                           *)
(***************************************************************************)

LEMMA ConcatAt ==
  ASSUME NEW S, NEW s \in Seq(S), NEW t \in Seq(S)
  PROVE  /\ Len(s) \in Nat /\ Len(t) \in Nat /\ DOMAIN s = 1..Len(s) /\ DOMAIN t = 1..Len(t)
         /\ DOMAIN (s \o t) = 1..(Len(s) + Len(t))
         /\ \A i \in 1..Len(s) : (s \o t)[i] = s[i]
         /\ \A i \in 1..Len(t) : (s \o t)[Len(s) + i] = t[i]
         /\ \A i \in 1..(Len(s) + Len(t)) : i \in 1..Len(s) \/ i - Len(s) \in 1..Len(t)
  OBVIOUS

\* In s \o t, t decides unless it has neither of the two.
LEMMA HidesConcat ==
  ASSUME NEW S, NEW s \in Seq(S), NEW t \in Seq(S), NEW v, NEW w
  PROVE  Hides(s \o t, w, v) <=> \/ Hides(t, w, v)
                                 \/ w \notin Range(t) /\ v \notin Range(t) /\ Hides(s, w, v)
<1> DEFINE m == Len(s)
           n == Len(t)
           c == s \o t
<1>1. /\ m \in Nat /\ n \in Nat /\ DOMAIN s = 1..m /\ DOMAIN t = 1..n /\ DOMAIN c = 1..(m + n)
      /\ \A i \in 1..m : c[i] = s[i]
      /\ \A i \in 1..n : c[m + i] = t[i]
      /\ \A i \in 1..(m + n) : i \in 1..m \/ i - m \in 1..n
  BY ConcatAt
<1>2. Range(c) = Range(s) \cup Range(t)
  BY RangeConcat
<1> HIDE DEF m, n, c
<1>3. ASSUME Hides(t, w, v) PROVE Hides(c, w, v)
  <2>1. PICK k \in 1..n : t[k] = w
    BY <1>1, <1>3 DEF Hides, Range
  <2>2. ASSUME NEW i \in DOMAIN c, c[i] = v PROVE \E j \in DOMAIN c : i < j /\ c[j] = w
    <3>1. CASE i \in 1..m
      <4>1. m + k \in DOMAIN c /\ i < m + k /\ c[m + k] = w
        BY <1>1, <2>1, <3>1
      <4> QED
        BY <4>1
    <3>2. CASE i - m \in 1..n
      <4>1. i = m + (i - m) /\ t[i - m] = v
        BY <1>1, <2>2, <3>2
      <4>2. PICK j \in 1..n : i - m < j /\ t[j] = w
        BY <1>1, <1>3, <3>2, <4>1 DEF Hides
      <4>3. m + j \in DOMAIN c /\ i < m + j /\ c[m + j] = w
        BY <1>1, <3>2, <4>2
      <4> QED
        BY <4>3
    <3> QED
      BY <1>1, <2>2, <3>1, <3>2
  <2> QED
    BY <1>2, <1>3, <2>2 DEF Hides
<1>4. ASSUME w \notin Range(t), v \notin Range(t), Hides(s, w, v) PROVE Hides(c, w, v)
  <2>1. ASSUME NEW i \in DOMAIN c, c[i] = v PROVE \E j \in DOMAIN c : i < j /\ c[j] = w
    <3>1. i \in 1..m
      <4>1. ASSUME i - m \in 1..n PROVE FALSE
        <5>1. t[i - m] = c[m + (i - m)] /\ m + (i - m) = i
          BY <1>1, <4>1, <2>1
        <5> QED
          BY <1>1, <1>4, <2>1, <4>1, <5>1 DEF Range
      <4> QED
        BY <1>1, <2>1, <4>1
    <3>2. PICK j \in 1..m : i < j /\ s[j] = w
      BY <1>1, <1>4, <2>1, <3>1 DEF Hides
    <3>3. j \in DOMAIN c /\ c[j] = w
      BY <1>1, <3>2
    <3> QED
      BY <3>2, <3>3
  <2> QED
    BY <1>2, <1>4, <2>1 DEF Hides
<1>5. ASSUME Hides(c, w, v), w \in Range(t) PROVE Hides(t, w, v)
  <2>1. ASSUME NEW i \in DOMAIN t, t[i] = v PROVE \E j \in DOMAIN t : i < j /\ t[j] = w
    <3>1. m + i \in DOMAIN c /\ c[m + i] = v
      BY <1>1, <2>1
    <3>2. PICK j \in DOMAIN c : m + i < j /\ c[j] = w
      BY <1>5, <3>1 DEF Hides
    <3>3. j - m \in 1..n /\ i < j - m /\ m + (j - m) = j
      BY <1>1, <2>1, <3>2
    <3>4. t[j - m] = w
      BY <1>1, <3>2, <3>3
    <3> QED
      BY <1>1, <3>3, <3>4
  <2> QED
    BY <1>5, <2>1 DEF Hides
<1>6. ASSUME Hides(c, w, v), w \notin Range(t) PROVE v \notin Range(t) /\ Hides(s, w, v)
  <2>1. ASSUME NEW j \in DOMAIN c, c[j] = w PROVE j \in 1..m /\ s[j] = w
    <3>1. ASSUME j - m \in 1..n PROVE FALSE
      <4>1. m + (j - m) = j /\ t[j - m] = c[m + (j - m)]
        BY <1>1, <2>1, <3>1
      <4> QED
        BY <1>1, <1>6, <2>1, <3>1, <4>1 DEF Range
    <3> QED
      BY <1>1, <2>1, <3>1
  <2>2. ASSUME NEW i \in 1..n, t[i] = v PROVE FALSE
    <3>1. m + i \in DOMAIN c /\ c[m + i] = v
      BY <1>1, <2>2
    <3>2. PICK j \in DOMAIN c : m + i < j /\ c[j] = w
      BY <1>6, <3>1 DEF Hides
    <3> QED
      BY <1>1, <2>1, <3>2
  <2>3. ASSUME NEW i \in 1..m, s[i] = v PROVE \E j \in 1..m : i < j /\ s[j] = w
    <3>1. i \in DOMAIN c /\ c[i] = v
      BY <1>1, <2>3
    <3>2. PICK j \in DOMAIN c : i < j /\ c[j] = w
      BY <1>6, <3>1 DEF Hides
    <3> QED
      BY <2>1, <3>2
  <2>4. w \in Range(s)
    BY <1>2, <1>6 DEF Hides
  <2> QED
    BY <1>1, <2>2, <2>3, <2>4 DEF Hides, Range
<1> QED
  BY <1>3, <1>4, <1>5, <1>6 DEF c

\* A row more in the table.
LEMMA HidesAppend ==
  ASSUME NEW S, NEW s \in Seq(S), NEW u \in S, NEW v, NEW w, v # u
  PROVE  /\ u = w => Hides(Append(s, u), w, v)
         /\ Hides(s, w, v) => Hides(Append(s, u), w, v)
         /\ u # w /\ Hides(Append(s, u), w, v) => Hides(s, w, v)
<1> DEFINE a == Append(s, u)
           n == Len(s)
<1>1. /\ n \in Nat /\ DOMAIN s = 1..n /\ DOMAIN a = 1..(n + 1)
      /\ \A i \in 1..n : a[i] = s[i]
      /\ a[n + 1] = u
      /\ \A i \in 1..(n + 1) : i \in 1..n \/ i = n + 1
  OBVIOUS
<1>2. Range(a) = Range(s) \cup {u}
  BY RangeAppend
<1> HIDE DEF a, n
<1>3. ASSUME u = w PROVE Hides(a, w, v)
  <2>1. ASSUME NEW i \in DOMAIN a, a[i] = v PROVE i < n + 1 /\ n + 1 \in DOMAIN a /\ a[n + 1] = w
    BY <1>1, <1>3, <2>1
  <2> QED
    BY <1>2, <1>3, <2>1 DEF Hides
<1>4. ASSUME Hides(s, w, v) PROVE Hides(a, w, v)
  <2>1. ASSUME NEW i \in DOMAIN a, a[i] = v PROVE \E j \in DOMAIN a : i < j /\ a[j] = w
    <3>1. i \in 1..n /\ s[i] = v
      BY <1>1, <2>1
    <3>2. PICK j \in 1..n : i < j /\ s[j] = w
      BY <1>1, <1>4, <3>1 DEF Hides
    <3>3. j \in DOMAIN a /\ a[j] = w
      BY <1>1, <3>2
    <3> QED
      BY <3>2, <3>3
  <2> QED
    BY <1>2, <1>4, <2>1 DEF Hides
<1>5. ASSUME u # w, Hides(a, w, v) PROVE Hides(s, w, v)
  <2>1. ASSUME NEW i \in DOMAIN s, s[i] = v PROVE \E j \in DOMAIN s : i < j /\ s[j] = w
    <3>1. i \in DOMAIN a /\ a[i] = v
      BY <1>1, <2>1
    <3>2. PICK j \in DOMAIN a : i < j /\ a[j] = w
      BY <1>5, <3>1 DEF Hides
    <3>3. j \in 1..n /\ s[j] = w
      BY <1>1, <1>5, <3>2
    <3> QED
      BY <1>1, <3>2, <3>3
  <2>2. w \in Range(s)
    BY <1>2, <1>5 DEF Hides
  <2> QED
    BY <2>1, <2>2 DEF Hides
<1> QED
  BY <1>3, <1>4, <1>5 DEF a

----------------------------------------------------------------------------
(* The last copies.                                                        *)

LEMMA LeastElement ==
  ASSUME NEW T, T \subseteq Nat, T # {}
  PROVE  \E x \in T : \A y \in T : x <= y
<1> DEFINE R == OpToRel(<, Nat)
<1>1. IsWellFoundedOn(R, Nat)
  BY NatLessThanWellFounded
<1> HIDE DEF R
<1>2. PICK x \in T : \A y \in T : ~(<<y, x>> \in R)
  BY <1>1, WFMin
<1>3. ASSUME NEW y \in T
      PROVE  x <= y
  <2>1. ~(<<y, x>> \in R) /\ x \in Nat /\ y \in Nat
    BY <1>2
  <2>2. ~(y < x)
    BY <2>1 DEF R, OpToRel
  <2> QED
    BY <2>1, <2>2
<1> QED
  BY <1>2, <1>3

\* LastPos is the greatest position of w in s, or 0.
LEMMA LastPosIs ==
  ASSUME NEW S, NEW s \in Seq(S), NEW w
  PROVE  /\ LastPos(s, w) \in Nat
         /\ \A i \in DOMAIN s : s[i] = w => i <= LastPos(s, w)
         /\ w \in Range(s) => LastPos(s, w) \in DOMAIN s /\ s[LastPos(s, w)] = w
         /\ w \notin Range(s) => LastPos(s, w) = 0
<1> DEFINE P == {i \in DOMAIN s : s[i] = w} \cup {0}
           n == Len(s)
           B == {b \in 0..n : \A x \in P : x <= b}
<1>1. n \in Nat /\ DOMAIN s = 1..n
  OBVIOUS
<1>2. P \subseteq 0..n
  BY <1>1
<1>3. n \in B
  BY <1>1, <1>2
<1>4. PICK b \in B : \A y \in B : b <= y
  <2>1. B \subseteq Nat
    BY <1>1
  <2> HIDE DEF B
  <2> QED
    BY <1>3, <2>1, LeastElement
<1>5. b \in 0..n /\ \A x \in P : x <= b
  BY <1>4
<1> HIDE DEF P, B
<1>6. b \in P
  <2>1. ASSUME b \notin P PROVE FALSE
    <3>1. b # 0
      BY <2>1 DEF P
    <3>2. \A x \in P : x <= b - 1
      BY <1>1, <1>2, <1>5, <2>1
    <3>3. b - 1 \in 0..n
      BY <1>1, <1>5, <3>1
    <3>4. b - 1 \in B
      BY <3>2, <3>3 DEF B
    <3>5. b <= b - 1
      BY <1>4, <3>4
    <3> QED
      BY <1>1, <1>5, <3>5
  <2> QED
    BY <2>1
<1>7. Max(P) \in P /\ \A y \in P : Max(P) >= y
  <2>1. \A y \in P : b >= y
    BY <1>1, <1>2, <1>5
  <2> QED
    BY <1>6, <2>1 DEF Max
<1>8. LastPos(s, w) = Max(P)
  BY DEF LastPos, P
<1>9. LastPos(s, w) \in Nat
  <2>1. LastPos(s, w) \in 0..n
    BY <1>2, <1>7, <1>8
  <2> HIDE DEF n
  <2> QED
    BY <1>1, <2>1
<1>10. \A i \in DOMAIN s : s[i] = w => i <= LastPos(s, w)
  BY <1>1, <1>7, <1>8, <1>9 DEF P
<1>11. ASSUME w \in Range(s) PROVE LastPos(s, w) \in DOMAIN s /\ s[LastPos(s, w)] = w
  <2>1. PICK i \in DOMAIN s : s[i] = w
    BY <1>11 DEF Range
  <2>2. LastPos(s, w) # 0
    BY <1>1, <1>9, <1>10, <2>1
  <2> QED
    BY <1>7, <1>8, <2>2 DEF P
<1>12. ASSUME w \notin Range(s) PROVE LastPos(s, w) = 0
  BY <1>7, <1>8, <1>12 DEF P, Range
<1> QED
  BY <1>9, <1>10, <1>11, <1>12

LEMMA HidesLastPos ==
  ASSUME NEW S, NEW s \in Seq(S), NEW v, NEW w
  PROVE  /\ Hides(s, w, v) <=> LastPos(s, v) < LastPos(s, w)
         /\ Hides(s, w, v) <=> w \in Range(s) /\ (v \in Range(s) => LastPos(s, v) < LastPos(s, w))
<1>1. /\ LastPos(s, w) \in Nat /\ LastPos(s, v) \in Nat
      /\ \A i \in DOMAIN s : s[i] = w => i <= LastPos(s, w)
      /\ \A i \in DOMAIN s : s[i] = v => i <= LastPos(s, v)
      /\ w \in Range(s) => LastPos(s, w) \in DOMAIN s /\ s[LastPos(s, w)] = w
      /\ v \in Range(s) => LastPos(s, v) \in DOMAIN s /\ s[LastPos(s, v)] = v
      /\ w \notin Range(s) => LastPos(s, w) = 0
      /\ v \notin Range(s) => LastPos(s, v) = 0
  BY LastPosIs
<1>2. DOMAIN s \subseteq Nat \ {0}
  OBVIOUS
<1>3. ASSUME Hides(s, w, v) PROVE LastPos(s, v) < LastPos(s, w) /\ w \in Range(s)
  <2>1. w \in Range(s)
    BY <1>3 DEF Hides
  <2>2. CASE v \in Range(s)
    <3>1. PICK j \in DOMAIN s : LastPos(s, v) < j /\ s[j] = w
      BY <1>1, <1>3, <2>2 DEF Hides
    <3>2. j <= LastPos(s, w) /\ j \in Nat
      BY <1>1, <1>2, <3>1
    <3> QED
      BY <1>1, <2>1, <3>1, <3>2
  <2>3. CASE v \notin Range(s)
    BY <1>1, <1>2, <2>1, <2>3
  <2> QED
    BY <2>2, <2>3
<1>4. ASSUME w \in Range(s), v \in Range(s) => LastPos(s, v) < LastPos(s, w) PROVE Hides(s, w, v)
  <2>1. ASSUME NEW i \in DOMAIN s, s[i] = v PROVE i < LastPos(s, w) /\ LastPos(s, w) \in DOMAIN s /\ s[LastPos(s, w)] = w
    <3>1. v \in Range(s) /\ i \in Nat
      BY <1>2, <2>1 DEF Range
    <3>2. i <= LastPos(s, v)
      BY <1>1, <2>1
    <3> QED
      BY <1>1, <1>4, <3>1, <3>2
  <2> QED
    BY <1>4, <2>1 DEF Hides
<1>5. LastPos(s, v) < LastPos(s, w) => w \in Range(s)
  BY <1>1
<1> QED
  BY <1>3, <1>4, <1>5

\* Files that keep only the last copies hide the same.
LEMMA HidesLastCopies ==
  ASSUME NEW S, NEW s \in Seq(S), IsFiniteSet(Range(s)), NEW q \in LastCopies(s), NEW v, NEW w
  PROVE  /\ q \in Seq(S) /\ Range(q) = Range(s)
         /\ Hides(q, w, v) <=> Hides(s, w, v)
<1> DEFINE R == Range(s)
           key == [u \in R |-> LastPos(s, u)]
           n == Cardinality(R)
<1>1. n \in Nat
  BY FS_CardinalityType
<1>2. q \in [1..n -> R] /\ Range(q) = R /\ \A i, j \in 1..n : i < j => key[q[i]] < key[q[j]]
  BY DEF LastCopies, InOrder
<1>3. \A u \in R : key[u] = LastPos(s, u) /\ key[u] \in Nat
  BY LastPosIs
<1>4. q \in Seq(R) /\ R \subseteq S
  BY <1>1, <1>2, RangeType
<1>5. q \in Seq(S)
  BY <1>4, SeqMonotonic
<1> HIDE DEF R, key, n
<1>6. DOMAIN q = 1..n
  BY <1>2
<1>7. ASSUME Hides(q, w, v) PROVE w \in R /\ (v \in R => key[v] < key[w])
  <2>1. w \in R
    BY <1>2, <1>7 DEF Hides
  <2>2. ASSUME v \in R PROVE key[v] < key[w]
    <3>1. PICK i \in 1..n : q[i] = v
      BY <1>2, <1>6, <2>2 DEF Range
    <3>2. PICK j \in 1..n : i < j /\ q[j] = w
      BY <1>6, <1>7, <3>1 DEF Hides
    <3> QED
      BY <1>2, <3>1, <3>2
  <2> QED
    BY <2>1, <2>2
<1>8. ASSUME w \in R, v \in R => key[v] < key[w] PROVE Hides(q, w, v)
  <2>1. PICK j \in 1..n : q[j] = w
    BY <1>2, <1>6, <1>8 DEF Range
  <2>2. ASSUME NEW i \in 1..n, q[i] = v PROVE i < j
    <3>1. v \in R /\ key[v] \in Nat /\ key[w] \in Nat
      BY <1>2, <1>3, <1>8, <2>2
    <3>2. ~(j < i) /\ i # j
      BY <1>2, <1>8, <2>1, <2>2, <3>1
    <3> QED
      BY <1>1, <2>2, <3>2
  <2> QED
    BY <1>2, <1>6, <1>8, <2>1, <2>2 DEF Hides
<1>9. Hides(s, w, v) <=> w \in R /\ (v \in R => key[v] < key[w])
  BY <1>3, HidesLastPos DEF R
<1> QED
  BY <1>2, <1>5, <1>7, <1>8, <1>9 DEF R

----------------------------------------------------------------------------
(***************************************************************************)
(* A partition: types, and the variables the parts depend on.              *)
(***************************************************************************)
LEMMA One ==
  ASSUME NEW b \in Parts, TypeOK
  PROVE  /\ DOMAIN Log(b) \subseteq Nat /\ IsFiniteSet(DOMAIN Log(b))
         /\ \A n \in DOMAIN Log(b) : Log(b)[n] \in Seq(Writes) \ {<<>>}
         /\ names[b] \in Seq(Nat) /\ fileSeq[b] \in Nat /\ rnames[b] \in Seq(Nat)
         /\ replay.todo[b] \in Seq(Record) /\ replay.rm.names[b] \in Seq(Nat)
         /\ \A f \in Flushers : Doomed(b, f) \in Seq(Nat)
<1>1. DOMAIN Log(b) \subseteq Nat /\ IsFiniteSet(DOMAIN Log(b)) /\ Log(b) \in [DOMAIN Log(b) -> Seq(Writes) \ {<<>>}]
  BY DEF TypeOK, Log
<1>2. names[b] \in Seq(Nat) /\ fileSeq[b] \in Nat /\ rnames[b] \in Seq(Nat)
  BY DEF TypeOK
<1>3. replay.todo \in [Parts -> Seq(Record)] /\ replay.rm.names \in [Parts -> Seq(Nat)]
  BY DEF TypeOK, Record
<1>4. \A f \in Flushers : Doomed(b, f) \in Seq(Nat)
  BY FlNames DEF Doomed
<1> QED
  BY <1>1, <1>2, <1>3, <1>4

LEMMA RowTypes ==
  ASSUME TypeOK
  PROVE  /\ files \in Seq(Writes) /\ snap.rows \in Seq(Writes) /\ active.rows \in Seq(Writes)
         /\ Stored \in Seq(Writes) /\ Shown \in Seq(Writes)
         /\ Stored = files \o snap.rows /\ Shown = Stored \o active.rows
<1>1. files \in Seq(Writes) /\ snap.rows \in Seq(Writes) /\ active.rows \in Seq(Writes)
  BY DEF TypeOK
<1>2. files \o snap.rows \in Seq(Writes)
  BY <1>1
<1>3. (files \o snap.rows) \o active.rows \in Seq(Writes)
  BY <1>1, <1>2
<1> QED
  BY <1>1, <1>2, <1>3 DEF Stored, Shown

LEMMA HidesEmpty ==
  ASSUME NEW s \in Seq(Writes), NEW w, NEW v
  PROVE  Hides(s \o <<>>, w, v) <=> Hides(s, w, v)
  BY DEF Hides

LEMMA NotEmptyHides == \A w, v : ~Hides(<<>>, w, v)
  BY RangeEmpty DEF Hides

LEMMA OwnSame ==
  ASSUME NEW b \in Parts, OwnInv(b), UNCHANGED <<phase, ticker, pc, stale, names, fl, active, rnames>>
  PROVE  OwnInv(b)'
  BY DEF OwnInv, Doomed

LEMMA FileSame ==
  ASSUME NEW b \in Parts, FileInv(b), UNCHANGED <<names, fileSeq, disk, fl, ticker, phase, rnames, replay>>
  PROVE  FileInv(b)'
  BY DEF FileInv, Doomed, InTurn, Log

LEMMA RecordSame == ASSUME NEW b \in Parts, RecordInv(b), UNCHANGED <<pc, prec, part, disk>> PROVE RecordInv(b)'
  BY DEF RecordInv, Acked, Mine, Earlier, Log

LEMMA OrderSame ==
  ASSUME NEW b \in Parts, OrderInv(b),
         UNCHANGED <<files, snap, active, fl, replay, ticker, phase, pc, prec, part, disk>>
  PROVE  OrderInv(b)'
  BY DEF OrderInv, Absorbed, Settled, ShownInOrder, ReadInOrder, TodoLogged, DoomedInOrder, Emptied,
         Acked, Mine, Earlier, Log, Logged, Stored, Shown, Shows, Doomed

\* A step on another partition.
LEMMA OtherPart ==
  ASSUME NEW b \in Parts, PInv(b), Log(b)' = Log(b), names'[b] = names[b], fileSeq'[b] = fileSeq[b],
         \A g \in Flushers : Doomed(b, g)' = Doomed(b, g) /\ fl'[g].at = fl[g].at,
         replay'.at = replay.at, replay'.errs = replay.errs,
         replay'.todo[b] = replay.todo[b], replay'.rm.names[b] = replay.rm.names[b],
         UNCHANGED <<pc, prec, part, stale, phase, ticker, active, snap, files, rnames>>
  PROVE  PInv(b)'
<1>1. /\ Mine(b)' = Mine(b) /\ (\A z : Earlier(b, z)' = Earlier(b, z)) /\ Acked' = Acked
      /\ Stored' = Stored /\ Shown' = Shown /\ (Shows' <=> Shows)
  BY DEF Acked, Mine, Earlier, Stored, Shown, Shows
<1>2. \A u : Logged(b, u)' <=> Logged(b, u)
  BY DEF Logged
<1>3. OwnInv(b)'
  BY DEF PInv, OwnInv
<1>4. FileInv(b)'
  BY DEF PInv, FileInv, InTurn
<1>5. RecordInv(b)'
  BY <1>1 DEF PInv, RecordInv
<1>6. Absorbed'
  BY <1>1 DEF PInv, OrderInv, Absorbed
<1>7. Emptied'
  <2>1. "force" \in Flushers
    BY DEF Flushers
  <2> QED
    BY <2>1 DEF PInv, OrderInv, Emptied
<1>8. Settled(b)' /\ ShownInOrder(b)'
  BY <1>1, <1>2 DEF PInv, OrderInv, Settled, ShownInOrder
<1>9. ReadInOrder(b)' /\ TodoLogged(b)'
  BY <1>1, <1>2 DEF PInv, OrderInv, ReadInOrder, TodoLogged
<1>10. DoomedInOrder(b)'
  BY <1>1 DEF PInv, OrderInv, DoomedInOrder
<1> QED
  BY <1>3, <1>4, <1>5, <1>6, <1>7, <1>8, <1>9, <1>10 DEF PInv, OrderInv

----------------------------------------------------------------------------
(***************************************************************************)
(* One lemma per action: the steps of a write.                             *)
(***************************************************************************)

\* A request moves on, or fails, before it has written its row or record.
LEMMA PcMoves ==
  ASSUME NEW b \in Parts, IInv, PInv(b), NEW w \in Writes, NEW s, s \notin {"acked", "wal"},
         pc[w] \notin {"acked", "failed"}, pc' = [pc EXCEPT ![w] = s],
         pc[w] \in {"enter", "alloc", "index", "table", "wal"} \/ ticker,
         \A u \in Writes : u # w => prec'[u] = prec[u], prec'[w] \subseteq Acked,
         active'.rows = active.rows,
         UNCHANGED <<part, stale, phase, ticker, snap, files, walVars, fl, rnames, replay>>
  PROVE  PInv(b)'
<1>1. /\ pc \in [Writes -> {"new", "enter", "alloc", "index", "table", "wal", "acked", "failed"}]
      /\ prec \in [Writes -> SUBSET Writes]
  BY DEF IInv, TypeOK
<1>2. /\ \A u \in Writes : u # w => pc'[u] = pc[u]
      /\ pc'[w] = s
      /\ Acked' = Acked /\ w \notin Acked
  BY <1>1 DEF Acked
<1>10. /\ Mine(b)' = Mine(b) /\ \A u \in Mine(b) : u \in Writes /\ u # w
       /\ \A u \in Writes : u # w => Earlier(b, u)' = Earlier(b, u)
  BY <1>2 DEF Mine, Earlier, Acked
<1>3. Log(b)' = Log(b) /\ Stored' = Stored /\ Shown' = Shown /\ (Shows' <=> Shows) /\ \A u : Logged(b, u)' <=> Logged(b, u)
  BY DEF Log, Stored, Shown, Shows, Logged, walVars
<1>4. OwnInv(b)'
  BY <1>1, <1>2 DEF PInv, OwnInv, walVars, Doomed
<1>5. FileInv(b)'
  BY FileSame DEF PInv, walVars
<1>6. RecordInv(b)'
  <2>1. \A u \in Writes : prec'[u] \subseteq Acked'
    BY <1>2 DEF PInv, RecordInv
  <2>2. ASSUME NEW n \in DOMAIN Log(b)', NEW u \in Range(Log(b)'[n]) PROVE pc'[u] \in {"acked", "failed"} /\ part'[u] = b
    <3>1. pc[u] \in {"acked", "failed"} /\ part[u] = b
      BY <1>3, <2>2 DEF PInv, RecordInv
    <3>2. Log(b)[n] \in Seq(Writes)
      BY <1>3, One DEF IInv
    <3>3. u \in Writes
      BY <1>3, <2>2, <3>2, RangeType
    <3> QED
      BY <1>2, <3>1, <3>3
  <2>3. \A u \in Mine(b)' : \A v \in Earlier(b, u)' : \A m \in DOMAIN Log(b)' : \A i \in DOMAIN Log(b)'[m] :
          Log(b)'[m][i] = v => \E n \in DOMAIN Log(b)' : \E j \in DOMAIN Log(b)'[n] :
                              Log(b)'[n][j] = u /\ (m < n \/ (m = n /\ i < j))
    BY <1>3, <1>10 DEF PInv, RecordInv
  <2> QED
    BY <2>1, <2>2, <2>3 DEF RecordInv
<1>7. OrderInv(b)'
  <2>1. Absorbed' /\ Emptied'
    BY <1>3 DEF PInv, OrderInv, Absorbed, Emptied
  <2>2. Settled(b)'
    BY <1>3, <1>10 DEF PInv, OrderInv, Settled
  <2>3. ShownInOrder(b)'
    <3>1. \A u \in Writes : pc'[u] = "wal" \/ u \in Mine(b)' =>
            u # w /\ (pc[u] = "wal" \/ u \in Mine(b)) /\ Earlier(b, u)' = Earlier(b, u)
      BY <1>2, <1>10
    <3> QED
      BY <1>3, <3>1 DEF PInv, OrderInv, ShownInOrder
  <2>4. ReadInOrder(b)' /\ TodoLogged(b)'
    BY <1>3, <1>10 DEF PInv, OrderInv, ReadInOrder, TodoLogged
  <2>5. DoomedInOrder(b)'
    BY <1>3, <1>10 DEF PInv, OrderInv, DoomedInOrder, Doomed
  <2> QED
    BY <2>1, <2>2, <2>3, <2>4, <2>5 DEF OrderInv
<1> QED
  BY <1>4, <1>5, <1>6, <1>7 DEF PInv

LEMMA BeginWriteOrder == ASSUME NEW b \in Parts, IInv, PInv(b), NEW w \in Writes, BeginWrite(w) PROVE PInv(b)'
<1>1. ticker
  BY DEF BeginWrite, PInv, OwnInv
<1>2. (\A u \in Writes : u # w => prec'[u] = prec[u]) /\ prec'[w] \subseteq Acked
  BY DEF BeginWrite, IInv, TypeOK
<1> QED
  BY <1>1, <1>2, PcMoves DEF BeginWrite, tblVars

LEMMA EarlyWriteOrder ==
  ASSUME NEW b \in Parts, IInv, PInv(b), NEW w \in Writes,
         \/ EnterWrite(w) \/ AllocResource(w) \/ AllocTimeout(w)
         \/ WriteIndex(w) \/ WriteIndexFails(w) \/ WriteTableFails(w)
  PROVE  PInv(b)'
<1>1. PICK s : /\ s \notin {"acked", "wal"} /\ pc[w] \in {"enter", "alloc", "index", "table"}
               /\ pc' = [pc EXCEPT ![w] = s] /\ prec' = prec
  BY DEF EnterWrite, AllocResource, AllocTimeout, WriteIndex, WriteIndexFails, WriteTableFails
<1>2. active'.rows = active.rows
  BY DEF EnterWrite, AllocResource, AllocTimeout, WriteIndex, WriteIndexFails, WriteTableFails, tblVars,
         IInv, TypeOK
<1>3. UNCHANGED <<part, stale, phase, ticker, snap, files, walVars, fl, rnames, replay>>
  BY DEF EnterWrite, AllocResource, AllocTimeout, WriteIndex, WriteIndexFails, WriteTableFails, tblVars
<1>4. (\A u \in Writes : u # w => prec'[u] = prec[u]) /\ prec'[w] \subseteq Acked
  BY <1>1 DEF PInv, RecordInv
<1> QED
  BY <1>1, <1>2, <1>3, <1>4, PcMoves

\* A row more in the active table, of a write that v is not.
LEMMA ShownGrows ==
  ASSUME NEW s \in Seq(Writes), NEW a \in Seq(Writes), NEW u \in Writes, NEW w, NEW v, v # u,
         u = w \/ Hides(s \o a, w, v)
  PROVE  Hides(s \o Append(a, u), w, v)
<1>1. Append(a, u) \in Seq(Writes) /\ Range(Append(a, u)) = Range(a) \cup {u}
  BY RangeAppend
<1>2. CASE u = w
  <2>1. Hides(Append(a, u), w, v)
    BY <1>2, HidesAppend
  <2> QED
    BY <1>1, <2>1, HidesConcat
<1>3. CASE u # w /\ Hides(a, w, v)
  <2>1. Hides(Append(a, u), w, v)
    BY <1>3, HidesAppend
  <2> QED
    BY <1>1, <2>1, HidesConcat
<1>4. CASE u # w /\ w \notin Range(a) /\ v \notin Range(a) /\ Hides(s, w, v)
  <2>1. w \notin Range(Append(a, u)) /\ v \notin Range(Append(a, u))
    BY <1>1, <1>4
  <2> QED
    BY <1>1, <1>4, <2>1, HidesConcat
<1>5. Hides(s \o a, w, v) => \/ Hides(a, w, v)
                             \/ w \notin Range(a) /\ v \notin Range(a) /\ Hides(s, w, v)
  BY HidesConcat
<1> QED
  BY <1>2, <1>3, <1>4, <1>5

LEMMA WriteTableOrder == ASSUME NEW b \in Parts, IInv, PInv(b), NEW w \in Writes, WriteTable(w) PROVE PInv(b)'
<1>1. /\ pc[w] = "table" /\ pc' = [pc EXCEPT ![w] = "wal"]
      /\ active'.rows = Append(active.rows, w)
      /\ UNCHANGED <<prec, part, stale, phase, ticker, snap, files, disk, fileSeq, names, fl, rnames, replay>>
  BY DEF WriteTable, walVars
<1>2. /\ pc \in [Writes -> {"new", "enter", "alloc", "index", "table", "wal", "acked", "failed"}]
      /\ prec \in [Writes -> SUBSET Writes]
  BY DEF IInv, TypeOK
<1>3. phase \in {"open", "closing"} /\ w \notin stale /\ replay.at = "idle" /\ ticker
  BY <1>1 DEF IInv, WriteInv, CtlInv, PInv, OwnInv
<1>4. /\ \A u \in Writes : u # w => pc'[u] = pc[u]
      /\ pc'[w] = "wal" /\ Acked' = Acked /\ Mine(b)' = Mine(b) /\ (\A z : Earlier(b, z)' = Earlier(b, z)) /\ w \notin Acked
  BY <1>1, <1>2 DEF Acked, Mine, Earlier
<1>5. /\ Stored \in Seq(Writes) /\ active.rows \in Seq(Writes)
      /\ Shown = Stored \o active.rows /\ Stored' = Stored /\ Shown' = Stored \o Append(active.rows, w)
  BY <1>1, RowTypes DEF IInv, Stored, Shown
<1>6. Log(b)' = Log(b) /\ (Shows' <=> Shows) /\ \A u : Logged(b, u)' <=> Logged(b, u)
  BY <1>1 DEF Log, Shows, Logged
<1>7. \A u \in Writes : \A v \in Earlier(b, u) : v # w /\ (u = w \/ Hides(Shown, u, v) => Hides(Shown', u, v))
  <2> SUFFICES ASSUME NEW u \in Writes, NEW v \in Earlier(b, u)
               PROVE  v # w /\ (u = w \/ Hides(Shown, u, v) => Hides(Shown', u, v))
    OBVIOUS
  <2>1. v # w
    BY <1>4 DEF PInv, RecordInv, Earlier
  <2> QED
    BY <1>5, <2>1, ShownGrows
<1>8. OwnInv(b)'
  BY <1>1, <1>3, <1>4 DEF PInv, OwnInv, Doomed
<1>9. FileInv(b)'
  BY <1>1, FileSame DEF PInv
<1>10. RecordInv(b)'
  <2>1. \A n \in DOMAIN Log(b) : \A u \in Range(Log(b)[n]) : u # w
    BY <1>1 DEF PInv, RecordInv
  <2>2. \A n \in DOMAIN Log(b) : Range(Log(b)[n]) \subseteq Writes
    BY One, RangeType DEF IInv
  <2> QED
    BY <1>1, <1>4, <1>6, <2>1, <2>2 DEF PInv, RecordInv
<1>11. Absorbed' /\ ReadInOrder(b)' /\ TodoLogged(b)' /\ Emptied'
  BY <1>1, <1>3, <1>5 DEF PInv, OrderInv, Absorbed, ReadInOrder, TodoLogged, Emptied
<1>12. Settled(b)'
  BY <1>1, <1>4, <1>5, <1>6, <1>7 DEF PInv, OrderInv, Settled, Acked, Mine, Earlier
<1>13. ShownInOrder(b)'
  BY <1>1, <1>3, <1>4, <1>7 DEF PInv, OrderInv, ShownInOrder, Shows
<1>14. DoomedInOrder(b)'
  BY <1>1, <1>4, <1>5, <1>6 DEF PInv, OrderInv, DoomedInOrder, Doomed
<1> QED
  BY <1>8, <1>9, <1>10, <1>11, <1>12, <1>13, <1>14 DEF PInv, OrderInv

----------------------------------------------------------------------------
(***************************************************************************)
(* One lemma per action: the flushers.                                     *)
(***************************************************************************)

\* A flusher that has switched nothing moves on; the replay may be its caller.
LEMMA FlKeeps ==
  ASSUME NEW b \in Parts, IInv, PInv(b),
         \A g \in Flushers : /\ Doomed(b, g)' = Doomed(b, g)
                             /\ fl'[g].at = "remove" <=> fl[g].at = "remove"
                             /\ fl'[g].at \in {"commit", "remove"} => fl[g].at \in {"commit", "remove"},
         \/ replay' = replay
         \/ /\ replay.at = "flush" /\ replay'.at = "flushing" /\ fl["force"].at = "idle"
            /\ replay'.todo = replay.todo /\ replay'.errs = replay.errs /\ replay'.rm = replay.rm,
         UNCHANGED <<pc, prec, part, stale, phase, ticker, tblVars, walVars, rnames>>
  PROVE  PInv(b)'
<1>1. UNCHANGED <<active, snap, files, disk, fileSeq, names>>
  BY DEF tblVars, walVars
<1>2. Acked' = Acked /\ Mine(b)' = Mine(b) /\ (\A z : Earlier(b, z)' = Earlier(b, z)) /\ Log(b)' = Log(b) /\ Stored' = Stored /\ Shown' = Shown /\ \A u : Logged(b, u)' <=> Logged(b, u)
  BY <1>1 DEF Acked, Mine, Earlier, Log, Stored, Shown, Logged
<1>3. /\ replay'.at = "read" <=> replay.at = "read"
      /\ replay'.at = "remove" <=> replay.at = "remove"
      /\ replay'.at \in {"flush", "flushing", "remove"} <=> replay.at \in {"flush", "flushing", "remove"}
      /\ replay'.todo = replay.todo /\ replay'.errs = replay.errs /\ replay'.rm = replay.rm
  OBVIOUS
<1>4. Shows' <=> Shows
  BY <1>3 DEF Shows
<1>5. OwnInv(b)'
  BY <1>1 DEF PInv, OwnInv
<1>6. FileInv(b)'
  BY <1>1, <1>2, <1>3 DEF PInv, FileInv, InTurn
<1>7. RecordInv(b)'
  BY <1>1, RecordSame DEF PInv
<1>8. Absorbed'
  BY <1>1, <1>2 DEF PInv, OrderInv, Absorbed
<1>9. Emptied'
  <2>1. "force" \in Flushers
    BY DEF Flushers
  <2> QED
    BY <1>1, <1>3, <2>1 DEF PInv, OrderInv, Emptied
<1>10. Settled(b)' /\ ShownInOrder(b)'
  BY <1>1, <1>2, <1>4 DEF PInv, OrderInv, Settled, ShownInOrder
<1>11. ReadInOrder(b)' /\ TodoLogged(b)'
  BY <1>1, <1>2, <1>3 DEF PInv, OrderInv, ReadInOrder, TodoLogged
<1>12. DoomedInOrder(b)'
  BY <1>1, <1>2 DEF PInv, OrderInv, DoomedInOrder
<1> QED
  BY <1>5, <1>6, <1>7, <1>8, <1>9, <1>10, <1>11, <1>12 DEF PInv, OrderInv

LEMMA ShouldSnapshotOrder == ASSUME NEW b \in Parts, IInv, PInv(b), ShouldSnapshot PROVE PInv(b)'
<1>1. fl["tick"].at = "idle" /\ fl'["tick"].at = "ready" /\ fl'["tick"].wal = fl["tick"].wal /\ fl'["force"] = fl["force"]
  BY FlAt DEF ShouldSnapshot, IInv, Flushers, FlAts
<1> QED
  BY <1>1, FlKeeps DEF ShouldSnapshot, Flushers, Doomed

LEMMA ForceWaitOrder == ASSUME NEW b \in Parts, IInv, PInv(b), ForceWait PROVE PInv(b)'
<1>1. fl["force"].at = "wait" /\ fl'["force"].at = "ready" /\ fl'["force"].wal = fl["force"].wal /\ fl'["tick"] = fl["tick"]
  BY FlAt DEF ForceWait, IInv, Flushers, FlAts
<1> QED
  BY <1>1, FlKeeps DEF ForceWait, Flushers, Doomed

LEMMA ForceFlushOrder == ASSUME NEW b \in Parts, IInv, PInv(b), ForceFlush PROVE PInv(b)'
<1>1. fl["force"].at = "idle" /\ fl'["force"].at = "wait" /\ fl'["force"].wal = fl["force"].wal /\ fl'["tick"] = fl["tick"]
  BY FlAt DEF ForceFlush, ForceFlushing, IInv, Flushers, FlAts
<1>2. \/ replay' = replay
      \/ /\ replay.at = "flush" /\ replay'.at = "flushing"
         /\ replay'.todo = replay.todo /\ replay'.errs = replay.errs /\ replay'.rm = replay.rm
  BY DEF ForceFlush, IInv, TypeOK
<1> QED
  BY <1>1, <1>2, FlKeeps DEF ForceFlush, Flushers, Doomed

LEMMA SwitchNothingOrder == ASSUME NEW b \in Parts, IInv, PInv(b), NEW f \in Flushers, SwitchNothing(f) PROVE PInv(b)'
<1>1. fl'[f] = NoFlush /\ \A g \in Flushers : g # f => fl'[g] = fl[g]
  BY FlUpdate, NoFlushType DEF SwitchNothing, IInv
<1>2. replay' = replay
  BY DEF SwitchNothing, IInv, CtlInv, ActiveNil, AfterFlush
<1>3. NoneLeft(fl[f].wal) /\ fl[f].at = "ready"
  BY DEF SwitchNothing, IInv, LogInv, Flushing
<1>4. Doomed(b, f)' = Doomed(b, f)
  BY <1>1, <1>3, NoFlushType, NoListType, PartsFacts DEF NoneLeft, Doomed
<1>5. \A g \in Flushers : /\ Doomed(b, g)' = Doomed(b, g)
                          /\ fl'[g].at = "remove" <=> fl[g].at = "remove"
                          /\ fl'[g].at \in {"commit", "remove"} => fl[g].at \in {"commit", "remove"}
  BY <1>1, <1>3, <1>4, NoFlushType DEF Doomed
<1> QED
  BY <1>2, <1>5, FlKeeps DEF SwitchNothing

LEMMA SwitchTablesOrder == ASSUME NEW b \in Parts, IInv, PInv(b), NEW f \in Flushers, SwitchTables(f) PROVE PInv(b)'
<1>1. PICK order \in Orders :
        fl' = [fl EXCEPT ![f] = [at |-> "commit", wal |-> Listing(order, names), size |-> active.size]]
  BY DEF SwitchTables
<1>2. /\ fl[f].at = "ready"
      /\ \A w \in Writes : pc[w] # "wal"
      /\ phase \notin {"dropped", "closed"}
      /\ names' = [p \in Parts |-> <<>>]
      /\ snap'.rows = active.rows
      /\ active'.rows = <<>>
      /\ UNCHANGED <<pc, prec, part, stale, phase, ticker, files, disk, fileSeq, rnames, replay>>
  BY DEF SwitchTables, ActiveNil, Snapshotted, EmptyTbl
<1>3. names[b] \in Seq(Nat) /\ names'[b] = <<>>
  BY <1>2, PartsFacts, One DEF IInv
<1>4. \A g \in Flushers : ~Flushing(g)
  BY <1>2 DEF IInv, CtlInv, Prepared, Flushing, Flushers
<1>5. snap.rows = <<>> /\ \A g \in Flushers : Doomed(b, g) = <<>>
  BY <1>3, <1>4 DEF IInv, SnapInv, LogInv, NoneLeft, Doomed
<1>6. Doomed(b, f)' = names[b] /\ fl'[f].at = "commit" /\ \A g \in Flushers : g # f => fl'[g] = fl[g]
  BY <1>1 DEF IInv, TypeOK, Doomed, Listing
<1>7. \A g \in Flushers : fl'[g].at # "remove" /\ (g # f => Doomed(b, g)' = <<>>)
  BY <1>4, <1>5, <1>6 DEF Doomed, Flushing
<1>8. Acked' = Acked /\ Mine(b)' = Mine(b) /\ (\A z : Earlier(b, z)' = Earlier(b, z)) /\ Log(b)' = Log(b) /\ (Shows' <=> Shows) /\ \A u : Logged(b, u)' <=> Logged(b, u)
  BY <1>2 DEF Acked, Mine, Earlier, Log, Shows, Logged
<1>9. Stored' = Shown /\ Shown' = Shown
  <2>1. files \in Seq(Writes) /\ active.rows \in Seq(Writes) /\ Shown \in Seq(Writes)
    BY RowTypes DEF IInv
  <2>2. \A s \in Seq(Writes) : s \o <<>> = s
    OBVIOUS
  <2>3. Stored' = files \o active.rows /\ Shown = (files \o <<>>) \o active.rows
    BY <1>2, <1>5 DEF Stored, Shown
  <2>4. Stored' = Shown
    BY <2>1, <2>2, <2>3
  <2>5. Shown' = Stored' \o <<>>
    BY <1>2 DEF Stored, Shown
  <2> QED
    BY <2>1, <2>2, <2>4, <2>5
<1>10. names[b] # <<>> => ticker /\ phase \in LogPhases
  BY <1>3 DEF PInv, OwnInv, IInv, LogInv
<1>11. DOMAIN <<>> = {} /\ Range(<<>>) = {}
  BY RangeEmpty
<1>12. OwnInv(b)'
  BY <1>2, <1>3, <1>6, <1>7, <1>10 DEF PInv, OwnInv
<1>13. FileInv(b)'
  <2>1. ASSUME ticker, phase \in LogPhases, NEW n \in DOMAIN Log(b) PROVE n \in Range(names[b])
    BY <1>5, <1>11, <2>1 DEF PInv, FileInv
  <2>2. ASSUME NEW i \in DOMAIN names[b], NEW n \in DOMAIN Log(b), names[b][i] \in DOMAIN Log(b), n < names[b][i]
        PROVE  \E j \in DOMAIN names[b] : j < i /\ names[b][j] = n
    <3>1. names[b] # <<>>
      BY <1>11, <2>2
    <3>2. PICK j \in DOMAIN names[b] : names[b][j] = n
      BY <1>10, <2>1, <3>1 DEF Range
    <3>3. i \in Nat /\ j \in Nat /\ names[b][i] \in Nat /\ names[b][j] \in Nat
      BY <1>3
    <3>4. i < j => names[b][i] < names[b][j]
      BY DEF PInv, FileInv
    <3>5. j < i
      BY <2>2, <3>2, <3>3, <3>4
    <3> QED
      BY <3>2, <3>5
  <2>3. \A g \in Flushers : InTurn(DOMAIN Log(b), Doomed(b, g))'
    BY <1>6, <1>7, <1>8, <1>11, <2>2 DEF InTurn
  <2>4. InTurn(DOMAIN Log(b), rnames[b])' <=> InTurn(DOMAIN Log(b), rnames[b])
    BY <1>2, <1>8 DEF InTurn
  <2>5. InTurn(DOMAIN Log(b), replay.rm.names[b])' <=> InTurn(DOMAIN Log(b), replay.rm.names[b])
    BY <1>2, <1>8 DEF InTurn
  <2>6. ticker' /\ phase' \in LogPhases => \A n \in DOMAIN Log(b)' : \E g \in Flushers : n \in Range(Doomed(b, g)')
    BY <1>2, <1>6, <1>8, <2>1
  <2> QED
    BY <1>2, <1>3, <1>8, <1>11, <2>3, <2>4, <2>5, <2>6 DEF PInv, FileInv
<1>14. RecordInv(b)'
  BY <1>2, RecordSame DEF PInv
<1>15. Absorbed' /\ Emptied'
  BY <1>2, <1>7 DEF Absorbed, PInv, OrderInv, Emptied
<1>16. Settled(b)' /\ ShownInOrder(b)'
  BY <1>2, <1>8, <1>9 DEF PInv, OrderInv, Settled, ShownInOrder
<1>17. ReadInOrder(b)' /\ TodoLogged(b)'
  BY <1>2, <1>8, <1>9 DEF PInv, OrderInv, ReadInOrder, TodoLogged
<1>18. DoomedInOrder(b)'
  <2> SUFFICES ASSUME NEW n \in Range(names[b]), n \in DOMAIN Log(b), NEW w \in Range(Log(b)[n]), NEW v \in Earlier(b, w), w \in Mine(b)
               PROVE  Hides(Shown, w, v)
    BY <1>2, <1>6, <1>7, <1>8, <1>9, <1>11 DEF DoomedInOrder
  <2>1. names[b] # <<>>
    BY <1>11
  <2>2. Shows
    BY <1>2, <1>10, <2>1 DEF Shows
  <2>3. w \in Writes /\ pc[w] = "acked"
    BY DEF Acked, Mine, Earlier
  <2> QED
    BY <2>2, <2>3 DEF PInv, OrderInv, ShownInOrder
<1> QED
  BY <1>12, <1>13, <1>14, <1>15, <1>16, <1>17, <1>18 DEF PInv, OrderInv

LEMMA CommitSnapshotOrder == ASSUME NEW b \in Parts, IInv, PInv(b), NEW f \in Flushers, CommitSnapshot(f) PROVE PInv(b)'
<1>1. /\ fl[f].at = "commit" /\ files' \in LastCopies(files \o snap.rows)
      /\ fl' = [fl EXCEPT ![f].at = "remove"]
      /\ UNCHANGED <<pc, prec, part, stale, phase, ticker, active, snap, disk, fileSeq, names, rnames, replay>>
  BY DEF CommitSnapshot, walVars
<1>2. fl'[f].at = "remove" /\ fl'[f].wal = fl[f].wal /\ \A g \in Flushers : g # f => fl'[g] = fl[g]
  BY <1>1, FlAt DEF IInv, FlAts
<1>3. \A g \in Flushers : Doomed(b, g)' = Doomed(b, g) /\ (fl'[g].at \in {"commit", "remove"} <=> fl[g].at \in {"commit", "remove"})
  BY <1>1, <1>2 DEF Doomed
<1>4. Stored \in Seq(Writes) /\ snap.rows \in Seq(Writes) /\ active.rows \in Seq(Writes) /\ Shown = Stored \o active.rows
  BY RowTypes DEF IInv
<1>5. IsFiniteSet(Range(Stored))
  <2>1. Range(Stored) \subseteq Writes
    BY <1>4, RangeType
  <2> QED
    BY <2>1, WalAssumption, FS_Subset
<1>6. files' \in Seq(Writes) /\ Range(files') = Range(Stored)
      /\ \A v, w \in Writes : Hides(files', w, v) <=> Hides(Stored, w, v)
  <2>1. files' \in LastCopies(Stored)
    BY <1>1 DEF Stored
  <2> QED
    BY <1>4, <1>5, <2>1, HidesLastCopies
<1>7. Stored' = files' \o snap.rows /\ Shown' = Stored' \o active.rows /\ Stored' \in Seq(Writes)
  BY <1>1, <1>4, <1>6 DEF Stored, Shown
<1>8. \A v, w \in Writes : Hides(Stored', w, v) <=> Hides(Stored, w, v)
  <2> SUFFICES ASSUME NEW v \in Writes, NEW w \in Writes PROVE Hides(Stored', w, v) <=> Hides(Stored, w, v)
    OBVIOUS
  <2>1. Hides(Stored', w, v) <=> \/ Hides(snap.rows, w, v)
                                 \/ w \notin Range(snap.rows) /\ v \notin Range(snap.rows) /\ Hides(files', w, v)
    BY <1>4, <1>6, <1>7, HidesConcat
  <2>2. Hides(Stored, w, v) <=> \/ Hides(snap.rows, w, v)
                                \/ w \notin Range(snap.rows) /\ v \notin Range(snap.rows) /\ Hides(files, w, v)
    BY <1>4, HidesConcat, RowTypes DEF Stored, IInv
  <2> QED
    BY <1>6, <2>1, <2>2
<1>9. \A v, w \in Writes : Hides(Shown', w, v) <=> Hides(Shown, w, v)
  <2> SUFFICES ASSUME NEW v \in Writes, NEW w \in Writes PROVE Hides(Shown', w, v) <=> Hides(Shown, w, v)
    OBVIOUS
  <2>1. Hides(Shown', w, v) <=> \/ Hides(active.rows, w, v)
                                \/ w \notin Range(active.rows) /\ v \notin Range(active.rows) /\ Hides(Stored', w, v)
    BY <1>4, <1>7, HidesConcat
  <2>2. Hides(Shown, w, v) <=> \/ Hides(active.rows, w, v)
                               \/ w \notin Range(active.rows) /\ v \notin Range(active.rows) /\ Hides(Stored, w, v)
    BY <1>4, HidesConcat
  <2> QED
    BY <1>8, <2>1, <2>2
<1>10. Acked' = Acked /\ Mine(b)' = Mine(b) /\ (\A z : Earlier(b, z)' = Earlier(b, z)) /\ Log(b)' = Log(b) /\ (Shows' <=> Shows) /\ \A u : Logged(b, u)' <=> Logged(b, u)
  BY <1>1 DEF Acked, Mine, Earlier, Log, Shows, Logged
<1>11. Mine(b) \subseteq Writes /\ \A w \in Writes : Earlier(b, w) \subseteq Writes
  BY DEF IInv, TypeOK, Acked, Mine, Earlier
<1>12. OwnInv(b)'
  BY <1>1, <1>3 DEF PInv, OwnInv
<1>13. FileInv(b)'
  BY <1>1, <1>3, <1>10 DEF PInv, FileInv, InTurn
<1>14. RecordInv(b)'
  BY <1>1, RecordSame DEF PInv
<1>15. Absorbed'
  BY <1>6, <1>8 DEF Absorbed
<1>16. Emptied'
  <2>1. "force" \in Flushers
    BY DEF Flushers
  <2> QED
    BY <1>1, <1>3, <2>1 DEF PInv, OrderInv, Emptied
<1>17. Settled(b)' /\ ShownInOrder(b)'
  BY <1>1, <1>6, <1>8, <1>9, <1>10, <1>11 DEF PInv, OrderInv, Settled, ShownInOrder
<1>18. ReadInOrder(b)' /\ TodoLogged(b)'
  BY <1>1, <1>9, <1>10, <1>11 DEF PInv, OrderInv, ReadInOrder, TodoLogged
<1>19. DoomedInOrder(b)'
  BY <1>1, <1>3, <1>8, <1>10, <1>11 DEF PInv, OrderInv, DoomedInOrder
<1> QED
  BY <1>12, <1>13, <1>14, <1>15, <1>16, <1>17, <1>18, <1>19 DEF PInv, OrderInv

LEMMA EndSnapshotOrder == ASSUME NEW b \in Parts, IInv, PInv(b), NEW f \in Flushers, EndSnapshot(f) PROVE PInv(b)'
<1>1. /\ fl[f].at = "remove" /\ NoneLeft(fl[f].wal)
      /\ snap'.rows = <<>>
      /\ fl' = [fl EXCEPT ![f] = NoFlush]
      /\ replay' = AfterFlush(f)
      /\ UNCHANGED <<pc, prec, part, stale, phase, ticker, active, files, disk, fileSeq, names, rnames>>
  BY DEF EndSnapshot, walVars, NoSnap
<1>2. fl'[f] = NoFlush /\ \A g \in Flushers : g # f => fl'[g] = fl[g]
  BY <1>1, FlUpdate, NoFlushType DEF IInv
<1>3. Doomed(b, f)' = Doomed(b, f)
  BY <1>1, <1>2, NoFlushType, NoListType, PartsFacts DEF NoneLeft, Doomed
<1>4. \A g \in Flushers : Doomed(b, g)' = Doomed(b, g) /\ fl'[g].at # "remove" /\ (g = f \/ ~Flushing(g))
  <2>1. \A g \in Flushers : g # f => ~Flushing(g)
    BY <1>1 DEF IInv, CtlInv, Prepared, Flushing, Flushers
  <2> QED
    BY <1>2, <1>3, <2>1, NoFlushType DEF Doomed, Flushing
<1>5. /\ replay'.at = "read" <=> replay.at = "read"
      /\ replay'.at \in {"flush", "flushing", "remove"} <=> replay.at \in {"flush", "flushing", "remove"}
      /\ replay'.todo = replay.todo /\ replay'.errs = replay.errs /\ replay'.rm = replay.rm
      /\ replay'.at = "flushing" => f # "force"
      /\ replay'.at = "remove" => replay.at = "remove" \/ (f = "force" /\ replay.at = "flushing")
  BY <1>1 DEF AfterFlush, IInv, TypeOK
<1>6. files \in Seq(Writes) /\ Stored \in Seq(Writes) /\ active.rows \in Seq(Writes) /\ Shown = Stored \o active.rows
  BY RowTypes DEF IInv
<1>7. Stored' = files /\ Shown' = files \o active.rows
  <2>1. files \o <<>> = files
    BY <1>6
  <2> QED
    BY <1>1, <2>1 DEF Stored, Shown
<1>8. \A v, w \in Writes : /\ Hides(files, w, v) <=> Hides(Stored, w, v)
                           /\ Hides(Shown', w, v) <=> Hides(Shown, w, v)
  <2> SUFFICES ASSUME NEW v \in Writes, NEW w \in Writes
               PROVE  (Hides(files, w, v) <=> Hides(Stored, w, v)) /\ (Hides(Shown', w, v) <=> Hides(Shown, w, v))
    OBVIOUS
  <2>1. Hides(files, w, v) <=> Hides(Stored, w, v)
    BY <1>1 DEF PInv, OrderInv, Absorbed
  <2>2. Hides(files \o active.rows, w, v) <=>
          \/ Hides(active.rows, w, v)
          \/ w \notin Range(active.rows) /\ v \notin Range(active.rows) /\ Hides(files, w, v)
    BY <1>6, HidesConcat
  <2>3. Hides(Stored \o active.rows, w, v) <=>
          \/ Hides(active.rows, w, v)
          \/ w \notin Range(active.rows) /\ v \notin Range(active.rows) /\ Hides(Stored, w, v)
    BY <1>6, HidesConcat
  <2> QED
    BY <1>6, <1>7, <2>1, <2>2, <2>3
<1>9. Acked' = Acked /\ Mine(b)' = Mine(b) /\ (\A z : Earlier(b, z)' = Earlier(b, z)) /\ Log(b)' = Log(b) /\ (Shows' <=> Shows) /\ \A u : Logged(b, u)' <=> Logged(b, u)
  BY <1>1, <1>5 DEF Acked, Mine, Earlier, Log, Shows, Logged
<1>10. Mine(b) \subseteq Writes /\ \A w \in Writes : Earlier(b, w) \subseteq Writes
  BY DEF IInv, TypeOK, Acked, Mine, Earlier
<1>11. OwnInv(b)'
  BY <1>1, <1>4 DEF PInv, OwnInv
<1>12. FileInv(b)'
  BY <1>1, <1>4, <1>5, <1>9 DEF PInv, FileInv, InTurn
<1>13. RecordInv(b)'
  BY <1>1, RecordSame DEF PInv
<1>14. Absorbed'
  BY <1>4 DEF Absorbed
<1>15. Emptied'
  <2>1. ASSUME replay'.at = "flushing", fl'["force"].at \in {"commit", "remove"} PROVE FALSE
    <3>1. "force" \in Flushers /\ f # "force"
      BY <1>5, <2>1 DEF Flushers
    <3> QED
      BY <1>2, <1>4, <2>1, <3>1 DEF Flushing
  <2>2. ASSUME replay'.at = "remove" PROVE active.rows = <<>>
    BY <1>1, <1>5, <2>2 DEF PInv, OrderInv, Emptied
  <2> QED
    BY <1>1, <2>1, <2>2 DEF Emptied
<1>16. Settled(b)' /\ ShownInOrder(b)'
  BY <1>1, <1>7, <1>8, <1>9, <1>10 DEF PInv, OrderInv, Settled, ShownInOrder
<1>17. ReadInOrder(b)' /\ TodoLogged(b)'
  BY <1>1, <1>5, <1>8, <1>9, <1>10 DEF PInv, OrderInv, ReadInOrder, TodoLogged
<1>18. DoomedInOrder(b)'
  BY <1>1, <1>4, <1>7, <1>8, <1>9, <1>10 DEF PInv, OrderInv, DoomedInOrder
<1> QED
  BY <1>11, <1>12, <1>13, <1>14, <1>15, <1>16, <1>17, <1>18 DEF PInv, OrderInv

----------------------------------------------------------------------------
(***************************************************************************)
(* One lemma per action: the removal of log files.                         *)
(***************************************************************************)
LEMMA InTurnLess ==
  ASSUME NEW S, NEW T, T \subseteq S, NEW r, InTurn(S, r)
  PROVE  InTurn(T, r)
  BY DEF InTurn

\* The first name of the list, when it is on disk, is the least file there.
LEMMA InTurnHead ==
  ASSUME NEW S, S \subseteq Nat, NEW r \in Seq(Nat), r # <<>>, InTurn(S, r)
  PROVE  /\ Head(r) \in S => \A m \in S : Head(r) <= m
         /\ Tail(r) \in Seq(Nat) /\ InTurn(S \ {Head(r)}, Tail(r))
         /\ Range(r) = {Head(r)} \cup Range(Tail(r))
<1>1. /\ Len(r) \in Nat /\ DOMAIN r = 1..Len(r) /\ 1 \in DOMAIN r /\ r[1] = Head(r) /\ Head(r) \in Nat
      /\ Tail(r) \in Seq(Nat) /\ DOMAIN Tail(r) = 1..(Len(r) - 1)
      /\ \A i \in 1..(Len(r) - 1) : Tail(r)[i] = r[i + 1] /\ i + 1 \in DOMAIN r
      /\ \A i \in DOMAIN r : i # 1 => i - 1 \in 1..(Len(r) - 1) /\ (i - 1) + 1 = i
  OBVIOUS
<1>2. ASSUME Head(r) \in S, NEW m \in S PROVE Head(r) <= m
  <2>1. ASSUME m < r[1] PROVE FALSE
    <3>1. PICK j \in DOMAIN r : j < 1 /\ r[j] = m
      BY <1>1, <1>2, <2>1 DEF InTurn
    <3> QED
      BY <1>1, <3>1
  <2> QED
    BY <1>1, <2>1
<1>3. ASSUME NEW i \in DOMAIN Tail(r), NEW m \in S \ {Head(r)}, Tail(r)[i] \in S \ {Head(r)}, m < Tail(r)[i]
      PROVE  \E j \in DOMAIN Tail(r) : j < i /\ Tail(r)[j] = m
  <2>1. i \in 1..(Len(r) - 1) /\ i + 1 \in DOMAIN r /\ Tail(r)[i] = r[i + 1]
    BY <1>1
  <2>2. PICK j \in DOMAIN r : j < i + 1 /\ r[j] = m
    BY <1>3, <2>1 DEF InTurn
  <2>3. j # 1
    BY <1>1, <1>3, <2>2
  <2>4. j - 1 \in 1..(Len(r) - 1) /\ (j - 1) + 1 = j
    BY <1>1, <2>3
  <2>5. Tail(r)[j - 1] = m /\ j - 1 < i
    BY <1>1, <2>1, <2>2, <2>4
  <2> QED
    BY <1>1, <2>4, <2>5
<1>4. Range(r) = {Head(r)} \cup Range(Tail(r))
  BY RangeTail
<1> QED
  BY <1>1, <1>2, <1>3, <1>4 DEF InTurn

\* The least file goes, whose writes hide in the files what they have to.
LEMMA LogShrinks ==
  ASSUME NEW b \in Parts, IInv, PInv(b), NEW n \in Nat,
         n \in DOMAIN Log(b) => \A m \in DOMAIN Log(b) : n <= m,
         n \in DOMAIN Log(b) => \A w \in Range(Log(b)[n]) : \A v \in Earlier(b, w) :
           w \in Mine(b) => Hides(files, w, v) /\ Hides(Stored, w, v) /\ Hides(Shown, w, v),
         disk' = [disk EXCEPT ![b] = Without(@, n)],
         UNCHANGED <<pc, prec, part, tblVars>>
  PROVE  /\ RecordInv(b)' /\ Settled(b)'
         /\ DOMAIN Log(b)' = DOMAIN Log(b) \ {n}
         /\ \A m \in DOMAIN Log(b)' : Log(b)'[m] = Log(b)[m]
<1>1. DOMAIN Log(b)' = DOMAIN Log(b) \ {n} /\ \A m \in DOMAIN Log(b)' : Log(b)'[m] = Log(b)[m]
  <2>1. DOMAIN disk = Parts
    BY DEF IInv, TypeOK
  <2>2. disk'[b] = Without(disk[b], n)
    BY <2>1
  <2> QED
    BY <2>2 DEF Log, Without
<1>2. Acked' = Acked /\ Mine(b)' = Mine(b) /\ (\A z : Earlier(b, z)' = Earlier(b, z)) /\ Stored' = Stored /\ Shown' = Shown /\ files' = files /\ pc' = pc /\ prec' = prec /\ part' = part
  BY DEF Acked, Mine, Earlier, Stored, Shown, tblVars
<1>3. DOMAIN Log(b) \subseteq Nat
  BY One DEF IInv
<1>4. RecordInv(b)'
  <2>1. ASSUME NEW w \in Mine(b), NEW v \in Earlier(b, w), NEW m \in DOMAIN Log(b)', NEW i \in DOMAIN Log(b)'[m], Log(b)'[m][i] = v
        PROVE  \E k \in DOMAIN Log(b)' : \E j \in DOMAIN Log(b)'[k] : Log(b)'[k][j] = w /\ (m < k \/ (m = k /\ i < j))
    <3>1. m \in DOMAIN Log(b) /\ m # n /\ Log(b)'[m] = Log(b)[m]
      BY <1>1
    <3>2. PICK k \in DOMAIN Log(b) : \E j \in DOMAIN Log(b)[k] : Log(b)[k][j] = w /\ (m < k \/ (m = k /\ i < j))
      BY <2>1, <3>1 DEF PInv, RecordInv
    <3>3. k # n
      BY <1>3, <3>1, <3>2
    <3>4. k \in DOMAIN Log(b)' /\ Log(b)'[k] = Log(b)[k]
      BY <1>1, <3>3
    <3> QED
      BY <3>2, <3>4
  <2>2. \A m \in DOMAIN Log(b)' : \A u \in Range(Log(b)'[m]) : pc[u] \in {"acked", "failed"} /\ part[u] = b
    BY <1>1 DEF PInv, RecordInv
  <2>3. \A w \in Writes : prec[w] \subseteq Acked
    BY DEF PInv, RecordInv
  <2> QED
    BY <1>2, <2>1, <2>2, <2>3 DEF RecordInv
<1>5. Settled(b)'
  <2> SUFFICES ASSUME NEW w \in Mine(b), NEW v \in Earlier(b, w), ~Logged(b, w)'
               PROVE  Hides(files, w, v) /\ Hides(Stored, w, v) /\ Hides(Shown, w, v)
    BY <1>2 DEF Settled
  <2>1. CASE ~Logged(b, w)
    BY <2>1 DEF PInv, OrderInv, Settled
  <2>2. CASE Logged(b, w)
    <3>1. PICK m \in DOMAIN Log(b) : w \in Range(Log(b)[m])
      BY <2>2 DEF Logged
    <3>2. ASSUME m # n PROVE FALSE
      <4>1. m \in DOMAIN disk'[b] /\ w \in Range(disk'[b][m])
        BY <1>1, <3>1, <3>2 DEF Log
      <4> QED
        BY <4>1 DEF Logged, Log
    <3> QED
      BY <3>1, <3>2
  <2> QED
    BY <2>1, <2>2
<1> QED
  BY <1>1, <1>4, <1>5

LEMMA RemoveWalFileOrder ==
  ASSUME NEW b \in Parts, IInv, PInv(b), NEW f \in Flushers, RemoveWalFile(f, b) PROVE PInv(b)'
<1> DEFINE n == Head(Doomed(b, f))
<1>1. /\ fl[f].at = "remove" /\ Doomed(b, f) # <<>>
      /\ disk' = [disk EXCEPT ![b] = Without(@, n)]
      /\ fl' = [fl EXCEPT ![f].wal.names[b] = Tail(@)]
      /\ UNCHANGED <<pc, prec, part, stale, phase, ticker, active, snap, files, fileSeq, names, rnames, replay>>
  BY DEF RemoveWalFile, IsFirst, tblVars, Doomed
<1>2. phase \in OpenPhases /\ ticker /\ replay.at = "idle"
  <2>1. ~NoneLeft(fl[f].wal)
    BY <1>1 DEF NoneLeft, Doomed
  <2>2. phase \in OpenPhases /\ ticker
    BY <1>1, <2>1 DEF IInv, LogInv, PInv, OwnInv
  <2> QED
    BY <2>2 DEF IInv, CtlInv, OpenPhases, LogPhases
<1>3. /\ DOMAIN Log(b) \subseteq Nat /\ Doomed(b, f) \in Seq(Nat) /\ InTurn(DOMAIN Log(b), Doomed(b, f))
  BY One DEF IInv, PInv, FileInv
<1>4. /\ n \in DOMAIN Log(b) => \A m \in DOMAIN Log(b) : n <= m
      /\ InTurn(DOMAIN Log(b) \ {n}, Tail(Doomed(b, f)))
      /\ Range(Doomed(b, f)) = {n} \cup Range(Tail(Doomed(b, f)))
  BY <1>1, <1>3, InTurnHead
<1>5. n \in Nat
  BY <1>1, <1>3
<1> HIDE DEF n
<1>6. \A g \in Flushers : fl'[g].at = fl[g].at /\ (g # f => Doomed(b, g)' = Doomed(b, g))
  <2>1. fl \in [Flushers -> FlRec]
    BY DEF IInv, TypeOK, FlRec, FlAts, Lists
  <2> QED
    BY <1>1, <2>1 DEF FlRec, Doomed
<1>7. Doomed(b, f)' = Tail(Doomed(b, f))
  <2>1. fl \in [Flushers -> FlRec]
    BY DEF IInv, TypeOK, FlRec, FlAts, Lists
  <2> QED
    BY <1>1, <2>1 DEF FlRec, Lists, Doomed
<1>8. ASSUME n \in DOMAIN Log(b), NEW w \in Range(Log(b)[n]), NEW v \in Earlier(b, w), w \in Mine(b)
      PROVE  Hides(files, w, v) /\ Hides(Stored, w, v) /\ Hides(Shown, w, v)
  <2>1. w \in Writes /\ v \in Writes /\ pc[w] = "acked"
    BY <1>8 DEF IInv, TypeOK, Acked, Mine, Earlier
  <2>2. Hides(Stored, w, v)
    BY <1>4, <1>8 DEF PInv, OrderInv, DoomedInOrder
  <2>3. Hides(files, w, v)
    BY <1>1, <2>1, <2>2 DEF PInv, OrderInv, Absorbed
  <2>4. CASE phase # "dropped"
    BY <1>2, <1>8, <2>1, <2>2, <2>3, <2>4 DEF PInv, OrderInv, ShownInOrder, Shows
  <2>5. CASE phase = "dropped"
    <3>1. active.rows = <<>>
      BY <2>5 DEF PInv, OwnInv
    <3>2. Shown = Stored \o <<>> /\ Stored \in Seq(Writes)
      BY <3>1, RowTypes DEF IInv
    <3> QED
      BY <2>2, <2>3, <3>2, HidesEmpty
  <2> QED
    BY <2>4, <2>5
<1>9. /\ RecordInv(b)' /\ Settled(b)'
       /\ DOMAIN Log(b)' = DOMAIN Log(b) \ {n}
       /\ \A m \in DOMAIN Log(b)' : Log(b)'[m] = Log(b)[m]
  BY <1>1, <1>4, <1>5, <1>8, LogShrinks DEF tblVars
<1>10. OwnInv(b)'
  BY <1>1, <1>2 DEF PInv, OwnInv
<1>11. FileInv(b)'
  <2>1. \A g \in Flushers : InTurn(DOMAIN Log(b)', Doomed(b, g)')
    <3> SUFFICES ASSUME NEW g \in Flushers PROVE InTurn(DOMAIN Log(b)', Doomed(b, g)')
      OBVIOUS
    <3>1. CASE g = f
      BY <1>4, <1>7, <1>9, <3>1
    <3>2. CASE g # f
      BY <1>6, <1>9, <3>2, InTurnLess DEF PInv, FileInv
    <3> QED
      BY <3>1, <3>2
  <2>2. ASSUME ticker, phase \in LogPhases, NEW m \in DOMAIN Log(b)'
        PROVE  m \in Range(names[b]) \/ \E g \in Flushers : m \in Range(Doomed(b, g)')
    <3>1. m \in DOMAIN Log(b) /\ m # n
      BY <1>9
    <3>2. m \in Range(names[b]) \/ \E g \in Flushers : m \in Range(Doomed(b, g))
      BY <2>2, <3>1 DEF PInv, FileInv
    <3>3. m \in Range(Doomed(b, f)) => m \in Range(Doomed(b, f)')
      BY <1>4, <1>7, <3>1
    <3> QED
      BY <1>6, <3>2, <3>3
  <2>3. phase \notin {"down", "opening", "failed"}
    BY <1>2 DEF OpenPhases, LogPhases
  <2> QED
    BY <1>1, <1>2, <2>1, <2>2, <2>3 DEF PInv, FileInv
<1>12. Absorbed' /\ Emptied'
  BY <1>1, <1>2, <1>6 DEF PInv, OrderInv, Absorbed, Emptied, Stored
<1>13. ShownInOrder(b)'
  BY <1>1 DEF PInv, OrderInv, ShownInOrder, Shows, Shown, Acked, Mine, Earlier
<1>14. ReadInOrder(b)' /\ TodoLogged(b)'
  BY <1>1, <1>2 DEF ReadInOrder, TodoLogged
<1>15. DoomedInOrder(b)'
  <2>1. \A g \in Flushers : Range(Doomed(b, g)') \subseteq Range(Doomed(b, g))
    BY <1>4, <1>6, <1>7
  <2>2. Acked' = Acked /\ Mine(b)' = Mine(b) /\ (\A z : Earlier(b, z)' = Earlier(b, z)) /\ Stored' = Stored
    BY <1>1 DEF Acked, Mine, Earlier, Stored
  <2> QED
    BY <1>1, <1>9, <2>1, <2>2 DEF PInv, OrderInv, DoomedInOrder
<1> QED
  BY <1>9, <1>10, <1>11, <1>12, <1>13, <1>14, <1>15 DEF PInv, OrderInv

\* A file of another partition.
LEMMA RemoveWalFileElsewhere ==
  ASSUME NEW b \in Parts, IInv, PInv(b), NEW f \in Flushers, NEW p \in Parts, p # b, RemoveWalFile(f, p)
  PROVE  PInv(b)'
<1>1. /\ disk' = [disk EXCEPT ![p] = Without(@, Head(fl[f].wal.names[p]))]
      /\ fl' = [fl EXCEPT ![f].wal.names[p] = Tail(@)]
      /\ UNCHANGED <<pc, prec, part, stale, phase, ticker, active, snap, files, fileSeq, names, rnames, replay>>
  BY DEF RemoveWalFile, tblVars
<1>2. Log(b)' = Log(b)
  BY <1>1 DEF Log, IInv, TypeOK
<1>3. \A g \in Flushers : Doomed(b, g)' = Doomed(b, g) /\ fl'[g].at = fl[g].at
  <2>1. fl \in [Flushers -> FlRec]
    BY DEF IInv, TypeOK, FlRec, FlAts, Lists
  <2> QED
    BY <1>1, <2>1 DEF FlRec, Lists, Doomed
<1> QED
  BY <1>1, <1>2, <1>3, OtherPart

\* OpenAndEnable fails: the files and what was read of them stay as they are.
LEMMA OpenFailsOrder ==
  ASSUME NEW b \in Parts, IInv, PInv(b), phase = "opening", phase' = "failed", replay' = NoReplay,
         UNCHANGED <<pc, prec, part, stale, ticker, tblVars, walVars, fl, rnames>>
  PROVE  PInv(b)'
<1>1. UNCHANGED <<active, snap, files, disk, fileSeq, names>> /\ replay'.at = "idle"
  BY NoReplayType DEF tblVars, walVars
<1>2. ticker = FALSE
  BY NoLogFiles DEF OpenPhases, LogPhases
<1>3. Acked' = Acked /\ Mine(b)' = Mine(b) /\ (\A z : Earlier(b, z)' = Earlier(b, z)) /\ Log(b)' = Log(b) /\ Stored' = Stored /\ Shown' = Shown /\ ~Shows' /\ \A u : Logged(b, u)' <=> Logged(b, u)
  BY <1>1, <1>2 DEF Acked, Mine, Earlier, Log, Stored, Shown, Logged, Shows
<1>4. OwnInv(b)'
  BY <1>1 DEF PInv, OwnInv, Doomed
<1>5. FileInv(b)'
  BY <1>1, <1>2, <1>3 DEF PInv, FileInv, Doomed
<1>6. RecordInv(b)'
  BY <1>1, RecordSame DEF PInv
<1>7. Absorbed' /\ Settled(b)' /\ ShownInOrder(b)'
  BY <1>1, <1>3 DEF PInv, OrderInv, Absorbed, Settled, ShownInOrder
<1>8. ReadInOrder(b)' /\ TodoLogged(b)' /\ Emptied'
  BY <1>1 DEF ReadInOrder, TodoLogged, Emptied
<1>9. DoomedInOrder(b)'
  BY <1>1, <1>3 DEF PInv, OrderInv, DoomedInOrder, Doomed
<1> QED
  BY <1>4, <1>5, <1>6, <1>7, <1>8, <1>9 DEF PInv, OrderInv

LEMMA RemoveReplayedOrder ==
  ASSUME NEW b \in Parts, IInv, PInv(b), NEW p \in Parts, RemoveReplayed(p) PROVE PInv(b)'
<1> DEFINE r == replay.rm.names[b]
           n == Head(r)
<1>1. /\ replay.at = "remove" /\ replay.rm.names[p] # <<>>
      /\ UNCHANGED <<pc, prec, part, stale, ticker, active, snap, files, fileSeq, names, writeReq, fl, rnames>>
  BY DEF RemoveReplayed, IsFirst, tblVars
<1>2. phase = "opening" /\ ticker = FALSE /\ \A g \in Flushers : Doomed(b, g) = <<>>
  <2>1. phase = "opening"
    BY <1>1 DEF IInv, CtlInv
  <2> QED
    BY <2>1, NoLogFiles DEF OpenPhases, LogPhases, NoneLeft, Doomed
<1>3. CASE ~OnDisk(p, Head(replay.rm.names[p]))
  <2>1. replay' = NoReplay /\ phase' = "failed" /\ disk' = disk
    BY <1>3 DEF RemoveReplayed
  <2> QED
    BY <1>1, <1>2, <2>1, OpenFailsOrder DEF tblVars, walVars
<1>4. CASE OnDisk(p, Head(replay.rm.names[p])) /\ p = b
  <2>1. /\ disk' = [disk EXCEPT ![b] = Without(@, n)]
        /\ replay' = [replay EXCEPT !.rm.names[b] = Tail(@)]
        /\ phase' = phase /\ r # <<>>
    BY <1>1, <1>4 DEF RemoveReplayed
  <2>2. /\ DOMAIN Log(b) \subseteq Nat /\ r \in Seq(Nat) /\ InTurn(DOMAIN Log(b), r) /\ DOMAIN Log(b) \subseteq Range(r)
    BY <1>1, One DEF IInv, PInv, FileInv
  <2>3. /\ n \in DOMAIN Log(b) => \A m \in DOMAIN Log(b) : n <= m
        /\ InTurn(DOMAIN Log(b) \ {n}, Tail(r))
        /\ Range(r) = {n} \cup Range(Tail(r))
    <3> HIDE DEF r
    <3> QED
      BY <2>1, <2>2, InTurnHead
  <2>4. n \in Nat
    BY <2>1, <2>2
  <2>5. replay'.at = "remove" /\ replay'.rm.names[b] = Tail(r)
    <3>1. replay \in ReplayRec
      BY ReplayType DEF IInv
    <3> QED
      BY <1>1, <2>1, <3>1 DEF ReplayRec, Lists
  <2> HIDE DEF n, r
  <2>6. Stored = files /\ Shown = files
    <3>1. active.rows = <<>> /\ snap.rows = <<>>
      BY <1>1 DEF PInv, OrderInv, Emptied
    <3>2. files \in Seq(Writes) /\ \A s \in Seq(Writes) : s \o <<>> = s
      BY RowTypes DEF IInv
    <3> QED
      BY <3>1, <3>2 DEF Stored, Shown
  <2>7. ASSUME n \in DOMAIN Log(b), NEW w \in Range(Log(b)[n]), NEW v \in Earlier(b, w), w \in Mine(b)
        PROVE  Hides(files, w, v) /\ Hides(Stored, w, v) /\ Hides(Shown, w, v)
    <3>1. Shows /\ w \in Writes /\ pc[w] = "acked"
      BY <1>1, <2>7 DEF Shows, Acked, Mine, Earlier
    <3> QED
      BY <2>6, <2>7, <3>1 DEF PInv, OrderInv, ShownInOrder
  <2>8. /\ RecordInv(b)' /\ Settled(b)'
        /\ DOMAIN Log(b)' = DOMAIN Log(b) \ {n}
        /\ \A m \in DOMAIN Log(b)' : Log(b)'[m] = Log(b)[m]
    BY <1>1, <2>1, <2>3, <2>4, <2>7, LogShrinks DEF tblVars
  <2>9. \A g \in Flushers : Doomed(b, g)' = <<>>
    BY <1>1, <1>2 DEF Doomed
  <2>10. OwnInv(b)'
    BY <1>1, <1>2, <2>1, <2>9 DEF PInv, OwnInv
  <2>11. FileInv(b)'
    <3>1. \A g \in Flushers : InTurn(DOMAIN Log(b)', Doomed(b, g)')
      BY <2>9 DEF InTurn
    <3>2. InTurn(DOMAIN Log(b)', rnames[b])
      BY <1>2, <2>8, InTurnLess DEF PInv, FileInv
    <3>3. InTurn(DOMAIN Log(b)', Tail(r)) /\ DOMAIN Log(b)' \subseteq Range(Tail(r))
      BY <2>2, <2>3, <2>8
    <3> QED
      BY <1>1, <1>2, <2>1, <2>5, <3>1, <3>2, <3>3 DEF PInv, FileInv
  <2>12. Absorbed' /\ Emptied'
    BY <1>1, <2>5 DEF PInv, OrderInv, Absorbed, Emptied, Stored
  <2>13. ShownInOrder(b)'
    BY <1>1, <2>5 DEF PInv, OrderInv, ShownInOrder, Shows, Shown, Acked, Mine, Earlier
  <2>14. ReadInOrder(b)' /\ TodoLogged(b)'
    BY <2>5 DEF ReadInOrder, TodoLogged
  <2>15. DoomedInOrder(b)'
    BY <2>9, RangeEmpty DEF DoomedInOrder
  <2> QED
    BY <2>8, <2>10, <2>11, <2>12, <2>13, <2>14, <2>15 DEF PInv, OrderInv
<1>5. CASE OnDisk(p, Head(replay.rm.names[p])) /\ p # b
  <2>1. /\ disk' = [disk EXCEPT ![p] = Without(@, Head(replay.rm.names[p]))]
        /\ replay' = [replay EXCEPT !.rm.names[p] = Tail(@)]
        /\ phase' = phase
    BY <1>5 DEF RemoveReplayed
  <2>2. Log(b)' = Log(b)
    BY <1>5, <2>1 DEF Log, IInv, TypeOK
  <2>3. /\ replay'.at = replay.at /\ replay'.errs = replay.errs
        /\ replay'.todo = replay.todo /\ replay'.rm.names[b] = replay.rm.names[b]
    <3>1. replay \in ReplayRec
      BY ReplayType DEF IInv
    <3> QED
      BY <1>5, <2>1, <3>1 DEF ReplayRec, Lists
  <2>4. \A g \in Flushers : Doomed(b, g)' = Doomed(b, g) /\ fl'[g].at = fl[g].at
    BY <1>1 DEF Doomed
  <2> QED
    BY <1>1, <2>1, <2>2, <2>3, <2>4, OtherPart
<1> QED
  BY <1>3, <1>4, <1>5

----------------------------------------------------------------------------
(***************************************************************************)
(* One lemma per action: the record of a write.                            *)
(***************************************************************************)

\* gs are the files fs with the record w at the end of file k.
AtEnd(fs, gs, k, w) ==
  /\ DOMAIN gs = DOMAIN fs \cup {k}
  /\ \A m \in DOMAIN fs : m # k => gs[m] = fs[m]
  /\ \A m \in DOMAIN fs : \A i \in DOMAIN fs[m] : i \in DOMAIN gs[m] /\ gs[m][i] = fs[m][i]
  /\ \E e \in DOMAIN gs[k] :
       /\ gs[k][e] = w
       /\ \A m \in DOMAIN gs : \A i \in DOMAIN gs[m] :
            \/ m = k /\ i = e
            \/ /\ m \in DOMAIN fs /\ i \in DOMAIN fs[m] /\ fs[m][i] = gs[m][i]
               /\ m = k => i < e

LEMMA RecordAtEnd ==
  ASSUME NEW fs, NEW k, NEW w \in Writes, fs \in [DOMAIN fs -> Seq(Writes) \ {<<>>}]
  PROVE  AtEnd(fs, With(fs, k, w), k, w)
<1> DEFINE gs == With(fs, k, w)
<1>1. DOMAIN gs = DOMAIN fs \cup {k} /\ \A m \in DOMAIN fs : m # k => gs[m] = fs[m]
  BY DEF With
<1>2. CASE k \in DOMAIN fs
  <2>1. gs[k] = Append(fs[k], w) /\ fs[k] \in Seq(Writes)
    BY <1>2 DEF With
  <2> DEFINE e == Len(fs[k]) + 1
  <2>2. /\ Len(fs[k]) \in Nat /\ DOMAIN fs[k] = 1..Len(fs[k]) /\ DOMAIN gs[k] = 1..e /\ gs[k][e] = w
        /\ \A i \in 1..Len(fs[k]) : gs[k][i] = fs[k][i]
        /\ \A i \in 1..e : i = e \/ (i \in 1..Len(fs[k]) /\ i < e)
        /\ e \in 1..e /\ \A i \in 1..Len(fs[k]) : i \in 1..e
    BY <2>1
  <2> HIDE DEF e, gs
  <2> QED
    BY <1>1, <1>2, <2>2 DEF AtEnd, gs
<1>3. CASE k \notin DOMAIN fs
  <2>1. gs[k] = <<w>>
    BY <1>3 DEF With
  <2>2. DOMAIN gs[k] = {1} /\ gs[k][1] = w
    BY <2>1
  <2> HIDE DEF gs
  <2> QED
    BY <1>1, <1>3, <2>2 DEF AtEnd, gs
<1> QED
  BY <1>2, <1>3

\* The file that takes it is the newest, and no flush is about to remove it.
LEMMA NewestFile ==
  ASSUME NEW b \in Parts, IInv, PInv(b), NEW w \in Writes, WriteWal(w), writeReq = b
  PROVE  \E k \in Nat :
           /\ disk' = [disk EXCEPT ![b] = With(@, k, w)]
           /\ \A m \in DOMAIN Log(b) : m <= k
           /\ \A f \in Flushers : k \notin Range(Doomed(b, f))
           /\ \/ names[b] # <<>> /\ k = Last(names[b]) /\ k \in Range(names[b]) /\ UNCHANGED <<names, fileSeq>>
              \/ k = fileSeq[b] + 1 /\ names'[b] = Append(names[b], k) /\ fileSeq'[b] = k
<1>1. phase \in {"open", "closing"}
  BY DEF IInv, WriteInv, WriteWal
<1>2. /\ names \in [Parts -> Seq(Nat)] /\ fileSeq \in [Parts -> Nat] /\ names[b] \in Seq(Nat) /\ fileSeq[b] \in Nat
      /\ DOMAIN Log(b) \subseteq Nat
  BY One DEF IInv, TypeOK
<1>3. \A m \in DOMAIN Log(b) : m <= fileSeq[b]
  BY <1>1 DEF IInv, LogInv, Log
<1>4. \A f \in Flushers : Range(Doomed(b, f)) \subseteq Nat
                          /\ \A m \in Range(Doomed(b, f)) : m <= fileSeq[b] /\ m \notin Range(names[b])
  <2>1. \A f \in Flushers : Range(Doomed(b, f)) \subseteq Nat
    BY One, RangeType DEF IInv
  <2> QED
    BY <2>1 DEF IInv, LogInv, Doomed
<1>5. CASE NeedNewFile(b)
  <2> DEFINE k == fileSeq[b] + 1
  <2>1. /\ fileSeq' = [fileSeq EXCEPT ![b] = k]
        /\ names' = [names EXCEPT ![b] = Append(@, k)]
        /\ disk' = [disk EXCEPT ![b] = With(@, k, w)]
    BY <1>5 DEF WriteWal
  <2>2. names'[b] = Append(names[b], k) /\ fileSeq'[b] = k
    BY <1>2, <2>1
  <2>3. k \in Nat /\ (\A m \in DOMAIN Log(b) : m <= k) /\ \A f \in Flushers : k \notin Range(Doomed(b, f))
    BY <1>2, <1>3, <1>4
  <2> QED
    BY <2>1, <2>2, <2>3
<1>6. CASE ~NeedNewFile(b)
  <2> DEFINE k == Last(names[b])
  <2>1. disk' = [disk EXCEPT ![b] = With(@, k, w)] /\ fileSeq' = fileSeq /\ names' = names /\ names[b] # <<>>
    BY <1>6 DEF WriteWal, NeedNewFile
  <2>2. k = fileSeq[b]
    BY <2>1 DEF PInv, FileInv
  <2>3. k \in Range(names[b])
    <3>1. Len(names[b]) \in DOMAIN names[b] /\ Last(names[b]) = names[b][Len(names[b])]
      BY <1>2, <2>1 DEF Last
    <3> QED
      BY <3>1, Zenon DEF Range
  <2> HIDE DEF k
  <2>4. k \in Nat /\ (\A m \in DOMAIN Log(b) : m <= k) /\ \A f \in Flushers : k \notin Range(Doomed(b, f))
    BY <1>2, <1>3, <1>4, <2>2, <2>3
  <2> QED
    BY <2>1, <2>3, <2>4 DEF k
<1> QED
  BY <1>5, <1>6

LEMMA WriteWalOrder ==
  ASSUME NEW b \in Parts, IInv, PInv(b), NEW w \in Writes, WriteWal(w), writeReq = b PROVE PInv(b)'
<1>1. PICK k \in Nat :
           /\ disk' = [disk EXCEPT ![b] = With(@, k, w)]
           /\ \A m \in DOMAIN Log(b) : m <= k
           /\ \A f \in Flushers : k \notin Range(Doomed(b, f))
           /\ \/ names[b] # <<>> /\ k = Last(names[b]) /\ k \in Range(names[b]) /\ UNCHANGED <<names, fileSeq>>
              \/ k = fileSeq[b] + 1 /\ names'[b] = Append(names[b], k) /\ fileSeq'[b] = k
  BY NewestFile
<1>2. /\ pc[w] = "wal" /\ \E answer \in {"acked", "failed"} : pc' = [pc EXCEPT ![w] = answer]
      /\ part' = [part EXCEPT ![w] = b]
      /\ UNCHANGED <<prec, stale, phase, ticker, active, snap, files, fl, rnames, replay>>
  BY DEF WriteWal, tblVars
<1>3. phase \in {"open", "closing"} /\ w \notin stale /\ replay.at = "idle" /\ ticker
  BY <1>2 DEF IInv, WriteInv, CtlInv, PInv, OwnInv
<1>4. /\ \A u \in Writes : u # w => pc'[u] = pc[u]
      /\ pc'[w] \in {"acked", "failed"} /\ w \notin Acked /\ Acked \subseteq Acked'
      /\ part'[w] = b /\ \A u \in Writes : u # w => part'[u] = part[u]
  BY <1>2 DEF Acked, IInv, TypeOK
<1>5. \A u \in Writes : prec[u] \subseteq Acked /\ Acked \subseteq Writes
  BY DEF PInv, RecordInv, Acked
<1>6. /\ \A u \in Writes : Earlier(b, u)' = Earlier(b, u) /\ \A v \in Earlier(b, u) : v # w
      /\ \A u \in Mine(b)' : u \in Writes /\ (u # w => u \in Mine(b))
  <2>1. ASSUME NEW u \in Writes PROVE \A v \in prec[u] : v # w /\ part'[v] = part[v]
    BY <1>4, <1>5
  <2>2. \A u \in Writes : Earlier(b, u)' = Earlier(b, u) /\ \A v \in Earlier(b, u) : v # w
    BY <1>2, <2>1 DEF Earlier
  <2>3. \A u \in Mine(b)' : u \in Writes /\ (u # w => u \in Mine(b))
    BY <1>4 DEF Mine, Acked
  <2> QED
    BY <2>2, <2>3
<1>7. /\ DOMAIN Log(b) \subseteq Nat /\ names[b] \in Seq(Nat) /\ fileSeq[b] \in Nat
      /\ \A n \in DOMAIN Log(b) : Range(Log(b)[n]) \subseteq Writes
      /\ \A f \in Flushers : Doomed(b, f) \in Seq(Nat)
  BY One, RangeType DEF IInv
<1>8. Log(b) \in [DOMAIN Log(b) -> Seq(Writes) \ {<<>>}] /\ Log(b)' = With(Log(b), k, w)
  <2>1. DOMAIN disk = Parts
    BY DEF IInv, TypeOK
  <2>2. disk[b] \in [DOMAIN disk[b] -> Seq(Writes) \ {<<>>}]
    BY <2>1 DEF IInv, TypeOK
  <2> QED
    BY <1>1, <2>1, <2>2 DEF Log
<1>9. /\ AtEnd(Log(b), Log(b)', k, w)
      /\ DOMAIN Log(b)' = DOMAIN Log(b) \cup {k}
      /\ \A m \in DOMAIN Log(b) : m # k => Log(b)'[m] = Log(b)[m]
      /\ \A m \in DOMAIN Log(b) : \A i \in DOMAIN Log(b)[m] : i \in DOMAIN Log(b)'[m] /\ Log(b)'[m][i] = Log(b)[m][i]
  <2>1. AtEnd(Log(b), Log(b)', k, w)
    BY <1>8, RecordAtEnd, Zenon
  <2> QED
    BY <2>1 DEF AtEnd
<1>10. PICK e \in DOMAIN Log(b)'[k] :
              /\ Log(b)'[k][e] = w
              /\ \A m \in DOMAIN Log(b)' : \A i \in DOMAIN Log(b)'[m] :
                   \/ m = k /\ i = e
                   \/ /\ m \in DOMAIN Log(b) /\ i \in DOMAIN Log(b)[m] /\ Log(b)[m][i] = Log(b)'[m][i]
                      /\ m = k => i < e
  BY <1>9, Zenon DEF AtEnd
<1>11. Logged(b, w)' /\ \A u : Logged(b, u) => Logged(b, u)'
  <2>1. \A u : (\E m \in DOMAIN Log(b) : u \in Range(Log(b)[m])) => \E m \in DOMAIN Log(b)' : u \in Range(Log(b)'[m])
    BY <1>9 DEF Range
  <2>2. k \in DOMAIN Log(b)' /\ w \in Range(Log(b)'[k])
    BY <1>9, <1>10 DEF Range
  <2>3. \A u : (\E m \in DOMAIN Log(b)' : u \in Range(Log(b)'[m])) => Logged(b, u)'
    BY DEF Logged
  <2>4. \A u : Logged(b, u) => \E m \in DOMAIN Log(b) : u \in Range(Log(b)[m])
    BY DEF Logged
  <2> QED
    BY <2>1, <2>2, <2>3, <2>4
<1>12. Stored' = Stored /\ Shown' = Shown /\ (Shows' <=> Shows) /\ \A f \in Flushers : Doomed(b, f)' = Doomed(b, f)
  BY <1>2 DEF Stored, Shown, Shows, Doomed
<1>13. OwnInv(b)'
  BY <1>2, <1>3 DEF PInv, OwnInv
<1>14. FileInv(b)'
  <2>1. /\ names'[b] # <<>> => Last(names'[b]) = fileSeq'[b]
        /\ \A i, j \in DOMAIN names'[b] : i < j => names'[b][i] < names'[b][j]
        /\ Range(names'[b]) = Range(names[b]) \cup {k}
    <3>1. CASE names' = names /\ fileSeq' = fileSeq /\ k \in Range(names[b])
      BY <3>1 DEF PInv, FileInv
    <3>2. CASE k = fileSeq[b] + 1 /\ names'[b] = Append(names[b], k) /\ fileSeq'[b] = k
      <4> DEFINE s == names[b]
      <4>1. /\ Len(s) \in Nat /\ DOMAIN s = 1..Len(s) /\ DOMAIN Append(s, k) = 1..(Len(s) + 1)
            /\ Len(Append(s, k)) = Len(s) + 1
            /\ \A i \in 1..Len(s) : Append(s, k)[i] = s[i]
            /\ Append(s, k)[Len(s) + 1] = k
            /\ \A i \in 1..(Len(s) + 1) : i \in 1..Len(s) \/ i = Len(s) + 1
        BY <1>7
      <4>2. Last(Append(s, k)) = k
        BY <4>1, Zenon DEF Last
      <4>3. \A i \in 1..Len(s) : s[i] \in Nat /\ s[i] < k
        <5>1. \A i \in 1..Len(s) : s[i] \in Range(s)
          BY <4>1, Zenon DEF Range
        <5>2. \A n \in Range(s) : n \in Nat /\ n <= fileSeq[b]
          BY <1>7, PartsFacts, RangeType DEF IInv, LogInv
        <5>3. PICK c \in Nat : c = fileSeq[b]
          BY <1>7
        <5>4. \A n \in Range(s) : n \in Nat /\ n < k
          BY <3>2, <5>2, <5>3
        <5> QED
          BY <5>1, <5>4
      <4>4. \A i, j \in 1..Len(s) : i < j => s[i] < s[j]
        BY <4>1 DEF PInv, FileInv
      <4>5. Range(Append(s, k)) = Range(s) \cup {k}
        BY <1>7, RangeAppend
      <4> HIDE DEF s
      <4>6. ASSUME NEW i \in 1..(Len(s) + 1), NEW j \in 1..(Len(s) + 1), i < j PROVE Append(s, k)[i] < Append(s, k)[j]
        <5>1. i \in 1..Len(s)
          BY <4>1, <4>6
        <5> QED
          BY <4>1, <4>3, <4>4, <4>6, <5>1
      <4> QED
        BY <3>2, <4>1, <4>2, <4>5, <4>6 DEF s
    <3> QED
      BY <1>1, <3>1, <3>2
  <2>2. ASSUME NEW f \in Flushers PROVE InTurn(DOMAIN Log(b)', Doomed(b, f))
    <3> DEFINE r == Doomed(b, f)
    <3> SUFFICES ASSUME NEW i \in DOMAIN r, NEW n \in DOMAIN Log(b)', r[i] \in DOMAIN Log(b)', n < r[i]
                 PROVE  \E j \in DOMAIN r : j < i /\ r[j] = n
      BY DEF InTurn
    <3>1. r[i] # k
      BY <1>1 DEF Range
    <3>2. r[i] \in DOMAIN Log(b)
      BY <1>9, <3>1
    <3>3. n \in DOMAIN Log(b)
      BY <1>1, <1>7, <1>9, <3>2
    <3> QED
      BY <3>2, <3>3 DEF PInv, FileInv, InTurn
  <2>3. ASSUME phase \in LogPhases, NEW n \in DOMAIN Log(b)'
        PROVE  n \in Range(names'[b]) \/ \E f \in Flushers : n \in Range(Doomed(b, f))
    BY <1>3, <1>9, <2>1, <2>3 DEF PInv, FileInv
  <2> QED
    BY <1>2, <1>3, <1>12, <2>1, <2>2, <2>3 DEF FileInv
<1>15. RecordInv(b)'
  <2>1. \A u \in Writes : prec'[u] \subseteq Acked'
    BY <1>2, <1>4, <1>5
  <2>2. ASSUME NEW n \in DOMAIN Log(b)', NEW u \in Range(Log(b)'[n]) PROVE pc'[u] \in {"acked", "failed"} /\ part'[u] = b
    <3>1. PICK i \in DOMAIN Log(b)'[n] : Log(b)'[n][i] = u
      BY <2>2 DEF Range
    <3>2. CASE u = w
      BY <1>4, <3>2
    <3>3. CASE u # w
      <4>1. n \in DOMAIN Log(b) /\ u \in Range(Log(b)[n])
        BY <1>10, <3>1, <3>3 DEF Range
      <4>2. u \in Writes /\ pc[u] \in {"acked", "failed"} /\ part[u] = b
        BY <1>7, <4>1 DEF PInv, RecordInv
      <4> QED
        BY <1>4, <3>3, <4>2
    <3> QED
      BY <3>2, <3>3
  <2>3. ASSUME NEW u \in Mine(b)', NEW v \in Earlier(b, u), NEW m \in DOMAIN Log(b)', NEW i \in DOMAIN Log(b)'[m], Log(b)'[m][i] = v
        PROVE  \E n \in DOMAIN Log(b)' : \E j \in DOMAIN Log(b)'[n] : Log(b)'[n][j] = u /\ (m < n \/ (m = n /\ i < j))
    <3>1. v # w /\ u \in Writes
      BY <1>6
    <3>2. m \in DOMAIN Log(b) /\ i \in DOMAIN Log(b)[m] /\ Log(b)[m][i] = v /\ (m = k => i < e)
      BY <1>10, <2>3, <3>1
    <3>3. CASE u = w
      <4>1. m < k \/ m = k
        BY <1>1, <1>7, <3>2
      <4> QED
        BY <1>9, <1>10, <3>2, <3>3, <4>1
    <3>4. CASE u # w
      <4>1. u \in Mine(b)
        BY <1>6, <3>4
      <4>2. PICK n \in DOMAIN Log(b) : \E j \in DOMAIN Log(b)[n] : Log(b)[n][j] = u /\ (m < n \/ (m = n /\ i < j))
        BY <3>2, <4>1 DEF PInv, RecordInv
      <4> QED
        BY <1>9, <4>2
    <3> QED
      BY <3>3, <3>4
  <2> QED
    BY <1>6, <2>1, <2>2, <2>3 DEF RecordInv
<1>16. Absorbed' /\ ReadInOrder(b)' /\ TodoLogged(b)' /\ Emptied'
  BY <1>2, <1>3, <1>12 DEF PInv, OrderInv, Absorbed, ReadInOrder, TodoLogged, Emptied
<1>17. Settled(b)'
  BY <1>2, <1>6, <1>11, <1>12 DEF PInv, OrderInv, Settled
<1>18. ShownInOrder(b)'
  BY <1>2, <1>4, <1>6, <1>12 DEF PInv, OrderInv, ShownInOrder
<1>19. DoomedInOrder(b)'
  <2> SUFFICES ASSUME NEW f \in Flushers, NEW n \in Range(Doomed(b, f)), n \in DOMAIN Log(b)',
                      NEW u \in Range(Log(b)'[n]), NEW v \in Earlier(b, u), u \in Mine(b)'
               PROVE  Hides(Stored, u, v)
    BY <1>6, <1>12 DEF DoomedInOrder
  <2>1. n # k /\ n \in DOMAIN Log(b) /\ Log(b)'[n] = Log(b)[n]
    BY <1>1, <1>9
  <2>2. pc[u] \in {"acked", "failed"}
    BY <2>1 DEF PInv, RecordInv
  <2>3. u \in Mine(b)
    BY <1>2, <1>6, <2>2
  <2> QED
    BY <2>1, <2>3 DEF PInv, OrderInv, DoomedInOrder
<1> QED
  BY <1>13, <1>14, <1>15, <1>16, <1>17, <1>18, <1>19 DEF PInv, OrderInv

\* The record of another partition.
LEMMA WriteWalElsewhere ==
  ASSUME NEW b \in Parts, IInv, PInv(b), NEW w \in Writes, WriteWal(w), writeReq # b PROVE PInv(b)'
<1>1. /\ pc[w] = "wal" /\ \E answer \in {"acked", "failed"} : pc' = [pc EXCEPT ![w] = answer]
      /\ part' = [part EXCEPT ![w] = writeReq]
      /\ UNCHANGED <<prec, stale, phase, ticker, active, snap, files, fl, rnames, replay>>
  BY DEF WriteWal, tblVars
<1>2. Log(b)' = Log(b) /\ names'[b] = names[b] /\ fileSeq'[b] = fileSeq[b]
  BY DEF WriteWal, Log, IInv, TypeOK
<1>3. /\ \A u \in Writes : u # w => pc'[u] = pc[u] /\ part'[u] = part[u]
      /\ pc'[w] \in {"acked", "failed"} /\ part'[w] # b /\ w \notin Acked /\ Acked \subseteq Acked'
  BY <1>1 DEF Acked, IInv, TypeOK
<1>4. \A u \in Writes : prec[u] \subseteq Acked /\ Acked \subseteq Writes
  BY DEF PInv, RecordInv, Acked
<1>5. Mine(b)' = Mine(b) /\ \A u \in Mine(b) : u \in Writes
  BY <1>3 DEF Mine, Acked
<1>6. \A u \in Writes : Earlier(b, u)' = Earlier(b, u)
  <2>1. ASSUME NEW u \in Writes PROVE \A v \in prec[u] : part'[v] = part[v]
    BY <1>3, <1>4
  <2> QED
    BY <1>1, <2>1 DEF Earlier
<1>7. /\ Stored' = Stored /\ Shown' = Shown /\ (Shows' <=> Shows) /\ \A f \in Flushers : Doomed(b, f)' = Doomed(b, f)
      /\ \A u : Logged(b, u)' <=> Logged(b, u)
  BY <1>1, <1>2 DEF Stored, Shown, Shows, Doomed, Logged
<1>8. OwnInv(b)'
  BY <1>1, <1>2, <1>3, <1>7 DEF PInv, OwnInv
<1>9. FileInv(b)'
  BY <1>1, <1>2, <1>7 DEF PInv, FileInv, InTurn
<1>10. RecordInv(b)'
  <2>1. \A u \in Writes : prec'[u] \subseteq Acked'
    BY <1>1, <1>3, <1>4
  <2>2. ASSUME NEW n \in DOMAIN Log(b), NEW u \in Range(Log(b)[n]) PROVE pc'[u] \in {"acked", "failed"} /\ part'[u] = b
    <3>1. pc[u] \in {"acked", "failed"} /\ part[u] = b
      BY DEF PInv, RecordInv
    <3>2. u \in Writes
      BY One, RangeType DEF IInv
    <3> QED
      BY <1>1, <1>3, <3>1, <3>2
  <2> QED
    BY <1>2, <1>5, <1>6, <2>1, <2>2 DEF PInv, RecordInv
<1>11. Absorbed' /\ Emptied'
  BY <1>1, <1>7 DEF PInv, OrderInv, Absorbed, Emptied
<1>12. Settled(b)'
  BY <1>1, <1>5, <1>6, <1>7 DEF PInv, OrderInv, Settled
<1>13. ShownInOrder(b)'
  <2>1. \A u \in Writes : pc'[u] = "wal" => pc[u] = "wal"
    BY <1>3
  <2> QED
    BY <1>5, <1>6, <1>7, <2>1 DEF PInv, OrderInv, ShownInOrder
<1>14. ReadInOrder(b)' /\ TodoLogged(b)'
  BY <1>1, <1>5, <1>6, <1>7 DEF PInv, OrderInv, ReadInOrder, TodoLogged
<1>15. DoomedInOrder(b)'
  BY <1>2, <1>5, <1>6, <1>7 DEF PInv, OrderInv, DoomedInOrder
<1> QED
  BY <1>8, <1>9, <1>10, <1>11, <1>12, <1>13, <1>14, <1>15 DEF PInv, OrderInv

----------------------------------------------------------------------------
(***************************************************************************)
(* One lemma per action: Close, and what comes after it.                   *)
(***************************************************************************)
LEMMA PhaseMoves ==
  ASSUME NEW b \in Parts, PInv(b), replay.at = "idle", UNCHANGED <<pc, prec, part, tblVars, disk, fl, replay>>,
         Shows' => Shows
  PROVE  RecordInv(b)' /\ OrderInv(b)'
<1>1. UNCHANGED <<active, snap, files>>
  BY DEF tblVars
<1>2. Acked' = Acked /\ Mine(b)' = Mine(b) /\ (\A z : Earlier(b, z)' = Earlier(b, z)) /\ Log(b)' = Log(b) /\ Stored' = Stored /\ Shown' = Shown /\ \A u : Logged(b, u)' <=> Logged(b, u)
  BY <1>1 DEF Acked, Mine, Earlier, Log, Stored, Shown, Logged
<1>3. RecordInv(b)'
  BY RecordSame DEF PInv
<1>4. Absorbed' /\ Settled(b)' /\ ShownInOrder(b)'
  BY <1>1, <1>2 DEF PInv, OrderInv, Absorbed, Settled, ShownInOrder
<1>5. ReadInOrder(b)' /\ TodoLogged(b)' /\ Emptied'
  BY DEF ReadInOrder, TodoLogged, Emptied
<1>6. DoomedInOrder(b)'
  BY <1>2 DEF PInv, OrderInv, DoomedInOrder, Doomed
<1> QED
  BY <1>3, <1>4, <1>5, <1>6 DEF OrderInv

LEMMA BeginCloseOrder == ASSUME NEW b \in Parts, IInv, PInv(b), BeginClose \/ LockClose PROVE PInv(b)'
<1>1. /\ phase \in {"open", "failed", "closing"} /\ phase' \in {"closing", "locked"}
      /\ UNCHANGED <<pc, prec, part, stale, ticker, tblVars, active, disk, fileSeq, names, fl, rnames, replay>>
  BY DEF BeginClose, LockClose, walVars, tblVars
<1>2. replay.at = "idle" /\ (phase = "failed" => ticker = FALSE)
  BY <1>1 DEF IInv, CtlInv, TypeOK, OpenPhases, LogPhases
<1>3. Shows' => Shows
  BY <1>1 DEF Shows
<1>4. RecordInv(b)' /\ OrderInv(b)'
  BY <1>1, <1>2, <1>3, PhaseMoves
<1>5. OwnInv(b)'
  BY <1>1 DEF PInv, OwnInv, Doomed
<1>6. FileInv(b)'
  BY <1>1, <1>2 DEF PInv, FileInv, Doomed, Log, InTurn, LogPhases
<1> QED
  BY <1>4, <1>5, <1>6 DEF PInv

LEMMA CloseWalOrder == ASSUME NEW b \in Parts, IInv, PInv(b), CloseWal PROVE PInv(b)'
<1>1. /\ phase = "locked" /\ phase' = "walClosed" /\ names' = [p \in Parts |-> <<>>]
      /\ UNCHANGED <<pc, prec, part, stale, ticker, tblVars, active, disk, fileSeq, fl, rnames, replay>>
  BY DEF CloseWal, tblVars
<1>2. replay.at = "idle" /\ names'[b] = <<>> /\ DOMAIN <<>> = {}
  BY <1>1, PartsFacts DEF IInv, CtlInv
<1>3. Shows' => Shows
  BY <1>1 DEF Shows
<1>4. RecordInv(b)' /\ OrderInv(b)'
  BY <1>1, <1>2, <1>3, PhaseMoves
<1>5. OwnInv(b)'
  BY <1>1, <1>2 DEF PInv, OwnInv, Doomed
<1>6. FileInv(b)'
  BY <1>1, <1>2 DEF PInv, FileInv, Doomed, Log, InTurn, LogPhases
<1> QED
  BY <1>4, <1>5, <1>6 DEF PInv

LEMMA DropActiveOrder == ASSUME NEW b \in Parts, IInv, PInv(b), DropActive PROVE PInv(b)'
<1>1. /\ phase = "walClosed" /\ phase' = "dropped" /\ active'.rows = <<>>
      /\ UNCHANGED <<pc, prec, part, stale, ticker, snap, files, disk, fileSeq, names, fl, rnames, replay>>
  BY DEF DropActive, walVars, EmptyTbl
<1>2. replay.at = "idle" /\ replay'.at = "idle"
  BY <1>1 DEF IInv, CtlInv
<1>3. Acked' = Acked /\ Mine(b)' = Mine(b) /\ (\A z : Earlier(b, z)' = Earlier(b, z)) /\ Log(b)' = Log(b) /\ Stored' = Stored /\ Shown' = Stored /\ ~Shows' /\ \A u : Logged(b, u)' <=> Logged(b, u)
  <2>1. Stored \in Seq(Writes) /\ \A s \in Seq(Writes) : s \o <<>> = s
    BY RowTypes DEF IInv
  <2> QED
    BY <1>1, <1>2, <2>1 DEF Acked, Mine, Earlier, Log, Stored, Shown, Shows, Logged
<1>4. OwnInv(b)'
  BY <1>1 DEF PInv, OwnInv, Doomed
<1>5. FileInv(b)'
  BY <1>1, <1>2 DEF PInv, FileInv, Doomed, Log, InTurn, LogPhases
<1>6. RecordInv(b)'
  BY <1>1, RecordSame DEF PInv
<1>7. Absorbed' /\ Settled(b)' /\ ShownInOrder(b)'
  BY <1>1, <1>3 DEF PInv, OrderInv, Absorbed, Settled, ShownInOrder
<1>8. ReadInOrder(b)' /\ TodoLogged(b)' /\ Emptied'
  BY <1>2 DEF ReadInOrder, TodoLogged, Emptied
<1>9. DoomedInOrder(b)'
  BY <1>1, <1>3 DEF PInv, OrderInv, DoomedInOrder, Doomed
<1> QED
  BY <1>4, <1>5, <1>6, <1>7, <1>8, <1>9 DEF PInv, OrderInv

LEMMA EndCloseOrder == ASSUME NEW b \in Parts, IInv, PInv(b), EndClose PROVE PInv(b)'
<1>1. /\ phase = "dropped" /\ phase' = "closed" /\ ticker' = FALSE /\ \A f \in Flushers : ~Prepared(f)
      /\ UNCHANGED <<pc, prec, part, stale, tblVars, active, disk, fileSeq, names, fl, rnames, replay>>
  BY DEF EndClose, walVars, tblVars
<1>2. replay.at = "idle"
  BY <1>1, PartsFacts DEF IInv, CtlInv
<1>3. names[b] = <<>> /\ \A f \in Flushers : Doomed(b, f) = <<>>
  BY <1>1, <1>2 DEF IInv, LogInv, LogPhases, Flushing, Prepared, NoneLeft, Doomed
<1>4. ~Shows'
  BY <1>1, <1>2 DEF Shows
<1>5. RecordInv(b)' /\ OrderInv(b)'
  BY <1>1, <1>2, <1>4, PhaseMoves
<1>6. OwnInv(b)'
  BY <1>1, <1>3 DEF PInv, OwnInv, Doomed
<1>7. FileInv(b)'
  BY <1>1, <1>2 DEF PInv, FileInv, Doomed, Log, InTurn
<1> QED
  BY <1>5, <1>6, <1>7 DEF PInv

LEMMA NewShardOrder == ASSUME NEW b \in Parts, IInv, PInv(b), NewShard PROVE PInv(b)'
<1>1. /\ phase = "closed" /\ phase' = "down"
      /\ stale' = stale \cup {w \in Writes : pc[w] \in {"enter", "alloc", "index"}}
      /\ rnames' = [p \in Parts |-> <<>>]
      /\ UNCHANGED <<pc, prec, part, ticker, tblVars, active, disk, names, fl, replay>>
  BY DEF NewShard, tblVars
<1>2. replay.at = "idle" /\ rnames'[b] = <<>> /\ DOMAIN <<>> = {}
  BY <1>1, PartsFacts DEF IInv, CtlInv
<1>3. names[b] = <<>> /\ ticker = FALSE
  BY <1>1, <1>2, NoLogFiles DEF OpenPhases, LogPhases
<1>4. ~Shows'
  BY <1>1, <1>2, <1>3 DEF Shows
<1>5. RecordInv(b)' /\ OrderInv(b)'
  BY <1>1, <1>2, <1>4, PhaseMoves
<1>6. OwnInv(b)'
  <2>1. \A w \in Writes : pc[w] \in {"enter", "alloc", "index", "table", "wal"} => w \in stale'
    BY <1>1 DEF IInv, WriteInv
  <2> QED
    BY <1>1, <1>2, <1>3, <2>1 DEF PInv, OwnInv, Doomed
<1>7. FileInv(b)'
  BY <1>1, <1>2, <1>3 DEF PInv, FileInv, Doomed, Log, InTurn
<1> QED
  BY <1>5, <1>6, <1>7 DEF PInv

LEMMA CrashOrder == ASSUME NEW b \in Parts, IInv, PInv(b), Crash PROVE PInv(b)'
<1>1. /\ pc' = [w \in Writes |-> IF pc[w] \in {"new", "acked", "failed"} THEN pc[w] ELSE "failed"]
      /\ phase' = "down" /\ ticker' = FALSE /\ active'.rows = <<>> /\ snap'.rows = <<>>
      /\ names' = [p \in Parts |-> <<>>] /\ rnames' = [p \in Parts |-> <<>>]
      /\ fl' = [f \in Flushers |-> NoFlush] /\ replay' = NoReplay
      /\ UNCHANGED <<prec, part, files, disk>>
  BY DEF Crash, EmptyTbl, NoSnap
<1>2. names'[b] = <<>> /\ rnames'[b] = <<>> /\ replay'.at = "idle" /\ DOMAIN <<>> = {} /\ Range(<<>>) = {}
  BY <1>1, PartsFacts, NoReplayType, RangeEmpty
<1>3. \A f \in Flushers : Doomed(b, f)' = <<>> /\ fl'[f].at = "idle"
  BY <1>1, <1>2, NoFlushType, NoListType DEF Doomed, NoneLeft
<1>4. /\ Acked' = Acked /\ Mine(b)' = Mine(b) /\ (\A z : Earlier(b, z)' = Earlier(b, z))
      /\ \A w \in Writes : pc'[w] \notin {"enter", "alloc", "index", "table", "wal"}
      /\ \A w \in Writes : pc[w] \in {"acked", "failed"} => pc'[w] = pc[w]
  BY <1>1 DEF Acked, Mine, Earlier
<1>5. Log(b)' = Log(b) /\ ~Shows' /\ \A u : Logged(b, u)' <=> Logged(b, u)
  BY <1>1, <1>2 DEF Log, Shows, Logged
<1>6. Stored' = files /\ Shown' = files
  <2>1. files \in Seq(Writes) /\ \A s \in Seq(Writes) : s \o <<>> = s
    BY RowTypes DEF IInv
  <2> QED
    BY <1>1, <2>1 DEF Stored, Shown
<1>7. OwnInv(b)'
  BY <1>1, <1>2, <1>3, <1>4 DEF OwnInv
<1>8. FileInv(b)'
  BY <1>1, <1>2, <1>3 DEF FileInv, InTurn
<1>9. RecordInv(b)'
  <2>1. \A n \in DOMAIN Log(b) : Range(Log(b)[n]) \subseteq Writes
    BY One, RangeType DEF IInv
  <2> QED
    BY <1>1, <1>4, <1>5, <2>1 DEF PInv, RecordInv
<1>10. Absorbed' /\ ShownInOrder(b)' /\ ReadInOrder(b)' /\ TodoLogged(b)' /\ Emptied'
  BY <1>2, <1>3, <1>5 DEF Absorbed, ShownInOrder, ReadInOrder, TodoLogged, Emptied
<1>11. Settled(b)'
  BY <1>1, <1>4, <1>5, <1>6 DEF PInv, OrderInv, Settled
<1>12. DoomedInOrder(b)'
  BY <1>2, <1>3 DEF DoomedInOrder
<1> QED
  BY <1>7, <1>8, <1>9, <1>10, <1>11, <1>12 DEF PInv, OrderInv

----------------------------------------------------------------------------
(***************************************************************************)
(* One lemma per action: OpenAndEnable and the replay.                     *)
(***************************************************************************)
LEMMA OpenDoneOrder == ASSUME NEW b \in Parts, IInv, PInv(b), OpenDone PROVE PInv(b)'
<1>1. /\ replay.at = "remove" /\ NoneLeft(replay.rm) /\ replay' = NoReplay /\ phase' = "open" /\ ticker' = TRUE
      /\ UNCHANGED <<pc, prec, part, stale, active, snap, files, disk, fileSeq, names, fl, rnames>>
  BY DEF OpenDone, tblVars, walVars
<1>2. phase = "opening" /\ replay'.at = "idle" /\ Range(<<>>) = {}
  BY <1>1, PartsFacts, NoReplayType, RangeEmpty DEF IInv, CtlInv
<1>3. names[b] = <<>> /\ \A f \in Flushers : Doomed(b, f) = <<>>
  BY <1>2, NoLogFiles DEF OpenPhases, LogPhases, NoneLeft, Doomed
<1>4. DOMAIN Log(b) = {}
  BY <1>1, <1>2 DEF PInv, FileInv, NoneLeft
<1>5. Acked' = Acked /\ Mine(b)' = Mine(b) /\ (\A z : Earlier(b, z)' = Earlier(b, z)) /\ Log(b)' = Log(b) /\ Stored' = Stored /\ Shown' = Shown /\ Shows /\ \A u : Logged(b, u)' <=> Logged(b, u)
  BY <1>1 DEF Acked, Mine, Earlier, Log, Stored, Shown, Shows, Logged
<1>6. OwnInv(b)'
  BY <1>1, <1>2, <1>3 DEF PInv, OwnInv, Doomed
<1>7. FileInv(b)'
  BY <1>1, <1>2, <1>3, <1>4, <1>5 DEF PInv, FileInv, Doomed
<1>8. RecordInv(b)'
  BY <1>1, RecordSame DEF PInv
<1>9. Absorbed' /\ Settled(b)' /\ ShownInOrder(b)'
  BY <1>1, <1>5 DEF PInv, OrderInv, Absorbed, Settled, ShownInOrder
<1>10. ReadInOrder(b)' /\ TodoLogged(b)' /\ Emptied'
  BY <1>2 DEF ReadInOrder, TodoLogged, Emptied
<1>11. DoomedInOrder(b)'
  BY <1>1, <1>5 DEF PInv, OrderInv, DoomedInOrder, Doomed
<1> QED
  BY <1>6, <1>7, <1>8, <1>9, <1>10, <1>11 DEF PInv, OrderInv

LEMMA ReplayReturnsOrder == ASSUME NEW b \in Parts, IInv, PInv(b), ReplayReturns PROVE PInv(b)'
<1>1. /\ replay.at = "read" /\ \A p \in Parts : replay.todo[p] = <<>>
      /\ UNCHANGED <<pc, prec, part, stale, ticker, active, snap, files, disk, fileSeq, names, writeReq, fl, rnames>>
  BY DEF ReplayReturns, tblVars, walVars
<1>2. phase = "opening"
  BY <1>1, PartsFacts DEF IInv, CtlInv
<1>3. CASE ReplayFailed
  <2>1. replay' = NoReplay /\ phase' = "failed"
    BY <1>3 DEF ReplayReturns
  <2> QED
    BY <1>1, <1>2, <2>1, OpenFailsOrder DEF tblVars, walVars
<1>4. CASE ~ReplayFailed
  <2>1. PICK order \in Orders : replay' = [replay EXCEPT !.at = "flush", !.rm = Listing(order, rnames)]
    BY <1>4 DEF ReplayReturns
  <2>2. replay'.at = "flush" /\ replay'.rm.names = rnames /\ phase' = phase
    <3>1. replay \in ReplayRec
      BY ReplayType DEF IInv
    <3> QED
      BY <1>4, <2>1, <3>1 DEF ReplayRec, Listing, ReplayReturns
  <2>3. Acked' = Acked /\ Mine(b)' = Mine(b) /\ (\A z : Earlier(b, z)' = Earlier(b, z)) /\ Log(b)' = Log(b) /\ Stored' = Stored /\ Shown' = Shown /\ \A u : Logged(b, u)' <=> Logged(b, u)
    BY <1>1 DEF Acked, Mine, Earlier, Log, Stored, Shown, Logged
  <2>4. OwnInv(b)'
    BY <1>1, <2>2 DEF PInv, OwnInv, Doomed
  <2>5. FileInv(b)'
    BY <1>1, <1>2, <2>2, <2>3 DEF PInv, FileInv, Doomed
  <2>6. RecordInv(b)'
    BY <1>1, RecordSame DEF PInv
  <2>7. Absorbed' /\ Settled(b)' /\ DoomedInOrder(b)'
    BY <1>1, <2>3 DEF PInv, OrderInv, Absorbed, Settled, DoomedInOrder, Doomed
  <2>8. ShownInOrder(b)'
    <3> SUFFICES ASSUME NEW w \in Writes, NEW v \in Earlier(b, w), pc[w] = "wal" \/ w \in Mine(b)
                 PROVE  Hides(Shown, w, v)
      BY <1>1, <2>3 DEF ShownInOrder
    <3>1. w \in Mine(b)
      BY <1>2 DEF IInv, WriteInv, Acked, Mine, Earlier
    <3>2. ~Holds(replay.todo[b], w)
      BY <1>1, <1>2 DEF Holds
    <3>3. ~replay.errs
      BY <1>4 DEF ReplayFailed
    <3> QED
      BY <1>1, <3>1, <3>2, <3>3 DEF PInv, OrderInv, ReadInOrder, HidesIn
  <2>9. ReadInOrder(b)' /\ TodoLogged(b)' /\ Emptied'
    BY <2>2 DEF ReadInOrder, TodoLogged, Emptied
  <2> QED
    BY <2>4, <2>5, <2>6, <2>7, <2>8, <2>9 DEF PInv, OrderInv
<1> QED
  BY <1>3, <1>4

\* What is left of the files t when their first record is taken.
Rest(t) == IF Len(Head(t)) = 1 THEN Tail(t) ELSE <<Tail(Head(t))>> \o Tail(t)

\* The first record is gone from the front, and nothing else changes its place.
LEMMA RestInOrder ==
  ASSUME NEW t \in Seq(Record), t # <<>>, NEW w, NEW v
  PROVE  /\ Rest(t) \in Seq(Record) /\ Head(Head(t)) \in Writes
         /\ Holds(t, Head(Head(t)))
         /\ Holds(Rest(t), w) => Holds(t, w)
         /\ HidesIn(t, w, v) => \/ HidesIn(Rest(t), w, v)
                                \/ /\ ~Holds(Rest(t), w) /\ ~Holds(Rest(t), v)
                                   /\ w = Head(Head(t)) /\ v # Head(Head(t))
<1> DEFINE h == Head(t)
           x == Head(h)
           r == Rest(t)
<1>1. /\ Len(t) \in Nat /\ Len(t) >= 1 /\ DOMAIN t = 1..Len(t) /\ t[1] = h /\ h \in Record
      /\ Tail(t) \in Seq(Record) /\ Len(Tail(t)) = Len(t) - 1 /\ DOMAIN Tail(t) = 1..(Len(t) - 1)
      /\ \A k \in 1..(Len(t) - 1) : Tail(t)[k] = t[k + 1]
  OBVIOUS
<1>2. h \in Seq(Writes) /\ h # <<>>
  BY <1>1 DEF Record
<1>3. /\ Len(h) \in Nat /\ Len(h) >= 1 /\ DOMAIN h = 1..Len(h) /\ h[1] = x /\ x \in Writes
      /\ Tail(h) \in Seq(Writes) /\ DOMAIN Tail(h) = 1..(Len(h) - 1)
      /\ \A i \in 1..(Len(h) - 1) : Tail(h)[i] = h[i + 1]
  BY <1>2
<1>4. r = IF Len(h) = 1 THEN Tail(t) ELSE <<Tail(h)>> \o Tail(t)
  BY DEF Rest
<1>5. 1 \in DOMAIN t /\ 1 \in DOMAIN t[1] /\ t[1][1] = x
  BY <1>1, <1>3
<1> HIDE DEF h, x, r
<1>6. Holds(t, x)
  BY <1>5 DEF Holds, Range
<1>7. CASE Len(h) = 1
  <2>1. r = Tail(t)
    BY <1>4, <1>7
  <2>2. \A k \in DOMAIN r : k \in Nat /\ k >= 1 /\ k + 1 \in DOMAIN t /\ r[k] = t[k + 1]
    BY <1>1, <2>1
  <2>3. \A k \in DOMAIN t : k > 1 => k - 1 \in DOMAIN r /\ r[k - 1] = t[k]
    BY <1>1, <2>1
  <2>4. \A j \in DOMAIN t[1] : j = 1
    BY <1>1, <1>3, <1>7
  <2>5. ASSUME NEW u, Holds(r, u) PROVE Holds(t, u)
    BY <2>2, <2>5 DEF Holds
  <2>6. ASSUME HidesIn(t, w, v), NEW k \in DOMAIN r, NEW i \in DOMAIN r[k], r[k][i] = v
        PROVE  \E l \in DOMAIN r : \E j \in DOMAIN r[l] : r[l][j] = w /\ (k < l \/ (k = l /\ i < j))
    <3>1. k \in Nat /\ k + 1 \in DOMAIN t /\ i \in DOMAIN t[k + 1] /\ t[k + 1][i] = v
      BY <2>2, <2>6
    <3>2. PICK l \in DOMAIN t : \E j \in DOMAIN t[l] : t[l][j] = w /\ (k + 1 < l \/ (k + 1 = l /\ i < j))
      BY <2>6, <3>1 DEF HidesIn
    <3>3. l > 1 /\ l \in Nat
      BY <1>1, <2>2, <3>1, <3>2
    <3>4. l - 1 \in DOMAIN r /\ r[l - 1] = t[l]
      BY <2>3, <3>3
    <3>5. \E j \in DOMAIN r[l - 1] : r[l - 1][j] = w /\ (k < l - 1 \/ (k = l - 1 /\ i < j))
      BY <3>1, <3>2, <3>3, <3>4
    <3> QED
      BY <3>4, <3>5
  <2>7. ASSUME HidesIn(t, w, v), v = x PROVE Holds(r, w)
    <3>1. PICK l \in DOMAIN t : \E j \in DOMAIN t[l] : t[l][j] = w /\ (1 < l \/ (1 = l /\ 1 < j))
      BY <1>5, <2>7 DEF HidesIn
    <3>2. l > 1
      BY <1>1, <2>4, <3>1
    <3> QED
      BY <2>3, <3>1, <3>2 DEF Holds, Range
  <2>8. ASSUME Holds(t, w) PROVE w = x \/ Holds(r, w)
    <3>1. PICK l \in DOMAIN t : \E j \in DOMAIN t[l] : t[l][j] = w
      BY <2>8 DEF Holds, Range
    <3>2. l = 1 \/ l > 1
      BY <1>1
    <3> QED
      BY <1>5, <2>3, <2>4, <3>1, <3>2 DEF Holds, Range
  <2>9. r \in Seq(Record)
    BY <1>1, <2>1
  <2>10. HidesIn(t, w, v) => Holds(t, w)
    BY DEF HidesIn
  <2>11. ASSUME HidesIn(t, w, v), Holds(r, w) PROVE HidesIn(r, w, v)
    BY <2>6, <2>11 DEF HidesIn
  <2>12. ASSUME HidesIn(t, w, v), ~Holds(r, w) PROVE ~Holds(r, v)
    BY <2>6, <2>12 DEF Holds, Range
  <2> QED
    BY <1>3, <1>6, <2>5, <2>7, <2>8, <2>9, <2>10, <2>11, <2>12 DEF r, x, h
<1>8. CASE Len(h) # 1
  <2>1. r = <<Tail(h)>> \o Tail(t) /\ Tail(h) \in Record
    <3>1. Tail(h) # <<>>
      BY <1>2, <1>8, TailFacts
    <3> QED
      BY <1>3, <1>4, <1>8, <3>1 DEF Record
  <2>2. /\ r \in Seq(Record) /\ DOMAIN r = DOMAIN t /\ r[1] = Tail(h)
        /\ \A k \in DOMAIN t : k # 1 => r[k] = t[k]
    <3>1. <<Tail(h)>> \in Seq(Record) /\ Len(<<Tail(h)>>) = 1 /\ <<Tail(h)>>[1] = Tail(h)
      BY <2>1
    <3> QED
      BY <1>1, <2>1, <3>1
  <2>3. \A i \in DOMAIN r[1] : i \in Nat /\ i >= 1 /\ i + 1 \in DOMAIN t[1] /\ r[1][i] = t[1][i + 1]
    BY <1>1, <1>3, <2>2
  <2>4. \A i \in DOMAIN t[1] : i > 1 => i - 1 \in DOMAIN r[1] /\ r[1][i - 1] = t[1][i]
    BY <1>1, <1>3, <2>2
  <2>5. DOMAIN t[1] \subseteq Nat \ {0} /\ DOMAIN t \subseteq Nat \ {0}
    BY <1>1, <1>3
  <2>6. ASSUME NEW u, Holds(r, u) PROVE Holds(t, u)
    <3>1. PICK k \in DOMAIN r : \E i \in DOMAIN r[k] : r[k][i] = u
      BY <2>6 DEF Holds, Range
    <3>2. CASE k = 1
      <4>1. \E i \in DOMAIN t[1] : t[1][i] = u
        BY <2>3, <3>1, <3>2
      <4> QED
        BY <1>5, <4>1 DEF Holds, Range
    <3>3. CASE k # 1
      BY <2>2, <3>1, <3>3 DEF Holds, Range
    <3> QED
      BY <3>2, <3>3
  <2>7. ASSUME HidesIn(t, w, v), NEW k \in DOMAIN r, NEW i \in DOMAIN r[k], r[k][i] = v
        PROVE  \E l \in DOMAIN r : \E j \in DOMAIN r[l] : r[l][j] = w /\ (k < l \/ (k = l /\ i < j))
    <3>1. CASE k = 1
      <4>1. i \in Nat /\ i >= 1 /\ i + 1 \in DOMAIN t[1] /\ t[1][i + 1] = v
        BY <2>3, <2>7, <3>1
      <4>2. PICK l \in DOMAIN t : \E j \in DOMAIN t[l] : t[l][j] = w /\ (1 < l \/ (1 = l /\ i + 1 < j))
        BY <1>5, <2>7, <4>1 DEF HidesIn
      <4>3. PICK j \in DOMAIN t[l] : t[l][j] = w /\ (1 < l \/ (1 = l /\ i + 1 < j))
        BY <4>2
      <4>4. CASE l # 1
        BY <2>2, <3>1, <4>3, <4>4
      <4>5. CASE l = 1
        <5>1. j \in Nat /\ j > 1 /\ i < j - 1
          BY <2>5, <4>1, <4>3, <4>5
        <5>2. j - 1 \in DOMAIN r[1] /\ r[1][j - 1] = w
          BY <2>4, <4>3, <4>5, <5>1
        <5> QED
          BY <1>5, <2>2, <3>1, <5>1, <5>2
      <4> QED
        BY <4>4, <4>5
    <3>2. CASE k # 1
      <4>1. k \in DOMAIN t /\ r[k] = t[k] /\ k > 1
        BY <2>2, <2>5, <3>2
      <4>2. PICK l \in DOMAIN t : \E j \in DOMAIN t[l] : t[l][j] = w /\ (k < l \/ (k = l /\ i < j))
        BY <2>7, <4>1 DEF HidesIn
      <4>3. l # 1
        BY <2>5, <4>1, <4>2
      <4> QED
        BY <2>2, <4>2, <4>3
    <3> QED
      BY <3>1, <3>2
  <2>8. ASSUME HidesIn(t, w, v), v = x PROVE Holds(r, w)
    <3>1. PICK l \in DOMAIN t : \E j \in DOMAIN t[l] : t[l][j] = w /\ (1 < l \/ (1 = l /\ 1 < j))
      BY <1>5, <2>8 DEF HidesIn
    <3>2. CASE l = 1
      <4>1. PICK j \in DOMAIN t[1] : t[1][j] = w /\ 1 < j
        BY <3>1, <3>2
      <4>2. j - 1 \in DOMAIN r[1] /\ r[1][j - 1] = w
        BY <2>4, <2>5, <4>1
      <4>3. w \in Range(r[1])
        BY <4>2, Zenon DEF Range
      <4> QED
        BY <1>5, <2>2, <4>3 DEF Holds
    <3>3. CASE l # 1
      BY <2>2, <3>1, <3>3 DEF Holds, Range
    <3> QED
      BY <3>2, <3>3
  <2>9. ASSUME Holds(t, w) PROVE w = x \/ Holds(r, w)
    <3>1. PICK l \in DOMAIN t : \E j \in DOMAIN t[l] : t[l][j] = w
      BY <2>9 DEF Holds, Range
    <3>2. PICK j \in DOMAIN t[l] : t[l][j] = w
      BY <3>1
    <3>3. CASE l = 1 /\ j = 1
      BY <1>5, <3>2, <3>3
    <3>4. CASE l = 1 /\ j # 1
      <4>1. j > 1
        BY <2>5, <3>2, <3>4
      <4> QED
        BY <1>5, <2>2, <2>4, <3>2, <3>4, <4>1 DEF Holds, Range
    <3>5. CASE l # 1
      BY <2>2, <3>2, <3>5 DEF Holds, Range
    <3> QED
      BY <3>3, <3>4, <3>5
  <2>10. HidesIn(t, w, v) => Holds(t, w)
    BY DEF HidesIn
  <2>11. ASSUME HidesIn(t, w, v), Holds(r, w) PROVE HidesIn(r, w, v)
    BY <2>7, <2>11 DEF HidesIn
  <2>12. ASSUME HidesIn(t, w, v), ~Holds(r, w) PROVE ~Holds(r, v)
    BY <2>7, <2>12 DEF Holds, Range
  <2> QED
    BY <1>3, <1>6, <2>2, <2>6, <2>8, <2>9, <2>10, <2>11, <2>12 DEF r, x, h
<1> QED
  BY <1>7, <1>8

\* A record is taken: its write is in the log, and the rest is as it was.
LEMMA ConsumedRest ==
  ASSUME IInv, NEW p \in Parts, IsNext(p)
  PROVE  /\ replay.at = "read" /\ replay.todo[p] \in Seq(Record) /\ replay.todo[p] # <<>>
         /\ Consumed(p) \in ReplayRec /\ Consumed(p).at = "read" /\ Consumed(p).errs = replay.errs
         /\ Consumed(p).todo[p] = Rest(replay.todo[p])
         /\ \A b \in Parts : b # p => Consumed(p).todo[b] = replay.todo[b]
         /\ NextRecord(p) = Head(Head(replay.todo[p]))
<1>1. replay.todo[p] \in Seq(Record)
  BY One DEF IInv
<1>2. replay.at = "read" /\ replay.todo[p] # <<>>
  BY DEF IsNext
<1>3. Consumed(p) \in ReplayRec /\ Consumed(p).at = "read" /\ Consumed(p).errs = replay.errs
  BY <1>2, ConsumedFacts DEF IInv
<1>4. Consumed(p).todo[p] = Rest(replay.todo[p]) /\ \A b \in Parts : b # p => Consumed(p).todo[b] = replay.todo[b]
  <2> DEFINE r == Rest(replay.todo[p])
             tn == (p + 1) % NumParts
  <2>1. Consumed(p) = [replay EXCEPT !.todo[p] = r, !.turn = tn]
    BY DEF Consumed, Rest
  <2>2. replay \in ReplayRec
    BY ReplayType DEF IInv
  <2> HIDE DEF r, tn
  <2>3. Consumed(p).todo[p] = r /\ \A b \in Parts : b # p => Consumed(p).todo[b] = replay.todo[b]
    BY <2>1, <2>2 DEF ReplayRec
  <2> QED
    BY <2>3 DEF r
<1> QED
  BY <1>1, <1>2, <1>3, <1>4 DEF NextRecord

\* The record is one of its partition's log, and only what was to be read of this
\* partition gets less.
LEMMA RecordOf ==
  ASSUME IInv, NEW p \in Parts, PInv(p), IsNext(p)
  PROVE  /\ NextRecord(p) \in Writes /\ Logged(p, NextRecord(p)) /\ part[NextRecord(p)] = p
         /\ \A b \in Parts : \A u : Holds(Consumed(p).todo[b], u) => Holds(replay.todo[b], u)
<1> DEFINE t == replay.todo[p]
<1>1. /\ replay.at = "read" /\ t \in Seq(Record) /\ t # <<>>
      /\ Consumed(p).todo[p] = Rest(t) /\ NextRecord(p) = Head(Head(t))
      /\ \A b \in Parts : b # p => Consumed(p).todo[b] = replay.todo[b]
  BY ConsumedRest
<1> HIDE DEF t
<1>2. Holds(t, Head(Head(t))) /\ Head(Head(t)) \in Writes
  BY <1>1, RestInOrder
<1>3. ASSUME NEW u PROVE Holds(Rest(t), u) => Holds(t, u)
  BY <1>1, RestInOrder
<1>4. Logged(p, NextRecord(p))
  BY <1>1, <1>2 DEF t, PInv, OrderInv, TodoLogged
<1>5. part[NextRecord(p)] = p
  BY <1>4 DEF Logged, PInv, RecordInv
<1>6. \A b \in Parts : \A u : Holds(Consumed(p).todo[b], u) => Holds(replay.todo[b], u)
  BY <1>1, <1>3 DEF t
<1> QED
  BY <1>1, <1>2, <1>4, <1>5, <1>6

\* What the two outcomes of a record have in common.
LEMMA RecordTaken ==
  ASSUME NEW b \in Parts, IInv, PInv(b), NEW p \in Parts, PInv(p), IsNext(p),
         replay'.at = "read", replay'.todo = Consumed(p).todo,
         UNCHANGED <<pc, prec, part, stale, phase, ticker, snap, files, walVars, fl, rnames>>
  PROVE  OwnInv(b)' /\ FileInv(b)' /\ RecordInv(b)' /\ Absorbed' /\ ShownInOrder(b)' /\ TodoLogged(b)' /\ DoomedInOrder(b)' /\ Emptied'
<1>1. replay.at = "read" /\ \A u : Holds(replay'.todo[b], u) => Holds(replay.todo[b], u)
  BY ConsumedRest, RecordOf
<1>2. phase = "opening" /\ ticker = FALSE
  <2>1. phase = "opening"
    BY <1>1 DEF IInv, CtlInv
  <2> QED
    BY <2>1, NoLogFiles DEF OpenPhases, LogPhases
<1>3. UNCHANGED <<disk, fileSeq, names>>
  BY DEF walVars
<1>4. /\ Mine(b)' = Mine(b) /\ (\A z : Earlier(b, z)' = Earlier(b, z)) /\ Log(b)' = Log(b) /\ Stored' = Stored /\ ~Shows'
      /\ \A u : Logged(b, u)' <=> Logged(b, u)
  BY <1>2, <1>3 DEF Acked, Mine, Earlier, Log, Stored, Shows, Logged
<1>5. OwnInv(b)'
  BY <1>2, <1>3 DEF PInv, OwnInv, Doomed
<1>6. FileInv(b)'
  BY <1>1, <1>3, <1>4 DEF PInv, FileInv, Doomed
<1>7. RecordInv(b)'
  BY <1>3, RecordSame DEF PInv
<1>8. Absorbed' /\ ShownInOrder(b)' /\ DoomedInOrder(b)' /\ Emptied'
  BY <1>1, <1>4 DEF PInv, OrderInv, Absorbed, ShownInOrder, DoomedInOrder, Emptied, Doomed
<1>9. TodoLogged(b)'
  BY <1>1, <1>4 DEF PInv, OrderInv, TodoLogged
<1> QED
  BY <1>5, <1>6, <1>7, <1>8, <1>9

LEMMA ReplayRecordFailsOrder ==
  ASSUME NEW b \in Parts, IInv, PInv(b), NEW p \in Parts, PInv(p), ReplayRecordFails(p) PROVE PInv(b)'
<1>1. /\ IsNext(p) /\ replay' = [Consumed(p) EXCEPT !.errs = TRUE] /\ active'.rows = active.rows
      /\ UNCHANGED <<pc, prec, part, stale, phase, ticker, snap, files, walVars, fl, rnames>>
  BY DEF ReplayRecordFails, IInv, TypeOK
<1>2. replay'.at = "read" /\ replay'.errs = TRUE /\ replay'.todo = Consumed(p).todo
  <2>1. Consumed(p) \in ReplayRec /\ Consumed(p).at = "read"
    BY <1>1, ConsumedRest
  <2> QED
    BY <1>1, <2>1 DEF ReplayRec
<1>3. OwnInv(b)' /\ FileInv(b)' /\ RecordInv(b)' /\ Absorbed' /\ ShownInOrder(b)' /\ TodoLogged(b)' /\ DoomedInOrder(b)' /\ Emptied'
  BY <1>1, <1>2, RecordTaken
<1>4. ReadInOrder(b)'
  BY <1>2 DEF ReadInOrder
<1>5. Settled(b)'
  <2>1. /\ Mine(b)' = Mine(b) /\ (\A z : Earlier(b, z)' = Earlier(b, z)) /\ files' = files /\ Stored' = Stored /\ Shown' = Shown
        /\ \A u : Logged(b, u)' <=> Logged(b, u)
    BY <1>1 DEF Acked, Mine, Earlier, Log, Logged, Stored, Shown, walVars
  <2> QED
    BY <2>1 DEF PInv, OrderInv, Settled
<1> QED
  BY <1>3, <1>4, <1>5 DEF PInv, OrderInv

LEMMA ReplayRecordOrder ==
  ASSUME NEW b \in Parts, IInv, PInv(b), NEW p \in Parts, PInv(p), ReplayRecord(p) PROVE PInv(b)'
<1> DEFINE x == NextRecord(p)
           t == replay.todo[b]
<1>1. /\ IsNext(p) /\ replay' = Consumed(p) /\ active'.rows = Append(active.rows, x)
      /\ UNCHANGED <<pc, prec, part, stale, phase, ticker, snap, files, walVars, fl, rnames>>
  BY DEF ReplayRecord
<1>2. /\ replay.at = "read" /\ replay'.at = "read" /\ replay'.errs = replay.errs
      /\ p = b => t \in Seq(Record) /\ t # <<>> /\ x = Head(Head(t)) /\ replay'.todo[b] = Rest(t)
      /\ p # b => replay'.todo[b] = t
  BY <1>1, ConsumedRest
<1>3. /\ OwnInv(b)' /\ FileInv(b)' /\ RecordInv(b)' /\ Absorbed' /\ ShownInOrder(b)' /\ TodoLogged(b)' /\ DoomedInOrder(b)' /\ Emptied'
      /\ Logged(p, x) /\ x \in Writes /\ part[x] = p
  BY <1>1, <1>2, RecordTaken, RecordOf
<1>4. /\ Stored \in Seq(Writes) /\ active.rows \in Seq(Writes)
      /\ Shown = Stored \o active.rows /\ Stored' = Stored /\ Shown' = Stored \o Append(active.rows, x)
  BY <1>1, <1>2, RowTypes DEF IInv, Stored, Shown
<1>5. /\ Mine(b)' = Mine(b) /\ (\A z : Earlier(b, z)' = Earlier(b, z)) /\ files' = files
      /\ \A u : Logged(b, u)' <=> Logged(b, u)
  BY <1>1 DEF Acked, Mine, Earlier, Logged, Log, walVars
<1>6. \A w : \A v \in Earlier(b, w) : part[v] = b
  BY DEF Earlier
<1> HIDE DEF x, t
<1>7. \A w, v : v # x /\ (w = x \/ Hides(Shown, w, v)) => Hides(Shown', w, v)
  BY <1>3, <1>4, ShownGrows
<1>8. ReadInOrder(b)'
  <2> SUFFICES ASSUME ~replay.errs, NEW w \in Mine(b), NEW v \in Earlier(b, w)
               PROVE  \/ HidesIn(replay'.todo[b], w, v)
                      \/ ~Holds(replay'.todo[b], w) /\ ~Holds(replay'.todo[b], v) /\ Hides(Shown', w, v)
    BY <1>2, <1>5 DEF ReadInOrder
  <2>1. \/ HidesIn(t, w, v)
        \/ ~Holds(t, w) /\ ~Holds(t, v) /\ Hides(Shown, w, v)
    BY <1>2 DEF PInv, OrderInv, ReadInOrder, t
  <2>2. CASE p # b
    <3>1. v # x
      BY <1>3, <1>6, <2>2
    <3> QED
      BY <1>2, <1>7, <2>1, <2>2, <3>1
  <2>3. CASE p = b /\ HidesIn(t, w, v)
    <3>1. \/ HidesIn(Rest(t), w, v)
          \/ ~Holds(Rest(t), w) /\ ~Holds(Rest(t), v) /\ w = x /\ v # x
      BY <1>2, <2>3, RestInOrder
    <3> QED
      BY <1>2, <1>7, <2>3, <3>1
  <2>4. CASE p = b /\ ~Holds(t, w) /\ ~Holds(t, v) /\ Hides(Shown, w, v)
    <3>1. /\ Holds(t, x)
          /\ Holds(Rest(t), w) => Holds(t, w)
      BY <1>2, <2>4, RestInOrder
    <3>2. Holds(Rest(t), v) => Holds(t, v)
      BY <1>2, <2>4, RestInOrder
    <3>3. v # x
      BY <2>4, <3>1
    <3> QED
      BY <1>2, <1>7, <2>4, <3>1, <3>2, <3>3
  <2> QED
    BY <2>1, <2>2, <2>3, <2>4
<1>9. Settled(b)'
  <2> SUFFICES ASSUME NEW w \in Mine(b), NEW v \in Earlier(b, w), ~Logged(b, w)
               PROVE  Hides(files, w, v) /\ Hides(Stored, w, v) /\ Hides(Shown', w, v)
    BY <1>4, <1>5 DEF Settled
  <2>1. Hides(files, w, v) /\ Hides(Stored, w, v) /\ Hides(Shown, w, v)
    BY DEF PInv, OrderInv, Settled
  <2>2. ASSUME v = x PROVE FALSE
    <3>1. p = b
      BY <1>3, <1>6, <2>2
    <3>2. PICK m \in DOMAIN Log(b) : v \in Range(Log(b)[m])
      BY <1>3, <2>2, <3>1 DEF Logged
    <3>3. PICK i \in DOMAIN Log(b)[m] : Log(b)[m][i] = v
      BY <3>2 DEF Range
    <3>4. \E n \in DOMAIN Log(b) : \E j \in DOMAIN Log(b)[n] : Log(b)[n][j] = w
      BY <3>3 DEF PInv, RecordInv
    <3>5. \E n \in DOMAIN Log(b) : w \in Range(Log(b)[n])
      BY <3>4 DEF Range
    <3> QED
      BY <3>5 DEF Logged
  <2> QED
    BY <1>7, <2>1, <2>2
<1> QED
  BY <1>3, <1>8, <1>9 DEF PInv, OrderInv

\* In the list r every file of S comes again after each name less than it.
InTurnAfter(S, r) ==
  \A k \in DOMAIN r : \A n \in S : r[k] < n => \E l \in DOMAIN r : k < l /\ r[l] = n

\* The names of earlier calls, then those of the directory in ascending order.
LEMMA RestoredInTurn ==
  ASSUME NEW S, S \subseteq Nat, IsFiniteSet(S), NEW old \in Seq(Nat), NEW ns \in Ascending(S), InTurn(S, old)
  PROVE  /\ old \o ns \in Seq(Nat) /\ S \subseteq Range(old \o ns)
         /\ InTurn(S, old \o ns) /\ InTurnAfter(S, old \o ns)
<1> DEFINE r == old \o ns
           a == Len(old)
           b == Len(ns)
<1>1. ns \in Seq(Nat) /\ Range(ns) = S
  BY AscendingLast
<1>2. /\ a \in Nat /\ b \in Nat /\ DOMAIN old = 1..a /\ DOMAIN ns = 1..b /\ DOMAIN r = 1..(a + b)
      /\ \A i \in 1..a : r[i] = old[i]
      /\ \A i \in 1..b : r[a + i] = ns[i]
      /\ \A i \in 1..(a + b) : i \in 1..a \/ i - a \in 1..b
  BY <1>1, ConcatAt
<1>3. \A i, j \in 1..b : i < j => ns[i] < ns[j]
  <2>1. ns \in [1..Cardinality(S) -> S] /\ \A i, j \in 1..Cardinality(S) : i < j => ns[i] < ns[j]
    BY DEF Ascending, InOrder
  <2>2. 1..Cardinality(S) = 1..b
    BY <1>2, <2>1
  <2> QED
    BY <2>1, <2>2
<1>4. \A i, j \in 1..b : ns[i] < ns[j] => i < j
  <2> SUFFICES ASSUME NEW i \in 1..b, NEW j \in 1..b, ns[i] < ns[j] PROVE i < j
    OBVIOUS
  <2>1. ns[i] \in Nat /\ ns[j] \in Nat /\ i \in Nat /\ j \in Nat
    BY <1>1, <1>2
  <2>2. j < i => ns[j] < ns[i]
    BY <1>3
  <2> QED
    BY <2>1, <2>2
<1>5. r \in Seq(Nat) /\ Range(r) = Range(old) \cup S
  BY <1>1, RangeConcat
<1> HIDE DEF r, a, b
<1>6. ASSUME NEW n \in S PROVE \E i \in 1..b : ns[i] = n /\ a + i \in DOMAIN r /\ r[a + i] = n
  <2>1. PICK i \in DOMAIN ns : ns[i] = n
    BY <1>1 DEF Range
  <2> QED
    BY <1>2, <2>1
<1>7. ASSUME NEW k \in DOMAIN r, NEW n \in S, r[k] < n PROVE \E l \in DOMAIN r : k < l /\ r[l] = n
  <2>1. PICK i \in 1..b : ns[i] = n /\ a + i \in DOMAIN r /\ r[a + i] = n
    BY <1>6
  <2>2. CASE k \in 1..a
    <3>1. k < a + i
      BY <1>2, <2>1, <2>2
    <3> QED
      BY <2>1, <3>1
  <2>3. CASE k - a \in 1..b
    <3>1. k = a + (k - a) /\ r[a + (k - a)] = ns[k - a]
      BY <1>2, <2>3
    <3>2. ns[k - a] < ns[i]
      BY <1>7, <2>1, <3>1
    <3>3. k - a < i
      BY <1>4, <2>3, <3>2
    <3>4. k < a + i
      BY <1>2, <2>1, <2>3, <3>3
    <3> QED
      BY <2>1, <3>4
  <2> QED
    BY <1>2, <2>2, <2>3
<1>8. ASSUME NEW i \in DOMAIN r, NEW n \in S, r[i] \in S, n < r[i] PROVE \E j \in DOMAIN r : j < i /\ r[j] = n
  <2>1. CASE i \in 1..a
    <3>1. old[i] \in S /\ n < old[i] /\ i \in DOMAIN old
      BY <1>2, <1>8, <2>1
    <3>2. PICK j \in DOMAIN old : j < i /\ old[j] = n
      BY <3>1 DEF InTurn
    <3>3. j \in DOMAIN r /\ r[j] = n
      BY <1>2, <3>2
    <3> QED
      BY <3>2, <3>3
  <2>2. CASE i - a \in 1..b
    <3>1. PICK j \in 1..b : ns[j] = n /\ a + j \in DOMAIN r /\ r[a + j] = n
      BY <1>6
    <3>2. i = a + (i - a) /\ r[a + (i - a)] = ns[i - a]
      BY <1>2, <2>2
    <3>3. ns[j] < ns[i - a]
      BY <1>8, <3>1, <3>2
    <3>4. j < i - a
      BY <1>4, <2>2, <3>3
    <3>5. a + j < i
      BY <1>2, <2>2, <3>1, <3>4
    <3> QED
      BY <3>1, <3>5
  <2> QED
    BY <1>2, <2>1, <2>2
<1> QED
  BY <1>5, <1>7, <1>8 DEF InTurn, InTurnAfter, r

LEMMA OpenShardOrder == ASSUME NEW b \in Parts, IInv, PInv(b), OpenShard PROVE PInv(b)'
<1>1. /\ phase \in {"down", "failed"} /\ phase' = "opening"
      /\ UNCHANGED <<pc, prec, part, stale, ticker, active, snap, files, disk, names, fl>>
  BY DEF OpenShard, tblVars
<1>2. PICK ns : (\A p \in Parts : ns[p] \in Ascending(DOMAIN disk[p])) /\ RestoreLogs(ns)
  BY DEF OpenShard
<1>3. rnames[b] \in Seq(Nat) /\ DOMAIN Log(b) \subseteq Nat /\ IsFiniteSet(DOMAIN Log(b))
  BY PartsFacts, One DEF IInv
<1>4. ns[b] \in Ascending(DOMAIN Log(b)) /\ InTurn(DOMAIN Log(b), rnames[b])
  BY <1>1, <1>2, <1>3 DEF Log, PInv, FileInv
<1> DEFINE r == rnames[b] \o ns[b]
<1>5. /\ r \in Seq(Nat) /\ DOMAIN Log(b) \subseteq Range(r) /\ InTurn(DOMAIN Log(b), r)
      /\ \A k \in DOMAIN r : \A n \in DOMAIN Log(b) : r[k] < n => \E l \in DOMAIN r : k < l /\ r[l] = n
  <2>1. r \in Seq(Nat) /\ DOMAIN Log(b) \subseteq Range(r) /\ InTurn(DOMAIN Log(b), r) /\ InTurnAfter(DOMAIN Log(b), r)
    BY <1>3, <1>4, RestoredInTurn, Zenon
  <2> QED
    BY <2>1 DEF InTurnAfter
<1>6. rnames'[b] = r /\ RestoredNames(ns)[b] = r
  BY <1>2, <1>3 DEF RestoreLogs, RestoredNames
<1> HIDE DEF r
<1>7. replay'.at = "read" /\ replay' \in ReplayRec
  BY <1>2, RestoreLogsFacts
<1>8. /\ replay'.errs = (Gone(ns) # {})
      /\ replay'.todo[b] = IF b \in Gone(ns) THEN <<>> ELSE RecordsOf(b, r)
  <2> DEFINE todo == [p \in Parts |-> IF p \in Gone(ns) THEN <<>> ELSE RecordsOf(p, RestoredNames(ns)[p])]
  <2>1. replay' = [NoReplay EXCEPT !.at = "read", !.errs = Gone(ns) # {}, !.todo = todo]
    BY <1>2 DEF RestoreLogs
  <2>2. todo[b] = IF b \in Gone(ns) THEN <<>> ELSE RecordsOf(b, r)
    BY <1>3, <1>6
  <2> HIDE DEF todo
  <2>3. replay'.errs = (Gone(ns) # {}) /\ replay'.todo = todo
    BY <2>1, NoReplayType DEF ReplayRec
  <2> QED
    BY <2>2, <2>3
<1>9. ASSUME b \notin Gone(ns)
      PROVE  /\ DOMAIN replay'.todo[b] = DOMAIN r
             /\ \A k \in DOMAIN r : r[k] \in DOMAIN Log(b) /\ replay'.todo[b][k] = Log(b)[r[k]]
  <2>1. \A n \in Range(r) : n \in DOMAIN Log(b)
    BY <1>3, <1>6, <1>9 DEF Gone, OnDisk, Log
  <2>2. \A k \in DOMAIN r : r[k] \in Range(r)
    BY Zenon DEF Range
  <2> QED
    BY <1>8, <1>9, <2>1, <2>2 DEF RecordsOf, Log
<1>10. ASSUME NEW u, Holds(replay'.todo[b], u) PROVE Logged(b, u)
  <2>1. CASE b \in Gone(ns)
    BY <1>8, <1>10, <2>1 DEF Holds
  <2>2. CASE b \notin Gone(ns)
    <3>1. \E n \in DOMAIN Log(b) : u \in Range(Log(b)[n])
      BY <1>9, <1>10, <2>2 DEF Holds
    <3> QED
      BY <3>1 DEF Logged
  <2> QED
    BY <2>1, <2>2
<1>11. ticker = FALSE /\ Shown' = Shown /\ Stored' = Stored /\ Acked' = Acked /\ Mine(b)' = Mine(b) /\ (\A z : Earlier(b, z)' = Earlier(b, z)) /\ Log(b)' = Log(b) /\ \A u : Logged(b, u)' <=> Logged(b, u)
  BY <1>1, NoLogFiles DEF OpenPhases, LogPhases, Shown, Stored, Acked, Mine, Earlier, Log, Logged
<1>12. ~Shows'
  BY <1>1, <1>7, <1>11 DEF Shows
<1>13. OwnInv(b)'
  BY <1>1 DEF PInv, OwnInv, Doomed
<1>14. FileInv(b)'
  <2>1. names[b] = <<>>
    BY <1>1, <1>3, NoLogFiles DEF OpenPhases, LogPhases
  <2>2. DOMAIN names[b] = {}
    BY <2>1
  <2> QED
    BY <1>1, <1>5, <1>6, <1>7, <1>11, <2>1, <2>2 DEF PInv, FileInv, Doomed
<1>15. RecordInv(b)'
  BY <1>1, RecordSame DEF PInv
<1>16. Absorbed' /\ Settled(b)' /\ ShownInOrder(b)' /\ DoomedInOrder(b)' /\ Emptied'
  BY <1>1, <1>7, <1>11, <1>12 DEF PInv, OrderInv, Absorbed, Settled, ShownInOrder, DoomedInOrder, Emptied, Doomed
<1>17. TodoLogged(b)'
  BY <1>10, <1>11 DEF TodoLogged
<1>18. ReadInOrder(b)'
  <2> DEFINE t == replay'.todo[b]
  <2> SUFFICES ASSUME ~replay'.errs, NEW w \in Mine(b), NEW v \in Earlier(b, w)
               PROVE  \/ HidesIn(t, w, v)
                      \/ ~Holds(t, w) /\ ~Holds(t, v) /\ Hides(Shown, w, v)
    BY <1>1, <1>11 DEF ReadInOrder
  <2>1. b \notin Gone(ns)
    BY <1>8
  <2>2. DOMAIN t = DOMAIN r /\ \A k \in DOMAIN r : r[k] \in DOMAIN Log(b) /\ t[k] = Log(b)[r[k]]
    BY <1>9, <2>1
  <2>3. ASSUME NEW m \in DOMAIN Log(b), NEW i \in DOMAIN Log(b)[m], Log(b)[m][i] = v
        PROVE  \E n \in DOMAIN Log(b) : \E j \in DOMAIN Log(b)[n] : Log(b)[n][j] = w /\ (m < n \/ (m = n /\ i < j))
    BY <2>3 DEF PInv, RecordInv
  <2>4. CASE Logged(b, w)
    <3>1. PICK n \in DOMAIN Log(b) : w \in Range(Log(b)[n])
      BY <2>4 DEF Logged
    <3>2. PICK k \in DOMAIN r : r[k] = n
      BY <1>5 DEF Range
    <3> HIDE DEF t
    <3>3. Holds(t, w)
      BY <2>2, <3>1, <3>2 DEF Holds
    <3>4. ASSUME NEW l \in DOMAIN t, NEW i \in DOMAIN t[l], t[l][i] = v
          PROVE  \E g \in DOMAIN t : \E j \in DOMAIN t[g] : t[g][j] = w /\ (l < g \/ (l = g /\ i < j))
      <4>1. l \in DOMAIN r /\ r[l] \in DOMAIN Log(b) /\ i \in DOMAIN Log(b)[r[l]] /\ Log(b)[r[l]][i] = v
        BY <2>2, <3>4
      <4>2. PICK m \in DOMAIN Log(b) : \E j \in DOMAIN Log(b)[m] : Log(b)[m][j] = w /\ (r[l] < m \/ (r[l] = m /\ i < j))
        BY <2>3, <4>1
      <4>3. PICK j \in DOMAIN Log(b)[m] : Log(b)[m][j] = w /\ (r[l] < m \/ (r[l] = m /\ i < j))
        BY <4>2
      <4>4. CASE r[l] < m
        <5>1. PICK g \in DOMAIN r : l < g /\ r[g] = m
          BY <1>5, <4>1, <4>4
        <5>2. t[g] = Log(b)[m] /\ g \in DOMAIN t
          BY <2>2, <5>1
        <5> QED
          BY <4>3, <5>1, <5>2
      <4>5. CASE r[l] = m /\ i < j
        <5>1. t[l] = Log(b)[m]
          BY <2>2, <4>1, <4>5
        <5> QED
          BY <3>4, <4>3, <4>5, <5>1
      <4> QED
        BY <4>3, <4>4, <4>5
    <3> QED
      BY <3>3, <3>4 DEF HidesIn
  <2>5. CASE ~Logged(b, w)
    <3>1. ~Logged(b, v)
      <4>1. ASSUME Logged(b, v) PROVE FALSE
        <5>1. PICK m \in DOMAIN Log(b) : v \in Range(Log(b)[m])
          BY <4>1 DEF Logged
        <5>2. PICK i \in DOMAIN Log(b)[m] : Log(b)[m][i] = v
          BY <5>1 DEF Range
        <5>3. \E n \in DOMAIN Log(b) : w \in Range(Log(b)[n])
          BY <2>3, <5>2 DEF Range
        <5> QED
          BY <2>5, <5>3 DEF Logged
      <4> QED
        BY <4>1
    <3>2. ~Holds(t, w) /\ ~Holds(t, v)
      BY <1>10, <2>5, <3>1
    <3>3. Hides(Shown, w, v)
      BY <2>5 DEF PInv, OrderInv, Settled
    <3> QED
      BY <3>2, <3>3
  <2> QED
    BY <2>4, <2>5
<1> QED
  BY <1>13, <1>14, <1>15, <1>16, <1>17, <1>18 DEF PInv, OrderInv

----------------------------------------------------------------------------
LEMMA InitPInv == ASSUME NEW b \in Parts, Init PROVE PInv(b)
<1>1. /\ pc = [w \in Writes |-> "new"] /\ prec = [w \in Writes |-> {}] /\ phase = "down" /\ ticker = FALSE
      /\ active.rows = <<>> /\ disk = [p \in Parts |-> NoFiles] /\ names = [p \in Parts |-> <<>>]
      /\ fl = [f \in Flushers |-> NoFlush] /\ rnames = [p \in Parts |-> <<>>] /\ replay = NoReplay
  BY DEF Init, EmptyTbl
<1>2. names[b] = <<>> /\ rnames[b] = <<>> /\ replay.at = "idle" /\ DOMAIN <<>> = {} /\ Range(<<>>) = {}
  BY <1>1, PartsFacts, NoReplayType, RangeEmpty
<1>3. \A f \in Flushers : Doomed(b, f) = <<>> /\ fl[f].at = "idle"
  BY <1>1, <1>2, NoFlushType, NoListType DEF Doomed, NoneLeft
<1>4. Acked = {} /\ Mine(b) = {} /\ DOMAIN Log(b) = {} /\ ~Shows
  BY <1>1, <1>2 DEF Acked, Mine, Log, NoFiles, Shows
<1>5. OwnInv(b)
  BY <1>1, <1>2, <1>3 DEF OwnInv
<1>6. FileInv(b)
  BY <1>1, <1>2, <1>3, <1>4 DEF FileInv, InTurn
<1>7. RecordInv(b)
  BY <1>1, <1>4 DEF RecordInv
<1>8. OrderInv(b)
  BY <1>2, <1>3, <1>4 DEF OrderInv, Absorbed, Settled, ShownInOrder, ReadInOrder, TodoLogged, DoomedInOrder, Emptied
<1> QED
  BY <1>5, <1>6, <1>7, <1>8 DEF PInv

LEMMA NextParted == ASSUME IInv, Parted, [Next]_vars PROVE Parted'
<1>1. pc \in [Writes -> {"new", "enter", "alloc", "index", "table", "wal", "acked", "failed"}]
      /\ part \in [Writes -> 0..NumParts] /\ writeReq \in Parts
  BY DEF IInv, TypeOK
<1>2. CASE \E w \in Writes : WriteWal(w)
  <2>1. PICK w \in Writes : WriteWal(w)
    BY <1>2
  <2>2. /\ part' = [part EXCEPT ![w] = writeReq]
        /\ \E answer \in {"acked", "failed"} : pc' = [pc EXCEPT ![w] = answer]
    BY <2>1 DEF WriteWal
  <2> QED
    BY <1>1, <2>2 DEF Parted, Acked
<1>3. ASSUME part' = part, Acked' \subseteq Acked PROVE Parted'
  BY <1>3 DEF Parted
<1>4. CASE \E w \in Writes : BeginWrite(w) \/ (WriteStep(w) /\ ~WriteWal(w))
  <2>1. PICK w \in Writes : BeginWrite(w) \/ (WriteStep(w) /\ ~WriteWal(w))
    BY <1>4
  <2>2. part' = part /\ \E s \in {"enter", "alloc", "index", "table", "wal", "failed"} : pc' = [pc EXCEPT ![w] = s]
    BY <2>1 DEF BeginWrite, WriteStep, EnterWrite, AllocResource, AllocTimeout, WriteIndex, WriteIndexFails,
                WriteTable, WriteTableFails
  <2> QED
    BY <1>1, <1>3, <2>2 DEF Acked
<1>5. CASE Crash
  BY <1>1, <1>3, <1>5 DEF Crash, Acked
<1>6. CASE ShouldSnapshot \/ ForceFlush \/ ForceWait \/ \E f \in Flushers : FlushStep(f)
  <2>1. part' = part /\ pc' = pc
    BY <1>6 DEF ShouldSnapshot, ForceFlush, ForceWait, FlushStep, SwitchTables, SwitchNothing, CommitSnapshot,
                RemoveWalFile, EndSnapshot
  <2> QED
    BY <1>3, <2>1 DEF Acked
<1>7. CASE OpenShard \/ OpenStep \/ BeginClose \/ CloseStep \/ NewShard \/ UNCHANGED vars
  <2>1. part' = part /\ pc' = pc
    BY <1>7 DEF OpenShard, OpenStep, ReplayRecord, ReplayRecordFails, RemoveReplayed, ReplayReturns, OpenDone,
                BeginClose, CloseStep, LockClose, CloseWal, DropActive, EndClose, NewShard, vars
  <2> QED
    BY <1>3, <2>1 DEF Acked
<1> QED
  BY <1>2, <1>4, <1>5, <1>6, <1>7 DEF Next

LEMMA NextOInv == ASSUME IInv, OInv, [Next]_vars PROVE OInv'
<1> SUFFICES ASSUME NEW b \in Parts PROVE PInv(b)'
  BY NextParted DEF OInv
<1> PInv(b) /\ \A p \in Parts : PInv(p)
  BY DEF OInv
<1>1. CASE UNCHANGED vars
  <2>1. /\ UNCHANGED <<pc, prec, part, stale, phase, ticker, active, snap, files, disk, fileSeq, names, fl, rnames, replay>>
    BY <1>1 DEF vars, tblVars, walVars
  <2>2. OwnInv(b)' /\ FileInv(b)'
    BY <2>1, OwnSame, FileSame DEF PInv
  <2>3. RecordInv(b)' /\ OrderInv(b)'
    BY <2>1, RecordSame, OrderSame DEF PInv
  <2> QED
    BY <2>2, <2>3 DEF PInv
<1>2. CASE \E w \in Writes : BeginWrite(w) \/ WriteStep(w)
  BY <1>2, BeginWriteOrder, EarlyWriteOrder, WriteTableOrder, WriteWalOrder, WriteWalElsewhere DEF WriteStep
<1>3. CASE ShouldSnapshot \/ ForceFlush \/ ForceWait
  BY <1>3, ShouldSnapshotOrder, ForceFlushOrder, ForceWaitOrder
<1>4. CASE \E f \in Flushers : FlushStep(f)
  <2>1. PICK f \in Flushers : FlushStep(f)
    BY <1>4
  <2>2. ASSUME NEW p \in Parts, RemoveWalFile(f, p) PROVE PInv(b)'
    <3>1. CASE p = b
      BY <2>2, <3>1, RemoveWalFileOrder
    <3>2. CASE p # b
      BY <2>2, <3>2, RemoveWalFileElsewhere
    <3> QED
      BY <3>1, <3>2
  <2> QED
    BY <2>1, <2>2, SwitchTablesOrder, SwitchNothingOrder, CommitSnapshotOrder, EndSnapshotOrder DEF FlushStep
<1>5. CASE OpenShard \/ OpenStep
  BY <1>5, OpenShardOrder, ReplayRecordOrder, ReplayRecordFailsOrder, RemoveReplayedOrder, ReplayReturnsOrder, OpenDoneOrder
     DEF OpenStep
<1>6. CASE BeginClose \/ CloseStep \/ NewShard \/ Crash
  BY <1>6, BeginCloseOrder, CloseWalOrder, DropActiveOrder, EndCloseOrder, NewShardOrder, CrashOrder DEF CloseStep
<1> QED
  BY <1>1, <1>2, <1>3, <1>4, <1>5, <1>6 DEF Next

\* Whatever the number of partitions, each of them keeps the order of its writes
\* everywhere at once: in the records of the WAL, in what a switched list or a
\* replay removes next, and in the files and the tables on top of them
\* (writeSnapshot, Replay and Close, and a crash between any two of their steps).
THEOREM OrderKeptAlways == Spec => [](IInv /\ OInv)
<1>1. Init => IInv /\ OInv
  <2>1. Init => Parted
    BY DEF Init, Parted, Acked
  <2> QED
    BY <2>1, InitIInv, InitPInv DEF OInv
<1>2. IInv /\ OInv /\ [Next]_vars => (IInv /\ OInv)'
  BY NextIInv, NextOInv
<1> QED
  BY <1>1, <1>2, PTL DEF Spec

\* A write that began after another was acknowledged, and went to the same WAL
\* partition (LogWriter), hides it in every opened shard, also when one or both were
\* replayed from the WAL: after a failed replay, a partial removal of log files, a
\* close or a crash, and whatever the other partitions replay.
THEOREM LaterWriteHides == Spec => []PartitionOrder
<1>1. ASSUME IInv, OInv PROVE PartitionOrder
  <2> SUFFICES ASSUME phase = "open", NEW w \in Acked, NEW v \in prec[w], part[v] = part[w]
               PROVE  LastPos(Shown, v) < LastPos(Shown, w)
    BY DEF PartitionOrder, Hidden, Shown
  <2>1. part[w] \in Parts /\ w \in Writes
    BY <1>1 DEF OInv, Parted, Acked
  <2>2. PICK b \in Parts : part[w] = b
    BY <2>1
  <2>3. PInv(b) /\ w \in Mine(b) /\ v \in Earlier(b, w)
    BY <1>1, <2>2 DEF OInv, Mine, Earlier
  <2>4. Shows
    BY <2>3 DEF PInv, OwnInv, Shows
  <2>5. Hides(Shown, w, v)
    BY <2>1, <2>3, <2>4 DEF PInv, OrderInv, ShownInOrder
  <2>6. Shown \in Seq(Writes)
    BY <1>1, RowTypes DEF IInv
  <2> QED
    BY <2>5, <2>6, HidesLastPos
<1> QED
  BY <1>1, OrderKeptAlways, PTL
=============================================================================
