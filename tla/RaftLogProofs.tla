---------------------------- MODULE RaftLogProofs ----------------------------
(***************************************************************************)
(* What the operators of RaftLog compute on a log whose indexes rise by    *)
(* one from slot to slot and from file to file, for any number of files    *)
(* and of slots: the searches find what is there, conflicts, rotations,    *)
(* clearing and opening keep the log so, and reads return it.              *)
(***************************************************************************)
EXTENDS RaftLog, TLAPS, SequenceTheorems, WellFoundedInduction

-----------------------------------------------------------------------------
(* Logs without gaps.                                                      *)

Data == [kind : {"rows", "none", "clear"}, index : Nat, match : Nat]
Entry == [term : Nat, index : Nat, data : Data]
LogType == [files : Seq(Seq(Entry)), current : Seq(Entry), next : Nat]

\* The files of a log, counted from 1, the current one last.
Num(l) == Len(l.files) + 1
File(l, k) == IF k = Num(l) THEN l.current ELSE l.files[k]
Used(l) == l.files # <<>> \/ l.current # <<>>

\* st gives the index a file begins with; an empty current file is to begin
\* with the next one.
Chain(l, st) ==
  /\ l \in LogType
  /\ l.next = Len(l.current)
  /\ st \in [1..Num(l) -> Nat \ {0}]
  /\ \A k \in 1..Num(l) : /\ Len(File(l, k)) <= MaxNumEntries
                          /\ k # Num(l) => Len(File(l, k)) > 0
  /\ \A k \in 1..Num(l) : \A x \in 1..Len(File(l, k)) : File(l, k)[x].index = st[k] + x - 1
  /\ \A k \in 1..Len(l.files) : st[k + 1] = st[k] + Len(File(l, k))
  /\ \A j, k \in 1..Num(l) : j < k => st[j] + Len(File(l, j)) <= st[k]

Starts(l) ==
  [k \in 1..Num(l) |-> IF File(l, k) # <<>> THEN File(l, k)[1].index
                       ELSE IF k = 1 THEN 1
                       ELSE File(l, k - 1)[1].index + Len(File(l, k - 1))]

Wf(l) == Chain(l, Starts(l)) /\ Used(l)

\* The first index, and the one after the last.
Lo(l) == Starts(l)[1]
Hi(l) == Starts(l)[Num(l)] + Len(l.current)

\* Entry i is in file k.
In(l, k, i) == /\ k \in 1..Num(l)
               /\ Starts(l)[k] <= i
               /\ i < Starts(l)[k] + Len(File(l, k))
At(l, k, i) == File(l, k)[i - Starts(l)[k] + 1]

\* What m holds up to index c comes from l: the same term, the same data or none,
\* in a file that begins with the same index and is the first if it was.
SameSlot(e, d) == e.index = d.index /\ e.term = d.term /\ e.data \in {d.data, NoData}
Keeps(l, m, c) ==
  \A k \in 1..Num(m), i \in Nat :
    i <= c /\ In(m, k, i) =>
      \E j \in 1..Num(l) : /\ In(l, j, i)
                           /\ Starts(m)[k] = Starts(l)[j]
                           /\ j = 1 => k = 1
                           /\ SameSlot(At(m, k, i), At(l, j, i))
-----------------------------------------------------------------------------
(* Numbers.                                                                *)

\* A nonempty set of natural numbers has a least element: what takes the place
\* of induction below.
LEMMA LeastElement ==
  ASSUME NEW T, T \subseteq Nat, T # {}
  PROVE  \E x \in T : \A y \in T : x <= y
<1> DEFINE R == OpToRel(<, Nat)
<1>1. IsWellFoundedOn(R, Nat)
  BY NatLessThanWellFounded
<1> HIDE DEF R
<1>2. PICK x \in T : \A y \in T : ~(<<y, x>> \in R)
  BY <1>1, WFMin
<1>3. ASSUME NEW y \in T
      PROVE  x <= y
  <2>1. ~(<<y, x>> \in R) /\ x \in Nat /\ y \in Nat
    BY <1>2
  <2>2. ~(y < x)
    BY <2>1 DEF R, OpToRel
  <2> QED
    BY <2>1, <2>2
<1> QED
  BY <1>2, <1>3

LEMMA MinIs ==
  ASSUME NEW S, S \subseteq Int, NEW m \in S, \A y \in S : m <= y
  PROVE  Min(S) = m
<1>1. \A x \in S : (\A y \in S : x <= y) => x = m
  OBVIOUS
<1>2. \E x \in S : \A y \in S : x <= y
  OBVIOUS
<1>3. Min(S) \in S /\ \A y \in S : Min(S) <= y
  BY <1>2 DEF Min
<1> QED
  BY <1>1, <1>3

LEMMA MaxIs ==
  ASSUME NEW S, S \subseteq Int, NEW m \in S, \A y \in S : m >= y
  PROVE  Max(S) = m
<1>1. \A x \in S : (\A y \in S : x >= y) => x = m
  OBVIOUS
<1>2. \E x \in S : \A y \in S : x >= y
  OBVIOUS
<1>3. Max(S) \in S /\ \A y \in S : Max(S) >= y
  BY <1>2 DEF Max
<1> QED
  BY <1>1, <1>3

-----------------------------------------------------------------------------
(* Filter.                                                                 *)

\* f is the function Filter computes for the first n elements of s.
IsFilter(f, s, S, n) ==
  f = [k \in 0..n |-> IF k = 0 THEN <<>>
                      ELSE IF s[k] \in S THEN Append(f[k - 1], s[k])
                      ELSE f[k - 1]]

LEMMA FilterExists ==
  ASSUME NEW s, NEW S, NEW n \in Nat
  PROVE  \E f : IsFilter(f, s, S, n)
<1> DEFINE T == {m \in Nat : ~ \E f : IsFilter(f, s, S, m)}
<1>1. SUFFICES ASSUME T # {} PROVE FALSE
  OBVIOUS
<1>2. PICK m \in T : \A y \in T : m <= y
  BY <1>1, LeastElement
<1>3. m \in Nat /\ ~ \E f : IsFilter(f, s, S, m)
  OBVIOUS
<1>4. m # 0
  <2>1. SUFFICES ASSUME m = 0 PROVE FALSE
    OBVIOUS
  <2> DEFINE g == [k \in 0..0 |-> <<>>]
  <2>2. IsFilter(g, s, S, 0)
    BY DEF IsFilter
  <2> QED
    BY <1>3, <2>1, <2>2
<1>5. m - 1 \in Nat /\ m - 1 \notin T
  BY <1>2, <1>3, <1>4
<1>6. PICK f : IsFilter(f, s, S, m - 1)
  BY <1>5
<1> DEFINE last == IF s[m] \in S THEN Append(f[m - 1], s[m]) ELSE f[m - 1]
           g == [k \in 0..m |-> IF k = m THEN last ELSE f[k]]
<1>7. ASSUME NEW k \in 0..m
      PROVE  g[k] = IF k = 0 THEN <<>>
                    ELSE IF s[k] \in S THEN Append(g[k - 1], s[k])
                    ELSE g[k - 1]
  <2>1. k # 0 => k - 1 \in 0..m /\ k - 1 # m
    BY <1>3
  <2>2. k # 0 => g[k - 1] = f[k - 1]
    BY <2>1
  <2>3. CASE k = m
    BY <1>4, <2>2, <2>3
  <2>4. CASE k # m
    <3>1. k \in 0..(m - 1)
      BY <1>3, <2>4
    <3>2. f[k] = IF k = 0 THEN <<>>
                 ELSE IF s[k] \in S THEN Append(f[k - 1], s[k])
                 ELSE f[k - 1]
      BY <1>6, <3>1 DEF IsFilter
    <3> QED
      BY <2>2, <2>4, <3>2
  <2> QED
    BY <2>3, <2>4
<1>8. IsFilter(g, s, S, m)
  BY <1>7 DEF IsFilter
<1> QED
  BY <1>3, <1>8

LEMMA FilterIs ==
  ASSUME NEW s, NEW S, Len(s) \in Nat
  PROVE  \E f : IsFilter(f, s, S, Len(s)) /\ Filter(s, S) = f[Len(s)]
<1> DEFINE H == CHOOSE f : IsFilter(f, s, S, Len(s))
<1>1. IsFilter(H, s, S, Len(s))
  BY FilterExists, Zenon
<1>2. Filter(s, S) = H[Len(s)]
  BY DEF Filter, IsFilter
<1> QED
  BY <1>1, <1>2

\* Filter only drops elements.
LEMMA FilterRange ==
  ASSUME NEW E, NEW s \in Seq(E), NEW S
  PROVE  /\ Filter(s, S) \in Seq(E)
         /\ \A x \in 1..Len(Filter(s, S)) : \E y \in 1..Len(s) : Filter(s, S)[x] = s[y]
<1>0. Len(s) \in Nat
  OBVIOUS
<1>1. PICK f : IsFilter(f, s, S, Len(s)) /\ Filter(s, S) = f[Len(s)]
  BY <1>0, FilterIs
<1>2. \A k \in 0..Len(s) : f[k] = IF k = 0 THEN <<>>
                                  ELSE IF s[k] \in S THEN Append(f[k - 1], s[k])
                                  ELSE f[k - 1]
  BY <1>1, Zenon DEF IsFilter
<1> DEFINE Good(k) == /\ f[k] \in Seq(E)
                      /\ \A x \in 1..Len(f[k]) : \E y \in 1..Len(s) : f[k][x] = s[y]
           T == {k \in 0..Len(s) : ~Good(k)}
<1>3. SUFFICES ASSUME T # {} PROVE FALSE
  <2>1. Len(s) \in 0..Len(s)
    BY <1>0
  <2>2. Good(Len(s))
    BY <1>3, <2>1
  <2> QED
    BY <1>1, <2>2
<1>4. PICK m \in T : \A y \in T : m <= y
  <2>1. T \subseteq Nat
    BY <1>0
  <2> HIDE DEF T
  <2> QED
    BY <1>3, <2>1, LeastElement
<1>5. m \in 0..Len(s) /\ ~Good(m)
  OBVIOUS
<1>6. m # 0
  <2>1. SUFFICES ASSUME m = 0 PROVE FALSE
    OBVIOUS
  <2>2. f[0] = <<>>
    BY <1>0, <1>2
  <2> QED
    BY <1>5, <2>1, <2>2
<1>7. m - 1 \in 0..Len(s) /\ m \in 1..Len(s)
  BY <1>0, <1>5, <1>6
<1>8. Good(m - 1)
  BY <1>0, <1>4, <1>7
<1>9. CASE s[m] \in S
  <2>1. f[m] = Append(f[m - 1], s[m])
    BY <1>2, <1>5, <1>6, <1>9
  <2>2. s[m] \in E
    BY <1>7
  <2> QED
    BY <1>5, <1>7, <1>8, <2>1, <2>2, SMTT(30)
<1>10. CASE s[m] \notin S
  <2>1. f[m] = f[m - 1]
    BY <1>2, <1>5, <1>6, <1>10
  <2> QED
    BY <1>5, <1>8, <2>1
<1> QED
  BY <1>9, <1>10

\* Filter keeps the elements before the first one it drops.
LEMMA FilterAll ==
  ASSUME NEW E, NEW s \in Seq(E), NEW S, NEW n \in 0..Len(s),
         \A k \in 1..n : s[k] \in S,
         \A k \in (n + 1)..Len(s) : s[k] \notin S
  PROVE  Filter(s, S) = SubSeq(s, 1, n)
<1>0. Len(s) \in Nat
  OBVIOUS
<1>1. PICK f : IsFilter(f, s, S, Len(s)) /\ Filter(s, S) = f[Len(s)]
  BY <1>0, FilterIs
<1>2. \A k \in 0..Len(s) : f[k] = IF k = 0 THEN <<>>
                                  ELSE IF s[k] \in S THEN Append(f[k - 1], s[k])
                                  ELSE f[k - 1]
  BY <1>1, Zenon DEF IsFilter
<1> DEFINE Good(k) == f[k] = SubSeq(s, 1, IF k <= n THEN k ELSE n)
           T == {k \in 0..Len(s) : ~Good(k)}
<1>3. SUFFICES ASSUME T # {} PROVE FALSE
  <2>1. Len(s) \in 0..Len(s)
    BY <1>0
  <2>2. Good(Len(s))
    BY <1>3, <2>1
  <2>3. Len(s) <= n => n = Len(s)
    BY <1>0
  <2> QED
    BY <1>1, <2>2, <2>3
<1>4. PICK m \in T : \A y \in T : m <= y
  <2>1. T \subseteq Nat
    BY <1>0
  <2> HIDE DEF T
  <2> QED
    BY <1>3, <2>1, LeastElement
<1>5. m \in 0..Len(s) /\ ~Good(m)
  OBVIOUS
<1>6. m # 0
  <2>1. SUFFICES ASSUME m = 0 PROVE FALSE
    OBVIOUS
  <2>2. f[0] = <<>>
    BY <1>2, <1>0
  <2>3. SubSeq(s, 1, 0) = <<>>
    OBVIOUS
  <2> QED
    BY <1>5, <2>1, <2>2, <2>3
<1>7. m - 1 \in 0..Len(s) /\ m \in 1..Len(s)
  BY <1>0, <1>5, <1>6
<1>8. Good(m - 1)
  BY <1>0, <1>4, <1>7
<1>9. CASE m <= n
  <2>0. s[m] \in S
    BY <1>7, <1>9
  <2>1. f[m] = Append(f[m - 1], s[m])
    BY <1>2, <1>5, <1>6, <2>0
  <2>2. f[m - 1] = SubSeq(s, 1, m - 1)
    BY <1>7, <1>8, <1>9
  <2>3. SubSeq(s, 1, m) = Append(SubSeq(s, 1, m - 1), s[m])
    BY <1>7
  <2> QED
    BY <1>5, <1>9, <2>1, <2>2, <2>3
<1>10. CASE m > n
  <2>1. s[m] \notin S
    BY <1>7, <1>10
  <2>2. f[m] = f[m - 1]
    BY <1>2, <1>5, <1>6, <2>1
  <2>3. m - 1 <= n => m - 1 = n
    BY <1>7, <1>10
  <2> QED
    BY <1>5, <1>8, <1>10, <1>7, <2>2, <2>3
<1> QED
  BY <1>7, <1>9, <1>10

-----------------------------------------------------------------------------
(* Joined.                                                                 *)

\* f is the function Joined computes for the first n files.
IsJoin(f, fs, n) == f = [k \in 0..n |-> IF k = 0 THEN <<>> ELSE f[k - 1] \o fs[k]]

LEMMA JoinExists ==
  ASSUME NEW fs, NEW n \in Nat
  PROVE  \E f : IsJoin(f, fs, n)
<1> DEFINE T == {m \in Nat : ~ \E f : IsJoin(f, fs, m)}
<1>1. SUFFICES ASSUME T # {} PROVE FALSE
  OBVIOUS
<1>2. PICK m \in T : \A y \in T : m <= y
  BY <1>1, LeastElement
<1>3. m \in Nat /\ ~ \E f : IsJoin(f, fs, m)
  OBVIOUS
<1>4. m # 0
  <2>1. SUFFICES ASSUME m = 0 PROVE FALSE
    OBVIOUS
  <2> DEFINE g == [k \in 0..0 |-> <<>>]
  <2>2. IsJoin(g, fs, 0)
    BY DEF IsJoin
  <2> QED
    BY <1>3, <2>1, <2>2
<1>5. m - 1 \in Nat /\ m - 1 \notin T
  BY <1>2, <1>3, <1>4
<1>6. PICK f : IsJoin(f, fs, m - 1)
  BY <1>5
<1> DEFINE g == [k \in 0..m |-> IF k = m THEN f[m - 1] \o fs[m] ELSE f[k]]
<1>7. ASSUME NEW k \in 0..m
      PROVE  g[k] = IF k = 0 THEN <<>> ELSE g[k - 1] \o fs[k]
  <2>1. k # 0 => k - 1 \in 0..m /\ k - 1 # m
    BY <1>3
  <2>2. k # 0 => g[k - 1] = f[k - 1]
    BY <2>1
  <2>3. CASE k = m
    BY <1>4, <2>2, <2>3
  <2>4. CASE k # m
    <3>1. k \in 0..(m - 1)
      BY <1>3, <2>4
    <3>2. f[k] = IF k = 0 THEN <<>> ELSE f[k - 1] \o fs[k]
      BY <1>6, <3>1 DEF IsJoin
    <3> QED
      BY <2>2, <2>4, <3>2
  <2> QED
    BY <2>3, <2>4
<1>8. IsJoin(g, fs, m)
  BY <1>7 DEF IsJoin
<1> QED
  BY <1>3, <1>8

LEMMA JoinedIs ==
  ASSUME NEW fs, Len(fs) \in Nat
  PROVE  \E f : IsJoin(f, fs, Len(fs)) /\ Joined(fs) = f[Len(fs)]
<1> DEFINE H == CHOOSE f : IsJoin(f, fs, Len(fs))
<1>1. IsJoin(H, fs, Len(fs))
  BY JoinExists, Zenon
<1>2. Joined(fs) = H[Len(fs)]
  BY DEF Joined, IsJoin
<1> QED
  BY <1>1, <1>2

\* Of files that begin at st[1], st[2], ... every slot is where it should be.
LEMMA JoinedSlots ==
  ASSUME NEW E, NEW fs \in Seq(Seq(E)), NEW st \in [1..(Len(fs) + 1) -> Nat],
         \A k \in 1..Len(fs) : st[k + 1] = st[k] + Len(fs[k])
  PROVE  /\ Joined(fs) \in Seq(E)
         /\ Len(Joined(fs)) = st[Len(fs) + 1] - st[1]
         /\ \A y \in 1..Len(Joined(fs)) : \E k \in 1..Len(fs) :
              /\ st[k] - st[1] < y /\ y <= st[k] - st[1] + Len(fs[k])
              /\ Joined(fs)[y] = fs[k][y - (st[k] - st[1])]
<1>0. Len(fs) \in Nat
  OBVIOUS
<1>1. PICK f : IsJoin(f, fs, Len(fs)) /\ Joined(fs) = f[Len(fs)]
  BY <1>0, JoinedIs
<1>2. \A k \in 0..Len(fs) : f[k] = IF k = 0 THEN <<>> ELSE f[k - 1] \o fs[k]
  BY <1>1, Zenon DEF IsJoin
<1> DEFINE Good(n) == /\ f[n] \in Seq(E)
                      /\ Len(f[n]) = st[n + 1] - st[1]
                      /\ \A y \in 1..Len(f[n]) : \E k \in 1..n :
                           /\ st[k] - st[1] < y /\ y <= st[k] - st[1] + Len(fs[k])
                           /\ f[n][y] = fs[k][y - (st[k] - st[1])]
           T == {k \in 0..Len(fs) : ~Good(k)}
<1>3. SUFFICES ASSUME T # {} PROVE FALSE
  <2>1. Len(fs) \in 0..Len(fs)
    BY <1>0
  <2>2. Good(Len(fs))
    BY <1>3, <2>1
  <2> QED
    <3> DEFINE Fits(j) == /\ j \in Seq(E)
                          /\ Len(j) = st[Len(fs) + 1] - st[1]
                          /\ \A y \in 1..Len(j) : \E k \in 1..Len(fs) :
                               /\ st[k] - st[1] < y /\ y <= st[k] - st[1] + Len(fs[k])
                               /\ j[y] = fs[k][y - (st[k] - st[1])]
    <3>1. Fits(f[Len(fs)])
      BY <2>2
    <3> HIDE DEF Fits
    <3>2. Fits(Joined(fs))
      BY <1>1, <3>1
    <3> QED
      BY <3>2 DEF Fits
<1>4. PICK m \in T : \A y \in T : m <= y
  <2>1. T \subseteq Nat
    BY <1>0
  <2> HIDE DEF T
  <2> QED
    BY <1>3, <2>1, LeastElement
<1>5. m \in 0..Len(fs) /\ ~Good(m)
  OBVIOUS
<1>6. m # 0
  <2>1. SUFFICES ASSUME m = 0 PROVE FALSE
    OBVIOUS
  <2>0. 1 \in 1..(Len(fs) + 1) /\ 0 \in 0..Len(fs)
    BY <1>0
  <2>2. f[0] = <<>> /\ st[1] \in Nat
    BY <1>2, <2>0
  <2>3. f[0] \in Seq(E) /\ Len(f[0]) = 0 /\ 1..Len(f[0]) = {}
    BY <2>2
  <2>4. Len(f[0]) = st[0 + 1] - st[1]
    BY <2>2, <2>3
  <2>5. Good(0)
    BY <2>3, <2>4
  <2> QED
    BY <1>5, <2>1, <2>5
<1>7. m - 1 \in 0..Len(fs) /\ m \in 1..Len(fs)
  BY <1>0, <1>5, <1>6
<1>8. Good(m - 1)
  BY <1>0, <1>4, <1>7
<1> HIDE DEF T
<1>9. f[m] = f[m - 1] \o fs[m]
  BY <1>2, <1>5, <1>6
<1>10. PICK a \in Seq(E), b \in Seq(E) : /\ a = f[m - 1] /\ b = fs[m]
                                         /\ Len(a) = st[m] - st[1]
                                         /\ st[m + 1] = st[m] + Len(b)
  <2>1. fs[m] \in Seq(E) /\ st[m + 1] = st[m] + Len(fs[m])
    BY <1>7
  <2>2. (m - 1) + 1 = m
    BY <1>7
  <2>3. f[m - 1] \in Seq(E) /\ Len(f[m - 1]) = st[m] - st[1]
    BY <1>8, <2>2
  <2> QED
    BY <2>1, <2>3
<1>11. /\ st[m] \in Nat /\ st[m + 1] \in Nat /\ st[1] \in Nat
       /\ Len(a) \in Nat /\ Len(b) \in Nat
  <2>1. m \in 1..(Len(fs) + 1) /\ m + 1 \in 1..(Len(fs) + 1) /\ 1 \in 1..(Len(fs) + 1)
    BY <1>0, <1>7
  <2>2. st[m] \in Nat /\ st[m + 1] \in Nat /\ st[1] \in Nat
    BY <2>1
  <2>3. Len(a) \in Nat /\ Len(b) \in Nat
    BY <1>10
  <2> QED
    BY <2>2, <2>3
<1>12. /\ f[m] = a \o b /\ f[m] \in Seq(E)
       /\ Len(f[m]) = Len(a) + Len(b) /\ Len(f[m]) = st[m + 1] - st[1]
  <2>1. f[m] = a \o b
    BY <1>9, <1>10
  <2>2. a \o b \in Seq(E) /\ Len(a \o b) = Len(a) + Len(b)
    BY ConcatProperties
  <2>3. Len(a) + Len(b) = st[m + 1] - st[1]
    BY <1>10, <1>11, SMTT(30)
  <2> QED
    BY <2>1, <2>2, <2>3
<1>13. ASSUME NEW y \in 1..Len(f[m])
       PROVE  \E k \in 1..m : /\ st[k] - st[1] < y /\ y <= st[k] - st[1] + Len(fs[k])
                              /\ f[m][y] = fs[k][y - (st[k] - st[1])]
  <2>1. CASE y <= Len(a)
    <3>1. y \in 1..Len(a) /\ f[m][y] = a[y]
      BY <1>11, <1>12, <2>1
    <3>2. PICK k \in 1..(m - 1) : /\ st[k] - st[1] < y /\ y <= st[k] - st[1] + Len(fs[k])
                                  /\ f[m - 1][y] = fs[k][y - (st[k] - st[1])]
      BY <1>8, <1>10, <3>1
    <3>3. k \in 1..m
      BY <1>7
    <3> QED
      BY <1>10, <3>1, <3>2, <3>3
  <2>2. CASE y > Len(a)
    <3>1. y - Len(a) \in 1..Len(b) /\ f[m][y] = b[y - Len(a)]
      BY <1>11, <1>12, <2>2
    <3>2. m \in 1..m
      BY <1>7
    <3>3. st[m] - st[1] < y /\ y <= st[m] - st[1] + Len(fs[m])
      BY <1>10, <1>11, <2>2, <3>1
    <3>4. f[m][y] = fs[m][y - (st[m] - st[1])]
      BY <1>10, <3>1
    <3> QED
      BY <3>2, <3>3, <3>4
  <2>3. y <= Len(a) \/ y > Len(a)
    BY <1>11
  <2> QED
    BY <2>1, <2>2, <2>3, Zenon
<1> QED
  BY <1>5, <1>12, <1>13

-----------------------------------------------------------------------------
(* Finding entries.                                                        *)

LEMMA Types ==
  ASSUME NEW l, NEW st, Chain(l, st)
  PROVE  /\ l.files \in Seq(Seq(Entry)) /\ l.current \in Seq(Entry)
         /\ Len(l.files) \in Nat /\ Num(l) \in Nat \ {0} /\ Num(l) = Len(l.files) + 1
         /\ Len(l.current) \in Nat /\ Num(l) \in 1..Num(l) /\ 1 \in 1..Num(l)
         /\ \A k \in 1..Num(l) : /\ File(l, k) \in Seq(Entry) /\ Len(File(l, k)) \in Nat
                                 /\ st[k] \in Nat \ {0}
         /\ File(l, Num(l)) = l.current
         /\ \A k \in 1..Len(l.files) : /\ k \in 1..Num(l) /\ k + 1 \in 1..Num(l) /\ k # Num(l)
                                       /\ File(l, k) = l.files[k]
<1>1. l.files \in Seq(Seq(Entry)) /\ l.current \in Seq(Entry)
  BY DEF Chain, LogType
<1>2. Len(l.files) \in Nat /\ Num(l) \in Nat \ {0} /\ Num(l) = Len(l.files) + 1
  BY <1>1 DEF Num
<1>3. \A k \in 1..Num(l) : st[k] \in Nat \ {0}
  BY DEF Chain
<1>4. \A k \in 1..Len(l.files) : /\ k \in 1..Num(l) /\ k + 1 \in 1..Num(l) /\ k # Num(l)
                                 /\ File(l, k) = l.files[k]
  BY <1>2 DEF File
<1>5. \A k \in 1..Num(l) : File(l, k) \in Seq(Entry)
  BY <1>1, <1>2 DEF File
<1> QED
  BY <1>1, <1>2, <1>3, <1>4, <1>5 DEF File

\* The starts of a log that is used are in its slots.
LEMMA StartsUnique ==
  ASSUME NEW l, NEW st, Chain(l, st), Used(l)
  PROVE  Starts(l) = st /\ Wf(l)
<1>1. ASSUME NEW k \in 1..Num(l)
      PROVE  Starts(l)[k] = st[k]
  <2>1. CASE File(l, k) # <<>>
    <3>1. Starts(l)[k] = File(l, k)[1].index
      BY <2>1 DEF Starts
    <3>2. 1 \in 1..Len(File(l, k))
      BY <2>1, Types
    <3> QED
      BY <3>1, <3>2, Types DEF Chain
  <2>2. CASE File(l, k) = <<>>
    <3>1. k = Num(l)
      BY <2>2, Types DEF Chain
    <3>2. k # 1
      BY <2>2, <3>1, Types DEF Used
    <3>3. k - 1 \in 1..Len(l.files)
      BY <3>1, <3>2, Types
    <3>4. Starts(l)[k] = File(l, k - 1)[1].index + Len(File(l, k - 1))
      BY <2>2, <3>2 DEF Starts
    <3>5. Len(File(l, k - 1)) > 0
      BY <3>3, Types DEF Chain
    <3>6. File(l, k - 1)[1].index = st[k - 1]
      <4>1. k - 1 \in 1..Num(l) /\ 1 \in 1..Len(File(l, k - 1)) /\ st[k - 1] \in Nat
        BY <3>3, <3>5, Types
      <4>2. File(l, k - 1)[1].index = st[k - 1] + 1 - 1
        BY <4>1 DEF Chain
      <4> QED
        BY <4>1, <4>2
    <3>7. st[(k - 1) + 1] = st[k - 1] + Len(File(l, k - 1))
      BY <3>3 DEF Chain
    <3> QED
      BY <3>1, <3>4, <3>6, <3>7, Types
  <2> QED
    BY <2>1, <2>2
<1>2. Starts(l) = [k \in 1..Num(l) |-> Starts(l)[k]]
  BY DEF Starts
<1>3. st = [k \in 1..Num(l) |-> st[k]]
  BY DEF Chain
<1>4. Starts(l) = st
  BY <1>1, <1>2, <1>3
<1> QED
  BY <1>4 DEF Wf

\* The facts about a log without gaps, one by one.
LEMMA WfFacts ==
  ASSUME NEW l, Wf(l)
  PROVE  /\ l.next = Len(l.current) /\ l \in LogType
         /\ \A k \in 1..Num(l) : Len(File(l, k)) <= MaxNumEntries
         /\ \A k \in 1..Num(l) : k # Num(l) => Len(File(l, k)) > 0
         /\ \A k \in 1..Num(l) : \A x \in 1..Len(File(l, k)) :
              File(l, k)[x].index = Starts(l)[k] + x - 1
         /\ \A k \in 1..Len(l.files) : Starts(l)[k + 1] = Starts(l)[k] + Len(File(l, k))
         /\ \A j, k \in 1..Num(l) : j < k => Starts(l)[j] + Len(File(l, j)) <= Starts(l)[k]
  BY DEF Wf, Chain

LEMMA WfTypes ==
  ASSUME NEW l, Wf(l)
  PROVE  /\ l.files \in Seq(Seq(Entry)) /\ l.current \in Seq(Entry)
         /\ Len(l.files) \in Nat /\ Num(l) \in Nat \ {0} /\ Num(l) = Len(l.files) + 1
         /\ Len(l.current) \in Nat /\ Num(l) \in 1..Num(l) /\ 1 \in 1..Num(l)
         /\ \A k \in 1..Num(l) : /\ File(l, k) \in Seq(Entry) /\ Len(File(l, k)) \in Nat
                                 /\ Starts(l)[k] \in Nat \ {0}
         /\ File(l, Num(l)) = l.current
         /\ \A k \in 1..Len(l.files) : /\ k \in 1..Num(l) /\ k + 1 \in 1..Num(l) /\ k # Num(l)
                                       /\ File(l, k) = l.files[k]
  BY Types DEF Wf

\* The numbers among them.
LEMMA WfNums ==
  ASSUME NEW l, Wf(l)
  PROVE  /\ Len(l.files) \in Nat /\ Num(l) = Len(l.files) + 1
         /\ \A k \in 1..Num(l) : Len(File(l, k)) \in Nat /\ Starts(l)[k] \in Nat \ {0}
  BY WfTypes

LEMMA LoHi ==
  ASSUME NEW l, Wf(l)
  PROVE  /\ Lo(l) \in Nat \ {0} /\ Hi(l) \in Nat /\ Lo(l) < Hi(l)
         /\ Hi(l) = Starts(l)[Num(l)] + Len(l.current)
         /\ \A k \in 1..Num(l) : /\ Lo(l) <= Starts(l)[k]
                                 /\ Starts(l)[k] + Len(File(l, k)) <= Hi(l)
<1>1. Lo(l) \in Nat \ {0} /\ Hi(l) \in Nat
  <2>1. 1 \in 1..Num(l) /\ Num(l) \in 1..Num(l) /\ Len(l.current) \in Nat
    BY WfTypes
  <2>2. Starts(l)[1] \in Nat \ {0} /\ Starts(l)[Num(l)] \in Nat \ {0}
    BY <2>1, WfNums
  <2> QED
    BY <2>1, <2>2 DEF Lo, Hi
<1>2. ASSUME NEW k \in 1..Num(l)
      PROVE  Lo(l) <= Starts(l)[k]
  <2>1. CASE k = 1
    BY <2>1, WfTypes DEF Lo
  <2>2. CASE k # 1
    <3>1. 1 < k
      BY <2>2, WfTypes
    <3>2. Starts(l)[1] + Len(File(l, 1)) <= Starts(l)[k]
      BY <3>1, WfTypes, WfFacts
    <3>3. 1 \in 1..Num(l)
      BY WfTypes
    <3>4. Len(File(l, 1)) \in Nat /\ Starts(l)[1] \in Nat /\ Starts(l)[k] \in Nat
      BY <3>3, WfNums
    <3>5. Starts(l)[1] <= Starts(l)[k]
      BY <3>2, <3>4
    <3> QED
      BY <3>5 DEF Lo
  <2> QED
    BY <2>1, <2>2
<1>3. ASSUME NEW k \in 1..Num(l)
      PROVE  Starts(l)[k] + Len(File(l, k)) <= Hi(l)
  <2>1. CASE k = Num(l)
    BY <2>1, WfTypes DEF Hi
  <2>2. CASE k # Num(l)
    <3>1. k < Num(l)
      BY <2>2, WfTypes
    <3>2. Starts(l)[k] + Len(File(l, k)) <= Starts(l)[Num(l)]
      BY <3>1, WfTypes, WfFacts
    <3> QED
      BY <3>2, WfTypes DEF Hi
  <2> QED
    BY <2>1, <2>2
<1>4. Lo(l) < Hi(l)
  <2>1. CASE Num(l) = 1
    <3>0. l.files = <<>>
      BY <2>1, WfTypes
    <3>1. l.current # <<>>
      BY <3>0 DEF Wf, Used
    <3>2. Len(l.current) > 0
      BY <3>1, WfTypes
    <3> QED
      BY <2>1, <3>2, WfTypes DEF Lo, Hi
  <2>2. CASE Num(l) # 1
    <3>1. Len(File(l, 1)) > 0
      BY <2>2, WfTypes, WfFacts
    <3>2. Starts(l)[1] + Len(File(l, 1)) <= Hi(l)
      BY <1>3, WfTypes
    <3> QED
      BY <1>1, <3>1, <3>2, WfTypes DEF Lo
  <2> QED
    BY <2>1, <2>2
<1> QED
  BY <1>1, <1>2, <1>3, <1>4 DEF Hi

LEMMA InFacts ==
  ASSUME NEW l, Wf(l), NEW k, NEW i \in Nat, In(l, k, i)
  PROVE  /\ k \in 1..Num(l) /\ i - Starts(l)[k] + 1 \in 1..Len(File(l, k))
         /\ At(l, k, i) \in Entry /\ At(l, k, i).index = i
         /\ Lo(l) <= i /\ i < Hi(l)
         /\ \A j \in 1..Num(l) : In(l, j, i) => j = k
<1>1. k \in 1..Num(l) /\ i - Starts(l)[k] + 1 \in 1..Len(File(l, k))
  BY WfTypes DEF In
<1>2. At(l, k, i) \in Entry
  BY <1>1, WfTypes DEF At
<1>3. At(l, k, i).index = Starts(l)[k] + (i - Starts(l)[k] + 1) - 1
  BY <1>1, WfFacts DEF At
<1>4. At(l, k, i).index = i
  BY <1>1, <1>3, WfTypes
<1>5. Lo(l) <= i /\ i < Hi(l)
  BY <1>1, LoHi, WfTypes DEF In
<1>6. ASSUME NEW j \in 1..Num(l), In(l, j, i), j # k
      PROVE  FALSE
  <2>1. CASE j < k
    <3>1. Starts(l)[j] + Len(File(l, j)) <= Starts(l)[k]
      BY <1>1, <2>1, WfFacts
    <3> QED
      BY <1>1, <1>6, <3>1, WfNums DEF In
  <2>2. CASE k < j
    <3>1. Starts(l)[k] + Len(File(l, k)) <= Starts(l)[j]
      BY <1>1, <2>2, WfFacts
    <3> QED
      BY <1>1, <1>6, <3>1, WfTypes, SMTT(30) DEF In
  <2> QED
    BY <1>1, <1>6, <2>1, <2>2, WfTypes
<1> QED
  BY <1>1, <1>2, <1>4, <1>5, <1>6

\* Every index between the first and the last is somewhere.
LEMMA Located ==
  ASSUME NEW l, Wf(l), NEW i \in Nat, Lo(l) <= i, i < Hi(l)
  PROVE  \E k \in 1..Num(l) : In(l, k, i)
<1> DEFINE T == {k \in 1..Num(l) : i < Starts(l)[k] + Len(File(l, k))}
<1>1. Num(l) \in T /\ T \subseteq Nat
  BY WfTypes DEF Hi
<1>2. PICK k \in T : \A y \in T : k <= y
  <2> HIDE DEF T
  <2> QED
    BY <1>1, LeastElement
<1>3. k \in 1..Num(l) /\ i < Starts(l)[k] + Len(File(l, k))
  OBVIOUS
<1>4. CASE k = 1
  BY <1>3, <1>4 DEF In, Lo
<1>5. CASE k # 1
  <2>1. k - 1 \in 1..Len(l.files) /\ k - 1 \notin T
    BY <1>2, <1>3, <1>5, WfTypes
  <2>2. Starts(l)[(k - 1) + 1] = Starts(l)[k - 1] + Len(File(l, k - 1))
    BY <2>1, WfFacts
  <2>3. ~(i < Starts(l)[k - 1] + Len(File(l, k - 1)))
    BY <2>1, WfTypes
  <2>4. Starts(l)[k] <= i
    BY <1>3, <2>1, <2>2, <2>3, WfTypes
  <2> QED
    BY <1>3, <2>4 DEF In
<1> QED
  BY <1>4, <1>5

\* slotGe of a file.
LEMMA FileSlot ==
  ASSUME NEW f \in Seq(Entry), f # <<>>, Len(f) <= MaxNumEntries,
         NEW s \in Nat \ {0}, \A x \in 1..Len(f) : f[x].index = s + x - 1,
         NEW i \in Nat
  PROVE  FileSlotGe(f, i) = IF i < s THEN -1 ELSE IF i < s + Len(f) THEN i - s ELSE Len(f)
<1>0. Len(f) \in Nat /\ Len(f) > 0 /\ MaxNumEntries \in Nat
  BY SlotsAssumption
<1>1. FirstOf(f) = s
  <2>1. 1 \in 1..Len(f)
    BY <1>0
  <2>2. f[1].index = s + 1 - 1
    BY <2>1
  <2> QED
    BY <2>2 DEF FirstOf
<1>2. CASE i < s
  BY <1>1, <1>2 DEF FileSlotGe
<1>3. CASE i >= s
  <2> DEFINE S == {k \in 0..(MaxNumEntries - 1) : k >= Len(f) \/ f[k + 1].index >= i}
                  \cup {MaxNumEntries}
             m == IF i < s + Len(f) THEN i - s ELSE Len(f)
  <2>1. FileSlotGe(f, i) = Min(S)
    BY <1>1, <1>3 DEF FileSlotGe
  <2>2. S \subseteq Int
    BY <1>0
  <2>3. m \in Nat /\ m <= Len(f)
    BY <1>0, <1>3
  <2>4. m \in S
    <3>1. CASE m = MaxNumEntries
      BY <3>1
    <3>2. CASE m # MaxNumEntries
      <4>1. m \in 0..(MaxNumEntries - 1)
        BY <1>0, <2>3, <3>2
      <4>2. CASE m = Len(f)
        BY <1>0, <4>1, <4>2
      <4>3. CASE m # Len(f)
        <5>1. m + 1 \in 1..Len(f) /\ m = i - s
          BY <1>0, <2>3, <4>3
        <5>2. f[m + 1].index = s + (m + 1) - 1
          BY <5>1
        <5>3. f[m + 1].index >= i
          BY <1>3, <5>1, <5>2
        <5> QED
          BY <4>1, <5>3
      <4> QED
        BY <4>2, <4>3
    <3> QED
      BY <3>1, <3>2
  <2>5. ASSUME NEW y \in S
        PROVE  m <= y
    <3>1. CASE y = MaxNumEntries
      BY <1>0, <2>3, <3>1
    <3>2. CASE y \in Nat /\ y >= Len(f)
      BY <1>0, <2>3, <3>2
    <3>3. CASE y \in Nat /\ y < Len(f) /\ f[y + 1].index >= i
      <4>1. y + 1 \in 1..Len(f)
        BY <1>0, <3>3
      <4>2. f[y + 1].index = s + (y + 1) - 1
        BY <4>1
      <4> QED
        BY <1>0, <1>3, <3>3, <4>2
    <3> QED
      BY <1>0, <3>1, <3>2, <3>3
  <2> HIDE DEF S, m
  <2>6. Min(S) = m
    BY <2>2, <2>4, <2>5, MinIs
  <2> QED
    BY <1>3, <2>1, <2>6 DEF m
<1> QED
  BY <1>0, <1>2, <1>3

LEMMA FileSlotOf ==
  ASSUME NEW l, Wf(l), NEW k \in 1..Num(l), File(l, k) # <<>>, NEW i \in Nat
  PROVE  FileSlotGe(File(l, k), i) =
           IF i < Starts(l)[k] THEN -1
           ELSE IF i < Starts(l)[k] + Len(File(l, k)) THEN i - Starts(l)[k]
           ELSE Len(File(l, k))
<1>1. /\ File(l, k) \in Seq(Entry) /\ Starts(l)[k] \in Nat \ {0}
      /\ Len(File(l, k)) <= MaxNumEntries
      /\ \A x \in 1..Len(File(l, k)) : File(l, k)[x].index = Starts(l)[k] + x - 1
  BY WfTypes, WfFacts
<1> QED
  BY <1>1, FileSlot

LEMMA FirstOfFile ==
  ASSUME NEW l, Wf(l), NEW k \in 1..Num(l), File(l, k) # <<>>
  PROVE  FirstOf(File(l, k)) = Starts(l)[k]
<1>1. 1 \in 1..Len(File(l, k)) /\ Starts(l)[k] \in Nat
  BY WfTypes
<1>2. File(l, k)[1].index = Starts(l)[k] + 1 - 1
  BY <1>1, WfFacts
<1> QED
  BY <1>1, <1>2 DEF FirstOf

\* The order of two files of the list.
LEMMA StartsAscend ==
  ASSUME NEW l, Wf(l), NEW j \in 1..Num(l), NEW k \in 1..Num(l), j < k
  PROVE  Starts(l)[j] < Starts(l)[k]
<1>1. Len(File(l, j)) > 0
  BY WfTypes, WfFacts
<1>2. Starts(l)[j] + Len(File(l, j)) <= Starts(l)[k]
  BY WfFacts
<1>3. Len(File(l, j)) \in Nat /\ Starts(l)[j] \in Nat /\ Starts(l)[k] \in Nat
  BY WfNums
<1> QED
  BY <1>1, <1>2, <1>3

\* slotGe for an index that is not in the current file: k is the last file that
\* does not begin after it.
LEMMA SlotInFiles ==
  ASSUME NEW l, Wf(l), NEW i \in Nat, FileSlotGe(l.current, i) = -1,
         NEW k \in 1..Len(l.files), Starts(l)[k] <= i,
         k = Len(l.files) \/ i < Starts(l)[k + 1]
  PROVE  SlotGe(l, i) = <<k - 1, FileSlotGe(File(l, k), i)>>
<1> DEFINE n == Len(l.files)
           S == {x \in 0..(n - 1) : FirstOf(l.files[x + 1]) >= i} \cup {n}
           ge == Min(S)
           back == IF ge > 0 THEN ge - 1 ELSE ge
<1>0. n \in Nat /\ n > 0 /\ k \in Nat /\ k >= 1 /\ k <= n
  BY WfTypes
<1>1. SlotGe(l, i) = IF ge < n /\ FirstOf(l.files[ge + 1]) = i THEN <<ge, 0>>
                     ELSE <<back, FileSlotGe(l.files[back + 1], i)>>
  <2>1. ~(FileSlotGe(l.current, i) >= 0) /\ n # 0
    BY <1>0
  <2> QED
    BY <2>1 DEF SlotGe
<1>2. \A x \in 0..(n - 1) : /\ x + 1 \in 1..n /\ x + 1 \in 1..Num(l)
                            /\ File(l, x + 1) = l.files[x + 1]
                            /\ FirstOf(l.files[x + 1]) = Starts(l)[x + 1]
                            /\ Starts(l)[x + 1] \in Nat
  <2>1. ASSUME NEW x \in 0..(n - 1)
        PROVE  x + 1 \in 1..n /\ x + 1 \in 1..Num(l) /\ x + 1 # Num(l)
    BY <1>0, WfTypes
  <2>2. ASSUME NEW x \in 0..(n - 1)
        PROVE  File(l, x + 1) # <<>> /\ File(l, x + 1) = l.files[x + 1]
    <3>1. x + 1 \in 1..Num(l) /\ x + 1 # Num(l) /\ x + 1 \in 1..Len(l.files)
      BY <1>0, <2>1, <2>2
    <3>2. File(l, x + 1) = l.files[x + 1] /\ Len(File(l, x + 1)) > 0
      BY <3>1, WfTypes, WfFacts
    <3> QED
      BY <3>2
  <2>3. ASSUME NEW x \in 0..(n - 1)
        PROVE  FirstOf(File(l, x + 1)) = Starts(l)[x + 1] /\ Starts(l)[x + 1] \in Nat
    BY <2>1, <2>2, FirstOfFile, WfNums
  <2> QED
    BY <2>1, <2>2, <2>3
<1>3. S \subseteq Int
  BY <1>0
<1>4. Starts(l)[k] \in Nat /\ k \in 1..Num(l) /\ File(l, k) = l.files[k] /\ File(l, k) # <<>>
  <2>1. k \in 1..Num(l) /\ k # Num(l) /\ File(l, k) = l.files[k]
    BY WfTypes
  <2>2. Len(File(l, k)) > 0
    BY <2>1, WfFacts
  <2>3. File(l, k) # <<>>
    BY <2>2
  <2> QED
    BY <2>1, <2>3, WfNums
<1>5. CASE Starts(l)[k] = i
  <2>1. k - 1 \in S /\ k - 1 \in 0..(n - 1)
    BY <1>0, <1>2, <1>4, <1>5
  <2>2. ASSUME NEW y \in S
        PROVE  k - 1 <= y
    <3>1. SUFFICES ASSUME y < k - 1 PROVE FALSE
      BY <1>0
    <3>2. y \in 0..(n - 1) /\ FirstOf(l.files[y + 1]) >= i
      BY <1>0, <3>1
    <3>3. y + 1 \in 1..Num(l) /\ y + 1 < k
      BY <1>0, <1>2, <3>1, <3>2
    <3>4. Starts(l)[y + 1] < Starts(l)[k]
      BY <1>4, <3>3, StartsAscend
    <3> QED
      BY <1>2, <1>4, <1>5, <3>2, <3>4
  <2>3. ge = k - 1
    <3> HIDE DEF S
    <3> QED
      BY <1>3, <2>1, <2>2, MinIs
  <2>4. FirstOf(l.files[(k - 1) + 1]) = i /\ (k - 1) + 1 = k
    BY <1>0, <1>2, <1>5, <2>1
  <2>5. SlotGe(l, i) = <<k - 1, 0>>
    <3> HIDE DEF S, ge
    <3> QED
      BY <1>0, <1>1, <2>3, <2>4
  <2>6. FileSlotGe(File(l, k), i) = 0
    <3>1. i < Starts(l)[k] + Len(File(l, k)) /\ i - Starts(l)[k] = 0
      BY <1>4, <1>5, WfTypes
    <3> QED
      BY <1>4, <1>5, <3>1, FileSlotOf
  <2> QED
    BY <2>5, <2>6
<1>6. CASE Starts(l)[k] # i
  <2>0. Starts(l)[k] < i
    BY <1>4, <1>6
  <2>1. k \in S /\ (k < n => FirstOf(l.files[k + 1]) # i)
    <3>1. CASE k = n
      BY <3>1
    <3>2. CASE k # n
      <4>1. k \in 0..(n - 1)
        BY <1>0, <3>2
      <4>2. FirstOf(l.files[k + 1]) = Starts(l)[k + 1] /\ Starts(l)[k + 1] \in Nat
        BY <1>2, <4>1
      <4>3. i < Starts(l)[k + 1]
        BY <3>2
      <4> QED
        BY <4>1, <4>2, <4>3
    <3> QED
      BY <3>1, <3>2
  <2>2. ASSUME NEW y \in S
        PROVE  k <= y
    <3>1. SUFFICES ASSUME y < k PROVE FALSE
      BY <1>0
    <3>2. y \in 0..(n - 1) /\ FirstOf(l.files[y + 1]) >= i
      BY <1>0, <3>1
    <3>3. y + 1 \in 1..Num(l) /\ (y + 1 < k \/ y + 1 = k)
      BY <1>0, <1>2, <3>1, <3>2
    <3>4. Starts(l)[y + 1] <= Starts(l)[k]
      <4>1. CASE y + 1 < k
        BY <1>2, <1>4, <3>2, <3>3, <4>1, StartsAscend
      <4>2. CASE y + 1 = k
        BY <1>4, <4>2
      <4> QED
        BY <3>3, <4>1, <4>2
    <3> QED
      BY <1>2, <1>4, <2>0, <3>2, <3>4, SMTT(30)
  <2>3. ge = k
    <3> HIDE DEF S
    <3> QED
      BY <1>3, <2>1, <2>2, MinIs
  <2>4. back = k - 1 /\ (k - 1) + 1 = k
    <3> HIDE DEF S, ge
    <3> QED
      BY <1>0, <2>3
  <2>5. SlotGe(l, i) = <<k - 1, FileSlotGe(l.files[k], i)>>
    <3> HIDE DEF S, ge, back
    <3> QED
      BY <1>1, <2>1, <2>3, <2>4
  <2> QED
    BY <1>4, <2>5
<1> QED
  BY <1>5, <1>6

LEMMA SlotIn ==
  ASSUME NEW l, Wf(l), NEW i \in Nat, NEW k, In(l, k, i)
  PROVE  SlotGe(l, i) = <<IF k = Num(l) THEN -1 ELSE k - 1, i - Starts(l)[k]>>
<1>1. k \in 1..Num(l) /\ Starts(l)[k] <= i /\ i < Starts(l)[k] + Len(File(l, k))
  BY DEF In
<1>2. File(l, k) # <<>> /\ Starts(l)[k] \in Nat
  BY <1>1, WfTypes
<1>3. FileSlotGe(File(l, k), i) = i - Starts(l)[k] /\ i - Starts(l)[k] >= 0
  BY <1>1, <1>2, FileSlotOf
<1>4. CASE k = Num(l)
  <2>1. FileSlotGe(l.current, i) >= 0 /\ FileSlotGe(l.current, i) = i - Starts(l)[k]
    BY <1>3, <1>4, WfTypes
  <2> QED
    BY <1>4, <2>1 DEF SlotGe
<1>5. CASE k # Num(l)
  <2>1. k \in 1..Len(l.files) /\ k < Num(l)
    BY <1>1, <1>5, WfTypes
  <2>2. Starts(l)[k] + Len(File(l, k)) <= Starts(l)[Num(l)]
    BY <1>1, <2>1, WfFacts, WfTypes
  <2>3. i < Starts(l)[Num(l)]
    BY <1>1, <1>2, <2>2, WfTypes
  <2>4. FileSlotGe(l.current, i) = -1
    <3>1. CASE l.current = <<>>
      BY <3>1 DEF FileSlotGe
    <3>2. CASE l.current # <<>>
      BY <2>3, <3>2, FileSlotOf, WfTypes
    <3> QED
      BY <3>1, <3>2
  <2>5. Starts(l)[k + 1] = Starts(l)[k] + Len(File(l, k))
    BY <2>1, WfFacts
  <2>6. SlotGe(l, i) = <<k - 1, FileSlotGe(File(l, k), i)>>
    BY <1>1, <2>1, <2>4, <2>5, SlotInFiles
  <2> QED
    BY <1>3, <1>5, <2>6
<1> QED
  BY <1>4, <1>5

LEMMA SlotAbove ==
  ASSUME NEW l, Wf(l), NEW i \in Nat, i >= Hi(l)
  PROVE  \/ l.current # <<>> /\ SlotGe(l, i) = <<-1, Len(l.current)>>
         \/ /\ l.current = <<>> /\ Len(l.files) \in 1..Len(l.files)
            /\ SlotGe(l, i) = <<Len(l.files) - 1, Len(File(l, Len(l.files)))>>
<1>0. Hi(l) = Starts(l)[Num(l)] + Len(l.current) /\ Starts(l)[Num(l)] \in Nat
  BY WfTypes, LoHi
<1>1. CASE l.current # <<>>
  <2>1. FileSlotGe(l.current, i) = Len(l.current) /\ Len(l.current) >= 0
    BY <1>0, <1>1, FileSlotOf, WfTypes
  <2> QED
    BY <1>1, <2>1 DEF SlotGe
<1>2. CASE l.current = <<>>
  <2> DEFINE n == Len(l.files)
  <2>1. FileSlotGe(l.current, i) = -1
    BY <1>2 DEF FileSlotGe
  <2>2. l.files # <<>>
    BY <1>2 DEF Wf, Used
  <2>3. n \in 1..n /\ n \in 1..Num(l) /\ n # Num(l) /\ Num(l) = n + 1
    BY <2>2, WfTypes
  <2>4. Starts(l)[n + 1] = Starts(l)[n] + Len(File(l, n)) /\ File(l, n) # <<>>
    BY <2>3, WfFacts, WfTypes
  <2>5. Starts(l)[n] + Len(File(l, n)) <= i /\ Starts(l)[n] <= i /\ Starts(l)[n] \in Nat
    <3>1. Len(File(l, n)) \in Nat /\ Starts(l)[n] \in Nat
      BY <2>3, WfNums
    <3>2. Len(l.current) = 0
      BY <1>2
    <3>3. Starts(l)[n] + Len(File(l, n)) = Hi(l)
      BY <1>0, <2>3, <2>4, <3>2
    <3> HIDE DEF n
    <3> QED
      BY <3>1, <3>3
  <2>6. SlotGe(l, i) = <<n - 1, FileSlotGe(File(l, n), i)>>
    BY <2>1, <2>3, <2>5, SlotInFiles
  <2>7. FileSlotGe(File(l, n), i) = Len(File(l, n))
    BY <2>3, <2>4, <2>5, FileSlotOf, WfTypes
  <2> QED
    BY <1>2, <2>3, <2>6, <2>7
<1> QED
  BY <1>1, <1>2

LEMMA SlotBelow ==
  ASSUME NEW l, Wf(l), NEW i \in Nat, i < Lo(l)
  PROVE  SlotGe(l, i) = <<IF Num(l) = 1 THEN -1 ELSE 0, -1>>
<1>1. ASSUME NEW k \in 1..Num(l)
      PROVE  i < Starts(l)[k]
  <2>1. Lo(l) <= Starts(l)[k] /\ Lo(l) \in Nat
    BY LoHi
  <2>2. Starts(l)[k] \in Nat
    BY WfNums
  <2> QED
    BY <2>1, <2>2
<1>2. FileSlotGe(l.current, i) = -1
  <2>1. CASE l.current = <<>>
    BY <2>1 DEF FileSlotGe
  <2>2. CASE l.current # <<>>
    BY <1>1, <2>2, FileSlotOf, WfTypes
  <2> QED
    BY <2>1, <2>2
<1>3. CASE Num(l) = 1
  <2>1. Len(l.files) = 0
    BY <1>3, WfTypes
  <2> QED
    BY <1>2, <1>3, <2>1 DEF SlotGe
<1>4. CASE Num(l) # 1
  <2> DEFINE n == Len(l.files)
             S == {x \in 0..(n - 1) : FirstOf(l.files[x + 1]) >= i} \cup {n}
  <2>1. n \in Nat /\ n > 0 /\ 1 \in 1..n /\ 1 \in 1..Num(l) /\ 1 # Num(l)
    BY <1>4, WfTypes
  <2>2. File(l, 1) = l.files[1] /\ File(l, 1) # <<>> /\ Starts(l)[1] \in Nat /\ i < Starts(l)[1]
    BY <1>1, <2>1, WfTypes, WfFacts
  <2>3. FirstOf(l.files[1]) = Starts(l)[1]
    BY <2>1, <2>2, FirstOfFile
  <2>4. 0 \in S /\ S \subseteq Int
    BY <2>1, <2>2, <2>3
  <2>5. \A y \in S : 0 <= y
    BY <2>1
  <2>6. Min(S) = 0
    <3> HIDE DEF S
    <3> QED
      BY <2>4, <2>5, MinIs
  <2>7. FirstOf(l.files[0 + 1]) # i
    BY <2>2, <2>3
  <2>8. FileSlotGe(l.files[0 + 1], i) = -1
    BY <2>1, <2>2, FileSlotOf
  <2>9. SlotGe(l, i) = <<0, FileSlotGe(l.files[0 + 1], i)>>
    <3>1. SlotGe(l, i) =
            IF Min(S) < n /\ FirstOf(l.files[Min(S) + 1]) = i THEN <<Min(S), 0>>
            ELSE LET back == IF Min(S) > 0 THEN Min(S) - 1 ELSE Min(S)
                 IN  <<back, FileSlotGe(l.files[back + 1], i)>>
      <4>1. ~(FileSlotGe(l.current, i) >= 0) /\ n # 0
        BY <1>2, <2>1
      <4> QED
        BY <4>1 DEF SlotGe
    <3> HIDE DEF S
    <3> QED
      BY <2>6, <2>7, <3>1
  <2> QED
    BY <1>4, <2>8, <2>9
<1> QED
  BY <1>3, <1>4

\* The slot of an index in the log or next to its end.
LEMMA SlotOf ==
  ASSUME NEW l, Wf(l), NEW i \in Nat, Lo(l) <= i, i <= Hi(l)
  PROVE  \E k \in 1..Num(l) :
           /\ File(l, k) # <<>>
           /\ Starts(l)[k] <= i /\ i <= Starts(l)[k] + Len(File(l, k))
           /\ SlotGe(l, i) = <<IF k = Num(l) THEN -1 ELSE k - 1, i - Starts(l)[k]>>
           /\ i < Hi(l) => In(l, k, i)
           /\ i = Hi(l) => Len(l.files) <= k
<1>0. Hi(l) \in Nat /\ Hi(l) = Starts(l)[Num(l)] + Len(l.current)
  BY LoHi
<1>1. CASE i < Hi(l)
  <2>1. PICK k \in 1..Num(l) : In(l, k, i)
    BY <1>1, Located
  <2>2. SlotGe(l, i) = <<IF k = Num(l) THEN -1 ELSE k - 1, i - Starts(l)[k]>>
    BY <2>1, SlotIn
  <2>3. Len(File(l, k)) \in Nat /\ Starts(l)[k] \in Nat
    BY WfNums
  <2>4. Starts(l)[k] <= i /\ i < Starts(l)[k] + Len(File(l, k))
    BY <2>1 DEF In
  <2>5. File(l, k) # <<>>
    BY <2>3, <2>4
  <2>6. i <= Starts(l)[k] + Len(File(l, k)) /\ i # Hi(l)
    BY <1>0, <1>1, <2>3, <2>4
  <2> QED
    BY <2>1, <2>2, <2>4, <2>5, <2>6
<1>2. CASE i = Hi(l)
  <2>0. Num(l) \in 1..Num(l) /\ File(l, Num(l)) = l.current /\ Num(l) = Len(l.files) + 1
        /\ Len(l.files) \in Nat /\ Len(l.current) \in Nat
    BY WfTypes
  <2>1. Starts(l)[Num(l)] \in Nat
    BY <2>0, WfNums
  <2>2. CASE l.current # <<>> /\ SlotGe(l, i) = <<-1, Len(l.current)>>
    <3>1. Len(l.current) = i - Starts(l)[Num(l)]
      BY <1>0, <1>2, <2>0, <2>1
    <3>2. Starts(l)[Num(l)] <= i /\ i <= Starts(l)[Num(l)] + Len(l.current) /\ ~(i < Hi(l))
      BY <1>0, <1>2, <2>0, <2>1
    <3> QED
      BY <2>0, <2>2, <3>1, <3>2
  <2>3. CASE /\ l.current = <<>> /\ Len(l.files) \in 1..Len(l.files)
             /\ SlotGe(l, i) = <<Len(l.files) - 1, Len(File(l, Len(l.files)))>>
    <3> DEFINE n == Len(l.files)
    <3>1. n \in 1..Num(l) /\ n # Num(l) /\ n \in Nat
      BY <2>0, <2>3
    <3>2. Starts(l)[n + 1] = Starts(l)[n] + Len(File(l, n))
      BY <2>3, WfFacts
    <3>3. Starts(l)[n] \in Nat /\ Len(File(l, n)) \in Nat
      BY <3>1, WfNums
    <3>4. Len(File(l, n)) > 0
      BY <3>1, WfFacts
    <3>5. Hi(l) = Starts(l)[n] + Len(File(l, n))
      BY <1>0, <2>0, <2>1, <2>3, <3>2
    <3>6. Len(File(l, n)) = i - Starts(l)[n] /\ Starts(l)[n] <= i
          /\ i <= Starts(l)[n] + Len(File(l, n)) /\ ~(i < Hi(l))
      BY <1>2, <3>3, <3>5
    <3>7. SlotGe(l, i) = <<IF n = Num(l) THEN -1 ELSE n - 1, i - Starts(l)[n]>>
      BY <2>3, <3>1, <3>6
    <3>8. File(l, n) # <<>>
      BY <3>4
    <3> QED
      BY <3>1, <3>6, <3>7, <3>8
  <2> QED
    BY <1>0, <1>2, <2>2, <2>3, SlotAbove
<1> QED
  BY <1>0, <1>1, <1>2

LEMMA FirstIndexIs ==
  ASSUME NEW l, Wf(l)
  PROVE  FirstIndex(l) = Lo(l)
<1>0. Lo(l) \in Nat \ {0} /\ 1 \in 1..Num(l)
  BY LoHi, WfTypes
<1>1. CASE l.files = <<>>
  <2>1. Num(l) = 1 /\ File(l, 1) = l.current /\ File(l, 1) # <<>>
    BY <1>1 DEF Num, File, Wf, Used
  <2>2. FirstOf(l.current) = Lo(l)
    BY <1>0, <2>1, FirstOfFile DEF Lo
  <2> QED
    BY <1>0, <1>1, <2>2 DEF FirstIndex
<1>2. CASE l.files # <<>>
  <2>1. 1 \in 1..Len(l.files)
    BY <1>2, WfTypes
  <2>2. File(l, 1) = l.files[1] /\ 1 # Num(l)
    BY <2>1, WfTypes
  <2>3. Len(File(l, 1)) > 0
    BY <1>0, <2>2, WfFacts
  <2>4. File(l, 1) # <<>>
    BY <2>3
  <2>5. FirstOf(l.files[1]) = Lo(l)
    BY <1>0, <2>2, <2>4, FirstOfFile DEF Lo
  <2> QED
    BY <1>0, <1>2, <2>5 DEF FirstIndex
<1> QED
  BY <1>1, <1>2

LEMMA LastIndexIs ==
  ASSUME NEW l, Wf(l)
  PROVE  LastIndex(l) = Hi(l) - 1
<1>0. /\ l.next = Len(l.current) /\ Len(l.current) \in Nat
      /\ Num(l) \in 1..Num(l) /\ File(l, Num(l)) = l.current /\ Num(l) = Len(l.files) + 1
      /\ Hi(l) = Starts(l)[Num(l)] + Len(l.current) /\ l.files \in Seq(Seq(Entry))
  BY WfTypes, WfFacts, LoHi
<1>1. Starts(l)[Num(l)] \in Nat
  BY <1>0, WfNums
<1>2. CASE l.next > 0
  <2>1. Len(l.current) \in 1..Len(File(l, Num(l)))
    BY <1>0, <1>2
  <2>2. File(l, Num(l))[Len(l.current)].index = Starts(l)[Num(l)] + Len(l.current) - 1
    BY <1>0, <2>1, WfFacts
  <2> QED
    BY <1>0, <1>1, <1>2, <2>2 DEF LastIndex
<1>3. CASE ~(l.next > 0)
  <2> DEFINE n == Len(l.files)
             used == Filter(l.files, ToSet(l.files) \ {<<>>})
  <2>1. l.current = <<>>
    BY <1>0, <1>3, WfTypes
  <2>2. l.files # <<>>
    BY <2>1 DEF Wf, Used
  <2>3. n \in Nat /\ n \in 1..n
    BY <2>2, <1>0
  <2>4. \A k \in 1..n : l.files[k] \in ToSet(l.files) \ {<<>>}
    <3> TAKE k \in 1..n
    <3>1. k \in 1..Num(l) /\ k # Num(l) /\ File(l, k) = l.files[k]
      BY WfTypes
    <3>2. Len(l.files[k]) > 0
      BY <3>1, WfFacts
    <3>3. l.files[k] # <<>>
      BY <3>2
    <3>4. k \in DOMAIN l.files
      BY <1>0
    <3> QED
      BY <3>3, <3>4 DEF ToSet
  <2>5. n \in 0..n /\ (n + 1)..n = {}
    BY <2>3
  <2>6. used = SubSeq(l.files, 1, n)
    BY <1>0, <2>4, <2>5, FilterAll
  <2>7. SubSeq(l.files, 1, n) = l.files
    BY <1>0
  <2>8. LastIndex(l) = Last(Last(l.files)).index
    BY <1>3, <2>2, <2>6, <2>7 DEF LastIndex
  <2>9. n \in 1..Num(l) /\ n # Num(l) /\ File(l, n) = l.files[n]
    BY <2>3, WfTypes
  <2>10. Len(File(l, n)) \in Nat /\ Starts(l)[n] \in Nat
    BY <2>9, WfNums
  <2>11. Len(File(l, n)) > 0
    BY <2>9, WfFacts
  <2>12. Len(File(l, n)) \in 1..Len(File(l, n))
    BY <2>10, <2>11
  <2>13. File(l, n)[Len(File(l, n))].index = Starts(l)[n] + Len(File(l, n)) - 1
    BY <2>9, <2>12, WfFacts
  <2>14. Starts(l)[n + 1] = Starts(l)[n] + Len(File(l, n))
    BY <2>3, WfFacts
  <2>15. Hi(l) = Starts(l)[n] + Len(File(l, n))
    BY <1>0, <1>1, <2>1, <2>14
  <2>16. Last(Last(l.files)) = File(l, n)[Len(File(l, n))]
    BY <2>9 DEF Last
  <2>17. LastIndex(l) = Starts(l)[n] + Len(File(l, n)) - 1
    BY <2>8, <2>13, <2>16, Zenon
  <2> HIDE DEF n
  <2> QED
    BY <2>10, <2>15, <2>17
<1> QED
  BY <1>2, <1>3

LEMMA FileAtIs ==
  ASSUME NEW l, Wf(l), NEW k \in 1..Num(l)
  PROVE  FileAt(l, IF k = Num(l) THEN -1 ELSE k - 1) = File(l, k)
<1>1. k \in Nat /\ k >= 1 /\ (k - 1) + 1 = k /\ k - 1 # -1
  BY WfTypes
<1> QED
  BY <1>1 DEF FileAt, File

\* seekEntry finds what is there.
LEMMA SeekIn ==
  ASSUME NEW l, Wf(l), NEW i \in Nat, NEW k, In(l, k, i)
  PROVE  SeekEntry(l, i) = [err |-> "nil", term |-> At(l, k, i).term]
<1>1. SlotGe(l, i) = <<IF k = Num(l) THEN -1 ELSE k - 1, i - Starts(l)[k]>>
  BY SlotIn
<1> DEFINE f == IF k = Num(l) THEN -1 ELSE k - 1
           n == i - Starts(l)[k]
<1>2. SlotGe(l, i)[1] = f /\ SlotGe(l, i)[2] = n
  BY <1>1
<1>3. k \in 1..Num(l) /\ At(l, k, i).index = i
  BY InFacts
<1>4. FileAt(l, f) = File(l, k)
  BY <1>3, FileAtIs
<1>5. Len(File(l, k)) \in Nat /\ Starts(l)[k] \in Nat \ {0}
  BY <1>3, WfNums
<1>6. Len(File(l, k)) <= MaxNumEntries
  BY <1>3, WfFacts
<1>7. n \in Nat /\ n < Len(File(l, k)) /\ i # 0
  BY <1>5 DEF In
<1>8. n # -1 /\ ~(n >= MaxNumEntries) /\ ~(n >= Len(File(l, k)))
  BY <1>5, <1>6, <1>7, SlotsAssumption
<1>9. File(l, k)[n + 1] = At(l, k, i)
  BY DEF At
<1> HIDE DEF f, n
<1> QED
  BY <1>2, <1>3, <1>4, <1>7, <1>8, <1>9 DEF SeekEntry
-----------------------------------------------------------------------------
(* Cutting and dropping files.                                             *)

\* m is the first k - 1 files of l and n slots of the next one.
IsCut(l, m, k, n) ==
  /\ k \in 1..Num(l) /\ n \in 0..Len(File(l, k))
  /\ m \in LogType /\ m.next = n
  /\ Len(m.files) = k - 1 /\ \A j \in 1..(k - 1) : m.files[j] = File(l, j)
  /\ Len(m.current) = n /\ \A x \in 1..n : SameSlot(m.current[x], File(l, k)[x])
  /\ k > 1 \/ n > 0

LEMMA Cut ==
  ASSUME NEW l, Wf(l), NEW k, NEW n, NEW m, IsCut(l, m, k, n)
  PROVE  /\ Wf(m) /\ Num(m) = k
         /\ \A j \in 1..k : Starts(m)[j] = Starts(l)[j]
         /\ Lo(m) = Lo(l) /\ Hi(m) = Starts(l)[k] + n
         /\ \A c \in Nat : Keeps(l, m, c)
<1> PICK fs, cur : /\ fs = m.files /\ cur = m.current /\ k \in 1..Num(l) /\ n \in 0..Len(File(l, k))
                   /\ Len(fs) = k - 1 /\ \A j \in 1..(k - 1) : fs[j] = File(l, j)
                   /\ Len(cur) = n /\ \A x \in 1..n : SameSlot(cur[x], File(l, k)[x])
  BY DEF IsCut
<1>0. /\ Num(l) \in Nat /\ k \in Nat /\ k >= 1 /\ k <= Num(l) /\ Num(l) = Len(l.files) + 1
      /\ Len(l.files) \in Nat /\ k \in 1..Num(l)
  BY WfTypes
<1>1. Len(File(l, k)) \in Nat /\ n \in Nat /\ n <= Len(File(l, k)) /\ Starts(l)[k] \in Nat
  BY WfNums
<1>2. m.files = fs /\ m.current = cur /\ m.next = n /\ m \in LogType
  BY DEF IsCut
<1>3. Num(m) = k
  BY <1>0, <1>2 DEF Num
<1>4. File(m, k) = cur
  BY <1>2, <1>3 DEF File
<1>5. \A j \in 1..k : j # k => /\ File(m, j) = File(l, j) /\ j \in 1..Num(l) /\ j # Num(l)
                               /\ j \in 1..Len(l.files)
  BY <1>0, <1>2, <1>3 DEF File
<1>6. \A j \in 1..k : j \in 1..Num(l) /\ Len(File(m, j)) \in Nat /\ Len(File(m, j)) <= Len(File(l, j))
  <2> TAKE j \in 1..k
  <2>1. CASE j = k
    BY <1>1, <1>4, <2>1
  <2>2. CASE j # k
    <3>1. Len(File(l, j)) \in Nat /\ j \in 1..Num(l) /\ File(m, j) = File(l, j)
      BY <1>5, <2>2, WfNums
    <3> QED
      BY <3>1
  <2> QED
    BY <2>1, <2>2
<1>7. \A j \in 1..k : \A x \in 1..Len(File(m, j)) : /\ x \in 1..Len(File(l, j))
                                                    /\ File(m, j)[x].index = File(l, j)[x].index
                                                    /\ File(m, j)[x].term = File(l, j)[x].term
                                                    /\ File(m, j)[x].data \in {File(l, j)[x].data, NoData}
  <2> TAKE j \in 1..k
  <2> TAKE x \in 1..Len(File(m, j))
  <2>1. x \in 1..Len(File(l, j))
    <3>1. Len(File(l, j)) \in Nat
      BY <1>6, WfNums
    <3> QED
      BY <1>6, <3>1
  <2>2. CASE j = k
    BY <1>4, <2>1, <2>2 DEF SameSlot
  <2>3. CASE j # k
    BY <1>5, <2>1, <2>3
  <2> QED
    BY <2>2, <2>3
<1> DEFINE st == [j \in 1..k |-> Starts(l)[j]]
<1>8. Chain(m, st)
  <2>1. st \in [1..Num(m) -> Nat \ {0}]
    BY <1>3, <1>6, WfNums
  <2>2. ASSUME NEW j \in 1..Num(m)
        PROVE  /\ Len(File(m, j)) <= MaxNumEntries
               /\ j # Num(m) => Len(File(m, j)) > 0
    <3>1. j \in 1..Num(l) /\ Len(File(m, j)) \in Nat /\ Len(File(m, j)) <= Len(File(l, j))
      BY <1>3, <1>6
    <3>2. Len(File(l, j)) <= MaxNumEntries /\ Len(File(l, j)) \in Nat /\ MaxNumEntries \in Nat
      BY <3>1, WfFacts, WfNums, SlotsAssumption
    <3>3. j # Num(m) => Len(File(m, j)) > 0
      BY <1>3, <1>5, WfFacts
    <3> QED
      BY <3>1, <3>2, <3>3
  <2>3. ASSUME NEW j \in 1..Num(m), NEW x \in 1..Len(File(m, j))
        PROVE  File(m, j)[x].index = st[j] + x - 1
    <3>1. j \in 1..k /\ j \in 1..Num(l)
      BY <1>3, <1>6
    <3>2. x \in 1..Len(File(l, j)) /\ File(m, j)[x].index = File(l, j)[x].index
      BY <1>7, <3>1
    <3>3. File(l, j)[x].index = Starts(l)[j] + x - 1
      BY <3>1, <3>2, WfFacts
    <3> QED
      BY <3>1, <3>2, <3>3
  <2>4. ASSUME NEW j \in 1..Len(m.files)
        PROVE  st[j + 1] = st[j] + Len(File(m, j))
    <3>1. j \in 1..k /\ j # k /\ j + 1 \in 1..k
      BY <1>0, <1>2
    <3>2. Starts(l)[j + 1] = Starts(l)[j] + Len(File(l, j))
      BY <1>5, <3>1, WfFacts
    <3> QED
      BY <1>5, <3>1, <3>2
  <2>5. ASSUME NEW i \in 1..Num(m), NEW j \in 1..Num(m), i < j
        PROVE  st[i] + Len(File(m, i)) <= st[j]
    <3>1. i # k /\ i \in 1..k /\ j \in 1..k
      BY <1>0, <1>3, <2>5
    <3>2. Starts(l)[i] + Len(File(l, i)) <= Starts(l)[j]
      BY <1>6, <2>5, <3>1, WfFacts
    <3> QED
      BY <1>5, <3>1, <3>2
  <2> HIDE DEF st
  <2> QED
    BY <1>2, <2>1, <2>2, <2>3, <2>4, <2>5 DEF Chain
<1>9. Used(m)
  <2>1. CASE k > 1
    BY <1>0, <1>2, <2>1 DEF Used
  <2>2. CASE n > 0
    BY <1>2, <2>2 DEF Used
  <2> QED
    BY <2>1, <2>2 DEF IsCut
<1>10. Starts(m) = st /\ Wf(m)
  BY <1>8, <1>9, StartsUnique
<1>11. \A j \in 1..k : Starts(m)[j] = Starts(l)[j]
  BY <1>10
<1>12. 1 \in 1..k /\ k \in 1..k
  BY <1>0
<1>13. Lo(m) = Lo(l) /\ Hi(m) = Starts(l)[k] + n
  BY <1>2, <1>3, <1>11, <1>12 DEF Lo, Hi
<1>14. ASSUME NEW c \in Nat
       PROVE  Keeps(l, m, c)
  <2>1. SUFFICES ASSUME NEW j \in 1..Num(m), NEW i \in Nat, In(m, j, i)
                 PROVE  /\ In(l, j, i) /\ Starts(m)[j] = Starts(l)[j] /\ j \in 1..Num(l)
                        /\ SameSlot(At(m, j, i), At(l, j, i))
    BY DEF Keeps
  <2>2. j \in 1..k /\ Starts(m)[j] = Starts(l)[j] /\ j \in 1..Num(l)
    BY <1>3, <1>6, <1>11
  <2>3. i - Starts(m)[j] + 1 \in 1..Len(File(m, j))
    BY <1>10, <2>1, InFacts
  <2>4. In(l, j, i)
    <3>1. Starts(l)[j] <= i /\ i < Starts(l)[j] + Len(File(m, j))
      BY <2>1, <2>2 DEF In
    <3>2. Len(File(m, j)) \in Nat /\ Len(File(m, j)) <= Len(File(l, j))
      BY <1>6, <2>2
    <3>3. Starts(l)[j] \in Nat /\ Len(File(l, j)) \in Nat
      BY <2>2, WfNums
    <3> QED
      BY <2>2, <3>1, <3>2, <3>3 DEF In
  <2>5. SameSlot(At(m, j, i), At(l, j, i))
    BY <1>7, <2>2, <2>3 DEF SameSlot, At
  <2> QED
    BY <2>2, <2>4, <2>5
<1> QED
  BY <1>3, <1>10, <1>11, <1>13, <1>14

\* The files of l from the k-th on.
LEMMA Drop ==
  ASSUME NEW l, Wf(l), NEW k \in 1..Num(l), File(l, k) # <<>>,
         NEW m, m = [l EXCEPT !.files = SubSeq(l.files, k, Len(l.files))]
  PROVE  /\ Wf(m) /\ Num(m) = Num(l) - k + 1
         /\ \A j \in 1..Num(m) : Starts(m)[j] = Starts(l)[j + k - 1]
         /\ Lo(m) = Starts(l)[k] /\ Hi(m) = Hi(l)
         /\ \A c \in Nat : Keeps(l, m, c)
<1>0. /\ Num(l) \in Nat /\ k \in Nat /\ k >= 1 /\ k <= Num(l) /\ Num(l) = Len(l.files) + 1
      /\ Len(l.files) \in Nat /\ l.files \in Seq(Seq(Entry)) /\ l.current \in Seq(Entry)
  BY WfTypes
<1>1. l.next = Len(l.current) /\ l \in LogType
  BY WfFacts
<1>2. PICK fs : fs = SubSeq(l.files, k, Len(l.files))
  OBVIOUS
<1>3. /\ fs \in Seq(Seq(Entry)) /\ Len(fs) = Num(l) - k
      /\ \A j \in 1..(Num(l) - k) : fs[j] = l.files[j + k - 1]
  <2>1. k \in Int /\ Len(l.files) \in Int /\ \A i \in k..Len(l.files) : l.files[i] \in Seq(Entry)
    BY <1>0
  <2>2. /\ fs \in Seq(Seq(Entry))
        /\ Len(fs) = IF k <= Len(l.files) THEN Len(l.files) - k + 1 ELSE 0
        /\ \A i \in 1..(Len(l.files) - k + 1) : fs[i] = l.files[k + i - 1]
    BY <1>2, <2>1, SubSeqProperties
  <2>3. Len(l.files) - k + 1 = Num(l) - k
    BY <1>0
  <2>4. \A j \in 1..(Num(l) - k) : k + j - 1 = j + k - 1
    BY <1>0
  <2>5. Len(fs) = Num(l) - k
    <3>1. CASE k <= Len(l.files)
      BY <2>2, <2>3, <3>1
    <3>2. CASE ~(k <= Len(l.files))
      <4>1. k = Num(l) /\ Len(fs) = 0
        BY <1>0, <2>2, <3>2
      <4> QED
        BY <1>0, <4>1
    <3> QED
      BY <3>1, <3>2
  <2> QED
    BY <2>2, <2>3, <2>4, <2>5
<1>4. m.files = fs /\ m.current = l.current /\ m.next = l.next /\ m \in LogType
  BY <1>1, <1>2, <1>3 DEF LogType
<1>5. Num(m) = Num(l) - k + 1 /\ Num(m) \in Nat \ {0} /\ Num(l) - k \in Nat
  <2>1. Num(m) = Len(fs) + 1
    BY <1>4 DEF Num
  <2> QED
    BY <1>0, <1>3, <2>1
<1>6. \A j \in 1..Num(m) : /\ j + k - 1 \in 1..Num(l) /\ (j = Num(m) <=> j + k - 1 = Num(l))
                           /\ j # Num(m) => j \in 1..(Num(l) - k) /\ j + k - 1 \in 1..Len(l.files)
  <2> TAKE j \in 1..Num(m)
  <2>1. j \in Nat /\ j >= 1 /\ j <= Num(l) - k + 1
    BY <1>5
  <2>2. PICK a \in Nat, b \in Nat : a = Num(l) /\ b = Len(l.files)
    BY <1>0
  <2>3. k \in Nat /\ k >= 1 /\ k <= a /\ a = b + 1 /\ Num(m) = a - k + 1
    BY <1>0, <1>5, <2>2
  <2>4. j + k - 1 \in 1..a /\ (j = Num(m) <=> j + k - 1 = a)
    BY <2>1, <2>2, <2>3
  <2>5. j # Num(m) => j \in 1..(a - k) /\ j + k - 1 \in 1..b
    BY <2>1, <2>2, <2>3, SMTT(30)
  <2> QED
    BY <2>2, <2>4, <2>5
<1>7. \A j \in 1..Num(m) : File(m, j) = File(l, j + k - 1)
  BY <1>3, <1>4, <1>6 DEF File
<1>8. \A j \in 1..Num(m) : Len(File(m, j)) \in Nat /\ Starts(l)[j + k - 1] \in Nat \ {0}
  BY <1>6, <1>7, WfNums
<1> DEFINE st == [j \in 1..Num(m) |-> Starts(l)[j + k - 1]]
<1>9. Chain(m, st)
  <2>1. st \in [1..Num(m) -> Nat \ {0}]
    BY <1>8
  <2>2. ASSUME NEW j \in 1..Num(m)
        PROVE  /\ Len(File(m, j)) <= MaxNumEntries
               /\ j # Num(m) => Len(File(m, j)) > 0
    BY <1>6, <1>7, WfFacts
  <2>3. ASSUME NEW j \in 1..Num(m), NEW x \in 1..Len(File(m, j))
        PROVE  File(m, j)[x].index = st[j] + x - 1
    <3>1. j + k - 1 \in 1..Num(l) /\ x \in 1..Len(File(l, j + k - 1))
      BY <1>6, <1>7
    <3>2. File(l, j + k - 1)[x].index = Starts(l)[j + k - 1] + x - 1
      BY <3>1, WfFacts
    <3> QED
      BY <1>7, <3>2
  <2>4. ASSUME NEW j \in 1..Len(m.files)
        PROVE  st[j + 1] = st[j] + Len(File(m, j))
    <3>1. j \in 1..Num(m) /\ j # Num(m) /\ j + 1 \in 1..Num(m)
      BY <1>3, <1>4, <1>5, SMTT(30)
    <3>2. j + k - 1 \in 1..Len(l.files)
      BY <1>6, <3>1
    <3>3. Starts(l)[(j + k - 1) + 1] = Starts(l)[j + k - 1] + Len(File(l, j + k - 1))
      BY <3>2, WfFacts
    <3>4. (j + k - 1) + 1 = (j + 1) + k - 1
      BY <1>0, <3>1
    <3> QED
      BY <1>7, <3>1, <3>3, <3>4
  <2>5. ASSUME NEW i \in 1..Num(m), NEW j \in 1..Num(m), i < j
        PROVE  st[i] + Len(File(m, i)) <= st[j]
    <3>1. i + k - 1 < j + k - 1
      BY <1>0, <2>5
    <3>2. Starts(l)[i + k - 1] + Len(File(l, i + k - 1)) <= Starts(l)[j + k - 1]
      BY <1>6, <3>1, WfFacts
    <3> QED
      BY <1>7, <3>2
  <2> HIDE DEF st
  <2> QED
    BY <1>1, <1>4, <2>1, <2>2, <2>3, <2>4, <2>5 DEF Chain
<1>10. Used(m)
  <2>1. CASE k = Num(l)
    BY <1>4, <2>1, WfTypes DEF Used
  <2>2. CASE k # Num(l)
    <3>1. Len(fs) > 0
      BY <1>0, <1>3, <2>2
    <3>2. fs # <<>>
      BY <3>1
    <3> QED
      BY <1>4, <3>2 DEF Used
  <2> QED
    BY <2>1, <2>2
<1>11. Starts(m) = st /\ Wf(m)
  BY <1>9, <1>10, StartsUnique
<1>12. \A j \in 1..Num(m) : Starts(m)[j] = Starts(l)[j + k - 1]
  BY <1>11
<1>13. Lo(m) = Starts(l)[k] /\ Hi(m) = Hi(l)
  <2>1. 1 \in 1..Num(m) /\ Num(m) \in 1..Num(m) /\ 1 + k - 1 = k /\ Num(m) + k - 1 = Num(l)
    BY <1>0, <1>5, SMTT(30)
  <2>2. Starts(m)[1] = Starts(l)[k] /\ Starts(m)[Num(m)] = Starts(l)[Num(l)]
    BY <1>12, <2>1
  <2> QED
    BY <1>4, <2>2 DEF Lo, Hi
<1>14. ASSUME NEW c \in Nat
       PROVE  Keeps(l, m, c)
  <2>1. SUFFICES ASSUME NEW j \in 1..Num(m), NEW i \in Nat, In(m, j, i)
                 PROVE  /\ j + k - 1 \in 1..Num(l) /\ In(l, j + k - 1, i)
                        /\ Starts(m)[j] = Starts(l)[j + k - 1]
                        /\ j + k - 1 = 1 => j = 1
                        /\ SameSlot(At(m, j, i), At(l, j + k - 1, i))
    BY DEF Keeps
  <2>2. /\ j + k - 1 \in 1..Num(l) /\ Starts(m)[j] = Starts(l)[j + k - 1]
        /\ File(m, j) = File(l, j + k - 1)
    BY <1>6, <1>7, <1>12
  <2>3. j + k - 1 = 1 => j = 1
    BY <1>0
  <2>4. In(l, j + k - 1, i) /\ At(m, j, i) = At(l, j + k - 1, i)
    BY <2>1, <2>2 DEF In, At
  <2> QED
    BY <2>2, <2>3, <2>4 DEF SameSlot
<1> QED
  BY <1>5, <1>11, <1>12, <1>13, <1>14

-----------------------------------------------------------------------------
(* The updates of the entry log.                                           *)

\* The slots of a file before the n-th, as DiscardFrom leaves them.
LEMMA SlotsIs ==
  ASSUME NEW f \in Seq(Entry), NEW n \in 0..Len(f)
  PROVE  /\ Slots(f, n) \in Seq(Entry) /\ Len(Slots(f, n)) = n
         /\ \A x \in 1..n : SameSlot(Slots(f, n)[x], f[x])
         /\ ZeroedTail(f, n) \in Seq(Entry) /\ Len(ZeroedTail(f, n)) = n
         /\ \A x \in 1..n : SameSlot(ZeroedTail(f, n)[x], f[x])
<1>0. Len(f) \in Nat /\ n \in Nat /\ n <= Len(f)
  OBVIOUS
<1>1. Min({n, Len(f)}) = n
  <2>1. PICK S : S = {n, Len(f)}
    OBVIOUS
  <2>2. S \subseteq Int /\ n \in S /\ \A y \in S : n <= y
    BY <1>0, <2>1
  <2>3. Min(S) = n
    BY <2>2, MinIs
  <2> QED
    BY <2>1, <2>3
<1>2. PICK g : g = SubSeq(f, 1, n)
  OBVIOUS
<1>3. g \in Seq(Entry) /\ Len(g) = n /\ \A x \in 1..n : g[x] = f[x]
  BY <1>0, <1>2
<1>4. Slots(f, n) = g
  BY <1>1, <1>2 DEF Slots
<1>5. ZeroedTail(f, n) \in Seq(Entry) /\ Len(ZeroedTail(f, n)) = n
      /\ \A x \in 1..n : SameSlot(ZeroedTail(f, n)[x], f[x])
  <2>1. CASE n = 0
    BY <2>1 DEF ZeroedTail
  <2>2. CASE n # 0
    <3>1. 1 \in 1..Len(g)
      BY <1>0, <1>3, <2>2
    <3>2. PICK e : e = [g[1] EXCEPT !.data = NoData]
      OBVIOUS
    <3>3. NoData \in Data
      BY DEF NoData, Data
    <3>4. g[1] \in Entry
      BY <1>3, <3>1
    <3>5. e \in Entry /\ e.index = g[1].index /\ e.term = g[1].term /\ e.data = NoData
      BY <3>2, <3>3, <3>4 DEF Entry
    <3>6. ZeroedTail(f, n) = [g EXCEPT ![1] = e]
      BY <1>4, <2>2, <3>2 DEF ZeroedTail
    <3>7. /\ [g EXCEPT ![1] = e] \in Seq(Entry) /\ Len([g EXCEPT ![1] = e]) = Len(g)
          /\ \A x \in 1..Len(g) : [g EXCEPT ![1] = e][x] = IF x = 1 THEN e ELSE g[x]
      BY <1>3, <3>1, <3>5, ExceptSeq
    <3> QED
      BY <1>3, <3>1, <3>5, <3>6, <3>7 DEF SameSlot
  <2> QED
    BY <2>1, <2>2
<1> QED
  BY <1>3, <1>4, <1>5 DEF SameSlot

LEMMA DiscardIs ==
  ASSUME NEW l, Wf(l), NEW i \in Nat, Lo(l) < i, i <= Hi(l)
  PROVE  /\ Wf(DiscardFrom(l, i)) /\ Lo(DiscardFrom(l, i)) = Lo(l) /\ Hi(DiscardFrom(l, i)) = i
         /\ \A c \in Nat : Keeps(l, DiscardFrom(l, i), c)
<1>0. Lo(l) \in Nat \ {0} /\ Hi(l) \in Nat
  BY LoHi
<1>1. PICK k \in 1..Num(l) :
        /\ File(l, k) # <<>>
        /\ Starts(l)[k] <= i /\ i <= Starts(l)[k] + Len(File(l, k))
        /\ SlotGe(l, i) = <<IF k = Num(l) THEN -1 ELSE k - 1, i - Starts(l)[k]>>
  BY <1>0, SlotOf
<1>2. PICK n : n = i - Starts(l)[k]
  OBVIOUS
<1>3. Len(File(l, k)) \in Nat /\ Starts(l)[k] \in Nat /\ File(l, k) \in Seq(Entry)
  BY WfTypes
<1>4. n \in 0..Len(File(l, k)) /\ n \in Nat /\ Starts(l)[k] + n = i
  BY <1>1, <1>2, <1>3
<1>5. k \in Nat /\ k >= 1 /\ Len(l.files) \in Nat /\ Num(l) = Len(l.files) + 1 /\ k <= Num(l)
      /\ l.files \in Seq(Seq(Entry))
  BY WfTypes
<1>6. k > 1 \/ n > 0
  <2>1. CASE k = 1
    BY <1>0, <1>2, <1>3, <2>1 DEF Lo
  <2>2. CASE k # 1
    BY <1>5, <2>2
  <2> QED
    BY <2>1, <2>2
<1>7. PICK fs : fs = SubSeq(l.files, 1, k - 1)
  OBVIOUS
<1>8. fs \in Seq(Seq(Entry)) /\ Len(fs) = k - 1 /\ \A j \in 1..(k - 1) : fs[j] = File(l, j)
  <2>1. \A j \in 1..(k - 1) : j \in 1..Len(l.files) /\ File(l, j) = l.files[j]
    BY <1>5, WfTypes
  <2>2. k - 1 \in 0..Len(l.files)
    BY <1>5
  <2>3. fs \in Seq(Seq(Entry)) /\ Len(fs) = k - 1 /\ \A j \in 1..(k - 1) : fs[j] = l.files[j]
    BY <1>5, <1>7, <2>2
  <2> QED
    BY <2>1, <2>3
<1>9. PICK cur \in Seq(Entry) :
        /\ Len(cur) = n /\ \A x \in 1..n : SameSlot(cur[x], File(l, k)[x])
        /\ DiscardFrom(l, i) = [files |-> fs, current |-> cur, next |-> n]
  <2>1. SlotGe(l, i)[1] = (IF k = Num(l) THEN -1 ELSE k - 1) /\ SlotGe(l, i)[2] = n /\ ~(n < 0)
    BY <1>1, <1>2, <1>4
  <2>2. CASE k = Num(l)
    <3>1. fs = l.files
      <4>1. k - 1 = Len(l.files)
        BY <1>5, <2>2
      <4> QED
        BY <1>5, <1>7, <4>1, SubSeqFull
    <3>2. File(l, k) = l.current
      BY <2>2, WfTypes
    <3>3. DiscardFrom(l, i) = [l EXCEPT !.current = Slots(l.current, n), !.next = n]
      BY <2>1, <2>2 DEF DiscardFrom
    <3>4. l \in LogType
      BY WfFacts
    <3>5. DiscardFrom(l, i) = [files |-> fs, current |-> Slots(l.current, n), next |-> n]
      BY <3>1, <3>3, <3>4 DEF LogType
    <3> QED
      BY <1>3, <1>4, <3>2, <3>5, SlotsIs
  <2>3. CASE k # Num(l)
    <3>1. SlotGe(l, i)[1] = k - 1 /\ k - 1 # -1 /\ (k - 1) + 1 = k
      BY <1>5, <2>1, <2>3
    <3>2. File(l, k) = l.files[k]
      BY <2>3 DEF File
    <3>3. DiscardFrom(l, i) = [files |-> fs, current |-> ZeroedTail(File(l, k), n), next |-> n]
      BY <1>7, <2>1, <3>1, <3>2 DEF DiscardFrom
    <3> QED
      BY <1>3, <1>4, <3>3, SlotsIs
  <2> QED
    BY <2>2, <2>3
<1>10. IsCut(l, DiscardFrom(l, i), k, n)
  <2>1. PICK m : m = DiscardFrom(l, i)
    OBVIOUS
  <2>2. m.files = fs /\ m.current = cur /\ m.next = n /\ m \in LogType
    BY <1>4, <1>8, <1>9, <2>1 DEF LogType
  <2>3. IsCut(l, m, k, n)
    BY <1>4, <1>6, <1>8, <1>9, <2>2 DEF IsCut
  <2> QED
    BY <2>1, <2>3
<1> QED
  BY <1>4, <1>10, Cut

\* deleteBefore keeps the file of the index, or all of them.
LEMMA DeleteIs ==
  ASSUME NEW l, Wf(l), NEW i \in Nat, i < Hi(l)
  PROVE  /\ Wf(DeleteBefore(l, i)) /\ Hi(DeleteBefore(l, i)) = Hi(l)
         /\ Lo(l) <= Lo(DeleteBefore(l, i))
         /\ Lo(DeleteBefore(l, i)) <= i \/ Lo(DeleteBefore(l, i)) = Lo(l)
         /\ \A c \in Nat : Keeps(l, DeleteBefore(l, i), c)
         /\ \A k \in 1..Num(l) : In(l, k, i) => Lo(DeleteBefore(l, i)) = Starts(l)[k]
         /\ i < Lo(l) \/ In(l, 1, i) => DeleteBefore(l, i) = l
<1>0. Lo(l) \in Nat \ {0} /\ Hi(l) \in Nat /\ Num(l) \in Nat
  BY LoHi, WfTypes
<1>1. CASE i < Lo(l)
  <2>1. SlotGe(l, i)[2] < 0
    BY <1>1, SlotBelow
  <2>2. DeleteBefore(l, i) = l
    BY <2>1 DEF DeleteBefore
  <2>3. \A c \in Nat : Keeps(l, l, c)
    BY DEF Keeps, SameSlot
  <2>4. ASSUME NEW k \in 1..Num(l), In(l, k, i) PROVE FALSE
    <3>1. Lo(l) <= i
      BY <2>4, InFacts
    <3> QED
      BY <1>0, <1>1, <3>1
  <2> QED
    BY <1>0, <2>2, <2>3, <2>4
<1>2. CASE Lo(l) <= i
  <2>1. PICK k \in 1..Num(l) : In(l, k, i)
    BY <1>2, Located
  <2>2. SlotGe(l, i) = <<IF k = Num(l) THEN -1 ELSE k - 1, i - Starts(l)[k]>>
    BY <2>1, SlotIn
  <2>3. Starts(l)[k] \in Nat /\ Len(File(l, k)) \in Nat /\ Starts(l)[k] <= i
        /\ i < Starts(l)[k] + Len(File(l, k))
    BY <2>1, WfNums DEF In
  <2>4. File(l, k) # <<>> /\ ~(i - Starts(l)[k] < 0)
    BY <2>3
  <2>5. k \in Nat /\ k >= 1 /\ Len(l.files) \in Nat /\ Num(l) = Len(l.files) + 1 /\ k <= Num(l)
        /\ l.files \in Seq(Seq(Entry))
    BY WfTypes
  <2>6. DeleteBefore(l, i) = [l EXCEPT !.files = SubSeq(l.files, k, Len(l.files))]
    <3>1. CASE k = Num(l)
      <4>1. SubSeq(l.files, k, Len(l.files)) = <<>>
        <5>1. Len(l.files) < k
          BY <2>5, <3>1
        <5> QED
          BY <2>5, <5>1, SubSeqEmpty
      <4>2. SlotGe(l, i)[1] = -1 /\ SlotGe(l, i)[2] = i - Starts(l)[k] /\ ~(-1 >= Len(l.files))
        BY <2>2, <2>5, <3>1
      <4> QED
        BY <2>4, <4>1, <4>2 DEF DeleteBefore
    <3>2. CASE k # Num(l)
      <4>1. SlotGe(l, i)[1] = k - 1 /\ SlotGe(l, i)[2] = i - Starts(l)[k] /\ ~(k - 1 >= Len(l.files))
            /\ k - 1 # -1 /\ (k - 1) + 1 = k
        BY <2>2, <2>5, <3>2
      <4> QED
        BY <2>4, <4>1 DEF DeleteBefore
    <3> QED
      BY <3>1, <3>2
  <2>7. /\ Wf(DeleteBefore(l, i)) /\ Lo(DeleteBefore(l, i)) = Starts(l)[k]
        /\ Hi(DeleteBefore(l, i)) = Hi(l) /\ \A c \in Nat : Keeps(l, DeleteBefore(l, i), c)
    BY <2>4, <2>6, Drop
  <2>8. \A j \in 1..Num(l) : In(l, j, i) => j = k
    BY <2>1, InFacts
  <2>9. Lo(l) <= Starts(l)[k]
    BY LoHi
  <2>10. ASSUME In(l, 1, i)
         PROVE  DeleteBefore(l, i) = l
    <3>1. k = 1
      BY <2>8, <2>10 DEF In
    <3>2. SubSeq(l.files, k, Len(l.files)) = l.files
      BY <2>5, <3>1, SubSeqFull
    <3>3. l \in LogType
      BY WfFacts
    <3> QED
      BY <2>6, <3>2, <3>3 DEF LogType
  <2>11. ~(i < Lo(l))
    BY <1>0, <1>2
  <2> QED
    BY <2>3, <2>7, <2>8, <2>9, <2>10, <2>11
<1> QED
  BY <1>0, <1>1, <1>2

\* The last file goes and the one before it is current.
LEMMA LastFileGoes ==
  ASSUME NEW l, Wf(l), l.files # <<>>,
         NEW m, m = [files |-> Front(l.files), current |-> Last(l.files),
                     next |-> Len(Last(l.files))]
  PROVE  /\ Wf(m) /\ Lo(m) = Lo(l) /\ Hi(m) = Starts(l)[Num(l)]
         /\ \A c \in Nat : Keeps(l, m, c)
<1>0. PICK n : n = Len(l.files)
  OBVIOUS
<1>1. /\ n \in Nat /\ l.files \in Seq(Seq(Entry)) /\ Num(l) = n + 1
      /\ n \in 1..Len(l.files) /\ n \in 1..Num(l) /\ File(l, n) = l.files[n] /\ n # Num(l)
      /\ File(l, n) \in Seq(Entry) /\ Len(File(l, n)) \in Nat
  <2>1. l.files \in Seq(Seq(Entry)) /\ Num(l) = n + 1
    BY <1>0, WfTypes
  <2>2. n \in Nat /\ n \in 1..Len(l.files)
    BY <1>0, <2>1
  <2> QED
    BY <2>1, <2>2, WfTypes
<1>2. Len(File(l, n)) > 0
  BY <1>1, WfFacts
<1>3. Last(l.files) = File(l, n)
  BY <1>0, <1>1 DEF Last
<1>4. PICK fs : fs = SubSeq(l.files, 1, n - 1)
  OBVIOUS
<1>5. fs \in Seq(Seq(Entry)) /\ Len(fs) = n - 1 /\ \A j \in 1..(n - 1) : fs[j] = l.files[j]
  BY <1>0, <1>1, <1>4, SMTT(30)
<1>6. Front(l.files) = fs
  BY <1>0, <1>4 DEF Front
<1>7. m.files = fs /\ m.current = File(l, n) /\ m.next = Len(File(l, n)) /\ m \in LogType
  BY <1>1, <1>3, <1>5, <1>6 DEF LogType
<1>8. \A j \in 1..(n - 1) : m.files[j] = File(l, j)
  <2> TAKE j \in 1..(n - 1)
  <2>1. j \in 1..Len(l.files)
    BY <1>0, <1>1
  <2>2. File(l, j) = l.files[j]
    BY <2>1, WfTypes
  <2> QED
    BY <1>5, <1>7, <2>2
<1>9. Len(File(l, n)) \in 0..Len(File(l, n)) /\ (n > 1 \/ Len(File(l, n)) > 0)
  BY <1>1, <1>2
<1>10. IsCut(l, m, n, Len(File(l, n)))
  BY <1>1, <1>5, <1>7, <1>8, <1>9 DEF IsCut, SameSlot
<1>11. Starts(l)[n + 1] = Starts(l)[n] + Len(File(l, n))
  BY <1>1, WfFacts
<1> QED
  BY <1>1, <1>10, <1>11, Cut

\* openEntryLogs makes the last file that is used the current one.
LEMMA OpenIs ==
  ASSUME NEW l, Wf(l)
  PROVE  /\ Wf(OpenEntryLogs(l)) /\ Lo(OpenEntryLogs(l)) = Lo(l) /\ Hi(OpenEntryLogs(l)) = Hi(l)
         /\ \A c \in Nat : Keeps(l, OpenEntryLogs(l), c)
<1>0. /\ Num(l) \in Nat /\ Len(l.files) \in Nat /\ l.files \in Seq(Seq(Entry))
      /\ l.current \in Seq(Entry) /\ Num(l) = Len(l.files) + 1 /\ Num(l) \in 1..Num(l)
  BY WfTypes
<1>1. PICK all : all = Append(l.files, l.current)
  OBVIOUS
<1>2. /\ all \in Seq(Seq(Entry)) /\ Len(all) = Num(l)
      /\ \A k \in 1..Len(l.files) : all[k] = l.files[k]
      /\ all[Num(l)] = l.current
  BY <1>0, <1>1, AppendProperties
<1>3. PICK S : S = ToSet(all) \ {<<>>}
  OBVIOUS
<1>4. \A k \in 1..Len(l.files) : all[k] \in S
  <2> TAKE k \in 1..Len(l.files)
  <2>1. k \in 1..Num(l) /\ k # Num(l) /\ File(l, k) = l.files[k]
    BY WfTypes
  <2>2. Len(all[k]) > 0
    BY <1>2, <2>1, WfFacts
  <2>3. all[k] # <<>> /\ k \in DOMAIN all
    BY <1>2, <2>1, <2>2
  <2> QED
    BY <1>3, <2>3 DEF ToSet
<1>5. PICK used : used = Filter(all, S)
  OBVIOUS
<1>6. OpenEntryLogs(l) = IF used = <<>> THEN EmptyLog
                         ELSE [files |-> Front(used), current |-> Last(used),
                               next |-> Len(Last(used))]
  BY <1>1, <1>3, <1>5, Zenon DEF OpenEntryLogs
<1>7. CASE l.current = <<>>
  <2>1. l.files # <<>>
    BY <1>7 DEF Wf, Used
  <2>2. Len(l.files) \in 0..Len(all) /\ (Len(l.files) + 1)..Len(all) = {Num(l)}
    BY <1>0, <1>2
  <2>3. all[Num(l)] \notin S
    BY <1>2, <1>3, <1>7
  <2>4. used = SubSeq(all, 1, Len(l.files))
    <3>1. \A k \in (Len(l.files) + 1)..Len(all) : all[k] \notin S
      BY <2>2, <2>3
    <3> QED
      BY <1>2, <1>4, <1>5, <2>2, <3>1, FilterAll
  <2>5. used = l.files
    <3>1. used \in Seq(Seq(Entry)) /\ Len(used) = Len(l.files)
          /\ \A k \in 1..Len(l.files) : used[k] = all[k]
      BY <1>0, <1>2, <2>4, SMTT(40)
    <3> QED
      BY <1>0, <1>2, <3>1, SeqEqual
  <2>6. OpenEntryLogs(l) = [files |-> Front(l.files), current |-> Last(l.files),
                            next |-> Len(Last(l.files))]
    BY <1>6, <2>1, <2>5
  <2>7. Hi(l) = Starts(l)[Num(l)]
    <3>1. Hi(l) = Starts(l)[Num(l)] + Len(l.current) /\ Starts(l)[Num(l)] \in Nat
      BY <1>0, LoHi, WfNums
    <3>2. Len(l.current) = 0
      BY <1>7
    <3> QED
      BY <3>1, <3>2
  <2> QED
    BY <2>1, <2>6, <2>7, LastFileGoes
<1>8. CASE l.current # <<>>
  <2>1. all[Num(l)] \in S
    <3>1. all[Num(l)] # <<>> /\ Num(l) \in DOMAIN all
      BY <1>0, <1>2, <1>8
    <3> QED
      BY <1>3, <3>1 DEF ToSet
  <2>2. \A k \in 1..Len(all) : all[k] \in S
    <3> TAKE k \in 1..Len(all)
    <3>1. k = Num(l) \/ k \in 1..Len(l.files)
      BY <1>0, <1>2
    <3> QED
      BY <1>4, <2>1, <3>1
  <2>3. Len(all) \in 0..Len(all) /\ (Len(all) + 1)..Len(all) = {}
    BY <1>0, <1>2
  <2>4. used = SubSeq(all, 1, Len(all))
    BY <1>2, <1>5, <2>2, <2>3, FilterAll
  <2>5. used = all
    BY <1>2, <2>4, SubSeqFull
  <2>6. all # <<>> /\ Last(all) = l.current
    BY <1>0, <1>2 DEF Last
  <2>7. Front(all) = l.files
    <3>1. Front(all) = SubSeq(all, 1, Len(l.files))
      <4>1. Len(all) - 1 = Len(l.files)
        BY <1>0, <1>2
      <4> QED
        BY <4>1 DEF Front
    <3>2. PICK fr : fr = SubSeq(all, 1, Len(l.files))
      OBVIOUS
    <3>3. /\ fr \in Seq(Seq(Entry)) /\ Len(fr) = Len(l.files)
          /\ \A k \in 1..Len(l.files) : fr[k] = all[k]
      <4>1. Len(l.files) \in 0..Len(all)
        BY <1>0, <1>2
      <4> QED
        BY <1>2, <3>2, <4>1
    <3>4. fr = l.files
      BY <1>0, <1>2, <3>3, SeqEqual
    <3> QED
      BY <3>1, <3>2, <3>4
  <2>8. l.next = Len(l.current) /\ l \in LogType
    BY WfFacts
  <2>9. OpenEntryLogs(l) = l
    BY <1>6, <2>5, <2>6, <2>7, <2>8 DEF LogType
  <2>10. \A c \in Nat : Keeps(l, l, c)
    BY DEF Keeps, SameSlot
  <2> QED
    BY <2>9, <2>10
<1> QED
  BY <1>7, <1>8

\* A conflict that deletes one file: the current one goes, and the one before it,
\* which holds the entry, is whole.
LEMMA DeletedOneIs ==
  ASSUME NEW l, Wf(l), NEW i \in Nat, Lo(l) <= i, i <= Hi(l), ExtraFiles(l, i) = 1
  PROVE  /\ Wf(DeletedExtra(l, i, 1)) /\ Lo(DeletedExtra(l, i, 1)) = Lo(l)
         /\ i <= Hi(DeletedExtra(l, i, 1)) /\ Hi(DeletedExtra(l, i, 1)) <= Hi(l)
         /\ \A c \in Nat : Keeps(l, DeletedExtra(l, i, 1), c)
<1>0. /\ Num(l) \in Nat /\ Len(l.files) \in Nat /\ l.files \in Seq(Seq(Entry))
      /\ l.current \in Seq(Entry) /\ Num(l) = Len(l.files) + 1 /\ Num(l) \in 1..Num(l)
  BY WfTypes
<1>1. PICK k \in 1..Num(l) :
        /\ Starts(l)[k] <= i /\ i <= Starts(l)[k] + Len(File(l, k))
        /\ SlotGe(l, i) = <<IF k = Num(l) THEN -1 ELSE k - 1, i - Starts(l)[k]>>
  BY SlotOf
<1>2. k # Num(l) /\ Len(l.files) - (k - 1) = 1
  <2>1. SlotGe(l, i)[1] # -1 /\ Len(l.files) - SlotGe(l, i)[1] = 1
    BY DEF ExtraFiles
  <2>2. k # Num(l)
    BY <1>1, <2>1
  <2> QED
    BY <1>1, <2>1, <2>2
<1>3. k = Len(l.files) /\ k \in Nat /\ k \in 1..Len(l.files) /\ (k - 1) + 1 = k
  BY <1>0, <1>2
<1>4. l.files # <<>> /\ SlotGe(l, i)[1] + 1 = Len(l.files)
  BY <1>0, <1>1, <1>2, <1>3
<1>5. PICK all : all = Append(l.files, l.current)
  OBVIOUS
<1>6. /\ all \in Seq(Seq(Entry)) /\ Len(all) = k + 1
      /\ \A j \in 1..Len(l.files) : all[j] = l.files[j]
  BY <1>0, <1>3, <1>5, AppendProperties
<1>7. SubSeq(all, 1, k) = l.files
  <2>1. PICK fr : fr = SubSeq(all, 1, k)
    OBVIOUS
  <2>2. fr \in Seq(Seq(Entry)) /\ Len(fr) = k /\ \A j \in 1..k : fr[j] = all[j]
    <3>1. k \in 0..Len(all)
      BY <1>3, <1>6
    <3> QED
      BY <1>6, <2>1, <3>1
  <2>3. fr = l.files
    BY <1>0, <1>3, <1>6, <2>2, SeqEqual
  <2> QED
    BY <2>1, <2>3
<1>8. SubSeq(all, k + 1 + 1, Len(all)) = <<>>
  <2>1. Len(all) < k + 1 + 1 /\ k + 1 + 1 \in Int /\ Len(all) \in Int
    BY <1>3, <1>6
  <2> QED
    BY <2>1, SubSeqEmpty
<1>9. l.files \o <<>> = l.files
  BY <1>0, ConcatEmptySeq
<1>10. DeletedExtra(l, i, 1) = [files |-> Front(l.files), current |-> Last(l.files),
                                next |-> Len(Last(l.files))]
  BY <1>3, <1>4, <1>5, <1>7, <1>8, <1>9 DEF DeletedExtra
<1>11. Starts(l)[k + 1] = Starts(l)[k] + Len(File(l, k))
  BY <1>3, WfFacts
<1>12. Starts(l)[Num(l)] <= Hi(l)
  <2>1. Hi(l) = Starts(l)[Num(l)] + Len(l.current)
    BY LoHi
  <2>2. Starts(l)[Num(l)] \in Nat
    BY <1>0, WfNums
  <2>3. Len(l.current) \in Nat
    BY WfTypes
  <2> QED
    BY <2>1, <2>2, <2>3
<1>13. i <= Starts(l)[Num(l)]
  BY <1>0, <1>1, <1>3, <1>11
<1> QED
  BY <1>4, <1>10, <1>12, <1>13, LastFileGoes

LEMMA KeepsTrans ==
  ASSUME NEW l, NEW m, NEW p, NEW c \in Nat, NEW d \in Nat, Keeps(l, m, c), Keeps(m, p, d), d <= c
  PROVE  Keeps(l, p, d)
<1>1. SUFFICES ASSUME NEW k \in 1..Num(p), NEW i \in Nat, i <= d, In(p, k, i)
               PROVE  \E j \in 1..Num(l) : /\ In(l, j, i) /\ Starts(p)[k] = Starts(l)[j]
                                           /\ j = 1 => k = 1
                                           /\ SameSlot(At(p, k, i), At(l, j, i))
  BY DEF Keeps
<1>2. PICK h \in 1..Num(m) : /\ In(m, h, i) /\ Starts(p)[k] = Starts(m)[h] /\ (h = 1 => k = 1)
                             /\ SameSlot(At(p, k, i), At(m, h, i))
  BY <1>1, Zenon DEF Keeps
<1>3. i <= c
  BY <1>1
<1>4. PICK j \in 1..Num(l) : /\ In(l, j, i) /\ Starts(m)[h] = Starts(l)[j] /\ (j = 1 => h = 1)
                             /\ SameSlot(At(m, h, i), At(l, j, i))
  BY <1>2, <1>3, Zenon DEF Keeps
<1>5. SameSlot(At(p, k, i), At(l, j, i))
  BY <1>2, <1>4 DEF SameSlot
<1> QED
  BY <1>2, <1>4, <1>5

\* m is l with entry e behind it, in the file h.
IsWrite(l, m, e, h) ==
  /\ m \in LogType /\ m.next = Len(m.current) /\ Len(m.current) <= MaxNumEntries
  /\ h = Num(m) /\ h \in Nat
  /\ \A j \in 1..Num(l) : j # h => /\ File(m, j) = File(l, j) /\ Len(File(l, j)) > 0
  /\ \/ h = Num(l) /\ m.current = Append(l.current, e)
     \/ h = Num(l) + 1 /\ m.current = <<e>>

LEMMA Written ==
  ASSUME NEW l, Wf(l), NEW e \in Entry, e.index = Hi(l), NEW m, NEW h, IsWrite(l, m, e, h)
  PROVE  /\ Wf(m) /\ Lo(m) = Lo(l) /\ Hi(m) = Hi(l) + 1
         /\ Keeps(l, m, Hi(l) - 1)
         /\ \A k \in 1..Num(m) : In(m, k, Hi(l)) => At(m, k, Hi(l)) = e
<1> DEFINE N == Num(l)
<1>0. /\ N \in Nat /\ N >= 1 /\ Len(l.files) \in Nat /\ N = Len(l.files) + 1
      /\ Len(l.current) \in Nat /\ N \in 1..N /\ l.current \in Seq(Entry) /\ File(l, N) = l.current
  BY WfTypes
<1>1. /\ m \in LogType /\ m.next = Len(m.current) /\ Len(m.current) <= MaxNumEntries
      /\ h = Num(m) /\ h \in Nat /\ (h = N \/ h = N + 1)
      /\ \A j \in 1..N : j # h => File(m, j) = File(l, j) /\ Len(File(l, j)) > 0
  BY DEF IsWrite
<1>2. Len(m.files) \in Nat /\ h = Len(m.files) + 1 /\ File(m, h) = m.current
  <2>1. Len(m.files) \in Nat
    BY <1>1 DEF LogType
  <2> QED
    BY <1>1, <2>1 DEF Num, File
<1>3. Hi(l) \in Nat /\ Hi(l) = Starts(l)[N] + Len(l.current) /\ Lo(l) \in Nat \ {0} /\ Lo(l) < Hi(l)
  BY LoHi
<1>4. Starts(l)[N] \in Nat \ {0}
  BY <1>0, WfNums
<1> HIDE DEF N
<1> DEFINE base == IF h = N THEN Starts(l)[N] ELSE Hi(l)
           st == [j \in 1..h |-> IF j = h THEN base ELSE Starts(l)[j]]
<1>5. /\ base \in Nat \ {0} /\ Len(m.current) \in Nat /\ Len(m.current) > 0
      /\ base + Len(m.current) = Hi(l) + 1
      /\ m.current[Len(m.current)] = e
      /\ \A x \in 1..Len(m.current) : m.current[x].index = base + x - 1
      /\ \A x \in 1..Len(m.current) : x # Len(m.current) =>
           h = N /\ x \in 1..Len(l.current) /\ m.current[x] = l.current[x]
  <2>1. CASE h = N
    <3>1. m.current = Append(l.current, e)
      BY <1>0, <2>1 DEF IsWrite, N
    <3>2. /\ Len(m.current) = Len(l.current) + 1
          /\ \A x \in 1..Len(l.current) : m.current[x] = l.current[x]
          /\ m.current[Len(l.current) + 1] = e
      BY <1>0, <3>1, AppendProperties
    <3>3. \A x \in 1..Len(l.current) : l.current[x].index = Starts(l)[N] + x - 1
      BY <1>0, WfFacts DEF N
    <3>4. \A x \in 1..Len(m.current) : x = Len(l.current) + 1 \/ x \in 1..Len(l.current)
      BY <1>0, <3>2
    <3>5. base = Starts(l)[N]
      BY <2>1
    <3>6. base + Len(m.current) = Hi(l) + 1 /\ Len(m.current) > 0 /\ Len(m.current) \in Nat
      BY <1>0, <1>3, <1>4, <3>2, <3>5
    <3>7. e.index = base + (Len(l.current) + 1) - 1
      BY <1>0, <1>3, <1>4, <3>5
    <3> HIDE DEF base
    <3>8. \A x \in 1..Len(m.current) : m.current[x].index = base + x - 1
      BY <3>2, <3>3, <3>4, <3>5, <3>7
    <3>9. \A x \in 1..Len(m.current) : x # Len(m.current) =>
           h = N /\ x \in 1..Len(l.current) /\ m.current[x] = l.current[x]
      BY <2>1, <3>2, <3>4
    <3> QED
      BY <1>4, <3>2, <3>5, <3>6, <3>8, <3>9
  <2>2. CASE h # N
    <3>1. m.current = <<e>> /\ base = Hi(l)
      BY <2>2 DEF IsWrite, N
    <3>2. Len(m.current) = 1 /\ m.current[1] = e /\ 1..Len(m.current) = {1}
      BY <3>1
    <3> QED
      BY <1>3, <3>1, <3>2
  <2> QED
    BY <2>1, <2>2
<1> HIDE DEF base
<1>6. \A j \in 1..h : j # h => j \in 1..N
  BY <1>0, <1>1
<1>7. \A j \in 1..h : j # h => /\ File(m, j) = File(l, j) /\ Len(File(m, j)) > 0
                               /\ Starts(l)[j] \in Nat \ {0} /\ Len(File(m, j)) \in Nat
                               /\ Starts(l)[j] + Len(File(m, j)) <= base
  <2> SUFFICES ASSUME NEW j \in 1..h, j # h
               PROVE  /\ File(m, j) = File(l, j) /\ Len(File(m, j)) > 0
                      /\ Starts(l)[j] \in Nat \ {0} /\ Len(File(m, j)) \in Nat
                      /\ Starts(l)[j] + Len(File(m, j)) <= base
    OBVIOUS
  <2>1. j \in 1..N /\ File(m, j) = File(l, j) /\ Len(File(m, j)) > 0
    BY <1>1, <1>6
  <2>2. Starts(l)[j] \in Nat \ {0} /\ Len(File(m, j)) \in Nat
    BY <2>1, WfNums DEF N
  <2>3. CASE h = N
    <3>1. j < N /\ N \in 1..N
      BY <1>0, <2>1, <2>3
    <3>2. Starts(l)[j] + Len(File(l, j)) <= Starts(l)[N]
      BY <2>1, <3>1, WfFacts DEF N
    <3> QED
      BY <2>1, <2>2, <2>3, <3>2 DEF base
  <2>4. CASE h # N
    <3>1. Starts(l)[j] + Len(File(l, j)) <= Hi(l)
      BY <2>1, LoHi DEF N
    <3> QED
      BY <2>1, <2>2, <2>4, <3>1 DEF base
  <2> QED
    BY <2>1, <2>2, <2>3, <2>4
<1>8. Chain(m, st)
  <2>1. st \in [1..Num(m) -> Nat \ {0}]
    BY <1>1, <1>5, <1>7
  <2>2. ASSUME NEW j \in 1..Num(m)
        PROVE  /\ Len(File(m, j)) <= MaxNumEntries
               /\ j # Num(m) => Len(File(m, j)) > 0
    <3>1. CASE j = h
      BY <1>1, <1>2, <3>1
    <3>2. CASE j # h
      <4>1. File(m, j) = File(l, j) /\ Len(File(m, j)) > 0 /\ j \in 1..N
        BY <1>1, <1>6, <1>7, <3>2
      <4>2. Len(File(l, j)) <= MaxNumEntries
        BY <4>1, WfFacts DEF N
      <4> QED
        BY <4>1, <4>2
    <3> QED
      BY <3>1, <3>2
  <2>3. ASSUME NEW j \in 1..Num(m), NEW x \in 1..Len(File(m, j))
        PROVE  File(m, j)[x].index = st[j] + x - 1
    <3>1. CASE j = h
      BY <1>1, <1>2, <1>5, <3>1
    <3>2. CASE j # h
      <4>1. File(m, j) = File(l, j) /\ j \in 1..N /\ st[j] = Starts(l)[j]
        BY <1>1, <1>6, <1>7, <3>2
      <4>2. File(l, j)[x].index = Starts(l)[j] + x - 1
        BY <4>1, WfFacts DEF N
      <4> QED
        BY <4>1, <4>2
    <3> QED
      BY <3>1, <3>2
  <2>4. ASSUME NEW j \in 1..Len(m.files)
        PROVE  st[j + 1] = st[j] + Len(File(m, j))
    <3>1. j \in 1..h /\ j # h /\ j + 1 \in 1..h /\ j \in Nat
      BY <1>2
    <3>2. File(m, j) = File(l, j) /\ j \in 1..N /\ st[j] = Starts(l)[j]
      BY <1>6, <1>7, <3>1
    <3>3. CASE j = N
      <4>1. h = N + 1 /\ j + 1 = h
        BY <1>0, <1>1, <3>1, <3>3
      <4>2. st[j + 1] = Hi(l)
        BY <1>0, <3>1, <4>1 DEF base
      <4> QED
        BY <1>0, <1>3, <3>2, <3>3, <4>2
    <3>4. CASE j # N
      <4>1. j \in 1..Len(l.files)
        BY <1>0, <3>2, <3>4
      <4>2. Starts(l)[j + 1] = Starts(l)[j] + Len(File(l, j))
        BY <4>1, WfFacts
      <4>3. j + 1 = h => h = N
        BY <1>0, <1>1, <3>1, <4>1
      <4>4. st[j + 1] = Starts(l)[j + 1]
        BY <3>1, <4>3 DEF base
      <4> QED
        BY <3>2, <4>2, <4>4
    <3> QED
      BY <3>3, <3>4
  <2>5. ASSUME NEW i \in 1..Num(m), NEW j \in 1..Num(m), i < j
        PROVE  st[i] + Len(File(m, i)) <= st[j]
    <3>1. i # h /\ i \in 1..h /\ j \in 1..h
      BY <1>1, <2>5
    <3>2. CASE j = h
      BY <1>7, <3>1, <3>2
    <3>3. CASE j # h
      <4>1. i \in 1..N /\ j \in 1..N
        BY <1>6, <3>1, <3>3
      <4>2. Starts(l)[i] + Len(File(l, i)) <= Starts(l)[j]
        BY <2>5, <4>1, WfFacts DEF N
      <4> QED
        BY <1>7, <3>1, <3>3, <4>2
    <3> QED
      BY <3>2, <3>3
  <2> HIDE DEF st
  <2> QED
    BY <1>1, <2>1, <2>2, <2>3, <2>4, <2>5 DEF Chain
<1>9. Used(m)
  <2>1. m.current # <<>>
    BY <1>5
  <2> QED
    BY <2>1 DEF Used
<1>10. Starts(m) = st /\ Wf(m)
  <2> HIDE DEF st
  <2> QED
    BY <1>8, <1>9, StartsUnique
<1>11. Starts(m)[h] = base /\ \A j \in 1..h : j # h => Starts(m)[j] = Starts(l)[j]
  <2>1. h \in 1..h
    BY <1>2
  <2> QED
    BY <1>10, <2>1
<1> HIDE DEF st
<1>12. Hi(m) = Hi(l) + 1
  BY <1>1, <1>5, <1>11 DEF Hi
<1>13. Lo(m) = Lo(l)
  <2>1. CASE h = 1
    <3>1. h = N /\ N = 1
      BY <1>0, <1>1, <2>1
    <3> QED
      BY <1>11, <2>1, <3>1 DEF Lo, base
  <2>2. CASE h # 1
    <3>1. 1 \in 1..h /\ 1 # h
      BY <1>2, <2>2
    <3> QED
      BY <1>11, <3>1 DEF Lo
  <2> QED
    BY <2>1, <2>2
<1>14. Keeps(l, m, Hi(l) - 1)
  <2>1. SUFFICES ASSUME NEW j \in 1..Num(m), NEW i \in Nat, i <= Hi(l) - 1, In(m, j, i)
                 PROVE  /\ j \in 1..N /\ In(l, j, i) /\ Starts(m)[j] = Starts(l)[j]
                        /\ SameSlot(At(m, j, i), At(l, j, i))
    BY DEF Keeps, N
  <2>2. CASE j # h
    <3>1. j \in 1..N /\ File(m, j) = File(l, j) /\ Starts(m)[j] = Starts(l)[j]
      BY <1>1, <1>6, <1>7, <1>11, <2>2
    <3>2. In(l, j, i) /\ At(m, j, i) = At(l, j, i)
      BY <2>1, <3>1 DEF In, At, N
    <3> QED
      BY <3>1, <3>2 DEF SameSlot
  <2>3. CASE j = h
    <3> DEFINE x == i - base + 1
    <3>1. base <= i /\ i < base + Len(m.current)
      BY <1>2, <1>11, <2>1, <2>3 DEF In
    <3>2. x \in 1..Len(m.current) /\ x # Len(m.current)
      BY <1>3, <1>5, <2>1, <3>1
    <3>3. h = N /\ x \in 1..Len(l.current) /\ m.current[x] = l.current[x]
      BY <1>5, <3>2
    <3>4. base = Starts(l)[N]
      BY <3>3 DEF base
    <3>5. At(m, j, i) = m.current[x] /\ At(l, j, i) = l.current[x]
      BY <1>0, <1>2, <1>11, <2>3, <3>3, <3>4 DEF At
    <3>6. i < Starts(l)[N] + Len(l.current)
      BY <1>3, <1>0, <1>4, <2>1
    <3>7. In(l, j, i)
      BY <1>0, <2>3, <3>1, <3>3, <3>4, <3>6 DEF In, N
    <3> QED
      BY <1>0, <1>11, <2>3, <3>3, <3>4, <3>5, <3>7 DEF SameSlot
  <2> QED
    BY <2>2, <2>3
<1>15. ASSUME NEW k \in 1..Num(m), In(m, k, Hi(l))
       PROVE  At(m, k, Hi(l)) = e
  <2>1. Hi(l) - base + 1 = Len(m.current) /\ base <= Hi(l) /\ Hi(l) < base + Len(m.current)
    BY <1>3, <1>5
  <2>2. In(m, h, Hi(l))
    <3>1. h \in 1..Num(m)
      BY <1>1, <1>2
    <3> QED
      BY <1>2, <1>11, <2>1, <3>1 DEF In
  <2>3. k = h
    BY <1>1, <1>3, <1>10, <1>15, <2>2, InFacts
  <2> QED
    BY <1>2, <1>5, <1>11, <2>1, <2>3 DEF At
<1> QED
  BY <1>10, <1>12, <1>13, <1>14, <1>15

LEMMA WriteEntryIs ==
  ASSUME NEW l, Wf(l), NEW e \in Entry, e.index = Hi(l), NEW full, full => l.next > 0
  PROVE  /\ Wf(WriteEntry(l, e, full)) /\ Lo(WriteEntry(l, e, full)) = Lo(l)
         /\ Hi(WriteEntry(l, e, full)) = Hi(l) + 1
         /\ Keeps(l, WriteEntry(l, e, full), Hi(l) - 1)
         /\ \A k \in 1..Num(WriteEntry(l, e, full)) :
              In(WriteEntry(l, e, full), k, Hi(l)) => At(WriteEntry(l, e, full), k, Hi(l)) = e
<1>0. /\ Num(l) \in Nat /\ Num(l) >= 1 /\ Len(l.files) \in Nat /\ Num(l) = Len(l.files) + 1
      /\ Len(l.current) \in Nat /\ Num(l) \in 1..Num(l) /\ l.current \in Seq(Entry)
      /\ l.files \in Seq(Seq(Entry)) /\ MaxNumEntries \in Nat /\ MaxNumEntries > 0
  BY WfTypes, SlotsAssumption
<1>1. l \in LogType /\ l.next = Len(l.current) /\ Len(l.current) <= MaxNumEntries
  <2>1. Len(File(l, Num(l))) <= MaxNumEntries /\ File(l, Num(l)) = l.current
    BY <1>0, WfFacts, WfTypes
  <2> QED
    BY <2>1, WfFacts
<1>2. PICK m : m = WriteEntry(l, e, full)
  OBVIOUS
<1>3. CASE l.next >= MaxNumEntries \/ full
  <2>1. Len(l.current) > 0
    BY <1>0, <1>1, <1>3
  <2>2. PICK fs : fs = Append(l.files, l.current)
    OBVIOUS
  <2>3. fs \in Seq(Seq(Entry)) /\ Len(fs) = Num(l) /\ fs[Num(l)] = l.current
        /\ \A j \in 1..Len(l.files) : fs[j] = l.files[j]
    BY <1>0, <2>2, AppendProperties
  <2>4. m = [[files |-> fs, current |-> <<>>, next |-> 0]
               EXCEPT !.current = Append(@, e), !.next = @ + 1]
    BY <1>2, <1>3, <2>2 DEF WriteEntry
  <2>5. m = [files |-> fs, current |-> Append(<<>>, e), next |-> 0 + 1]
    BY <2>4
  <2>6. m.files = fs /\ m.current = <<e>> /\ m.next = 1
    BY <2>5
  <2>7. m \in LogType
    <3>1. <<e>> \in Seq(Entry)
      OBVIOUS
    <3> QED
      BY <2>3, <2>5, <2>6, <3>1 DEF LogType
  <2>8. Num(m) = Num(l) + 1
    <3>1. Num(m) = Len(fs) + 1
      BY <2>6 DEF Num
    <3> QED
      BY <2>3, <3>1
  <2>9. \A j \in 1..Num(l) : File(m, j) = File(l, j) /\ Len(File(l, j)) > 0
    <3> TAKE j \in 1..Num(l)
    <3>1. j # Num(m) /\ (j = Num(l) \/ j \in 1..Len(l.files))
      BY <1>0, <2>8
    <3>2. File(m, j) = fs[j]
      BY <2>6, <3>1 DEF File
    <3>3. CASE j = Num(l)
      BY <2>1, <2>3, <3>2, <3>3, WfTypes
    <3>4. CASE j # Num(l)
      BY <2>3, <3>1, <3>2, <3>4, WfTypes, WfFacts
    <3> QED
      BY <3>3, <3>4
  <2>10. Len(m.current) = 1
    BY <2>6
  <2>11. IsWrite(l, m, e, Num(l) + 1)
    BY <1>0, <2>6, <2>7, <2>8, <2>9, <2>10 DEF IsWrite
  <2> QED
    BY <1>2, <2>11, Written
<1>4. CASE ~(l.next >= MaxNumEntries \/ full)
  <2>1. PICK cur : cur = Append(l.current, e)
    OBVIOUS
  <2>2. cur \in Seq(Entry) /\ Len(cur) = Len(l.current) + 1
    BY <1>0, <2>1, AppendProperties
  <2>3. m = [l EXCEPT !.current = cur, !.next = l.next + 1]
    BY <1>2, <1>4, <2>1 DEF WriteEntry
  <2>4. m.files = l.files /\ m.current = cur /\ m.next = Len(l.current) + 1 /\ m \in LogType
    <3>1. l = [files |-> l.files, current |-> l.current, next |-> l.next]
      BY <1>1 DEF LogType
    <3>2. m = [files |-> l.files, current |-> cur, next |-> Len(l.current) + 1]
      BY <1>1, <2>3, <3>1
    <3>3. Len(l.current) + 1 \in Nat
      BY <1>0
    <3> QED
      BY <1>0, <2>2, <3>2, <3>3 DEF LogType
  <2>5. Num(m) = Num(l)
    BY <2>4 DEF Num
  <2>6. Len(cur) <= MaxNumEntries
    BY <1>0, <1>1, <1>4, <2>2
  <2>7. \A j \in 1..Num(l) : j # Num(l) => File(m, j) = File(l, j) /\ Len(File(l, j)) > 0
    <3>1. \A j \in 1..Num(l) : j # Num(l) => File(m, j) = File(l, j)
      BY <2>4, <2>5 DEF File
    <3> QED
      BY <3>1, WfFacts
  <2>8. IsWrite(l, m, e, Num(l))
    BY <1>0, <2>1, <2>2, <2>4, <2>5, <2>6, <2>7 DEF IsWrite
  <2> QED
    BY <1>2, <2>8, Written
<1> QED
  BY <1>3, <1>4

\* f is the function WriteEntries computes for the first n entries.
IsWrites(f, l, ents, large, n) ==
  f = [k \in 0..n |-> IF k = 0 THEN l
                      ELSE WriteEntry(f[k - 1], ents[k],
                                      ents[k].index \in large /\ f[k - 1].next > 0)]

LEMMA WritesExist ==
  ASSUME NEW l, NEW ents, NEW large, NEW n \in Nat
  PROVE  \E f : IsWrites(f, l, ents, large, n)
<1> DEFINE T == {m \in Nat : ~ \E f : IsWrites(f, l, ents, large, m)}
<1>1. SUFFICES ASSUME T # {} PROVE FALSE
  OBVIOUS
<1>2. PICK m \in T : \A y \in T : m <= y
  BY <1>1, LeastElement
<1>3. m \in Nat /\ ~ \E f : IsWrites(f, l, ents, large, m)
  OBVIOUS
<1>4. m # 0
  <2>1. SUFFICES ASSUME m = 0 PROVE FALSE
    OBVIOUS
  <2> DEFINE g == [k \in 0..0 |-> l]
  <2>2. IsWrites(g, l, ents, large, 0)
    BY DEF IsWrites
  <2> QED
    BY <1>3, <2>1, <2>2
<1>5. m - 1 \in Nat /\ m - 1 \notin T
  BY <1>2, <1>3, <1>4
<1>6. PICK f : IsWrites(f, l, ents, large, m - 1)
  BY <1>5
<1> DEFINE Step(p, k) == WriteEntry(p, ents[k], ents[k].index \in large /\ p.next > 0)
           g == [k \in 0..m |-> IF k = m THEN Step(f[m - 1], m) ELSE f[k]]
<1>7. ASSUME NEW k \in 0..m
      PROVE  g[k] = IF k = 0 THEN l ELSE Step(g[k - 1], k)
  <2>1. k # 0 => k - 1 \in 0..m /\ k - 1 # m
    BY <1>3
  <2>2. k # 0 => g[k - 1] = f[k - 1]
    BY <2>1
  <2>3. CASE k = m
    <3> HIDE DEF Step
    <3> QED
      BY <1>4, <2>2, <2>3
  <2>4. CASE k # m
    <3>1. k \in 0..(m - 1)
      BY <1>3, <2>4
    <3>2. f[k] = IF k = 0 THEN l ELSE Step(f[k - 1], k)
      BY <1>6, <3>1 DEF IsWrites
    <3> HIDE DEF Step
    <3> QED
      BY <2>2, <2>4, <3>2
  <2> QED
    BY <2>3, <2>4
<1>8. g = [k \in 0..m |-> IF k = 0 THEN l ELSE Step(g[k - 1], k)]
  <2> HIDE DEF Step
  <2> QED
    BY <1>7
<1>9. IsWrites(g, l, ents, large, m)
  <2> HIDE DEF g
  <2> QED
    BY <1>8 DEF IsWrites
<1> QED
  BY <1>3, <1>9

\* What WriteEntries leaves of l and where it puts the entries.
LEMMA WriteEntriesIs ==
  ASSUME NEW l, Wf(l), NEW ents \in Seq(Entry), NEW large,
         \A x \in 1..Len(ents) : ents[x].index = Hi(l) + x - 1
  PROVE  /\ Wf(WriteEntries(l, ents, large)) /\ Lo(WriteEntries(l, ents, large)) = Lo(l)
         /\ Hi(WriteEntries(l, ents, large)) = Hi(l) + Len(ents)
         /\ Keeps(l, WriteEntries(l, ents, large), Hi(l) - 1)
         /\ \A k \in 1..Num(WriteEntries(l, ents, large)), i \in Nat :
              In(WriteEntries(l, ents, large), k, i) /\ i >= Hi(l) =>
                /\ i - Hi(l) + 1 \in 1..Len(ents)
                /\ SameSlot(At(WriteEntries(l, ents, large), k, i), ents[i - Hi(l) + 1])
<1>0. Len(ents) \in Nat /\ Hi(l) \in Nat /\ Lo(l) \in Nat \ {0} /\ Lo(l) < Hi(l)
  BY LoHi
<1> DEFINE H == CHOOSE f : IsWrites(f, l, ents, large, Len(ents))
<1>1. IsWrites(H, l, ents, large, Len(ents))
  BY <1>0, WritesExist, Zenon
<1>2. WriteEntries(l, ents, large) = H[Len(ents)]
  BY DEF WriteEntries, IsWrites
<1> HIDE DEF H
<1>3. PICK f : f = H
  OBVIOUS
<1>4. \A k \in 0..Len(ents) :
        f[k] = IF k = 0 THEN l
               ELSE WriteEntry(f[k - 1], ents[k], ents[k].index \in large /\ f[k - 1].next > 0)
  BY <1>1, <1>3, Zenon DEF IsWrites
<1> DEFINE Good(n) == /\ Wf(f[n]) /\ Lo(f[n]) = Lo(l) /\ Hi(f[n]) = Hi(l) + n
                      /\ Keeps(l, f[n], Hi(l) - 1)
                      /\ \A k \in 1..Num(f[n]), i \in Nat : In(f[n], k, i) /\ i >= Hi(l) =>
                           /\ i - Hi(l) + 1 \in 1..Len(ents)
                           /\ SameSlot(At(f[n], k, i), ents[i - Hi(l) + 1])
           T == {k \in 0..Len(ents) : ~Good(k)}
<1>5. SUFFICES ASSUME T # {} PROVE FALSE
  <2>1. Len(ents) \in 0..Len(ents)
    BY <1>0
  <2>2. Good(Len(ents))
    BY <1>5, <2>1
  <2>3. WriteEntries(l, ents, large) = f[Len(ents)]
    BY <1>2, <1>3
  <2> QED
    BY <2>2, <2>3
<1>6. PICK n \in T : \A y \in T : n <= y
  <2>1. T \subseteq Nat
    BY <1>0
  <2> HIDE DEF T
  <2> QED
    BY <1>5, <2>1, LeastElement
<1>7. n \in 0..Len(ents) /\ ~Good(n)
  OBVIOUS
<1>8. n # 0
  <2>1. SUFFICES ASSUME n = 0 PROVE FALSE
    OBVIOUS
  <2>2. f[0] = l
    BY <1>0, <1>4
  <2>3. Keeps(l, l, Hi(l) - 1)
    BY DEF Keeps, SameSlot
  <2>4. ASSUME NEW k \in 1..Num(l), NEW i \in Nat, In(l, k, i), i >= Hi(l)
        PROVE  FALSE
    <3>1. i < Hi(l)
      BY <2>4, InFacts
    <3> QED
      BY <1>0, <2>4, <3>1
  <2>5. Good(0)
    BY <1>0, <2>2, <2>3, <2>4
  <2> QED
    BY <1>7, <2>1, <2>5
<1>9. n - 1 \in 0..Len(ents) /\ n \in 1..Len(ents) /\ n \in Nat
  BY <1>0, <1>7, <1>8
<1>10. Good(n - 1)
  BY <1>0, <1>6, <1>9
<1> HIDE DEF T
<1>11. PICK p, e, full : /\ p = f[n - 1] /\ e = ents[n] /\ e \in Entry
                         /\ full = (ents[n].index \in large /\ p.next > 0)
  BY <1>9
<1>12. f[n] = WriteEntry(p, e, full) /\ (full => p.next > 0)
  BY <1>4, <1>7, <1>8, <1>11
<1>13. Wf(p) /\ Lo(p) = Lo(l) /\ Hi(p) = Hi(l) + (n - 1) /\ Keeps(l, p, Hi(l) - 1)
  BY <1>10, <1>11
<1>14. e.index = Hi(p) /\ Hi(p) \in Nat /\ Hi(p) - 1 \in Nat /\ Hi(l) - 1 \in Nat /\ Hi(l) - 1 <= Hi(p) - 1
  <2>1. ents[n].index = Hi(l) + n - 1
    BY <1>9
  <2> QED
    BY <1>0, <1>9, <1>11, <1>13, <2>1
<1>15. PICK q : q = f[n]
  OBVIOUS
<1>16. /\ Wf(q) /\ Lo(q) = Lo(p) /\ Hi(q) = Hi(p) + 1 /\ Keeps(p, q, Hi(p) - 1)
       /\ \A k \in 1..Num(q) : In(q, k, Hi(p)) => At(q, k, Hi(p)) = e
  BY <1>11, <1>12, <1>13, <1>14, <1>15, WriteEntryIs
<1>17. Keeps(l, q, Hi(l) - 1)
  <2>1. Keeps(p, q, Hi(l) - 1)
    BY <1>14, <1>16 DEF Keeps
  <2>2. Hi(l) - 1 <= Hi(l) - 1
    BY <1>0
  <2> QED
    BY <1>13, <1>14, <2>1, <2>2, KeepsTrans
<1>18. ASSUME NEW k \in 1..Num(q), NEW i \in Nat, In(q, k, i), i >= Hi(l)
       PROVE  /\ i - Hi(l) + 1 \in 1..Len(ents)
              /\ SameSlot(At(q, k, i), ents[i - Hi(l) + 1])
  <2>1. i < Hi(q)
    BY <1>16, <1>18, InFacts
  <2>2. CASE i = Hi(p)
    <3>1. i - Hi(l) + 1 = n
      BY <1>0, <1>9, <1>13, <2>2
    <3> QED
      BY <1>9, <1>11, <1>16, <1>18, <2>2, <3>1 DEF SameSlot
  <2>3. CASE i # Hi(p)
    <3>1. i <= Hi(p) - 1
      BY <1>14, <1>16, <2>1, <2>3
    <3>2. PICK j \in 1..Num(p) : In(p, j, i) /\ SameSlot(At(q, k, i), At(p, j, i))
      BY <1>16, <1>18, <3>1 DEF Keeps
    <3>3. /\ i - Hi(l) + 1 \in 1..Len(ents)
          /\ SameSlot(At(p, j, i), ents[i - Hi(l) + 1])
      BY <1>10, <1>11, <1>18, <3>2
    <3> QED
      BY <3>2, <3>3 DEF SameSlot
  <2> QED
    BY <2>2, <2>3
<1>19. Lo(q) = Lo(l) /\ Hi(q) = Hi(l) + n
  BY <1>0, <1>9, <1>13, <1>16
<1>20. Good(n)
  BY <1>15, <1>16, <1>17, <1>18, <1>19
<1> QED
  BY <1>7, <1>20

\* AddEntries of entries that begin in the log or behind it.
LEMMA AddEntriesIs ==
  ASSUME NEW l, Wf(l), NEW ents \in Seq(Entry), ents # <<>>, NEW large, NEW i \in Nat,
         Lo(l) < i, i <= Hi(l), \A x \in 1..Len(ents) : ents[x].index = i + x - 1,
         NEW n \in 0..Len(ents), NEW m,
         m = WriteEntries(DiscardFrom(l, i), SubSeq(ents, 1, n), large)
  PROVE  /\ Wf(m) /\ Lo(m) = Lo(l) /\ Hi(m) = i + n
         /\ Keeps(l, m, i - 1)
         /\ \A k \in 1..Num(m), j \in Nat : In(m, k, j) /\ j >= i =>
              j - i + 1 \in 1..Len(ents) /\ SameSlot(At(m, k, j), ents[j - i + 1])
<1>0. i - 1 \in Nat /\ Len(ents) \in Nat /\ n \in Nat /\ n <= Len(ents)
  BY LoHi
<1>1. PICK d, es : d = DiscardFrom(l, i) /\ es = SubSeq(ents, 1, n)
  OBVIOUS
<1>2. Wf(d) /\ Lo(d) = Lo(l) /\ Hi(d) = i /\ Keeps(l, d, i - 1)
  BY <1>0, <1>1, DiscardIs
<1>3. es \in Seq(Entry) /\ Len(es) = n /\ \A x \in 1..n : es[x] = ents[x]
  BY <1>1
<1>4. \A x \in 1..Len(es) : es[x].index = Hi(d) + x - 1
  BY <1>0, <1>2, <1>3
<1>5. /\ Wf(m) /\ Lo(m) = Lo(d) /\ Hi(m) = Hi(d) + Len(es) /\ Keeps(d, m, Hi(d) - 1)
      /\ \A k \in 1..Num(m), j \in Nat : In(m, k, j) /\ j >= Hi(d) =>
           j - Hi(d) + 1 \in 1..Len(es) /\ SameSlot(At(m, k, j), es[j - Hi(d) + 1])
  <2> DEFINE w == WriteEntries(d, es, large)
  <2>1. m = w
    BY <1>1
  <2>2. Wf(d) /\ es \in Seq(Entry)
    BY <1>2, <1>3
  <2>3. /\ Wf(w) /\ Lo(w) = Lo(d) /\ Hi(w) = Hi(d) + Len(es) /\ Keeps(d, w, Hi(d) - 1)
        /\ \A k \in 1..Num(w), j \in Nat : In(w, k, j) /\ j >= Hi(d) =>
             j - Hi(d) + 1 \in 1..Len(es) /\ SameSlot(At(w, k, j), es[j - Hi(d) + 1])
    BY <1>4, <2>2, WriteEntriesIs, Zenon
  <2> QED
    BY <2>1, <2>3, Zenon
<1>6. Keeps(l, m, i - 1)
  <2>1. i - 1 <= i - 1 /\ Keeps(d, m, i - 1)
    BY <1>0, <1>2, <1>5
  <2> QED
    BY <1>0, <1>2, <2>1, KeepsTrans
<1>7. ASSUME NEW k \in 1..Num(m), NEW j \in Nat, In(m, k, j), j >= i
      PROVE  j - i + 1 \in 1..Len(ents) /\ SameSlot(At(m, k, j), ents[j - i + 1])
  <2>1. j - i + 1 \in 1..n /\ SameSlot(At(m, k, j), es[j - i + 1])
    BY <1>2, <1>3, <1>5, <1>7
  <2> QED
    BY <1>0, <1>3, <2>1
<1> QED
  BY <1>2, <1>3, <1>5, <1>6, <1>7

-----------------------------------------------------------------------------
(* Reading.                                                                *)

\* The slots of the files from the k-th on hold the indexes from its first on.
LEMMA JoinedFrom ==
  ASSUME NEW l, Wf(l), NEW k \in 1..Num(l), NEW s,
         s = Joined(SubSeq(Append(l.files, l.current), k, Num(l)))
  PROVE  /\ s \in Seq(Entry) /\ Len(s) = Hi(l) - Starts(l)[k]
         /\ \A y \in 1..Len(s) : \E h \in 1..Num(l) :
              In(l, h, Starts(l)[k] + y - 1) /\ s[y] = At(l, h, Starts(l)[k] + y - 1)
<1>0. /\ Num(l) \in Nat /\ Num(l) >= 1 /\ Len(l.files) \in Nat /\ Num(l) = Len(l.files) + 1
      /\ l.files \in Seq(Seq(Entry)) /\ l.current \in Seq(Entry) /\ k \in Nat /\ k >= 1 /\ k <= Num(l)
  BY WfTypes
<1>1. PICK all : all = Append(l.files, l.current)
  OBVIOUS
<1>2. all \in Seq(Seq(Entry)) /\ Len(all) = Num(l) /\ \A j \in 1..Num(l) : all[j] = File(l, j)
  <2>1. /\ all \in Seq(Seq(Entry)) /\ Len(all) = Len(l.files) + 1
        /\ \A j \in 1..Len(l.files) : all[j] = l.files[j]
        /\ all[Len(l.files) + 1] = l.current
    BY <1>0, <1>1, AppendProperties
  <2>2. ASSUME NEW j \in 1..Num(l)
        PROVE  all[j] = File(l, j)
    <3>1. CASE j = Num(l)
      BY <1>0, <2>1, <3>1 DEF File
    <3>2. CASE j # Num(l)
      <4>1. j \in 1..Len(l.files)
        BY <1>0, <3>2
      <4> QED
        BY <2>1, <3>2, <4>1 DEF File
    <3> QED
      BY <3>1, <3>2
  <2> QED
    BY <1>0, <2>1, <2>2
<1>3. PICK a \in Nat : a = Num(l) - k + 1
  <2>1. Num(l) - k + 1 \in Nat
    BY <1>0
  <2> QED
    BY <2>1
<1>4. PICK fs : fs = SubSeq(all, k, Num(l))
  OBVIOUS
<1>5. a >= 1 /\ \A j \in 1..a : j + k - 1 \in 1..Num(l) /\ (j = a <=> j + k - 1 = Num(l))
                                /\ (j # a => j + 1 \in 1..a /\ j + k - 1 \in 1..Len(l.files))
  <2>1. PICK b \in Nat, c \in Nat : b = Num(l) /\ c = Len(l.files)
    BY <1>0
  <2>2. b = c + 1 /\ k \in Nat /\ k >= 1 /\ k <= b /\ a = b - k + 1
    BY <1>0, <1>3, <2>1
  <2>3. a >= 1
    BY <2>1, <2>2
  <2>4. ASSUME NEW j \in 1..a
        PROVE  j + k - 1 \in 1..b /\ (j = a <=> j + k - 1 = b)
    BY <2>1, <2>2
  <2>5. ASSUME NEW j \in 1..a, j # a
        PROVE  j + 1 \in 1..a /\ j + k - 1 \in 1..c
    BY <2>1, <2>2, <2>5
  <2> QED
    BY <2>1, <2>3, <2>4, <2>5
<1>6. fs \in Seq(Seq(Entry)) /\ Len(fs) = a /\ \A j \in 1..a : fs[j] = File(l, j + k - 1)
  <2>1. \A i \in k..Num(l) : all[i] \in Seq(Entry)
    BY <1>0, <1>2
  <2>2. k \in Int /\ Num(l) \in Int /\ k <= Num(l)
    BY <1>0
  <2>3. /\ fs \in Seq(Seq(Entry)) /\ Len(fs) = Num(l) - k + 1
        /\ \A i \in 1..(Num(l) - k + 1) : fs[i] = all[k + i - 1]
    BY <1>4, <2>1, <2>2, SubSeqProperties
  <2>4. ASSUME NEW j \in 1..a
        PROVE  fs[j] = File(l, j + k - 1)
    <3>1. k + j - 1 = j + k - 1
      BY <1>0
    <3> QED
      BY <1>2, <1>3, <1>5, <2>3, <3>1
  <2> QED
    BY <1>3, <2>3, <2>4
<1> DEFINE st == [j \in 1..(a + 1) |-> IF j = a + 1 THEN Hi(l) ELSE Starts(l)[j + k - 1]]
<1>7. /\ Hi(l) \in Nat /\ Hi(l) = Starts(l)[Num(l)] + Len(l.current) /\ Starts(l)[k] \in Nat \ {0}
      /\ \A j \in 1..Num(l) : Starts(l)[j] \in Nat \ {0} /\ Len(File(l, j)) \in Nat
  <2>1. Hi(l) \in Nat /\ Hi(l) = Starts(l)[Num(l)] + Len(l.current)
    BY LoHi
  <2> QED
    BY <2>1, WfNums
<1>8. /\ \A j \in 1..a : j \in 1..(a + 1) /\ j # a + 1 /\ st[j] = Starts(l)[j + k - 1]
      /\ a + 1 \in 1..(a + 1) /\ st[a + 1] = Hi(l)
      /\ 1 \in 1..a /\ st[1] = Starts(l)[k]
  <2>1. \A j \in 1..a : j \in 1..(a + 1) /\ j # a + 1 /\ st[j] = Starts(l)[j + k - 1]
    OBVIOUS
  <2>2. 1 \in 1..a /\ 1 + k - 1 = k /\ a + 1 \in 1..(a + 1)
    BY <1>0, <1>5
  <2> QED
    BY <2>1, <2>2
<1>9. st \in [1..(Len(fs) + 1) -> Nat]
  <2>1. \A j \in 1..(a + 1) : j = a + 1 \/ j \in 1..a
    OBVIOUS
  <2>2. \A j \in 1..(a + 1) : st[j] \in Nat
    BY <1>5, <1>7, <1>8, <2>1
  <2> QED
    BY <1>6, <2>2
<1>10. \A j \in 1..Len(fs) : st[j + 1] = st[j] + Len(fs[j])
  <2> SUFFICES ASSUME NEW j \in 1..a
               PROVE  st[j + 1] = st[j] + Len(File(l, j + k - 1))
    BY <1>6
  <2>1. CASE j = a
    <3>1. j + k - 1 = Num(l) /\ File(l, Num(l)) = l.current
      BY <1>5, <2>1, WfTypes
    <3> QED
      BY <1>7, <1>8, <2>1, <3>1
  <2>2. CASE j # a
    <3>1. j + 1 \in 1..a /\ j + k - 1 \in 1..Len(l.files) /\ (j + 1) + k - 1 = (j + k - 1) + 1
      BY <1>0, <1>5, <2>2
    <3>2. Starts(l)[(j + k - 1) + 1] = Starts(l)[j + k - 1] + Len(File(l, j + k - 1))
      BY <3>1, WfFacts
    <3> HIDE DEF st
    <3> QED
      BY <1>8, <3>1, <3>2
  <2> QED
    BY <2>1, <2>2
<1> HIDE DEF st
<1>11. s = Joined(fs)
  BY <1>1, <1>4
<1>12. /\ s \in Seq(Entry) /\ Len(s) = st[Len(fs) + 1] - st[1]
       /\ \A y \in 1..Len(s) : \E j \in 1..Len(fs) :
            /\ st[j] - st[1] < y /\ y <= st[j] - st[1] + Len(fs[j])
            /\ s[y] = fs[j][y - (st[j] - st[1])]
  <2>1. fs \in Seq(Seq(Entry))
    BY <1>6
  <2>2. /\ Joined(fs) \in Seq(Entry)
        /\ Len(Joined(fs)) = st[Len(fs) + 1] - st[1]
        /\ \A y \in 1..Len(Joined(fs)) : \E j \in 1..Len(fs) :
             /\ st[j] - st[1] < y /\ y <= st[j] - st[1] + Len(fs[j])
             /\ Joined(fs)[y] = fs[j][y - (st[j] - st[1])]
    BY <1>9, <1>10, <2>1, JoinedSlots
  <2> QED
    BY <1>11, <2>2, Zenon
<1>13. ASSUME NEW y \in 1..Len(s)
       PROVE  \E h \in 1..Num(l) :
                In(l, h, Starts(l)[k] + y - 1) /\ s[y] = At(l, h, Starts(l)[k] + y - 1)
  <2>1. PICK j \in 1..a : /\ st[j] - st[1] < y /\ y <= st[j] - st[1] + Len(fs[j])
                          /\ s[y] = fs[j][y - (st[j] - st[1])]
    BY <1>6, <1>12
  <2>2. PICK h : h = j + k - 1
    OBVIOUS
  <2>3. h \in 1..Num(l) /\ fs[j] = File(l, h) /\ st[j] = Starts(l)[h]
    BY <1>5, <1>6, <1>8, <2>2
  <2>4. Starts(l)[h] \in Nat /\ Len(File(l, h)) \in Nat /\ st[1] = Starts(l)[k] /\ y \in Nat
    BY <1>7, <1>8, <1>12, <2>3
  <2>5. PICK b \in Nat, c \in Nat, n \in Nat : b = Starts(l)[h] /\ c = Starts(l)[k] /\ n = Len(File(l, h))
    BY <1>7, <2>4
  <2>6. b - c < y /\ y <= b - c + n /\ s[y] = File(l, h)[y - (b - c)]
    BY <2>1, <2>3, <2>4, <2>5
  <2>7. b <= c + y - 1 /\ c + y - 1 < b + n /\ y - (b - c) = (c + y - 1) - b + 1
    BY <2>4, <2>5, <2>6, SMTT(30)
  <2>8. In(l, h, c + y - 1)
    BY <2>3, <2>5, <2>7 DEF In
  <2>9. s[y] = At(l, h, c + y - 1)
    BY <2>5, <2>6, <2>7 DEF At
  <2> QED
    BY <2>3, <2>5, <2>8, <2>9
<1> QED
  BY <1>6, <1>8, <1>12, <1>13

\* A range of indexes as a range of slots behind b, and one slot of it.
LEMMA Span ==
  ASSUME NEW lo \in Nat, NEW hi \in Nat, NEW b \in Nat, NEW c \in Nat, b <= lo, lo <= hi, hi <= c
  PROVE  /\ lo - b + 1 \in Nat /\ lo - b + 1 >= 1
         /\ hi - b + 1 \in Nat /\ lo - b + 1 <= hi - b + 1 /\ hi - b + 1 <= (c - b) + 1
         /\ (hi - b + 1) - 1 \in Int /\ ((hi - b + 1) - 1) - (lo - b + 1) + 1 = hi - lo
         /\ (lo - b + 1 <= (hi - b + 1) - 1) <=> (hi - lo > 0)
         /\ \A x \in 1..(hi - lo) : /\ (lo - b + 1) + x - 1 \in 1..(c - b)
                                    /\ b + ((lo - b + 1) + x - 1) - 1 = lo + x - 1
  OBVIOUS

LEMMA AllEntriesIs ==
  ASSUME NEW l, Wf(l), NEW lo \in Nat, NEW hi \in Nat, Lo(l) <= lo, lo <= hi, hi <= Hi(l)
  PROVE  /\ AllEntries(l, lo, hi) \in Seq(Entry) /\ Len(AllEntries(l, lo, hi)) = hi - lo
         /\ \A x \in 1..(hi - lo) : \E k \in 1..Num(l) :
              In(l, k, lo + x - 1) /\ AllEntries(l, lo, hi)[x] = At(l, k, lo + x - 1)
<1>1. Hi(l) \in Nat /\ lo <= Hi(l)
  BY LoHi
<1>2. PICK k \in 1..Num(l) :
        /\ Starts(l)[k] <= lo
        /\ SlotGe(l, lo) = <<IF k = Num(l) THEN -1 ELSE k - 1, lo - Starts(l)[k]>>
  BY <1>1, SlotOf
<1>3. PICK b \in Nat : b = Starts(l)[k] /\ b <= lo /\ b > 0
  <2>1. Starts(l)[k] \in Nat \ {0}
    BY WfNums
  <2>2. Starts(l)[k] > 0
    BY <2>1
  <2> QED
    BY <1>2, <2>1, <2>2
<1>4. PICK all : all = Append(l.files, l.current)
  OBVIOUS
<1>5. Len(all) = Num(l) /\ Num(l) \in Nat
  <2>1. l.files \in Seq(Seq(Entry)) /\ l.current \in Seq(Entry) /\ Num(l) = Len(l.files) + 1 /\ Num(l) \in Nat
    BY WfTypes
  <2> QED
    BY <1>4, <2>1, AppendProperties
<1>6. PICK at : at = SlotGe(l, lo)
  OBVIOUS
<1>7. (IF at[1] = -1 THEN Len(all) ELSE at[1] + 1) = k /\ at[2] = lo - b
  <2>1. at[1] = (IF k = Num(l) THEN -1 ELSE k - 1) /\ at[2] = lo - b
    BY <1>2, <1>3, <1>6
  <2>2. k \in Nat /\ k >= 1 /\ k - 1 # -1 /\ (k - 1) + 1 = k
    BY <1>5
  <2> QED
    BY <1>5, <2>1, <2>2
<1>8. PICK s : s = Joined(SubSeq(all, k, Len(all)))
  OBVIOUS
<1>9. /\ s \in Seq(Entry) /\ Len(s) = Hi(l) - b
      /\ \A y \in 1..Len(s) : \E h \in 1..Num(l) : In(l, h, b + y - 1) /\ s[y] = At(l, h, b + y - 1)
  <2>1. s = Joined(SubSeq(Append(l.files, l.current), k, Num(l)))
    BY <1>4, <1>5, <1>8
  <2> QED
    BY <1>3, <2>1, JoinedFrom
<1>10. \A y \in 1..Len(s) : s[y].index = b + y - 1
  <2> TAKE y \in 1..Len(s)
  <2>1. PICK h \in 1..Num(l) : In(l, h, b + y - 1) /\ s[y] = At(l, h, b + y - 1)
    BY <1>9
  <2>2. b + y - 1 \in Nat
    BY <1>1, <1>9
  <2> QED
    BY <2>1, <2>2, InFacts
<1>11. PICK c \in Nat : c = Hi(l) /\ lo <= c /\ hi <= c
  BY <1>1
<1>12. /\ lo - b + 1 \in Nat /\ lo - b + 1 >= 1
       /\ hi - b + 1 \in Nat /\ lo - b + 1 <= hi - b + 1 /\ hi - b + 1 <= (c - b) + 1
       /\ (hi - b + 1) - 1 \in Int /\ ((hi - b + 1) - 1) - (lo - b + 1) + 1 = hi - lo
       /\ (lo - b + 1 <= (hi - b + 1) - 1) <=> (hi - lo > 0)
       /\ \A x \in 1..(hi - lo) : /\ (lo - b + 1) + x - 1 \in 1..(c - b)
                                  /\ b + ((lo - b + 1) + x - 1) - 1 = lo + x - 1
  BY <1>3, <1>11, Span
<1>13. PICK from \in Nat : from = lo - b + 1 /\ from >= 1
  BY <1>12
<1>14. Max({at[2], 0}) + 1 = from
  <2>1. PICK S : S = {at[2], 0}
    OBVIOUS
  <2>2. S \subseteq Int /\ lo - b \in S /\ \A y \in S : lo - b >= y
    BY <1>3, <1>7, <2>1
  <2>3. Max(S) = lo - b
    BY <2>2, MaxIs
  <2> QED
    BY <1>13, <2>1, <2>3
<1>15. PICK end \in Nat : end = hi - b + 1 /\ from <= end /\ end <= Len(s) + 1 /\ Len(s) \in Nat
  <2>1. Len(s) = c - b /\ Len(s) \in Nat
    BY <1>11, <1>9
  <2> QED
    BY <1>12, <1>13, <2>1
<1> DEFINE S == {y \in from..Len(s) : s[y].index >= hi} \cup {Len(s) + 1}
<1>16. Min(S) = end
  <2>1. S \subseteq Int
    BY <1>13, <1>15
  <2>2. end \in S
    <3>1. CASE end = Len(s) + 1
      BY <3>1
    <3>2. CASE end # Len(s) + 1
      <4>1. end \in from..Len(s) /\ end \in 1..Len(s)
        BY <1>13, <1>15, <3>2
      <4>2. s[end].index = b + end - 1
        BY <1>10, <4>1
      <4>3. s[end].index >= hi
        BY <1>3, <1>15, <4>2, SMTT(30)
      <4> QED
        BY <4>1, <4>3
    <3> QED
      BY <3>1, <3>2
  <2>3. ASSUME NEW y \in S
        PROVE  end <= y
    <3>1. CASE y = Len(s) + 1
      BY <1>15, <3>1
    <3>2. CASE y \in from..Len(s) /\ s[y].index >= hi
      <4>1. y \in 1..Len(s)
        BY <1>13, <1>15, <3>2
      <4>2. s[y].index = b + y - 1
        BY <1>10, <4>1
      <4> QED
        BY <1>3, <1>15, <3>2, <4>1, <4>2, SMTT(40)
    <3> QED
      BY <3>1, <3>2
  <2> HIDE DEF S
  <2> QED
    BY <2>1, <2>2, <2>3, MinIs
<1> HIDE DEF S
<1>17. PICK r : r = SubSeq(s, from, end - 1)
  OBVIOUS
<1>18. AllEntries(l, lo, hi) = r
  <2>1. AllEntries(l, lo, hi) = SubSeq(s, from, Min(S) - 1)
    BY <1>4, <1>6, <1>7, <1>8, <1>14 DEF AllEntries, S
  <2> QED
    BY <1>16, <1>17, <2>1
<1>19. r \in Seq(Entry) /\ Len(r) = hi - lo /\ \A x \in 1..(hi - lo) : r[x] = s[from + x - 1]
  <2>1. from \in Int /\ end - 1 \in Int /\ (end - 1) - from + 1 = hi - lo
    <3>1. end - 1 \in Int /\ (end - 1) - from + 1 = hi - lo
      BY <1>12, <1>13, <1>15, Zenon
    <3> QED
      BY <3>1
  <2>2. \A x \in from..(end - 1) : s[x] \in Entry
    BY <1>9, <1>13, <1>15
  <2>3. /\ r \in Seq(Entry) /\ Len(r) = IF from <= end - 1 THEN (end - 1) - from + 1 ELSE 0
        /\ \A x \in 1..((end - 1) - from + 1) : r[x] = s[from + x - 1]
    BY <1>17, <2>1, <2>2, SubSeqProperties
  <2>4. Len(r) = hi - lo
    <3>1. (from <= end - 1) <=> (hi - lo > 0)
      BY <1>12, <1>13, <1>15, Zenon
    <3>2. CASE from <= end - 1
      BY <2>1, <2>3, <3>2
    <3>3. CASE ~(from <= end - 1)
      <4>1. Len(r) = 0
        BY <2>3, <3>3
      <4> QED
        BY <3>1, <3>3, <4>1
    <3> QED
      BY <3>2, <3>3
  <2> QED
    BY <2>1, <2>3, <2>4
<1>20. ASSUME NEW x \in 1..(hi - lo)
       PROVE  \E h \in 1..Num(l) : In(l, h, lo + x - 1) /\ r[x] = At(l, h, lo + x - 1)
  <2>1. from + x - 1 \in 1..Len(s) /\ b + (from + x - 1) - 1 = lo + x - 1
    <3>1. Len(s) = c - b
      BY <1>11, <1>9
    <3> QED
      BY <1>12, <1>13, <3>1, Zenon
  <2>2. PICK h \in 1..Num(l) : /\ In(l, h, b + (from + x - 1) - 1)
                               /\ s[from + x - 1] = At(l, h, b + (from + x - 1) - 1)
    BY <1>9, <2>1
  <2> QED
    BY <1>19, <2>1, <2>2
<1> QED
  BY <1>18, <1>19, <1>20


=============================================================================
