------------------------- MODULE AuditSearchProofs -------------------------
(***************************************************************************)
(* Theorems about AuditSearch: for any agents, requests, keys and page     *)
(* sizes, and whatever is written, mined and asked in any order.           *)
(*                                                                         *)
(* The scan of the contract is a recursive function.  Induction is done    *)
(* over a set of numbers, by its least element that would be missing.      *)
(***************************************************************************)
EXTENDS AuditSearch, FiniteSetTheorems, SequenceTheorems, TLAPS

Less == {p \in Nat \X Nat : p[1] < p[2]}

\* A set of numbers that has 0 and the successors of its elements has them all.
LEMMA Induction ==
    ASSUME NEW n \in Nat, NEW P, 0 \in P, \A i \in 1 .. n : i - 1 \in P => i \in P
    PROVE  0 .. n \subseteq P
<1> DEFINE missing == (0 .. n) \ P
<1>1. SUFFICES ASSUME missing # {} PROVE FALSE
  OBVIOUS
<1>2. IsWellFoundedOn(Less, Nat)
  BY NatLessThanWellFounded DEF OpToRel, Less
<1>3. missing \in SUBSET Nat
  OBVIOUS
<1>4. PICK i \in missing : \A j \in missing : <<j, i>> \notin Less
  <2> HIDE DEF missing
  <2> QED
    BY <1>1, <1>2, <1>3, WFMin
<1>5. i \in 1 .. n
  OBVIOUS
<1>6. i - 1 \in 0 .. n /\ <<i - 1, i>> \in Less
  BY <1>5 DEF Less
<1>7. i - 1 \in P
  BY <1>4, <1>6
<1> QED
  BY <1>5, <1>7

-----------------------------------------------------------------------------
(* Ranks of positions *)

Before(M, j) == {i \in M : i < j}

LEMMA Finite ==
    ASSUME NEW n \in Nat, NEW M \in SUBSET (1 .. n)
    PROVE  /\ IsFiniteSet(M) /\ Cardinality(M) \in Nat /\ Cardinality(M) <= n
           /\ \A j : /\ Rank(M, j) = Cardinality(Before(M, j)) /\ Rank(M, j) \in Nat
                     /\ IsFiniteSet(Before(M, j))
<1>1. IsFiniteSet(1 .. n) /\ Cardinality(1 .. n) = n
  BY FS_Interval
<1>2. \A S \in SUBSET (1 .. n) :
          IsFiniteSet(S) /\ Cardinality(S) \in Nat /\ Cardinality(S) <= n
  BY <1>1, FS_Subset, FS_CardinalityType
<1>3. \A j : Before(M, j) \in SUBSET (1 .. n)
  BY DEF Before
<1> QED
  BY <1>2, <1>3 DEF Rank, Before

LEMMA RankZero ==
    ASSUME NEW n \in Nat, NEW M \in SUBSET (1 .. n)
    PROVE  Rank(M, 1) = 0 /\ Rank(M, n + 1) = Cardinality(M)
<1>1. \A x \in M : x \in Nat /\ x >= 1 /\ x <= n
  OBVIOUS
<1>2. \A x \in M : ~(x < 1) /\ x < n + 1
  BY <1>1
<1>3. Before(M, 1) = {} /\ Before(M, n + 1) = M
  BY <1>2, Zenon DEF Before
<1> QED
  BY <1>3, FS_EmptySet, Finite

LEMMA RankNext ==
    ASSUME NEW n \in Nat, NEW M \in SUBSET (1 .. n), NEW j \in 1 .. n
    PROVE  Rank(M, j + 1) = IF j \in M THEN Rank(M, j) + 1 ELSE Rank(M, j)
<1>1. \A x \in M : x \in Nat
  OBVIOUS
<1>2. \A x \in M : x < j + 1 <=> x < j \/ x = j
  BY <1>1
<1>3. /\ IsFiniteSet(Before(M, j))
      /\ Rank(M, j) = Cardinality(Before(M, j))
      /\ Rank(M, j + 1) = Cardinality(Before(M, j + 1))
  BY Finite
<1>4. j \notin Before(M, j)
  BY DEF Before
<1>5. CASE j \in M
  <2>1. Before(M, j + 1) = Before(M, j) \union {j}
    BY <1>2, <1>5, Zenon DEF Before
  <2>2. Cardinality(Before(M, j) \union {j}) = Cardinality(Before(M, j)) + 1
    BY <1>3, <1>4, FS_AddElement, Zenon
  <2> QED
    BY <1>3, <1>5, <2>1, <2>2
<1>6. CASE j \notin M
  <2>1. Before(M, j + 1) = Before(M, j)
    BY <1>2, <1>6, Zenon DEF Before
  <2> QED
    BY <1>3, <1>6, <2>1
<1> QED
  BY <1>5, <1>6

\* Later positions have no smaller rank, and a larger one if one of M is between.
LEMMA RankGrows ==
    ASSUME NEW n \in Nat, NEW M \in SUBSET (1 .. n), NEW i \in 1 .. n, NEW j \in 1 .. n + 1,
           i < j
    PROVE  Rank(M, i) <= Rank(M, j) /\ (i \in M => Rank(M, i) < Rank(M, j))
<1>1. \A x \in M : x \in Nat
  OBVIOUS
<1>2. \A x \in M : x < i => x < j
  BY <1>1
<1>3. /\ IsFiniteSet(Before(M, i)) /\ IsFiniteSet(Before(M, j))
      /\ Rank(M, i) \in Nat /\ Rank(M, j) \in Nat
      /\ Rank(M, i) = Cardinality(Before(M, i)) /\ Rank(M, j) = Cardinality(Before(M, j))
  BY Finite
<1>4. Before(M, i) \in SUBSET Before(M, j)
  BY <1>2 DEF Before
<1>5. Rank(M, i) <= Rank(M, j)
  BY <1>3, <1>4, FS_Subset
<1>6. ASSUME i \in M PROVE Rank(M, i) # Rank(M, j)
  <2>1. i \in Before(M, j) /\ i \notin Before(M, i)
    BY <1>6 DEF Before
  <2> QED
    BY <1>3, <1>4, <2>1, FS_Subset
<1> QED
  BY <1>3, <1>5, <1>6

LEMMA RankInjective ==
    ASSUME NEW n \in Nat, NEW M \in SUBSET (1 .. n), NEW i \in M, NEW j \in M,
           Rank(M, i) = Rank(M, j)
    PROVE  i = j
<1>1. i \in 1 .. n /\ j \in 1 .. n /\ i \in 1 .. n + 1 /\ j \in 1 .. n + 1
  OBVIOUS
<1>2. Rank(M, i) \in Nat /\ Rank(M, j) \in Nat
  BY Finite
<1>3. ~(i < j) /\ ~(j < i)
  BY <1>1, <1>2, RankGrows
<1> QED
  BY <1>1, <1>3

\* Every number below the size of M is the rank of an element.
LEMMA RankOnto ==
    ASSUME NEW n \in Nat, NEW M \in SUBSET (1 .. n)
    PROVE  /\ \A k \in Nat : k < Cardinality(M) => \E j \in M : Rank(M, j) = k
           /\ \A j \in M : Rank(M, j) < Cardinality(M)
<1> DEFINE P == {i \in 0 .. n : \A k \in Nat : k < Rank(M, i + 1) => \E j \in M : Rank(M, j) = k}
<1>1. 0 \in P
  BY RankZero
<1>2. ASSUME NEW i \in 1 .. n, i - 1 \in P
      PROVE  i \in P
  <2>1. \A k \in Nat : k < Rank(M, i) => \E j \in M : Rank(M, j) = k
    BY <1>2
  <2>2. Rank(M, i + 1) = IF i \in M THEN Rank(M, i) + 1 ELSE Rank(M, i)
    BY RankNext
  <2>3. Rank(M, i) \in Nat
    BY Finite
  <2>4. ASSUME NEW k \in Nat, k < Rank(M, i + 1)
        PROVE  \E j \in M : Rank(M, j) = k
    <3>1. k < Rank(M, i) \/ (i \in M /\ k = Rank(M, i))
      BY <2>2, <2>3, <2>4
    <3> QED
      BY <2>1, <3>1
  <2> QED
    BY <2>4
<1> HIDE DEF P
<1>3. 0 .. n \subseteq P
  BY <1>1, <1>2, Induction
<1>4. n \in P
  BY <1>3
<1>5. Rank(M, n + 1) = Cardinality(M)
  BY RankZero
<1>6. \A j \in M : Rank(M, j) < Rank(M, n + 1)
  BY RankGrows
<1> QED
  BY <1>4, <1>5, <1>6 DEF P

-----------------------------------------------------------------------------
(* Pages *)

LEMMA PageSizeIs ==
    ASSUME NEW c \in Nat, NEW offset \in Nat, NEW limit \in Nat
    PROVE  /\ PageSize(c, offset, limit) \in 0 .. limit
           /\ \A k \in Nat : k >= 1 => (k <= PageSize(c, offset, limit)
                                           <=> k <= limit /\ offset + k <= c)
BY DEF PageSize

\* The page has its size, and its k-th position has rank offset + k - 1 in M.
IsPage(page, M, offset, limit) ==
    /\ DOMAIN page = 1 .. PageSize(Cardinality(M), offset, limit)
    /\ \A k \in DOMAIN page : page[k] \in M /\ Rank(M, page[k]) = offset + k - 1

LEMMA PageParts ==
    ASSUME NEW n \in Nat, NEW M \in SUBSET (1 .. n), NEW offset \in Nat, NEW limit \in Nat
    PROVE  IsPage(PageOf(M, offset, limit), M, offset, limit)
<1> DEFINE size == PageSize(Cardinality(M), offset, limit)
           shown == {Rank(M, j) - offset + 1 : j \in M} \intersect 1 .. limit
<1>1. Cardinality(M) \in Nat /\ \A j \in M : Rank(M, j) \in Nat
  BY Finite
<1>2. /\ size \in Nat
      /\ \A k \in Nat : k >= 1 => (k <= size <=> k <= limit /\ offset + k <= Cardinality(M))
  <2>1. /\ size \in 0 .. limit
        /\ \A k \in Nat : k >= 1 => (k <= size <=> k <= limit /\ offset + k <= Cardinality(M))
    BY <1>1, PageSizeIs, Zenon
  <2> HIDE DEF size
  <2> QED
    BY <2>1
<1> HIDE DEF size
<1>3. ASSUME NEW k \in shown
      PROVE  k \in 1 .. size
  <2>1. PICK j \in M : k = Rank(M, j) - offset + 1
    OBVIOUS
  <2>2. Rank(M, j) < Cardinality(M)
    BY RankOnto
  <2>3. k \in Nat /\ k >= 1 /\ k <= limit /\ offset + k <= Cardinality(M)
    BY <1>1, <2>1, <2>2
  <2> QED
    BY <1>2, <2>3
<1>4. ASSUME NEW k \in 1 .. size
      PROVE  k \in shown
  <2>1. k \in Nat /\ k >= 1 /\ k <= limit /\ offset + k <= Cardinality(M)
    BY <1>2
  <2>2. offset + k - 1 \in Nat /\ offset + k - 1 < Cardinality(M)
    BY <1>1, <2>1
  <2>3. PICK j \in M : Rank(M, j) = offset + k - 1
    BY <2>2, RankOnto
  <2>4. k = Rank(M, j) - offset + 1
    BY <2>1, <2>3
  <2> QED
    BY <2>1, <2>4
<1> HIDE DEF shown
<1>5. shown = 1 .. size
  BY <1>3, <1>4
<1>6. PageOf(M, offset, limit) = [k \in shown |-> CHOOSE j \in M : Rank(M, j) - offset + 1 = k]
  BY DEF PageOf, shown
<1>7. ASSUME NEW k \in shown
      PROVE  LET j == PageOf(M, offset, limit)[k]
             IN  j \in M /\ Rank(M, j) = offset + k - 1
  <2> DEFINE j == CHOOSE x \in M : Rank(M, x) - offset + 1 = k
  <2>1. \E x \in M : Rank(M, x) - offset + 1 = k
    BY <1>7 DEF shown
  <2>2. j \in M /\ Rank(M, j) - offset + 1 = k
    BY <2>1
  <2> HIDE DEF j
  <2>3. Rank(M, j) = offset + k - 1
    BY <1>1, <1>5, <2>2
  <2>4. PageOf(M, offset, limit)[k] = j
    BY <1>6 DEF j
  <2> QED
    BY <2>2, <2>3, <2>4
<1>8. DOMAIN PageOf(M, offset, limit) = 1 .. size
  BY <1>5, <1>6
<1> QED
  BY <1>5, <1>7, <1>8 DEF size, IsPage

\* The k-th row of r is the entry of that rank.
ShowsRanks(r, M, offset) ==
    \A k \in 1 .. Len(r) : \E j \in M : Rank(M, j) = offset + k - 1 /\ r[k] = entries[j]

\* What has the size of a page and shows in each row the position of its rank is
\* that page.
LEMMA PageIsExact ==
    ASSUME NEW n \in Nat, NEW M \in SUBSET (1 .. n), NEW offset \in Nat, NEW limit \in Nat,
           NEW r \in Seq(Entry), Len(r) = PageSize(Cardinality(M), offset, limit),
           ShowsRanks(r, M, offset)
    PROVE  r = EntriesAt(PageOf(M, offset, limit))
<1> DEFINE page == PageOf(M, offset, limit)
<1>1. /\ DOMAIN page = 1 .. Len(r)
      /\ \A k \in DOMAIN page : page[k] \in M /\ Rank(M, page[k]) = offset + k - 1
  <2>1. /\ DOMAIN page = 1 .. PageSize(Cardinality(M), offset, limit)
        /\ \A k \in DOMAIN page : page[k] \in M /\ Rank(M, page[k]) = offset + k - 1
    BY PageParts, Zenon DEF IsPage
  <2> QED
    BY <2>1, Zenon
<1> HIDE DEF page
<1>2. ASSUME NEW k \in 1 .. Len(r)
      PROVE  r[k] = entries[page[k]]
  <2>1. PICK j \in M : Rank(M, j) = offset + k - 1 /\ r[k] = entries[j]
    BY DEF ShowsRanks
  <2>2. page[k] \in M /\ Rank(M, page[k]) = Rank(M, j)
    BY <1>1, <2>1
  <2>3. page[k] = j
    BY <2>2, RankInjective
  <2> QED
    BY <2>1, <2>3
<1>3. r = [k \in 1 .. Len(r) |-> r[k]]
  OBVIOUS
<1> QED
  BY <1>1, <1>2, <1>3, Zenon DEF EntriesAt, page

-----------------------------------------------------------------------------
(* The scan of the time range *)

\* The second pass of GetEntriesByTimeRange over the first i entries.
Start == [result |-> << >>, matchIdx |-> 0]

Collected(M, offset, count, p, i) ==
    IF Len(p.result) = count \/ i \notin M THEN p
    ELSE [result   |-> IF p.matchIdx >= offset THEN Append(p.result, entries[i]) ELSE p.result,
          matchIdx |-> p.matchIdx + 1]

IsScan(g, n, M, offset, count) ==
    g = [i \in 0 .. n |-> IF i = 0 THEN Start
                          ELSE Collected(M, offset, count, g[i - 1], i)]

\* A function so defined exists.
LEMMA ScanExists ==
    ASSUME NEW n \in Nat, NEW M, NEW offset, NEW count
    PROVE  \E g : IsScan(g, n, M, offset, count)
<1> DEFINE P == {m \in 0 .. n : \E g : IsScan(g, m, M, offset, count)}
<1>1. 0 \in P
  <2>1. IsScan([i \in 0 .. 0 |-> Start], 0, M, offset, count)
    BY DEF IsScan
  <2> QED
    BY <2>1
<1>2. ASSUME NEW m \in 1 .. n, m - 1 \in P
      PROVE  m \in P
  <2>1. PICK g : IsScan(g, m - 1, M, offset, count)
    BY <1>2
  <2> DEFINE h == [i \in 0 .. m |-> IF i = m THEN Collected(M, offset, count, g[m - 1], m)
                                    ELSE g[i]]
  <2>2. ASSUME NEW i \in 0 .. m
        PROVE  h[i] = IF i = 0 THEN Start ELSE Collected(M, offset, count, h[i - 1], i)
    <3>1. CASE i = m
      <4>1. m - 1 \in 0 .. m /\ m - 1 # m /\ m # 0
        OBVIOUS
      <4>2. h[m - 1] = g[m - 1] /\ h[m] = Collected(M, offset, count, g[m - 1], m)
        BY <4>1
      <4> QED
        BY <3>1, <4>1, <4>2
    <3>2. CASE i # m /\ i # 0
      <4>1. i \in 0 .. m - 1 /\ i - 1 \in 0 .. m /\ i - 1 # m
        BY <3>2
      <4>2. g[i] = Collected(M, offset, count, g[i - 1], i)
        BY <2>1, <3>2, <4>1 DEF IsScan
      <4>3. h[i] = g[i] /\ h[i - 1] = g[i - 1]
        BY <3>2, <4>1
      <4> QED
        BY <3>2, <4>2, <4>3
    <3>3. CASE i # m /\ i = 0
      <4>1. 0 \in 0 .. m - 1
        OBVIOUS
      <4>2. g[0] = Start
        BY <2>1, <4>1 DEF IsScan
      <4> QED
        BY <3>3, <4>2
    <3> QED
      BY <3>1, <3>2, <3>3
  <2>3. h = [i \in 0 .. m |-> h[i]]
    OBVIOUS
  <2> HIDE DEF h
  <2>4. IsScan(h, m, M, offset, count)
    BY <2>2, <2>3, Zenon DEF IsScan
  <2> QED
    BY <2>4
<1> HIDE DEF P
<1>3. n \in P
  BY <1>1, <1>2, Induction
<1> QED
  BY <1>3 DEF P

\* While the page is not full, matchIdx is the rank of the next position; the rows
\* collected are those of the ranks from offset on.
ScanInv(p, i, M, offset, count) ==
    /\ p.result \in Seq(Entry)
    /\ Len(p.result) <= count
    /\ Len(p.result) < count =>
           /\ p.matchIdx = Rank(M, i + 1)
           /\ Len(p.result) = IF p.matchIdx > offset THEN p.matchIdx - offset ELSE 0
    /\ \A k \in 1 .. Len(p.result) :
          \E j \in M : Rank(M, j) = offset + k - 1 /\ p.result[k] = entries[j]

LEMMA ScanStep ==
    ASSUME NEW n \in Nat, n = Len(entries), entries \in Seq(Entry), NEW M \in SUBSET (1 .. n),
           NEW offset \in Nat, NEW count \in Nat, NEW p, NEW i \in 1 .. n,
           ScanInv(p, i - 1, M, offset, count)
    PROVE  ScanInv(Collected(M, offset, count, p, i), i, M, offset, count)
<1> DEFINE r    == p.result
           q    == Collected(M, offset, count, p, i)
           rank == Rank(M, i)
           len  == Len(r)
<1>1. rank \in Nat
  BY Finite
<1>2. Rank(M, i + 1) = IF i \in M THEN rank + 1 ELSE rank
  BY RankNext
<1>3. (i - 1) + 1 = i
  OBVIOUS
<1>4. /\ r \in Seq(Entry) /\ len \in Nat
      /\ \A k \in 1 .. len :
            \E j \in M : Rank(M, j) = offset + k - 1 /\ r[k] = entries[j]
  BY DEF ScanInv
<1>5. /\ len <= count
      /\ len < count => /\ p.matchIdx = rank
                        /\ len = IF rank > offset THEN rank - offset ELSE 0
  BY <1>3 DEF ScanInv
<1>6. CASE len = count \/ i \notin M
  <2>1. q = p
    BY <1>6 DEF Collected
  <2>2. len < count => Rank(M, i + 1) = rank
    BY <1>2, <1>6
  <2> HIDE DEF q
  <2>3. ScanInv(q, i, M, offset, count)
    BY <1>4, <1>5, <2>1, <2>2 DEF ScanInv
  <2> QED
    BY <2>3 DEF q
<1>7. CASE len # count /\ i \in M
  <2>1. len < count /\ len = IF rank > offset THEN rank - offset ELSE 0
    <3> HIDE DEF len, rank
    <3> QED
      BY <1>4, <1>5, <1>7
  <2>2. p.matchIdx = rank /\ Rank(M, i + 1) = rank + 1
    BY <1>2, <1>5, <1>7, <2>1
  <2>3. q = [result |-> IF rank >= offset THEN Append(r, entries[i]) ELSE r,
             matchIdx |-> rank + 1]
    BY <1>7, <2>2 DEF Collected
  <2>4. entries[i] \in Entry
    OBVIOUS
  <2> HIDE DEF q, rank
  <2>5. CASE rank >= offset
    <3>1. q.result = Append(r, entries[i]) /\ q.matchIdx = rank + 1
      BY <2>3, <2>5
    <3>2. /\ Append(r, entries[i]) \in Seq(Entry) /\ Len(Append(r, entries[i])) = len + 1
          /\ \A k \in 1 .. len : Append(r, entries[i])[k] = r[k]
          /\ Append(r, entries[i])[len + 1] = entries[i]
      BY <1>4, <2>4
    <3> HIDE DEF r, len
    <3>3. rank = offset + (len + 1) - 1 /\ len = rank - offset /\ len + 1 <= count
      BY <1>1, <1>4, <2>1, <2>5
    <3>4. rank + 1 > offset /\ len + 1 = (rank + 1) - offset
      BY <1>1, <1>4, <2>5, <3>3
    <3>5. ASSUME NEW k \in 1 .. len + 1
          PROVE  \E j \in M : Rank(M, j) = offset + k - 1 /\ q.result[k] = entries[j]
      <4>1. CASE k \in 1 .. len
        BY <1>4, <3>1, <3>2, <4>1
      <4>2. CASE k = len + 1
        <5>1. Rank(M, i) = offset + k - 1
          BY <3>3, <4>2 DEF rank
        <5> QED
          BY <1>7, <3>1, <3>2, <4>2, <5>1
      <4> QED
        BY <1>4, <4>1, <4>2
    <3>6. Len(q.result) = len + 1 /\ q.matchIdx = Rank(M, i + 1)
      BY <2>2, <3>1, <3>2
    <3>7. ScanInv(q, i, M, offset, count)
      BY <3>1, <3>2, <3>3, <3>4, <3>5, <3>6 DEF ScanInv
    <3> QED
      BY <3>7 DEF q
  <2>6. CASE rank < offset
    <3>1. q.result = r /\ q.matchIdx = rank + 1
      BY <1>1, <2>3, <2>6
    <3>2. len = 0 /\ ~(rank + 1 > offset)
      <4> HIDE DEF len
      <4> QED
        BY <1>1, <2>1, <2>6
    <3>3. ScanInv(q, i, M, offset, count)
      BY <1>4, <1>5, <2>2, <3>1, <3>2 DEF ScanInv
    <3> QED
      BY <3>3 DEF q
  <2> QED
    BY <1>1, <2>5, <2>6
<1> QED
  BY <1>6, <1>7

LEMMA ScanIsPage ==
    ASSUME NEW n \in Nat, n = Len(entries), entries \in Seq(Entry), NEW M \in SUBSET (1 .. n),
           NEW offset \in Nat, NEW limit \in Nat, NEW g,
           IsScan(g, n, M, offset, PageSize(Cardinality(M), offset, limit))
    PROVE  g[n].result = EntriesAt(PageOf(M, offset, limit))
<1> DEFINE size  == Cardinality(M)
           count == PageSize(size, offset, limit)
           P     == {i \in 0 .. n : ScanInv(g[i], i, M, offset, count)}
           r     == g[n].result
<1>1. size \in Nat /\ Rank(M, 1) = 0 /\ Rank(M, n + 1) = size
  BY Finite, RankZero
<1>2. count \in Nat /\ count <= IF size > offset THEN size - offset ELSE 0
  BY <1>1 DEF PageSize
<1> HIDE DEF count
<1>3. \A i \in 0 .. n : g[i] = IF i = 0 THEN Start
                               ELSE Collected(M, offset, count, g[i - 1], i)
  BY DEF IsScan, count
<1>4. 0 \in P
  <2>1. g[0] = [result |-> << >>, matchIdx |-> 0]
    BY <1>3 DEF Start
  <2>2. << >> \in Seq(Entry) /\ Len(<< >>) = 0
    OBVIOUS
  <2>3. ScanInv(g[0], 0, M, offset, count)
    BY <1>1, <1>2, <2>1, <2>2 DEF ScanInv
  <2> QED
    BY <2>3
<1>5. ASSUME NEW i \in 1 .. n, i - 1 \in P
      PROVE  i \in P
  <2>1. ScanInv(g[i - 1], i - 1, M, offset, count)
    BY <1>5
  <2>2. g[i] = Collected(M, offset, count, g[i - 1], i)
    BY <1>3
  <2>3. ScanInv(Collected(M, offset, count, g[i - 1], i), i, M, offset, count)
    BY <1>2, <2>1, ScanStep
  <2> QED
    BY <2>2, <2>3
<1>6. n \in P
  <2> HIDE DEF P
  <2>1. 0 .. n \subseteq P
    BY <1>4, <1>5, Induction
  <2> QED
    BY <2>1
<1>7. /\ r \in Seq(Entry) /\ Len(r) \in Nat /\ Len(r) <= count
      /\ Len(r) < count => Len(r) = IF size > offset THEN size - offset ELSE 0
      /\ \A k \in 1 .. Len(r) :
            \E j \in M : Rank(M, j) = offset + k - 1 /\ r[k] = entries[j]
  BY <1>1, <1>6 DEF ScanInv
<1> HIDE DEF r, size
<1>8. Len(r) = count
  BY <1>2, <1>7
<1>9. r = EntriesAt(PageOf(M, offset, limit))
  <2>1. Len(r) = PageSize(Cardinality(M), offset, limit)
    BY <1>8 DEF count, size
  <2>2. r \in Seq(Entry) /\ ShowsRanks(r, M, offset)
    BY <1>7 DEF ShowsRanks
  <2> HIDE DEF count
  <2> QED
    BY <2>1, <2>2, PageIsExact
<1> QED
  BY <1>9 DEF r

\* The positions of a page of a time range are those that the two passes find.
LEMMA RangeIsPage ==
    ASSUME entries \in Seq(Entry), NEW from, NEW to, NEW offset \in Nat, NEW limit \in Nat
    PROVE  GetEntriesByTimeRange(from, to, offset, limit)
               = EntriesAt(PageOf(InRange(from, to), offset, limit))
<1> DEFINE n == Len(entries)
           M == InRange(from, to)
           count == PageSize(Cardinality(M), offset, limit)
           InTime(e) == from <= e.timestamp /\ e.timestamp <= to
           IsPass(g) == g = [i \in 0 .. Len(entries) |->
               IF i = 0 THEN [result |-> << >>, matchIdx |-> 0]
               ELSE IF Len(g[i - 1].result)
                          = PageSize(Cardinality({j \in DOMAIN entries : InTime(entries[j])}),
                                     offset, limit)
                       \/ ~InTime(entries[i])
                    THEN g[i - 1]
                    ELSE [result |-> IF g[i - 1].matchIdx >= offset
                                     THEN Append(g[i - 1].result, entries[i])
                                     ELSE g[i - 1].result,
                          matchIdx |-> g[i - 1].matchIdx + 1]]
           pass == CHOOSE g : IsPass(g)
<1>1. GetEntriesByTimeRange(from, to, offset, limit) = pass[Len(entries)].result
  BY Zenon DEF GetEntriesByTimeRange
<1>2. n \in Nat /\ M \in SUBSET (1 .. n) /\ DOMAIN entries = 1 .. n
  BY DEF InRange
<1>3. M = {j \in DOMAIN entries : InTime(entries[j])}
  BY DEF InRange
<1>4. \A i \in 0 .. n : i = 0 \/ (i \in M <=> InTime(entries[i]))
  BY <1>2, <1>3
<1>5. ASSUME NEW g
      PROVE  IsScan(g, n, M, offset, count) <=> IsPass(g)
  <2> DEFINE a(i) == IF i = 0 THEN Start ELSE Collected(M, offset, count, g[i - 1], i)
             b(i) == IF i = 0 THEN [result |-> << >>, matchIdx |-> 0]
               ELSE IF Len(g[i - 1].result) = count \/ ~InTime(entries[i])
                    THEN g[i - 1]
                    ELSE [result |-> IF g[i - 1].matchIdx >= offset
                                     THEN Append(g[i - 1].result, entries[i])
                                     ELSE g[i - 1].result,
                          matchIdx |-> g[i - 1].matchIdx + 1]
  <2>1. \A i \in 0 .. n : a(i) = b(i)
    BY <1>4, Zenon DEF Start, Collected
  <2>2. IsScan(g, n, M, offset, count) <=> g = [i \in 0 .. n |-> a(i)]
    BY Zenon DEF IsScan
  <2>3. IsPass(g) <=> g = [i \in 0 .. n |-> b(i)]
    BY <1>3, Zenon
  <2> HIDE DEF a, b
  <2>4. [i \in 0 .. n |-> a(i)] = [i \in 0 .. n |-> b(i)]
    BY <2>1, Zenon
  <2> QED
    BY <2>2, <2>3, <2>4, Zenon
<1> HIDE DEF IsPass
<1>6. \E g : IsPass(g)
  <2> HIDE DEF n, M, count
  <2> QED
    BY <1>2, <1>5, ScanExists
<1>7. IsPass(pass)
  BY <1>6, Zenon
<1> HIDE DEF pass
<1>8. IsScan(pass, n, M, offset, count)
  BY <1>5, <1>7
<1>9. pass[n].result = EntriesAt(PageOf(M, offset, limit))
  <2>1. IsScan(pass, n, M, offset, PageSize(Cardinality(M), offset, limit))
    BY <1>8
  <2>2. n \in Nat /\ n = Len(entries) /\ M \in SUBSET (1 .. n)
    BY <1>2
  <2> HIDE DEF M, n
  <2> QED
    BY <2>1, <2>2, ScanIsPage, SMTT(30)
<1> QED
  BY <1>1, <1>9

-----------------------------------------------------------------------------
(* Positions that are added at the end *)

LEMMA RankAgrees ==
    ASSUME NEW n \in Nat, NEW m \in Nat, n <= m, NEW M \in SUBSET (1 .. n),
           NEW N \in SUBSET (1 .. m), M = N \intersect 1 .. n
    PROVE  /\ \A j \in 1 .. n + 1 : Rank(N, j) = Rank(M, j)
           /\ Cardinality(M) <= Cardinality(N)
<1>1. ASSUME NEW j \in 1 .. n + 1 PROVE Rank(N, j) = Rank(M, j)
  <2>1. \A x \in N : x < j => x \in M
    OBVIOUS
  <2>2. M \subseteq N
    OBVIOUS
  <2>3. Before(N, j) = Before(M, j)
    BY <2>1, <2>2, Zenon DEF Before
  <2> QED
    BY <2>3 DEF Rank, Before
<1>2. IsFiniteSet(N) /\ M \in SUBSET N
  BY Finite
<1>3. Cardinality(M) <= Cardinality(N)
  BY <1>2, FS_Subset
<1> QED
  BY <1>1, <1>3

\* The page new has the positions of the page old, which are some of M, and perhaps
\* more at its end.
Extends(old, new, M) ==
    \E p, q \in Nat : /\ DOMAIN old = 1 .. p /\ DOMAIN new = 1 .. q /\ p <= q
                      /\ \A k \in 1 .. p : old[k] \in M /\ new[k] = old[k]

\* A page of the positions only grows at its end.
LEMMA PageGrows ==
    ASSUME NEW n \in Nat, NEW m \in Nat, n <= m, NEW M \in SUBSET (1 .. n),
           NEW N \in SUBSET (1 .. m), M = N \intersect 1 .. n,
           NEW offset \in Nat, NEW limit \in Nat
    PROVE  Extends(PageOf(M, offset, limit), PageOf(N, offset, limit), M)
<1> DEFINE c == Cardinality(M)
           d == Cardinality(N)
           p == PageSize(c, offset, limit)
           q == PageSize(d, offset, limit)
           old == PageOf(M, offset, limit)
           new == PageOf(N, offset, limit)
<1>1. c \in Nat /\ d \in Nat
  BY Finite
<1>2. c <= d /\ \A j \in 1 .. n + 1 : Rank(N, j) = Rank(M, j)
  BY RankAgrees, ZenonT(60)
<1>3. p \in Nat /\ q \in Nat /\ p <= q
  <2> HIDE DEF c, d
  <2> QED
    BY <1>1, <1>2 DEF PageSize
<1>4. /\ DOMAIN old = 1 .. p
      /\ \A k \in DOMAIN old : old[k] \in M /\ Rank(M, old[k]) = offset + k - 1
  <2>1. IsPage(PageOf(M, offset, limit), M, offset, limit)
    BY PageParts
  <2> QED
    BY <2>1, Zenon DEF IsPage
<1>5. /\ DOMAIN new = 1 .. q
      /\ \A k \in DOMAIN new : new[k] \in N /\ Rank(N, new[k]) = offset + k - 1
  <2>1. IsPage(PageOf(N, offset, limit), N, offset, limit)
    BY PageParts
  <2> QED
    BY <2>1, Zenon DEF IsPage
<1> HIDE DEF p, q, old, new
<1>6. ASSUME NEW k \in 1 .. p PROVE old[k] \in M /\ new[k] = old[k]
  <2>1. k \in 1 .. q
    BY <1>3
  <2>2. old[k] \in M /\ Rank(M, old[k]) = offset + k - 1
    BY <1>4
  <2>3. new[k] \in N /\ Rank(N, new[k]) = offset + k - 1
    BY <1>5, <2>1
  <2>4. old[k] \in N /\ old[k] \in 1 .. n + 1
    BY <2>2
  <2>5. Rank(N, old[k]) = Rank(M, old[k])
    BY <1>2, <2>4
  <2>6. new[k] = old[k]
    BY <2>2, <2>3, <2>4, <2>5, RankInjective
  <2> QED
    BY <2>2, <2>6
<1> QED
  BY <1>3, <1>4, <1>5, <1>6 DEF old, new, Extends

-----------------------------------------------------------------------------
(* The invariant *)

StoreTypes ==
    /\ driver \in Drivers
    /\ key \in EncryptionKeys
    /\ submitted \in 0 .. MaxEntries
    /\ pending \in Seq(Transaction)
    /\ entries \in Seq(Entry)
    /\ entriesByAgent \in [Agents -> Seq(1 .. Len(entries))]
    /\ blockTime \in Times

\* The writes of a real chain are numbered in the order in which they are mined.
IdInv ==
    /\ \A i \in DOMAIN entries : entries[i].id = i
    /\ \A k \in DOMAIN pending : pending[k].id = Len(entries) + k
    /\ Len(entries) + Len(pending) <= submitted
    /\ ~Simulated => Len(entries) + Len(pending) = submitted

\* The index of an agent lists its entries by their rank.
IndexOf(a) ==
    /\ Len(entriesByAgent[a]) = Cardinality(OfAgent(a))
    /\ \A m \in DOMAIN entriesByAgent[a] :
          /\ entriesByAgent[a][m] \in OfAgent(a)
          /\ Rank(OfAgent(a), entriesByAgent[a][m]) = m - 1

IndexInv == \A a \in Agents : IndexOf(a)

\* The search that is under way, and what it got: the entries of its time, or nothing
\* because nothing could be decoded.
FilterAt(f, n) == EntriesAt(PageOf(Wanted(f) \intersect 1 .. n, 0, PageMax))

SearchInv ==
    search # None =>
        /\ search \in [filter : Filter, since : 0 .. Len(entries), got : Seq(Entry) \union {None}]
        /\ search.got # None =>
              \E n \in search.since .. Len(entries) :
                  search.got \in {<< >>, FilterAt(search.filter, n)}

AnswerInv ==
    /\ answer # None => answer.status \in {200, 400, 403, 500, 503}
    /\ answer # None /\ answer.status = 200 =>
           /\ answer.filter \in Filter
           /\ answer.since \in 0 .. MaxEntries
    /\ SearchIsCurrent

TrailInv == StoreTypes /\ IdInv /\ IndexInv /\ SearchInv

LEMMA Positions ==
    ASSUME entries \in Seq(Entry)
    PROVE  /\ Len(entries) \in Nat /\ DOMAIN entries = 1 .. Len(entries)
           /\ \A i \in DOMAIN entries : entries[i] \in Entry
           /\ \A a : OfAgent(a) \in SUBSET (1 .. Len(entries))
           /\ \A from, to : InRange(from, to) \in SUBSET (1 .. Len(entries))
           /\ \A f : Wanted(f) \in SUBSET (1 .. Len(entries))
BY DEF OfAgent, InRange, Wanted

LEMMA AgentIsPage ==
    ASSUME StoreTypes, IndexInv, NEW a \in Agents, NEW offset \in Nat, NEW limit \in Nat
    PROVE  GetEntriesByAgent(a, offset, limit) = EntriesAt(PageOf(OfAgent(a), offset, limit))
<1> DEFINE idx  == entriesByAgent[a]
           M    == OfAgent(a)
           n    == Len(entries)
           size == PageSize(Len(idx), offset, limit)
           r    == [i \in 1 .. size |-> entries[idx[offset + i]]]
<1>1. /\ n \in Nat /\ M \in SUBSET (1 .. n) /\ entries \in Seq(Entry)
      /\ \A i \in 1 .. n : entries[i] \in Entry
  BY Positions DEF StoreTypes
<1>2. /\ idx \in Seq(1 .. n) /\ Len(idx) \in Nat /\ DOMAIN idx = 1 .. Len(idx)
      /\ Len(idx) = Cardinality(M)
      /\ \A m \in DOMAIN idx : idx[m] \in M /\ Rank(M, idx[m]) = m - 1
  BY DEF StoreTypes, IndexInv, IndexOf
<1>3. /\ size \in Nat
      /\ \A k \in Nat : k >= 1 => (k <= size <=> k <= limit /\ offset + k <= Len(idx))
  <2>1. /\ size \in 0 .. limit
        /\ \A k \in Nat : k >= 1 => (k <= size <=> k <= limit /\ offset + k <= Len(idx))
    BY <1>2, PageSizeIs, Zenon
  <2> HIDE DEF size
  <2> QED
    BY <2>1
<1>4. size = PageSize(Cardinality(M), offset, limit)
  BY <1>2
<1>5. GetEntriesByAgent(a, offset, limit) = r
  BY DEF GetEntriesByAgent
<1> HIDE DEF size, idx, M, n
<1>6. ASSUME NEW k \in 1 .. size
      PROVE  /\ idx[offset + k] \in M /\ idx[offset + k] \in 1 .. n
             /\ Rank(M, idx[offset + k]) = offset + k - 1
  <2>1. k \in Nat /\ k >= 1 /\ offset + k <= Len(idx)
    BY <1>3
  <2>2. offset + k \in DOMAIN idx
    BY <1>2, <2>1
  <2>3. idx[offset + k] \in M /\ Rank(M, idx[offset + k]) = (offset + k) - 1
    BY <1>2, <2>2, Zenon
  <2>4. (offset + k) - 1 = offset + k - 1
    BY <2>1
  <2> QED
    BY <1>1, <2>3, <2>4
<1>7. r \in Seq(Entry) /\ Len(r) = size
  BY <1>1, <1>3, <1>6
<1>8. \A k \in 1 .. Len(r) : \E j \in M : Rank(M, j) = offset + k - 1 /\ r[k] = entries[j]
  BY <1>6, <1>7
<1> HIDE DEF r
<1>9. r = EntriesAt(PageOf(M, offset, limit))
  <2>1. Len(r) = PageSize(Cardinality(M), offset, limit)
    BY <1>4, <1>7
  <2>2. n \in Nat /\ M \in SUBSET (1 .. n) /\ r \in Seq(Entry)
    BY <1>1, <1>7
  <2> QED
    BY <1>8, <2>1, <2>2, PageIsExact DEF ShowsRanks
<1> QED
  BY <1>5, <1>9 DEF M

LEMMA AskedIsPage ==
    ASSUME StoreTypes, IndexInv, NEW f \in Filter, f.agent # BadAgent
    PROVE  Asked(f) = FilterAt(f, Len(entries))
<1>1. PageMax \in Nat /\ 0 \in Nat /\ entries \in Seq(Entry)
  BY BoundsAssumption DEF StoreTypes
<1>2. Wanted(f) \intersect 1 .. Len(entries) = Wanted(f)
  BY <1>1, Positions
<1>3. CASE ByAgent(f)
  <2>1. f.agent \in Agents
    BY <1>3 DEF ByAgent, Filter, AgentParameter
  <2>2. GetEntriesByAgent(f.agent, 0, PageMax) = EntriesAt(PageOf(OfAgent(f.agent), 0, PageMax))
    BY <1>1, <2>1, AgentIsPage
  <2> QED
    BY <1>2, <1>3, <2>2 DEF Asked, FilterAt, Wanted
<1>4. CASE ~ByAgent(f)
  <2>1. GetEntriesByTimeRange(f.startTime, f.endTime, 0, PageMax)
            = EntriesAt(PageOf(InRange(f.startTime, f.endTime), 0, PageMax))
    BY <1>1, RangeIsPage
  <2> QED
    BY <1>2, <1>4, <2>1 DEF Asked, FilterAt, Wanted
<1> QED
  BY <1>3, <1>4

LEMMA FilterPage ==
    ASSUME entries \in Seq(Entry), NEW f, NEW n \in 0 .. Len(entries)
    PROVE  LET page == PageOf(Wanted(f) \intersect 1 .. n, 0, PageMax) IN
           /\ \E p \in Nat : DOMAIN page = 1 .. p
           /\ \A k \in DOMAIN page : page[k] \in 1 .. n /\ page[k] \in DOMAIN entries
           /\ FilterAt(f, n) \in Seq(Entry)
<1> DEFINE M == Wanted(f) \intersect 1 .. n
           page == PageOf(M, 0, PageMax)
           p == PageSize(Cardinality(M), 0, PageMax)
<1>1. /\ n \in Nat /\ PageMax \in Nat /\ 0 \in Nat /\ M \in SUBSET (1 .. n)
      /\ \A i \in 1 .. n : i \in DOMAIN entries
  BY BoundsAssumption
<1> HIDE DEF M
<1>2. p \in Nat
  <2>1. Cardinality(M) \in Nat
    BY <1>1, Finite
  <2>2. p \in 0 .. PageMax
    BY <1>1, <2>1, PageSizeIs, Zenon
  <2> HIDE DEF p
  <2> QED
    BY <1>1, <2>2
<1>3. DOMAIN page = 1 .. p /\ \A k \in DOMAIN page : page[k] \in M
  BY <1>1, PageParts, Zenon DEF IsPage
<1> HIDE DEF page, p
<1>4. \A k \in DOMAIN page : page[k] \in 1 .. n /\ page[k] \in DOMAIN entries
  BY <1>1, <1>3
<1>5. FilterAt(f, n) = [k \in 1 .. p |-> entries[page[k]]]
  BY <1>3 DEF FilterAt, EntriesAt, page, M
<1>6. FilterAt(f, n) \in Seq(Entry)
  BY <1>2, <1>3, <1>4, <1>5
<1> QED
  BY <1>2, <1>3, <1>4, <1>6 DEF page, M

LEMMA InitTrailInv == Init => TrailInv
<1> SUFFICES ASSUME Init PROVE TrailInv
  OBVIOUS
<1>1. Len(entries) = 0 /\ DOMAIN entries = {} /\ Len(pending) = 0 /\ DOMAIN pending = {}
  BY DEF Init
<1>2. StoreTypes
  BY BoundsAssumption DEF Init, StoreTypes, Times
<1>3. IdInv
  BY <1>1 DEF Init, IdInv
<1>4. IndexInv
  <2> SUFFICES ASSUME NEW a \in Agents PROVE IndexOf(a)
    BY DEF IndexInv
  <2>1. OfAgent(a) = {}
    BY <1>1 DEF OfAgent
  <2>2. entriesByAgent[a] = << >> /\ DOMAIN entriesByAgent[a] = {} /\ Len(entriesByAgent[a]) = 0
    BY DEF Init
  <2> QED
    BY <2>1, <2>2, FS_EmptySet DEF IndexOf
<1>5. SearchInv
  BY DEF Init, SearchInv
<1> QED
  BY <1>2, <1>3, <1>4, <1>5 DEF TrailInv

LEMMA SameIndex ==
    ASSUME IndexInv, UNCHANGED contract
    PROVE  IndexInv'
<1>1. entries' = entries /\ entriesByAgent' = entriesByAgent
  BY DEF contract
<1>2. \A a : OfAgent(a)' = OfAgent(a)
  BY <1>1 DEF OfAgent
<1> QED
  BY <1>1, <1>2 DEF IndexInv, IndexOf

LEMMA SameStore ==
    ASSUME TrailInv, UNCHANGED <<driver, submitted, pending, contract, blockTime>>,
           key' \in EncryptionKeys
    PROVE  StoreTypes' /\ IdInv' /\ IndexInv'
<1>1. StoreTypes'
  BY DEF TrailInv, StoreTypes, contract
<1>2. IdInv'
  BY DEF TrailInv, IdInv, Simulated, contract
<1>3. IndexInv'
  BY SameIndex DEF TrailInv
<1> QED
  BY <1>1, <1>2, <1>3

LEMMA SameSearch ==
    ASSUME TrailInv, UNCHANGED <<entries, search>>
    PROVE  SearchInv'
<1>1. ASSUME NEW f, NEW n PROVE FilterAt(f, n)' = FilterAt(f, n)
  <2>1. entries' = entries
    OBVIOUS
  <2>2. Wanted(f)' = Wanted(f)
    BY <2>1 DEF Wanted, ByAgent, OfAgent, InRange
  <2> QED
    BY <2>1, <2>2 DEF FilterAt, EntriesAt
<1> QED
  BY <1>1 DEF TrailInv, SearchInv

LEMMA LogStep ==
    ASSUME TrailInv, NEW a \in Agents, LogAudit(a)
    PROVE  TrailInv'
<1> DEFINE n  == Len(entries)
           p  == Len(pending)
           tx == [agent |-> a, id |-> submitted + 1, sealedBy |-> key]
<1>1. /\ submitted < MaxEntries /\ submitted \in 0 .. MaxEntries /\ MaxEntries \in Nat
      /\ submitted' = submitted + 1 /\ n \in Nat /\ p \in Nat
      /\ UNCHANGED <<driver, key, entries, entriesByAgent, blockTime, search>>
  BY BoundsAssumption DEF TrailInv, StoreTypes, LogAudit, contract
<1>2. tx \in Transaction
  BY <1>1 DEF TrailInv, StoreTypes, Transaction, Ids
<1>3. submitted' \in 0 .. MaxEntries
  BY <1>1
<1>4. StoreTypes'
  <2>1. pending' \in Seq(Transaction)
    BY <1>2 DEF TrailInv, StoreTypes, LogAudit
  <2> QED
    BY <1>1, <1>3, <2>1 DEF TrailInv, StoreTypes
<1>5. IdInv'
  <2>1. /\ \A i \in DOMAIN entries : entries[i].id = i
        /\ \A k \in DOMAIN pending : pending[k].id = n + k
        /\ n + p <= submitted
        /\ ~Simulated => n + p = submitted
    BY DEF TrailInv, IdInv
  <2>2. Simulated' = Simulated /\ entries' = entries
    BY <1>1 DEF Simulated
  <2>3. CASE Simulated
    <3>1. pending' = pending
      BY <2>3 DEF LogAudit
    <3>2. n + p <= submitted + 1
      <4> HIDE DEF n, p
      <4> QED
        BY <1>1, <2>1
    <3> QED
      BY <1>1, <2>1, <2>2, <2>3, <3>1, <3>2 DEF IdInv
  <2>4. CASE ~Simulated
    <3>1. pending' = Append(pending, tx) /\ pending \in Seq(Transaction)
      BY <2>4 DEF LogAudit, TrailInv, StoreTypes
    <3>2. /\ Len(pending') = p + 1 /\ DOMAIN pending' = 1 .. p + 1
          /\ \A k \in 1 .. p : pending'[k] = pending[k] /\ k \in DOMAIN pending
          /\ pending'[p + 1] = tx
      BY <1>2, <3>1
    <3>3. tx.id = n + (p + 1) /\ n + (p + 1) = submitted + 1
      <4> HIDE DEF n, p
      <4> QED
        BY <1>1, <2>1, <2>4
    <3> HIDE DEF n, p, tx
    <3>4. ASSUME NEW k \in 1 .. p + 1 PROVE pending'[k].id = n + k
      <4>1. CASE k = p + 1
        BY <3>2, <3>3, <4>1
      <4>2. CASE k \in 1 .. p
        BY <2>1, <3>2, <4>2
      <4> QED
        BY <1>1, <4>1, <4>2
    <3>5. Len(entries') = n
      BY <2>2 DEF n
    <3>6. \A k \in DOMAIN pending' : pending'[k].id = Len(entries') + k
      BY <3>2, <3>4, <3>5
    <3>7. Len(entries') + Len(pending') = submitted'
      BY <1>1, <3>2, <3>3, <3>5
    <3>8. submitted' \in Nat
      BY <1>1
    <3>9. \A i \in DOMAIN entries' : entries'[i].id = i
      BY <2>1, <2>2
    <3>10. Len(entries') + Len(pending') <= submitted'
      BY <3>7, <3>8
    <3> QED
      BY <3>6, <3>7, <3>9, <3>10 DEF IdInv
  <2> QED
    BY <2>3, <2>4
<1>6. IndexInv'
  BY <1>1, SameIndex DEF TrailInv, contract
<1>7. SearchInv'
  BY <1>1, SameSearch
<1> QED
  BY <1>4, <1>5, <1>6, <1>7 DEF TrailInv

\* What RecordEntry appends.
LEMMA Recorded ==
    ASSUME TrailInv, RecordEntry
    PROVE  LET n  == Len(entries)
               tx == Head(pending)
               e  == [agent |-> tx.agent, id |-> tx.id, sealedBy |-> tx.sealedBy,
                      timestamp |-> blockTime]
           IN  /\ n \in Nat /\ tx \in Transaction /\ e \in Entry /\ tx.id = n + 1
               /\ entries' \in Seq(Entry) /\ Len(entries') = n + 1 /\ DOMAIN entries' = 1 .. n + 1
               /\ \A i \in 1 .. n : entries'[i] = entries[i] /\ i \in DOMAIN entries
               /\ entries'[n + 1] = e
               /\ entriesByAgent' = [entriesByAgent EXCEPT
                                        ![tx.agent] = Append(entriesByAgent[tx.agent], n + 1)]
<1> DEFINE n  == Len(entries)
           tx == Head(pending)
           e  == [agent |-> tx.agent, id |-> tx.id, sealedBy |-> tx.sealedBy,
                  timestamp |-> blockTime]
<1>1. /\ pending \in Seq(Transaction) /\ pending # << >> /\ entries \in Seq(Entry)
      /\ blockTime \in Times
  BY DEF TrailInv, StoreTypes, RecordEntry
<1>2. /\ 1 \in DOMAIN pending /\ tx = pending[1] /\ tx \in Transaction
  BY <1>1
<1>3. n \in Nat /\ tx.id = n + 1
  BY <1>1, <1>2 DEF TrailInv, IdInv
<1>4. e \in Entry
  BY <1>1, <1>2 DEF Transaction, Entry
<1>5. entries' = Append(entries, e)
  BY DEF RecordEntry
<1>6. entriesByAgent' = [entriesByAgent EXCEPT
                            ![tx.agent] = Append(entriesByAgent[tx.agent], n + 1)]
  BY DEF RecordEntry
<1> HIDE DEF e, tx
<1>7. /\ entries' \in Seq(Entry) /\ Len(entries') = n + 1 /\ DOMAIN entries' = 1 .. n + 1
      /\ \A i \in 1 .. n : entries'[i] = entries[i] /\ i \in DOMAIN entries
      /\ entries'[n + 1] = e
  BY <1>1, <1>3, <1>4, <1>5
<1> QED
  BY <1>2, <1>3, <1>4, <1>6, <1>7 DEF e, tx

\* An entry that is mined adds its position to what it is asked for by.
LEMMA WantedGrows ==
    ASSUME TrailInv, RecordEntry
    PROVE  LET n == Len(entries) IN
           /\ \A a : /\ OfAgent(a)' \in SUBSET (1 .. n + 1)
                     /\ OfAgent(a) = OfAgent(a)' \intersect 1 .. n
           /\ \A from, to : /\ InRange(from, to)' \in SUBSET (1 .. n + 1)
                            /\ InRange(from, to) = InRange(from, to)' \intersect 1 .. n
           /\ \A f : Wanted(f) \intersect 1 .. n = Wanted(f)' \intersect 1 .. n
<1> DEFINE n == Len(entries)
<1>1. /\ n \in Nat /\ DOMAIN entries' = 1 .. n + 1 /\ DOMAIN entries = 1 .. n
      /\ \A i \in 1 .. n : entries'[i] = entries[i]
  BY Recorded, Positions DEF TrailInv, StoreTypes
<1> HIDE DEF n
<1>2. \A i \in 1 .. n : i \in 1 .. n + 1
  BY <1>1
<1>3. ASSUME NEW a
      PROVE  /\ OfAgent(a)' \in SUBSET (1 .. n + 1)
             /\ OfAgent(a) = OfAgent(a)' \intersect 1 .. n
  BY <1>1, <1>2 DEF OfAgent
<1>4. ASSUME NEW from, NEW to
      PROVE  /\ InRange(from, to)' \in SUBSET (1 .. n + 1)
             /\ InRange(from, to) = InRange(from, to)' \intersect 1 .. n
  BY <1>1, <1>2 DEF InRange
<1>5. ASSUME NEW f
      PROVE  Wanted(f) \intersect 1 .. n = Wanted(f)' \intersect 1 .. n
  <2>1. CASE ByAgent(f)
    <3>1. Wanted(f) = OfAgent(f.agent) /\ Wanted(f)' = OfAgent(f.agent)'
      BY <2>1 DEF Wanted, ByAgent
    <3> QED
      BY <1>3, <3>1
  <2>2. CASE ~ByAgent(f)
    <3>1. /\ Wanted(f) = InRange(f.startTime, f.endTime)
          /\ Wanted(f)' = InRange(f.startTime, f.endTime)'
      BY <2>2 DEF Wanted, ByAgent
    <3> QED
      BY <1>4, <3>1
  <2> QED
    BY <2>1, <2>2
<1> QED
  BY <1>3, <1>4, <1>5 DEF n

LEMMA RecordStep ==
    ASSUME TrailInv, RecordEntry
    PROVE  TrailInv'
<1> DEFINE n  == Len(entries)
           tx == Head(pending)
           e  == [agent |-> tx.agent, id |-> tx.id, sealedBy |-> tx.sealedBy,
                  timestamp |-> blockTime]
           b  == tx.agent
<1>1. /\ n \in Nat /\ tx \in Transaction /\ e \in Entry /\ tx.id = n + 1
      /\ entries' \in Seq(Entry) /\ Len(entries') = n + 1 /\ DOMAIN entries' = 1 .. n + 1
      /\ \A i \in 1 .. n : entries'[i] = entries[i] /\ i \in DOMAIN entries
      /\ entries'[n + 1] = e
      /\ entriesByAgent' = [entriesByAgent EXCEPT ![b] = Append(entriesByAgent[b], n + 1)]
  BY Recorded
<1>2. e.agent = b /\ b \in Agents /\ e.id = n + 1
  BY <1>1 DEF Transaction
<1>3. /\ pending \in Seq(Transaction) /\ pending # << >> /\ pending' = Tail(pending)
      /\ UNCHANGED <<driver, key, submitted, blockTime, search>>
  BY DEF TrailInv, StoreTypes, RecordEntry
<1>4. /\ pending' \in Seq(Transaction) /\ Len(pending) \in Nat /\ Len(pending) >= 1
      /\ Len(pending') = Len(pending) - 1
      /\ \A k \in DOMAIN pending' : k + 1 \in DOMAIN pending /\ pending'[k] = pending[k + 1]
      /\ \A k \in DOMAIN pending' : k \in Nat
  BY <1>3
<1> HIDE DEF n, tx, e, b
<1>5. \A a \in Agents : entriesByAgent[a] \in Seq(1 .. n)
  BY DEF TrailInv, StoreTypes, n
<1>6. /\ DOMAIN entriesByAgent' = Agents
      /\ \A a \in Agents : entriesByAgent'[a] = IF a = b THEN Append(entriesByAgent[b], n + 1)
                                                ELSE entriesByAgent[a]
  BY <1>1, <1>2 DEF TrailInv, StoreTypes
<1>7. ASSUME NEW a \in Agents PROVE entriesByAgent'[a] \in Seq(1 .. n + 1)
  <2>1. \A s \in Seq(1 .. n) : s \in Seq(1 .. n + 1) /\ Append(s, n + 1) \in Seq(1 .. n + 1)
    BY <1>1
  <2> QED
    BY <1>2, <1>5, <1>6, <2>1
<1>8. StoreTypes'
  <2>1. entriesByAgent' \in [Agents -> Seq(1 .. n + 1)]
    <3>1. entriesByAgent' = [a \in Agents |-> entriesByAgent'[a]]
      BY <1>6 DEF TrailInv, StoreTypes, RecordEntry
    <3> QED
      BY <1>7, <3>1
  <2> QED
    BY <1>1, <1>3, <1>4, <2>1 DEF TrailInv, StoreTypes
<1>9. IdInv'
  <2>1. /\ \A i \in DOMAIN entries : entries[i].id = i
        /\ \A k \in DOMAIN pending : pending[k].id = n + k
        /\ n + Len(pending) <= submitted
        /\ ~Simulated => n + Len(pending) = submitted
        /\ submitted \in Nat
    BY DEF TrailInv, IdInv, StoreTypes, n
  <2>2. ASSUME NEW i \in 1 .. n + 1 PROVE entries'[i].id = i
    <3>1. i = n + 1 \/ i \in 1 .. n
      BY <1>1
    <3> QED
      BY <1>1, <1>2, <2>1, <3>1
  <2>3. ASSUME NEW k \in DOMAIN pending' PROVE pending'[k].id = Len(entries') + k
    <3>1. k \in Nat /\ pending'[k].id = n + (k + 1)
      BY <1>4, <2>1
    <3> QED
      BY <1>1, <3>1
  <2>4. Len(entries') + Len(pending') = n + Len(pending)
    BY <1>1, <1>4
  <2>5. submitted' = submitted /\ Simulated' = Simulated
    BY <1>3 DEF Simulated
  <2> QED
    BY <1>1, <2>1, <2>2, <2>3, <2>4, <2>5 DEF IdInv
<1>10. IndexInv'
  <2> SUFFICES ASSUME NEW a \in Agents PROVE IndexOf(a)'
    BY DEF IndexInv
  <2> DEFINE M   == OfAgent(a)
             N   == OfAgent(a)'
             s   == entriesByAgent[a]
             idx == entriesByAgent'[a]
  <2>1. /\ M \in SUBSET (1 .. n) /\ N \in SUBSET (1 .. n + 1) /\ M = N \intersect 1 .. n
    BY WantedGrows, Positions DEF TrailInv, StoreTypes, n
  <2>2. n + 1 \in N <=> a = b
    BY <1>1, <1>2 DEF OfAgent
  <2>3. /\ Len(s) = Cardinality(M) /\ s \in Seq(1 .. n)
        /\ \A m \in DOMAIN s : s[m] \in M /\ Rank(M, s[m]) = m - 1
    BY <1>5 DEF TrailInv, IndexInv, IndexOf
  <2>4. idx = IF a = b THEN Append(s, n + 1) ELSE s
    BY <1>6
  <2> HIDE DEF M, N, s, idx
  <2>5. \A j \in 1 .. n + 1 : Rank(N, j) = Rank(M, j)
    <3>1. n + 1 \in Nat /\ n <= n + 1
      BY <1>1
    <3> QED
      BY <1>1, <2>1, <3>1, RankAgrees, Zenon
  <2>6. /\ Rank(M, n + 1) = Cardinality(M) /\ Cardinality(M) \in Nat
        /\ Cardinality(N) = Rank(N, (n + 1) + 1)
        /\ Rank(N, (n + 1) + 1) = IF n + 1 \in N THEN Rank(N, n + 1) + 1 ELSE Rank(N, n + 1)
    <3>1. n + 1 \in Nat /\ n + 1 \in 1 .. n + 1
      BY <1>1
    <3>2. Rank(M, n + 1) = Cardinality(M) /\ Cardinality(M) \in Nat
      BY <1>1, <2>1, Finite, RankZero, Zenon
    <3>3. Cardinality(N) = Rank(N, (n + 1) + 1)
      BY <2>1, <3>1, RankZero, Zenon
    <3>4. Rank(N, (n + 1) + 1) = IF n + 1 \in N THEN Rank(N, n + 1) + 1 ELSE Rank(N, n + 1)
      <4>1. \A j \in 1 .. n + 1 : Rank(N, j + 1) = IF j \in N THEN Rank(N, j) + 1 ELSE Rank(N, j)
        BY <2>1, <3>1, RankNext
      <4> QED
        BY <3>1, <4>1
    <3> QED
      BY <3>2, <3>3, <3>4
  <2>7. Rank(N, n + 1) = Cardinality(M)
    BY <1>1, <2>5, <2>6
  <2>8. \A j \in M : j \in N /\ Rank(N, j) = Rank(M, j)
    BY <1>1, <2>1, <2>5
  <2>9. Len(idx) = Cardinality(N)
    <3>1. Len(Append(s, n + 1)) = Len(s) + 1
      BY <2>3
    <3> QED
      BY <2>2, <2>3, <2>4, <2>6, <2>7, <3>1
  <2>10. ASSUME NEW m \in DOMAIN idx PROVE idx[m] \in N /\ Rank(N, idx[m]) = m - 1
    <3>1. CASE a # b
      BY <2>3, <2>4, <2>8, <2>10, <3>1
    <3>2. CASE a = b
      <4>1. /\ Len(s) \in Nat /\ m \in 1 .. Len(s) + 1 /\ DOMAIN s = 1 .. Len(s)
            /\ idx[Len(s) + 1] = n + 1
            /\ \A x \in 1 .. Len(s) : idx[x] = s[x]
        BY <2>3, <2>4, <2>10, <3>2
      <4>2. CASE m \in 1 .. Len(s)
        BY <2>3, <2>8, <4>1, <4>2
      <4>3. CASE m = Len(s) + 1
        <5>1. idx[m] = n + 1 /\ n + 1 \in N /\ Rank(N, n + 1) = Len(s) /\ m - 1 = Len(s)
          BY <2>2, <2>3, <2>7, <3>2, <4>1, <4>3
        <5> QED
          BY <5>1
      <4> QED
        BY <4>1, <4>2, <4>3
    <3> QED
      BY <3>1, <3>2
  <2> QED
    BY <2>9, <2>10 DEF IndexOf, N, idx
<1>11. SearchInv'
  <2>1. ASSUME NEW f, NEW m \in 0 .. n PROVE FilterAt(f, m)' = FilterAt(f, m)
    <3> DEFINE page == PageOf(Wanted(f) \intersect 1 .. m, 0, PageMax)
    <3>1. Wanted(f) \intersect 1 .. n = Wanted(f)' \intersect 1 .. n
      BY WantedGrows DEF n
    <3>2. Wanted(f)' \intersect 1 .. m = Wanted(f) \intersect 1 .. m
      <4>1. \A i \in 1 .. m : i \in 1 .. n
        BY <1>1
      <4> QED
        BY <3>1, <4>1
    <3>3. \A k \in DOMAIN page : page[k] \in 1 .. m
      BY FilterPage DEF n, TrailInv, StoreTypes
    <3>4. \A k \in DOMAIN page : entries'[page[k]] = entries[page[k]]
      <4> HIDE DEF page
      <4> QED
        BY <1>1, <3>3
    <3>5. FilterAt(f, m)' = [k \in DOMAIN page |-> entries'[page[k]]]
      BY <3>2 DEF FilterAt, EntriesAt
    <3>6. FilterAt(f, m) = [k \in DOMAIN page |-> entries[page[k]]]
      BY DEF FilterAt, EntriesAt
    <3> HIDE DEF page
    <3> QED
      BY <3>4, <3>5, <3>6
  <2>2. search' = search
    BY <1>3
  <2>3. \A m \in 0 .. n : m \in 0 .. n + 1
    BY <1>1
  <2>4. Len(entries') = n + 1 /\ Len(entries) = n
    BY <1>1 DEF n
  <2> SUFFICES ASSUME search # None
               PROVE  /\ search \in [filter : Filter, since : 0 .. n + 1,
                                     got : Seq(Entry) \union {None}]
                      /\ search.got # None =>
                            \E m \in search.since .. n + 1 :
                                search.got \in {<< >>, FilterAt(search.filter, m)'}
    BY <2>2, <2>4 DEF SearchInv
  <2>5. /\ search \in [filter : Filter, since : 0 .. n, got : Seq(Entry) \union {None}]
        /\ search.got # None =>
              \E m \in search.since .. n : search.got \in {<< >>, FilterAt(search.filter, m)}
    BY <2>4 DEF TrailInv, SearchInv
  <2>6. search.since \in 0 .. n
    BY <2>5
  <2>7. search \in [filter : Filter, since : 0 .. n + 1, got : Seq(Entry) \union {None}]
    BY <2>3, <2>5
  <2>8. ASSUME search.got # None
        PROVE  \E m \in search.since .. n + 1 : search.got \in {<< >>, FilterAt(search.filter, m)'}
    <3>1. PICK m \in search.since .. n : search.got \in {<< >>, FilterAt(search.filter, m)}
      BY <2>5, <2>8
    <3>2. m \in 0 .. n /\ m \in search.since .. n + 1
      BY <1>1, <2>6
    <3> QED
      BY <2>1, <2>2, <3>1, <3>2
  <2> QED
    BY <2>7, <2>8
<1> QED
  BY <1>8, <1>9, <1>10, <1>11 DEF TrailInv

LEMMA StartStep ==
    ASSUME TrailInv, NEW p, Used(p) \in Filter, SearchStarts(p)
    PROVE  TrailInv'
<1> DEFINE f == Used(p)
<1>1. /\ UNCHANGED <<driver, key, submitted, pending, contract, blockTime>>
      /\ search' = [filter |-> f, since |-> Len(entries), got |-> None]
      /\ f \in Filter
  BY DEF SearchStarts
<1>2. StoreTypes' /\ IdInv' /\ IndexInv'
  <2>1. key' \in EncryptionKeys
    BY <1>1 DEF TrailInv, StoreTypes
  <2> QED
    BY <1>1, <2>1, SameStore
<1>3. Len(entries') \in Nat /\ Len(entries') = Len(entries)
  BY <1>1 DEF TrailInv, StoreTypes, contract
<1> HIDE DEF f
<1>4. SearchInv'
  <2>1. search'.got = None
    BY <1>1
  <2>2. search' \in [filter : Filter, since : 0 .. Len(entries'), got : Seq(Entry) \union {None}]
    BY <1>1, <1>3
  <2> QED
    BY <2>1, <2>2 DEF SearchInv
<1> QED
  BY <1>2, <1>4 DEF TrailInv

LEMMA ReadStep ==
    ASSUME TrailInv, NodeReads
    PROVE  TrailInv'
<1>1. /\ UNCHANGED <<driver, key, submitted, pending, contract, blockTime>>
      /\ search # None /\ search.filter.agent # BadAgent
      /\ \E found \in {Asked(search.filter), << >>} : search' = [search EXCEPT !.got = found]
  BY DEF NodeReads
<1>2. StoreTypes' /\ IdInv' /\ IndexInv'
  <2>1. key' \in EncryptionKeys
    BY <1>1 DEF TrailInv, StoreTypes
  <2> QED
    BY <1>1, <2>1, SameStore
<1>3. /\ search \in [filter : Filter, since : 0 .. Len(entries), got : Seq(Entry) \union {None}]
      /\ entries \in Seq(Entry)
  BY <1>1 DEF TrailInv, SearchInv, StoreTypes
<1>4. PICK n \in Nat, since \in Nat, f \in Filter :
          n = Len(entries) /\ f = search.filter /\ since = search.since /\ since \in 0 .. n
  BY <1>3
<1>5. Asked(f) = FilterAt(f, n)
  BY <1>1, <1>4, AskedIsPage DEF TrailInv
<1>6. FilterAt(f, n) \in Seq(Entry)
  <2>1. n \in 0 .. Len(entries)
    BY <1>4
  <2> QED
    BY <1>3, <2>1, FilterPage
<1>7. /\ search' \in [filter : Filter, since : 0 .. n, got : Seq(Entry) \union {None}]
      /\ search'.filter = f /\ search'.since = since
      /\ search'.got \in {<< >>, FilterAt(f, n)}
  <2>1. PICK found \in {FilterAt(f, n), << >>} : search' = [search EXCEPT !.got = found]
    BY <1>1, <1>4, <1>5
  <2>2. found \in Seq(Entry)
    <3>1. << >> \in Seq(Entry)
      OBVIOUS
    <3> QED
      BY <1>6, <2>1, <3>1
  <2> QED
    BY <1>3, <1>4, <2>1, <2>2
<1>8. entries' = entries
  BY <1>1 DEF contract
<1>9. FilterAt(f, n)' = FilterAt(f, n) /\ Len(entries') = n
  <2>1. Wanted(f)' = Wanted(f)
    BY <1>8 DEF Wanted, ByAgent, OfAgent, InRange
  <2> QED
    BY <1>4, <1>8, <2>1 DEF FilterAt, EntriesAt
<1>10. SearchInv'
  <2>1. n \in since .. n
    BY <1>4
  <2>2. search'.got \in {<< >>, FilterAt(f, n)'}
    BY <1>7, <1>9
  <2> QED
    BY <1>7, <1>9, <2>1, <2>2 DEF SearchInv
<1> QED
  BY <1>2, <1>10 DEF TrailInv

LEMMA RequestFilter ==
    /\ \A p \in Requests : Used(p) \in Filter
    /\ \A o \in CliOptions : Used(CliRequest(o)) \in Filter
BY RequestAssumption, BoundsAssumption DEF Used, CliRequest, Filter, NumberParameter

LEMMA NoSearchStep ==
    ASSUME TrailInv, UNCHANGED <<driver, submitted, pending, contract, blockTime>>,
           key' \in EncryptionKeys, search' \in {search, None}
    PROVE  TrailInv'
<1>1. StoreTypes' /\ IdInv' /\ IndexInv'
  BY SameStore
<1>2. CASE search' = search
  <2>1. SearchInv'
    BY <1>2, SameSearch DEF contract
  <2> QED
    BY <1>1, <2>1 DEF TrailInv
<1>3. CASE search' = None
  BY <1>1, <1>3 DEF TrailInv, SearchInv
<1> QED
  BY <1>2, <1>3

LEMMA NextTrailInv == ASSUME TrailInv, [Next]_vars PROVE TrailInv'
<1>1. key \in EncryptionKeys
  BY DEF TrailInv, StoreTypes
<1>2. ASSUME NEW a \in Agents, LogAudit(a) PROVE TrailInv'
  BY <1>2, LogStep
<1>3. ASSUME RecordEntry PROVE TrailInv'
  BY <1>3, RecordStep
<1>4. ASSUME NextBlock PROVE TrailInv'
  <2>1. /\ UNCHANGED <<driver, key, submitted, pending, contract, search>>
        /\ blockTime < MaxTime /\ blockTime' = blockTime + 1
    BY <1>4 DEF NextBlock
  <2>2. blockTime' \in Times
    BY <2>1, BoundsAssumption DEF TrailInv, StoreTypes, Times
  <2>3. StoreTypes'
    BY <2>1, <2>2 DEF TrailInv, StoreTypes, contract
  <2>4. IdInv'
    BY <2>1 DEF TrailInv, IdInv, Simulated, contract
  <2>5. IndexInv' /\ SearchInv'
    BY <2>1, SameIndex, SameSearch DEF TrailInv, contract
  <2> QED
    BY <2>3, <2>4, <2>5 DEF TrailInv
<1>5. ASSUME NEW p, SearchRefused(p) PROVE TrailInv'
  <2>1. /\ UNCHANGED <<driver, key, submitted, pending, contract, blockTime, search>>
    BY <1>5 DEF SearchRefused
  <2> QED
    BY <1>1, <2>1, NoSearchStep
<1>6. ASSUME NEW p \in Requests, SearchStarts(p) PROVE TrailInv'
  BY <1>6, StartStep, RequestFilter
<1>7. ASSUME NEW o \in CliOptions, CliSearches(o) PROVE TrailInv'
  <2>1. CASE SearchRefused(CliRequest(o))
    BY <1>5, <2>1
  <2>2. CASE SearchStarts(CliRequest(o))
    BY <2>2, StartStep, RequestFilter
  <2> QED
    BY <1>7, <2>1, <2>2 DEF CliSearches
<1>8. ASSUME NodeReads PROVE TrailInv'
  BY <1>8, ReadStep
<1>9. ASSUME SearchAnswers PROVE TrailInv'
  <2>1. /\ UNCHANGED <<driver, key, submitted, pending, contract, blockTime>> /\ search' = None
    BY <1>9 DEF SearchAnswers
  <2> QED
    BY <1>1, <2>1, NoSearchStep
<1>10. ASSUME SearchFails PROVE TrailInv'
  <2>1. /\ UNCHANGED <<driver, key, submitted, pending, contract, blockTime>> /\ search' = None
    BY <1>10 DEF SearchFails
  <2> QED
    BY <1>1, <2>1, NoSearchStep
<1>11. ASSUME NEW k \in EncryptionKeys, Restart(k) PROVE TrailInv'
  <2>1. /\ UNCHANGED <<driver, submitted, pending, contract, blockTime>>
        /\ search' = None /\ key' = k
    BY <1>11 DEF Restart
  <2> QED
    BY <2>1, NoSearchStep
<1>12. ASSUME UNCHANGED vars PROVE TrailInv'
  <2>1. UNCHANGED <<driver, key, submitted, pending, contract, blockTime, search>>
    BY <1>12 DEF vars
  <2> QED
    BY <1>1, <2>1, NoSearchStep
<1> QED
  BY <1>2, <1>3, <1>4, <1>5, <1>6, <1>7, <1>8, <1>9, <1>10, <1>11, <1>12 DEF Next

LEMMA SpecTrailInv == Spec => []TrailInv
<1>1. TrailInv /\ [Next]_vars => TrailInv'
  BY NextTrailInv
<1> QED
  BY InitTrailInv, <1>1, PTL DEF Spec

-----------------------------------------------------------------------------
(* The answers *)

LEMMA AnswerStep ==
    ASSUME TrailInv, SearchAnswers
    PROVE  AnswerInv'
<1>1. /\ search # None /\ search.got # None /\ search' = None
      /\ answer' = [status |-> 200, filter |-> search.filter, since |-> search.since,
                    rows |-> Report(search.got, search.filter.decrypt)]
      /\ entries' = entries /\ key' = key
  BY DEF SearchAnswers, contract
<1>2. /\ search \in [filter : Filter, since : 0 .. Len(entries), got : Seq(Entry) \union {None}]
      /\ entries \in Seq(Entry) /\ Len(entries) <= submitted /\ submitted \in 0 .. MaxEntries
      /\ MaxEntries \in Nat
  <2>1. Len(entries) + Len(pending) <= submitted /\ Len(entries) \in Nat /\ Len(pending) \in Nat
        /\ submitted \in 0 .. MaxEntries
    BY DEF TrailInv, IdInv, StoreTypes
  <2> QED
    BY <1>1, <2>1, BoundsAssumption DEF TrailInv, SearchInv, StoreTypes
<1>3. PICK f \in Filter, since \in Nat, got \in Seq(Entry), m \in Nat :
          /\ f = search.filter /\ since = search.since /\ got = search.got
          /\ since \in 0 .. MaxEntries
          /\ m \in since .. Len(entries) /\ m \in 0 .. Len(entries)
          /\ got \in {<< >>, FilterAt(f, m)}
  <2>1. PICK m \in search.since .. Len(entries) :
            search.got \in {<< >>, FilterAt(search.filter, m)}
    BY <1>1 DEF TrailInv, SearchInv
  <2>2. /\ search.filter \in Filter /\ search.since \in Nat /\ search.got \in Seq(Entry)
        /\ search.since \in 0 .. MaxEntries /\ m \in Nat /\ m \in 0 .. Len(entries)
    BY <1>1, <1>2
  <2> QED
    BY <2>1, <2>2
<1>4. /\ answer'.status = 200 /\ answer'.filter = f /\ answer'.since = since
      /\ answer'.rows = Report(got, f.decrypt) /\ f.decrypt \in BOOLEAN
  BY <1>1, <1>3 DEF Filter
<1>5. ASSUME got = << >> PROVE SearchIsCurrent'
  <2>1. DOMAIN Report(got, f.decrypt) = {} /\ Report(got, f.decrypt) = << >>
    BY <1>5 DEF Report
  <2>2. ShowsNoMore'
    BY <1>4, <2>1 DEF ShowsNoMore
  <2> QED
    BY <1>4, <2>1, <2>2 DEF SearchIsCurrent
<1>6. ASSUME got = FilterAt(f, m) PROVE SearchIsCurrent'
  <2>1. PICK page : page = PageOf(Wanted(f) \intersect 1 .. m, 0, PageMax)
    OBVIOUS
  <2>2. got = [k \in DOMAIN page |-> entries[page[k]]]
    BY <1>6, <2>1 DEF FilterAt, EntriesAt
  <2>3. \A k \in DOMAIN page : page[k] \in DOMAIN entries
    BY <1>2, <1>3, <2>1, FilterPage
  <2>4. /\ DOMAIN Report(got, f.decrypt) = DOMAIN page
        /\ \A k \in DOMAIN page :
              LET row == Report(got, f.decrypt)[k]
                  e   == entries[page[k]]
              IN  /\ row.id = e.id
                  /\ row.payload = "sealed" <=> ~f.decrypt
                  /\ row.payload = "plain" => e.sealedBy = key
    BY <1>4, <2>2 DEF Report
  <2>5. PageOf(Wanted(f) \intersect 1 .. m, 0, PageMax)' = page
    <3>1. Wanted(f)' = Wanted(f)
      BY <1>1 DEF Wanted, ByAgent, OfAgent, InRange
    <3> QED
      BY <2>1, <3>1
  <2>6. ShowsPage(0, PageMax)'
    <3>1. m \in since .. Len(entries')
      BY <1>1, <1>3
    <3>2. /\ DOMAIN answer'.rows = DOMAIN page
          /\ \A k \in DOMAIN page : answer'.rows[k].id = entries'[page[k]].id
      BY <1>1, <1>4, <2>4
    <3> QED
      BY <1>4, <2>5, <3>1, <3>2 DEF ShowsPage
  <2>7. ShowsNoMore'
    BY <1>1, <1>4, <2>3, <2>4 DEF ShowsNoMore
  <2> QED
    BY <2>6, <2>7 DEF SearchIsCurrent
<1>7. /\ answer'.status \in {200, 400, 403, 500, 503}
      /\ answer'.filter \in Filter /\ answer'.since \in 0 .. MaxEntries
  BY <1>3, <1>4
<1> QED
  BY <1>3, <1>5, <1>6, <1>7 DEF AnswerInv

LEMMA NextAnswerInv == ASSUME TrailInv, AnswerInv, [Next]_vars PROVE AnswerInv'
<1>1. ASSUME answer' = None PROVE AnswerInv'
  BY <1>1 DEF AnswerInv, SearchIsCurrent
<1>2. ASSUME NEW s \in {400, 403, 500, 503}, Refusal(s) PROVE AnswerInv'
  <2>1. answer'.status = s /\ s # 200
    BY <1>2 DEF Refusal
  <2> QED
    BY <2>1 DEF AnswerInv, SearchIsCurrent
<1>3. ASSUME NEW p, SearchRefused(p) PROVE AnswerInv'
  BY <1>2, <1>3 DEF SearchRefused
<1>4. ASSUME NEW p, SearchStarts(p) PROVE AnswerInv'
  BY <1>1, <1>4 DEF SearchStarts
<1>5. ASSUME NEW o, CliSearches(o) PROVE AnswerInv'
  BY <1>3, <1>4, <1>5 DEF CliSearches
<1>6. ASSUME SearchAnswers PROVE AnswerInv'
  BY <1>6, AnswerStep
<1>7. ASSUME SearchFails PROVE AnswerInv'
  BY <1>2, <1>7 DEF SearchFails
<1>8. ASSUME UNCHANGED vars PROVE AnswerInv'
  <2>1. answer' = answer /\ entries' = entries /\ key' = key
    BY <1>8 DEF vars, contract
  <2>2. SearchIsCurrent' = SearchIsCurrent
    BY <2>1 DEF SearchIsCurrent, ShowsPage, ShowsNoMore, Wanted, ByAgent, OfAgent, InRange
  <2> QED
    BY <2>1, <2>2 DEF AnswerInv
<1>9. ASSUME \/ \E a \in Agents : LogAudit(a)
             \/ RecordEntry \/ NextBlock \/ NodeReads
             \/ \E k \in EncryptionKeys : Restart(k)
      PROVE  AnswerInv'
  BY <1>1, <1>9 DEF LogAudit, RecordEntry, NextBlock, NodeReads, Restart
<1> QED
  BY <1>3, <1>4, <1>5, <1>6, <1>7, <1>8, <1>9 DEF Next

LEMMA SpecAnswerInv == Spec => []AnswerInv
<1>1. Init => AnswerInv
  BY DEF Init, AnswerInv, SearchIsCurrent
<1>2. TrailInv /\ AnswerInv /\ [Next]_vars => AnswerInv'
  BY NextAnswerInv
<1> QED
  BY SpecTrailInv, <1>1, <1>2, PTL DEF Spec

-----------------------------------------------------------------------------
(* The theorems *)

(* Every variable keeps to its type: in particular the numbers of the entries   *)
(* never pass the number of writes, and the index holds positions of entries.   *)
THEOREM TypeCorrect == Spec => []TypeOK
<1>1. ASSUME TrailInv, AnswerInv PROVE TypeOK
  <2>1. ASSUME search # None
        PROVE  /\ search.filter \in Filter /\ search.since \in 0 .. MaxEntries
               /\ search.got # None => search.got \in Seq(Entry)
    <3>1. /\ search \in [filter : Filter, since : 0 .. Len(entries), got : Seq(Entry) \union {None}]
          /\ submitted \in 0 .. MaxEntries
          /\ entries \in Seq(Entry) /\ pending \in Seq(Transaction)
          /\ Len(entries) + Len(pending) <= submitted
      BY <1>1, <2>1 DEF TrailInv, SearchInv, IdInv, StoreTypes
    <3>2. search.since \in 0 .. Len(entries) /\ Len(entries) \in Nat /\ Len(pending) \in Nat
      BY <3>1
    <3>3. search.since \in 0 .. MaxEntries
      BY <3>1, <3>2, BoundsAssumption
    <3> QED
      BY <3>1, <3>3
  <2> QED
    BY <1>1, <2>1 DEF TrailInv, StoreTypes, AnswerInv, TypeOK
<1> QED
  BY SpecTrailInv, SpecAnswerInv, <1>1, PTL

(* The index of the agents and the two-pass scan of the times answer every page *)
(* like a plain selection of the entries, whatever offset and limit are asked.  *)
THEOREM ExactPages == Spec => []PagesAreExact
<1>1. ASSUME TrailInv PROVE PagesAreExact
  <2> SUFFICES ASSUME NEW offset \in 0 .. MaxEntries, NEW limit \in 0 .. PageMax
               PROVE  /\ \A a \in Agents : GetEntriesByAgent(a, offset, limit)
                                               = EntriesAt(PageOf(OfAgent(a), offset, limit))
                      /\ \A from, to \in Times :
                            GetEntriesByTimeRange(from, to, offset, limit)
                                = EntriesAt(PageOf(InRange(from, to), offset, limit))
    BY DEF PagesAreExact
  <2>1. offset \in Nat /\ limit \in Nat
    BY BoundsAssumption
  <2>2. ASSUME NEW a \in Agents
        PROVE  GetEntriesByAgent(a, offset, limit) = EntriesAt(PageOf(OfAgent(a), offset, limit))
    BY <1>1, <2>1, AgentIsPage DEF TrailInv
  <2>3. ASSUME NEW from \in Times, NEW to \in Times
        PROVE  GetEntriesByTimeRange(from, to, offset, limit)
                   = EntriesAt(PageOf(InRange(from, to), offset, limit))
    BY <1>1, <2>1, RangeIsPage DEF TrailInv, StoreTypes
  <2> QED
    BY <2>2, <2>3
<1> QED
  BY SpecTrailInv, <1>1, PTL

(* A successful answer is empty, or the first page of what the filter asked for *)
(* at one moment between the request and the answer: writes mined meanwhile do  *)
(* not tear it, a payload that cannot be decrypted does not drop its row, and   *)
(* no payload is shown that was not asked for.                                  *)
THEOREM CurrentAnswers == Spec => []SearchIsCurrent
<1>1. AnswerInv => SearchIsCurrent
  BY DEF AnswerInv
<1> QED
  BY SpecAnswerInv, <1>1, PTL

-----------------------------------------------------------------------------
(* Pages read one after the other *)

\* PagesAreExact for any numbers, so that it can be used before and after a step.
PagesInv ==
    \A offset \in Nat, limit \in Nat :
        /\ \A a \in Agents :
              GetEntriesByAgent(a, offset, limit) = EntriesAt(PageOf(OfAgent(a), offset, limit))
        /\ \A from, to \in Times :
              GetEntriesByTimeRange(from, to, offset, limit)
                  = EntriesAt(PageOf(InRange(from, to), offset, limit))

LEMMA SpecPagesInv == Spec => []PagesInv
<1>1. ASSUME TrailInv PROVE PagesInv
  <2>1. ASSUME NEW offset \in Nat, NEW limit \in Nat, NEW a \in Agents
        PROVE  GetEntriesByAgent(a, offset, limit) = EntriesAt(PageOf(OfAgent(a), offset, limit))
    BY <1>1, AgentIsPage DEF TrailInv
  <2>2. ASSUME NEW offset \in Nat, NEW limit \in Nat, NEW from \in Times, NEW to \in Times
        PROVE  GetEntriesByTimeRange(from, to, offset, limit)
                   = EntriesAt(PageOf(InRange(from, to), offset, limit))
    BY <1>1, RangeIsPage DEF TrailInv, StoreTypes
  <2> QED
    BY <2>1, <2>2 DEF PagesInv
<1> QED
  BY SpecTrailInv, <1>1, PTL

\* A page of positions before and after an entry is mined.
LEMMA PagePrefix ==
    ASSUME TrailInv, RecordEntry, NEW M, NEW N \in SUBSET (1 .. Len(entries) + 1),
           M = N \intersect 1 .. Len(entries), NEW offset \in Nat
    PROVE  IsPrefix(EntriesAt(PageOf(M, offset, PageMax)),
                    [k \in DOMAIN PageOf(N, offset, PageMax) |->
                        entries'[PageOf(N, offset, PageMax)[k]]])
<1> DEFINE old == PageOf(M, offset, PageMax)
           new == PageOf(N, offset, PageMax)
           s   == EntriesAt(old)
           t   == [k \in DOMAIN new |-> entries'[new[k]]]
<1>1. PICK n \in Nat : /\ n = Len(entries)
                       /\ \A i \in 1 .. n : entries'[i] = entries[i]
  BY Recorded
<1>2. /\ n + 1 \in Nat /\ n <= n + 1 /\ PageMax \in Nat
      /\ M \in SUBSET (1 .. n) /\ N \in SUBSET (1 .. n + 1) /\ M = N \intersect 1 .. n
  BY <1>1, BoundsAssumption
<1>3. PICK p \in Nat, q \in Nat :
          /\ DOMAIN old = 1 .. p /\ DOMAIN new = 1 .. q /\ p <= q
          /\ \A k \in 1 .. p : old[k] \in M /\ new[k] = old[k]
  <2> DEFINE m == n + 1
  <2>1. m \in Nat /\ n <= m /\ N \in SUBSET (1 .. m)
    BY <1>2
  <2> HIDE DEF m
  <2>2. Extends(old, new, M)
    BY <1>2, <2>1, PageGrows
  <2> QED
    BY <2>2 DEF Extends
<1> HIDE DEF old, new
<1>4. s = [k \in 1 .. p |-> entries[old[k]]] /\ t = [k \in 1 .. q |-> entries'[new[k]]]
  BY <1>3 DEF EntriesAt
<1>5. \A k \in 1 .. p : s[k] = t[k]
  <2>1. \A k \in 1 .. p : k \in 1 .. q
    BY <1>3
  <2>2. \A k \in 1 .. p : old[k] \in 1 .. n /\ new[k] = old[k]
    BY <1>2, <1>3
  <2> QED
    BY <1>1, <1>4, <2>1, <2>2
<1>6. Len(s) = p /\ Len(t) = q
  BY <1>4
<1> HIDE DEF s, t
<1>7. SubSeq(s, 1, p) = SubSeq(t, 1, p)
  <2>1. SubSeq(s, 1, p) = [k \in 1 .. p |-> s[k]] /\ SubSeq(t, 1, p) = [k \in 1 .. p |-> t[k]]
    BY <1>3
  <2> QED
    BY <1>5, <2>1
<1>8. IsPrefix(s, t)
  BY <1>3, <1>6, <1>7 DEF IsPrefix
<1> QED
  BY <1>8 DEF s, t, old, new

(* A page once read never shifts: when an entry is mined, every page of an agent *)
(* or of a time range is a prefix of the same page afterwards.                  *)
THEOREM StablePages == Spec => PagesAreStable
<1>1. ASSUME TrailInv, PagesInv, PagesInv', RecordEntry, NEW offset \in 0 .. MaxEntries
      PROVE  /\ \A a \in Agents :
                   IsPrefix(GetEntriesByAgent(a, offset, PageMax),
                            GetEntriesByAgent(a, offset, PageMax)')
             /\ \A from, to \in Times :
                   IsPrefix(GetEntriesByTimeRange(from, to, offset, PageMax),
                            GetEntriesByTimeRange(from, to, offset, PageMax)')
  <2>1. offset \in Nat /\ PageMax \in Nat
    BY BoundsAssumption
  <2>2. ASSUME NEW a \in Agents
        PROVE  IsPrefix(GetEntriesByAgent(a, offset, PageMax),
                        GetEntriesByAgent(a, offset, PageMax)')
    <3>1. PICK N : N = OfAgent(a)'
      OBVIOUS
    <3>2. GetEntriesByAgent(a, offset, PageMax) = EntriesAt(PageOf(OfAgent(a), offset, PageMax))
      BY <1>1, <2>1 DEF PagesInv
    <3>3. GetEntriesByAgent(a, offset, PageMax)'
              = EntriesAt(PageOf(OfAgent(a), offset, PageMax))'
      BY <1>1, <2>1 DEF PagesInv
    <3>4. EntriesAt(PageOf(OfAgent(a), offset, PageMax))'
              = [k \in DOMAIN PageOf(N, offset, PageMax) |->
                    entries'[PageOf(N, offset, PageMax)[k]]]
      BY <3>1 DEF EntriesAt
    <3>5. N \in SUBSET (1 .. Len(entries) + 1) /\ OfAgent(a) = N \intersect 1 .. Len(entries)
      BY <1>1, <3>1, WantedGrows
    <3>6. IsPrefix(EntriesAt(PageOf(OfAgent(a), offset, PageMax)),
                   [k \in DOMAIN PageOf(N, offset, PageMax) |->
                       entries'[PageOf(N, offset, PageMax)[k]]])
      BY <1>1, <2>1, <3>5, PagePrefix, Zenon
    <3> QED
      BY <3>2, <3>3, <3>4, <3>6, Zenon
  <2>3. ASSUME NEW from \in Times, NEW to \in Times
        PROVE  IsPrefix(GetEntriesByTimeRange(from, to, offset, PageMax),
                        GetEntriesByTimeRange(from, to, offset, PageMax)')
    <3>1. PICK N : N = InRange(from, to)'
      OBVIOUS
    <3>2. GetEntriesByTimeRange(from, to, offset, PageMax)
              = EntriesAt(PageOf(InRange(from, to), offset, PageMax))
      BY <1>1, <2>1 DEF PagesInv
    <3>3. GetEntriesByTimeRange(from, to, offset, PageMax)'
              = EntriesAt(PageOf(InRange(from, to), offset, PageMax))'
      BY <1>1, <2>1 DEF PagesInv
    <3>4. EntriesAt(PageOf(InRange(from, to), offset, PageMax))'
              = [k \in DOMAIN PageOf(N, offset, PageMax) |->
                    entries'[PageOf(N, offset, PageMax)[k]]]
      BY <3>1 DEF EntriesAt
    <3>5. /\ N \in SUBSET (1 .. Len(entries) + 1)
          /\ InRange(from, to) = N \intersect 1 .. Len(entries)
      BY <1>1, <3>1, WantedGrows
    <3>6. IsPrefix(EntriesAt(PageOf(InRange(from, to), offset, PageMax)),
                   [k \in DOMAIN PageOf(N, offset, PageMax) |->
                       entries'[PageOf(N, offset, PageMax)[k]]])
      BY <1>1, <2>1, <3>5, PagePrefix, Zenon
    <3> QED
      BY <3>2, <3>3, <3>4, <3>6, Zenon
  <2> QED
    BY <2>2, <2>3
<1>2. [Next]_vars => RecordEntry \/ UNCHANGED contract
  BY DEF Next, LogAudit, NextBlock, SearchRefused, SearchStarts, CliSearches, NodeReads,
         SearchAnswers, SearchFails, Restart, vars
<1>3. TrailInv /\ PagesInv /\ PagesInv' /\ [Next]_vars =>
          [contract' # contract =>
              \A offset \in 0 .. MaxEntries :
                  /\ \A a \in Agents :
                        IsPrefix(GetEntriesByAgent(a, offset, PageMax),
                                 GetEntriesByAgent(a, offset, PageMax)')
                  /\ \A from, to \in Times :
                        IsPrefix(GetEntriesByTimeRange(from, to, offset, PageMax),
                                 GetEntriesByTimeRange(from, to, offset, PageMax)')]_vars
  BY <1>1, <1>2
<1> QED
  BY SpecTrailInv, SpecPagesInv, <1>3, PTL DEF Spec, PagesAreStable
=============================================================================
