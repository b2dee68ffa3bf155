------------------------------ MODULE PmmProofs ------------------------------
(***************************************************************************)
(* Proofs about Pmm, for every memory map, page size and number of orders: *)
(* the free lists, the counters and the headers of the pages agree, blocks *)
(* do not overlap, buddies coalesce, and the allocator keeps the promise   *)
(* of PageAlloc.  The memory map is sorted because qsort sorts: an array   *)
(* of any length, with any compare that orders its elements.               *)
(***************************************************************************)
EXTENDS Pmm, NatFacts, SequenceTheorems

-----------------------------------------------------------------------------
(* qsort.                                                                  *)

\* What a comparison function must be for the elements of R.
Ordered(R, compare) ==
    \A x, y \in R :
        /\ compare[x][y] \in Int
        /\ compare[x][y] >= 0 <=> compare[y][x] <= 0
        /\ \A z \in R : compare[x][y] <= 0 /\ compare[y][z] <= 0 => compare[x][z] <= 0

Sorted(s, compare) == \A i, j \in 1..Len(s) : i < j => compare[s[i]][s[j]] <= 0

\* The two arrays have the same length and the same elements.
Same(s, t) == Len(s) = Len(t) /\ Range(s) = Range(t)

\* From c on, h makes one element of D of another, and f is what that gives.
Steps(N, D, c, h) == N \in Nat /\ c \in D /\ h \in [1..N -> [D -> D]]
Computed(N, D, c, h) ==
    \E f \in [0..N -> D] : f[0] = c /\ \A k \in 1..N : f[k] = h[k][f[k - 1]]

\* A function that is computed from 0 on, one step at a time, exists.
LEMMA Iteration ==
    ASSUME NEW N, NEW D, NEW c, NEW h, Steps(N, D, c, h)
    PROVE  Computed(N, D, c, h)
<1> DEFINE step == [y \in D \X (1..N) |-> h[y[2]][y[1]]]
<1>1. N \in Nat /\ c \in D /\ h \in [1..N -> [D -> D]]
  BY DEF Steps
<1>2. step \in [D \X (1..N) -> D]
  BY <1>1
<1>3. \A x \in D, k \in 1..N : step[<<x, k>>] = h[k][x]
  OBVIOUS
<1> HIDE DEF step
<1>4. PICK f : IsRun(f, N, D, c, step)
  BY <1>1, <1>2, Recursion
<1>5. f \in [0..N -> D] /\ f[0] = c /\ \A k \in 1..N : f[k] = step[<<f[k - 1], k>>]
  BY <1>4 DEF IsRun
<1>6. \A k \in 1..N : f[k - 1] \in D
  BY <1>1, <1>5
<1>7. \A k \in 1..N : f[k] = h[k][f[k - 1]]
  BY <1>3, <1>5, <1>6
<1> QED
  BY <1>5, <1>7 DEF Computed

-----------------------------------------------------------------------------
(* insert_sort.                                                            *)

\* Inserting an element into a sorted array.
LEMMA Insert ==
    ASSUME NEW R, NEW compare, Ordered(R, compare),
           NEW a \in Seq(R), Sorted(a, compare), NEW x \in R
    PROVE  /\ insert(a, x, compare) \in Seq(R) /\ Sorted(insert(a, x, compare), compare)
           /\ Len(insert(a, x, compare)) = Len(a) + 1
           /\ Range(insert(a, x, compare)) = Range(a) \cup {x}
<1> DEFINE K == {0} \cup {k \in DOMAIN a : compare[x][a[k]] >= 0}
           j == Max(K)
           n == Len(a)
<1>1. n \in Nat /\ DOMAIN a = 1..n /\ \A k \in 1..n : a[k] \in R
  OBVIOUS
<1>2. j \in K /\ \A k \in K : j >= k
  <2>1. K \in SUBSET Nat /\ K # {} /\ \A k \in K : k <= n
    BY <1>1
  <2> HIDE DEF K, n
  <2>2. \E k \in K : \A m \in K : k >= m
    BY <1>1, <2>1, GreatestNat
  <2> QED
    BY <2>2 DEF Max
<1> HIDE DEF j
<1>3. j \in 0..n
  BY <1>1, <1>2
<1> DEFINE b == SubSeq(a, 1, j)
           d == SubSeq(a, j + 1, n)
           r == insert(a, x, compare)
<1>4. b \in Seq(R) /\ Len(b) = j /\ \A i \in 1..j : b[i] = a[i]
  <2>1. \A i \in 1..j : a[i] \in R
    BY <1>1, <1>3
  <2>2. /\ SubSeq(a, 1, j) \in Seq(R) /\ Len(SubSeq(a, 1, j)) = IF 1 <= j THEN j - 1 + 1 ELSE 0
        /\ \A i \in 1..j - 1 + 1 : SubSeq(a, 1, j)[i] = a[1 + i - 1]
    BY <1>3, <2>1, SubSeqProperties
  <2> QED
    BY <1>3, <2>2
<1>5. d \in Seq(R) /\ Len(d) = n - j /\ \A i \in 1..n - j : d[i] = a[j + i]
  <2>1. \A i \in j + 1..n : a[i] \in R
    BY <1>1, <1>3
  <2>2. /\ SubSeq(a, j + 1, n) \in Seq(R)
        /\ Len(SubSeq(a, j + 1, n)) = IF j + 1 <= n THEN n - (j + 1) + 1 ELSE 0
        /\ \A i \in 1..n - (j + 1) + 1 : SubSeq(a, j + 1, n)[i] = a[j + 1 + i - 1]
    <3> HIDE DEF n
    <3> QED
      BY <1>1, <1>3, <2>1, SubSeqProperties
  <2> HIDE DEF n
  <2>3. Len(d) = n - j
    BY <1>1, <1>3, <2>2
  <2>4. \A i \in 1..n - j : d[i] = a[j + i]
    <3> TAKE i \in 1..n - j
    <3>1. i \in 1..n - (j + 1) + 1 /\ j + 1 + i - 1 = j + i
      BY <1>1, <1>3
    <3> QED
      BY <2>2, <3>1
  <2> QED
    BY <2>2, <2>3, <2>4
<1>6. r = b \o <<x>> \o d
  BY DEF insert, j
<1> HIDE DEF b, d, n
<1>7. <<x>> \in Seq(R) /\ Len(<<x>>) = 1 /\ <<x>>[1] = x
  OBVIOUS
<1> DEFINE bx == b \o <<x>>
<1>8. bx \in Seq(R) /\ Len(bx) = j + 1 /\ \A i \in 1..j + 1 : bx[i] = IF i <= j THEN a[i] ELSE x
  <2>1. /\ b \o <<x>> \in Seq(R) /\ Len(b \o <<x>>) = Len(b) + Len(<<x>>)
        /\ \A i \in 1..Len(b) + Len(<<x>>) :
             (b \o <<x>>)[i] = IF i <= Len(b) THEN b[i] ELSE <<x>>[i - Len(b)]
    BY <1>4, <1>7, ConcatProperties
  <2>2. ASSUME NEW i \in 1..j + 1 PROVE bx[i] = IF i <= j THEN a[i] ELSE x
    <3>1. CASE i <= j
      <4>1. i \in 1..j
        BY <1>3, <3>1
      <4> QED
        BY <1>4, <1>7, <2>1, <4>1
    <3>2. CASE ~(i <= j)
      <4>1. i = j + 1 /\ i - j = 1
        BY <1>3, <3>2
      <4> QED
        BY <1>3, <1>4, <1>7, <2>1, <3>2, <4>1
    <3> QED
      BY <3>1, <3>2
  <2> QED
    BY <1>4, <1>7, <2>1, <2>2
<1> HIDE DEF bx
<1>9. /\ r \in Seq(R) /\ Len(r) = n + 1
      /\ \A i \in 1..n + 1 : r[i] = IF i <= j THEN a[i] ELSE IF i = j + 1 THEN x ELSE a[i - 1]
  <2>1. /\ bx \o d \in Seq(R) /\ Len(bx \o d) = Len(bx) + Len(d)
        /\ \A i \in 1..Len(bx) + Len(d) :
             (bx \o d)[i] = IF i <= Len(bx) THEN bx[i] ELSE d[i - Len(bx)]
    BY <1>5, <1>8, ConcatProperties
  <2>2. r = bx \o d
    BY <1>6 DEF bx
  <2> HIDE DEF r
  <2>3. Len(bx) + Len(d) = n + 1
    BY <1>1, <1>3, <1>5, <1>8
  <2>4. ASSUME NEW i \in 1..n + 1
        PROVE  r[i] = IF i <= j THEN a[i] ELSE IF i = j + 1 THEN x ELSE a[i - 1]
    <3>1. r[i] = IF i <= j + 1 THEN bx[i] ELSE d[i - (j + 1)]
      BY <1>8, <2>1, <2>2, <2>3
    <3>2. CASE i <= j + 1
      <4>1. i \in 1..j + 1
        BY <1>3, <3>2
      <4> QED
        BY <1>3, <1>8, <3>1, <3>2, <4>1
    <3>3. CASE ~(i <= j + 1)
      <4>1. i - (j + 1) \in 1..n - j /\ j + (i - (j + 1)) = i - 1 /\ i # j + 1 /\ ~(i <= j)
        BY <1>1, <1>3, <3>3
      <4> QED
        BY <1>5, <3>1, <3>3, <4>1
    <3> QED
      BY <3>2, <3>3
  <2> QED
    BY <2>1, <2>2, <2>3, <2>4
<1> HIDE DEF r
<1>10. \A i \in 1..n : i <= j => compare[a[i]][x] <= 0
  <2> TAKE i \in 1..n
  <2> HAVE i <= j
  <2>1. j \in 1..n /\ compare[x][a[j]] >= 0 /\ a[j] \in R /\ a[i] \in R
    BY <1>1, <1>2, <1>3 DEF K
  <2>2. compare[a[j]][x] <= 0
    BY <2>1 DEF Ordered
  <2>3. CASE i = j
    BY <2>2, <2>3
  <2>4. CASE i < j
    <3>1. compare[a[i]][a[j]] <= 0
      BY <2>1, <2>4 DEF Sorted, n
    <3> QED
      BY <2>1, <2>2, <3>1 DEF Ordered
  <2> QED
    BY <1>1, <1>3, <2>3, <2>4
<1>11. \A i \in 1..n : i > j => compare[x][a[i]] <= 0
  <2> TAKE i \in 1..n
  <2> HAVE i > j
  <2>1. i \notin K
    BY <1>1, <1>2, <1>3
  <2>2. a[i] \in R /\ ~(compare[x][a[i]] >= 0)
    BY <1>1, <2>1 DEF K
  <2> QED
    BY <2>2 DEF Ordered
<1>12. Sorted(r, compare)
  <2> SUFFICES ASSUME NEW p \in 1..n + 1, NEW q \in 1..n + 1, p < q PROVE compare[r[p]][r[q]] <= 0
    BY <1>9 DEF Sorted
  <2>1. \A u, v \in 1..n : u < v => compare[a[u]][a[v]] <= 0
    BY DEF Sorted, n
  <2>2. CASE p <= j /\ q <= j
    <3>1. p \in 1..n /\ q \in 1..n
      BY <1>1, <1>3, <2>2
    <3> QED
      BY <1>9, <2>1, <2>2, <3>1
  <2>3. CASE p <= j /\ q = j + 1
    <3>1. p \in 1..n /\ ~(q <= j)
      BY <1>1, <1>3, <2>3
    <3> QED
      BY <1>9, <1>10, <2>3, <3>1
  <2>4. CASE p <= j /\ q > j + 1
    <3>1. p \in 1..n /\ q - 1 \in 1..n /\ p < q - 1 /\ ~(q <= j) /\ q # j + 1
      BY <1>1, <1>3, <2>4
    <3> QED
      BY <1>9, <2>1, <2>4, <3>1
  <2>5. CASE p = j + 1
    <3>1. q - 1 \in 1..n /\ q - 1 > j /\ ~(q <= j) /\ q # j + 1 /\ ~(p <= j)
      BY <1>1, <1>3, <2>5
    <3> QED
      BY <1>9, <1>11, <2>5, <3>1
  <2>6. CASE p > j + 1
    <3>1. /\ p - 1 \in 1..n /\ q - 1 \in 1..n /\ p - 1 < q - 1
          /\ ~(p <= j) /\ p # j + 1 /\ ~(q <= j) /\ q # j + 1
      BY <1>1, <1>3, <2>6
    <3> QED
      BY <1>9, <2>1, <3>1
  <2> QED
    BY <1>1, <1>3, <2>2, <2>3, <2>4, <2>5, <2>6
<1>13. Range(r) = Range(a) \cup {x}
  <2>1. DOMAIN r = 1..n + 1
    BY <1>9
  <2>2. ASSUME NEW i \in 1..n + 1 PROVE r[i] \in Range(a) \cup {x}
    <3>1. CASE i <= j
      <4>1. i \in 1..n
        BY <1>1, <1>3, <3>1
      <4> QED
        BY <1>1, <1>9, <3>1, <4>1 DEF Range
    <3>2. CASE i = j + 1
      BY <1>3, <1>9, <3>2
    <3>3. CASE i > j + 1
      <4>1. i - 1 \in 1..n /\ ~(i <= j) /\ i # j + 1
        BY <1>1, <1>3, <3>3
      <4> QED
        BY <1>1, <1>9, <4>1 DEF Range
    <3> QED
      BY <1>3, <3>1, <3>2, <3>3
  <2>3. ASSUME NEW i \in 1..n PROVE a[i] \in Range(r)
    <3>1. CASE i <= j
      <4>1. i \in 1..n + 1 /\ r[i] = a[i]
        BY <1>1, <1>9, <3>1
      <4> QED
        BY <2>1, <4>1 DEF Range
    <3>2. CASE i > j
      <4>1. i + 1 \in 1..n + 1 /\ ~(i + 1 <= j) /\ i + 1 # j + 1 /\ (i + 1) - 1 = i
        BY <1>1, <1>3, <3>2
      <4>2. r[i + 1] = a[i]
        BY <1>9, <4>1
      <4> QED
        BY <2>1, <4>1, <4>2 DEF Range
    <3> QED
      BY <1>3, <3>1, <3>2
  <2>4. x \in Range(r)
    <3>1. j + 1 \in 1..n + 1 /\ ~(j + 1 <= j)
      BY <1>1, <1>3
    <3>2. r[j + 1] = x
      BY <1>9, <3>1
    <3> QED
      BY <2>1, <3>1, <3>2 DEF Range
  <2>5. Range(a) \subseteq Range(r)
    BY <1>1, <2>3 DEF Range
  <2>6. Range(r) \subseteq Range(a) \cup {x}
    BY <2>1, <2>2 DEF Range
  <2> QED
    BY <2>4, <2>5, <2>6
<1> QED
  BY <1>9, <1>12, <1>13 DEF r, n

\* The arrays that insert_sort goes through.
Inserting(w, s, compare) ==
    w = [k \in 0..Len(s) |-> IF k = 0 THEN <<>> ELSE insert(w[k - 1], s[k], compare)]

\* insert_sort sorts.
LEMMA InsertSort ==
    ASSUME NEW R, NEW compare, Ordered(R, compare), NEW s \in Seq(R)
    PROVE  /\ insert_sort(s, compare) \in Seq(R) /\ Sorted(insert_sort(s, compare), compare)
           /\ Same(insert_sort(s, compare), s)
<1> DEFINE n == Len(s)
           D == {a \in Seq(R) : Sorted(a, compare)}
           h == [k \in 1..n |-> [a \in D |-> insert(a, s[k], compare)]]
           w == CHOOSE f : Inserting(f, s, compare)
<1>1. n \in Nat /\ DOMAIN s = 1..n /\ \A k \in 1..n : s[k] \in R
  OBVIOUS
<1>2. <<>> \in D
  <2>1. <<>> \in Seq(R) /\ Len(<<>>) = 0
    OBVIOUS
  <2> QED
    BY <2>1 DEF Sorted
<1>3. \A k \in 1..n : \A a \in D : insert(a, s[k], compare) \in D
  BY <1>1, Insert
<1>4. h \in [1..n -> [D -> D]]
  BY <1>3
<1> HIDE DEF D, n
<1>5. PICK f \in [0..n -> D] : f[0] = <<>> /\ \A k \in 1..n : f[k] = h[k][f[k - 1]]
  <2>1. Steps(n, D, <<>>, h)
    BY <1>1, <1>2, <1>4 DEF Steps
  <2> HIDE DEF h
  <2>2. Computed(n, D, <<>>, h)
    BY <2>1, Iteration
  <2> QED
    BY <2>2 DEF Computed
<1>6. Inserting(f, s, compare)
  <2>1. \A k \in 1..n : f[k - 1] \in D
    BY <1>1
  <2>2. \A k \in 1..n : f[k] = insert(f[k - 1], s[k], compare)
    BY <1>5, <2>1
  <2>3. f = [k \in 0..n |-> IF k = 0 THEN <<>> ELSE insert(f[k - 1], s[k], compare)]
    BY <1>1, <1>5, <2>2
  <2> QED
    BY <2>3 DEF Inserting, n
<1>7. Inserting(w, s, compare)
  BY <1>6
<1>8. insert_sort(s, compare) = w[n]
  BY DEF insert_sort, Inserting, n
<1> HIDE DEF w
<1>9. w[0] = <<>> /\ \A k \in 1..n : w[k] = insert(w[k - 1], s[k], compare)
  BY <1>1, <1>7 DEF Inserting, n
<1> DEFINE OK(k) == w[k] \in D /\ Len(w[k]) = k /\ Range(w[k]) = {s[i] : i \in 1..k}
           S == {k \in Nat : k <= n => OK(k)}
<1>10. 0 \in S
  <2>1. Len(w[0]) = 0 /\ w[0] \in D
    BY <1>2, <1>9
  <2>2. Range(w[0]) = {}
    BY <1>9 DEF Range
  <2>3. {s[i] : i \in 1..0} = {}
    OBVIOUS
  <2> QED
    BY <2>1, <2>2, <2>3
<1>11. ASSUME NEW k \in Nat, k \in S PROVE k + 1 \in S
  <2> SUFFICES ASSUME k + 1 <= n PROVE OK(k + 1)
    OBVIOUS
  <2>1. OK(k) /\ k + 1 \in 1..n /\ (k + 1) - 1 = k
    BY <1>1, <1>11
  <2>2. w[k + 1] = insert(w[k], s[k + 1], compare) /\ s[k + 1] \in R
    BY <1>1, <1>9, <2>1
  <2> DEFINE a == w[k]
             x == s[k + 1]
  <2>3. a \in Seq(R) /\ Sorted(a, compare) /\ x \in R
    BY <2>1, <2>2 DEF D
  <2> HIDE DEF a, x
  <2>4. /\ insert(a, x, compare) \in Seq(R) /\ Sorted(insert(a, x, compare), compare)
        /\ Len(insert(a, x, compare)) = Len(a) + 1
        /\ Range(insert(a, x, compare)) = Range(a) \cup {x}
    BY <2>3, Insert
  <2>5. w[k + 1] = insert(a, x, compare)
    BY <2>2 DEF a, x
  <2>6. w[k + 1] \in D /\ Len(w[k + 1]) = k + 1 /\ Range(w[k + 1]) = Range(a) \cup {x}
    BY <2>1, <2>4, <2>5 DEF a, D
  <2>7. {s[i] : i \in 1..k + 1} = {s[i] : i \in 1..k} \cup {x}
    <3>1. 1..k + 1 = (1..k) \cup {k + 1}
      OBVIOUS
    <3> QED
      BY <3>1 DEF x
  <2> QED
    BY <2>1, <2>6, <2>7 DEF a
<1> HIDE DEF S
<1>12. Nat \subseteq S
  BY <1>10, <1>11, Induction
<1>13. OK(n)
  <2>1. n \in S /\ n <= n
    BY <1>1, <1>12
  <2> HIDE DEF OK
  <2> QED
    BY <2>1 DEF S
<1>14. {s[i] : i \in 1..n} = Range(s)
  BY <1>1 DEF Range
<1> QED
  BY <1>8, <1>13, <1>14 DEF D, Same, n

-----------------------------------------------------------------------------
(* partition.                                                              *)

\* The positions x..y of array a, counted from 1, hold elements that Where
\* allows; the bounds are as in the comment of qsort.
Below(a, x, y, pivot, compare) == \A k \in x..y : compare[a[k]][pivot] < 0
Equal(a, x, y, pivot, compare) == \A k \in x..y : compare[a[k]][pivot] = 0
Above(a, x, y, pivot, compare) == \A k \in x..y : compare[a[k]][pivot] > 0

\* The loop of qsort: three parts, and what i has not come to.  When the middle
\* part is empty the element that left it is the next one.
ThreeParts(p, s, compare) ==
    /\ p \in [a : [1..Len(s) -> Range(s)], i : Nat, l : Nat, g : Nat]
    /\ Range(p.a) = Range(s)
    /\ p.l <= p.g /\ p.g <= p.i /\ p.i <= Len(s)
    /\ Below(p.a, 1, p.l, s[1], compare) /\ Equal(p.a, p.l + 1, p.g, s[1], compare)
    /\ Above(p.a, p.g + 1, p.i, s[1], compare)
    /\ p.l = p.g => p.i < Len(s) /\ compare[p.a[p.i + 1]][s[1]] = 0

\* Two elements change places.
LEMMA Swap ==
    ASSUME NEW n \in Nat, NEW R, NEW a \in [1..n -> R], Range(a) = R,
           NEW i \in 0..n - 1, NEW j \in 0..n - 1
    PROVE  /\ swap(a, i, j) \in [1..n -> R] /\ Range(swap(a, i, j)) = R
           /\ \A k \in 1..n : swap(a, i, j)[k] =
                IF k = j + 1 THEN a[i + 1] ELSE IF k = i + 1 THEN a[j + 1] ELSE a[k]
<1> DEFINE b == swap(a, i, j)
<1>1. i + 1 \in 1..n /\ j + 1 \in 1..n
  OBVIOUS
<1>2. /\ b \in [1..n -> R]
      /\ \A k \in 1..n : b[k] = IF k = j + 1 THEN a[i + 1] ELSE IF k = i + 1 THEN a[j + 1] ELSE a[k]
  BY <1>1 DEF swap
<1> HIDE DEF b
<1>3. ASSUME NEW x \in R PROVE x \in Range(b)
  <2>1. PICK k \in 1..n : a[k] = x
    BY DEF Range
  <2>2. CASE k = i + 1
    BY <1>1, <1>2, <2>1, <2>2 DEF Range
  <2>3. CASE k = j + 1 /\ k # i + 1
    <3>1. b[i + 1] = x
      BY <1>1, <1>2, <2>1, <2>3
    <3> QED
      BY <1>1, <1>2, <3>1 DEF Range
  <2>4. CASE k # i + 1 /\ k # j + 1
    BY <1>2, <2>1, <2>4 DEF Range
  <2> QED
    BY <2>2, <2>3, <2>4
<1>4. Range(b) = R
  BY <1>2, <1>3 DEF Range
<1> QED
  BY <1>2, <1>4 DEF b

\* One round of the loop keeps the three parts and moves on by one.
LEMMA PartitionStep ==
    ASSUME NEW s, NEW R, NEW compare, Ordered(R, compare), s \in Seq(R),
           NEW p, ThreeParts(p, s, compare), p.i # Len(s)
    PROVE  LET q == partition_step(p, s[1], compare)
           IN  ThreeParts(q, s, compare) /\ q.i + q.l = p.i + p.l + 1
<1> DEFINE n == Len(s)
           e == s[1]
           T == Range(s)
           q == partition_step(p, s[1], compare)
           a == p.a
           i == p.i
           l == p.l
           g == p.g
           r == compare[a[i + 1]][e]
<1>1. n \in Nat /\ T \subseteq R /\ (n > 0 => e \in R)
  BY DEF Range
<1>2. /\ a \in [1..n -> T] /\ i \in Nat /\ l \in Nat /\ g \in Nat /\ Range(a) = T
      /\ p = [a |-> a, i |-> i, l |-> l, g |-> g]
      /\ l <= g /\ g <= i /\ i < n
      /\ Below(a, 1, l, e, compare) /\ Equal(a, l + 1, g, e, compare)
      /\ Above(a, g + 1, i, e, compare)
      /\ (l = g => r = 0)
  BY <1>1 DEF ThreeParts
<1>3. e \in R /\ \A k \in 1..n : a[k] \in R
  BY <1>1, <1>2
<1>4. r \in Int
  <2>1. i + 1 \in 1..n
    BY <1>1, <1>2
  <2> QED
    BY <1>3, <2>1 DEF Ordered
<1>5. CASE r < 0
  <2>1. q = [a |-> swap(a, l, i), i |-> i, l |-> l + 1, g |-> g]
    <3>1. q = [p EXCEPT !.a = swap(p.a, p.l, p.i), !.l = p.l + 1]
      BY <1>4, <1>5 DEF partition_step
    <3> QED
      BY <1>2, <3>1
  <2> DEFINE b == swap(a, l, i)
  <2>2. l < g /\ l \in 0..n - 1 /\ i \in 0..n - 1
    BY <1>1, <1>2, <1>5
  <2>3. /\ b \in [1..n -> T] /\ Range(b) = T
        /\ \A k \in 1..n : b[k] = IF k = i + 1 THEN a[l + 1] ELSE IF k = l + 1 THEN a[i + 1] ELSE a[k]
    <3>1. n \in Nat /\ a \in [1..n -> T] /\ Range(a) = T /\ l \in 0..n - 1 /\ i \in 0..n - 1
      BY <1>1, <1>2, <2>2
    <3> HIDE DEF n, a, i, l, T
    <3> QED
      BY <3>1, Swap
  <2> HIDE DEF b, n, a, i, l, g, e, T, q
  <2>4. Below(b, 1, l + 1, e, compare)
    <3> SUFFICES ASSUME NEW k \in 1..l + 1 PROVE compare[b[k]][e] < 0
      BY DEF Below
    <3>1. k \in 1..n /\ k # i + 1 /\ (k # l + 1 => k \in 1..l)
      BY <1>1, <1>2, <2>2
    <3> QED
      BY <1>2, <1>5, <2>3, <3>1 DEF Below
  <2>5. Equal(b, l + 1 + 1, g, e, compare)
    <3> SUFFICES ASSUME NEW k \in l + 1 + 1..g PROVE compare[b[k]][e] = 0
      BY DEF Equal
    <3>1. k \in 1..n /\ k # i + 1 /\ k # l + 1 /\ k \in l + 1..g
      BY <1>1, <1>2, <2>2
    <3> QED
      BY <1>2, <2>3, <3>1 DEF Equal
  <2>6. Above(b, g + 1, i, e, compare)
    <3> SUFFICES ASSUME NEW k \in g + 1..i PROVE compare[b[k]][e] > 0
      BY DEF Above
    <3>1. k \in 1..n /\ k # i + 1 /\ k # l + 1
      BY <1>1, <1>2, <2>2
    <3> QED
      BY <1>2, <2>3, <3>1 DEF Above
  <2>7. i < n /\ compare[b[i + 1]][e] = 0
    <3>1. i + 1 \in 1..n /\ l + 1 \in l + 1..g
      BY <1>1, <1>2, <2>2
    <3> QED
      BY <1>2, <2>3, <3>1 DEF Equal
  <2>8. /\ q.a = b /\ q.i = i /\ q.l = l + 1 /\ q.g = g
        /\ q \in [a : [1..n -> T], i : Nat, l : Nat, g : Nat]
    BY <1>2, <2>1, <2>3 DEF b
  <2>9. l + 1 <= g /\ i <= n /\ i + (l + 1) = i + l + 1
    <3>1. i \in Nat /\ l \in Nat /\ g \in Nat /\ n \in Nat /\ l < g /\ i <= n
      BY <1>1, <1>2, <2>2
    <3> HIDE DEF i, l, g, n
    <3> QED
      BY <3>1
  <2>10. ThreeParts(q, s, compare)
    BY <1>2, <2>3, <2>4, <2>5, <2>6, <2>7, <2>8, <2>9 DEF ThreeParts, n, T, e
  <2> QED
    BY <2>8, <2>9, <2>10 DEF q, i, l
<1>6. CASE r = 0
  <2>1. q = [a |-> swap(a, g, i), i |-> i + 1, l |-> l, g |-> g + 1]
    <3>1. q = [p EXCEPT !.a = swap(p.a, p.g, p.i), !.g = p.g + 1, !.i = p.i + 1]
      BY <1>4, <1>6 DEF partition_step
    <3> QED
      BY <1>2, <3>1
  <2> DEFINE b == swap(a, g, i)
  <2>2. g \in 0..n - 1 /\ i \in 0..n - 1
    BY <1>1, <1>2
  <2>3. /\ b \in [1..n -> T] /\ Range(b) = T
        /\ \A k \in 1..n : b[k] = IF k = i + 1 THEN a[g + 1] ELSE IF k = g + 1 THEN a[i + 1] ELSE a[k]
    <3>1. n \in Nat /\ a \in [1..n -> T] /\ Range(a) = T /\ g \in 0..n - 1 /\ i \in 0..n - 1
      BY <1>1, <1>2, <2>2
    <3> HIDE DEF n, a, i, g, T
    <3> QED
      BY <3>1, Swap
  <2> HIDE DEF b, n, a, i, l, g, e, T, q
  <2>4. Below(b, 1, l, e, compare)
    <3> SUFFICES ASSUME NEW k \in 1..l PROVE compare[b[k]][e] < 0
      BY DEF Below
    <3>1. k \in 1..n /\ k # i + 1 /\ k # g + 1
      BY <1>1, <1>2, <2>2
    <3> QED
      BY <1>2, <2>3, <3>1 DEF Below
  <2>5. Equal(b, l + 1, g + 1, e, compare)
    <3> SUFFICES ASSUME NEW k \in l + 1..g + 1 PROVE compare[b[k]][e] = 0
      BY DEF Equal
    <3>1. CASE k = g + 1
      <4>1. k \in 1..n /\ g + 1 \in 1..n /\ b[k] = a[i + 1]
        BY <1>1, <1>2, <2>2, <2>3, <3>1
      <4> QED
        BY <1>6, <4>1
    <3>2. CASE k # g + 1
      <4>1. k \in 1..n /\ k # i + 1 /\ k \in l + 1..g
        BY <1>1, <1>2, <2>2, <3>2
      <4> QED
        BY <1>2, <2>3, <3>2, <4>1 DEF Equal
    <3> QED
      BY <3>1, <3>2
  <2>6. Above(b, g + 1 + 1, i + 1, e, compare)
    <3> SUFFICES ASSUME NEW k \in g + 1 + 1..i + 1 PROVE compare[b[k]][e] > 0
      BY DEF Above
    <3>1. CASE k = i + 1
      <4>1. k \in 1..n /\ g + 1 \in g + 1..i
        BY <1>1, <1>2, <2>2, <3>1
      <4> QED
        BY <1>2, <2>3, <3>1, <4>1 DEF Above
    <3>2. CASE k # i + 1
      <4>1. k \in 1..n /\ k # g + 1 /\ k \in g + 1..i
        BY <1>1, <1>2, <2>2, <3>2, SMTT(30)
      <4> QED
        BY <1>2, <2>3, <3>2, <4>1 DEF Above
    <3> QED
      BY <3>1, <3>2
  <2>7. /\ q.a = b /\ q.i = i + 1 /\ q.l = l /\ q.g = g + 1
        /\ q \in [a : [1..n -> T], i : Nat, l : Nat, g : Nat]
    BY <1>2, <2>1, <2>3 DEF b
  <2>8. l <= g + 1 /\ l # g + 1 /\ g + 1 <= i + 1 /\ i + 1 <= n /\ (i + 1) + l = i + l + 1
    BY <1>1, <1>2
  <2>9. ThreeParts(q, s, compare)
    BY <1>2, <2>3, <2>4, <2>5, <2>6, <2>7, <2>8 DEF ThreeParts, n, T, e
  <2> QED
    BY <2>7, <2>8, <2>9 DEF q, i, l
<1>7. CASE r > 0
  <2>1. q = [a |-> a, i |-> i + 1, l |-> l, g |-> g]
    <3>1. q = [p EXCEPT !.i = p.i + 1]
      BY <1>4, <1>7 DEF partition_step
    <3> QED
      BY <1>2, <3>1
  <2> HIDE DEF n, a, i, l, g, e, T, q
  <2>2. Above(a, g + 1, i + 1, e, compare)
    <3> SUFFICES ASSUME NEW k \in g + 1..i + 1 PROVE compare[a[k]][e] > 0
      BY DEF Above
    <3>1. k # i + 1 => k \in g + 1..i
      BY <1>1, <1>2
    <3> QED
      BY <1>2, <1>7, <3>1 DEF Above
  <2>3. /\ q.a = a /\ q.i = i + 1 /\ q.l = l /\ q.g = g
        /\ q \in [a : [1..n -> T], i : Nat, l : Nat, g : Nat]
    BY <1>2, <2>1
  <2>4. l # g /\ g <= i + 1 /\ i + 1 <= n /\ (i + 1) + l = i + l + 1
    BY <1>1, <1>2, <1>4, <1>7
  <2>5. ThreeParts(q, s, compare)
    BY <1>2, <2>2, <2>3, <2>4 DEF ThreeParts, n, T, e
  <2> QED
    BY <2>3, <2>4, <2>5 DEF q, i, l
<1> QED
  BY <1>4, <1>5, <1>6, <1>7

\* The rounds of the loop.
Rounds(w, s, compare) ==
    w = [k \in 0..2 * Len(s) |->
            IF k = 0 THEN [a |-> s, i |-> 1, l |-> 0, g |-> 1]
            ELSE LET p == w[k - 1] IN IF p.i = Len(s) THEN p ELSE partition_step(p, s[1], compare)]

\* The loop of qsort ends with the array in three parts.
LEMMA Partition ==
    ASSUME NEW R, NEW compare, Ordered(R, compare), NEW s \in Seq(R), Len(s) >= 1
    PROVE  ThreeParts(partition(s, compare), s, compare) /\ partition(s, compare).i = Len(s)
<1> DEFINE n == Len(s)
           m == 2 * n
           e == s[1]
           c == [a |-> s, i |-> 1, l |-> 0, g |-> 1]
           D == {p \in [a : [1..n -> Range(s)], i : Nat, l : Nat, g : Nat]
                      : ThreeParts(p, s, compare)}
           Do(p) == IF p.i = n THEN p ELSE partition_step(p, e, compare)
           h == [k \in 1..m |-> [p \in D |-> Do(p)]]
           w == CHOOSE f : Rounds(f, s, compare)
<1>1. n \in Nat /\ n >= 1 /\ DOMAIN s = 1..n /\ m \in Nat /\ e \in R /\ s \in [1..n -> Range(s)]
  BY DEF Range
<1>2. compare[e][e] = 0
  BY <1>1 DEF Ordered
<1>3. c \in D
  <2>1. c \in [a : [1..n -> Range(s)], i : Nat, l : Nat, g : Nat]
    BY <1>1
  <2>2. /\ Below(s, 1, 0, e, compare) /\ Equal(s, 0 + 1, 1, e, compare)
        /\ Above(s, 1 + 1, 1, e, compare)
    BY <1>2 DEF Below, Equal, Above
  <2>3. ThreeParts(c, s, compare)
    BY <1>1, <2>1, <2>2 DEF ThreeParts
  <2> QED
    BY <2>1, <2>3
<1>4. ASSUME NEW p \in D PROVE Do(p) \in D
  <2>1. CASE p.i = n
    BY <2>1
  <2>2. CASE p.i # n
    <3> DEFINE q == partition_step(p, e, compare)
    <3>1. ThreeParts(q, s, compare)
      BY <2>2, PartitionStep
    <3>2. q \in [a : [1..n -> Range(s)], i : Nat, l : Nat, g : Nat]
      BY <3>1 DEF ThreeParts
    <3> QED
      BY <2>2, <3>1, <3>2
  <2> QED
    BY <2>1, <2>2
<1>5. h \in [1..m -> [D -> D]]
  BY <1>4
<1> HIDE DEF D, m, c, Do
<1>6. PICK f \in [0..m -> D] : f[0] = c /\ \A k \in 1..m : f[k] = h[k][f[k - 1]]
  <2>1. Steps(m, D, c, h)
    BY <1>1, <1>3, <1>5 DEF Steps
  <2> HIDE DEF h
  <2>2. Computed(m, D, c, h)
    BY <2>1, Iteration
  <2> QED
    BY <2>2 DEF Computed
<1>7. \A v : Rounds(v, s, compare) <=> v = [k \in 0..m |-> IF k = 0 THEN c ELSE Do(v[k - 1])]
  BY DEF Rounds, m, c, Do
<1>8. Rounds(f, s, compare)
  <2>1. \A k \in 1..m : f[k - 1] \in D
    BY <1>1
  <2>2. \A k \in 1..m : f[k] = Do(f[k - 1])
    BY <1>6, <2>1
  <2>3. f = [k \in 0..m |-> IF k = 0 THEN c ELSE Do(f[k - 1])]
    BY <1>1, <1>6, <2>2
  <2> QED
    BY <1>7, <2>3
<1>9. Rounds(w, s, compare)
  BY <1>8
<1>10. partition(s, compare) = w[m]
  BY DEF partition, Rounds, m
<1> HIDE DEF w
<1>11. w[0] = c /\ \A k \in 1..m : w[k] = Do(w[k - 1])
  BY <1>1, <1>7, <1>9, SMTT(30)
<1> DEFINE OK(k) == w[k] \in D /\ (w[k].i = n \/ w[k].i + w[k].l = k + 1)
           S == {k \in Nat : k <= m => OK(k)}
<1>12. 0 \in S
  <2>1. w[0].i = 1 /\ w[0].l = 0
    BY <1>11 DEF c
  <2> QED
    BY <1>3, <1>11, <2>1
<1>13. ASSUME NEW k \in Nat, k \in S PROVE k + 1 \in S
  <2> SUFFICES ASSUME k + 1 <= m PROVE OK(k + 1)
    OBVIOUS
  <2>1. OK(k) /\ k + 1 \in 1..m /\ (k + 1) - 1 = k
    BY <1>1, <1>13
  <2> DEFINE p == w[k]
  <2>2. w[k + 1] = Do(p) /\ p \in D
    BY <1>11, <2>1
  <2>3. w[k + 1] \in D
    BY <1>4, <2>2
  <2>4. CASE p.i = n
    <3>1. Do(p) = p
      BY <2>4 DEF Do
    <3> QED
      BY <2>2, <2>3, <2>4, <3>1
  <2>5. CASE p.i # n
    <3> DEFINE q == partition_step(p, e, compare)
    <3>1. w[k + 1] = q
      BY <2>2, <2>5 DEF Do
    <3>2. ThreeParts(p, s, compare)
      BY <2>2 DEF D
    <3>3. q.i + q.l = p.i + p.l + 1
      <4> HIDE DEF p
      <4> QED
        BY <2>5, <3>2, PartitionStep
    <3>4. p.i + p.l = k + 1
      BY <2>1, <2>5
    <3> QED
      BY <2>3, <3>1, <3>3, <3>4
  <2> QED
    BY <2>4, <2>5
<1> HIDE DEF S
<1>14. Nat \subseteq S
  BY <1>12, <1>13, Induction
<1>15. OK(m)
  BY <1>1, <1>14 DEF S
<1>16. /\ ThreeParts(w[m], s, compare) /\ w[m].i \in Nat /\ w[m].l \in Nat /\ w[m].l <= w[m].i
       /\ w[m].i <= n
  BY <1>15 DEF ThreeParts, D
<1>17. w[m].i = n
  BY <1>1, <1>15, <1>16 DEF m
<1> QED
  BY <1>10, <1>16, <1>17

-----------------------------------------------------------------------------
(* qsort.                                                                  *)

\* An array is either small or cut into three, of which the first and the last
\* are shorter and sorted in the same way.
Divided(R, T, small, ins, lo, mid, hi) ==
    /\ T = Seq(R)
    /\ ins \in [T -> T] /\ lo \in [T -> T] /\ mid \in [T -> T] /\ hi \in [T -> T]
    /\ \A s \in T \ small : Len(lo[s]) < Len(s) /\ Len(hi[s]) < Len(s)
Conquered(T, small, ins, lo, mid, hi) ==
    \E f \in [T -> T] : \A s \in T :
        f[s] = IF s \in small THEN ins[s] ELSE f[lo[s]] \o mid[s] \o f[hi[s]]

\* A function that recurs on shorter arrays, as qsort does, exists.
LEMMA DivideAndConquer ==
    ASSUME NEW R, NEW T, NEW small, NEW ins, NEW lo, NEW mid, NEW hi,
           Divided(R, T, small, ins, lo, mid, hi)
    PROVE  Conquered(T, small, ins, lo, mid, hi)
<1> USE DEF Divided
<1> SUFFICES \E f \in [T -> T] : \A s \in T :
                 f[s] = IF s \in small THEN ins[s] ELSE f[lo[s]] \o mid[s] \o f[hi[s]]
  BY DEF Conquered
<1> DEFINE A(m) == {s \in T : Len(s) < m}
           Eq(f, s) == f[s] = IF s \in small THEN ins[s] ELSE f[lo[s]] \o mid[s] \o f[hi[s]]
           Upto(f, m) == f \in [A(m) -> T] /\ \A s \in A(m) : Eq(f, s)
<1>1. \A s \in T : Len(s) \in Nat
  OBVIOUS
<1>2. \A x, y, z \in T : x \o y \o z \in T
  <2> TAKE x, y, z \in T
  <2>1. x \o y \in Seq(R)
    BY ConcatProperties
  <2> DEFINE xy == x \o y
  <2> HIDE DEF xy
  <2>2. xy \o z \in Seq(R)
    BY <2>1, ConcatProperties DEF xy
  <2> QED
    BY <2>2 DEF xy
<1>3. \A m \in Nat : \E f : Upto(f, m)
  <2> DEFINE S == {m \in Nat : \E f : Upto(f, m)}
  <2>1. 0 \in S
    <3>1. A(0) = {}
      BY <1>1
    <3>2. Upto([s \in A(0) |-> ins[s]], 0)
      BY <3>1
    <3> QED
      BY <3>2
  <2>2. ASSUME NEW m \in Nat, m \in S PROVE m + 1 \in S
    <3>1. PICK f : Upto(f, m)
      BY <2>2
    <3> DEFINE F == [s \in A(m + 1) |-> IF s \in small THEN ins[s] ELSE f[lo[s]] \o mid[s] \o f[hi[s]]]
    <3>2. \A s \in A(m + 1) \ small : lo[s] \in A(m) /\ hi[s] \in A(m)
      <4> TAKE s \in A(m + 1) \ small
      <4>1. /\ s \in T /\ Len(s) \in Nat /\ Len(s) < m + 1 /\ lo[s] \in T /\ hi[s] \in T
            /\ Len(lo[s]) < Len(s) /\ Len(hi[s]) < Len(s)
        BY <1>1
      <4>2. Len(lo[s]) \in Nat /\ Len(hi[s]) \in Nat
        BY <1>1, <4>1
      <4> QED
        BY <4>1, <4>2
    <3>3. F \in [A(m + 1) -> T]
      <4> SUFFICES ASSUME NEW s \in A(m + 1)
                   PROVE  (IF s \in small THEN ins[s] ELSE f[lo[s]] \o mid[s] \o f[hi[s]]) \in T
        OBVIOUS
      <4>1. CASE s \in small
        BY <4>1
      <4>2. CASE s \notin small
        <5>1. f[lo[s]] \in T /\ f[hi[s]] \in T /\ mid[s] \in T
          BY <3>1, <3>2, <4>2
        <5> QED
          BY <1>2, <4>2, <5>1
      <4> QED
        BY <4>1, <4>2
    <3>4. A(m) \subseteq A(m + 1)
      BY <1>1
    <3>5. \A s \in A(m) : F[s] = f[s]
      BY <3>1, <3>4
    <3>6. \A s \in A(m + 1) : Eq(F, s)
      BY <3>2, <3>5
    <3> HIDE DEF F
    <3>7. Upto(F, m + 1)
      BY <3>3, <3>6
    <3>8. m + 1 \in Nat
      OBVIOUS
    <3> HIDE DEF Upto
    <3> QED
      BY <3>7, <3>8
  <2> HIDE DEF S
  <2>3. Nat \subseteq S
    BY <2>1, <2>2, Induction
  <2> QED
    BY <2>3 DEF S
<1>4. \A f, g : \A i, j \in Nat : Upto(f, i) /\ Upto(g, j) =>
        \A s \in T : Len(s) < i /\ Len(s) < j => f[s] = g[s]
  <2> SUFFICES ASSUME NEW f, NEW g, NEW i \in Nat, NEW j \in Nat, Upto(f, i), Upto(g, j)
               PROVE  \A s \in T : Len(s) < i /\ Len(s) < j => f[s] = g[s]
    <3> HIDE DEF Upto
    <3> QED
      OBVIOUS
  <2> DEFINE S == {m \in Nat : \A s \in T : Len(s) < m /\ Len(s) < i /\ Len(s) < j => f[s] = g[s]}
  <2>1. 0 \in S
    BY <1>1
  <2>2. ASSUME NEW m \in Nat, m \in S PROVE m + 1 \in S
    <3> SUFFICES ASSUME NEW s \in T, Len(s) < m + 1, Len(s) < i, Len(s) < j PROVE f[s] = g[s]
      OBVIOUS
    <3>1. Eq(f, s) /\ Eq(g, s)
      OBVIOUS
    <3>2. CASE s \in small
      BY <3>1, <3>2
    <3>3. CASE s \notin small
      <4>1. /\ lo[s] \in T /\ hi[s] \in T /\ Len(lo[s]) < Len(s) /\ Len(hi[s]) < Len(s)
            /\ Len(s) \in Nat
        BY <1>1, <3>3
      <4>2. Len(lo[s]) \in Nat /\ Len(hi[s]) \in Nat
        BY <1>1, <4>1
      <4>3. /\ Len(lo[s]) < m /\ Len(lo[s]) < i /\ Len(lo[s]) < j
            /\ Len(hi[s]) < m /\ Len(hi[s]) < i /\ Len(hi[s]) < j
        BY <4>1, <4>2
      <4>4. f[lo[s]] = g[lo[s]] /\ f[hi[s]] = g[hi[s]]
        BY <2>2, <4>1, <4>3
      <4> QED
        BY <3>1, <3>3, <4>4
    <3> QED
      BY <3>2, <3>3
  <2> HIDE DEF S
  <2>3. Nat \subseteq S
    BY <2>1, <2>2, Induction
  <2> SUFFICES ASSUME NEW s \in T, Len(s) < i, Len(s) < j PROVE f[s] = g[s]
    OBVIOUS
  <2>4. Len(s) + 1 \in S /\ Len(s) < Len(s) + 1
    BY <1>1, <2>3
  <2> QED
    BY <2>4 DEF S
<1> DEFINE a(m) == CHOOSE f : Upto(f, m)
           F == [s \in T |-> a(Len(s) + 1)[s]]
<1>5. \A m \in Nat : Upto(a(m), m)
  BY <1>3
<1> HIDE DEF a
<1>6. ASSUME NEW s \in T, NEW m \in Nat, Len(s) < m PROVE a(Len(s) + 1)[s] = a(m)[s]
  <2>1. Len(s) \in Nat /\ Len(s) + 1 \in Nat /\ Len(s) < Len(s) + 1
    BY <1>1
  <2>2. Upto(a(Len(s) + 1), Len(s) + 1) /\ Upto(a(m), m)
    BY <1>5, <2>1
  <2> HIDE DEF Upto
  <2> QED
    BY <1>4, <1>6, <2>1, <2>2
<1>7. F \in [T -> T]
  <2> SUFFICES ASSUME NEW s \in T PROVE a(Len(s) + 1)[s] \in T
    OBVIOUS
  <2>1. Len(s) + 1 \in Nat /\ s \in A(Len(s) + 1)
    BY <1>1
  <2>2. a(Len(s) + 1) \in [A(Len(s) + 1) -> T]
    BY <1>5, <2>1
  <2> QED
    BY <2>1, <2>2
<1>8. \A s \in T : Eq(F, s)
  <2> TAKE s \in T
  <2> DEFINE m == Len(s) + 1
             f == a(m)
  <2>1. m \in Nat /\ Len(s) < m /\ s \in A(m)
    BY <1>1
  <2>2. Eq(f, s)
    BY <1>5, <2>1
  <2>3. F[s] = f[s]
    OBVIOUS
  <2>4. CASE s \in small
    BY <2>2, <2>3, <2>4
  <2>5. CASE s \notin small
    <3>1. /\ lo[s] \in T /\ hi[s] \in T /\ Len(lo[s]) < Len(s) /\ Len(hi[s]) < Len(s)
          /\ Len(s) \in Nat
      BY <1>1, <2>5
    <3>2. Len(lo[s]) < m /\ Len(hi[s]) < m
      BY <1>1, <3>1
    <3> HIDE DEF m
    <3>3. F[lo[s]] = f[lo[s]] /\ F[hi[s]] = f[hi[s]]
      BY <1>6, <2>1, <3>1, <3>2
    <3> HIDE DEF F, f
    <3> QED
      BY <2>2, <2>3, <2>5, <3>3
  <2> QED
    BY <2>4, <2>5
<1> HIDE DEF F
<1> QED
  BY <1>7, <1>8

\* Nothing of array x is above array y, and r is the two together.
InOrder(R, x, y, compare) ==
    /\ x \in Seq(R) /\ y \in Seq(R) /\ Sorted(x, compare) /\ Sorted(y, compare)
    /\ \A d \in Range(x) : \A e \in Range(y) : compare[d][e] <= 0
Joined(R, x, y, r, compare) ==
    /\ r \in Seq(R) /\ Sorted(r, compare)
    /\ Len(r) = Len(x) + Len(y) /\ Range(r) = Range(x) \cup Range(y)

\* Two sorted arrays make one when nothing of the first is above the second.
LEMMA Join ==
    ASSUME NEW R, NEW x, NEW y, NEW compare, InOrder(R, x, y, compare)
    PROVE  Joined(R, x, y, x \o y, compare)
<1> USE DEF InOrder
<1> DEFINE m == Len(x)
           n == Len(y)
           r == x \o y
<1>1. m \in Nat /\ n \in Nat /\ DOMAIN x = 1..m /\ DOMAIN y = 1..n
  OBVIOUS
<1>2. r \in Seq(R) /\ Len(r) = m + n /\ \A i \in 1..m + n : r[i] = IF i <= m THEN x[i] ELSE y[i - m]
  BY ConcatProperties
<1>3. DOMAIN r = 1..m + n
  BY <1>2
<1>4. \A i \in 1..m : \A j \in 1..m : i < j => compare[x[i]][x[j]] <= 0
  BY DEF Sorted
<1>5. \A i \in 1..n : \A j \in 1..n : i < j => compare[y[i]][y[j]] <= 0
  BY DEF Sorted
<1>6. \A i \in 1..m : \A j \in 1..n : compare[x[i]][y[j]] <= 0
  BY <1>1 DEF Range
<1> HIDE DEF r, m, n
<1>7. Sorted(r, compare)
  <2> SUFFICES ASSUME NEW i \in 1..m + n, NEW j \in 1..m + n, i < j
               PROVE  compare[r[i]][r[j]] <= 0
    BY <1>2 DEF Sorted
  <2>1. CASE j <= m
    <3>1. i \in 1..m /\ j \in 1..m /\ i <= m
      BY <1>1, <2>1
    <3> QED
      BY <1>2, <1>4, <2>1, <3>1
  <2>2. CASE i <= m /\ ~(j <= m)
    <3>1. i \in 1..m /\ j - m \in 1..n
      BY <1>1, <2>2
    <3> QED
      BY <1>2, <1>6, <2>2, <3>1
  <2>3. CASE ~(i <= m)
    <3>1. i - m \in 1..n /\ j - m \in 1..n /\ i - m < j - m /\ ~(j <= m)
      BY <1>1, <2>3
    <3> QED
      BY <1>2, <1>5, <2>3, <3>1
  <2> QED
    BY <1>1, <2>1, <2>2, <2>3
<1>8. Range(r) = Range(x) \cup Range(y)
  <2>1. ASSUME NEW i \in 1..m + n PROVE r[i] \in Range(x) \cup Range(y)
    <3>1. CASE i <= m
      <4>1. i \in 1..m
        BY <1>1, <3>1
      <4> QED
        BY <1>1, <1>2, <3>1, <4>1 DEF Range
    <3>2. CASE ~(i <= m)
      <4>1. i - m \in 1..n
        BY <1>1, <3>2
      <4> QED
        BY <1>1, <1>2, <3>2, <4>1 DEF Range
    <3> QED
      BY <3>1, <3>2
  <2>2. ASSUME NEW i \in 1..m PROVE x[i] \in Range(r)
    <3>1. i \in 1..m + n /\ i <= m
      BY <1>1
    <3> QED
      BY <1>2, <1>3, <3>1 DEF Range
  <2>3. ASSUME NEW i \in 1..n PROVE y[i] \in Range(r)
    <3>1. i + m \in 1..m + n /\ ~(i + m <= m) /\ (i + m) - m = i
      BY <1>1
    <3>2. r[i + m] = y[i]
      BY <1>2, <3>1
    <3> QED
      BY <1>3, <3>1, <3>2 DEF Range
  <2>4. Range(x) \subseteq Range(r) /\ Range(y) \subseteq Range(r)
    BY <1>1, <2>2, <2>3 DEF Range
  <2>5. Range(r) \subseteq Range(x) \cup Range(y)
    BY <1>3, <2>1 DEF Range
  <2> QED
    BY <2>4, <2>5
<1> QED
  BY <1>2, <1>7, <1>8 DEF r, m, n, Joined

\* The three parts x, y and z that the loop leaves of array s.
Cut(s, x, y, z, compare) ==
    /\ Len(x) + Len(y) + Len(z) = Len(s) /\ Len(y) >= 1
    /\ Range(x) \cup Range(y) \cup Range(z) = Range(s)
    /\ \A e \in Range(x) : compare[e][s[1]] < 0
    /\ \A e \in Range(y) : compare[e][s[1]] = 0
    /\ \A e \in Range(z) : compare[e][s[1]] > 0

\* Array b is the part of a from position m to position n.
Within(a, k, R, m, n) ==
    k \in Nat /\ a \in [1..k -> R] /\ m \in 1..k + 1 /\ n \in 0..k /\ m <= n + 1
IsSlice(b, a, R, m, n) ==
    b \in Seq(R) /\ Len(b) = n - m + 1 /\ Range(b) = {a[i] : i \in m..n}

\* The length and the elements of a part of an array.
LEMMA Slice ==
    ASSUME NEW a, NEW k, NEW R, NEW m, NEW n, Within(a, k, R, m, n)
    PROVE  IsSlice(SubSeq(a, m, n), a, R, m, n)
<1> USE DEF Within
<1> DEFINE b == SubSeq(a, m, n)
<1>1. \A i \in m..n : a[i] \in R
  OBVIOUS
<1>2. /\ b \in Seq(R) /\ Len(b) = IF m <= n THEN n - m + 1 ELSE 0
      /\ \A i \in 1..n - m + 1 : b[i] = a[m + i - 1]
  BY <1>1, SubSeqProperties
<1> HIDE DEF b
<1>3. Len(b) = n - m + 1
  BY <1>2
<1>4. DOMAIN b = 1..n - m + 1
  BY <1>2, <1>3
<1>5. \A i \in 1..n - m + 1 : m + i - 1 \in m..n
  OBVIOUS
<1>6. \A i \in m..n : i - m + 1 \in 1..n - m + 1 /\ m + (i - m + 1) - 1 = i
  OBVIOUS
<1>7. Range(b) \subseteq {a[i] : i \in m..n}
  BY <1>2, <1>4, <1>5 DEF Range
<1>8. ASSUME NEW i \in m..n PROVE a[i] \in Range(b)
  <2>1. b[i - m + 1] = a[i]
    BY <1>2, <1>6
  <2> QED
    BY <1>4, <1>6, <2>1 DEF Range
<1> QED
  BY <1>2, <1>3, <1>7, <1>8 DEF b, IsSlice

\* What the loop leaves.
LEMMA Cuts ==
    ASSUME NEW R, NEW compare, Ordered(R, compare), NEW s \in Seq(R), Len(s) >= 1,
           NEW p, p = partition(s, compare)
    PROVE  /\ SubSeq(p.a, 1, p.l) \in Seq(R) /\ SubSeq(p.a, p.l + 1, p.g) \in Seq(R)
           /\ SubSeq(p.a, p.g + 1, Len(s)) \in Seq(R)
           /\ Cut(s, SubSeq(p.a, 1, p.l), SubSeq(p.a, p.l + 1, p.g),
                  SubSeq(p.a, p.g + 1, Len(s)), compare)
<1> DEFINE n == Len(s)
           T == Range(s)
           a == p.a
           l == p.l
           g == p.g
           x == SubSeq(a, 1, l)
           y == SubSeq(a, l + 1, g)
           z == SubSeq(a, g + 1, n)
<1>1. n \in Nat /\ T \subseteq R
  BY DEF Range
<1>2. ThreeParts(p, s, compare) /\ p.i = n
  BY Partition
<1>3. /\ a \in [1..n -> T] /\ l \in Nat /\ g \in Nat /\ Range(a) = T /\ l < g /\ g <= n
      /\ Below(a, 1, l, s[1], compare) /\ Equal(a, l + 1, g, s[1], compare)
      /\ Above(a, g + 1, n, s[1], compare)
  BY <1>1, <1>2 DEF ThreeParts
<1>4. a \in [1..n -> R]
  BY <1>1, <1>3
<1> HIDE DEF n, a, l, g, T
<1>5. x \in Seq(R) /\ Len(x) = l /\ Range(x) = {a[i] : i \in 1..l}
  <2>1. 1 \in 1..n + 1 /\ l \in 0..n /\ 1 <= l + 1 /\ l - 1 + 1 = l
    BY <1>1, <1>3
  <2>2. Within(a, n, R, 1, l)
    BY <1>1, <1>4, <2>1 DEF Within
  <2>3. IsSlice(x, a, R, 1, l)
    BY <2>2, Slice
  <2> HIDE DEF x
  <2> QED
    BY <2>1, <2>3 DEF IsSlice
<1>6. y \in Seq(R) /\ Len(y) = g - l /\ Range(y) = {a[i] : i \in l + 1..g}
  <2>1. l + 1 \in 1..n + 1 /\ g \in 0..n /\ l + 1 <= g + 1 /\ g - (l + 1) + 1 = g - l
    BY <1>1, <1>3
  <2>2. Within(a, n, R, l + 1, g)
    BY <1>1, <1>4, <2>1 DEF Within
  <2>3. IsSlice(y, a, R, l + 1, g)
    BY <2>2, Slice
  <2> HIDE DEF y
  <2> QED
    BY <2>1, <2>3 DEF IsSlice
<1>7. z \in Seq(R) /\ Len(z) = n - g /\ Range(z) = {a[i] : i \in g + 1..n}
  <2>1. g + 1 \in 1..n + 1 /\ n \in 0..n /\ g + 1 <= n + 1 /\ n - (g + 1) + 1 = n - g
    BY <1>1, <1>3
  <2>2. Within(a, n, R, g + 1, n)
    BY <1>1, <1>4, <2>1 DEF Within
  <2>3. IsSlice(z, a, R, g + 1, n)
    BY <2>2, Slice
  <2> HIDE DEF z
  <2> QED
    BY <2>1, <2>3 DEF IsSlice
<1> HIDE DEF x, y, z
<1>8. Range(x) \cup Range(y) \cup Range(z) = T
  <2>1. T = {a[i] : i \in 1..n}
    BY <1>3 DEF Range
  <2>2. 1..n = (1..l) \cup (l + 1..g) \cup (g + 1..n)
    BY <1>1, <1>3
  <2> QED
    BY <1>5, <1>6, <1>7, <2>1, <2>2
<1>9. \A e \in Range(x) : compare[e][s[1]] < 0
  BY <1>3, <1>5 DEF Below
<1>10. \A e \in Range(y) : compare[e][s[1]] = 0
  BY <1>3, <1>6 DEF Equal
<1>11. \A e \in Range(z) : compare[e][s[1]] > 0
  BY <1>3, <1>7 DEF Above
<1>12. Len(x) + Len(y) + Len(z) = n /\ Len(y) >= 1
  <2>1. Len(x) = l /\ Len(y) = g - l /\ Len(z) = n - g
    BY <1>5, <1>6, <1>7
  <2>2. l + (g - l) + (n - g) = n /\ g - l >= 1
    BY <1>1, <1>3
  <2> QED
    BY <2>1, <2>2, Zenon
<1>13. Cut(s, x, y, z, compare)
  BY <1>8, <1>9, <1>10, <1>11, <1>12 DEF Cut, n, T
<1> QED
  BY <1>5, <1>6, <1>7, <1>13 DEF x, y, z, a, l, g, n

\* The function that qsort is.
Sorting(w, R, compare) ==
    w = [s \in Seq(R) |->
            IF Len(s) <= INSERT_SORT_MAX THEN insert_sort(s, compare)
            ELSE LET p == partition(s, compare)
                 IN w[SubSeq(p.a, 1, p.l)] \o SubSeq(p.a, p.l + 1, p.g)
                       \o w[SubSeq(p.a, p.g + 1, Len(s))]]

\* qsort recurs on shorter arrays only, so it ends.
LEMMA SortingExists ==
    ASSUME NEW R, NEW compare, Ordered(R, compare), INSERT_SORT_MAX \in Nat \ {0}
    PROVE  \E w : Sorting(w, R, compare)
<1> DEFINE T == Seq(R)
           small == {s \in T : Len(s) <= INSERT_SORT_MAX}
           X(s) == SubSeq(partition(s, compare).a, 1, partition(s, compare).l)
           Y(s) == SubSeq(partition(s, compare).a, partition(s, compare).l + 1,
                          partition(s, compare).g)
           Z(s) == SubSeq(partition(s, compare).a, partition(s, compare).g + 1, Len(s))
           ins == [s \in T |-> IF s \in small THEN insert_sort(s, compare) ELSE s]
           lo == [s \in T |-> IF s \in small THEN s ELSE X(s)]
           mid == [s \in T |-> IF s \in small THEN s ELSE Y(s)]
           hi == [s \in T |-> IF s \in small THEN s ELSE Z(s)]
<1>1. ASSUME NEW s \in T \ small
      PROVE  /\ X(s) \in T /\ Y(s) \in T /\ Z(s) \in T
             /\ Len(X(s)) < Len(s) /\ Len(Z(s)) < Len(s)
  <2>1. Len(s) \in Nat /\ Len(s) >= 1
    OBVIOUS
  <2>2. X(s) \in T /\ Y(s) \in T /\ Z(s) \in T /\ Cut(s, X(s), Y(s), Z(s), compare)
    BY <2>1, Cuts
  <2> HIDE DEF X, Y, Z
  <2>3. Len(X(s)) \in Nat /\ Len(Y(s)) \in Nat /\ Len(Z(s)) \in Nat
    BY <2>2
  <2> QED
    BY <2>1, <2>2, <2>3 DEF Cut
<1>2. \A s \in small : insert_sort(s, compare) \in T
  BY InsertSort
<1> HIDE DEF X, Y, Z
<1>3. ins \in [T -> T] /\ lo \in [T -> T] /\ mid \in [T -> T] /\ hi \in [T -> T]
  BY <1>1, <1>2
<1>4. \A s \in T \ small : Len(lo[s]) < Len(s) /\ Len(hi[s]) < Len(s)
  BY <1>1
<1>5. Divided(R, T, small, ins, lo, mid, hi)
  <2> HIDE DEF ins, lo, mid, hi, small
  <2> QED
    BY <1>3, <1>4 DEF Divided
<1>6. Conquered(T, small, ins, lo, mid, hi)
  <2> HIDE DEF ins, lo, mid, hi, small, T
  <2> QED
    BY <1>5, DivideAndConquer
<1>7. PICK f \in [T -> T] : \A s \in T :
        f[s] = IF s \in small THEN ins[s] ELSE f[lo[s]] \o mid[s] \o f[hi[s]]
  <2> HIDE DEF ins, lo, mid, hi, small, T
  <2> QED
    BY <1>6 DEF Conquered
<1>8. \A s \in T : f[s] = IF Len(s) <= INSERT_SORT_MAX THEN insert_sort(s, compare)
                          ELSE f[X(s)] \o Y(s) \o f[Z(s)]
  <2> TAKE s \in T
  <2>1. CASE s \in small
    BY <1>7, <2>1
  <2>2. CASE s \notin small
    <3>1. lo[s] = X(s) /\ mid[s] = Y(s) /\ hi[s] = Z(s) /\ ~(Len(s) <= INSERT_SORT_MAX)
      BY <2>2
    <3> QED
      BY <1>7, <2>2, <3>1
  <2> QED
    BY <2>1, <2>2
<1>9. f = [s \in T |-> IF Len(s) <= INSERT_SORT_MAX THEN insert_sort(s, compare)
                       ELSE f[X(s)] \o Y(s) \o f[Z(s)]]
  <2> DEFINE g == [s \in T |-> IF Len(s) <= INSERT_SORT_MAX THEN insert_sort(s, compare)
                               ELSE f[X(s)] \o Y(s) \o f[Z(s)]]
  <2>1. \A s \in T : f[s] = g[s]
    BY <1>8
  <2>2. g = [s \in T |-> g[s]] /\ f = [s \in T |-> f[s]]
    OBVIOUS
  <2> HIDE DEF g, T
  <2>3. f = g
    BY <2>1, <2>2
  <2> QED
    BY <2>3 DEF g
<1>10. Sorting(f, R, compare)
  BY <1>9, Zenon DEF Sorting, X, Y, Z, T
<1> QED
  BY <1>10

\* qsort returns the elements it was given, in the order of compare, for arrays
\* of every length: short ones, ones with equal elements, and ones that are
\* partitioned any number of times.
THEOREM QSortSorts ==
    ASSUME NEW R, NEW compare, Ordered(R, compare), INSERT_SORT_MAX \in Nat \ {0},
           NEW base \in Seq(R)
    PROVE  /\ Sorted(qsort(base, compare), compare) /\ Same(qsort(base, compare), base)
           /\ qsort(base, compare) \in Seq(Range(base))
<1> DEFINE T == Range(base)
           w == CHOOSE f : Sorting(f, T, compare)
<1>1. T \subseteq R /\ base \in Seq(T)
  BY DEF Range
<1>2. Ordered(T, compare)
  BY <1>1 DEF Ordered
<1> HIDE DEF T
<1>3. Sorting(w, T, compare)
  BY <1>2, SortingExists
<1>4. qsort(base, compare) = w[base]
  BY Zenon DEF qsort, Sorting, T
<1> HIDE DEF w
<1> DEFINE Right(s) == w[s] \in Seq(T) /\ Sorted(w[s], compare) /\ Same(w[s], s)
           S == {m \in Nat : \A s \in Seq(T) : Len(s) < m => Right(s)}
<1>5. 0 \in S
  <2>1. \A s \in Seq(T) : Len(s) \in Nat
    OBVIOUS
  <2> QED
    BY <2>1
<1>6. ASSUME NEW m \in Nat, m \in S PROVE m + 1 \in S
  <2> SUFFICES ASSUME NEW s \in Seq(T), Len(s) < m + 1 PROVE Right(s)
    OBVIOUS
  <2>1. Len(s) \in Nat
    OBVIOUS
  <2>2. CASE Len(s) <= INSERT_SORT_MAX
    <3>1. w[s] = insert_sort(s, compare)
      BY <1>3, <2>2 DEF Sorting
    <3> QED
      BY <1>2, <3>1, InsertSort
  <2>3. CASE ~(Len(s) <= INSERT_SORT_MAX)
    <3> DEFINE p == partition(s, compare)
               x == SubSeq(p.a, 1, p.l)
               y == SubSeq(p.a, p.l + 1, p.g)
               z == SubSeq(p.a, p.g + 1, Len(s))
               u == w[x]
               v == w[z]
               e == s[1]
    <3>1. w[s] = u \o y \o v
      BY <1>3, <2>3 DEF Sorting
    <3>2. Len(s) >= 1
      BY <2>1, <2>3
    <3>3. x \in Seq(T) /\ y \in Seq(T) /\ z \in Seq(T) /\ Cut(s, x, y, z, compare)
      BY <1>2, <3>2, Cuts
    <3> HIDE DEF x, y, z
    <3>4. Len(x) \in Nat /\ Len(y) \in Nat /\ Len(z) \in Nat
      BY <3>3
    <3>5. Len(x) < m /\ Len(z) < m
      BY <2>1, <3>3, <3>4 DEF Cut
    <3>6. Right(x) /\ Right(z)
      BY <1>6, <3>3, <3>5
    <3>7. /\ u \in Seq(T) /\ Sorted(u, compare) /\ Len(u) = Len(x) /\ Range(u) = Range(x)
          /\ v \in Seq(T) /\ Sorted(v, compare) /\ Len(v) = Len(z) /\ Range(v) = Range(z)
      BY <3>6 DEF Same
    <3> HIDE DEF u, v
    <3>8. e \in T
      BY <2>1, <3>2
    <3>9. /\ \A d \in Range(u) : d \in T /\ compare[d][e] <= 0
          /\ \A d \in Range(y) : d \in T /\ compare[d][e] <= 0 /\ compare[e][d] <= 0
          /\ \A d \in Range(v) : d \in T /\ compare[e][d] <= 0
      <4>1. Range(u) \subseteq T /\ Range(y) \subseteq T /\ Range(v) \subseteq T
        BY <3>3, <3>7 DEF Range
      <4>2. \A d \in T : compare[d][e] \in Int /\ (compare[d][e] >= 0 <=> compare[e][d] <= 0)
        BY <1>2, <3>8 DEF Ordered
      <4>3. /\ \A d \in Range(u) : compare[d][e] < 0
            /\ \A d \in Range(y) : compare[d][e] = 0
            /\ \A d \in Range(v) : compare[d][e] > 0
        BY <3>3, <3>7 DEF Cut
      <4> HIDE DEF e
      <4> QED
        BY <4>1, <4>2, <4>3
    <3> HIDE DEF e
    <3>10. \A c, d \in T : compare[c][e] <= 0 /\ compare[e][d] <= 0 => compare[c][d] <= 0
      BY <1>2, <3>8 DEF Ordered
    <3>11. Sorted(y, compare)
      <4>1. \A i \in 1..Len(y) : y[i] \in Range(y)
        BY <3>3 DEF Range
      <4> QED
        BY <3>9, <3>10, <4>1 DEF Sorted
    <3> DEFINE r == u \o y
    <3>12. \A c \in Range(u) : \A d \in Range(y) : compare[c][d] <= 0
      BY <3>9, <3>10
    <3>13. Joined(T, u, y, r, compare)
      <4>1. InOrder(T, u, y, compare)
        BY <3>3, <3>7, <3>11, <3>12 DEF InOrder
      <4> QED
        BY <4>1, Join
    <3> HIDE DEF r
    <3>14. \A c \in Range(r) : \A d \in Range(v) : compare[c][d] <= 0
      BY <3>9, <3>10, <3>13 DEF Joined
    <3>15. Joined(T, r, v, r \o v, compare)
      <4>1. InOrder(T, r, v, compare)
        BY <3>7, <3>13, <3>14 DEF InOrder, Joined
      <4> QED
        BY <4>1, Join
    <3>16. w[s] = r \o v
      BY <3>1 DEF r
    <3>17. Len(w[s]) = Len(s) /\ Range(w[s]) = Range(s)
      <4>1. Len(x) + Len(y) + Len(z) = Len(s) /\ Range(x) \cup Range(y) \cup Range(z) = Range(s)
        BY <3>3 DEF Cut
      <4> QED
        BY <3>7, <3>13, <3>15, <3>16, <4>1, Zenon DEF Joined
    <3> QED
      BY <3>15, <3>16, <3>17 DEF Same, Joined
  <2> QED
    BY <2>2, <2>3
<1> HIDE DEF S
<1>7. Nat \subseteq S
  BY <1>5, <1>6, Induction
<1>8. Right(base)
  <2>1. Len(base) + 1 \in S /\ Len(base) < Len(base) + 1
    BY <1>1, <1>7
  <2> QED
    BY <1>1, <2>1 DEF S
<1> QED
  BY <1>4, <1>8 DEF T

-----------------------------------------------------------------------------
(* Blocks: aligned runs of 2^o pages.                                      *)

Aligned(p, o) == p % 2^o = 0

\* The block next to b that get_buddy means, whether it exists or not.
BuddyOf(b, o) == IF b % 2^(o + 1) = 0 THEN b + 2^o ELSE b - 2^o

\* A block has a page.
LEMMA PowPos ==
    ASSUME NEW n \in Nat
    PROVE  2^n \in Nat /\ 2^n >= 1
<1> DEFINE S == {k \in Nat : 2^k >= 1}
<1>1. 0 \in S
  <2>1. 2^0 = 1
    BY FS_SUBSET, FS_EmptySet, FS_Singleton DEF Cardinality
  <2> QED
    BY <2>1
<1>2. \A k \in Nat : k \in S => k + 1 \in S
  <2> TAKE k \in Nat
  <2>1. 2^(k + 1) = 2^k + 2^k /\ 2^k \in Nat
    BY PowDouble, PowNat
  <2> QED
    BY <2>1
<1>3. Nat \subseteq S
  <2> HIDE DEF S
  <2> QED
    BY <1>1, <1>2, Induction
<1> QED
  BY <1>3, PowNat

\* A larger block is made of whole smaller ones.
LEMMA PowDivides ==
    ASSUME NEW i \in Nat, NEW j \in Nat, i <= j
    PROVE  \E k \in Nat : k >= 1 /\ 2^j = k * 2^i
<1> DEFINE S == {n \in Nat : \E k \in Nat : k >= 1 /\ 2^(i + n) = k * 2^i}
<1>1. 0 \in S
  <2>1. 2^(i + 0) = 1 * 2^i
    <3>1. i + 0 = i
      OBVIOUS
    <3>2. 2^i \in Nat
      BY PowNat
    <3>3. 1 * 2^i = 2^i
      BY <3>2
    <3> QED
      BY <3>1, <3>3, Zenon
  <2> QED
    BY <2>1
<1>2. ASSUME NEW n \in Nat, n \in S PROVE n + 1 \in S
  <2>1. PICK k \in Nat : k >= 1 /\ 2^(i + n) = k * 2^i
    BY <1>2
  <2>2. 2^((i + n) + 1) = 2^(i + n) + 2^(i + n) /\ 2^i \in Nat
    BY PowDouble, PowNat
  <2>3. (i + n) + 1 = i + (n + 1)
    OBVIOUS
  <2>4. 2^(i + (n + 1)) = k * 2^i + k * 2^i
    BY <2>1, <2>2, <2>3, Zenon
  <2>5. k * 2^i + k * 2^i = (k + k) * 2^i
    BY <2>2
  <2>6. k + k \in Nat /\ k + k >= 1
    BY <2>1
  <2>7. 2^(i + (n + 1)) = (k + k) * 2^i
    BY <2>4, <2>5, Zenon
  <2>8. n + 1 \in Nat
    OBVIOUS
  <2> QED
    BY <2>6, <2>7, <2>8, Zenon
<1>3. Nat \subseteq S
  <2> HIDE DEF S
  <2> QED
    BY <1>1, <1>2, Induction
<1>4. j - i \in Nat /\ i + (j - i) = j
  OBVIOUS
<1>5. j - i \in S
  BY <1>3, <1>4
<1> QED
  BY <1>4, <1>5

\* The multiples of x.
LEMMA ModZero ==
    ASSUME NEW a \in Nat, NEW x \in Nat, x >= 1
    PROVE  /\ a % x = 0 => \E k \in Nat : a = k * x
           /\ \A k \in Nat : a = k * x => a % x = 0
<1>1. a = (a \div x) * x + (a % x) /\ a \div x \in Nat /\ a % x \in 0..x - 1
  OBVIOUS
<1>2. ASSUME a % x = 0 PROVE \E k \in Nat : a = k * x
  <2>1. a = (a \div x) * x
    BY <1>1, <1>2
  <2> QED
    BY <1>1, <2>1, Zenon
<1>3. ASSUME NEW k \in Nat, a = k * x PROVE a % x = 0
  BY <1>3
<1> QED
  BY <1>2, <1>3

\* A block of a large order starts where one of a small order may.
LEMMA AlignedDown ==
    ASSUME NEW a \in Nat, NEW i \in Nat, NEW j \in Nat, i <= j, Aligned(a, j)
    PROVE  Aligned(a, i)
<1>1. PICK k \in Nat : k >= 1 /\ 2^j = k * 2^i
  BY PowDivides
<1>2. 2^i \in Nat /\ 2^i >= 1 /\ 2^j \in Nat /\ 2^j >= 1
  BY PowPos
<1>3. PICK u \in Nat : a = u * 2^j
  BY <1>2, ModZero DEF Aligned
<1>4. u * (k * 2^i) = (u * k) * 2^i /\ u * k \in Nat
  BY <1>2
<1>5. a = (u * k) * 2^i
  BY <1>1, <1>3, <1>4, Zenon
<1> QED
  BY <1>2, <1>4, <1>5, ModZero DEF Aligned

\* Blocks of two orders lie one in the other or apart.
LEMMA Nested ==
    ASSUME NEW a \in Nat, NEW i \in Nat, NEW b \in Nat, NEW j \in Nat, i <= j,
           Aligned(a, i), Aligned(b, j), Block(a, i) \cap Block(b, j) # {}
    PROVE  Block(a, i) \subseteq Block(b, j)
<1>1. PICK k \in Nat : k >= 1 /\ 2^j = k * 2^i
  BY PowDivides
<1> DEFINE x == 2^i
           y == 2^j
<1>2. x \in Nat /\ x >= 1 /\ y \in Nat /\ y >= 1
  BY PowPos
<1>3. PICK u \in Nat : a = u * x
  BY <1>2, ModZero DEF Aligned
<1>4. PICK v \in Nat : b = v * y
  BY <1>2, ModZero DEF Aligned
<1>5. PICK p \in Int : p >= a /\ p < a + x /\ p >= b /\ p < b + y
  BY <1>2 DEF Block
<1>6. y = k * x
  BY <1>1
<1> HIDE DEF x, y
<1>7. b = (v * k) * x /\ b + y = (v * k + k) * x /\ a + x = (u + 1) * x
  BY <1>2, <1>3, <1>4, <1>6
<1>8. (v * k) * x < (u + 1) * x /\ u * x < (v * k + k) * x
  BY <1>2, <1>3, <1>4, <1>5, <1>7
<1>9. v * k < u + 1 /\ u < v * k + k /\ v * k \in Nat
  BY <1>2, <1>8
<1>10. v * k <= u /\ u + 1 <= v * k + k
  BY <1>9
<1>11. (v * k) * x <= u * x /\ (u + 1) * x <= (v * k + k) * x
  BY <1>2, <1>9, <1>10
<1>12. b <= a /\ a + x <= b + y
  BY <1>3, <1>7, <1>11
<1> QED
  BY <1>2, <1>12 DEF Block, x, y

\* Inside a block no other block of its order starts.
LEMMA InsideNotAligned ==
    ASSUME NEW q \in Nat, NEW o \in Nat, Aligned(q, o), NEW d \in Block(q, o), Aligned(d, o)
    PROVE  d = q
<1>1. 2^o \in Nat /\ 2^o >= 1
  BY PowPos
<1>2. d \in Nat /\ d \in Block(d, o)
  BY <1>1 DEF Block
<1>3. Block(d, o) \subseteq Block(q, o)
  BY <1>2, Nested
<1>4. d >= q /\ d + 2^o - 1 <= q + 2^o - 1
  BY <1>1, <1>2, <1>3 DEF Block
<1> QED
  BY <1>1, <1>2, <1>4

\* Where a page's block of order o starts.
LEMMA MergedFacts ==
    ASSUME NEW p \in Nat, NEW o \in Nat
    PROVE  /\ merged(p, o) \in Nat
           /\ Aligned(merged(p, o), o)
           /\ p \in Block(merged(p, o), o)
           /\ merged(p, o) <= p
<1> DEFINE x == 2^o
<1>1. x \in Nat /\ x >= 1
  BY PowPos
<1>2. p \div x \in Nat /\ (p \div x) * x <= p /\ p < (p \div x) * x + x
  <2> HIDE DEF x
  <2> QED
    BY <1>1
<1>3. (p \div x) * x \in Nat
  <2> HIDE DEF x
  <2> QED
    BY <1>1, <1>2
<1>4. Aligned(merged(p, o), o)
  <2>1. ((p \div x) * x) % x = 0
    <3> HIDE DEF x
    <3> QED
      BY <1>1, <1>2, <1>3, ModZero
  <2> QED
    BY <2>1 DEF Aligned, merged
<1> QED
  BY <1>1, <1>2, <1>3, <1>4 DEF merged, Block

\* There is only one such place.
LEMMA MergedUnique ==
    ASSUME NEW q \in Nat, NEW o \in Nat, Aligned(q, o), NEW p \in Block(q, o)
    PROVE  q = merged(p, o)
<1>1. p \in Nat
  BY PowPos DEF Block
<1>2. merged(p, o) \in Nat /\ Aligned(merged(p, o), o) /\ p \in Block(merged(p, o), o)
  BY <1>1, MergedFacts
<1>3. Block(q, o) \cap Block(merged(p, o), o) # {}
  BY <1>2
<1>4. Block(q, o) \subseteq Block(merged(p, o), o)
  BY <1>2, <1>3, Nested
<1>5. q \in Block(q, o)
  BY PowPos DEF Block
<1> QED
  BY <1>2, <1>4, <1>5, InsideNotAligned
\* A block and its buddy are the two halves of a block of the next order.
LEMMA BuddyFacts ==
    ASSUME NEW b \in Nat, NEW o \in Nat, Aligned(b, o)
    PROVE  LET d == BuddyOf(b, o)
               q == merged(b, o + 1)
           IN  /\ d \in Nat /\ Aligned(d, o) /\ d # b
               /\ BuddyOf(d, o) = b
               /\ Block(b, o) \cap Block(d, o) = {}
               /\ Block(b, o) \cup Block(d, o) = Block(q, o + 1)
               /\ merged(d, o + 1) = q
               /\ q \in {b, d}
<1> DEFINE x == 2^o
           d == BuddyOf(b, o)
           q == merged(b, o + 1)
<1>1. x \in Nat /\ x >= 1 /\ 2^(o + 1) = x + x
  BY PowPos, PowDouble
<1>2. PICK u \in Nat : b = u * x
  BY <1>1, ModZero DEF Aligned
<1>3. (x + x) \in Nat /\ x + x >= 1
  BY <1>1
<1>4. CASE b % 2^(o + 1) = 0
  <2>1. d = b + x
    BY <1>4 DEF BuddyOf
  <2>2. b % (x + x) = 0
    BY <1>1, <1>4
  <2>3. PICK v \in Nat : b = v * (x + x)
    BY <1>3, <2>2, ModZero
  <2>4. d = (u + 1) * x /\ u + 1 \in Nat /\ d \in Nat
    <3> HIDE DEF x, d
    <3> QED
      BY <1>1, <1>2, <2>1
  <2>5. Aligned(d, o)
    <3>1. d % x = 0
      <4> HIDE DEF x, d
      <4> QED
        BY <1>1, <2>4, ModZero
    <3> QED
      BY <3>1 DEF Aligned
  <2>6. d % (x + x) # 0
    <3> HIDE DEF x, d
    <3> SUFFICES ASSUME NEW w \in Nat, d = w * (x + x) PROVE FALSE
      BY <1>3, <2>4, ModZero
    <3>1. w * (x + x) = v * (x + x) + x
      BY <2>1, <2>3
    <3>2. (2 * w) * x = (2 * v + 1) * x
      BY <1>1, <3>1
    <3>3. 2 * w = 2 * v + 1
      BY <1>1, <3>2
    <3> QED
      BY <3>3
  <2>7. BuddyOf(d, o) = b
    <3>1. d % 2^(o + 1) # 0
      BY <1>1, <2>6
    <3>2. BuddyOf(d, o) = d - x
      BY <3>1 DEF BuddyOf
    <3> QED
      BY <1>1, <2>1, <3>2
  <2>8. q = b /\ merged(d, o + 1) = b
    <3>1. Aligned(b, o + 1) /\ o + 1 \in Nat
      BY <1>4 DEF Aligned
    <3>2. b \in Block(b, o + 1) /\ d \in Block(b, o + 1)
      BY <1>1, <2>1 DEF Block
    <3> QED
      BY <3>1, <3>2, MergedUnique
  <2>9. Block(b, o) \cup Block(d, o) = Block(b, o + 1) /\ Block(b, o) \cap Block(d, o) = {}
    BY <1>1, <2>1 DEF Block
  <2> QED
    BY <1>1, <2>1, <2>4, <2>5, <2>7, <2>8, <2>9
<1>5. CASE b % 2^(o + 1) # 0
  <2>1. d = b - x
    BY <1>5 DEF BuddyOf
  <2>2. b % (x + x) # 0
    BY <1>1, <1>5
  <2>3. ASSUME NEW v \in Nat, u = 2 * v PROVE FALSE
    <3> HIDE DEF x
    <3>1. b = v * (x + x)
      BY <1>1, <1>2, <2>3
    <3> QED
      BY <1>3, <2>2, <3>1, ModZero
  <2>4. PICK v \in Nat : u = 2 * v + 1
    <3>1. u \div 2 \in Nat /\ (u = 2 * (u \div 2) \/ u = 2 * (u \div 2) + 1)
      OBVIOUS
    <3> QED
      BY <2>3, <3>1
  <2>5. d = v * (x + x) /\ d = (2 * v) * x /\ d \in Nat /\ 2 * v \in Nat
    <3> HIDE DEF x, d
    <3> QED
      BY <1>1, <1>2, <2>1, <2>4
  <2>6. d % x = 0 /\ d % (x + x) = 0
    <3> HIDE DEF x, d
    <3> QED
      BY <1>1, <1>3, <2>5, ModZero
  <2>7. Aligned(d, o) /\ Aligned(d, o + 1)
    BY <1>1, <2>6 DEF Aligned
  <2>8. BuddyOf(d, o) = b
    <3>1. BuddyOf(d, o) = d + x
      BY <2>7 DEF BuddyOf, Aligned
    <3> QED
      BY <1>1, <2>1, <3>1
  <2>9. q = d /\ merged(d, o + 1) = d
    <3>1. b \in Block(d, o + 1) /\ d \in Block(d, o + 1)
      BY <1>1, <2>1, <2>5 DEF Block
    <3>2. o + 1 \in Nat
      OBVIOUS
    <3> QED
      BY <2>5, <2>7, <3>1, <3>2, MergedUnique
  <2>10. Block(b, o) \cup Block(d, o) = Block(d, o + 1) /\ Block(b, o) \cap Block(d, o) = {}
    BY <1>1, <2>1, <2>5 DEF Block
  <2> QED
    BY <1>1, <2>1, <2>5, <2>7, <2>8, <2>9, <2>10
<1> QED
  BY <1>4, <1>5
\* A block of order j around page p grows to the one of order j + 1.
LEMMA MergedUp ==
    ASSUME NEW p \in Nat, NEW j \in Nat
    PROVE  merged(merged(p, j), j + 1) = merged(p, j + 1)
<1> DEFINE b == merged(p, j)
           q == merged(p, j + 1)
<1>1. b \in Nat /\ Aligned(b, j) /\ p \in Block(b, j)
  BY MergedFacts
<1>2. j + 1 \in Nat
  OBVIOUS
<1>3. q \in Nat /\ Aligned(q, j + 1) /\ p \in Block(q, j + 1)
  BY <1>2, MergedFacts
<1>4. Block(b, j) \subseteq Block(q, j + 1)
  <2> HIDE DEF b, q
  <2>1. Block(b, j) \cap Block(q, j + 1) # {} /\ j <= j + 1
    BY <1>1, <1>3
  <2> QED
    BY <1>1, <1>2, <1>3, <2>1, Nested
<1>5. b \in Block(b, j)
  BY <1>1, PowPos DEF Block
<1> HIDE DEF b, q
<1>6. q = merged(b, j + 1)
  BY <1>2, <1>3, <1>4, <1>5, MergedUnique
<1> QED
  BY <1>6 DEF b, q

\* The buddy that the loop of pmm_free_pages looks at in round j.
BuddyAt(p, j) == BuddyOf(merged(p, j), j)

\* What merging through the orders below m puts together.
LEMMA MergedChain ==
    ASSUME NEW p \in Nat, NEW o \in Nat, Aligned(p, o), NEW m \in Nat, o <= m
    PROVE  Block(merged(p, m), m)
             = Block(p, o) \cup UNION {Block(BuddyAt(p, j), j) : j \in o..m - 1}
<1> DEFINE Parts(k) == UNION {Block(BuddyAt(p, j), j) : j \in o..o + k - 1}
           S == {k \in Nat : Block(merged(p, o + k), o + k) = Block(p, o) \cup Parts(k)}
<1>1. merged(p, o) = p
  <2>1. p \in Block(p, o)
    BY PowPos DEF Block
  <2> QED
    BY <2>1, MergedUnique
<1>2. 0 \in S
  <2>1. Parts(0) = {} /\ o + 0 = o
    OBVIOUS
  <2> QED
    BY <1>1, <2>1
<1>3. ASSUME NEW k \in Nat, k \in S PROVE k + 1 \in S
  <2> DEFINE i == o + k
             b == merged(p, i)
             d == BuddyOf(b, i)
  <2>1. i \in Nat /\ o + (k + 1) = i + 1 /\ i + 1 - 1 = i
    OBVIOUS
  <2>2. b \in Nat /\ Aligned(b, i)
    BY <2>1, MergedFacts
  <2>3. Block(b, i) \cup Block(d, i) = Block(merged(b, i + 1), i + 1)
    <3> HIDE DEF i, b
    <3> QED
      BY <2>1, <2>2, BuddyFacts
  <2>4. merged(b, i + 1) = merged(p, i + 1)
    BY <2>1, MergedUp
  <2>5. Parts(k + 1) = Parts(k) \cup Block(d, i)
    <3>1. o..o + (k + 1) - 1 = (o..o + k - 1) \cup {i}
      OBVIOUS
    <3>2. Block(d, i) = Block(BuddyAt(p, i), i)
      BY DEF BuddyAt
    <3> HIDE DEF i, b, d
    <3> QED
      BY <3>1, <3>2
  <2>6. Block(b, i) = Block(p, o) \cup Parts(k)
    BY <1>3
  <2>7. Block(merged(p, i + 1), i + 1) = Block(p, o) \cup Parts(k + 1)
    <3> HIDE DEF Parts, i, b, d
    <3> QED
      BY <2>3, <2>4, <2>5, <2>6
  <2>8. k + 1 \in Nat
    OBVIOUS
  <2> HIDE DEF Parts, i, b, d
  <2> QED
    BY <2>1, <2>7, <2>8
<1>4. Nat \subseteq S
  <2> HIDE DEF S
  <2> QED
    BY <1>2, <1>3, Induction
<1>5. m - o \in Nat /\ o + (m - o) = m
  OBVIOUS
<1>6. m - o \in S
  BY <1>4, <1>5
<1> QED
  BY <1>5, <1>6

-----------------------------------------------------------------------------
(* The heap: the invariant of the lists and the headers, as a predicate on *)
(* the free blocks F, the blocks O that callers have, the flags fl and the *)
(* orders od in the headers of n pages.                                    *)

AreBlocks(B, n) ==
    \A c \in B : /\ c[1] \in Nat /\ c[2] \in Orders /\ c = <<c[1], c[2]>>
                 /\ Aligned(c[1], c[2]) /\ Block(c[1], c[2]) \subseteq 1..n - 1

Apart(B) == \A b, c \in B : b # c => Block(b[1], b[2]) \cap Block(c[1], c[2]) = {}

\* The header of the first page tells what a block is.
HeadersTell(F, O, fl, od) ==
    /\ \A c \in F : fl[c[1]] = {} /\ od[c[1]] = c[2]
    /\ \A c \in O : fl[c[1]] # {} /\ od[c[1]] = c[2]

\* A header that says "free", stale or not, is where a block of its order could
\* start and lies in a block.
StaleHeaders(B, fl, od, n) ==
    \A p \in 0..n - 1 :
        fl[p] = {} => Aligned(p, od[p]) /\ \E c \in B : p \in Block(c[1], c[2])

\* No block of F has its buddy in F.
NoBuddies(F) ==
    \A c \in F : c[2] + 1 < BUDDY_MAX_ORDER => <<BuddyOf(c[1], c[2]), c[2]>> \notin F

Heap(F, O, fl, od, n) ==
    /\ AreBlocks(F \cup O, n) /\ Apart(F \cup O)
    /\ fl \in [0..n - 1 -> SUBSET {USED, LOCK}] /\ od \in [0..n - 1 -> Orders]
    /\ HeadersTell(F, O, fl, od)
    /\ StaleHeaders(F \cup O, fl, od, n)
    /\ NoBuddies(F)

\* Block e can be added to the blocks of F and O without touching them.
Room(F, O, p, o, n) ==
    /\ p \in Nat /\ o \in Orders /\ Aligned(p, o) /\ Block(p, o) \subseteq 1..n - 1
    /\ \A c \in F \cup O : Block(c[1], c[2]) \cap Block(p, o) = {}

\* The test of pmm_free_pages is exact although headers may be stale: a buddy
\* whose header says "free, of this order" is a free block of this order.
LEMMA BuddyTest ==
    ASSUME NEW F, NEW O, NEW fl, NEW od, NEW n \in Nat, Heap(F, O, fl, od, n),
           NEW p, NEW o, Room(F, O \ {<<p, o>>}, p, o, n),
           NEW j \in Orders, o <= j, NEW d, d = BuddyAt(p, j), d \in 0..n - 1,
           fl[d] = {}, od[d] = j
    PROVE  <<d, j>> \in F
<1> USE OrderAssumption
<1>1. p \in Nat /\ o \in Nat /\ Aligned(p, o) /\ j \in Nat /\ d \in Nat
  BY DEF Room, Orders
<1> DEFINE b == merged(p, j)
<1>2. b \in Nat /\ Aligned(b, j) /\ p \in Block(b, j)
  BY <1>1, MergedFacts
<1>3. /\ Aligned(d, j) /\ BuddyOf(d, j) = b
      /\ Block(b, j) \cap Block(d, j) = {}
      /\ Block(b, j) \cup Block(d, j) = Block(merged(d, j + 1), j + 1)
  <2>1. d = BuddyOf(b, j)
    BY DEF BuddyAt
  <2> HIDE DEF b
  <2> QED
    BY <1>1, <1>2, <2>1, BuddyFacts
<1>4. d \in Block(d, j)
  BY <1>1, PowPos DEF Block
<1>5. PICK c \in F \cup O : d \in Block(c[1], c[2])
  BY DEF Heap, StaleHeaders
<1>6. c[1] \in Nat /\ c[2] \in Nat /\ c = <<c[1], c[2]>> /\ Aligned(c[1], c[2])
  BY <1>5 DEF Heap, AreBlocks, Orders
<1>7. p \in Block(p, o)
  BY <1>1, PowPos DEF Block
<1>8. c # <<p, o>>
  <2> SUFFICES ASSUME c = <<p, o>> PROVE FALSE
    OBVIOUS
  <2>1. d \in Block(p, o)
    BY <1>5
  <2>2. Block(p, o) \subseteq Block(b, j)
    <3> HIDE DEF b
    <3> QED
      BY <1>1, <1>2, <1>7, Nested
  <2> QED
    BY <1>3, <1>4, <2>1, <2>2
<1>9. p \notin Block(c[1], c[2])
  BY <1>5, <1>7, <1>8 DEF Room
<1>10. c[1] = d
  <2> SUFFICES ASSUME c[1] # d PROVE FALSE
    OBVIOUS
  <2>1. ~Aligned(d, c[2])
    BY <1>1, <1>5, <1>6, InsideNotAligned
  <2>2. ~(c[2] <= j)
    BY <1>1, <1>3, <1>6, <2>1, AlignedDown
  <2>3. j + 1 <= c[2] /\ j + 1 \in Nat
    BY <1>1, <1>6, <2>2
  <2>4. /\ merged(d, j + 1) \in Nat /\ Aligned(merged(d, j + 1), j + 1)
        /\ d \in Block(merged(d, j + 1), j + 1)
    BY <1>1, <2>3, MergedFacts
  <2>5. Block(merged(d, j + 1), j + 1) \subseteq Block(c[1], c[2])
    BY <1>5, <1>6, <2>3, <2>4, Nested
  <2> QED
    BY <1>2, <1>3, <1>9, <2>5
<1>11. c \in F /\ c[2] = j
  BY <1>5, <1>10 DEF Heap, HeadersTell
<1> QED
  BY <1>6, <1>10, <1>11
Merged(p, o, m) == {<<BuddyAt(p, j), j>> : j \in o..m - 1}

\* pmm_free_pages gives block p of order o back: the buddies of the orders below
\* m are free, and G, gl and gd are the lists and headers after merging them.
Freeing(F, O, fl, od, n, p, o, m, b, G, gl, gd) ==
    /\ Heap(F, O, fl, od, n) /\ n \in Nat
    /\ Room(F, O \ {<<p, o>>}, p, o, n) /\ od[p] = o
    /\ m \in Orders /\ o <= m
    /\ \A j \in o..m - 1 : <<BuddyAt(p, j), j>> \in F
    /\ m + 1 < BUDDY_MAX_ORDER => <<BuddyAt(p, m), m>> \notin F
    /\ b = merged(p, m) /\ G = (F \ Merged(p, o, m)) \cup {<<b, m>>}
    /\ gl = [fl EXCEPT ![p] = {}, ![b] = {}] /\ gd = [od EXCEPT ![b] = m]

\* Taking the free buddies off their lists and putting the merged block on its
\* own keeps the heap, and frees the pages given back.
LEMMA FreeHeap ==
    ASSUME NEW F, NEW O, NEW fl, NEW od, NEW n, NEW p, NEW o, NEW m, NEW b, NEW G,
           NEW gl, NEW gd, Freeing(F, O, fl, od, n, p, o, m, b, G, gl, gd)
    PROVE  /\ Heap(G, O \ {<<p, o>>}, gl, gd, n)
           /\ PagesOf(G) = PagesOf(F) \cup Block(p, o)
<1>0. /\ Heap(F, O, fl, od, n) /\ n \in Nat
      /\ Room(F, O \ {<<p, o>>}, p, o, n) /\ od[p] = o
      /\ m \in Orders /\ o <= m
      /\ \A j \in o..m - 1 : <<BuddyAt(p, j), j>> \in F
      /\ m + 1 < BUDDY_MAX_ORDER => <<BuddyAt(p, m), m>> \notin F
      /\ b = merged(p, m) /\ G = (F \ Merged(p, o, m)) \cup {<<b, m>>}
      /\ gl = [fl EXCEPT ![p] = {}, ![b] = {}] /\ gd = [od EXCEPT ![b] = m]
  BY Zenon DEF Freeing
<1> USE <1>0
<1> USE OrderAssumption
<1> DEFINE T == Merged(p, o, m)
           e == <<b, m>>
           P == O \ {<<p, o>>}
<1>1. /\ p \in Nat /\ o \in Nat /\ o \in Orders /\ Aligned(p, o)
      /\ m \in Nat /\ Block(p, o) \subseteq 1..n - 1 /\ p \in Block(p, o)
  BY PowPos DEF Room, Orders, Block
<1>2. b \in Nat /\ Aligned(b, m) /\ b \in Block(b, m)
  <2>1. b \in Nat /\ Aligned(b, m)
    BY <1>1, MergedFacts
  <2>2. 2^m \in Nat /\ 2^m >= 1
    BY <1>1, PowPos
  <2> QED
    BY <2>1, <2>2 DEF Block
<1>3. Block(b, m) = Block(p, o) \cup PagesOf(T)
  <2>1. Block(b, m) = Block(p, o) \cup UNION {Block(BuddyAt(p, j), j) : j \in o..m - 1}
    BY <1>1, MergedChain
  <2>2. PagesOf(T) = UNION {Block(BuddyAt(p, j), j) : j \in o..m - 1}
    <3> DEFINE J == o..m - 1
               f(j) == BuddyAt(p, j)
    <3>1. T = {<<f(j), j>> : j \in J}
      BY DEF Merged
    <3> HIDE DEF T, J, f
    <3>2. {Block(t[1], t[2]) : t \in T} = {Block(f(j), j) : j \in J}
      <4>1. ASSUME NEW t \in T PROVE \E j \in J : Block(t[1], t[2]) = Block(f(j), j)
        BY <3>1
      <4>2. ASSUME NEW j \in J PROVE \E t \in T : Block(t[1], t[2]) = Block(f(j), j)
        <5>1. <<f(j), j>> \in T /\ <<f(j), j>>[1] = f(j) /\ <<f(j), j>>[2] = j
          BY <3>1
        <5> QED
          BY <5>1, Zenon
      <4> QED
        BY <4>1, <4>2
    <3> USE DEF J, f
    <3> QED
      BY <3>2, Zenon DEF PagesOf
  <2> QED
    BY <2>1, <2>2, Zenon
<1>4. T \subseteq F
  BY DEF Merged
<1>21. G = (F \ T) \cup {e}
  OBVIOUS
<1> HIDE DEF T
<1> USE <1>21
<1>5. \A c \in F : fl[c[1]] = {} /\ od[c[1]] = c[2]
  BY DEF Heap, HeadersTell
<1>6. \A c \in O : fl[c[1]] # {} /\ od[c[1]] = c[2]
  BY DEF Heap, HeadersTell
<1>7. \A c \in F \cup O : /\ c[1] \in Nat /\ c[2] \in Orders /\ c = <<c[1], c[2]>>
                          /\ Aligned(c[1], c[2]) /\ Block(c[1], c[2]) \subseteq 1..n - 1
  BY DEF Heap, AreBlocks
<1>8. \A c \in F \cup O : c[1] \in Block(c[1], c[2])
  BY <1>7, PowPos DEF Block, Orders
<1>9. Block(b, m) \subseteq 1..n - 1
  BY <1>1, <1>3, <1>4, <1>7 DEF PagesOf
<1>10. \A c \in (F \ T) \cup P : Block(c[1], c[2]) \cap Block(b, m) = {}
  <2> SUFFICES ASSUME NEW c \in (F \ T) \cup P
               PROVE  /\ Block(c[1], c[2]) \cap Block(p, o) = {}
                      /\ \A t \in T : Block(c[1], c[2]) \cap Block(t[1], t[2]) = {}
    BY <1>3 DEF PagesOf
  <2>1. Block(c[1], c[2]) \cap Block(p, o) = {}
    BY DEF Room
  <2>2. \A t \in T : c # t
    BY <1>4, <1>5, <1>6
  <2>3. \A t \in T : Block(c[1], c[2]) \cap Block(t[1], t[2]) = {}
    BY <1>4, <2>2 DEF Heap, Apart
  <2> QED
    BY <2>1, <2>3
<1>11. AreBlocks(G \cup P, n)
  BY <1>2, <1>7, <1>9 DEF AreBlocks
<1>12. Apart(G \cup P)
  <2> SUFFICES ASSUME NEW c \in G \cup P, NEW d \in G \cup P, c # d
               PROVE  Block(c[1], c[2]) \cap Block(d[1], d[2]) = {}
    BY DEF Apart
  <2>1. CASE c = e
    BY <1>10, <2>1
  <2>2. CASE d = e
    BY <1>10, <2>2
  <2>3. CASE c # e /\ d # e
    BY <2>3 DEF Heap, Apart
  <2> QED
    BY <2>1, <2>2, <2>3
<1>13. b \in 0..n - 1 /\ p \in 0..n - 1
  BY <1>1, <1>2, <1>9
<1>14. fl \in [0..n - 1 -> SUBSET {USED, LOCK}] /\ od \in [0..n - 1 -> Orders]
  BY DEF Heap
<1>15. gl \in [0..n - 1 -> SUBSET {USED, LOCK}] /\ gd \in [0..n - 1 -> Orders]
  BY <1>13, <1>14
<1>16. \A x \in 0..n - 1 : /\ gl[x] = IF x \in {p, b} THEN {} ELSE fl[x]
                           /\ gd[x] = IF x = b THEN m ELSE od[x]
  BY <1>13, <1>14
<1>17. HeadersTell(G, P, gl, gd)
  <2>1. ASSUME NEW c \in (F \ T) \cup P
        PROVE  gl[c[1]] = fl[c[1]] /\ gd[c[1]] = od[c[1]]
    <3>1. c[1] # b /\ c[1] # p
      BY <1>1, <1>2, <1>3, <1>8, <1>10
    <3>2. c[1] \in 0..n - 1
      BY <1>7, <1>8
    <3> QED
      BY <1>16, <3>1, <3>2
  <2>2. gl[b] = {} /\ gd[b] = m
    BY <1>13, <1>16
  <2>3. \A c \in G : gl[c[1]] = {} /\ gd[c[1]] = c[2]
    <3> TAKE c \in G
    <3>1. CASE c = e
      <4>1. c[1] = b /\ c[2] = m
        BY <3>1
      <4> QED
        BY <2>2, <4>1, Zenon
    <3>2. CASE c # e
      <4>1. c \in F \ T
        BY <3>2
      <4> QED
        BY <1>5, <2>1, <4>1
    <3> QED
      BY <3>1, <3>2
  <2>4. \A c \in P : gl[c[1]] # {} /\ gd[c[1]] = c[2]
    BY <1>6, <2>1
  <2> QED
    BY <2>3, <2>4, Zenon DEF HeadersTell
<1>18. StaleHeaders(G \cup P, gl, gd, n)
  <2> SUFFICES ASSUME NEW x \in 0..n - 1, gl[x] = {}
               PROVE  Aligned(x, gd[x]) /\ \E c \in G \cup P : x \in Block(c[1], c[2])
    BY DEF StaleHeaders
  <2>4. ASSUME x \in Block(b, m) PROVE \E c \in G \cup P : x \in Block(c[1], c[2])
    <3>1. e \in G \cup P /\ x \in Block(e[1], e[2])
      BY <2>4
    <3> QED
      BY <3>1, Zenon
  <2>1. CASE x = b
    BY <1>2, <1>16, <2>1, <2>4
  <2>2. CASE x = p /\ x # b
    BY <1>1, <1>3, <1>16, <2>2, <2>4
  <2>3. CASE x # p /\ x # b
    <3>1. fl[x] = {} /\ gd[x] = od[x]
      BY <1>16, <2>3
    <3>2. Aligned(x, od[x]) /\ \E c \in F \cup O : x \in Block(c[1], c[2])
      BY <3>1 DEF Heap, StaleHeaders
    <3>3. PICK c \in F \cup O : x \in Block(c[1], c[2])
      BY <3>2
    <3>4. CASE c \in T
      <4>1. x \in PagesOf(T)
        BY <3>3, <3>4 DEF PagesOf
      <4> QED
        BY <1>3, <2>4, <3>1, <3>2, <4>1
    <3>5. CASE c = <<p, o>>
      <4>1. x \in Block(p, o)
        BY <3>3, <3>5
      <4> QED
        BY <1>3, <2>4, <3>1, <3>2, <4>1
    <3>6. CASE c \notin T /\ c # <<p, o>>
      BY <3>1, <3>2, <3>3, <3>6
    <3> QED
      BY <3>4, <3>5, <3>6
  <2> QED
    BY <2>1, <2>2, <2>3
<1>19. NoBuddies(G)
  <2> SUFFICES ASSUME NEW c \in G, c[2] + 1 < BUDDY_MAX_ORDER,
                      <<BuddyOf(c[1], c[2]), c[2]>> \in G
               PROVE  FALSE
    BY DEF NoBuddies
  <2>1. BuddyOf(b, m) # b /\ BuddyAt(p, m) = BuddyOf(b, m)
    BY <1>1, <1>2, BuddyFacts DEF BuddyAt
  <2>2. CASE c = e
    BY <2>1, <2>2
  <2>3. CASE c # e
    <3>1. c \in F /\ <<BuddyOf(c[1], c[2]), c[2]>> \notin F
      BY <2>3 DEF Heap, NoBuddies
    <3>2. BuddyOf(c[1], c[2]) = b /\ c[2] = m
      BY <3>1
    <3>3. BuddyOf(b, m) = c[1]
      <4>1. c[1] \in Nat /\ c[2] \in Nat /\ Aligned(c[1], c[2])
        BY <1>1, <1>7, <3>1, <3>2
      <4> QED
        BY <3>2, <4>1, BuddyFacts
    <3>4. c = <<BuddyAt(p, m), m>>
      BY <1>7, <2>1, <3>1, <3>2, <3>3
    <3> QED
      BY <3>1, <3>2, <3>4
  <2> QED
    BY <2>2, <2>3
<1>20. PagesOf(G) = PagesOf(F) \cup Block(p, o)
  <2>1. PagesOf(G) = PagesOf(F \ T) \cup Block(b, m)
    <3>1. e[1] = b /\ e[2] = m
      OBVIOUS
    <3> HIDE DEF e
    <3> QED
      BY <3>1 DEF PagesOf
  <2>2. PagesOf(F) = PagesOf(F \ T) \cup PagesOf(T)
    BY <1>4 DEF PagesOf
  <2> QED
    BY <1>3, <2>1, <2>2
<1> QED
  BY <1>11, <1>12, <1>15, <1>17, <1>18, <1>19, <1>20 DEF Heap, T
\* Twice the size of a smaller block fits.
LEMMA PowMono ==
    ASSUME NEW i \in Nat, NEW j \in Nat, i < j
    PROVE  2^i + 2^i <= 2^j
<1>1. i + 1 \in Nat /\ i + 1 <= j
  OBVIOUS
<1>2. PICK k \in Nat : k >= 1 /\ 2^j = k * 2^(i + 1)
  BY <1>1, PowDivides
<1>3. 2^(i + 1) = 2^i + 2^i /\ 2^i \in Nat
  BY PowDouble, PowNat
<1> DEFINE x == 2^(i + 1)
<1>4. x \in Nat /\ x <= k * x
  <2>1. x \in Nat
    BY <1>3
  <2> HIDE DEF x
  <2> QED
    BY <1>2, <2>1
<1> QED
  BY <1>2, <1>3, <1>4

Halves(b, c, o) == {<<b + 2^j, j>> : j \in o..c - 1}

\* The upper halves that alloc_block splits off.
LEMMA HalfFacts ==
    ASSUME NEW b \in Nat, NEW c \in Nat, Aligned(b, c), NEW j \in Nat, j < c
    PROVE  /\ b + 2^j \in Nat /\ Aligned(b + 2^j, j)
           /\ BuddyOf(b, j) = b + 2^j /\ BuddyOf(b + 2^j, j) = b
           /\ Block(b + 2^j, j) \subseteq Block(b, c)
           /\ \A i \in 0..j : Block(b, i) \cap Block(b + 2^j, j) = {}
           /\ \A i \in 0..j - 1 : Block(b + 2^i, i) \cap Block(b + 2^j, j) = {}
<1>1. 2^j \in Nat /\ 2^j >= 1 /\ 2^j + 2^j <= 2^c /\ 2^c \in Nat
  BY PowPos, PowMono
<1>2. j + 1 \in Nat /\ j + 1 <= c /\ j <= c
  OBVIOUS
<1>3. Aligned(b, j + 1) /\ Aligned(b, j)
  BY <1>2, AlignedDown
<1>4. BuddyOf(b, j) = b + 2^j
  BY <1>3 DEF BuddyOf, Aligned
<1>5. Aligned(b + 2^j, j) /\ BuddyOf(b + 2^j, j) = b
  <2> DEFINE d == BuddyOf(b, j)
  <2>1. Aligned(d, j) /\ BuddyOf(d, j) = b
    BY <1>3, BuddyFacts
  <2> QED
    BY <1>4, <2>1, Zenon
<1>6. Block(b + 2^j, j) \subseteq Block(b, c)
  BY <1>1 DEF Block
<1>7. ASSUME NEW i \in 0..j PROVE Block(b, i) \cap Block(b + 2^j, j) = {}
  <2>1. 2^i \in Nat /\ 2^i <= 2^j
    <3>1. CASE i = j
      BY <1>1, <3>1
    <3>2. CASE i < j
      BY <1>1, <3>2, PowMono, PowNat
    <3> QED
      BY <3>1, <3>2
  <2> QED
    BY <1>1, <2>1 DEF Block
<1>8. ASSUME NEW i \in 0..j - 1 PROVE Block(b + 2^i, i) \cap Block(b + 2^j, j) = {}
  <2>1. 2^i \in Nat /\ 2^i + 2^i <= 2^j
    BY PowMono, PowNat
  <2> QED
    BY <1>1, <2>1 DEF Block
<1> QED
  BY <1>1, <1>4, <1>5, <1>6, <1>7, <1>8

\* They are all that is left of the block.
LEMMA SplitBlock ==
    ASSUME NEW b \in Nat, NEW c \in Nat, Aligned(b, c), NEW o \in Nat, o <= c
    PROVE  Block(b, c) = Block(b, o) \cup PagesOf(Halves(b, c, o))
<1>1. \A j \in Nat : 2^j \in Nat /\ 2^j >= 1
  BY PowPos
<1>2. ASSUME NEW x \in Block(b, c), x \notin Block(b, o)
      PROVE  x \in PagesOf(Halves(b, c, o))
  <2>1. x \in Nat /\ x >= b + 2^o /\ x < b + 2^c
    BY <1>1, <1>2 DEF Block
  <2> DEFINE S == {j \in o..c : b + 2^j <= x}
  <2>2. S \in SUBSET Nat /\ o \in S /\ \A j \in S : j <= c
    BY <1>1, <2>1
  <2>3. PICK j \in S : \A i \in S : j >= i
    <3> HIDE DEF S
    <3> QED
      BY <2>2, GreatestNat
  <2>4. j \in Nat /\ j # c /\ j \in o..c - 1
    BY <1>1, <2>1, <2>3
  <2>5. j + 1 \in o..c /\ j + 1 \notin S
    BY <2>3, <2>4
  <2>6. x < b + 2^(j + 1)
    BY <1>1, <2>1, <2>4, <2>5
  <2>7. 2^(j + 1) = 2^j + 2^j
    BY <2>4, PowDouble
  <2>8. x \in Block(b + 2^j, j)
    BY <1>1, <2>1, <2>3, <2>4, <2>6, <2>7 DEF Block
  <2>9. <<b + 2^j, j>> \in Halves(b, c, o) /\ <<b + 2^j, j>>[1] = b + 2^j /\ <<b + 2^j, j>>[2] = j
    BY <2>4 DEF Halves
  <2> HIDE DEF S
  <2> QED
    BY <2>8, <2>9, Zenon DEF PagesOf
<1>3. Block(b, o) \subseteq Block(b, c)
  <2>1. CASE o = c
    BY <2>1
  <2>2. CASE o < c
    <3>1. 2^o + 2^o <= 2^c
      BY <2>2, PowMono
    <3> QED
      BY <1>1, <3>1 DEF Block
  <2> QED
    BY <2>1, <2>2
<1>4. PagesOf(Halves(b, c, o)) \subseteq Block(b, c)
  <2> SUFFICES ASSUME NEW h \in Halves(b, c, o) PROVE Block(h[1], h[2]) \subseteq Block(b, c)
    BY DEF PagesOf
  <2>1. PICK j \in o..c - 1 : h = <<b + 2^j, j>>
    BY DEF Halves
  <2>2. j \in Nat /\ j < c
    OBVIOUS
  <2>3. Block(b + 2^j, j) \subseteq Block(b, c)
    BY <2>2, HalfFacts
  <2> QED
    BY <2>1, <2>3
<1> QED
  BY <1>2, <1>3, <1>4
HalfAt(b, c, o, x) == {j \in o..c - 1 : x = b + 2^j}

\* pmm_alloc_pages splits the free block b of order c down to order o: G, gl and
\* gd are the lists and headers afterwards.
Splitting(F, O, fl, od, n, b, c, o, G, gl, gd) ==
    /\ Heap(F, O, fl, od, n) /\ n \in Nat
    /\ <<b, c>> \in F /\ o \in Orders /\ o <= c
    /\ G = (F \ {<<b, c>>}) \cup Halves(b, c, o)
    /\ gl = [x \in 0..n - 1 |->
               IF x = b THEN {USED} ELSE IF HalfAt(b, c, o, x) # {} THEN {} ELSE fl[x]]
    /\ gd = [x \in 0..n - 1 |->
               IF x = b THEN o
               ELSE IF HalfAt(b, c, o, x) # {} THEN Max(HalfAt(b, c, o, x)) ELSE od[x]]

\* This keeps the heap, and takes the pages handed out from the free ones.
LEMMA AllocHeap ==
    ASSUME NEW F, NEW O, NEW fl, NEW od, NEW n, NEW b, NEW c, NEW o, NEW G, NEW gl, NEW gd,
           Splitting(F, O, fl, od, n, b, c, o, G, gl, gd)
    PROVE  /\ Heap(G, O \cup {<<b, o>>}, gl, gd, n)
           /\ PagesOf(G) = PagesOf(F) \ Block(b, o)
           /\ Block(b, o) \subseteq PagesOf(F)
<1>0. /\ Heap(F, O, fl, od, n) /\ n \in Nat
      /\ <<b, c>> \in F /\ o \in Orders /\ o <= c
      /\ G = (F \ {<<b, c>>}) \cup Halves(b, c, o)
      /\ gl = [x \in 0..n - 1 |->
                 IF x = b THEN {USED} ELSE IF HalfAt(b, c, o, x) # {} THEN {} ELSE fl[x]]
      /\ gd = [x \in 0..n - 1 |->
                 IF x = b THEN o
                 ELSE IF HalfAt(b, c, o, x) # {} THEN Max(HalfAt(b, c, o, x)) ELSE od[x]]
  BY Zenon DEF Splitting
<1> USE <1>0
<1> USE OrderAssumption
<1> DEFINE H == Halves(b, c, o)
           a == <<b, c>>
           e == <<b, o>>
           P == O \cup {e}
<1>1. a[1] = b /\ a[2] = c /\ e[1] = b /\ e[2] = o
  OBVIOUS
<1>2. \A k \in F \cup O : /\ k[1] \in Nat /\ k[2] \in Orders /\ k = <<k[1], k[2]>>
                          /\ Aligned(k[1], k[2]) /\ Block(k[1], k[2]) \subseteq 1..n - 1
  BY DEF Heap, AreBlocks
<1>3. /\ b \in Nat /\ c \in Orders /\ c \in Nat /\ o \in Nat /\ Aligned(b, c)
      /\ Block(b, c) \subseteq 1..n - 1
  BY <1>1, <1>2 DEF Orders
<1>4. Aligned(b, o) /\ b \in Block(b, o) /\ b \in Block(b, c)
  BY <1>3, AlignedDown, PowPos DEF Block
<1>5. Block(b, c) = Block(b, o) \cup PagesOf(H)
  BY <1>3, SplitBlock
<1>6. ASSUME NEW h \in H
      PROVE  /\ h[2] \in o..c - 1 /\ h[1] = b + 2^h[2] /\ h = <<h[1], h[2]>>
             /\ h[1] \in Nat /\ Aligned(h[1], h[2]) /\ h[1] # b /\ h[1] \in Block(h[1], h[2])
             /\ BuddyOf(b, h[2]) = h[1] /\ BuddyOf(h[1], h[2]) = b
             /\ Block(h[1], h[2]) \subseteq Block(b, c)
             /\ Block(b, o) \cap Block(h[1], h[2]) = {}
  <2>1. PICK j \in o..c - 1 : h = <<b + 2^j, j>>
    BY DEF Halves
  <2>2. j \in Nat /\ j < c /\ h[1] = b + 2^j /\ h[2] = j /\ o \in 0..j
    BY <1>3, <2>1
  <2>3. 2^j \in Nat /\ 2^j >= 1
    BY <2>2, PowPos
  <2>4. /\ b + 2^j \in Nat /\ Aligned(b + 2^j, j) /\ BuddyOf(b, j) = b + 2^j
        /\ BuddyOf(b + 2^j, j) = b /\ Block(b + 2^j, j) \subseteq Block(b, c)
        /\ Block(b, o) \cap Block(b + 2^j, j) = {}
    BY <1>3, <2>2, HalfFacts
  <2>5. b + 2^j # b /\ b + 2^j \in Block(b + 2^j, j)
    BY <1>3, <2>3 DEF Block
  <2> QED
    BY <2>1, <2>2, <2>4, <2>5
<1>7. ASSUME NEW h \in H, NEW k \in H, h # k PROVE Block(h[1], h[2]) \cap Block(k[1], k[2]) = {}
  <2>1. h[2] # k[2]
    BY <1>6, <1>7
  <2>2. h[2] \in Nat /\ k[2] \in Nat /\ h[2] < c /\ k[2] < c
    BY <1>3, <1>6, SMTT(30)
  <2>5. ASSUME NEW j \in Nat, j < c, NEW i \in 0..j - 1
        PROVE  Block(b + 2^i, i) \cap Block(b + 2^j, j) = {}
    BY <1>3, <2>5, HalfFacts
  <2>3. CASE h[2] < k[2]
    <3>1. h[2] \in 0..k[2] - 1
      BY <2>2, <2>3
    <3>2. Block(b + 2^h[2], h[2]) \cap Block(b + 2^k[2], k[2]) = {}
      BY <2>2, <2>5, <3>1
    <3> QED
      BY <1>6, <3>2
  <2>4. CASE k[2] < h[2]
    <3>1. k[2] \in 0..h[2] - 1
      BY <2>2, <2>4
    <3>2. Block(b + 2^k[2], k[2]) \cap Block(b + 2^h[2], h[2]) = {}
      BY <2>2, <2>5, <3>1
    <3> QED
      BY <1>6, <3>2
  <2> QED
    BY <2>1, <2>2, <2>3, <2>4
<1>8. \A x \in 0..n - 1 : x # b =>
        IF \E h \in H : x = h[1]
        THEN gl[x] = {} /\ \A h \in H : x = h[1] => gd[x] = h[2]
        ELSE gl[x] = fl[x] /\ gd[x] = od[x]
  <2> TAKE x \in 0..n - 1
  <2> HAVE x # b
  <2>1. CASE \E h \in H : x = h[1]
    <3>1. PICK h \in H : x = h[1]
      BY <2>1
    <3>2. h[2] \in HalfAt(b, c, o, x)
      BY <1>6, <3>1 DEF HalfAt
    <3>3. \A j \in HalfAt(b, c, o, x) : j = h[2]
      <4> SUFFICES ASSUME NEW j \in o..c - 1, x = b + 2^j, j # h[2] PROVE FALSE
        BY DEF HalfAt
      <4> DEFINE k == <<b + 2^j, j>>
      <4>1. k \in H /\ k # h /\ k[1] = x /\ k[2] = j
        BY DEF Halves
      <4> HIDE DEF k
      <4> QED
        BY <1>6, <1>7, <3>1, <4>1
    <3>4. HalfAt(b, c, o, x) = {h[2]} /\ h[2] \in Nat
      BY <1>3, <1>6, <3>2, <3>3
    <3>5. Max({h[2]}) = h[2]
      BY <3>4 DEF Max
    <3>6. gl[x] = {} /\ gd[x] = h[2]
      BY <3>4, <3>5
    <3>7. \A k \in H : x = k[1] => k[2] = h[2]
      BY <1>6, <3>3 DEF HalfAt
    <3> QED
      BY <2>1, <3>6, <3>7
  <2>2. CASE ~\E h \in H : x = h[1]
    <3>1. HalfAt(b, c, o, x) = {}
      <4> SUFFICES ASSUME NEW j \in o..c - 1, x = b + 2^j PROVE FALSE
        BY DEF HalfAt
      <4>1. <<b + 2^j, j>> \in H /\ <<b + 2^j, j>>[1] = x
        BY DEF Halves
      <4> QED
        BY <2>2, <4>1, Zenon
    <3> QED
      BY <2>2, <3>1
  <2> QED
    BY <2>1, <2>2
<1>9. b \in 0..n - 1
  BY <1>3, <1>4
<1>10. gl[b] = {USED} /\ gd[b] = o
  BY <1>9
<1>11. gl \in [0..n - 1 -> SUBSET {USED, LOCK}] /\ gd \in [0..n - 1 -> Orders]
  <2>1. \A h \in H : h[2] \in Orders
    BY <1>3, <1>6 DEF Orders
  <2>2. \A x \in 0..n - 1 : fl[x] \in SUBSET {USED, LOCK} /\ od[x] \in Orders
    BY DEF Heap
  <2>3. \A x \in 0..n - 1 : gl[x] \in SUBSET {USED, LOCK} /\ gd[x] \in Orders
    <3> TAKE x \in 0..n - 1
    <3>1. CASE x = b
      BY <1>10, <3>1
    <3>2. CASE x # b /\ \E h \in H : x = h[1]
      <4> HIDE DEF H
      <4> QED
        BY <1>8, <2>1, <3>2
    <3>3. CASE x # b /\ ~\E h \in H : x = h[1]
      <4> HIDE DEF H
      <4> QED
        BY <1>8, <2>2, <3>3
    <3> QED
      BY <3>1, <3>2, <3>3
  <2> QED
    BY <2>3
<1>20. G = (F \ {a}) \cup H
  OBVIOUS
<1> HIDE DEF H, a, e
<1> USE <1>20
<1>12. AreBlocks(G \cup P, n)
  <2>1. ASSUME NEW k \in H
        PROVE  /\ k[1] \in Nat /\ k[2] \in Orders /\ k = <<k[1], k[2]>>
               /\ Aligned(k[1], k[2]) /\ Block(k[1], k[2]) \subseteq 1..n - 1
    BY <1>3, <1>6 DEF Orders
  <2>2. /\ e[1] \in Nat /\ e[2] \in Orders /\ e = <<e[1], e[2]>>
        /\ Aligned(e[1], e[2]) /\ Block(e[1], e[2]) \subseteq 1..n - 1
    BY <1>1, <1>3, <1>4, <1>5 DEF e
  <2> QED
    BY <1>2, <2>1, <2>2 DEF AreBlocks
<1>13. \A k \in (F \cup O) \ {a} : Block(k[1], k[2]) \cap Block(b, c) = {}
  <2>1. a \in F
    BY DEF a
  <2> QED
    BY <1>1, <2>1 DEF Heap, Apart
<1>14. Apart(G \cup P)
  <2> SUFFICES ASSUME NEW h \in G \cup P, NEW k \in G \cup P, h # k
               PROVE  Block(h[1], h[2]) \cap Block(k[1], k[2]) = {}
    BY DEF Apart
  <2>1. a \notin O
    BY DEF a, Heap, HeadersTell
  <2> DEFINE old == (F \cup O) \ {a}
  <2>2. h \in old \cup H \cup {e} /\ k \in old \cup H \cup {e}
    BY <2>1
  <2>3. CASE h \in old /\ k \in old
    BY <2>3 DEF Heap, Apart
  <2>4. \A g \in H \cup {e} : Block(g[1], g[2]) \subseteq Block(b, c)
    BY <1>1, <1>5, <1>6
  <2>5. CASE h \in old /\ k \in H \cup {e}
    BY <1>13, <2>4, <2>5
  <2>6. CASE k \in old /\ h \in H \cup {e}
    BY <1>13, <2>4, <2>6
  <2>7. CASE h \in H /\ k \in H
    BY <1>7, <2>7
  <2>8. CASE h = e \/ k = e
    BY <1>1, <1>6, <2>2, <2>5, <2>6, <2>8
  <2> QED
    BY <2>2, <2>3, <2>5, <2>6, <2>7, <2>8
<1>15. ASSUME NEW k \in (F \cup O) \ {a}
       PROVE  gl[k[1]] = fl[k[1]] /\ gd[k[1]] = od[k[1]] /\ k[1] # b
  <2>1. k[1] \in Block(k[1], k[2])
    <3>1. k[1] \in Nat /\ k[2] \in Nat
      BY <1>2 DEF Orders
    <3> QED
      BY <3>1, PowPos DEF Block
  <2>2. k[1] \in 0..n - 1 /\ k[1] \notin Block(b, c)
    BY <1>2, <1>13, <2>1
  <2>3. k[1] # b
    BY <1>4, <2>2
  <2>4. \A h \in H : h[1] \in Block(b, c)
    BY <1>6
  <2> QED
    BY <1>8, <2>2, <2>3, <2>4
<1>16. HeadersTell(G, P, gl, gd)
  <2>1. a \notin O
    BY DEF a, Heap, HeadersTell
  <2>2. \A h \in H : gl[h[1]] = {} /\ gd[h[1]] = h[2]
    <3> TAKE h \in H
    <3>1. h[1] \in Block(b, c) /\ h[1] # b
      BY <1>6
    <3>2. h[1] \in 0..n - 1
      BY <1>3, <3>1
    <3> QED
      BY <1>8, <3>1, <3>2
  <2>3. gl[e[1]] # {} /\ gd[e[1]] = e[2]
    BY <1>1, <1>10
  <2>4. /\ \A k \in F \ {a} : gl[k[1]] = {} /\ gd[k[1]] = k[2]
        /\ \A k \in O : gl[k[1]] # {} /\ gd[k[1]] = k[2]
    BY <1>15, <2>1 DEF Heap, HeadersTell
  <2> QED
    BY <2>2, <2>3, <2>4 DEF HeadersTell
<1>17. StaleHeaders(G \cup P, gl, gd, n)
  <2> SUFFICES ASSUME NEW x \in 0..n - 1, gl[x] = {}
               PROVE  Aligned(x, gd[x]) /\ \E k \in G \cup P : x \in Block(k[1], k[2])
    BY DEF StaleHeaders
  <2>1. x # b
    BY <1>10
  <2>2. CASE \E h \in H : x = h[1]
    <3>1. PICK h \in H : x = h[1]
      BY <2>2
    <3>2. gd[x] = h[2]
      BY <1>8, <2>1, <3>1
    <3>3. Aligned(h[1], h[2]) /\ h[1] \in Block(h[1], h[2]) /\ h \in G \cup P
      BY <1>6
    <3> QED
      BY <3>1, <3>2, <3>3, Zenon
  <2>3. CASE ~\E h \in H : x = h[1]
    <3>1. fl[x] = {} /\ gd[x] = od[x]
      BY <1>8, <2>1, <2>3
    <3>2. Aligned(x, od[x]) /\ \E k \in F \cup O : x \in Block(k[1], k[2])
      BY <3>1 DEF Heap, StaleHeaders
    <3>3. PICK k \in F \cup O : x \in Block(k[1], k[2])
      BY <3>2
    <3>4. CASE k = a
      <4>1. x \in Block(e[1], e[2]) \/ \E h \in H : x \in Block(h[1], h[2])
        BY <1>1, <1>5, <3>3, <3>4 DEF PagesOf
      <4> QED
        BY <3>1, <3>2, <4>1
    <3>5. CASE k # a
      BY <3>1, <3>2, <3>3, <3>5
    <3> QED
      BY <3>4, <3>5
  <2> QED
    BY <2>2, <2>3
<1>18. NoBuddies(G)
  <2> SUFFICES ASSUME NEW k \in G, k[2] + 1 < BUDDY_MAX_ORDER,
                      NEW h \in G, h = <<BuddyOf(k[1], k[2]), k[2]>>
               PROVE  FALSE
    BY DEF NoBuddies
  <2>1. h[1] = BuddyOf(k[1], k[2]) /\ h[2] = k[2]
    OBVIOUS
  <2>2. CASE k \in H
    <3>1. h[1] = b
      BY <1>6, <2>1, <2>2
    <3> QED
      BY <1>6, <1>15, <3>1
  <2>3. CASE k \in F \ {a} /\ h \in F \ {a}
    BY <2>3 DEF Heap, NoBuddies
  <2>4. CASE k \in F \ {a} /\ h \in H
    <3>1. BuddyOf(h[1], h[2]) = k[1]
      <4>1. k[1] \in Nat /\ k[2] \in Nat /\ Aligned(k[1], k[2])
        BY <1>2, <2>4 DEF Orders
      <4> QED
        BY <2>1, <4>1, BuddyFacts
    <3>2. k[1] = b
      BY <1>6, <2>4, <3>1
    <3> QED
      BY <1>15, <2>4, <3>2
  <2> QED
    BY <2>2, <2>3, <2>4
<1>19. PagesOf(G) = PagesOf(F) \ Block(b, o) /\ Block(b, o) \subseteq PagesOf(F)
  <2>1. a \in F
    BY DEF a
  <2>2. PagesOf(F) = PagesOf(F \ {a}) \cup Block(b, c)
    BY <1>1, <2>1 DEF PagesOf
  <2>3. PagesOf(G) = PagesOf(F \ {a}) \cup PagesOf(H)
    BY DEF PagesOf
  <2>4. PagesOf(F \ {a}) \cap Block(b, c) = {}
    BY <1>13 DEF PagesOf
  <2>5. PagesOf(H) \cap Block(b, o) = {}
    BY <1>6 DEF PagesOf
  <2> QED
    BY <1>5, <2>2, <2>3, <2>4, <2>5
<1> QED
  BY <1>11, <1>12, <1>14, <1>16, <1>17, <1>18, <1>19 DEF Heap, H, a, e
-----------------------------------------------------------------------------
(* The invariant.                                                          *)

HeapOK == Heap(Free, owned, flags, order, total_pages)

\* The pages that init_free_pages has come to.
Scanned ==
    {p \in Memory : \E i \in 1..entry :
        /\ mmap[i].usable /\ p \in PagesIn(mmap[i])
        /\ i = entry => p * PAGE_SIZE < start}

\* During boot these are free, and the headers of the others are as
\* init_pages_data and the lock functions left them.
Booting ==
    entry # 0 =>
        /\ owned = {}
        /\ start % PAGE_SIZE = 0 /\ start >= mmap[entry].base
        /\ PagesOf(Free) = Scanned
        /\ \A p \in Pages \ PagesOf(Free) :
             order[p] = 0 /\ flags[p] = IF p \in Locked THEN {USED, LOCK} ELSE {USED}

IInv == TypeOK /\ MmapSorted /\ HeapOK /\ CountsAgree /\ MemoryConserved /\ Booting

\* What is in Free.
LEMMA InFree ==
    /\ \A p, o : <<p, o>> \in Free <=> o \in Orders /\ p \in free_area[o]
    /\ \A c \in Free : c = <<c[1], c[2]>> /\ c[2] \in Orders /\ c[1] \in free_area[c[2]]
BY DEF Free

\* The sizes of the memory map: usable regions end within total_pages.
LEMMA TopOfMemory ==
    ASSUME mmap \in Seq(Entries), MmapSorted
    PROVE  /\ total_pages \in Nat
           /\ \A i \in DOMAIN mmap :
                mmap[i].usable => (mmap[i].base + mmap[i].length) \div PAGE_SIZE <= total_pages
<1> USE SizeAssumption
<1> DEFINE usable == {i \in DOMAIN mmap : mmap[i].usable}
           end(i) == mmap[i].base + mmap[i].length
<1>1. Len(mmap) \in Nat /\ DOMAIN mmap = 1..Len(mmap) /\ \A i \in DOMAIN mmap : mmap[i] \in Entries
  OBVIOUS
<1>2. \A i \in DOMAIN mmap : mmap[i].base \in Nat /\ mmap[i].length \in Nat /\ end(i) \in Nat
  BY <1>1, EntriesAssumption
<1>3. CASE usable = {}
  BY <1>3 DEF total_pages
<1>4. CASE usable # {}
  <2>1. PICK k \in usable : \A j \in usable : k >= j
    <3>1. usable \in SUBSET Nat /\ \A i \in usable : i <= Len(mmap)
      BY <1>1
    <3> HIDE DEF usable
    <3> QED
      BY <1>1, <1>4, <3>1, GreatestNat
  <2> DEFINE l == Max(usable)
  <2>2. l \in usable /\ \A j \in usable : l >= j
    <3> HIDE DEF usable
    <3> QED
      BY <2>1 DEF Max
  <2>3. total_pages = end(l) \div PAGE_SIZE
    BY <1>4 DEF total_pages
  <2> HIDE DEF l
  <2>4. ASSUME NEW i \in usable PROVE end(i) <= end(l)
    <3>1. CASE i = l
      BY <1>2, <3>1
    <3>2. CASE i # l
      <4>1. i < l /\ i \in DOMAIN mmap /\ l \in DOMAIN mmap
        BY <1>1, <2>2, <3>2
      <4>2. mmap[i].base <= mmap[l].base
        BY <4>1 DEF MmapSorted
      <4>3. mmap[i].length > 0 /\ mmap[l].length > 0
        BY <1>1, <2>2, EntriesAssumption
      <4>4. CASE mmap[i] = mmap[l]
        BY <1>2, <4>1, <4>4
      <4>5. CASE mmap[i] # mmap[l]
        <5>1. end(i) <= mmap[l].base \/ end(l) <= mmap[i].base
          BY <1>1, <4>1, <4>5, EntriesAssumption
        <5> QED
          BY <1>2, <4>1, <4>2, <4>3, <5>1
      <4> QED
        BY <4>4, <4>5
    <3> QED
      BY <3>1, <3>2
  <2>5. \A a, b \in Nat : a <= b => a \div PAGE_SIZE <= b \div PAGE_SIZE /\ b \div PAGE_SIZE \in Nat
    <3> TAKE a \in Nat, b \in Nat
    <3> HAVE a <= b
    <3> DEFINE x == a \div PAGE_SIZE
               y == b \div PAGE_SIZE
    <3>1. x \in Nat /\ y \in Nat /\ x * PAGE_SIZE <= a /\ b < (y + 1) * PAGE_SIZE
      OBVIOUS
    <3> HIDE DEF x, y
    <3>2. x * PAGE_SIZE < (y + 1) * PAGE_SIZE
      BY <3>1
    <3>3. x < y + 1
      BY <3>1, <3>2
    <3> QED
      BY <3>1, <3>3 DEF x, y
  <2> QED
    BY <1>2, <2>2, <2>3, <2>4, <2>5
<1> QED
  BY <1>3, <1>4

\* The loop of pmm_free_pages ends, at the first buddy that does not look free.
LEMMA FinalOrder ==
    ASSUME NEW p, NEW o \in Orders
    PROVE  /\ final_order(p, o) \in o..BUDDY_MAX_ORDER - 1
           /\ \A j \in o..final_order(p, o) - 1 : buddy_is_free(merged(p, j), j)
           /\ final_order(p, o) < BUDDY_MAX_ORDER - 1 =>
                ~buddy_is_free(merged(p, final_order(p, o)), final_order(p, o))
<1> USE OrderAssumption
<1> DEFINE Stops(m) == m < BUDDY_MAX_ORDER - 1 => ~buddy_is_free(merged(p, m), m)
           S == {m \in o..BUDDY_MAX_ORDER - 1 : Stops(m)}
<1>1. o \in Nat /\ o <= BUDDY_MAX_ORDER - 1 /\ BUDDY_MAX_ORDER - 1 \in Nat
  BY DEF Orders
<1>2. S \in SUBSET Nat /\ BUDDY_MAX_ORDER - 1 \in S
  BY <1>1
<1>3. PICK m \in S : \A j \in S : m <= j
  <2> HIDE DEF S
  <2> QED
    BY <1>2, LeastNat
<1>4. \A j \in o..m - 1 : buddy_is_free(merged(p, j), j)
  <2> TAKE j \in o..m - 1
  <2>1. m \in o..BUDDY_MAX_ORDER - 1
    BY <1>3
  <2>2. j \in o..BUDDY_MAX_ORDER - 1 /\ ~(m <= j)
    BY <1>1, <2>1
  <2>3. ~Stops(j)
    BY <1>3, <2>2
  <2> QED
    BY <2>3
<1> HIDE DEF Stops
<1>5. \E k \in o..BUDDY_MAX_ORDER - 1 :
        /\ \A j \in o..k - 1 : buddy_is_free(merged(p, j), j)
        /\ Stops(k)
  BY <1>3, <1>4
<1> QED
  BY <1>5 DEF final_order, Stops
-----------------------------------------------------------------------------
(* Freeing a block.                                                        *)

\* The blocks on the lists are finitely many, with finitely many pages.
LEMMA FreeFinite ==
    ASSUME TypeOK, HeapOK, total_pages \in Nat
    PROVE  /\ \A j \in Orders : IsFiniteSet(free_area[j])
           /\ PagesOf(Free) \subseteq 1..total_pages - 1 /\ IsFiniteSet(PagesOf(Free))
<1>1. IsFiniteSet(0..total_pages - 1)
  <2>1. total_pages - 1 \in Int
    OBVIOUS
  <2> QED
    BY <2>1, FS_Interval
<1>2. \A j \in Orders : free_area[j] \subseteq 0..total_pages - 1
  BY DEF TypeOK, Pages
<1>3. PagesOf(Free) \subseteq 1..total_pages - 1
  BY DEF HeapOK, Heap, AreBlocks, PagesOf
<1>4. PagesOf(Free) \subseteq 0..total_pages - 1
  BY <1>3
<1> QED
  BY <1>1, <1>2, <1>3, <1>4, FS_Subset

\* A block has 2^o pages.
LEMMA BlockSize ==
    ASSUME NEW p \in Nat, NEW o \in Nat
    PROVE  IsFiniteSet(Block(p, o)) /\ Cardinality(Block(p, o)) = 2^o
<1>1. 2^o \in Nat /\ 2^o >= 1
  BY PowPos
<1>2. p + 2^o - 1 \in Int /\ p \in Int /\ p <= p + 2^o - 1 /\ (p + 2^o - 1) - p + 1 = 2^o
  BY <1>1
<1>3. IsFiniteSet(p..p + 2^o - 1)
      /\ Cardinality(p..p + 2^o - 1)
           = IF p > p + 2^o - 1 THEN 0 ELSE (p + 2^o - 1) - p + 1
  BY <1>2, FS_Interval
<1> QED
  BY <1>1, <1>2, <1>3 DEF Block

\* The order at which merging stops, and what is on the lists on the way there.
LEMMA FreeRounds ==
    ASSUME TypeOK, HeapOK, total_pages \in Nat,
           NEW p, NEW o, Room(Free, owned \ {<<p, o>>}, p, o, total_pages),
           NEW m, m = final_order(p, o)
    PROVE  /\ m \in Orders /\ o <= m
           /\ \A j \in o..m - 1 : /\ j \in Orders
                                  /\ get_buddy(merged(p, j), j) = {BuddyAt(p, j)}
                                  /\ BuddyAt(p, j) \in free_area[j]
           /\ m + 1 < BUDDY_MAX_ORDER => BuddyAt(p, m) \notin free_area[m]
<1> USE OrderAssumption
<1>1. p \in Nat /\ o \in Orders /\ o \in Nat
  BY DEF Room, Orders
<1>2. /\ m \in o..BUDDY_MAX_ORDER - 1
      /\ \A j \in o..m - 1 : buddy_is_free(merged(p, j), j)
      /\ m < BUDDY_MAX_ORDER - 1 => ~buddy_is_free(merged(p, m), m)
  BY <1>1, FinalOrder
<1>3. m \in Orders /\ m \in Nat /\ o <= m
  BY <1>1, <1>2 DEF Orders
<1>4. ASSUME NEW j \in Orders, j + 1 < BUDDY_MAX_ORDER
      PROVE  get_buddy(merged(p, j), j) = {BuddyAt(p, j)} \cap Pages
  BY <1>4 DEF get_buddy, BuddyAt, BuddyOf
<1>5. ASSUME NEW j \in o..m - 1
      PROVE  /\ j \in Orders
             /\ get_buddy(merged(p, j), j) = {BuddyAt(p, j)}
             /\ BuddyAt(p, j) \in free_area[j]
  <2>1. j \in Orders /\ j + 1 < BUDDY_MAX_ORDER /\ o <= j
    BY <1>1, <1>2 DEF Orders
  <2> DEFINE d == BuddyAt(p, j)
  <2>2. buddy_is_free(merged(p, j), j)
    BY <1>2
  <2>3. d \in Pages /\ flags[d] = {} /\ order[d] = j /\ get_buddy(merged(p, j), j) = {d}
    <3> HIDE DEF d
    <3>1. get_buddy(merged(p, j), j) = {d} \cap Pages
      BY <1>4, <2>1 DEF d
    <3> QED
      BY <2>2, <3>1 DEF buddy_is_free
  <2>4. d \in 0..total_pages - 1
    BY <2>3 DEF Pages
  <2>5. <<d, j>> \in Free
    BY <2>1, <2>3, <2>4, BuddyTest DEF HeapOK
  <2> QED
    BY <2>1, <2>3, <2>5, InFree
<1>6. ASSUME m + 1 < BUDDY_MAX_ORDER PROVE BuddyAt(p, m) \notin free_area[m]
  <2> SUFFICES ASSUME BuddyAt(p, m) \in free_area[m] PROVE FALSE
    OBVIOUS
  <2> DEFINE d == BuddyAt(p, m)
             c == <<d, m>>
  <2>1. c \in Free /\ c[1] = d /\ c[2] = m
    BY <1>3, InFree
  <2>2. flags[d] = {} /\ order[d] = m
    BY <2>1 DEF HeapOK, Heap, HeadersTell
  <2>3. d \in Pages
    BY <1>3 DEF TypeOK
  <2>4. get_buddy(merged(p, m), m) = {d} \cap Pages
    BY <1>3, <1>4, <1>6
  <2>5. buddy_is_free(merged(p, m), m)
    BY <2>2, <2>3, <2>4 DEF buddy_is_free
  <2> QED
    BY <1>2, <1>3, <1>6, <2>5
<1> QED
  BY <1>3, <1>5, <1>6
\* The page count does not change with anything but the map.
LEMMA PagesStay ==
    ASSUME mmap' = mmap
    PROVE  total_pages' = total_pages /\ Pages' = Pages /\ Locked' = Locked
BY Zenon DEF Locked, Pages, total_pages

\* pmm_free_pages keeps the heap and the counters, and frees the pages of the
\* block; it changes headers of free pages only.
LEMMA FreeStep ==
    ASSUME TypeOK, HeapOK, CountsAgree, total_pages \in Nat,
           NEW p, NEW o, Room(Free, owned \ {<<p, o>>}, p, o, total_pages), order[p] = o,
           free_block(p, o), owned' = owned \ {<<p, o>>}, mmap' = mmap
    PROVE  /\ HeapOK' /\ CountsAgree'
           /\ PagesOf(Free') = PagesOf(Free) \cup Block(p, o)
           /\ free_area' \in [Orders -> SUBSET Pages]
           /\ num_blocks' \in [Orders -> Nat] /\ num_pages' \in Nat
           /\ \A x \in Pages \ PagesOf(Free') : flags'[x] = flags[x] /\ order'[x] = order[x]
<1> USE OrderAssumption
<1> DEFINE n == total_pages
           m == final_order(p, o)
           b == merged(p, m)
           e == <<b, m>>
           T == Merged(p, o, m)
           G == (Free \ T) \cup {e}
<1>1. /\ p \in Nat /\ o \in Orders /\ o \in Nat /\ Aligned(p, o) /\ p \in Block(p, o)
      /\ Block(p, o) \subseteq 1..n - 1
  BY PowPos DEF Room, Orders, Block
<1>2. /\ m \in Orders /\ o <= m
      /\ \A j \in o..m - 1 : /\ j \in Orders
                             /\ get_buddy(merged(p, j), j) = {BuddyAt(p, j)}
                             /\ BuddyAt(p, j) \in free_area[j]
      /\ m + 1 < BUDDY_MAX_ORDER => BuddyAt(p, m) \notin free_area[m]
  BY FreeRounds
<1>3. /\ flags' = [flags EXCEPT ![p] = {}, ![b] = {}]
      /\ order' = [order EXCEPT ![b] = m]
      /\ free_area' = [j \in Orders |->
            (free_area[j] \ (IF j \in o..m - 1 THEN get_buddy(merged(p, j), j) ELSE {}))
               \cup (IF j = m THEN {b} ELSE {})]
      /\ num_blocks' = [j \in Orders |->
            num_blocks[j] + (IF j = m THEN 1 ELSE 0) - (IF j \in o..m - 1 THEN 1 ELSE 0)]
      /\ num_pages' = num_pages + 2^o
  BY DEF free_block
<1> HIDE DEF m
<1>4. \A j \in Orders :
        free_area'[j] = (free_area[j] \ (IF j \in o..m - 1 THEN {BuddyAt(p, j)} ELSE {}))
                           \cup (IF j = m THEN {b} ELSE {})
  BY <1>2, <1>3
<1>5. \A j \in o..m - 1 : <<BuddyAt(p, j), j>> \in Free
  BY <1>2, InFree
<1>6. Free' = G
  <2>1. ASSUME NEW c \in Free' PROVE c \in G
    <3>1. c[2] \in Orders /\ c = <<c[1], c[2]>> /\ c[1] \in free_area'[c[2]]
      BY DEF Free
    <3>2. CASE c[2] = m /\ c[1] = b
      BY <3>1, <3>2
    <3>3. CASE ~(c[2] = m /\ c[1] = b)
      <4>1. c[1] \in free_area[c[2]] /\ (c[2] \in o..m - 1 => c[1] # BuddyAt(p, c[2]))
        BY <1>4, <3>1, <3>3
      <4>2. c \in Free
        BY <3>1, <4>1, InFree
      <4>3. c \notin T
        BY <4>1 DEF Merged
      <4> QED
        BY <4>2, <4>3
    <3> QED
      BY <3>2, <3>3
  <2>2. ASSUME NEW c \in G PROVE c \in Free'
    <3>1. c = <<c[1], c[2]>> /\ c[2] \in Orders /\ c[1] \in free_area'[c[2]]
      <4>1. CASE c = e
        BY <1>2, <1>4, <4>1
      <4>2. CASE c # e
        <5>1. c \in Free /\ c \notin T
          BY <4>2
        <5>2. c = <<c[1], c[2]>> /\ c[2] \in Orders /\ c[1] \in free_area[c[2]]
          BY <5>1, InFree
        <5>3. c[2] \in o..m - 1 => c[1] # BuddyAt(p, c[2])
          BY <5>1, <5>2 DEF Merged
        <5> QED
          BY <1>4, <5>2, <5>3
      <4> QED
        BY <4>1, <4>2
    <3> QED
      BY <3>1 DEF Free
  <2> QED
    BY <2>1, <2>2
<1>7. m + 1 < BUDDY_MAX_ORDER => <<BuddyAt(p, m), m>> \notin Free
  BY <1>2, InFree
<1>8. /\ Heap(G, owned \ {<<p, o>>}, flags', order', n)
      /\ PagesOf(G) = PagesOf(Free) \cup Block(p, o)
  <2>1. Heap(Free, owned, flags, order, n)
    BY DEF HeapOK
  <2>2. m \in Orders /\ o <= m
    BY <1>2
  <2>3. b = merged(p, m) /\ G = (Free \ Merged(p, o, m)) \cup {<<b, m>>}
    OBVIOUS
  <2>4. n \in Nat /\ Room(Free, owned \ {<<p, o>>}, p, o, n)
    OBVIOUS
  <2>5. flags' = [flags EXCEPT ![p] = {}, ![b] = {}] /\ order' = [order EXCEPT ![b] = m]
    BY <1>3
  <2>6. Freeing(Free, owned, flags, order, n, p, o, m, b, G, flags', order')
    <3> HIDE DEF b, G, n
    <3> QED
      BY <1>5, <1>7, <2>1, <2>2, <2>3, <2>4, <2>5, Zenon DEF Freeing
  <2> HIDE DEF b, G, n
  <2>7. \A F, O, fl, od, k, q, i, j, a, H, gl, gd :
            Freeing(F, O, fl, od, k, q, i, j, a, H, gl, gd) =>
              /\ Heap(H, O \ {<<q, i>>}, gl, gd, k)
              /\ PagesOf(H) = PagesOf(F) \cup Block(q, i)
    BY FreeHeap, Zenon
  <2>8. Heap(G, owned \ {<<p, o>>}, flags', order', n)
    BY <2>6, <2>7, Zenon
  <2> QED
    BY <2>6, <2>7, <2>8
<1>9. total_pages' = n /\ Pages' = Pages
  BY PagesStay
<1>10. HeapOK'
  <2>1. Heap(Free', owned', flags', order', total_pages')
    <3> HIDE DEF G, n
    <3> QED
      BY <1>3, <1>6, <1>8, <1>9, Zenon
  <2> QED
    BY <2>1 DEF HeapOK
<1>11. PagesOf(Free') = PagesOf(Free) \cup Block(p, o)
  BY <1>6, <1>8, Zenon
<1>12. e \in G /\ e[1] = b /\ e[2] = m
  OBVIOUS
<1>13. Heap(G, owned', flags', order', n)
  BY <1>3, <1>8, Zenon
<1>14. b \in Nat /\ Aligned(b, m) /\ p \in Block(b, m) /\ b \in Block(b, m) /\ m \in Nat
  <2>1. m \in Nat
    BY <1>2 DEF Orders
  <2>2. b \in Nat /\ Aligned(b, m) /\ p \in Block(b, m)
    BY <1>1, <2>1, MergedFacts
  <2> HIDE DEF b
  <2> QED
    BY <2>1, <2>2, PowPos DEF Block
<1> HIDE DEF b, T
<1>15. Block(b, m) \subseteq 1..n - 1
  BY <1>12, <1>13 DEF Heap, AreBlocks
<1>16. free_area' \in [Orders -> SUBSET Pages]
  <2>1. b \in Pages
    BY <1>14, <1>15 DEF Pages
  <2>2. \A j \in Orders : free_area[j] \subseteq Pages
    BY DEF TypeOK
  <2>3. \A j \in Orders : free_area'[j] \subseteq Pages
    BY <1>4, <2>1, <2>2
  <2>4. free_area' = [j \in Orders |-> free_area'[j]]
    BY <1>3
  <2> QED
    BY <2>3, <2>4
<1>17. b \notin free_area[m]
  <2> SUFFICES ASSUME b \in free_area[m] PROVE FALSE
    OBVIOUS
  <2>1. e \in Free
    BY <1>2, InFree
  <2>2. Block(e[1], e[2]) \cap Block(p, o) = {}
    BY <2>1 DEF Room
  <2> QED
    BY <1>1, <1>12, <1>14, <2>2
<1>18. \A j \in Orders : /\ IsFiniteSet(free_area[j]) /\ Cardinality(free_area[j]) \in Nat
                         /\ num_blocks[j] = Cardinality(free_area[j])
  BY FreeFinite, FS_CardinalityType DEF CountsAgree
<1>19. ASSUME NEW j \in Orders
       PROVE  /\ num_blocks'[j] = Cardinality(free_area'[j]) /\ num_blocks'[j] \in Nat
  <2>1. num_blocks'[j] = num_blocks[j] + (IF j = m THEN 1 ELSE 0) - (IF j \in o..m - 1 THEN 1 ELSE 0)
    BY <1>3
  <2>2. CASE j = m
    <3>1. free_area'[j] = free_area[j] \cup {b}
      BY <1>4, <1>14, <2>2
    <3>2. Cardinality(free_area[j] \cup {b}) = Cardinality(free_area[j]) + 1
      BY <1>17, <1>18, <2>2, FS_AddElement
    <3>3. j \notin o..m - 1
      BY <1>14, <2>2
    <3> QED
      BY <1>18, <2>1, <2>2, <3>1, <3>2, <3>3
  <2>3. CASE j \in o..m - 1
    <3> DEFINE d == BuddyAt(p, j)
    <3>1. free_area'[j] = free_area[j] \ {d} /\ j # m
      BY <1>1, <1>4, <1>14, <2>3
    <3>2. d \in free_area[j]
      BY <1>2, <2>3
    <3> HIDE DEF d
    <3>3. Cardinality(free_area[j] \ {d}) = Cardinality(free_area[j]) - 1
      BY <1>18, <3>2, FS_RemoveElement
    <3>4. Cardinality(free_area[j]) # 0
      BY <1>18, <3>2, FS_EmptySet
    <3> QED
      BY <1>18, <2>1, <2>3, <3>1, <3>3, <3>4
  <2>4. CASE j # m /\ j \notin o..m - 1
    <3>1. free_area'[j] = free_area[j]
      BY <1>4, <2>4
    <3> QED
      BY <1>18, <2>1, <2>4, <3>1
  <2> QED
    BY <2>2, <2>3, <2>4
<1>20. num_blocks' \in [Orders -> Nat]
  BY <1>3, <1>19
<1>21. num_pages' = Cardinality(PagesOf(Free')) /\ num_pages' \in Nat
  <2>1. PagesOf(Free) \cap Block(p, o) = {}
    BY DEF Room, PagesOf
  <2>2. IsFiniteSet(PagesOf(Free)) /\ num_pages = Cardinality(PagesOf(Free)) /\ num_pages \in Nat
    BY FreeFinite DEF CountsAgree, TypeOK
  <2>3. IsFiniteSet(Block(p, o)) /\ Cardinality(Block(p, o)) = 2^o /\ 2^o \in Nat
    BY <1>1, BlockSize, PowNat
  <2>4. Cardinality(PagesOf(Free) \cap Block(p, o)) = 0
    BY <2>1, FS_EmptySet
  <2>5. Cardinality(PagesOf(Free) \cup Block(p, o))
          = Cardinality(PagesOf(Free)) + Cardinality(Block(p, o))
            - Cardinality(PagesOf(Free) \cap Block(p, o))
    BY <2>2, <2>3, FS_Union
  <2> QED
    BY <1>3, <1>11, <2>2, <2>3, <2>4, <2>5
<1>22. CountsAgree'
  BY <1>19, <1>21 DEF CountsAgree
<1>23. ASSUME NEW x \in Pages \ PagesOf(Free')
       PROVE  flags'[x] = flags[x] /\ order'[x] = order[x]
  <2>1. Block(b, m) \subseteq PagesOf(Free')
    BY <1>6, <1>12 DEF PagesOf
  <2>2. x # b /\ x # p
    BY <1>14, <1>23, <2>1
  <2>3. flags \in [Pages -> SUBSET {USED, LOCK}] /\ order \in [Pages -> Orders]
    BY DEF TypeOK
  <2> QED
    BY <1>3, <2>2, <2>3
<1> QED
  BY <1>10, <1>11, <1>16, <1>20, <1>21, <1>22, <1>23
-----------------------------------------------------------------------------
(* Allocating a block.                                                     *)

\* alloc_block keeps the heap and the counters, and takes the pages it hands
\* out from the free ones.
LEMMA AllocStep ==
    ASSUME TypeOK, HeapOK, CountsAgree, total_pages \in Nat,
           NEW o \in Orders, NEW c \in Orders, o <= c, NEW b \in free_area[c],
           alloc_block(b, c, o), owned' = owned \cup {<<b, o>>}, mmap' = mmap,
           num_pages' = num_pages - 2^o
    PROVE  /\ HeapOK' /\ CountsAgree'
           /\ PagesOf(Free') = PagesOf(Free) \ Block(b, o)
           /\ Block(b, o) \subseteq PagesOf(Free)
           /\ free_area' \in [Orders -> SUBSET Pages]
           /\ num_blocks' \in [Orders -> Nat] /\ num_pages' \in Nat
           /\ b \in Pages
<1> USE OrderAssumption
<1> DEFINE n == total_pages
           a == <<b, c>>
           H == Halves(b, c, o)
           G == (Free \ {a}) \cup H
<1>1. a \in Free /\ a[1] = b /\ a[2] = c
  BY InFree
<1>2. b \in Nat /\ c \in Nat /\ o \in Nat /\ Aligned(b, c) /\ Block(b, c) \subseteq 1..n - 1
  BY <1>1 DEF HeapOK, Heap, AreBlocks, Orders
<1>3. b \in Block(b, c) /\ b \in Pages
  <2>1. b \in Block(b, c)
    BY <1>2, PowPos DEF Block
  <2> QED
    BY <1>2, <2>1 DEF Pages
<1>4. /\ free_area' = [j \in Orders |->
            (IF j = c THEN free_area[j] \ {b} ELSE free_area[j])
               \cup (IF j \in o..c - 1 THEN {b + 2^j} ELSE {})]
      /\ num_blocks' = [j \in Orders |->
            num_blocks[j] + (IF j \in o..c - 1 THEN 1 ELSE 0) - (IF j = c THEN 1 ELSE 0)]
      /\ flags' = [x \in 0..n - 1 |->
            IF x = b THEN {USED} ELSE IF HalfAt(b, c, o, x) # {} THEN {} ELSE flags[x]]
      /\ order' = [x \in 0..n - 1 |->
            IF x = b THEN o
            ELSE IF HalfAt(b, c, o, x) # {} THEN Max(HalfAt(b, c, o, x)) ELSE order[x]]
  BY Zenon DEF alloc_block, HalfAt, Pages
<1>5. \A j \in Orders :
        free_area'[j] = (IF j = c THEN free_area[j] \ {b} ELSE free_area[j])
                           \cup (IF j \in o..c - 1 THEN {b + 2^j} ELSE {})
  BY <1>4
<1>6. Free' = G
  <2>1. ASSUME NEW h \in Free' PROVE h \in G
    <3>1. h[2] \in Orders /\ h = <<h[1], h[2]>> /\ h[1] \in free_area'[h[2]]
      BY DEF Free
    <3>2. CASE h[2] \in o..c - 1 /\ h[1] = b + 2^h[2]
      BY <3>1, <3>2 DEF Halves
    <3>3. CASE ~(h[2] \in o..c - 1 /\ h[1] = b + 2^h[2])
      <4>1. h[1] \in free_area[h[2]] /\ h # a
        BY <1>5, <3>1, <3>3
      <4> QED
        BY <3>1, <4>1, InFree
    <3> QED
      BY <3>2, <3>3
  <2>2. ASSUME NEW h \in G PROVE h \in Free'
    <3>1. h = <<h[1], h[2]>> /\ h[2] \in Orders /\ h[1] \in free_area'[h[2]]
      <4>1. CASE h \in H
        <5>1. PICK j \in o..c - 1 : h = <<b + 2^j, j>>
          BY <4>1 DEF Halves
        <5>2. j \in Orders /\ h[1] = b + 2^j /\ h[2] = j
          BY <1>2, <5>1 DEF Orders
        <5> QED
          BY <1>5, <5>1, <5>2
      <4>2. CASE h \in Free \ {a}
        <5>1. h = <<h[1], h[2]>> /\ h[2] \in Orders /\ h[1] \in free_area[h[2]]
          BY <4>2, InFree
        <5>2. h[2] = c => h[1] # b
          BY <4>2, <5>1
        <5> QED
          BY <1>5, <5>1, <5>2
      <4> QED
        BY <4>1, <4>2
    <3> QED
      BY <3>1 DEF Free
  <2> QED
    BY <2>1, <2>2
<1>7. /\ Heap(G, owned \cup {<<b, o>>}, flags', order', n)
      /\ PagesOf(G) = PagesOf(Free) \ Block(b, o)
      /\ Block(b, o) \subseteq PagesOf(Free)
  <2>1. Heap(Free, owned, flags, order, n) /\ n \in Nat
    BY DEF HeapOK
  <2>2. G = (Free \ {<<b, c>>}) \cup Halves(b, c, o) /\ <<b, c>> \in Free
    BY <1>1
  <2> HIDE DEF G, n
  <2>3. Splitting(Free, owned, flags, order, n, b, c, o, G, flags', order')
    BY <1>4, <2>1, <2>2, Zenon DEF Splitting
  <2>4. \A F, O, fl, od, k, x, i, j, A, gl, gd :
            Splitting(F, O, fl, od, k, x, i, j, A, gl, gd) =>
              /\ Heap(A, O \cup {<<x, j>>}, gl, gd, k)
              /\ PagesOf(A) = PagesOf(F) \ Block(x, j)
              /\ Block(x, j) \subseteq PagesOf(F)
    BY AllocHeap, Zenon
  <2>5. Heap(G, owned \cup {<<b, o>>}, flags', order', n)
    BY <2>3, <2>4, Zenon
  <2> QED
    BY <2>3, <2>4, <2>5
<1>8. total_pages' = n /\ Pages' = Pages
  BY PagesStay
<1>9. HeapOK'
  <2>1. Heap(Free', owned', flags', order', total_pages')
    <3> HIDE DEF G, n
    <3> QED
      BY <1>6, <1>7, <1>8, Zenon
  <2> QED
    BY <2>1 DEF HeapOK
<1>10. PagesOf(Free') = PagesOf(Free) \ Block(b, o)
  BY <1>6, <1>7, Zenon
<1>11. ASSUME NEW j \in o..c - 1
       PROVE  j \in Orders /\ b + 2^j \in Pages /\ b + 2^j \notin free_area[j]
  <2>1. j \in Orders /\ j \in Nat /\ j < c
    BY <1>2 DEF Orders
  <2>2. b + 2^j \in Nat /\ Block(b + 2^j, j) \subseteq Block(b, c)
    BY <1>2, <2>1, HalfFacts
  <2>3. b + 2^j \in Block(b + 2^j, j)
    BY <2>1, <2>2, PowPos DEF Block
  <2>4. b + 2^j \in Pages
    BY <1>2, <2>2, <2>3 DEF Pages
  <2>5. ASSUME b + 2^j \in free_area[j] PROVE FALSE
    <3> DEFINE h == <<b + 2^j, j>>
    <3>1. h \in Free /\ h[1] = b + 2^j /\ h[2] = j /\ h # a
      BY <2>1, <2>5, InFree
    <3>2. Block(h[1], h[2]) \cap Block(a[1], a[2]) = {}
      BY <1>1, <3>1 DEF HeapOK, Heap, Apart
    <3> HIDE DEF h, a
    <3> QED
      BY <1>1, <2>2, <2>3, <3>1, <3>2
  <2> QED
    BY <2>1, <2>4, <2>5
<1>12. free_area' \in [Orders -> SUBSET Pages]
  <2>1. \A j \in Orders : free_area[j] \subseteq Pages
    BY DEF TypeOK
  <2>2. \A j \in Orders : free_area'[j] \subseteq Pages
    BY <1>5, <1>11, <2>1
  <2>3. free_area' = [j \in Orders |-> free_area'[j]]
    BY <1>4
  <2> QED
    BY <2>2, <2>3
<1>13. \A j \in Orders : /\ IsFiniteSet(free_area[j]) /\ Cardinality(free_area[j]) \in Nat
                         /\ num_blocks[j] = Cardinality(free_area[j])
  BY FreeFinite, FS_CardinalityType DEF CountsAgree
<1>14. ASSUME NEW j \in Orders
       PROVE  /\ num_blocks'[j] = Cardinality(free_area'[j]) /\ num_blocks'[j] \in Nat
  <2>1. num_blocks'[j] = num_blocks[j] + (IF j \in o..c - 1 THEN 1 ELSE 0) - (IF j = c THEN 1 ELSE 0)
    BY <1>4
  <2>2. CASE j \in o..c - 1
    <3> DEFINE h == b + 2^j
    <3>1. j # c
      BY <1>2, <2>2
    <3>2. free_area'[j] = free_area[j] \cup {h} /\ h \notin free_area[j]
      BY <1>5, <1>11, <2>2, <3>1
    <3> HIDE DEF h
    <3>3. Cardinality(free_area[j] \cup {h}) = Cardinality(free_area[j]) + 1
      BY <1>13, <3>2, FS_AddElement
    <3> QED
      BY <1>13, <2>1, <2>2, <3>1, <3>2, <3>3
  <2>3. CASE j = c
    <3>1. j \notin o..c - 1
      BY <1>2, <2>3
    <3>2. free_area'[j] = free_area[j] \ {b}
      BY <1>5, <2>3, <3>1
    <3>3. Cardinality(free_area[j] \ {b}) = Cardinality(free_area[j]) - 1
      BY <1>13, <2>3, FS_RemoveElement
    <3>4. Cardinality(free_area[j]) # 0
      BY <1>13, <2>3, FS_EmptySet
    <3> QED
      BY <1>13, <2>1, <2>3, <3>1, <3>2, <3>3, <3>4
  <2>4. CASE j # c /\ j \notin o..c - 1
    <3>1. free_area'[j] = free_area[j]
      BY <1>5, <2>4
    <3> QED
      BY <1>13, <2>1, <2>4, <3>1
  <2> QED
    BY <2>2, <2>3, <2>4
<1>15. num_blocks' \in [Orders -> Nat]
  BY <1>4, <1>14
<1>16. num_pages' = Cardinality(PagesOf(Free')) /\ num_pages' \in Nat
  <2> DEFINE S == PagesOf(Free)
             B == Block(b, o)
  <2>1. IsFiniteSet(S) /\ num_pages = Cardinality(S) /\ num_pages \in Nat
    BY FreeFinite DEF CountsAgree, TypeOK
  <2>2. IsFiniteSet(B) /\ Cardinality(B) = 2^o /\ 2^o \in Nat
    BY <1>2, BlockSize, PowNat
  <2>3. B \subseteq S
    BY <1>7
  <2> HIDE DEF S, B
  <2>4. Cardinality(S \ B) = Cardinality(S) - Cardinality(S \cap B)
    BY <2>1, FS_Difference
  <2>5. S \cap B = B
    BY <2>3
  <2>6. IsFiniteSet(S \ B)
    BY <2>1, FS_Difference
  <2>7. Cardinality(S \ B) \in Nat
    BY <2>6, FS_CardinalityType
  <2>8. PagesOf(Free') = S \ B
    BY <1>10 DEF S, B
  <2> QED
    BY <2>1, <2>2, <2>4, <2>5, <2>7, <2>8
<1>17. CountsAgree'
  BY <1>14, <1>16 DEF CountsAgree
<1> QED
  BY <1>3, <1>7, <1>9, <1>10, <1>12, <1>15, <1>16, <1>17
-----------------------------------------------------------------------------
(* Booting.                                                                *)

\* The pages that lie in a region as a whole.
LEMMA PageInEntry ==
    ASSUME NEW e \in Entries, NEW p \in Nat
    PROVE  p \in PagesIn(e) <=> e.base <= p * PAGE_SIZE /\ (p + 1) * PAGE_SIZE <= e.base + e.length
<1> USE SizeAssumption
<1> DEFINE end == e.base + e.length
           x == e.base \div PAGE_SIZE
           y == end \div PAGE_SIZE
<1>1. e.base \in Nat /\ e.length \in Nat /\ end \in Nat
  BY EntriesAssumption
<1>2. /\ x \in Nat /\ x * PAGE_SIZE <= e.base /\ y \in Nat
      /\ y * PAGE_SIZE <= end /\ end < (y + 1) * PAGE_SIZE
  <2> HIDE DEF end
  <2> QED
    BY <1>1
<1>3. PagesIn(e) = {q \in x..y - 1 : e.base <= q * PAGE_SIZE}
  BY DEF PagesIn
<1> HIDE DEF end, x, y
<1>4. ASSUME p \in PagesIn(e) PROVE e.base <= p * PAGE_SIZE /\ (p + 1) * PAGE_SIZE <= end
  <2>1. e.base <= p * PAGE_SIZE /\ p + 1 <= y
    BY <1>2, <1>3, <1>4
  <2>2. (p + 1) * PAGE_SIZE <= y * PAGE_SIZE
    BY <1>2, <2>1
  <2> QED
    BY <1>1, <1>2, <2>1, <2>2
<1>5. ASSUME e.base <= p * PAGE_SIZE, (p + 1) * PAGE_SIZE <= end PROVE p \in PagesIn(e)
  <2>1. x * PAGE_SIZE <= p * PAGE_SIZE /\ (p + 1) * PAGE_SIZE < (y + 1) * PAGE_SIZE
    BY <1>1, <1>2, <1>5
  <2>2. x <= p /\ p + 1 < y + 1
    BY <1>2, <2>1
  <2> QED
    BY <1>2, <1>3, <1>5, <2>2
<1> QED
  BY <1>4, <1>5 DEF end

\* ALIGN_PAGE is the first page address that is not below a.
LEMMA AlignUp ==
    ASSUME NEW a \in Nat
    PROVE  /\ ALIGN_PAGE(a) \in Nat /\ ALIGN_PAGE(a) % PAGE_SIZE = 0 /\ ALIGN_PAGE(a) >= a
           /\ \A p \in Nat : a <= p * PAGE_SIZE => ALIGN_PAGE(a) <= p * PAGE_SIZE
<1> USE SizeAssumption
<1> DEFINE k == (a + PAGE_SIZE - 1) \div PAGE_SIZE
<1>1. a + PAGE_SIZE - 1 \in Nat
  OBVIOUS
<1>2. k \in Nat /\ k * PAGE_SIZE <= a + PAGE_SIZE - 1 /\ a + PAGE_SIZE - 1 < (k + 1) * PAGE_SIZE
  BY <1>1
<1> HIDE DEF k
<1>3. ALIGN_PAGE(a) = k * PAGE_SIZE
  BY DEF ALIGN_PAGE, k
<1>4. k * PAGE_SIZE \in Nat /\ (k * PAGE_SIZE) % PAGE_SIZE = 0
  BY <1>2
<1>5. (k + 1) * PAGE_SIZE = k * PAGE_SIZE + PAGE_SIZE
  BY <1>2
<1>6. k * PAGE_SIZE >= a
  BY <1>2, <1>4, <1>5
<1>7. ASSUME NEW p \in Nat, a <= p * PAGE_SIZE PROVE k * PAGE_SIZE <= p * PAGE_SIZE
  <2>1. k * PAGE_SIZE < (p + 1) * PAGE_SIZE
    BY <1>2, <1>4, <1>7
  <2>2. k < p + 1
    BY <1>2, <2>1
  <2> QED
    BY <1>2, <2>2
<1> QED
  BY <1>3, <1>4, <1>6, <1>7

\* The sorted map has every region once.
LEMMA EntriesOnce ==
    ASSUME mmap \in Seq(Entries), MmapSorted
    PROVE  /\ Len(mmap) \in Nat /\ DOMAIN mmap = 1..Len(mmap)
           /\ \A i \in 1..Len(mmap) : mmap[i] \in Entries
           /\ \A i, j \in 1..Len(mmap) : mmap[i] = mmap[j] => i = j
           /\ \A e \in Entries : \E i \in 1..Len(mmap) : mmap[i] = e
<1>1. /\ Len(mmap) \in Nat /\ DOMAIN mmap = 1..Len(mmap)
      /\ \A i \in 1..Len(mmap) : mmap[i] \in Entries
  OBVIOUS
<1>2. \A e \in Entries : \E i \in 1..Len(mmap) : mmap[i] = e
  BY <1>1 DEF MmapSorted, Range
<1>3. IsFiniteSet(1..Len(mmap)) /\ Cardinality(1..Len(mmap)) = Len(mmap)
  <2> DEFINE n == Len(mmap)
  <2>1. n \in Nat
    BY <1>1
  <2> HIDE DEF n
  <2>2. IsFiniteSet(1..n) /\ Cardinality(1..n) = n
    BY <2>1, FS_Interval
  <2> QED
    BY <2>2 DEF n
<1>4. mmap \in Surjection(1..Len(mmap), Entries)
  BY <1>1, <1>2 DEF Surjection
<1>5. Cardinality(1..Len(mmap)) = Cardinality(Entries) /\ IsFiniteSet(Entries)
  BY <1>3, EntriesAssumption DEF MmapSorted
<1>6. mmap \in Injection(1..Len(mmap), Entries)
  BY <1>3, <1>4, <1>5, FS_SurjSameCardinalityImpliesInj
<1> QED
  BY <1>1, <1>2, <1>6 DEF Injection, IsInjective

\* The page that init_free_pages has come to.
LEMMA ScanPage ==
    ASSUME TypeOK, MmapSorted, entry # 0, start % PAGE_SIZE = 0, start >= mmap[entry].base,
           mmap[entry].usable, in_entry, NEW p, p = start \div PAGE_SIZE
    PROVE  /\ p \in Nat /\ p * PAGE_SIZE = start
           /\ p \in PagesIn(mmap[entry]) /\ p \in Pages
           /\ \A i \in 1..entry - 1 : mmap[i].usable => p \notin PagesIn(mmap[i])
<1> USE SizeAssumption
<1>1. start \in Nat /\ entry \in 1..Len(mmap) /\ mmap \in Seq(Entries)
  BY DEF TypeOK
<1>2. /\ Len(mmap) \in Nat /\ DOMAIN mmap = 1..Len(mmap)
      /\ \A i \in 1..Len(mmap) : mmap[i] \in Entries
      /\ \A i, j \in 1..Len(mmap) : mmap[i] = mmap[j] => i = j
  BY <1>1, EntriesOnce
<1>3. p \in Nat /\ p * PAGE_SIZE = start /\ (p + 1) * PAGE_SIZE = start + PAGE_SIZE
  BY <1>1
<1>4. \A i \in 1..Len(mmap) : mmap[i].base \in Nat /\ mmap[i].length \in Nat
  BY <1>2, EntriesAssumption
<1>5. p \in PagesIn(mmap[entry])
  <2>1. mmap[entry] \in Entries
    BY <1>1, <1>2
  <2> QED
    BY <1>3, <2>1, PageInEntry DEF in_entry
<1>6. p \in Pages
  <2> DEFINE end == mmap[entry].base + mmap[entry].length
  <2>1. total_pages \in Nat /\ end \div PAGE_SIZE <= total_pages
    BY <1>1, <1>2, TopOfMemory
  <2>2. end \in Nat /\ (p + 1) * PAGE_SIZE <= end
    BY <1>1, <1>3, <1>4 DEF in_entry
  <2> HIDE DEF end
  <2> DEFINE y == end \div PAGE_SIZE
  <2>3. y \in Nat /\ end < (y + 1) * PAGE_SIZE
    BY <2>2
  <2> HIDE DEF y
  <2>4. (p + 1) * PAGE_SIZE < (y + 1) * PAGE_SIZE
    BY <1>3, <2>2, <2>3
  <2>5. p + 1 < y + 1
    BY <1>3, <2>3, <2>4
  <2>6. p < total_pages
    BY <1>3, <2>1, <2>3, <2>5 DEF y
  <2> QED
    BY <1>3, <2>1, <2>6 DEF Pages
<1>7. ASSUME NEW i \in 1..entry - 1, mmap[i].usable, p \in PagesIn(mmap[i]) PROVE FALSE
  <2>1. i \in 1..Len(mmap) /\ i # entry
    BY <1>1, <1>2
  <2>2. mmap[i] # mmap[entry] /\ mmap[i] \in Entries /\ mmap[entry] \in Entries
    BY <1>1, <1>2, <2>1
  <2>3. \/ mmap[i].base + mmap[i].length <= mmap[entry].base
        \/ mmap[entry].base + mmap[entry].length <= mmap[i].base
    BY <2>2, EntriesAssumption
  <2>4. /\ mmap[i].base <= p * PAGE_SIZE /\ (p + 1) * PAGE_SIZE <= mmap[i].base + mmap[i].length
        /\ mmap[entry].base <= p * PAGE_SIZE
        /\ (p + 1) * PAGE_SIZE <= mmap[entry].base + mmap[entry].length
    BY <1>3, <1>5, <1>7, <2>2, PageInEntry
  <2>5. /\ mmap[i].base \in Nat /\ mmap[i].length \in Nat
        /\ mmap[entry].base \in Nat /\ mmap[entry].length \in Nat
    BY <1>1, <1>4, <2>1
  <2>6. PAGE_SIZE \in Nat /\ PAGE_SIZE > 0 /\ p * PAGE_SIZE \in Nat
        /\ (p + 1) * PAGE_SIZE = p * PAGE_SIZE + PAGE_SIZE
    BY <1>1, <1>3
  <2> DEFINE x == p * PAGE_SIZE
             y == (p + 1) * PAGE_SIZE
  <2> HIDE DEF x, y
  <2>7. x \in Nat /\ y = x + PAGE_SIZE
    BY <2>6 DEF x, y
  <2>8. /\ mmap[i].base <= x /\ y <= mmap[i].base + mmap[i].length
        /\ mmap[entry].base <= x /\ y <= mmap[entry].base + mmap[entry].length
    BY <2>4 DEF x, y
  <2> QED
    BY <2>3, <2>5, <2>6, <2>7, <2>8
<1> QED
  BY <1>3, <1>5, <1>6, <1>7
\* Pages are handed over exactly where the lock functions and the BIOS allow.
LEMMA MemoryPages ==
    ASSUME NEW i \in DOMAIN mmap, mmap \in Seq(Entries), mmap[i].usable,
           NEW p \in PagesIn(mmap[i]), p \in Pages
    PROVE  p \in Memory <=> p # 0 /\ p \notin Locked
<1>1. mmap[i] \in Entries /\ mmap[i] \in {f \in Entries : f.usable}
  OBVIOUS
<1>2. p \in UNION {PagesIn(e) : e \in {f \in Entries : f.usable}}
  BY <1>1
<1>3. p \in Nat
  BY DEF Pages
<1>4. p \in Locked <=> p \in (0..BootEnd - 1 \cup 0..StackEnd - 1 \cup KernelStart..KernelEnd - 1)
  BY <1>3, LockAssumption DEF Locked
<1> QED
  BY <1>2, <1>4 DEF Memory

\* The types of what the heap is made of.
LEMMA HeapTypes ==
    ASSUME NEW F, NEW O, NEW fl, NEW od, NEW n \in Nat, Heap(F, O, fl, od, n)
    PROVE  /\ fl \in [0..n - 1 -> SUBSET {USED, LOCK}] /\ od \in [0..n - 1 -> Orders]
           /\ O \subseteq (0..n - 1) \X Orders
<1> USE OrderAssumption
<1>1. ASSUME NEW c \in O PROVE c \in (0..n - 1) \X Orders
  <2>1. /\ c[1] \in Nat /\ c[2] \in Orders /\ c = <<c[1], c[2]>>
        /\ Block(c[1], c[2]) \subseteq 1..n - 1
    BY DEF Heap, AreBlocks
  <2>2. c[1] \in Block(c[1], c[2])
    BY <2>1, PowPos DEF Block, Orders
  <2>3. c[1] \in 0..n - 1
    BY <2>1, <2>2
  <2> QED
    BY <2>1, <2>3
<1> QED
  BY <1>1 DEF Heap

\* init_free_page: the next page of a usable region becomes free unless it is
\* locked.
LEMMA InitFreePageStep ==
    ASSUME IInv, init_free_page
    PROVE  /\ IInv'
           /\ \/ PagesOf(Free') = PagesOf(Free)
              \/ \E p \in Memory \ PagesOf(Free) : PagesOf(Free') = PagesOf(Free) \cup {p}
<1> USE SizeAssumption, OrderAssumption
<1> DEFINE p == start \div PAGE_SIZE
<1>1. /\ TypeOK /\ MmapSorted /\ HeapOK /\ CountsAgree
      /\ entry # 0 /\ mmap[entry].usable /\ in_entry
      /\ start' = start + PAGE_SIZE /\ mmap' = mmap /\ entry' = entry /\ owned' = owned /\ ret' = ret
      /\ IF LOCK \in flags[p] \/ p = 0 THEN UNCHANGED <<headers, areas>> ELSE free_block(p, 0)
  BY DEF IInv, init_free_page
<1>2. /\ owned = {} /\ start % PAGE_SIZE = 0 /\ start >= mmap[entry].base
      /\ PagesOf(Free) = Scanned
      /\ \A x \in Pages \ PagesOf(Free) :
           order[x] = 0 /\ flags[x] = IF x \in Locked THEN {USED, LOCK} ELSE {USED}
  BY <1>1 DEF IInv, Booting
<1>3. /\ mmap \in Seq(Entries) /\ entry \in 1..Len(mmap) /\ start \in Nat /\ ret \in Pages \cup {0}
      /\ Len(mmap) \in Nat /\ entry \in DOMAIN mmap
  BY <1>1 DEF TypeOK
<1>4. /\ p \in Nat /\ p * PAGE_SIZE = start /\ p \in PagesIn(mmap[entry]) /\ p \in Pages
      /\ \A i \in 1..entry - 1 : mmap[i].usable => p \notin PagesIn(mmap[i])
  BY <1>1, <1>2, ScanPage
<1> HIDE DEF p
<1>5. p \in Memory <=> p # 0 /\ p \notin Locked
  BY <1>1, <1>3, <1>4, MemoryPages
<1>6. total_pages \in Nat
  BY <1>1, <1>3, TopOfMemory
<1>7. total_pages' = total_pages /\ Pages' = Pages /\ Locked' = Locked
  BY <1>1, PagesStay
<1>8. p \notin Scanned
  <2> SUFFICES ASSUME NEW i \in 1..entry, mmap[i].usable, p \in PagesIn(mmap[i]),
                      i = entry => p * PAGE_SIZE < start
               PROVE  FALSE
    BY DEF Scanned
  <2>1. i # entry
    BY <1>3, <1>4
  <2>2. i \in 1..entry - 1
    BY <1>3, <2>1
  <2> QED
    BY <1>4, <2>2
<1>9. Scanned' = Scanned \cup ({p} \cap Memory)
  <2>1. ASSUME NEW x \in Scanned' PROVE x \in Scanned \cup ({p} \cap Memory)
    <3>1. PICK i \in 1..entry : mmap[i].usable /\ x \in PagesIn(mmap[i])
                                /\ (i = entry => x * PAGE_SIZE < start + PAGE_SIZE)
      BY <1>1 DEF Scanned
    <3>2. x \in Memory
      BY DEF Scanned
    <3>3. CASE i # entry \/ x * PAGE_SIZE < start
      BY <3>1, <3>2, <3>3 DEF Scanned
    <3>4. CASE i = entry /\ ~(x * PAGE_SIZE < start)
      <4>1. x \in Int
        BY <3>1 DEF PagesIn
      <4>2. x * PAGE_SIZE < (p + 1) * PAGE_SIZE /\ ~(x * PAGE_SIZE < p * PAGE_SIZE)
        BY <1>3, <1>4, <3>1, <3>4
      <4>3. x < p + 1 /\ ~(x < p)
        BY <1>4, <4>1, <4>2
      <4> QED
        BY <1>4, <3>2, <4>1, <4>3
    <3> QED
      BY <3>3, <3>4
  <2>2. ASSUME NEW x \in Scanned PROVE x \in Scanned'
    <3>1. PICK i \in 1..entry : mmap[i].usable /\ x \in PagesIn(mmap[i])
                                /\ (i = entry => x * PAGE_SIZE < start)
      BY DEF Scanned
    <3>2. x \in Int
      BY <3>1 DEF PagesIn
    <3>3. i = entry => x * PAGE_SIZE < start + PAGE_SIZE
      BY <1>3, <3>1, <3>2
    <3>4. x \in Memory
      BY DEF Scanned
    <3> QED
      BY <1>1, <3>1, <3>3, <3>4 DEF Scanned
  <2>3. ASSUME p \in Memory PROVE p \in Scanned'
    <3>1. p * PAGE_SIZE < start + PAGE_SIZE /\ entry \in 1..entry
      BY <1>3, <1>4
    <3> QED
      BY <1>1, <1>4, <2>3, <3>1 DEF Scanned
  <2> QED
    BY <2>1, <2>2, <2>3
<1>10. (LOCK \in flags[p]) <=> p \in Locked
  <2>1. flags[p] = IF p \in Locked THEN {USED, LOCK} ELSE {USED}
    BY <1>2, <1>4, <1>8
  <2> QED
    BY <2>1 DEF USED, LOCK
<1>11. MmapSorted' /\ start' % PAGE_SIZE = 0 /\ start' >= mmap'[entry'].base /\ MemoryConserved'
  <2>1. MmapSorted'
    BY <1>1 DEF MmapSorted
  <2>2. start' = (p + 1) * PAGE_SIZE /\ (p + 1) \in Nat
    BY <1>1, <1>4
  <2>3. start' % PAGE_SIZE = 0
    <3> DEFINE s == start'
    <3>1. s \in Nat /\ s = (p + 1) * PAGE_SIZE
      BY <1>1, <1>3, <2>2
    <3> HIDE DEF s
    <3>2. s % PAGE_SIZE = 0
      BY <2>2, <3>1, ModZero
    <3> QED
      BY <3>2 DEF s
  <2>4. mmap[entry].base \in Nat
    BY <1>3, EntriesAssumption
  <2>5. start' >= mmap'[entry'].base
    BY <1>1, <1>2, <1>3, <2>4
  <2> QED
    BY <1>1, <2>1, <2>3, <2>5 DEF MemoryConserved
<1>12. CASE LOCK \in flags[p] \/ p = 0
  <2>1. /\ flags' = flags /\ order' = order /\ free_area' = free_area
        /\ num_blocks' = num_blocks /\ num_pages' = num_pages
    BY <1>1, <1>12 DEF headers, areas, p
  <2>2. Free' = Free
    BY <2>1 DEF Free
  <2>3. Scanned' = Scanned
    BY <1>5, <1>9, <1>10, <1>12
  <2>4. TypeOK'
    BY <1>1, <1>3, <1>7, <2>1 DEF TypeOK
  <2>5. HeapOK'
    BY <1>1, <1>7, <2>1, <2>2, Zenon DEF HeapOK
  <2>6. CountsAgree'
    BY <1>1, <2>1, <2>2, Zenon DEF CountsAgree
  <2>7. Booting'
    BY <1>1, <1>2, <1>7, <1>11, <2>1, <2>2, <2>3 DEF Booting
  <2> QED
    BY <1>11, <2>2, <2>4, <2>5, <2>6, <2>7, Zenon DEF IInv
<1>13. CASE ~(LOCK \in flags[p] \/ p = 0)
  <2>1. free_block(p, 0)
    BY <1>1, <1>13 DEF p
  <2>2. p \in Memory
    BY <1>5, <1>10, <1>13
  <2>3. 2^0 = 1 /\ Block(p, 0) = {p}
    <3>1. 2^0 = 1
      OBVIOUS
    <3> QED
      BY <1>4, <3>1 DEF Block
  <2>4. Room(Free, owned \ {<<p, 0>>}, p, 0, total_pages)
    <3>1. 0 \in Orders
      BY DEF Orders
    <3>2. Aligned(p, 0)
      BY <1>4, <2>3 DEF Aligned
    <3>3. p \in 1..total_pages - 1
      BY <1>4, <1>6, <1>13 DEF Pages
    <3>4. \A c \in Free : p \notin Block(c[1], c[2])
      BY <1>2, <1>8 DEF PagesOf
    <3> QED
      BY <1>2, <1>4, <2>3, <3>1, <3>2, <3>3, <3>4 DEF Room
  <2>5. order[p] = 0
    BY <1>2, <1>4, <1>8
  <2>6. owned' = owned \ {<<p, 0>>}
    BY <1>1, <1>2
  <2>7. /\ HeapOK' /\ CountsAgree' /\ PagesOf(Free') = PagesOf(Free) \cup {p}
        /\ free_area' \in [Orders -> SUBSET Pages]
        /\ num_blocks' \in [Orders -> Nat] /\ num_pages' \in Nat
        /\ \A x \in Pages \ PagesOf(Free') : flags'[x] = flags[x] /\ order'[x] = order[x]
    BY <1>1, <1>6, <2>1, <2>3, <2>4, <2>5, <2>6, FreeStep
  <2>8. Heap(Free', owned', flags', order', total_pages)
    BY <1>7, <2>7, Zenon DEF HeapOK
  <2>9. flags' \in [Pages -> SUBSET {USED, LOCK}] /\ order' \in [Pages -> Orders]
    BY <1>6, <2>8, HeapTypes, Zenon DEF Pages
  <2>10. TypeOK'
    BY <1>1, <1>2, <1>3, <1>7, <2>7, <2>9 DEF TypeOK
  <2>11. PagesOf(Free') = Scanned'
    BY <1>2, <1>9, <2>2, <2>7
  <2>12. Booting'
    <3>1. \A x \in Pages \ PagesOf(Free') :
            order'[x] = 0 /\ flags'[x] = IF x \in Locked THEN {USED, LOCK} ELSE {USED}
      BY <1>2, <2>7
    <3> QED
      BY <1>1, <1>2, <1>7, <1>11, <2>11, <3>1 DEF Booting
  <2>13. p \in Memory \ PagesOf(Free)
    BY <1>2, <1>8, <2>2
  <2> QED
    BY <1>11, <2>7, <2>10, <2>12, <2>13, Zenon DEF IInv
<1> QED
  BY <1>12, <1>13

\* init_next_entry: nothing of the region is left, and the next one begins.
LEMMA InitNextEntryStep ==
    ASSUME IInv, init_next_entry
    PROVE  IInv' /\ PagesOf(Free') = PagesOf(Free)
<1> USE SizeAssumption, OrderAssumption
<1>1. /\ TypeOK /\ MmapSorted /\ HeapOK /\ CountsAgree
      /\ entry # 0 /\ (mmap[entry].usable => ~in_entry)
      /\ mmap' = mmap /\ flags' = flags /\ order' = order /\ free_area' = free_area
      /\ num_blocks' = num_blocks /\ num_pages' = num_pages /\ owned' = owned /\ ret' = ret
  BY DEF IInv, init_next_entry, headers, areas
<1>2. \/ entry < Len(mmap) /\ entry' = entry + 1 /\ start' = ALIGN_PAGE(mmap[entry + 1].base)
      \/ entry >= Len(mmap) /\ entry' = 0 /\ start' = 0
  <2>1. entry \in Nat /\ Len(mmap) \in Nat
    BY <1>1 DEF TypeOK
  <2> QED
    BY <2>1 DEF init_next_entry
<1>3. /\ owned = {} /\ start % PAGE_SIZE = 0 /\ start >= mmap[entry].base
      /\ PagesOf(Free) = Scanned
      /\ \A x \in Pages \ PagesOf(Free) :
           order[x] = 0 /\ flags[x] = IF x \in Locked THEN {USED, LOCK} ELSE {USED}
  BY <1>1 DEF IInv, Booting
<1>4. mmap \in Seq(Entries) /\ entry \in 1..Len(mmap) /\ start \in Nat /\ Len(mmap) \in Nat
  BY <1>1 DEF TypeOK
<1>5. /\ \A i \in 1..Len(mmap) : mmap[i] \in Entries
      /\ \A e \in Entries : \E i \in 1..Len(mmap) : mmap[i] = e
  BY <1>1, <1>4, EntriesOnce
<1>6. \A i \in 1..Len(mmap) : mmap[i].base \in Nat /\ mmap[i].length \in Nat
  BY <1>5, EntriesAssumption
<1>7. total_pages' = total_pages /\ Pages' = Pages /\ Locked' = Locked
  BY <1>1, PagesStay
<1>8. Free' = Free
  BY <1>1 DEF Free
<1> DEFINE Over == {p \in Memory : \E i \in 1..entry : mmap[i].usable /\ p \in PagesIn(mmap[i])}
<1>9. Scanned = Over
  <2>1. ASSUME NEW p \in Memory, mmap[entry].usable, p \in PagesIn(mmap[entry])
        PROVE  p * PAGE_SIZE < start
    <3>1. p \in Nat
      <4>1. mmap[entry].base \in Nat
        BY <1>4, <1>6
      <4>2. mmap[entry].base \div PAGE_SIZE \in Nat
        BY <4>1
      <4> QED
        BY <2>1, <4>2 DEF PagesIn
    <3>2. (p + 1) * PAGE_SIZE <= mmap[entry].base + mmap[entry].length
      BY <1>4, <1>5, <2>1, <3>1, PageInEntry
    <3>3. ~(start + PAGE_SIZE <= mmap[entry].base + mmap[entry].length)
      BY <1>1, <2>1 DEF in_entry
    <3>4. (p + 1) * PAGE_SIZE = p * PAGE_SIZE + PAGE_SIZE /\ p * PAGE_SIZE \in Nat
      BY <3>1
    <3>5. mmap[entry].base + mmap[entry].length \in Nat
      BY <1>4, <1>6
    <3> QED
      BY <1>4, <3>2, <3>3, <3>4, <3>5
  <2> QED
    BY <1>4, <2>1 DEF Scanned
<1>10. TypeOK'
  <2>1. entry' \in 0..Len(mmap')
    BY <1>1, <1>2, <1>4
  <2>2. start' \in Nat
    <3>1. CASE entry < Len(mmap)
      <4>1. entry + 1 \in 1..Len(mmap)
        BY <1>4, <3>1
      <4>2. mmap[entry + 1].base \in Nat
        BY <1>6, <4>1
      <4>3. ALIGN_PAGE(mmap[entry + 1].base) \in Nat
        BY <4>2, AlignUp
      <4> QED
        BY <1>2, <1>4, <3>1, <4>3
    <3>2. CASE ~(entry < Len(mmap))
      BY <1>2, <1>4, <3>2
    <3> QED
      BY <3>1, <3>2
  <2> QED
    BY <1>1, <1>7, <2>1, <2>2 DEF TypeOK
<1>11. MmapSorted' /\ HeapOK' /\ CountsAgree'
  <2>1. MmapSorted'
    BY <1>1 DEF MmapSorted
  <2>2. HeapOK'
    BY <1>1, <1>7, <1>8, Zenon DEF HeapOK
  <2>3. CountsAgree'
    BY <1>1, <1>8, Zenon DEF CountsAgree
  <2> QED
    BY <2>1, <2>2, <2>3
<1>12. CASE entry < Len(mmap)
  <2>1. /\ entry' = entry + 1 /\ start' = ALIGN_PAGE(mmap[entry + 1].base)
        /\ entry + 1 \in 1..Len(mmap)
    BY <1>2, <1>4, <1>12
  <2>2. mmap[entry + 1].base \in Nat /\ mmap[entry + 1] \in Entries
    BY <1>5, <1>6, <2>1
  <2>3. start' % PAGE_SIZE = 0 /\ start' >= mmap'[entry'].base
    BY <1>1, <2>1, <2>2, AlignUp
  <2>4. \A p \in Nat : p \in PagesIn(mmap[entry + 1]) => ~(p * PAGE_SIZE < start')
    <3> TAKE p \in Nat
    <3> HAVE p \in PagesIn(mmap[entry + 1])
    <3>1. mmap[entry + 1].base <= p * PAGE_SIZE
      BY <2>2, PageInEntry
    <3> DEFINE a == mmap[entry + 1].base
    <3>2. a \in Nat /\ a <= p * PAGE_SIZE /\ start' = ALIGN_PAGE(a)
      BY <2>1, <2>2, <3>1
    <3> HIDE DEF a
    <3>3. ALIGN_PAGE(a) <= p * PAGE_SIZE /\ ALIGN_PAGE(a) \in Nat
      BY <3>2, AlignUp
    <3>4. p * PAGE_SIZE \in Nat
      OBVIOUS
    <3> QED
      BY <3>2, <3>3, <3>4
  <2>5. \A p \in PagesIn(mmap[entry + 1]) : p \in Nat
    <3>1. mmap[entry + 1].base \div PAGE_SIZE \in Nat
      BY <2>2
    <3> QED
      BY <3>1 DEF PagesIn
  <2>6. Scanned' = Over
    <3>1. ASSUME NEW x \in Scanned' PROVE x \in Over
      <4>1. x \in Memory
        BY DEF Scanned
      <4>2. PICK i \in 1..entry + 1 : mmap[i].usable /\ x \in PagesIn(mmap[i])
                                      /\ (i = entry + 1 => x * PAGE_SIZE < start')
        BY <1>1, <2>1 DEF Scanned
      <4>3. i # entry + 1
        BY <2>4, <2>5, <4>2
      <4>4. i \in 1..entry
        BY <1>4, <4>3
      <4> QED
        BY <4>1, <4>2, <4>4
    <3>2. ASSUME NEW x \in Over PROVE x \in Scanned'
      <4>1. PICK i \in 1..entry : mmap[i].usable /\ x \in PagesIn(mmap[i])
        OBVIOUS
      <4>2. i \in 1..entry + 1 /\ i # entry + 1
        BY <1>4
      <4> QED
        BY <1>1, <2>1, <4>1, <4>2 DEF Scanned
    <3> QED
      BY <3>1, <3>2
  <2>7. entry' # 0
    BY <1>4, <2>1
  <2>8. Booting'
    BY <1>1, <1>3, <1>7, <1>8, <1>9, <2>3, <2>6 DEF Booting
  <2>9. MemoryConserved'
    BY <2>7 DEF MemoryConserved
  <2> QED
    BY <1>8, <1>10, <1>11, <2>8, <2>9 DEF IInv
<1>13. CASE ~(entry < Len(mmap))
  <2>1. entry' = 0 /\ entry = Len(mmap)
    BY <1>2, <1>4, <1>13
  <2>2. Over = Memory
    <3> SUFFICES ASSUME NEW p \in Memory PROVE p \in Over
      OBVIOUS
    <3>1. PICK e \in Entries : e.usable /\ p \in PagesIn(e)
      BY DEF Memory
    <3>2. PICK i \in 1..Len(mmap) : mmap[i] = e
      BY <1>5
    <3> QED
      BY <2>1, <3>1, <3>2
  <2>3. PagesOf(Free \cup owned) = PagesOf(Free)
    <3>1. Free \cup owned = Free
      BY <1>3
    <3> QED
      BY <3>1, Zenon
  <2>4. PagesOf(Free' \cup owned') = Memory
    BY <1>1, <1>3, <1>8, <1>9, <2>2, <2>3, Zenon
  <2>5. MemoryConserved'
    BY <2>4 DEF MemoryConserved
  <2>6. Booting'
    BY <2>1 DEF Booting
  <2> QED
    BY <1>8, <1>10, <1>11, <2>5, <2>6 DEF IInv
<1> QED
  BY <1>12, <1>13

\* The pages of two sets of blocks.
LEMMA PagesUnion ==
    ASSUME NEW B, NEW C
    PROVE  PagesOf(B \cup C) = PagesOf(B) \cup PagesOf(C)
BY DEF PagesOf

\* pmm_alloc_pages with a block to give.
LEMMA AllocPagesStep ==
    ASSUME IInv, NEW o \in Orders, pmm_alloc_pages(o)
    PROVE  /\ IInv'
           /\ \E b \in Pages : /\ owned' = owned \cup {<<b, o>>} /\ ret' = b
                               /\ b % 2^o = 0 /\ b \in Block(b, o)
                               /\ Block(b, o) \subseteq PagesOf(Free)
                               /\ PagesOf(Free') = PagesOf(Free) \ Block(b, o)
<1> USE SizeAssumption, OrderAssumption
<1>1. /\ TypeOK /\ MmapSorted /\ HeapOK /\ CountsAgree
      /\ entry = 0 /\ check_orders(o) # {}
      /\ mmap' = mmap /\ entry' = entry /\ start' = start /\ num_pages' = num_pages - 2^o
  BY DEF IInv, pmm_alloc_pages, scan
<1> DEFINE c == Min(check_orders(o))
<1>2. c \in check_orders(o)
  <2> DEFINE S == check_orders(o)
  <2>1. S \in SUBSET Nat /\ S # {}
    BY <1>1 DEF check_orders, Orders
  <2> HIDE DEF S
  <2>2. \E x \in S : \A y \in S : x <= y
    BY <2>1, LeastNat
  <2>3. Min(S) \in S
    BY <2>2 DEF Min
  <2> QED
    BY <2>3 DEF S
<1>3. PICK b \in free_area[c] : /\ alloc_block(b, c, o)
                                /\ owned' = owned \cup {<<b, o>>}
                                /\ ret' = b
  BY DEF pmm_alloc_pages
<1> HIDE DEF c
<1>4. c \in Orders /\ o <= c /\ o \in Nat
  BY <1>2 DEF check_orders, Orders
<1>5. mmap \in Seq(Entries) /\ start \in Nat /\ total_pages \in Nat
  BY <1>1, TopOfMemory DEF TypeOK
<1>6. /\ HeapOK' /\ CountsAgree'
      /\ PagesOf(Free') = PagesOf(Free) \ Block(b, o) /\ Block(b, o) \subseteq PagesOf(Free)
      /\ free_area' \in [Orders -> SUBSET Pages]
      /\ num_blocks' \in [Orders -> Nat] /\ num_pages' \in Nat /\ b \in Pages
  BY <1>1, <1>3, <1>4, <1>5, AllocStep
<1>7. total_pages' = total_pages /\ Pages' = Pages
  BY <1>1, PagesStay
<1>8. Heap(Free', owned', flags', order', total_pages)
  BY <1>6, <1>7, Zenon DEF HeapOK
<1>9. /\ flags' \in [Pages -> SUBSET {USED, LOCK}] /\ order' \in [Pages -> Orders]
      /\ owned' \subseteq Pages \X Orders
  BY <1>5, <1>8, HeapTypes, Zenon DEF Pages
<1>10. TypeOK'
  BY <1>1, <1>3, <1>5, <1>6, <1>7, <1>9 DEF TypeOK
<1>11. MmapSorted'
  BY <1>1 DEF MmapSorted
<1>12. MemoryConserved'
  <2> DEFINE e == <<b, o>>
  <2>1. PagesOf({e}) = Block(b, o)
    <3>1. e[1] = b /\ e[2] = o
      OBVIOUS
    <3> HIDE DEF e
    <3> QED
      BY <3>1 DEF PagesOf
  <2>2. PagesOf(Free \cup owned) = Memory
    BY <1>1 DEF IInv, MemoryConserved
  <2>3. PagesOf(Free \cup owned) = PagesOf(Free) \cup PagesOf(owned)
    BY PagesUnion
  <2>4. PagesOf(owned') = PagesOf(owned) \cup PagesOf({e})
    BY <1>3, PagesUnion
  <2>5. PagesOf(Free' \cup owned') = PagesOf(Free') \cup PagesOf(owned')
    BY PagesUnion
  <2> HIDE DEF e
  <2>6. PagesOf(Free' \cup owned') = Memory
    BY <1>6, <2>1, <2>2, <2>3, <2>4, <2>5
  <2> QED
    BY <2>6 DEF MemoryConserved
<1>13. Booting'
  BY <1>1 DEF Booting
<1>14. b % 2^o = 0 /\ b \in Block(b, o)
  <2> DEFINE e == <<b, o>>
  <2>1. e \in owned' /\ e[1] = b /\ e[2] = o
    BY <1>3
  <2>2. Aligned(e[1], e[2]) /\ e[1] \in Nat
    BY <1>8, <2>1 DEF Heap, AreBlocks
  <2> HIDE DEF e
  <2>3. Aligned(b, o) /\ b \in Nat
    BY <2>1, <2>2
  <2> QED
    BY <1>4, <2>3, PowPos DEF Aligned, Block
<1> QED
  BY <1>3, <1>6, <1>10, <1>11, <1>12, <1>13, <1>14 DEF IInv

\* pmm_free_pages.
LEMMA FreePagesStep ==
    ASSUME IInv, NEW p, NEW o, pmm_free_pages(p, o)
    PROVE  /\ IInv'
           /\ PagesOf(Free') = PagesOf(Free) \cup Block(p, o)
<1> USE SizeAssumption, OrderAssumption
<1>1. /\ TypeOK /\ MmapSorted /\ HeapOK /\ CountsAgree
      /\ entry = 0 /\ <<p, o>> \in owned /\ free_block(p, o) /\ owned' = owned \ {<<p, o>>}
      /\ mmap' = mmap /\ entry' = entry /\ start' = start /\ ret' = ret
  BY DEF IInv, pmm_free_pages, scan
<1>2. mmap \in Seq(Entries) /\ start \in Nat /\ total_pages \in Nat /\ ret \in Pages \cup {0}
  BY <1>1, TopOfMemory DEF TypeOK
<1> DEFINE e == <<p, o>>
           P == owned \ {e}
<1>3. e[1] = p /\ e[2] = o /\ e \in owned
  BY <1>1
<1>4. order[p] = o /\ e \notin Free
  BY <1>1, <1>3 DEF HeapOK, Heap, HeadersTell
<1>5. Room(Free, P, p, o, total_pages)
  <2>1. /\ e[1] \in Nat /\ e[2] \in Orders /\ Aligned(e[1], e[2])
        /\ Block(e[1], e[2]) \subseteq 1..total_pages - 1
    BY <1>1, <1>3 DEF HeapOK, Heap, AreBlocks
  <2>2. \A c \in Free \cup P : Block(c[1], c[2]) \cap Block(e[1], e[2]) = {}
    BY <1>1, <1>3, <1>4 DEF HeapOK, Heap, Apart
  <2> QED
    BY <1>3, <2>1, <2>2 DEF Room
<1>6. /\ HeapOK' /\ CountsAgree' /\ PagesOf(Free') = PagesOf(Free) \cup Block(p, o)
      /\ free_area' \in [Orders -> SUBSET Pages]
      /\ num_blocks' \in [Orders -> Nat] /\ num_pages' \in Nat
  BY <1>1, <1>2, <1>4, <1>5, FreeStep
<1>7. total_pages' = total_pages /\ Pages' = Pages
  BY <1>1, PagesStay
<1>8. Heap(Free', owned', flags', order', total_pages)
  BY <1>6, <1>7, Zenon DEF HeapOK
<1>9. /\ flags' \in [Pages -> SUBSET {USED, LOCK}] /\ order' \in [Pages -> Orders]
      /\ owned' \subseteq Pages \X Orders
  BY <1>2, <1>8, HeapTypes, Zenon DEF Pages
<1>10. TypeOK'
  BY <1>1, <1>2, <1>6, <1>7, <1>9 DEF TypeOK
<1>11. MmapSorted'
  BY <1>1 DEF MmapSorted
<1>12. MemoryConserved'
  <2>1. PagesOf({e}) = Block(p, o)
    <3> HIDE DEF e
    <3> QED
      BY <1>3 DEF PagesOf
  <2>2. PagesOf(Free \cup owned) = Memory
    BY <1>1 DEF IInv, MemoryConserved
  <2>3. PagesOf(Free \cup owned) = PagesOf(Free) \cup PagesOf(owned)
    BY PagesUnion
  <2>4. PagesOf(owned) = PagesOf(P) \cup PagesOf({e})
    <3>1. owned = P \cup {e}
      BY <1>3
    <3> QED
      BY <3>1, PagesUnion
  <2>5. PagesOf(Free' \cup owned') = PagesOf(Free') \cup PagesOf(owned')
    BY PagesUnion
  <2>6. owned' = P
    BY <1>1
  <2> HIDE DEF e, P
  <2>7. PagesOf(Free' \cup owned') = Memory
    BY <1>6, <2>1, <2>2, <2>3, <2>4, <2>5, <2>6
  <2> QED
    BY <2>7 DEF MemoryConserved
<1>13. Booting'
  BY <1>1 DEF Booting
<1> QED
  BY <1>6, <1>10, <1>11, <1>12, <1>13 DEF IInv

\* An aligned run of free pages lies in one free block: where no free block is
\* of order o or above there is no such run of that order, so pmm_alloc_pages
\* fails only when it must.  The smallest free block inside the run would have
\* its buddy inside the run too, and that one would be free.
LEMMA RunInBlock ==
    ASSUME NEW F, NEW O, NEW fl, NEW od, NEW n \in Nat, Heap(F, O, fl, od, n),
           NEW p \in Nat, NEW o \in Orders, Aligned(p, o), Block(p, o) \subseteq PagesOf(F)
    PROVE  \E c \in F : c[2] >= o
<1> USE OrderAssumption
<1> SUFFICES ASSUME \A c \in F : c[2] < o PROVE FALSE
  <2>1. \A c \in F : c[2] \in Nat
    BY DEF Heap, AreBlocks, Orders
  <2> QED
    BY <2>1 DEF Orders
<1>1. o \in Nat /\ o < BUDDY_MAX_ORDER
  BY DEF Orders
<1>2. \A c \in F : /\ c[1] \in Nat /\ c[2] \in Nat /\ c = <<c[1], c[2]>> /\ Aligned(c[1], c[2])
                   /\ c[1] \in Block(c[1], c[2])
  <2> TAKE c \in F
  <2>1. c[1] \in Nat /\ c[2] \in Nat /\ c = <<c[1], c[2]>> /\ Aligned(c[1], c[2])
    BY DEF Heap, AreBlocks, Orders
  <2> QED
    BY <2>1, PowPos DEF Block
<1>3. \A x \in Block(p, o) : \E c \in F : x \in Block(c[1], c[2])
  BY DEF PagesOf
<1>4. \A c \in F : Block(c[1], c[2]) \cap Block(p, o) # {} =>
                     Block(c[1], c[2]) \subseteq Block(p, o)
  BY <1>1, <1>2, Nested
<1> DEFINE S == {c[2] : c \in {e \in F : Block(e[1], e[2]) \cap Block(p, o) # {}}}
<1>5. S \in SUBSET Nat /\ S # {}
  <2>1. p \in Block(p, o)
    BY <1>1, PowPos DEF Block
  <2> QED
    BY <1>2, <1>3, <2>1
<1>6. PICK j \in S : \A k \in S : j <= k
  BY <1>5, LeastNat
<1>7. PICK c \in F : Block(c[1], c[2]) \cap Block(p, o) # {} /\ c[2] = j
  OBVIOUS
<1> DEFINE b == c[1]
           d == BuddyOf(b, j)
           q == merged(b, j + 1)
<1>8. b \in Nat /\ j \in Nat /\ j + 1 \in Nat /\ j < o /\ j + 1 <= o /\ Aligned(b, j)
      /\ b \in Block(b, j) /\ b \in Block(p, o)
  BY <1>1, <1>2, <1>4, <1>7
<1> HIDE DEF S, b
<1>9. /\ d \in Nat /\ Aligned(d, j) /\ d # b
      /\ Block(b, j) \cup Block(d, j) = Block(q, j + 1)
  BY <1>8, BuddyFacts
<1>10. q \in Nat /\ Aligned(q, j + 1) /\ b \in Block(q, j + 1)
  BY <1>8, MergedFacts
<1> HIDE DEF d, q
<1>11. Block(q, j + 1) \subseteq Block(p, o)
  BY <1>1, <1>8, <1>10, Nested
<1>12. d \in Block(d, j)
  BY <1>8, <1>9, PowPos DEF Block
<1>13. d \in Block(q, j + 1) /\ d \in Block(p, o)
  BY <1>9, <1>11, <1>12
<1>14. PICK e \in F : d \in Block(e[1], e[2])
  BY <1>3, <1>13
<1>15. e[2] \in S
  BY <1>13, <1>14 DEF S
<1>16. e[1] \in Nat /\ e[2] \in Nat /\ Aligned(e[1], e[2]) /\ e = <<e[1], e[2]>> /\ j <= e[2]
  BY <1>2, <1>6, <1>14, <1>15
<1>17. CASE e[2] = j
  <2>1. e[1] = d
    BY <1>9, <1>14, <1>16, <1>17, InsideNotAligned
  <2>2. <<d, j>> \in F
    BY <1>16, <1>17, <2>1
  <2>3. c[2] + 1 < BUDDY_MAX_ORDER
    BY <1>1, <1>7, <1>8
  <2>4. <<BuddyOf(c[1], c[2]), c[2]>> \notin F
    BY <2>3 DEF Heap, NoBuddies
  <2> QED
    BY <1>7, <2>2, <2>4 DEF d, b
<1>18. CASE e[2] # j
  <2>1. j + 1 <= e[2]
    BY <1>8, <1>16, <1>18
  <2>2. Block(q, j + 1) \subseteq Block(e[1], e[2])
    BY <1>8, <1>10, <1>13, <1>14, <1>16, <2>1, Nested
  <2>3. b \in Block(e[1], e[2]) /\ b \in Block(c[1], c[2])
    BY <1>7, <1>8, <1>10, <2>2 DEF b
  <2>4. e # c
    BY <1>7, <1>18
  <2> QED
    BY <2>3, <2>4 DEF Heap, Apart
<1> QED
  BY <1>17, <1>18

\* pmm_alloc_pages without a block to give: nothing changes but the answer, and
\* there was no aligned run of free pages.
LEMMA AllocFailStep ==
    ASSUME IInv, NEW o \in Orders, pmm_alloc_pages_fail(o)
    PROVE  /\ IInv' /\ PagesOf(Free') = PagesOf(Free)
           /\ \A p \in PagesOf(Free) : p % 2^o = 0 => ~(Block(p, o) \subseteq PagesOf(Free))
<1> USE OrderAssumption
<1>1. /\ TypeOK /\ MmapSorted /\ HeapOK /\ CountsAgree
      /\ entry = 0 /\ check_orders(o) = {} /\ ret' = 0
      /\ UNCHANGED <<mmap, flags, order, free_area, num_blocks, num_pages, entry, start, owned>>
  BY DEF IInv, pmm_alloc_pages_fail, headers, areas, scan
<1>2. total_pages' = total_pages /\ Pages' = Pages /\ Locked' = Locked
  BY <1>1, PagesStay
<1>3. Free' = Free
  BY <1>1 DEF Free
<1>4. TypeOK'
  BY <1>1, <1>2 DEF TypeOK
<1>5. HeapOK'
  BY <1>1, <1>2, <1>3, Zenon DEF HeapOK
<1>6. MmapSorted' /\ CountsAgree' /\ MemoryConserved' /\ Booting'
  <2>1. MmapSorted'
    BY <1>1 DEF MmapSorted
  <2>2. CountsAgree'
    BY <1>1, <1>3, Zenon DEF CountsAgree
  <2>3. MemoryConserved'
    BY <1>1, <1>3, Zenon DEF IInv, MemoryConserved
  <2>4. Booting'
    BY <1>1 DEF Booting
  <2> QED
    BY <2>1, <2>2, <2>3, <2>4
<1>7. ASSUME NEW p \in PagesOf(Free), p % 2^o = 0, Block(p, o) \subseteq PagesOf(Free)
      PROVE  FALSE
  <2>1. total_pages \in Nat
    BY <1>1, TopOfMemory DEF TypeOK
  <2>2. PagesOf(Free) \subseteq 1..total_pages - 1 /\ \A j \in Orders : IsFiniteSet(free_area[j])
    BY <1>1, <2>1, FreeFinite
  <2>3. p \in Nat /\ Aligned(p, o)
    BY <1>7, <2>1, <2>2 DEF Aligned
  <2>4. Heap(Free, owned, flags, order, total_pages)
    BY <1>1 DEF HeapOK
  <2>5. \E c \in Free : c[2] >= o
    <3> HIDE DEF Free
    <3> QED
      BY <1>7, <2>1, <2>3, <2>4, RunInBlock
  <2>6. PICK c \in Free : c[2] >= o
    BY <2>5
  <2>7. c[2] \in Orders /\ c[1] \in free_area[c[2]]
    BY InFree
  <2>8. c[2] \in o..BUDDY_MAX_ORDER - 1
    BY <2>6, <2>7 DEF Orders
  <2>9. ~(num_blocks[c[2]] > 0)
    BY <1>1, <2>8 DEF check_orders
  <2>10. num_blocks[c[2]] = Cardinality(free_area[c[2]]) /\ num_blocks[c[2]] \in Nat
    BY <1>1, <2>7 DEF CountsAgree, TypeOK
  <2>11. free_area[c[2]] = {}
    <3> DEFINE A == free_area[c[2]]
    <3>1. IsFiniteSet(A) /\ Cardinality(A) = 0
      BY <2>2, <2>7, <2>9, <2>10
    <3> HIDE DEF A
    <3>2. A = {}
      BY <3>1, FS_EmptySet
    <3> QED
      BY <3>2 DEF A
  <2> QED
    BY <2>7, <2>11
<1> QED
  BY <1>3, <1>4, <1>5, <1>6, <1>7 DEF IInv

\* pmm_initialize up to init_free_pages, where qsort has sorted the map.
LEMMA InitStart ==
    ASSUME Init, mmap \in Seq(Entries), MmapSorted
    PROVE  IInv /\ PagesOf(Free) = {}
<1> USE SizeAssumption, OrderAssumption
<1>1. /\ flags = [p \in Pages |-> IF p \in Locked THEN {USED, LOCK} ELSE {USED}]
      /\ order = [p \in Pages |-> 0]
      /\ free_area = [o \in Orders |-> {}] /\ num_blocks = [o \in Orders |-> 0] /\ num_pages = 0
      /\ entry = IF mmap = <<>> THEN 0 ELSE 1
      /\ start = IF mmap = <<>> THEN 0 ELSE ALIGN_PAGE(mmap[1].base)
      /\ owned = {} /\ ret = 0
  BY DEF Init
<1>2. total_pages \in Nat
  BY TopOfMemory
<1>3. Free = {}
  BY <1>1 DEF Free
<1>4. PagesOf(Free) = {}
  BY <1>3 DEF PagesOf
<1>5. /\ Len(mmap) \in Nat /\ \A i \in 1..Len(mmap) : mmap[i] \in Entries
      /\ \A e \in Entries : \E i \in 1..Len(mmap) : mmap[i] = e
  BY EntriesOnce
<1>6. mmap # <<>> => 1 \in 1..Len(mmap)
  BY <1>5
<1>7. mmap # <<>> => mmap[1].base \in Nat /\ mmap[1] \in Entries
  BY <1>5, <1>6, EntriesAssumption
<1>8. mmap # <<>> =>
        /\ start \in Nat /\ start % PAGE_SIZE = 0 /\ start >= mmap[1].base
        /\ \A p \in Nat : mmap[1].base <= p * PAGE_SIZE => start <= p * PAGE_SIZE
  <2> SUFFICES ASSUME mmap # <<>>
               PROVE  /\ start \in Nat /\ start % PAGE_SIZE = 0 /\ start >= mmap[1].base
                      /\ \A p \in Nat : mmap[1].base <= p * PAGE_SIZE => start <= p * PAGE_SIZE
    OBVIOUS
  <2> DEFINE a == mmap[1].base
  <2>1. a \in Nat /\ start = ALIGN_PAGE(a)
    BY <1>1, <1>7
  <2> HIDE DEF a
  <2>2. /\ ALIGN_PAGE(a) \in Nat /\ ALIGN_PAGE(a) % PAGE_SIZE = 0 /\ ALIGN_PAGE(a) >= a
        /\ \A p \in Nat : a <= p * PAGE_SIZE => ALIGN_PAGE(a) <= p * PAGE_SIZE
    BY <2>1, AlignUp
  <2>3. /\ start \in Nat /\ start % PAGE_SIZE = 0 /\ start >= a
        /\ \A p \in Nat : a <= p * PAGE_SIZE => start <= p * PAGE_SIZE
    BY <2>1, <2>2, Zenon
  <2> QED
    BY <2>3 DEF a
<1>9. TypeOK
  <2>1. entry \in 0..Len(mmap) /\ start \in Nat
    BY <1>1, <1>5, <1>6, <1>8
  <2>2. 0 \in Orders
    BY DEF Orders
  <2> QED
    BY <1>1, <1>2, <2>1, <2>2 DEF TypeOK
<1>10. HeapOK
  <2>1. /\ flags \in [0..total_pages - 1 -> SUBSET {USED, LOCK}]
        /\ order \in [0..total_pages - 1 -> Orders]
    BY <1>9 DEF TypeOK, Pages
  <2>2. \A p \in 0..total_pages - 1 : flags[p] # {}
    BY <1>1 DEF Pages
  <2> QED
    BY <1>1, <1>3, <2>1, <2>2 DEF HeapOK, Heap, AreBlocks, Apart, HeadersTell, StaleHeaders,
       NoBuddies
<1>11. CountsAgree
  <2>1. Cardinality({}) = 0
    BY FS_EmptySet
  <2>2. num_pages = Cardinality(PagesOf(Free))
    BY <1>1, <1>4, <2>1
  <2>3. \A o \in Orders : num_blocks[o] = Cardinality(free_area[o])
    <3> TAKE o \in Orders
    <3>1. num_blocks[o] = 0 /\ free_area[o] = {}
      BY <1>1
    <3> QED
      BY <2>1, <3>1
  <2> QED
    BY <2>2, <2>3 DEF CountsAgree
<1>12. MemoryConserved
  <2> SUFFICES ASSUME entry = 0 PROVE PagesOf(Free \cup owned) = Memory
    BY DEF MemoryConserved
  <2>1. mmap = <<>>
    BY <1>1
  <2>2. 1..Len(mmap) = {}
    BY <2>1
  <2>3. Entries = {}
    BY <1>5, <2>2
  <2>4. Memory = {}
    BY <2>3 DEF Memory
  <2>5. Free \cup owned = {}
    BY <1>1, <1>3
  <2>6. PagesOf(Free \cup owned) = {}
    BY <2>5 DEF PagesOf
  <2> QED
    BY <2>4, <2>6
<1>13. Booting
  <2> SUFFICES ASSUME entry # 0
               PROVE  /\ owned = {}
                      /\ start % PAGE_SIZE = 0 /\ start >= mmap[entry].base
                      /\ PagesOf(Free) = Scanned
                      /\ \A p \in Pages \ PagesOf(Free) :
                           order[p] = 0 /\ flags[p] = IF p \in Locked THEN {USED, LOCK} ELSE {USED}
    BY DEF Booting
  <2>1. mmap # <<>> /\ entry = 1
    BY <1>1
  <2>2. Scanned = {}
    <3> SUFFICES ASSUME NEW p \in Scanned PROVE FALSE
      OBVIOUS
    <3>1. p \in PagesIn(mmap[1]) /\ p * PAGE_SIZE < start
      <4>1. PICK i \in 1..entry : p \in PagesIn(mmap[i]) /\ (i = entry => p * PAGE_SIZE < start)
        BY DEF Scanned
      <4>2. i = 1 /\ i = entry
        BY <2>1, <4>1
      <4> QED
        BY <4>1, <4>2
    <3>2. p \in Nat /\ mmap[1].base <= p * PAGE_SIZE
      <4>1. mmap[1].base \in Nat /\ mmap[1].base \div PAGE_SIZE \in Nat
        BY <1>7, <2>1
      <4> QED
        BY <3>1, <4>1 DEF PagesIn
    <3>3. start <= p * PAGE_SIZE /\ start \in Nat
      BY <1>8, <2>1, <3>2
    <3>4. p * PAGE_SIZE \in Nat
      BY <3>2
    <3> QED
      BY <3>1, <3>3, <3>4
  <2> QED
    BY <1>1, <1>4, <1>8, <2>1, <2>2
<1> QED
  BY <1>4, <1>9, <1>10, <1>11, <1>12, <1>13 DEF IInv

\* Every step of the allocator keeps the invariant and is a step of the promise
\* of pmm.h, or changes nothing of what the promise speaks of.
LEMMA Step ==
    ASSUME IInv, [Next]_vars
    PROVE  IInv' /\ [Promise!Next]_(Promise!vars)
<1> DEFINE P == PagesOf(Free)
           Q == PagesOf(Free')
<1>1. CASE init_free_page
  <2>1. IInv' /\ (Q = P \/ \E p \in Memory \ P : Q = P \cup {p})
    BY <1>1, InitFreePageStep
  <2>2. owned' = owned /\ ret' = ret
    BY <1>1 DEF init_free_page
  <2>3. CASE Q = P
    BY <2>1, <2>2, <2>3, Zenon DEF Promise!vars
  <2>4. CASE \E p \in Memory \ P : Q = P \cup {p}
    <3>1. PICK p \in Memory \ P : Q = P \cup {p}
      BY <2>4
    <3>2. Promise!Give(p)
      BY <2>2, <3>1, Zenon DEF Promise!Give
    <3> QED
      BY <2>1, <3>1, <3>2, Zenon DEF Promise!Next
  <2> QED
    BY <2>1, <2>3, <2>4
<1>2. CASE init_next_entry
  <2>1. IInv' /\ Q = P
    BY <1>2, InitNextEntryStep
  <2>2. owned' = owned /\ ret' = ret
    BY <1>2 DEF init_next_entry
  <2> QED
    BY <2>1, <2>2, Zenon DEF Promise!vars
<1>3. ASSUME NEW o \in Orders, pmm_alloc_pages(o)
      PROVE  IInv' /\ [Promise!Next]_(Promise!vars)
  <2>1. IInv'
    BY <1>3, AllocPagesStep
  <2>2. PICK b \in Pages : /\ owned' = owned \cup {<<b, o>>} /\ ret' = b
                           /\ b % 2^o = 0 /\ b \in Block(b, o)
                           /\ Block(b, o) \subseteq P /\ Q = P \ Block(b, o)
    BY <1>3, AllocPagesStep
  <2>3. Promise!Block(b, o) = Block(b, o)
    BY DEF Promise!Block, Block
  <2>4. b \in Promise!Available(o)
    BY <2>2, <2>3, Zenon DEF Promise!Available
  <2>5. Promise!Alloc(o)
    BY <2>2, <2>3, <2>4, Zenon DEF Promise!Alloc
  <2> QED
    BY <2>1, <2>5, Zenon DEF Promise!Next, Orders
<1>4. ASSUME NEW o \in Orders, pmm_alloc_pages_fail(o)
      PROVE  IInv' /\ [Promise!Next]_(Promise!vars)
  <2>1. /\ IInv' /\ Q = P
        /\ \A p \in P : p % 2^o = 0 => ~(Block(p, o) \subseteq P)
    BY <1>4, AllocFailStep
  <2>2. owned' = owned /\ ret' = 0
    BY <1>4 DEF pmm_alloc_pages_fail
  <2>3. \A p : Promise!Block(p, o) = Block(p, o)
    BY DEF Promise!Block, Block
  <2>4. Promise!Available(o) = {}
    BY <2>1, <2>3, Zenon DEF Promise!Available
  <2>5. Promise!Alloc(o)
    BY <2>1, <2>2, <2>4, Zenon DEF Promise!Alloc
  <2> QED
    BY <2>1, <2>5, Zenon DEF Promise!Next, Orders
<1>5. ASSUME NEW b \in owned, pmm_free_pages(b[1], b[2])
      PROVE  IInv' /\ [Promise!Next]_(Promise!vars)
  <2>1. IInv' /\ Q = P \cup Block(b[1], b[2])
    BY <1>5, FreePagesStep
  <2>2. <<b[1], b[2]>> \in owned /\ owned' = owned \ {<<b[1], b[2]>>} /\ ret' = ret
    BY <1>5 DEF pmm_free_pages
  <2>3. Promise!Block(b[1], b[2]) = Block(b[1], b[2])
    BY DEF Promise!Block, Block
  <2>4. Promise!Free(b[1], b[2])
    BY <2>1, <2>2, <2>3, Zenon DEF Promise!Free
  <2> QED
    BY <1>5, <2>1, <2>4, Zenon DEF Promise!Next
<1>6. CASE UNCHANGED vars
  <2>1. UNCHANGED <<mmap, flags, order, free_area, num_blocks, num_pages, entry, start, owned, ret>>
    BY <1>6 DEF vars, headers, areas, scan
  <2>2. total_pages' = total_pages /\ Pages' = Pages /\ Locked' = Locked
    BY <2>1, PagesStay
  <2>3. Free' = Free
    BY <2>1 DEF Free
  <2>4. TypeOK' /\ MmapSorted'
    <3>1. TypeOK'
      BY <2>1, <2>2 DEF IInv, TypeOK
    <3>2. MmapSorted'
      BY <2>1 DEF IInv, MmapSorted
    <3> QED
      BY <3>1, <3>2
  <2>5. HeapOK' /\ CountsAgree' /\ MemoryConserved'
    <3>1. HeapOK'
      BY <2>1, <2>2, <2>3, Zenon DEF IInv, HeapOK
    <3>2. CountsAgree'
      BY <2>1, <2>3, Zenon DEF IInv, CountsAgree
    <3>3. MemoryConserved'
      BY <2>1, <2>3, Zenon DEF IInv, MemoryConserved
    <3> QED
      BY <3>1, <3>2, <3>3
  <2>6. Booting'
    <3>1. Scanned' = Scanned
      BY <2>1 DEF Scanned
    <3> QED
      BY <2>1, <2>2, <2>3, <3>1, Zenon DEF IInv, Booting
  <2> QED
    BY <2>1, <2>3, <2>4, <2>5, <2>6, Zenon DEF IInv, Promise!vars
<1> QED
  BY <1>1, <1>2, <1>3, <1>4, <1>5, <1>6 DEF Next

-----------------------------------------------------------------------------
(* The memory map and the theorems.                                        *)

\* mmap_entry_compare orders the regions by their bases.
LEMMA BasesOrdered == Ordered(Entries, mmap_entry_compare)
<1>1. \A e \in Entries : e.base \in Nat
  BY EntriesAssumption
<1> QED
  BY <1>1 DEF Ordered, mmap_entry_compare

\* After qsort the map is sorted, whatever order the BIOS gave it in.
LEMMA SortedMap ==
    ASSUME Init
    PROVE  mmap \in Seq(Entries) /\ MmapSorted
<1>1. PICK s \in SetToSeqs(Entries) : mmap = qsort(s, mmap_entry_compare)
  BY DEF Init
<1> DEFINE n == Cardinality(Entries)
<1>2. n \in Nat /\ IsFiniteSet(1..n) /\ Cardinality(1..n) = n
  <2>1. n \in Nat
    BY EntriesAssumption, FS_CardinalityType
  <2> HIDE DEF n
  <2> QED
    BY <2>1, FS_Interval
<1>3. s \in [1..n -> Entries] /\ \A i, j \in 1..n : i # j => s[i] # s[j]
  BY DEF SetToSeqs
<1>4. s \in Injection(1..n, Entries)
  BY <1>3 DEF Injection, IsInjective
<1>5. s \in Surjection(1..n, Entries)
  BY <1>2, <1>4, EntriesAssumption, FS_Injection
<1>6. s \in Seq(Entries) /\ Len(s) = n
  <2> HIDE DEF n
  <2> QED
    BY <1>2, <1>3
<1>7. Range(s) = Entries
  BY <1>3, <1>5 DEF Range, Surjection
<1>8. /\ Sorted(mmap, mmap_entry_compare) /\ Same(mmap, s) /\ mmap \in Seq(Range(s))
  BY <1>1, <1>6, BasesOrdered, SizeAssumption, QSortSorts
<1>10. mmap \in Seq(Entries) /\ Len(mmap) = n /\ Range(mmap) = Entries
  BY <1>6, <1>7, <1>8 DEF Same
<1>11. \A i, j \in DOMAIN mmap : i < j => mmap[i].base <= mmap[j].base
  <2> SUFFICES ASSUME NEW i \in DOMAIN mmap, NEW j \in DOMAIN mmap, i < j
               PROVE  mmap[i].base <= mmap[j].base
    OBVIOUS
  <2>1. i \in 1..Len(mmap) /\ j \in 1..Len(mmap)
    BY <1>10
  <2>2. mmap_entry_compare[mmap[i]][mmap[j]] <= 0
    BY <1>8, <2>1 DEF Sorted
  <2>3. /\ mmap[i] \in Entries /\ mmap[j] \in Entries
        /\ mmap[i].base \in Nat /\ mmap[j].base \in Nat
    BY <1>10, <2>1, EntriesAssumption
  <2> QED
    BY <2>2, <2>3 DEF mmap_entry_compare
<1> QED
  BY <1>10, <1>11 DEF MmapSorted

\* The inductive invariant, from pmm_initialize on.
THEOREM Invariance == Spec => []IInv
<1>1. Init => IInv
  BY SortedMap, InitStart
<1>2. IInv /\ [Next]_vars => IInv'
  BY Step
<1> QED
  BY <1>1, <1>2, PTL DEF Spec

\* Type correctness: no list or header ever names a page outside of pages[].
THEOREM TypeCorrect == Spec => []TypeOK
<1>1. IInv => TypeOK
  BY DEF IInv
<1> QED
  BY <1>1, Invariance, PTL

\* qsort leaves init_free_pages a sorted map with every region once, for every
\* map and every order the BIOS gives it in.
THEOREM MapSorted == Spec => []MmapSorted
<1>1. IInv => MmapSorted
  BY DEF IInv
<1> QED
  BY <1>1, Invariance, PTL

\* No page is in two blocks, free or given to a caller, although pmm_free_pages
\* decides by headers that nobody cleans whether to merge.
THEOREM BlocksApart == Spec => []NoOverlap
<1>1. IInv => NoOverlap
  BY DEF IInv, HeapOK, Heap, Apart, NoOverlap
<1> QED
  BY <1>1, Invariance, PTL

\* No page is lost or handed out that should not be.
THEOREM NothingLost == Spec => []MemoryConserved
<1>1. IInv => MemoryConserved
  BY DEF IInv
<1> QED
  BY <1>1, Invariance, PTL

\* Two free buddies never stay apart.
THEOREM BuddiesMerge == Spec => []Coalesced
<1>1. IInv => Coalesced
  <2> SUFFICES ASSUME IInv, NEW o \in Orders, NEW b \in free_area[o], o + 1 < BUDDY_MAX_ORDER,
                      NEW d \in get_buddy(b, o) \cap free_area[o]
               PROVE  FALSE
    BY DEF Coalesced
  <2>1. d = BuddyOf(b, o)
    BY DEF get_buddy, BuddyOf
  <2> DEFINE c == <<b, o>>
  <2>2. c \in Free /\ <<d, o>> \in Free /\ c[1] = b /\ c[2] = o
    BY InFree
  <2> HIDE DEF c
  <2>3. \A e \in Free : e[2] + 1 < BUDDY_MAX_ORDER => <<BuddyOf(e[1], e[2]), e[2]>> \notin Free
    BY DEF IInv, HeapOK, Heap, NoBuddies
  <2> QED
    BY <2>1, <2>2, <2>3
<1> QED
  BY <1>1, Invariance, PTL

\* num_blocks, which alone decides where pmm_alloc_pages looks, and num_pages
\* agree with the lists.
THEOREM CountersExact == Spec => []CountsAgree
<1>1. IInv => CountsAgree
  BY DEF IInv
<1> QED
  BY <1>1, Invariance, PTL

\* pmm_alloc_pages hands out an aligned run of pages that nobody has and fails
\* only when there is none of the size asked for; pmm_free_pages takes it back.
THEOREM Refinement == Spec => ImplementsPageAlloc
<1>1. Init => Promise!Init
  <2> SUFFICES ASSUME Init PROVE Promise!Init
    OBVIOUS
  <2>1. PagesOf(Free) = {}
    BY SortedMap, InitStart
  <2>2. owned = {} /\ ret = 0
    BY DEF Init
  <2> QED
    BY <2>1, <2>2, Zenon DEF Promise!Init
<1>2. IInv /\ [Next]_vars => [Promise!Next]_(Promise!vars)
  BY Step
<1> QED
  BY <1>1, <1>2, Invariance, PTL DEF Spec, ImplementsPageAlloc, Promise!Spec
=============================================================================
