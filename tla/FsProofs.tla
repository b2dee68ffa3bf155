------------------------------ MODULE FsProofs ------------------------------
(***************************************************************************)
(* Proofs about Mkfs and Fs: what mkfs leaves passes a file system check,  *)
(* whatever is copied and whatever copies fail; every file it says it      *)
(* copied is found by axfs; and what a process reads through a descriptor  *)
(* is that file from its beginning on.                                     *)
(***************************************************************************)
EXTENDS Fs, NatFacts, SequenceTheorems

-----------------------------------------------------------------------------
(* Numbers.                                                                *)

\* A number of blocks.
LEMMA CeilNat ==
    ASSUME NEW a \in Nat, NEW b \in Nat \ {0}
    PROVE  Ceil(a, b) \in Nat /\ (a > 0 => Ceil(a, b) > 0)
<1>1. a \div b \in Nat /\ a % b \in 0..b - 1 /\ a = b * (a \div b) + (a % b)
  BY Division
<1>2. ASSUME a > 0, a \div b = 0 PROVE a % b # 0
  BY <1>1, <1>2
<1> QED
  BY <1>1, <1>2 DEF Ceil

\* Byte i of a file is in one of its blocks.
LEMMA CeilBlock ==
    ASSUME NEW a \in Nat, NEW b \in Nat \ {0}, NEW i \in Nat, i < a
    PROVE  i \div b \in 0..Ceil(a, b) - 1
<1> DEFINE p == i \div b
           q == a \div b
           r == i % b
           s == a % b
<1>1. p \in Nat /\ r \in 0..b - 1 /\ i = b * p + r
  BY Division
<1>2. q \in Nat /\ s \in 0..b - 1 /\ a = b * q + s
  BY Division
<1>3. Ceil(a, b) = q + (IF s # 0 THEN 1 ELSE 0)
  BY DEF Ceil
<1> HIDE DEF p, q, r, s
<1>4. p <= q
  <2> SUFFICES ASSUME p > q PROVE FALSE
    BY <1>1, <1>2
  <2>1. b * p >= b * q + b
    BY <1>1, <1>2
  <2> QED
    BY <1>1, <1>2, <2>1
<1>5. p = q => s # 0
  BY <1>1, <1>2
<1> QED
  BY <1>1, <1>2, <1>3, <1>4, <1>5 DEF p

\* A block has room for a pointer.
LEMMA PointersPos ==
    /\ POINTERS \in Nat \ {0} /\ POINTERS * POINTERS \in Nat \ {0}
    /\ POINTERS * POINTERS * POINTERS \in Nat \ {0}
    /\ DIRECT_BLOCK_COUNT \in Nat \ {0} /\ MaxBlocks \in Nat \ {0}
<1>1. POINTERS \in Nat \ {0}
  <2>1. BLOCK_SIZE \in Nat \ {0} /\ POINTER_SIZE \in Nat \ {0} /\ BLOCK_SIZE % POINTER_SIZE = 0
    BY SizesAssumption, PointerAssumption
  <2>2. BLOCK_SIZE = POINTER_SIZE * POINTERS + 0 /\ POINTERS \in Nat
    BY <2>1, Division DEF POINTERS
  <2> QED
    BY <2>1, <2>2
<1> DEFINE P == POINTERS
<1>2. \A x, y \in Nat \ {0} : x * y \in Nat \ {0}
  OBVIOUS
<1> QED
  BY <1>1, <1>2, GroupAssumption DEF MaxBlocks

-----------------------------------------------------------------------------
(* Where the blocks of an inode are.                                       *)

\* The three digits of a number to the base P.
LEMMA Digits ==
    ASSUME NEW k \in Nat, NEW P \in Nat \ {0}, P * P \in Nat \ {0}
    PROVE  /\ k \div (P * P) \in Nat /\ (k \div P) % P \in 0..P - 1 /\ k % P \in 0..P - 1
           /\ k = (P * P) * (k \div (P * P)) + (P * ((k \div P) % P) + (k % P))
<1> DEFINE S == P * P
           q == k \div P
           c == k % P
           u == q \div P
           b == q % P
           a == k \div S
           r == k % S
<1>1. q \in Nat /\ c \in 0..P - 1 /\ k = P * q + c
  BY Division
<1>2. u \in Nat /\ b \in 0..P - 1 /\ q = P * u + b
  <2> HIDE DEF q
  <2> QED
    BY <1>1, Division
<1>3. S \in Nat \ {0} /\ a \in Nat /\ r \in 0..S - 1 /\ k = S * a + r
  <2>1. S \in Nat \ {0}
    OBVIOUS
  <2> HIDE DEF S
  <2> QED
    BY <2>1, Division
<1>4. S = P * P
  OBVIOUS
<1>5. a = k \div (P * P) /\ b = (k \div P) % P /\ c = k % P
  OBVIOUS
<1> HIDE DEF q, c, u, b, a, r, S
<1>6. P * q = S * u + P * b
  BY <1>1, <1>2, <1>4
<1>7. P * b + c \in 0..S - 1
  <2>1. P * b <= P * (P - 1)
    BY <1>2
  <2>2. P * (P - 1) = S - P
    BY <1>4
  <2> QED
    BY <1>1, <1>2, <1>3, <2>1, <2>2
<1>8. S * u + (P * b + c) = S * a + r
  BY <1>1, <1>2, <1>3, <1>6
<1> DEFINE d == P * b + c
<1>9. d = r
  <2>1. d \in 0..S - 1 /\ S * u + d = S * a + r
    BY <1>7, <1>8
  <2> HIDE DEF d
  <2> QED
    BY <1>2, <1>3, <2>1, DivisionUnique
<1>10. k = S * a + (P * b + c)
  BY <1>3, <1>9
<1> QED
  BY <1>1, <1>2, <1>3, <1>4, <1>5, <1>10, Zenon

\* The path of block k, and the k that it is the path of.
IsPath(p, k) ==
    LET D == DIRECT_BLOCK_COUNT
        P == POINTERS
    IN  \/ k < D /\ p = <<k>>
        \/ \E a \in Nat : p = <<D, a>> /\ k = D + a
        \/ \E a \in Nat, b \in Nat : p = <<D + 1, a, b>> /\ k = D + P + (P * a + b)
        \/ \E a \in Nat, b \in Nat, c \in Nat :
              p = <<D + 2, a, b, c>> /\ k = D + P + P * P + ((P * P) * a + (P * b + c))

\* Path gives paths.
LEMMA PathIs ==
    ASSUME NEW k \in Nat
    PROVE  IsPath(Path(k), k)
<1> DEFINE P == POINTERS
           D == DIRECT_BLOCK_COUNT
           k1 == k - D
           k2 == k1 - P
           k3 == k2 - P * P
<1>1. P \in Nat \ {0} /\ P * P \in Nat \ {0} /\ D \in Nat \ {0}
  BY PointersPos
<1>2. CASE k1 < 0
  <2>1. Path(k) = <<k>>
    BY <1>2 DEF Path
  <2> QED
    BY <1>1, <1>2, <2>1 DEF IsPath
<1>3. CASE ~(k1 < 0) /\ k2 < 0
  <2>1. Path(k) = <<D, k1>>
    BY <1>3 DEF Path
  <2>2. k1 \in Nat /\ k = D + k1
    BY <1>1, <1>3
  <2> HIDE DEF k1
  <2> QED
    BY <2>1, <2>2 DEF IsPath
<1>4. CASE ~(k1 < 0) /\ ~(k2 < 0) /\ k3 < 0
  <2>1. Path(k) = <<D + 1, k2 \div P, k2 % P>>
    BY <1>4 DEF Path
  <2>2. k2 \in Nat /\ k = D + P + k2
    BY <1>1, <1>4
  <2> HIDE DEF k2
  <2> DEFINE a == k2 \div P
             b == k2 % P
  <2>3. a \in Nat /\ b \in Nat /\ k2 = P * a + b
    BY <1>1, <2>2, Division
  <2>4. Path(k) = <<D + 1, a, b>>
    BY <2>1
  <2> HIDE DEF a, b
  <2> QED
    BY <2>2, <2>3, <2>4 DEF IsPath
<1>5. CASE ~(k1 < 0) /\ ~(k2 < 0) /\ ~(k3 < 0)
  <2>1. Path(k) = <<D + 2, k3 \div (P * P), (k3 \div P) % P, k3 % P>>
    BY <1>5 DEF Path
  <2>2. k3 \in Nat /\ k = D + P + P * P + k3
    BY <1>1, <1>5
  <2> HIDE DEF k3
  <2> DEFINE a == k3 \div (P * P)
             b == (k3 \div P) % P
             c == k3 % P
  <2>3. a \in Nat /\ b \in Nat /\ c \in Nat /\ k3 = (P * P) * a + (P * b + c)
    <3>1. a \in Nat /\ b \in 0..P - 1 /\ c \in 0..P - 1 /\ k3 = (P * P) * a + (P * b + c)
      BY <1>1, <2>2, Digits, Zenon
    <3> HIDE DEF a, b, c, P
    <3> QED
      BY <1>1, <3>1
  <2>4. Path(k) = <<D + 2, a, b, c>>
    BY <2>1
  <2> HIDE DEF a, b, c
  <2> QED
    BY <2>2, <2>3, <2>4 DEF IsPath
<1> QED
  BY <1>2, <1>3, <1>4, <1>5

\* How long a path is follows from its first node.
LEMMA PathHead ==
    ASSUME NEW k \in Nat
    PROVE  /\ Path(k) \in Seq(Nat) /\ Len(Path(k)) \in 1..4
           /\ IF Len(Path(k)) = 1 THEN Path(k)[1] < DIRECT_BLOCK_COUNT
              ELSE Path(k)[1] = DIRECT_BLOCK_COUNT + Len(Path(k)) - 2
           /\ k < DIRECT_BLOCK_COUNT => Path(k) = <<k>>
<1>1. IsPath(Path(k), k)
  BY PathIs
<1>2. DIRECT_BLOCK_COUNT \in Nat \ {0} /\ POINTERS \in Nat
  BY PointersPos
<1>3. k < DIRECT_BLOCK_COUNT => Path(k) = <<k>>
  BY <1>2 DEF Path
<1> DEFINE p == Path(k)
<1> HIDE DEF p
<1>4. IsPath(p, k)
  BY <1>1 DEF p
<1>6. ASSUME NEW a \in Nat, p = <<DIRECT_BLOCK_COUNT, a>>
      PROVE  p \in Seq(Nat) /\ Len(p) = 2 /\ p[1] = DIRECT_BLOCK_COUNT + Len(p) - 2
  BY <1>2, <1>6
<1>7. ASSUME NEW a \in Nat, NEW b \in Nat, p = <<DIRECT_BLOCK_COUNT + 1, a, b>>
      PROVE  p \in Seq(Nat) /\ Len(p) = 3 /\ p[1] = DIRECT_BLOCK_COUNT + Len(p) - 2
  BY <1>2, <1>7
<1>8. ASSUME NEW a \in Nat, NEW b \in Nat, NEW c \in Nat, p = <<DIRECT_BLOCK_COUNT + 2, a, b, c>>
      PROVE  p \in Seq(Nat) /\ Len(p) = 4 /\ p[1] = DIRECT_BLOCK_COUNT + Len(p) - 2
  BY <1>2, <1>8
<1> DEFINE Goal == /\ p \in Seq(Nat) /\ Len(p) \in 1..4
                   /\ IF Len(p) = 1 THEN p[1] < DIRECT_BLOCK_COUNT
                      ELSE p[1] = DIRECT_BLOCK_COUNT + Len(p) - 2
<1>9. k < DIRECT_BLOCK_COUNT /\ p = <<k>> => Goal
  BY <1>2
<1>10. /\ \A a \in Nat : p = <<DIRECT_BLOCK_COUNT, a>> => Goal
       /\ \A a, b \in Nat : p = <<DIRECT_BLOCK_COUNT + 1, a, b>> => Goal
       /\ \A a, b, c \in Nat : p = <<DIRECT_BLOCK_COUNT + 2, a, b, c>> => Goal
  BY <1>6, <1>7, <1>8
<1> HIDE DEF Goal
<1>11. Goal
  BY <1>4, <1>9, <1>10 DEF IsPath
<1> QED
  BY <1>3, <1>11 DEF Goal, p

\* Two blocks have two paths.
LEMMA PathInjective ==
    ASSUME NEW k \in Nat, NEW l \in Nat, Path(k) = Path(l)
    PROVE  k = l
<1> DEFINE p == Path(k)
<1>1. IsPath(p, k) /\ IsPath(p, l)
  BY PathIs
<1>2. DIRECT_BLOCK_COUNT \in Nat \ {0} /\ POINTERS \in Nat
  BY PointersPos
<1> HIDE DEF p
<1> QED
  BY <1>1, <1>2 DEF IsPath

\* The part of a path that ends at a node is the path of a block only if it is
\* all of it: pointers and data are never taken for each other.
LEMMA PathPrefix ==
    ASSUME NEW k \in Nat, NEW l \in Nat, NEW i \in 1..Len(Path(k)), SubSeq(Path(k), 1, i) = Path(l)
    PROVE  i = Len(Path(k)) /\ l = k
<1> DEFINE p == Path(k)
           q == Path(l)
           D == DIRECT_BLOCK_COUNT
<1>1. /\ p \in Seq(Nat) /\ Len(p) \in 1..4
      /\ IF Len(p) = 1 THEN p[1] < D ELSE p[1] = D + Len(p) - 2
  BY PathHead
<1>2. /\ q \in Seq(Nat) /\ Len(q) \in 1..4
      /\ IF Len(q) = 1 THEN q[1] < D ELSE q[1] = D + Len(q) - 2
  BY PathHead
<1>3. D \in Nat
  BY PointersPos
<1>4. i \in 1..Len(p) /\ SubSeq(p, 1, i) = q
  OBVIOUS
<1>5. p = q => k = l
  BY PathInjective
<1> HIDE DEF p, q, D
<1>6. Len(q) = i /\ q[1] = p[1]
  BY <1>1, <1>4
<1>7. p[1] \in Nat /\ i = Len(p)
  <2> DEFINE h == p[1]
             m == Len(p)
  <2>1. h \in Nat /\ m \in Nat /\ i \in Nat /\ i <= m /\ i >= 1
    BY <1>1, <1>4
  <2>2. IF i = 1 THEN h < D ELSE h = D + i - 2
    BY <1>2, <1>6
  <2>3. IF m = 1 THEN h < D ELSE h = D + m - 2
    BY <1>1
  <2> HIDE DEF h, m
  <2>4. i = m
    BY <1>3, <2>1, <2>2, <2>3
  <2>. QED BY <2>1, <2>4 DEF h, m
<1>8. q = p
  BY <1>1, <1>4, <1>7
<1> QED
  BY <1>5, <1>7, <1>8 DEF p

\* The least of some numbers.
LEMMA MinNat ==
    ASSUME NEW S \in SUBSET Nat, S # {}
    PROVE  Min(S) \in S /\ \A y \in S : Min(S) <= y
  BY LeastNat DEF Min

\* The node that is allocated next on the way to block k.
Node(T, k) == SubSeq(Path(k), 1, Min(Missing(T, k)))
Last(T, k) == Min(Missing(T, k)) = Len(Path(k))

\* What one more node is.
Grown(T, k, U) ==
    /\ Node(T, k) \notin DOMAIN T
    /\ \A l \in Nat : Path(l) \in DOMAIN U <=> Path(l) \in DOMAIN T \/ (l = k /\ Last(T, k))
    /\ \A l \in Nat : Missing(U, l) \subseteq Missing(T, l)
    /\ Last(T, k) => Missing(U, k) = {} /\ Node(T, k) = Path(k)
    /\ ~Last(T, k) => \A l \in Nat : Path(l) # Node(T, k)

\* Allocating the next node.
LEMMA Grow ==
    ASSUME NEW T, NEW k \in Nat, Missing(T, k) # {}, NEW b
    PROVE  Grown(T, k, Put(T, Node(T, k), b))
<1> DEFINE p == Path(k)
           n == Len(p)
           M == Missing(T, k)
           i == Min(M)
           x == SubSeq(p, 1, i)
           U == Put(T, x, b)
<1>1. p \in Seq(Nat) /\ n \in 1..4
  BY PathHead
<1>2. M \subseteq 1..n /\ M \in SUBSET Nat /\ M # {}
  BY <1>1 DEF Missing
<1>3. i \in M /\ \A j \in M : i <= j
  BY <1>2, MinNat
<1>4. i \in 1..n /\ x \notin DOMAIN T /\ \A j \in 1..n : j < i => SubSeq(p, 1, j) \in DOMAIN T
  <2> HIDE DEF i
  <2> QED
    BY <1>1, <1>2, <1>3 DEF Missing
<1>5. DOMAIN U = DOMAIN T \cup {x}
  BY DEF Put
<1>6. \A l \in Nat : Missing(U, l) \subseteq Missing(T, l)
  BY <1>5 DEF Missing
<1>7. \A l \in Nat : x = Path(l) => i = n /\ l = k
  BY <1>4, PathPrefix
<1>8. i = n => x = p
  BY <1>1
<1>9. i = n => Missing(U, k) = {}
  <2> SUFFICES ASSUME i = n, NEW j \in Missing(U, k) PROVE FALSE
    OBVIOUS
  <2>1. j \in 1..n /\ SubSeq(p, 1, j) \notin DOMAIN U
    BY DEF Missing
  <2> HIDE DEF i, U, x
  <2>2. j # i
    <3>1. x = SubSeq(p, 1, i)
      BY DEF x
    <3> QED
      BY <1>5, <2>1, <3>1
  <2> QED
    BY <1>1, <1>4, <1>5, <2>1, <2>2
<1>10. x = Node(T, k) /\ (i = n <=> Last(T, k))
  BY DEF Node, Last
<1> HIDE DEF p, n, M, i, x, U
<1>11. Grown(T, k, U)
  BY <1>4, <1>5, <1>6, <1>7, <1>8, <1>9, <1>10 DEF Grown, p
<1> QED
  BY <1>10, <1>11 DEF U

-----------------------------------------------------------------------------
(* The counters of the super block are sums over the groups.               *)

\* s holds the sums of the first values of f.
Summing(s, f, n) == s \in [0..n -> Int] /\ s[0] = 0 /\ \A i \in 1..n : s[i] = s[i - 1] + f[i - 1]
SumEq(s, f, n) == s = [i \in 0..n |-> IF i = 0 THEN 0 ELSE s[i - 1] + f[i - 1]]

\* SumTo is a sum.
LEMMA SumIs ==
    ASSUME NEW n \in Nat, NEW f \in [0..n - 1 -> Int]
    PROVE  \E s : Summing(s, f, n) /\ SumTo(f, n) = s[n]
<1> DEFINE step == [y \in Int \X (1..n) |-> y[1] + f[y[2] - 1]]
<1>1. \A i \in 1..n : i - 1 \in 0..n - 1 /\ f[i - 1] \in Int
  OBVIOUS
<1>2. step \in [Int \X (1..n) -> Int]
  BY <1>1
<1>3. \A x \in Int, i \in 1..n : step[<<x, i>>] = x + f[i - 1]
  OBVIOUS
<1> HIDE DEF step
<1>4. PICK r : IsRun(r, n, Int, 0, step)
  <2> DEFINE base == 0
             S == Int
  <2>1. base \in S /\ step \in [S \X (1..n) -> S]
    BY <1>2
  <2> HIDE DEF base, S
  <2>2. \E r : IsRun(r, n, S, base, step)
    BY <2>1, Recursion
  <2> QED
    BY <2>2 DEF base, S
<1>5. r \in [0..n -> Int] /\ r[0] = 0 /\ \A i \in 1..n : r[i] = step[<<r[i - 1], i>>]
  BY <1>4 DEF IsRun
<1>6. \A i \in 1..n : i - 1 \in 0..n /\ r[i - 1] \in Int
  BY <1>5
<1>7. \A i \in 1..n : r[i] = r[i - 1] + f[i - 1]
  BY <1>3, <1>5, <1>6
<1>8. SumEq(r, f, n)
  <2>1. \A i \in 0..n : r[i] = IF i = 0 THEN 0 ELSE r[i - 1] + f[i - 1]
    BY <1>5, <1>7
  <2> QED
    BY <1>5, <2>1 DEF SumEq
<1> DEFINE s == CHOOSE t : SumEq(t, f, n)
<1>9. SumTo(f, n) = s[n]
  BY Zenon DEF SumTo, SumEq
<1>10. SumEq(s, f, n)
  BY <1>8
<1> HIDE DEF s
<1>11. DOMAIN s = 0..n /\ s[0] = 0 /\ \A i \in 1..n : s[i] = s[i - 1] + f[i - 1]
  BY <1>10 DEF SumEq
<1> DEFINE S == {i \in Nat : i <= n => s[i] \in Int}
<1>12. 0 \in S
  BY <1>11
<1>13. ASSUME NEW i \in Nat, i \in S PROVE i + 1 \in S
  <2> SUFFICES ASSUME i + 1 <= n PROVE s[i + 1] \in Int
    OBVIOUS
  <2>1. i + 1 \in 1..n /\ (i + 1) - 1 = i /\ s[i] \in Int /\ f[i] \in Int
    BY <1>13
  <2> QED
    BY <1>11, <2>1
<1>14. Nat \subseteq S
  <2> HIDE DEF S
  <2> QED
    BY <1>12, <1>13, Induction
<1>15. s = [i \in 0..n |-> s[i]]
  BY <1>10 DEF SumEq
<1>16. \A i \in 0..n : s[i] \in Int
  BY <1>14
<1>17. s \in [0..n -> Int]
  BY <1>15, <1>16
<1> QED
  BY <1>9, <1>11, <1>17 DEF Summing

\* A sum of numbers is a number.
LEMMA SumInt ==
    ASSUME NEW n \in Nat, NEW f \in [0..n - 1 -> Int]
    PROVE  SumTo(f, n) \in Int
<1>1. PICK s : Summing(s, f, n) /\ SumTo(f, n) = s[n]
  BY SumIs
<1> QED
  BY <1>1 DEF Summing

\* Only the first value changes, and the sum with it.
LEMMA SumShift ==
    ASSUME NEW n \in Nat \ {0}, NEW f \in [0..n - 1 -> Int], NEW h \in [0..n - 1 -> Int],
           NEW d \in Int, h[0] = f[0] + d, \A i \in 1..n - 1 : h[i] = f[i]
    PROVE  SumTo(h, n) = SumTo(f, n) + d
<1>1. PICK s : Summing(s, f, n) /\ SumTo(f, n) = s[n]
  BY SumIs
<1>2. PICK t : Summing(t, h, n) /\ SumTo(h, n) = t[n]
  BY SumIs
<1> DEFINE S == {i \in Nat : i + 1 <= n => t[i + 1] = s[i + 1] + d}
<1>3. 0 \in S
  <2>1. 1 \in 1..n /\ 0 + 1 = 1 /\ 1 - 1 = 0 /\ f[0] \in Int /\ h[0] \in Int
    OBVIOUS
  <2>2. s[1] = 0 + f[0] /\ t[1] = 0 + h[0]
    BY <1>1, <1>2, <2>1 DEF Summing
  <2> QED
    BY <2>1, <2>2
<1>4. ASSUME NEW i \in Nat, i \in S PROVE i + 1 \in S
  <2> SUFFICES ASSUME (i + 1) + 1 <= n PROVE t[(i + 1) + 1] = s[(i + 1) + 1] + d
    OBVIOUS
  <2> DEFINE j == (i + 1) + 1
  <2>1. j \in 1..n /\ j - 1 = i + 1 /\ i + 1 \in 1..n - 1 /\ i + 1 \in 0..n /\ i + 1 <= n
    OBVIOUS
  <2>2. s[j] = s[i + 1] + f[i + 1] /\ t[j] = t[i + 1] + h[i + 1] /\ s[i + 1] \in Int
    <3> HIDE DEF j
    <3> QED
      BY <1>1, <1>2, <2>1 DEF Summing
  <2>3. h[i + 1] = f[i + 1] /\ f[i + 1] \in Int
    BY <2>1
  <2>4. t[i + 1] = s[i + 1] + d
    BY <1>4, <2>1
  <2> QED
    BY <2>2, <2>3, <2>4
<1>5. Nat \subseteq S
  <2> HIDE DEF S
  <2> QED
    BY <1>3, <1>4, Induction
<1>6. n - 1 \in Nat /\ (n - 1) + 1 = n
  OBVIOUS
<1> QED
  BY <1>1, <1>2, <1>5, <1>6, SMTT(30)

\* The sum of n times the same.
LEMMA SumConstant ==
    ASSUME NEW n \in Nat, NEW c \in Int, NEW f \in [0..n - 1 -> Int], \A i \in 0..n - 1 : f[i] = c
    PROVE  SumTo(f, n) = n * c
<1>1. PICK s : Summing(s, f, n) /\ SumTo(f, n) = s[n]
  BY SumIs
<1> DEFINE S == {i \in Nat : i <= n => s[i] = i * c}
<1>2. 0 \in S
  BY <1>1 DEF Summing
<1>3. ASSUME NEW i \in Nat, i \in S PROVE i + 1 \in S
  <2> SUFFICES ASSUME i + 1 <= n PROVE s[i + 1] = (i + 1) * c
    OBVIOUS
  <2>1. i + 1 \in 1..n /\ (i + 1) - 1 = i /\ i \in 0..n - 1
    OBVIOUS
  <2>2. s[i + 1] = s[i] + f[i] /\ f[i] = c /\ s[i] = i * c
    BY <1>1, <1>3, <2>1 DEF Summing
  <2>3. i * c + c = (i + 1) * c
    OBVIOUS
  <2> QED
    BY <2>2, <2>3
<1>4. Nat \subseteq S
  <2> HIDE DEF S
  <2> QED
    BY <1>2, <1>3, Induction
<1> QED
  BY <1>1, <1>4

-----------------------------------------------------------------------------
(* Who has the blocks.                                                     *)

\* T are the trees of all inodes and of the copy under way: each of the blocks
\* u + 1 to m has exactly one pointer, and no other block has one.
Owned(T, u, m) ==
    /\ \A t \in DOMAIN T : \A a \in DOMAIN T[t] : T[t][a] \in u + 1..m
    /\ \A t, s \in DOMAIN T : \A a \in DOMAIN T[t], b \in DOMAIN T[s] :
          T[t][a] = T[s][b] => t = s /\ a = b
    /\ \A x \in u + 1..m : \E t \in DOMAIN T : \E a \in DOMAIN T[t] : T[t][a] = x

\* U is T but for t.
Alike(T, U, t) == DOMAIN U = DOMAIN T /\ \A s \in DOMAIN T : s # t => U[s] = T[s]

\* The next block gets its pointer.
LEMMA OwnedPut ==
    ASSUME NEW T, NEW U, NEW u \in Nat, NEW m \in Nat, u <= m, Owned(T, u, m),
           NEW t \in DOMAIN T, NEW x, x \notin DOMAIN T[t],
           Alike(T, U, t), U[t] = Put(T[t], x, m + 1)
    PROVE  Owned(U, u, m + 1)
<1>1. /\ DOMAIN U = DOMAIN T /\ \A s \in DOMAIN T : s # t => U[s] = T[s]
      /\ DOMAIN U[t] = DOMAIN T[t] \cup {x} /\ U[t][x] = m + 1
      /\ \A a \in DOMAIN T[t] : U[t][a] = T[t][a]
  BY DEF Alike, Put
<1>2. /\ \A s \in DOMAIN T : \A a \in DOMAIN T[s] : T[s][a] \in u + 1..m
      /\ \A r, s \in DOMAIN T : \A a \in DOMAIN T[r], b \in DOMAIN T[s] :
            T[r][a] = T[s][b] => r = s /\ a = b
      /\ \A y \in u + 1..m : \E s \in DOMAIN T : \E a \in DOMAIN T[s] : T[s][a] = y
  BY DEF Owned
<1>3. \A s \in DOMAIN U : \A a \in DOMAIN U[s] :
        \/ s = t /\ a = x /\ U[s][a] = m + 1
        \/ a \in DOMAIN T[s] /\ U[s][a] = T[s][a] /\ U[s][a] \in u + 1..m
  BY <1>1, <1>2
<1>4. u + 1..m \subseteq u + 1..m + 1 /\ m + 1 \in u + 1..m + 1 /\ m + 1 \notin u + 1..m
  OBVIOUS
<1>5. \A s \in DOMAIN U : \A a \in DOMAIN U[s] : U[s][a] \in u + 1..m + 1
  BY <1>3, <1>4
<1>6. \A r, s \in DOMAIN U : \A a \in DOMAIN U[r], b \in DOMAIN U[s] :
         U[r][a] = U[s][b] => r = s /\ a = b
  <2> SUFFICES ASSUME NEW r \in DOMAIN U, NEW s \in DOMAIN U, NEW a \in DOMAIN U[r],
                      NEW b \in DOMAIN U[s], U[r][a] = U[s][b]
               PROVE  r = s /\ a = b
    OBVIOUS
  <2>1. CASE U[r][a] = m + 1
    <3>1. U[r][a] \notin u + 1..m /\ U[s][b] \notin u + 1..m
      BY <1>4, <2>1
    <3>2. r = t /\ a = x
      BY <1>3, <3>1
    <3>3. s = t /\ b = x
      BY <1>3, <3>1
    <3> QED
      BY <3>2, <3>3
  <2>2. CASE U[r][a] # m + 1
    BY <1>1, <1>2, <1>3, <2>2
  <2> QED
    BY <2>1, <2>2
<1>7. ASSUME NEW y \in u + 1..m + 1 PROVE \E s \in DOMAIN U : \E a \in DOMAIN U[s] : U[s][a] = y
  <2>1. CASE y = m + 1
    BY <1>1, <2>1
  <2>2. CASE y # m + 1
    <3>1. y \in u + 1..m
      BY <2>2
    <3>2. PICK s \in DOMAIN T : \E a \in DOMAIN T[s] : T[s][a] = y
      BY <1>2, <3>1
    <3>3. PICK a \in DOMAIN T[s] : T[s][a] = y
      BY <3>2
    <3>4. s \in DOMAIN U /\ a \in DOMAIN U[s] /\ U[s][a] = y
      BY <1>1, <3>3
    <3> QED
      BY <3>4
  <2> QED
    BY <2>1, <2>2
<1> QED
  BY <1>5, <1>6, <1>7 DEF Owned

\* A new inode has no blocks.
LEMMA OwnedNew ==
    ASSUME NEW T, NEW U, NEW u, NEW m, Owned(T, u, m), NEW t, t \notin DOMAIN T,
           DOMAIN U = DOMAIN T \cup {t}, \A s \in DOMAIN T : U[s] = T[s], DOMAIN U[t] = {}
    PROVE  Owned(U, u, m)
  BY DEF Owned

\* The blocks of the copy become those of its inode.
LEMMA OwnedMove ==
    ASSUME NEW T, NEW U, NEW u, NEW m, Owned(T, u, m), NEW s \in DOMAIN T, NEW t \in DOMAIN T,
           s # t, DOMAIN T[t] = {}, DOMAIN U = DOMAIN T, U[t] = T[s], DOMAIN U[s] = {},
           \A r \in DOMAIN T : r # s /\ r # t => U[r] = T[r]
    PROVE  Owned(U, u, m)
<1>1. /\ \A r \in DOMAIN T : \A a \in DOMAIN T[r] : T[r][a] \in u + 1..m
      /\ \A r, q \in DOMAIN T : \A a \in DOMAIN T[r], b \in DOMAIN T[q] :
            T[r][a] = T[q][b] => r = q /\ a = b
      /\ \A y \in u + 1..m : \E r \in DOMAIN T : \E a \in DOMAIN T[r] : T[r][a] = y
  BY DEF Owned
<1>2. \A r \in DOMAIN U : \A a \in DOMAIN U[r] :
        \/ r = t /\ a \in DOMAIN T[s] /\ U[r][a] = T[s][a]
        \/ r # s /\ r # t /\ a \in DOMAIN T[r] /\ U[r][a] = T[r][a]
  OBVIOUS
<1>3. \A r \in DOMAIN U : \A a \in DOMAIN U[r] : U[r][a] \in u + 1..m
  BY <1>1, <1>2
<1>4. \A r, q \in DOMAIN U : \A a \in DOMAIN U[r], b \in DOMAIN U[q] :
         U[r][a] = U[q][b] => r = q /\ a = b
  BY <1>1, <1>2
<1>5. ASSUME NEW y \in u + 1..m PROVE \E r \in DOMAIN U : \E a \in DOMAIN U[r] : U[r][a] = y
  <2>1. PICK r \in DOMAIN T : \E a \in DOMAIN T[r] : T[r][a] = y
    BY <1>1
  <2>2. PICK a \in DOMAIN T[r] : T[r][a] = y
    BY <2>1
  <2>3. CASE r = s
    BY <2>2, <2>3
  <2>4. CASE r # s
    BY <2>2, <2>4
  <2> QED
    BY <2>3, <2>4
<1> QED
  BY <1>3, <1>4, <1>5 DEF Owned

-----------------------------------------------------------------------------
(* The groups.                                                             *)

GroupNum == Ceil(s_blocks_count, BLOCKS_PER_GROUP)

\* The blocks of the first group that hold metadata, and those that are taken;
\* the inodes in use.
Meta == used_blocks(0, GroupNum)
Taken == blocks_of(0, s_blocks_count) - bg[0].free_blocks
InUse == InodesPerGroup - bg[0].free_inodes

\* Blocks and inodes are taken from the first group, from the lowest on; of the
\* other groups only the metadata are taken.
Layout ==
    /\ s_blocks_count \in Nat \ {0} /\ GroupNum \in Nat \ {0}
    /\ DOMAIN bg = 0..GroupNum - 1
    /\ DOMAIN block_bitmap = 0..GroupNum - 1 /\ DOMAIN inode_bitmap = 0..GroupNum - 1
    /\ \A g \in 0..GroupNum - 1 :
        /\ bg[g] \in [free_blocks : Nat, free_inodes : Nat]
        /\ used_blocks(g, GroupNum) < blocks_of(g, s_blocks_count)
    /\ \A g \in 1..GroupNum - 1 :
        /\ block_bitmap[g] = 0..used_blocks(g, GroupNum) - 1
        /\ bg[g].free_blocks = blocks_of(g, s_blocks_count) - used_blocks(g, GroupNum)
        /\ inode_bitmap[g] = {} /\ bg[g].free_inodes = InodesPerGroup
    /\ Meta < Taken /\ block_bitmap[0] = 0..Taken - 1
    /\ InUse \in 1..InodesPerGroup /\ inode_bitmap[0] = 0..InUse - 1
    /\ DOMAIN inodes = 1..InUse

\* The counters of the super block.
Sums ==
    /\ s_free_blocks_count = SumTo([g \in Groups |-> bg[g].free_blocks], GroupNum)
    /\ s_free_inodes_count = SumTo([g \in Groups |-> bg[g].free_inodes], GroupNum)

\* Division of a number below the divisor.
LEMMA DivSmall ==
    ASSUME NEW b \in Nat \ {0}, NEW x \in 0..b - 1
    PROVE  x \div b = 0 /\ x % b = x
<1> DEFINE q == x \div b
           r == x % b
<1>1. x \in Nat /\ 0 \in Nat
  OBVIOUS
<1>2. q \in Nat /\ r \in 0..b - 1 /\ x = b * q + r
  BY <1>1, Division
<1>3. b * 0 + x = x
  OBVIOUS
<1> HIDE DEF q, r
<1>4. q = 0 /\ r = x
  BY <1>1, <1>2, <1>3, DivisionUnique
<1> QED
  BY <1>4 DEF q, r

\* The metadata of a group.
LEMMA UsedNat ==
    ASSUME NEW g \in Nat, NEW n \in Nat
    PROVE  used_blocks(g, n) \in Nat /\ used_blocks(g, n) >= 2
<1>1. inodes_table_blocks \in Nat
  <2> DEFINE x == InodesPerGroup * INODE_SIZE
  <2>1. x \in Nat /\ BLOCK_SIZE \in Nat \ {0}
    BY SizesAssumption, OptionsAssumption
  <2> HIDE DEF x
  <2>2. Ceil(x, BLOCK_SIZE) \in Nat
    BY <2>1, CeilNat
  <2> QED
    BY <2>2 DEF inodes_table_blocks, x
<1>2. Ceil(n * DESC_SIZE, BLOCK_SIZE) \in Nat
  <2> DEFINE x == n * DESC_SIZE
  <2>1. x \in Nat /\ BLOCK_SIZE \in Nat \ {0}
    BY SizesAssumption
  <2> HIDE DEF x
  <2>2. Ceil(x, BLOCK_SIZE) \in Nat
    BY <2>1, CeilNat
  <2> QED
    BY <2>2 DEF x
<1> QED
  BY <1>1, <1>2 DEF used_blocks

\* What is known of the numbers of the first group.
LEMMA FirstGroup ==
    ASSUME Layout
    PROVE  /\ GroupNum \in Nat /\ 0 \in 0..GroupNum - 1
           /\ bg[0] \in [free_blocks : Nat, free_inodes : Nat]
           /\ BLOCKS_PER_GROUP \in Nat \ {0} /\ InodesPerGroup \in Nat \ {0}
           /\ blocks_of(0, s_blocks_count) \in Nat
           /\ blocks_of(0, s_blocks_count) <= BLOCKS_PER_GROUP
           /\ blocks_of(0, s_blocks_count) <= s_blocks_count
           /\ Meta \in Nat /\ Meta >= 2 /\ Taken \in Nat /\ Meta < Taken
           /\ Taken <= blocks_of(0, s_blocks_count)
           /\ InUse \in 1..InodesPerGroup
<1>1. GroupNum \in Nat /\ 0 \in 0..GroupNum - 1 /\ bg[0] \in [free_blocks : Nat, free_inodes : Nat]
  BY DEF Layout
<1>2. BLOCKS_PER_GROUP \in Nat \ {0} /\ InodesPerGroup \in Nat \ {0} /\ s_blocks_count \in Nat
  BY GroupAssumption, OptionsAssumption DEF Layout
<1>3. /\ blocks_of(0, s_blocks_count) \in Nat
      /\ blocks_of(0, s_blocks_count) <= BLOCKS_PER_GROUP
      /\ blocks_of(0, s_blocks_count) <= s_blocks_count
  BY <1>2 DEF blocks_of
<1>4. Meta \in Nat /\ Meta >= 2
  BY <1>1, UsedNat DEF Meta
<1>5. Taken \in Int /\ Meta < Taken /\ Taken <= blocks_of(0, s_blocks_count)
  BY <1>1, <1>3 DEF Layout, Taken
<1>6. InUse \in 1..InodesPerGroup
  BY DEF Layout
<1> QED
  BY <1>1, <1>2, <1>3, <1>4, <1>5, <1>6

\* The least of the numbers that are not below k.
LEMMA MinRest ==
    ASSUME NEW n \in Nat, NEW k \in Nat, (0..n - 1) \ (0..k - 1) # {}
    PROVE  k < n /\ Min((0..n - 1) \ (0..k - 1)) = k
<1> DEFINE S == (0..n - 1) \ (0..k - 1)
<1>1. S \in SUBSET Nat /\ S # {} /\ \A y \in S : y >= k /\ y < n
  OBVIOUS
<1>2. Min(S) \in S /\ \A y \in S : Min(S) <= y
  BY <1>1, MinNat
<1>3. k \in S
  BY <1>1
<1> DEFINE m == Min(S)
<1>4. m \in S /\ m <= k /\ k < n
  BY <1>1, <1>2, <1>3
<1>5. m \in Nat /\ m >= k
  BY <1>1, <1>4
<1> HIDE DEF S, m
<1>6. k < n /\ m = k
  BY <1>4, <1>5
<1> QED
  BY <1>6, Zenon DEF S, m

\* The least of a set that can only hold 0.
LEMMA MinZero ==
    ASSUME NEW S \in SUBSET {0}, S # {}
    PROVE  Min(S) = 0
<1>1. S \in SUBSET Nat
  OBVIOUS
<1>2. Min(S) \in S
  BY <1>1, MinNat
<1> QED
  BY <1>2

\* bg_num is 1, or 0.
LEMMA OneGroup ==
    ASSUME NEW n \in Int, NEW k \in Int
    PROVE  0..bg_num(n, k) - 1 \subseteq {0}
  BY DEF bg_num

\* alloc_block gives the lowest block of the first group that is not taken.
LEMMA AllocBlock ==
    ASSUME Layout, NEW b \in alloc_block
    PROVE  b = Taken + 1 /\ bg[0].free_blocks > 0 /\ Taken < BLOCKS_PER_GROUP
<1> DEFINE found(g) == {c \in alloc_block_from_block_group(g) :
                           c > 0 /\ c < s_blocks_count + SUPER_BLOCK_NO}
           groups == {g \in 0..bg_num(s_blocks_count, BLOCKS_PER_GROUP) - 1 : found(g) # {}}
<1>1. groups # {} /\ b \in found(Min(groups))
  BY DEF alloc_block
<1>2. groups \subseteq {0}
  <2>1. s_blocks_count \in Int /\ BLOCKS_PER_GROUP \in Int
    BY GroupAssumption DEF Layout
  <2> QED
    BY <2>1, OneGroup
<1> HIDE DEF groups
<1>3. Min(groups) = 0
  BY <1>1, <1>2, MinZero
<1>4. b \in alloc_block_from_block_group(0)
  BY <1>1, <1>3
<1> DEFINE bits == (0..BLOCKS_PER_GROUP - 1) \ block_bitmap[0]
<1>5. bg[0].free_blocks > 0 /\ bits # {} /\ b = Min(bits) + 0 * BLOCKS_PER_GROUP + SUPER_BLOCK_NO
  BY <1>4 DEF alloc_block_from_block_group
<1>6. BLOCKS_PER_GROUP \in Nat /\ Taken \in Nat /\ bits = (0..BLOCKS_PER_GROUP - 1) \ (0..Taken - 1)
  BY FirstGroup DEF Layout
<1>7. Taken < BLOCKS_PER_GROUP /\ Min(bits) = Taken
  BY <1>5, <1>6, MinRest
<1> HIDE DEF bits
<1> QED
  BY <1>5, <1>6, <1>7 DEF SUPER_BLOCK_NO

\* alloc_inode_no gives the lowest inode that is not in use.
LEMMA AllocInode ==
    ASSUME Layout, NEW b \in alloc_inode_no
    PROVE  b = InUse + 1 /\ bg[0].free_inodes > 0
<1> DEFINE n == Cardinality(DOMAIN bg) * InodesPerGroup
           groups == {g \in 0..bg_num(n, InodesPerGroup) - 1 :
                         alloc_inode_no_from_block_group(g) # {}}
<1>1. groups # {} /\ b \in alloc_inode_no_from_block_group(Min(groups))
  BY DEF alloc_inode_no
<1>2. groups \subseteq {0}
  <2>1. GroupNum \in Nat /\ InodesPerGroup \in Nat /\ DOMAIN bg = 0..GroupNum - 1
    BY FirstGroup DEF Layout
  <2>2. Cardinality(DOMAIN bg) \in Nat
    BY <2>1, FS_Interval, FS_CardinalityType
  <2>3. n \in Int
    BY <2>1, <2>2
  <2> HIDE DEF n
  <2> QED
    BY <2>1, <2>3, OneGroup
<1> HIDE DEF groups
<1>3. Min(groups) = 0
  BY <1>1, <1>2, MinZero
<1>4. b \in alloc_inode_no_from_block_group(0)
  BY <1>1, <1>3
<1> DEFINE bits == (0..BLOCKS_PER_GROUP - 1) \ inode_bitmap[0]
<1>5. bg[0].free_inodes > 0 /\ bits # {} /\ b = Min(bits) + 0 * InodesPerGroup + 1
  BY <1>4 DEF alloc_inode_no_from_block_group
<1>6. /\ BLOCKS_PER_GROUP \in Nat /\ InUse \in Nat /\ bits = (0..BLOCKS_PER_GROUP - 1) \ (0..InUse - 1)
      /\ InodesPerGroup \in Nat
  BY FirstGroup DEF Layout
<1>7. Min(bits) = InUse
  BY <1>5, <1>6, MinRest
<1> HIDE DEF bits
<1> QED
  BY <1>5, <1>6, <1>7

\* update_block_bitmap takes the first block of the first group that is free.
LEMMA TakeBlock ==
    ASSUME Layout, NEW b, b = Taken + 1, Taken < BLOCKS_PER_GROUP, update_block_bitmap(b)
    PROVE  /\ block_bitmap' = [block_bitmap EXCEPT ![0] = @ \cup {Taken}]
           /\ bg' = [bg EXCEPT ![0].free_blocks = @ - 1]
           /\ s_free_blocks_count' = s_free_blocks_count - 1
<1>1. BLOCKS_PER_GROUP \in Nat \ {0} /\ Taken \in 0..BLOCKS_PER_GROUP - 1
  BY FirstGroup
<1> DEFINE g == (b - SUPER_BLOCK_NO) \div BLOCKS_PER_GROUP
           bit == (b - SUPER_BLOCK_NO) % BLOCKS_PER_GROUP
<1>2. b - SUPER_BLOCK_NO = Taken
  BY <1>1 DEF SUPER_BLOCK_NO
<1>3. g = 0 /\ bit = Taken
  BY <1>1, <1>2, DivSmall
<1>4. /\ block_bitmap' = [block_bitmap EXCEPT ![g] = @ \cup {bit}]
      /\ bg' = [bg EXCEPT ![g].free_blocks = @ - 1]
      /\ s_free_blocks_count' = s_free_blocks_count - 1
  BY DEF update_block_bitmap
<1> HIDE DEF g, bit
<1> QED
  BY <1>3, <1>4

\* write_inode takes the first inode of the first group that is free.
LEMMA TakeInode ==
    ASSUME Layout, NEW ino, ino = InUse + 1, InUse < InodesPerGroup, NEW r, write_inode(ino, r)
    PROVE  /\ inodes' = Put(inodes, ino, r)
           /\ inode_bitmap' = [inode_bitmap EXCEPT ![0] = @ \cup {InUse}]
           /\ bg' = [bg EXCEPT ![0].free_inodes = @ - 1]
           /\ s_free_inodes_count' = s_free_inodes_count - 1
<1>1. InodesPerGroup \in Nat \ {0} /\ InUse \in 0..InodesPerGroup - 1
  BY FirstGroup
<1> DEFINE g == (ino - 1) \div InodesPerGroup
           bit == (ino - 1) % InodesPerGroup
<1>2. ino - 1 = InUse
  BY <1>1
<1>3. g = 0 /\ bit = InUse
  BY <1>1, <1>2, DivSmall
<1>4. /\ inodes' = Put(inodes, ino, r)
      /\ inode_bitmap' = [inode_bitmap EXCEPT ![g] = @ \cup {bit}]
      /\ bg' = [bg EXCEPT ![g].free_inodes = @ - 1]
      /\ s_free_inodes_count' = s_free_inodes_count - 1
  BY DEF write_inode
<1> HIDE DEF g, bit
<1> QED
  BY <1>3, <1>4

\* d are the descriptors after x blocks and y inodes of the first group were taken.
Dropped(d, x, y) ==
    d = [g \in DOMAIN bg |-> IF g = 0 THEN [free_blocks |-> bg[0].free_blocks - x,
                                            free_inodes |-> bg[0].free_inodes - y]
                             ELSE bg[g]]

\* The sums of the counters of the groups go down by that.
LEMMA GroupStep ==
    ASSUME Layout, NEW x \in {0, 1}, NEW y \in {0, 1}, NEW d,
           x <= bg[0].free_blocks, y <= bg[0].free_inodes,
           Dropped(d, x, y)
    PROVE  /\ SumTo([g \in DOMAIN d |-> d[g].free_blocks], GroupNum)
                = SumTo([g \in DOMAIN bg |-> bg[g].free_blocks], GroupNum) - x
           /\ SumTo([g \in DOMAIN d |-> d[g].free_inodes], GroupNum)
                = SumTo([g \in DOMAIN bg |-> bg[g].free_inodes], GroupNum) - y
<1> DEFINE n == GroupNum
           f == [g \in DOMAIN bg |-> bg[g].free_blocks]
           h == [g \in DOMAIN d |-> d[g].free_blocks]
           p == [g \in DOMAIN bg |-> bg[g].free_inodes]
           q == [g \in DOMAIN d |-> d[g].free_inodes]
<1>1. /\ n \in Nat \ {0} /\ DOMAIN bg = 0..n - 1 /\ DOMAIN d = 0..n - 1
      /\ \A g \in 0..n - 1 : bg[g] \in [free_blocks : Nat, free_inodes : Nat]
  BY DEF Layout, Dropped
<1>2. 0 \in 0..n - 1 /\ \A g \in 1..n - 1 : g \in 0..n - 1 /\ g # 0
  BY <1>1
<1>3. \A g \in 0..n - 1 : d[g] \in [free_blocks : Nat, free_inodes : Nat]
  BY <1>1, <1>2 DEF Dropped
<1> HIDE DEF n
<1>4. f \in [0..n - 1 -> Int] /\ h \in [0..n - 1 -> Int]
  BY <1>1, <1>3
<1>5. p \in [0..n - 1 -> Int] /\ q \in [0..n - 1 -> Int]
  BY <1>1, <1>3
<1>6. h[0] = f[0] + (0 - x) /\ \A g \in 1..n - 1 : h[g] = f[g]
  BY <1>1, <1>2 DEF Dropped
<1>7. q[0] = p[0] + (0 - y) /\ \A g \in 1..n - 1 : q[g] = p[g]
  BY <1>1, <1>2 DEF Dropped
<1>8. 0 - x \in Int /\ 0 - y \in Int
  OBVIOUS
<1> HIDE DEF f, h, p, q
<1>9. SumTo(h, n) = SumTo(f, n) + (0 - x) /\ SumTo(q, n) = SumTo(p, n) + (0 - y)
  BY <1>1, <1>4, <1>5, <1>6, <1>7, <1>8, SumShift
<1>10. SumTo(f, n) \in Int /\ SumTo(p, n) \in Int
  BY <1>1, <1>4, <1>5, SumInt
<1>11. SumTo(h, n) = SumTo(f, n) - x /\ SumTo(q, n) = SumTo(p, n) - y
  BY <1>9, <1>10
<1> QED
  BY <1>11, Zenon DEF f, h, p, q, n

\* The counters are numbers.
LEMMA SumsInt ==
    ASSUME Layout
    PROVE  /\ SumTo([g \in DOMAIN bg |-> bg[g].free_blocks], GroupNum) \in Int
           /\ SumTo([g \in DOMAIN bg |-> bg[g].free_inodes], GroupNum) \in Int
<1> DEFINE f == [g \in DOMAIN bg |-> bg[g].free_blocks]
           p == [g \in DOMAIN bg |-> bg[g].free_inodes]
<1>1. /\ GroupNum \in Nat /\ DOMAIN bg = 0..GroupNum - 1
      /\ \A g \in 0..GroupNum - 1 : bg[g] \in [free_blocks : Nat, free_inodes : Nat]
  BY DEF Layout
<1>2. f \in [0..GroupNum - 1 -> Int] /\ p \in [0..GroupNum - 1 -> Int]
  BY <1>1
<1> HIDE DEF f, p
<1>3. SumTo(f, GroupNum) \in Int /\ SumTo(p, GroupNum) \in Int
  BY <1>1, <1>2, SumInt
<1> QED
  BY <1>3, Zenon DEF f, p

\* What stays where it is while the image is filled.
Placed == GroupNum' = GroupNum /\ Meta' = Meta

\* Taking a block keeps the layout.
LEMMA LayoutBlock ==
    ASSUME Layout, Sums, NEW b \in alloc_block, update_block_bitmap(b),
           UNCHANGED <<s_blocks_count, s_free_inodes_count, inode_bitmap>>,
           DOMAIN inodes' = DOMAIN inodes
    PROVE  Layout' /\ Sums' /\ Placed /\ b = Taken + 1 /\ Taken' = Taken + 1 /\ InUse' = InUse
<1>1. b = Taken + 1 /\ bg[0].free_blocks > 0 /\ Taken < BLOCKS_PER_GROUP
  BY AllocBlock
<1>2. /\ block_bitmap' = [block_bitmap EXCEPT ![0] = @ \cup {Taken}]
      /\ bg' = [bg EXCEPT ![0].free_blocks = @ - 1]
      /\ s_free_blocks_count' = s_free_blocks_count - 1
  BY <1>1, TakeBlock
<1>3. /\ GroupNum \in Nat /\ 0 \in 0..GroupNum - 1
      /\ bg[0] \in [free_blocks : Nat, free_inodes : Nat]
      /\ blocks_of(0, s_blocks_count) \in Nat /\ Meta \in Nat /\ Taken \in Nat /\ Meta < Taken
      /\ InUse \in 1..InodesPerGroup
  BY FirstGroup
<1>4. GroupNum' = GroupNum /\ Meta' = Meta
  BY DEF GroupNum, Meta, used_blocks, inodes_table_blocks
<1>5. DOMAIN bg = 0..GroupNum - 1 /\ DOMAIN block_bitmap = 0..GroupNum - 1
  BY DEF Layout
<1>6. Dropped(bg', 1, 0)
  <2> DEFINE r == [free_blocks |-> bg[0].free_blocks - 1, free_inodes |-> bg[0].free_inodes]
  <2>1. [bg[0] EXCEPT !.free_blocks = @ - 1] = r /\ bg[0].free_inodes - 0 = bg[0].free_inodes
    BY <1>3
  <2>2. bg' = [g \in DOMAIN bg |-> IF g = 0 THEN r ELSE bg[g]]
    BY <1>2, <2>1
  <2> QED
    BY <2>1, <2>2 DEF Dropped
<1>7. /\ DOMAIN bg' = DOMAIN bg /\ bg'[0].free_blocks = bg[0].free_blocks - 1
      /\ bg'[0].free_inodes = bg[0].free_inodes
      /\ bg'[0] \in [free_blocks : Nat, free_inodes : Nat]
      /\ \A g \in 0..GroupNum - 1 : g # 0 => bg'[g] = bg[g]
  BY <1>1, <1>3, <1>5, <1>6 DEF Dropped
<1>8. Taken' = Taken + 1 /\ InUse' = InUse
  BY <1>3, <1>7 DEF Taken, InUse, blocks_of
<1>9. /\ DOMAIN block_bitmap' = DOMAIN block_bitmap /\ block_bitmap'[0] = 0..Taken + 1 - 1
      /\ \A g \in 0..GroupNum - 1 : g # 0 => block_bitmap'[g] = block_bitmap[g]
  <2>1. block_bitmap[0] = 0..Taken - 1
    BY DEF Layout
  <2>2. block_bitmap'[0] = block_bitmap[0] \cup {Taken}
    BY <1>2, <1>3, <1>5
  <2>3. (0..Taken - 1) \cup {Taken} = 0..Taken + 1 - 1
    BY <1>3
  <2> QED
    BY <1>2, <1>5, <2>1, <2>2, <2>3
<1>10. Layout'
  <2>1. \A g \in 0..GroupNum - 1 :
          /\ bg'[g] \in [free_blocks : Nat, free_inodes : Nat]
          /\ used_blocks(g, GroupNum) < blocks_of(g, s_blocks_count)
    BY <1>7 DEF Layout
  <2>2. \A g \in 1..GroupNum - 1 :
          /\ block_bitmap'[g] = 0..used_blocks(g, GroupNum) - 1
          /\ bg'[g].free_blocks = blocks_of(g, s_blocks_count) - used_blocks(g, GroupNum)
          /\ inode_bitmap[g] = {} /\ bg'[g].free_inodes = InodesPerGroup
    <3> SUFFICES ASSUME NEW g \in 1..GroupNum - 1
                 PROVE  /\ block_bitmap'[g] = 0..used_blocks(g, GroupNum) - 1
                        /\ bg'[g].free_blocks
                              = blocks_of(g, s_blocks_count) - used_blocks(g, GroupNum)
                        /\ inode_bitmap[g] = {} /\ bg'[g].free_inodes = InodesPerGroup
      OBVIOUS
    <3>1. g \in 0..GroupNum - 1 /\ g # 0
      BY <1>3
    <3> QED
      BY <3>1, <1>7, <1>9 DEF Layout
  <2>3. \A g : used_blocks(g, GroupNum)' = used_blocks(g, GroupNum)
    BY <1>4 DEF used_blocks, inodes_table_blocks, Ceil
  <2>4. \A g : blocks_of(g, s_blocks_count)' = blocks_of(g, s_blocks_count)
    BY DEF blocks_of
  <2>5. Meta' < Taken' /\ block_bitmap'[0] = 0..Taken' - 1
    BY <1>3, <1>4, <1>8, <1>9
  <2>6. /\ s_blocks_count' \in Nat \ {0} /\ GroupNum' \in Nat \ {0}
        /\ DOMAIN bg' = 0..GroupNum' - 1
        /\ DOMAIN block_bitmap' = 0..GroupNum' - 1 /\ DOMAIN inode_bitmap' = 0..GroupNum' - 1
    BY <1>4, <1>7, <1>9 DEF Layout
  <2>7. /\ InUse' \in 1..InodesPerGroup /\ inode_bitmap'[0] = 0..InUse' - 1
        /\ DOMAIN inodes' = 1..InUse'
    BY <1>8 DEF Layout
  <2>8. \A g \in 0..GroupNum' - 1 :
          /\ bg'[g] \in [free_blocks : Nat, free_inodes : Nat]
          /\ used_blocks(g, GroupNum)' < blocks_of(g, s_blocks_count)'
    BY <1>4, <2>1, <2>3, <2>4
  <2>9. \A g \in 1..GroupNum' - 1 :
          /\ block_bitmap'[g] = 0..used_blocks(g, GroupNum)' - 1
          /\ bg'[g].free_blocks = blocks_of(g, s_blocks_count)' - used_blocks(g, GroupNum)'
          /\ inode_bitmap'[g] = {} /\ bg'[g].free_inodes = InodesPerGroup
    BY <1>4, <2>2, <2>3, <2>4
  <2> QED
    BY <2>5, <2>6, <2>7, <2>8, <2>9, Zenon DEF Layout
<1>11. Sums'
  <2>1. /\ SumTo([g \in DOMAIN bg' |-> bg'[g].free_blocks], GroupNum)
             = SumTo([g \in DOMAIN bg |-> bg[g].free_blocks], GroupNum) - 1
        /\ SumTo([g \in DOMAIN bg' |-> bg'[g].free_inodes], GroupNum)
             = SumTo([g \in DOMAIN bg |-> bg[g].free_inodes], GroupNum) - 0
    <3>1. 1 <= bg[0].free_blocks /\ 0 <= bg[0].free_inodes /\ 1 \in {0, 1} /\ 0 \in {0, 1}
      BY <1>1, <1>3
    <3> QED
      BY <3>1, <1>6, GroupStep, Zenon
  <2>2. SumTo([g \in DOMAIN bg |-> bg[g].free_inodes], GroupNum) \in Int
    BY SumsInt
  <2> QED
    BY <1>2, <1>4, <2>1, <2>2 DEF Sums, Groups
<1> QED
  BY <1>1, <1>4, <1>8, <1>10, <1>11 DEF Placed

\* Taking an inode keeps the layout.
LEMMA LayoutInode ==
    ASSUME Layout, Sums, NEW ino \in alloc_inode_no, NEW r, write_inode(ino, r),
           UNCHANGED <<s_blocks_count, s_free_blocks_count, block_bitmap>>
    PROVE  /\ Layout' /\ Sums' /\ Placed /\ Taken' = Taken
           /\ ino = InUse + 1 /\ InUse' = InUse + 1 /\ inodes' = Put(inodes, ino, r)
<1>1. ino = InUse + 1 /\ bg[0].free_inodes > 0
  BY AllocInode
<1>2. /\ GroupNum \in Nat /\ 0 \in 0..GroupNum - 1
      /\ bg[0] \in [free_blocks : Nat, free_inodes : Nat] /\ InodesPerGroup \in Nat
      /\ blocks_of(0, s_blocks_count) \in Nat /\ Meta \in Nat /\ Taken \in Nat /\ Meta < Taken
      /\ InUse \in 1..InodesPerGroup
  BY FirstGroup
<1>3. InUse < InodesPerGroup
  BY <1>1, <1>2 DEF InUse
<1>4. /\ inodes' = Put(inodes, ino, r)
      /\ inode_bitmap' = [inode_bitmap EXCEPT ![0] = @ \cup {InUse}]
      /\ bg' = [bg EXCEPT ![0].free_inodes = @ - 1]
      /\ s_free_inodes_count' = s_free_inodes_count - 1
  BY <1>1, <1>3, TakeInode
<1>5. GroupNum' = GroupNum /\ Meta' = Meta
  BY DEF GroupNum, Meta, used_blocks, inodes_table_blocks
<1>6. DOMAIN bg = 0..GroupNum - 1 /\ DOMAIN inode_bitmap = 0..GroupNum - 1
  BY DEF Layout
<1>7. Dropped(bg', 0, 1)
  <2> DEFINE q == [free_blocks |-> bg[0].free_blocks, free_inodes |-> bg[0].free_inodes - 1]
  <2>1. [bg[0] EXCEPT !.free_inodes = @ - 1] = q /\ bg[0].free_blocks - 0 = bg[0].free_blocks
    BY <1>2
  <2>2. bg' = [g \in DOMAIN bg |-> IF g = 0 THEN q ELSE bg[g]]
    BY <1>4, <2>1
  <2> QED
    BY <2>1, <2>2 DEF Dropped
<1>8. /\ DOMAIN bg' = DOMAIN bg /\ bg'[0].free_blocks = bg[0].free_blocks
      /\ bg'[0].free_inodes = bg[0].free_inodes - 1
      /\ bg'[0] \in [free_blocks : Nat, free_inodes : Nat]
      /\ \A g \in 0..GroupNum - 1 : g # 0 => bg'[g] = bg[g]
  BY <1>1, <1>2, <1>6, <1>7 DEF Dropped
<1>9. Taken' = Taken /\ InUse' = InUse + 1
  BY <1>2, <1>8 DEF Taken, InUse, blocks_of
<1>10. /\ DOMAIN inode_bitmap' = DOMAIN inode_bitmap /\ inode_bitmap'[0] = 0..InUse + 1 - 1
       /\ \A g \in 0..GroupNum - 1 : g # 0 => inode_bitmap'[g] = inode_bitmap[g]
  <2>1. inode_bitmap[0] = 0..InUse - 1
    BY DEF Layout
  <2>2. inode_bitmap'[0] = inode_bitmap[0] \cup {InUse}
    BY <1>2, <1>4, <1>6
  <2>3. (0..InUse - 1) \cup {InUse} = 0..InUse + 1 - 1
    BY <1>2
  <2> QED
    BY <1>4, <1>6, <2>1, <2>2, <2>3
<1>11. Layout'
  <2>1. \A g \in 0..GroupNum - 1 :
          /\ bg'[g] \in [free_blocks : Nat, free_inodes : Nat]
          /\ used_blocks(g, GroupNum) < blocks_of(g, s_blocks_count)
    BY <1>8 DEF Layout
  <2>2. \A g \in 1..GroupNum - 1 :
          /\ block_bitmap[g] = 0..used_blocks(g, GroupNum) - 1
          /\ bg'[g].free_blocks = blocks_of(g, s_blocks_count) - used_blocks(g, GroupNum)
          /\ inode_bitmap'[g] = {} /\ bg'[g].free_inodes = InodesPerGroup
    <3> SUFFICES ASSUME NEW g \in 1..GroupNum - 1
                 PROVE  /\ block_bitmap[g] = 0..used_blocks(g, GroupNum) - 1
                        /\ bg'[g].free_blocks
                              = blocks_of(g, s_blocks_count) - used_blocks(g, GroupNum)
                        /\ inode_bitmap'[g] = {} /\ bg'[g].free_inodes = InodesPerGroup
      OBVIOUS
    <3>1. g \in 0..GroupNum - 1 /\ g # 0
      BY <1>2
    <3> QED
      BY <3>1, <1>8, <1>10 DEF Layout
  <2>3. \A g : used_blocks(g, GroupNum)' = used_blocks(g, GroupNum)
    BY <1>5 DEF used_blocks, inodes_table_blocks, Ceil
  <2>4. \A g : blocks_of(g, s_blocks_count)' = blocks_of(g, s_blocks_count)
    BY DEF blocks_of
  <2>5. Meta' < Taken' /\ block_bitmap'[0] = 0..Taken' - 1
    BY <1>2, <1>5, <1>9 DEF Layout
  <2>6. /\ s_blocks_count' \in Nat \ {0} /\ GroupNum' \in Nat \ {0}
        /\ DOMAIN bg' = 0..GroupNum' - 1
        /\ DOMAIN block_bitmap' = 0..GroupNum' - 1 /\ DOMAIN inode_bitmap' = 0..GroupNum' - 1
    BY <1>5, <1>8, <1>10 DEF Layout
  <2>7. /\ InUse' \in 1..InodesPerGroup /\ inode_bitmap'[0] = 0..InUse' - 1
        /\ DOMAIN inodes' = 1..InUse'
    <3>1. DOMAIN inodes = 1..InUse
      BY DEF Layout
    <3>2. DOMAIN inodes' = DOMAIN inodes \cup {ino}
      BY <1>4 DEF Put
    <3>3. DOMAIN inodes' = 1..InUse + 1
      BY <1>1, <1>2, <3>1, <3>2
    <3> QED
      BY <1>2, <1>3, <1>9, <1>10, <3>3
  <2>8. \A g \in 0..GroupNum' - 1 :
          /\ bg'[g] \in [free_blocks : Nat, free_inodes : Nat]
          /\ used_blocks(g, GroupNum)' < blocks_of(g, s_blocks_count)'
    BY <1>5, <2>1, <2>3, <2>4
  <2>9. \A g \in 1..GroupNum' - 1 :
          /\ block_bitmap'[g] = 0..used_blocks(g, GroupNum)' - 1
          /\ bg'[g].free_blocks = blocks_of(g, s_blocks_count)' - used_blocks(g, GroupNum)'
          /\ inode_bitmap'[g] = {} /\ bg'[g].free_inodes = InodesPerGroup
    BY <1>5, <2>2, <2>3, <2>4
  <2> QED
    BY <2>5, <2>6, <2>7, <2>8, <2>9, Zenon DEF Layout
<1>12. Sums'
  <2>1. /\ SumTo([g \in DOMAIN bg' |-> bg'[g].free_blocks], GroupNum)
             = SumTo([g \in DOMAIN bg |-> bg[g].free_blocks], GroupNum) - 0
        /\ SumTo([g \in DOMAIN bg' |-> bg'[g].free_inodes], GroupNum)
             = SumTo([g \in DOMAIN bg |-> bg[g].free_inodes], GroupNum) - 1
    <3>1. 0 <= bg[0].free_blocks /\ 1 <= bg[0].free_inodes /\ 1 \in {0, 1} /\ 0 \in {0, 1}
      BY <1>1, <1>2
    <3> QED
      BY <3>1, <1>7, GroupStep, Zenon
  <2>2. SumTo([g \in DOMAIN bg |-> bg[g].free_blocks], GroupNum) \in Int
    BY SumsInt
  <2> QED
    BY <1>4, <1>5, <2>1, <2>2 DEF Sums, Groups
<1> QED
  BY <1>1, <1>4, <1>5, <1>9, <1>11, <1>12 DEF Placed

\* What mkfs has made of an image of N blocks, without the super block's counters.
Blank(N) ==
    LET n == Ceil(N, BLOCKS_PER_GROUP)
        free(g) == blocks_of(g, N) - used_blocks(g, n)
        first(g) == IF g = 0 THEN 1 ELSE 0
    IN  /\ N \in Nat /\ n >= 1 /\ \A g \in 0..n - 1 : free(g) > 0
        /\ s_blocks_count' = N
        /\ s_free_blocks_count' = SumTo([g \in 0..n - 1 |-> free(g)], n) - 1
        /\ s_free_inodes_count' = n * InodesPerGroup - 1
        /\ bg' = [g \in 0..n - 1 |-> [free_blocks |-> free(g) - first(g),
                                      free_inodes |-> InodesPerGroup - first(g)]]
        /\ block_bitmap' = [g \in 0..n - 1 |-> 0..used_blocks(g, n) - 1 + first(g)]
        /\ inode_bitmap' = [g \in 0..n - 1 |-> 0..first(g) - 1]

\* The numbers of a blank image.
LEMMA BlankNumbers ==
    ASSUME NEW N, Blank(N)
    PROVE  LET n == Ceil(N, BLOCKS_PER_GROUP) IN
           /\ N \in Nat \ {0} /\ n \in Nat \ {0} /\ GroupNum' = n /\ Meta' = used_blocks(0, n)
           /\ \A g \in 0..n - 1 : /\ used_blocks(g, n) \in Nat /\ blocks_of(g, N) \in Int
                                  /\ used_blocks(g, n) < blocks_of(g, N)
           /\ \A g : used_blocks(g, GroupNum)' = used_blocks(g, n)
           /\ \A g : blocks_of(g, s_blocks_count)' = blocks_of(g, N)
<1> DEFINE n == Ceil(N, BLOCKS_PER_GROUP)
           B == BLOCKS_PER_GROUP
<1>1. B \in Nat \ {0} /\ N \in Nat /\ n >= 1 /\ s_blocks_count' = N
  BY GroupAssumption DEF Blank
<1>2. n \in Nat
  BY <1>1, CeilNat
<1>3. N # 0
  <2> SUFFICES ASSUME N = 0 PROVE FALSE
    OBVIOUS
  <2>1. 0 \in 0..B - 1
    BY <1>1
  <2>2. 0 \div B = 0 /\ 0 % B = 0
    BY <1>1, <2>1, DivSmall
  <2>3. n = 0
    BY <2>2 DEF Ceil
  <2> QED
    BY <1>1, <2>3
<1>4. GroupNum' = n
  BY <1>1 DEF GroupNum, Ceil
<1>5. \A g : used_blocks(g, GroupNum)' = used_blocks(g, n)
  BY <1>4 DEF used_blocks, inodes_table_blocks, Ceil
<1>6. Meta' = used_blocks(0, n)
  BY <1>5 DEF Meta
<1>7. \A g : blocks_of(g, s_blocks_count)' = blocks_of(g, N)
  BY <1>1 DEF blocks_of
<1>8. ASSUME NEW g \in 0..n - 1
      PROVE  /\ used_blocks(g, n) \in Nat /\ blocks_of(g, N) \in Int
             /\ used_blocks(g, n) < blocks_of(g, N)
  <2>1. g \in Nat
    BY <1>2
  <2>2. used_blocks(g, n) \in Nat
    BY <1>2, <2>1, UsedNat
  <2>3. blocks_of(g, N) \in Int
    BY <1>1, <2>1 DEF blocks_of
  <2>4. blocks_of(g, N) - used_blocks(g, n) > 0
    BY Zenon DEF Blank
  <2> QED
    BY <2>2, <2>3, <2>4
<1> QED
  BY <1>1, <1>2, <1>3, <1>4, <1>5, <1>6, <1>7, <1>8

\* The layout of a blank image.
LEMMA BlankLayout ==
    ASSUME NEW N, Blank(N), DOMAIN inodes' = {1}
    PROVE  Layout' /\ Taken' = Meta' + 1 /\ InUse' = 1
<1> DEFINE n == Ceil(N, BLOCKS_PER_GROUP)
           used(g) == used_blocks(g, n)
           size(g) == blocks_of(g, N)
<1>1. /\ N \in Nat \ {0} /\ n \in Nat \ {0} /\ GroupNum' = n /\ Meta' = used(0)
      /\ \A g \in 0..n - 1 : used(g) \in Nat /\ size(g) \in Int /\ used(g) < size(g)
      /\ \A g : used_blocks(g, GroupNum)' = used(g)
      /\ \A g : blocks_of(g, s_blocks_count)' = size(g)
  BY BlankNumbers, Zenon
<1>2. /\ s_blocks_count' = N
      /\ DOMAIN bg' = 0..n - 1 /\ DOMAIN block_bitmap' = 0..n - 1
      /\ DOMAIN inode_bitmap' = 0..n - 1
      /\ \A g \in 0..n - 1 :
           /\ bg'[g] = [free_blocks |-> (size(g) - used(g)) - (IF g = 0 THEN 1 ELSE 0),
                        free_inodes |-> InodesPerGroup - (IF g = 0 THEN 1 ELSE 0)]
           /\ block_bitmap'[g] = 0..used(g) - 1 + (IF g = 0 THEN 1 ELSE 0)
           /\ inode_bitmap'[g] = 0..(IF g = 0 THEN 1 ELSE 0) - 1
  BY DEF Blank
<1>3. InodesPerGroup \in Nat \ {0}
  BY OptionsAssumption
<1> HIDE DEF n, used, size
<1>4. 0 \in 0..n - 1
  BY <1>1
<1>5. /\ bg'[0].free_blocks = (size(0) - used(0)) - 1 /\ bg'[0].free_inodes = InodesPerGroup - 1
      /\ block_bitmap'[0] = 0..used(0) - 1 + 1 /\ inode_bitmap'[0] = 0..1 - 1
  BY <1>2, <1>4
<1>6. blocks_of(0, s_blocks_count)' = size(0)
  BY <1>1
<1>7. Taken' = used(0) + 1 /\ InUse' = 1
  BY <1>1, <1>3, <1>4, <1>5, <1>6 DEF Taken, InUse
<1>8. \A g \in 0..n - 1 : bg'[g] \in [free_blocks : Nat, free_inodes : Nat]
  BY <1>1, <1>2, <1>3
<1>9. \A g \in 1..n - 1 :
         /\ block_bitmap'[g] = 0..used(g) - 1 /\ bg'[g].free_blocks = size(g) - used(g)
         /\ inode_bitmap'[g] = {} /\ bg'[g].free_inodes = InodesPerGroup
  <2> SUFFICES ASSUME NEW g \in 1..n - 1
               PROVE  /\ block_bitmap'[g] = 0..used(g) - 1
                      /\ bg'[g].free_blocks = size(g) - used(g)
                      /\ inode_bitmap'[g] = {} /\ bg'[g].free_inodes = InodesPerGroup
    OBVIOUS
  <2>1. g \in 0..n - 1 /\ g # 0
    BY <1>1
  <2>2. /\ bg'[g] = [free_blocks |-> (size(g) - used(g)) - 0, free_inodes |-> InodesPerGroup - 0]
        /\ block_bitmap'[g] = 0..used(g) - 1 + 0 /\ inode_bitmap'[g] = 0..0 - 1
    BY <1>2, <2>1
  <2>3. used(g) \in Nat /\ size(g) \in Int
    BY <1>1, <2>1
  <2> QED
    BY <1>3, <2>2, <2>3
<1>10. /\ s_blocks_count' \in Nat \ {0} /\ GroupNum' \in Nat \ {0}
       /\ DOMAIN bg' = 0..GroupNum' - 1
       /\ DOMAIN block_bitmap' = 0..GroupNum' - 1 /\ DOMAIN inode_bitmap' = 0..GroupNum' - 1
  BY <1>1, <1>2
<1>11. \A g \in 0..GroupNum' - 1 :
          /\ bg'[g] \in [free_blocks : Nat, free_inodes : Nat]
          /\ used_blocks(g, GroupNum)' < blocks_of(g, s_blocks_count)'
  BY <1>1, <1>8
<1>12. \A g \in 1..GroupNum' - 1 :
          /\ block_bitmap'[g] = 0..used_blocks(g, GroupNum)' - 1
          /\ bg'[g].free_blocks = blocks_of(g, s_blocks_count)' - used_blocks(g, GroupNum)'
          /\ inode_bitmap'[g] = {} /\ bg'[g].free_inodes = InodesPerGroup
  BY <1>1, <1>9
<1>13. Meta' < Taken' /\ block_bitmap'[0] = 0..Taken' - 1
  BY <1>1, <1>4, <1>5, <1>7
<1>14. /\ InUse' \in 1..InodesPerGroup /\ inode_bitmap'[0] = 0..InUse' - 1
       /\ DOMAIN inodes' = 1..InUse'
  BY <1>3, <1>5, <1>7
<1>15. Layout'
  BY <1>10, <1>11, <1>12, <1>13, <1>14, Zenon DEF Layout
<1> QED
  BY <1>1, <1>7, <1>15

\* The counters of a blank image.
LEMMA BlankSums ==
    ASSUME NEW N, Blank(N)
    PROVE  Sums'
<1> DEFINE n == Ceil(N, BLOCKS_PER_GROUP)
           used(g) == used_blocks(g, n)
           size(g) == blocks_of(g, N)
           f == [g \in 0..n - 1 |-> size(g) - used(g)]
           h == [g \in DOMAIN bg' |-> bg'[g].free_blocks]
           p == [g \in 0..n - 1 |-> InodesPerGroup]
           q == [g \in DOMAIN bg' |-> bg'[g].free_inodes]
<1>1. /\ n \in Nat \ {0} /\ GroupNum' = n
      /\ \A g \in 0..n - 1 : used(g) \in Nat /\ size(g) \in Int /\ used(g) < size(g)
  BY BlankNumbers, Zenon
<1>2. /\ DOMAIN bg' = 0..n - 1
      /\ \A g \in 0..n - 1 :
           bg'[g] = [free_blocks |-> (size(g) - used(g)) - (IF g = 0 THEN 1 ELSE 0),
                     free_inodes |-> InodesPerGroup - (IF g = 0 THEN 1 ELSE 0)]
      /\ s_free_blocks_count' = SumTo(f, n) - 1
      /\ s_free_inodes_count' = n * InodesPerGroup - 1
  BY DEF Blank
<1>3. InodesPerGroup \in Nat \ {0}
  BY OptionsAssumption
<1> HIDE DEF n, used, size
<1>4. 0 \in 0..n - 1 /\ \A g \in 1..n - 1 : g \in 0..n - 1 /\ g # 0
  BY <1>1
<1>5. /\ f \in [0..n - 1 -> Int] /\ p \in [0..n - 1 -> Int]
      /\ \A g \in 0..n - 1 : p[g] = InodesPerGroup
  BY <1>1, <1>3
<1>6. h \in [0..n - 1 -> Int] /\ q \in [0..n - 1 -> Int]
  <2> SUFFICES ASSUME NEW g \in 0..n - 1
               PROVE  bg'[g].free_blocks \in Int /\ bg'[g].free_inodes \in Int
    BY <1>2
  <2> DEFINE x == IF g = 0 THEN 1 ELSE 0
  <2>1. bg'[g] = [free_blocks |-> (size(g) - used(g)) - x, free_inodes |-> InodesPerGroup - x]
    BY <1>2
  <2>2. x \in Int /\ used(g) \in Int /\ size(g) \in Int /\ InodesPerGroup \in Int
    BY <1>1, <1>3
  <2> HIDE DEF x
  <2> QED
    BY <2>1, <2>2
<1>7. h[0] = f[0] + (0 - 1) /\ q[0] = p[0] + (0 - 1)
  BY <1>1, <1>2, <1>3, <1>4
<1>8. ASSUME NEW g \in 1..n - 1 PROVE h[g] = f[g] /\ q[g] = p[g]
  <2>1. bg'[g] = [free_blocks |-> (size(g) - used(g)) - 0, free_inodes |-> InodesPerGroup - 0]
    BY <1>2, <1>4
  <2>2. used(g) \in Nat /\ size(g) \in Int
    BY <1>1, <1>4
  <2> QED
    BY <1>2, <1>3, <1>4, <2>1, <2>2
<1> DEFINE d == 0 - 1
<1>9. d \in Int /\ h[0] = f[0] + d /\ q[0] = p[0] + d
  BY <1>7
<1> HIDE DEF f, h, p, q, d
<1>10. SumTo(h, n) = SumTo(f, n) + d /\ SumTo(q, n) = SumTo(p, n) + d
  BY <1>1, <1>5, <1>6, <1>8, <1>9, SumShift, ZenonT(30)
<1>11. SumTo(p, n) = n * InodesPerGroup
  <2>1. n \in Nat /\ InodesPerGroup \in Int
    BY <1>1, <1>3
  <2> QED
    BY <2>1, <1>5, SumConstant, Zenon
<1>12. SumTo(f, n) \in Int /\ SumTo(p, n) \in Int
  BY <1>1, <1>5, SumInt
<1>13. s_free_blocks_count' = SumTo(h, n) /\ s_free_inodes_count' = SumTo(q, n)
  BY <1>2, <1>10, <1>11, <1>12 DEF d
<1> QED
  BY <1>1, <1>13 DEF Sums, Groups, h, q

-----------------------------------------------------------------------------
(* The image while it is filled.                                           *)

\* The fields of inodes, of blocks and of the copy under way.
IsInode(r) == r = [mode |-> r.mode, size |-> r.size, tree |-> r.tree]
IsBlock(r) == r = [entries |-> r.entries, src |-> r.src, k |-> r.k]
IsJob(j) == j = [src |-> j.src, size |-> j.size, path |-> j.path, name |-> j.name,
                 ino |-> j.ino, k |-> j.k, tree |-> j.tree]

DirEntries == [name : {""} \cup DOMAIN NameLen, inode : Nat, type : {"UNKNOWN", "DIR", "REG"},
               rec_len : Int]

\* An entry that is not padding names one of the inodes I and knows its type.
Real(e) == e.type # "UNKNOWN"
EntryOK(I, e) ==
    IF Real(e) THEN e.inode \in DOMAIN I /\ e.type = I[e.inode].mode /\ e.name \in DOMAIN NameLen
    ELSE e.inode = 0 /\ e.name = ""

EntriesOK(I, s) == s \in Seq(DirEntries) /\ \A i \in 1..Len(s) : EntryOK(I, s[i])

\* The blocks D that the trees of I lead to were written, with entries if any.
DiskOf(I, D, u, m) ==
    /\ \A t \in DOMAIN I : IsInode(I[t]) /\ I[t].mode \in {"DIR", "REG"} /\ I[t].size \in Nat
    /\ 1 \in DOMAIN I /\ I[1].mode = "DIR"
    /\ \A t \in DOMAIN I : \A k \in DirBlocks(I[t].tree) :
          /\ I[t].tree[Path(k)] \in DOMAIN D
          /\ I[t].mode = "DIR" => D[I[t].tree[Path(k)]].entries # <<>>
    /\ DOMAIN D \subseteq u + 1..m
    /\ \A b \in DOMAIN D : IsBlock(D[b]) /\ EntriesOK(I, D[b].entries)
DiskOK == DiskOf(inodes, disk, Meta, Taken)

\* The trees of the inodes, and as number 0 that of the copy under way.
Trees == [t \in {0} \cup DOMAIN inodes |-> IF t = 0 THEN job.tree ELSE inodes[t].tree]

\* Every block that is taken and is not metadata has one pointer.
AllOwned == Owned(Trees, Meta, Taken)

ImageOK == Layout /\ Sums /\ AllOwned /\ DiskOK

\* The inode of a file is made last and stays empty until all is written.
NewFile == [mode |-> "REG", size |-> 0, tree |-> <<>>]
Fresh == pc = "data" \/ (pc = "path" /\ job.name = 0)

JobOK ==
    /\ IsJob(job) /\ job.path \in Seq(DOMAIN NameLen) /\ job.name \in 0..Len(job.path)
    /\ job.size \in Nat /\ job.k \in Nat
    /\ pc \in {"idle", "done"} => job = NoJob
    /\ pc \in {"path", "data"} => job.ino \in DOMAIN inodes /\ Len(job.path) > 0
    /\ pc = "path" => job.k = 0 /\ job.tree = <<>>
    /\ pc = "path" /\ job.name # 0 => inodes[job.ino].mode = "DIR"
    /\ Fresh => Len(job.path) = 1 /\ inodes[job.ino] = NewFile

\* The first job.k blocks of the file are written, and nothing of the others.
DataOK ==
    pc = "data" =>
        /\ job.k <= data_blocks /\ job.k <= MaxBlocks
        /\ \A k \in 0..MaxBlocks - 1 : Path(k) \in DOMAIN job.tree <=> k < job.k
        /\ \A k \in 0..job.k - 1 : /\ job.tree[Path(k)] \in DOMAIN disk
                                   /\ disk[job.tree[Path(k)]] = Data(job.src, k)

\* Nothing is there before mkfs has made it.
Unmade == pc \in {"start", "exit_mkfs"}
NothingYet ==
    /\ s_blocks_count = 0 /\ s_free_blocks_count = 0 /\ s_free_inodes_count = 0
    /\ bg = <<>> /\ inodes = <<>> /\ disk = <<>> /\ job = NoJob /\ copied = {}

ImageInv == IF Unmade THEN NothingYet ELSE ImageOK /\ JobOK /\ DataOK

\* Nothing is written.
LEMMA Still ==
    ASSUME ImageOK, UNCHANGED <<super, maps, inodes, disk>>, job'.tree = job.tree
    PROVE  ImageOK' /\ Placed /\ Taken' = Taken /\ InUse' = InUse
<1>1. /\ s_blocks_count' = s_blocks_count /\ s_free_blocks_count' = s_free_blocks_count
      /\ s_free_inodes_count' = s_free_inodes_count
      /\ bg' = bg /\ block_bitmap' = block_bitmap /\ inode_bitmap' = inode_bitmap
      /\ inodes' = inodes /\ disk' = disk
  BY DEF super, maps
<1>2. GroupNum' = GroupNum /\ Meta' = Meta
  BY <1>1 DEF GroupNum, Meta, used_blocks, inodes_table_blocks, Ceil
<1>3. \A g : used_blocks(g, GroupNum)' = used_blocks(g, GroupNum)
  BY <1>2 DEF used_blocks, inodes_table_blocks, Ceil
<1>4. \A g : blocks_of(g, s_blocks_count)' = blocks_of(g, s_blocks_count)
  BY <1>1 DEF blocks_of
<1>5. Taken' = Taken /\ InUse' = InUse
  BY <1>1, <1>4 DEF Taken, InUse
<1>6. Layout'
  BY <1>1, <1>2, <1>3, <1>4, <1>5 DEF Layout, ImageOK
<1>7. Sums'
  BY <1>1, <1>2 DEF Sums, Groups, ImageOK
<1>8. Trees' = Trees
  BY <1>1 DEF Trees
<1>9. AllOwned'
  BY <1>2, <1>5, <1>8 DEF AllOwned, ImageOK
<1>10. DiskOK'
  BY <1>1, <1>2, <1>5 DEF DiskOK, ImageOK
<1> QED
  BY <1>2, <1>5, <1>6, <1>7, <1>9, <1>10 DEF ImageOK, Placed

\* NoJob is a job like others.
LEMMA NoJobIs ==
    /\ IsJob(NoJob) /\ NoJob.path \in Seq(DOMAIN NameLen) /\ NoJob.name \in 0..Len(NoJob.path)
    /\ NoJob.size \in Nat /\ NoJob.k \in Nat /\ NoJob.tree = <<>>
  BY DEF NoJob, IsJob

\* mkfs exits while it copies.
LEMMA StepExit ==
    ASSUME ImageInv, ~Unmade, NEW where \in {"exit_inode", "exit_dir", "exit_data"}, Exit(where)
    PROVE  ImageInv'
<1>1. UNCHANGED <<super, maps, inodes, disk>> /\ job' = job /\ pc' = where
  BY DEF Exit
<1>2. ImageOK'
  BY <1>1, Still DEF ImageInv
<1>3. JobOK
  BY DEF ImageInv
<1>4. JobOK' /\ DataOK'
  BY <1>1, <1>3 DEF JobOK, DataOK, Fresh
<1> QED
  BY <1>1, <1>2, <1>4 DEF ImageInv, Unmade

\* The copy under way is given up before anything was written for it.
LEMMA StepFail ==
    ASSUME ImageInv, pc = "path", Fail
    PROVE  ImageInv'
<1>1. UNCHANGED <<super, maps, inodes, disk>> /\ job' = NoJob /\ pc' = "idle"
  BY DEF Fail
<1>2. ImageOK /\ JobOK
  BY DEF ImageInv, Unmade
<1>3. ImageOK'
  BY <1>1, <1>2, NoJobIs, Still DEF JobOK
<1>4. JobOK' /\ DataOK'
  BY <1>1, NoJobIs DEF JobOK, DataOK, Fresh
<1> QED
  BY <1>1, <1>3, <1>4 DEF ImageInv, Unmade

\* copy_file starts in the root directory.
LEMMA StepCopy ==
    ASSUME ImageInv, copy_file
    PROVE  ImageInv'
<1>1. pc = "idle" /\ UNCHANGED <<super, maps, inodes, disk>>
  BY DEF copy_file
<1>2. ImageOK /\ JobOK /\ job = NoJob
  BY <1>1 DEF ImageInv, Unmade, JobOK
<1>3. PICK c \in Copies :
        IF c.path = <<>> THEN UNCHANGED <<pc, job>>
        ELSE pc' = "path" /\ job' = [NoJob EXCEPT !.src = c.src, !.size = c.size, !.path = c.path,
                                                  !.name = 1, !.ino = ROOT_INO]
  BY DEF copy_file
<1>4. CASE c.path = <<>>
  <2>1. pc' = pc /\ job' = job
    BY <1>3, <1>4
  <2>2. ImageOK'
    BY <1>1, <1>2, <2>1, Still
  <2>3. JobOK' /\ DataOK'
    BY <1>1, <1>2, <2>1, NoJobIs DEF JobOK, DataOK, Fresh
  <2> QED
    BY <1>1, <2>1, <2>2, <2>3 DEF ImageInv, Unmade
<1>5. CASE c.path # <<>>
  <2>1. /\ pc' = "path"
        /\ job' = [src |-> c.src, size |-> c.size, path |-> c.path, name |-> 1, ino |-> 1,
                   k |-> 0, tree |-> <<>>]
    BY <1>3, <1>5 DEF NoJob, ROOT_INO
  <2>2. c.size \in Nat /\ c.path \in Seq(DOMAIN NameLen) /\ Len(c.path) \in Nat /\ Len(c.path) > 0
    BY <1>5, CopiesAssumption
  <2>3. 1 \in DOMAIN inodes /\ inodes[1].mode = "DIR"
    BY <1>2 DEF ImageOK, DiskOK, DiskOf
  <2>4. ImageOK'
    BY <1>1, <1>2, <2>1, NoJobIs, Still
  <2>5. IsJob(job')
    BY <2>1 DEF IsJob
  <2>6. /\ job'.path = c.path /\ job'.name = 1 /\ job'.size = c.size /\ job'.k = 0
        /\ job'.tree = <<>> /\ job'.ino = 1
    BY <2>1
  <2>7. JobOK' /\ DataOK'
    BY <1>1, <2>1, <2>2, <2>3, <2>5, <2>6 DEF JobOK, DataOK, Fresh
  <2> QED
    BY <1>1, <2>1, <2>4, <2>7 DEF ImageInv, Unmade
<1> QED
  BY <1>4, <1>5

\* What get_entry_from_dir finds.
LEMMA EntryFound ==
    ASSUME DiskOK, NEW t \in DOMAIN inodes, NEW name, NEW e \in get_entry_from_dir(t, name)
    PROVE  \E k \in DirBlocks(inodes[t].tree) :
             LET b == inodes[t].tree[Path(k)] IN
             /\ b \in DOMAIN disk
             /\ \E i \in 1..Len(disk[b].entries) :
                   /\ e = disk[b].entries[i] /\ Real(e) /\ e.name = name /\ EntryOK(inodes, e)
<1>1. PICK k \in DirBlocks(inodes[t].tree) :
        \E i \in DOMAIN disk[inodes[t].tree[Path(k)]].entries :
            /\ e = disk[inodes[t].tree[Path(k)]].entries[i]
            /\ e.type # "UNKNOWN" /\ e.name = name
  BY DEF get_entry_from_dir
<1> DEFINE b == inodes[t].tree[Path(k)]
           s == disk[b].entries
<1>2. PICK i \in DOMAIN s : e = s[i] /\ e.type # "UNKNOWN" /\ e.name = name
  BY <1>1
<1>3. b \in DOMAIN disk
  BY DEF DiskOK, DiskOf
<1>4. s \in Seq(DirEntries) /\ \A j \in 1..Len(s) : EntryOK(inodes, s[j])
  BY <1>3 DEF DiskOK, DiskOf, EntriesOK
<1> HIDE DEF s, b
<1>5. i \in 1..Len(s)
  BY <1>4
<1>6. i \in 1..Len(s) /\ e = s[i] /\ Real(e) /\ e.name = name /\ EntryOK(inodes, e)
  BY <1>2, <1>4, <1>5 DEF Real
<1> QED
  BY <1>3, <1>6, Zenon DEF s, b

\* path_found goes on to a directory, or gives up.
LEMMA StepFound ==
    ASSUME ImageInv, path_found
    PROVE  ImageInv'
<1>1. pc = "path"
  BY DEF path_found
<1>2. ImageOK /\ JobOK
  BY <1>1 DEF ImageInv, Unmade
<1>3. PICK e \in get_entry_from_dir(job.ino, job.path[job.name]) :
        IF ~is_dir_name \/ e.type # "DIR" THEN Fail
        ELSE /\ job' = [job EXCEPT !.ino = e.inode, !.name = next_name]
             /\ UNCHANGED <<super, maps, inodes, disk, pc, copied, count>>
  BY DEF path_found
<1>4. CASE ~is_dir_name \/ e.type # "DIR"
  BY <1>1, <1>3, <1>4, StepFail
<1>5. CASE is_dir_name /\ e.type = "DIR"
  <2>1. /\ UNCHANGED <<super, maps, inodes, disk>> /\ pc' = pc
        /\ job' = [job EXCEPT !.ino = e.inode, !.name = 2]
    BY <1>3, <1>5 DEF next_name
  <2>2. /\ IsJob(job') /\ job'.ino = e.inode /\ job'.name = 2 /\ job'.path = job.path
        /\ job'.size = job.size /\ job'.k = job.k /\ job'.tree = job.tree
    BY <1>2, <2>1 DEF JobOK, IsJob
  <2>3. e.inode \in DOMAIN inodes /\ inodes[e.inode].mode = "DIR"
    <3>1. EntryOK(inodes, e) /\ Real(e)
      BY <1>1, <1>2, EntryFound DEF ImageOK, JobOK
    <3> QED
      BY <1>5, <3>1 DEF EntryOK
  <2>4. ImageOK'
    BY <1>2, <2>1, <2>2, Still
  <2>5. Len(job.path) > 1 /\ Len(job.path) \in Nat
    BY <1>2, <1>5 DEF is_dir_name, JobOK
  <2>6. JobOK' /\ DataOK'
    BY <1>1, <1>2, <2>1, <2>2, <2>3, <2>5 DEF JobOK, DataOK, Fresh
  <2> QED
    BY <1>1, <2>1, <2>4, <2>6 DEF ImageInv, Unmade
<1> QED
  BY <1>4, <1>5

\* check_space begins with the data, or gives up.
LEMMA StepSpace ==
    ASSUME ImageInv, check_space
    PROVE  ImageInv'
<1>1. pc = "path" /\ job.name = 0
  BY DEF check_space
<1>2. ImageOK /\ JobOK
  BY <1>1 DEF ImageInv, Unmade
<1>3. CASE ~has_enough_space
  BY <1>1, <1>3, StepFail DEF check_space
<1>4. CASE has_enough_space
  <2>1. UNCHANGED <<super, maps, inodes, disk>> /\ job' = job /\ pc' = "data"
    BY <1>4 DEF check_space
  <2>2. ImageOK'
    BY <1>2, <2>1, Still
  <2>3. JobOK'
    BY <1>1, <1>2, <2>1 DEF JobOK, Fresh
  <2>4. DataOK'
    <3>1. job'.k = 0 /\ job'.tree = <<>> /\ job.size \in Nat
      BY <1>1, <1>2, <2>1 DEF JobOK
    <3>2. data_blocks \in Nat /\ MaxBlocks \in Nat
      BY <3>1, SizesAssumption, CeilNat, PointersPos DEF data_blocks
    <3>3. data_blocks' = data_blocks
      BY <2>1 DEF data_blocks
    <3> QED
      BY <3>1, <3>2, <3>3 DEF DataOK
  <2> QED
    BY <2>1, <2>2, <2>3, <2>4 DEF ImageInv, Unmade
<1> QED
  BY <1>3, <1>4

\* cpfs_end closes the image as it is.
LEMMA StepEnd ==
    ASSUME ImageInv, cpfs_end
    PROVE  ImageInv'
<1>1. pc = "idle" /\ UNCHANGED <<super, maps, inodes, disk>> /\ job' = job /\ pc' = "done"
  BY DEF cpfs_end
<1>2. ImageOK /\ JobOK
  BY <1>1 DEF ImageInv, Unmade
<1>3. ImageOK'
  BY <1>1, <1>2, Still
<1>4. JobOK' /\ DataOK'
  BY <1>1, <1>2 DEF JobOK, DataOK, Fresh
<1> QED
  BY <1>1, <1>3, <1>4 DEF ImageInv, Unmade

\* A block is there when no node on the way to it is missing.
LEMMA MissingPath ==
    ASSUME NEW T, NEW k \in Nat
    PROVE  /\ Missing(T, k) = {} => Path(k) \in DOMAIN T
           /\ Missing(T, k) \in SUBSET Nat
<1> DEFINE p == Path(k)
<1>1. p \in Seq(Nat) /\ Len(p) \in 1..4
  BY PathHead
<1>2. SubSeq(p, 1, Len(p)) = p
  BY <1>1
<1>3. Len(p) \in 1..Len(p)
  BY <1>1
<1>4. Missing(T, k) = {} => SubSeq(p, 1, Len(p)) \in DOMAIN T
  BY <1>3, Zenon DEF Missing
<1>5. Missing(T, k) \in SUBSET Nat
  BY <1>1 DEF Missing
<1> QED
  BY <1>2, <1>4, <1>5, Zenon

\* A group has fewer blocks than an inode has pointers.
LEMMA RoomExists ==
    ASSUME ImageOK, NEW t \in DOMAIN Trees
    PROVE  \E k \in 0..MaxBlocks - 1 : Path(k) \notin DOMAIN Trees[t]
<1> DEFINE T == Trees[t]
           S == 0..MaxBlocks - 1
           V == Meta + 1..Taken
           f == [k \in S |-> T[Path(k)]]
<1> SUFFICES ASSUME \A k \in S : Path(k) \in DOMAIN T PROVE FALSE
  BY Zenon
<1>1. /\ Meta \in Nat /\ Taken \in Nat /\ Meta < Taken /\ Taken <= BLOCKS_PER_GROUP /\ Meta >= 2
      /\ BLOCKS_PER_GROUP \in Nat
  BY FirstGroup DEF ImageOK
<1>2. BLOCKS_PER_GROUP <= MaxBlocks /\ MaxBlocks \in Nat
  BY GroupAssumption, PointersPos
<1>4. \A k \in S : T[Path(k)] \in V
  BY DEF ImageOK, AllOwned, Owned
<1>5. \A j, k \in S : T[Path(j)] = T[Path(k)] => Path(j) = Path(k)
  BY DEF ImageOK, AllOwned, Owned
<1>6. \A j, k \in S : Path(j) = Path(k) => j = k
  BY <1>2, PathInjective
<1>7. f \in [S -> V]
  BY <1>4
<1>8. IsFiniteSet(S) /\ Cardinality(S) = MaxBlocks
  <2>1. 0 \in Int /\ MaxBlocks - 1 \in Int
    BY <1>2
  <2>2. IsFiniteSet(S) /\ Cardinality(S) = IF 0 > MaxBlocks - 1 THEN 0 ELSE MaxBlocks - 1 - 0 + 1
    BY <2>1, FS_Interval
  <2> QED
    BY <1>2, <2>2
<1>9. IsFiniteSet(V) /\ Cardinality(V) = Taken - Meta
  <2>1. Meta + 1 \in Int /\ Taken \in Int
    BY <1>1
  <2>2. /\ IsFiniteSet(V)
        /\ Cardinality(V) = IF Meta + 1 > Taken THEN 0 ELSE Taken - (Meta + 1) + 1
    BY <2>1, FS_Interval
  <2> QED
    BY <1>1, <2>2
<1>10. Cardinality(V) < Cardinality(S)
  BY <1>1, <1>2, <1>8, <1>9
<1> HIDE DEF S, V
<1>11. \E x, y \in S : x # y /\ f[x] = f[y]
  <2> HIDE DEF f
  <2> QED
    BY <1>7, <1>8, <1>9, <1>10, FS_PigeonHole, Zenon
<1> QED
  BY <1>5, <1>6, <1>11

\* The block that takes the next entry.
LEMMA TargetBlock ==
    ASSUME ImageOK, job.ino \in DOMAIN inodes
    PROVE  LET T == inodes[job.ino].tree
               name == job.path[job.name]
               k == target_block
           IN  /\ k \in 0..MaxBlocks - 1
               /\ Missing(T, k) # {} \/ has_room(disk[T[Path(k)]].entries, name)
               /\ \A j \in 0..k - 1 : Missing(T, j) = {}
<1> DEFINE T == inodes[job.ino].tree
           name == job.path[job.name]
           S == {k \in 0..MaxBlocks - 1 :
                    Missing(T, k) # {} \/ has_room(disk[T[Path(k)]].entries, name)}
           m == Min(S)
<1>1. target_block = m
  BY Zenon DEF target_block
<1>2. MaxBlocks \in Nat
  BY PointersPos
<1>3. S # {}
  <2>1. job.ino \in DOMAIN Trees /\ Trees[job.ino] = T
    <3>1. DOMAIN inodes = 1..InUse
      BY DEF ImageOK, Layout
    <3>2. job.ino # 0
      BY <3>1
    <3> QED
      BY <3>2 DEF Trees
  <2>2. PICK k \in 0..MaxBlocks - 1 : Path(k) \notin DOMAIN T
    BY <2>1, RoomExists
  <2>3. Missing(T, k) # {}
    BY <1>2, <2>2, MissingPath
  <2> QED
    BY <2>2, <2>3
<1>4. S \in SUBSET Nat
  BY <1>2
<1>5. m \in S /\ \A y \in S : m <= y
  <2> HIDE DEF S
  <2> QED
    BY <1>3, <1>4, MinNat
<1>6. /\ m \in 0..MaxBlocks - 1
      /\ Missing(T, m) # {} \/ has_room(disk[T[Path(m)]].entries, name)
  <2> HIDE DEF m
  <2> QED
    BY <1>5
<1>7. \A j \in 0..m - 1 : Missing(T, j) = {}
  <2> HIDE DEF m
  <2> SUFFICES ASSUME NEW j \in 0..m - 1, Missing(T, j) # {} PROVE FALSE
    OBVIOUS
  <2>1. j \in 0..MaxBlocks - 1 /\ ~(m <= j)
    BY <1>2, <1>6
  <2>2. j \in S
    BY <2>1
  <2> HIDE DEF S
  <2> QED
    BY <1>5, <2>1, <2>2
<1> QED
  BY <1>1, <1>6, <1>7

\* What is in a tree with one more node.
LEMMA TreeLeaf ==
    ASSUME NEW T, NEW k \in 0..MaxBlocks - 1, Missing(T, k) # {}, NEW b,
           NEW U, U = Put(T, Node(T, k), b)
    PROVE  /\ DirBlocks(U) = IF Last(T, k) THEN DirBlocks(T) \cup {k} ELSE DirBlocks(T)
           /\ \A l \in DirBlocks(T) : U[Path(l)] = T[Path(l)]
           /\ Last(T, k) => U[Path(k)] = b
           /\ k \notin DirBlocks(T) \/ ~Last(T, k)
<1>1. MaxBlocks \in Nat /\ k \in Nat
  BY PointersPos
<1>2. Grown(T, k, U)
  BY <1>1, Grow
<1>3. Node(T, k) \notin DOMAIN T
  BY <1>2 DEF Grown
<1>4. Last(T, k) => Node(T, k) = Path(k)
  BY <1>2 DEF Grown
<1>5. \A l \in 0..MaxBlocks - 1 :
         Path(l) \in DOMAIN U <=> Path(l) \in DOMAIN T \/ (l = k /\ Last(T, k))
  BY <1>1, <1>2 DEF Grown
<1>6. DirBlocks(U) = IF Last(T, k) THEN DirBlocks(T) \cup {k} ELSE DirBlocks(T)
  BY <1>5 DEF DirBlocks
<1>7. \A x \in DOMAIN T : U[x] = T[x]
  BY <1>3 DEF Put
<1>8. U[Node(T, k)] = b
  BY DEF Put
<1> QED
  BY <1>3, <1>4, <1>6, <1>7, <1>8 DEF DirBlocks

\* Another tree for an inode.
LEMMA InodeTree ==
    ASSUME NEW I, NEW t \in DOMAIN I, IsInode(I[t]), NEW U, NEW J,
           J = [I EXCEPT ![t].tree = U]
    PROVE  /\ DOMAIN J = DOMAIN I /\ \A s \in DOMAIN I : s # t => J[s] = I[s]
           /\ IsInode(J[t]) /\ J[t].mode = I[t].mode /\ J[t].size = I[t].size /\ J[t].tree = U
<1>1. DOMAIN J = DOMAIN I /\ \A s \in DOMAIN I : s # t => J[s] = I[s]
  OBVIOUS
<1>2. J[t] = [I[t] EXCEPT !.tree = U]
  OBVIOUS
<1>3. J[t] = [mode |-> I[t].mode, size |-> I[t].size, tree |-> U]
  BY <1>2 DEF IsInode
<1> QED
  BY <1>1, <1>3 DEF IsInode

\* An entry stays right when inodes keep their modes.
LEMMA EntriesKept ==
    ASSUME NEW I, NEW J, NEW s, EntriesOK(I, s), DOMAIN I \subseteq DOMAIN J,
           \A t \in DOMAIN I : J[t].mode = I[t].mode
    PROVE  EntriesOK(J, s)
  BY DEF EntriesOK, EntryOK

\* The entries of a new directory block.
LEMMA EmptyDirOK ==
    ASSUME NEW I
    PROVE  /\ EntriesOK(I, EmptyDir) /\ EmptyDir # <<>> /\ Len(EmptyDir) = 1
           /\ ~Real(EmptyDir[1])
<1>1. padding_entry(BLOCK_SIZE) \in DirEntries
  BY SizesAssumption DEF padding_entry, DirEntries
<1>2. EntryOK(I, padding_entry(BLOCK_SIZE)) /\ ~Real(padding_entry(BLOCK_SIZE))
  BY DEF EntryOK, Real, padding_entry
<1> HIDE DEF padding_entry
<1> QED
  BY <1>1, <1>2 DEF EntriesOK, EmptyDir

\* A block is taken for the tree of inode t, or for the pointers that lead to it.
LEMMA DiskGrow ==
    ASSUME NEW I, NEW D, NEW u \in Nat, NEW m \in Nat, u <= m, DiskOf(I, D, u, m),
           NEW t \in DOMAIN I, NEW k \in 0..MaxBlocks - 1, Missing(I[t].tree, k) # {},
           NEW J, J = [I EXCEPT ![t].tree = Put(I[t].tree, Node(I[t].tree, k), m + 1)],
           \A s \in DOMAIN I : \A l \in DirBlocks(I[s].tree) : I[s].tree[Path(l)] # m + 1,
           NEW E, E = IF Last(I[t].tree, k) THEN Put(D, m + 1, Dir(EmptyDir)) ELSE D
    PROVE  DiskOf(J, E, u, m + 1)
<1> DEFINE T == I[t].tree
           U == Put(T, Node(T, k), m + 1)
<1>1. /\ \A s \in DOMAIN I : IsInode(I[s]) /\ I[s].mode \in {"DIR", "REG"} /\ I[s].size \in Nat
      /\ 1 \in DOMAIN I /\ I[1].mode = "DIR"
      /\ \A s \in DOMAIN I : \A l \in DirBlocks(I[s].tree) :
            /\ I[s].tree[Path(l)] \in DOMAIN D
            /\ I[s].mode = "DIR" => D[I[s].tree[Path(l)]].entries # <<>>
      /\ DOMAIN D \subseteq u + 1..m
      /\ \A b \in DOMAIN D : IsBlock(D[b]) /\ EntriesOK(I, D[b].entries)
  BY DEF DiskOf
<1>2. /\ DOMAIN J = DOMAIN I /\ \A s \in DOMAIN I : s # t => J[s] = I[s]
      /\ IsInode(J[t]) /\ J[t].mode = I[t].mode /\ J[t].size = I[t].size /\ J[t].tree = U
  <2>1. J = [I EXCEPT ![t].tree = U] /\ IsInode(I[t])
    BY <1>1
  <2> HIDE DEF U, T
  <2>2. DOMAIN J = DOMAIN I /\ \A s \in DOMAIN I : s # t => J[s] = I[s]
    BY <2>1
  <2>3. J[t] = [I[t] EXCEPT !.tree = U]
    BY <2>1
  <2>4. J[t] = [mode |-> I[t].mode, size |-> I[t].size, tree |-> U]
    BY <2>1, <2>3 DEF IsInode
  <2> QED
    BY <2>2, <2>4 DEF IsInode
<1>3. /\ DirBlocks(U) = IF Last(T, k) THEN DirBlocks(T) \cup {k} ELSE DirBlocks(T)
      /\ \A l \in DirBlocks(T) : U[Path(l)] = T[Path(l)]
      /\ Last(T, k) => U[Path(k)] = m + 1
  <2> DEFINE b == m + 1
  <2> HIDE DEF b
  <2>1. U = Put(T, Node(T, k), b)
    BY DEF b
  <2> HIDE DEF T, U
  <2>2. Missing(T, k) # {}
    BY DEF T
  <2>3. /\ DirBlocks(U) = IF Last(T, k) THEN DirBlocks(T) \cup {k} ELSE DirBlocks(T)
        /\ \A l \in DirBlocks(T) : U[Path(l)] = T[Path(l)]
        /\ Last(T, k) => U[Path(k)] = b
    BY <2>1, <2>2, TreeLeaf
  <2> QED
    BY <2>3 DEF b
<1> HIDE DEF U
<1>4. \A s \in DOMAIN I : J[s].mode = I[s].mode
  BY <1>2
<1>5. /\ \A b \in DOMAIN D : b \in DOMAIN E /\ (b # m + 1 => E[b] = D[b])
      /\ Last(T, k) => m + 1 \in DOMAIN E /\ E[m + 1] = Dir(EmptyDir)
      /\ DOMAIN E \subseteq DOMAIN D \cup {m + 1}
      /\ m + 1 \notin DOMAIN D /\ (~Last(T, k) => E = D)
  BY <1>1 DEF Put
<1> HIDE DEF T
<1>6. Dir(EmptyDir).entries = EmptyDir /\ IsBlock(Dir(EmptyDir))
  BY DEF Dir, IsBlock
<1>7. EntriesOK(J, EmptyDir) /\ EmptyDir # <<>>
  BY EmptyDirOK
<1>8. \A s \in DOMAIN J : IsInode(J[s]) /\ J[s].mode \in {"DIR", "REG"} /\ J[s].size \in Nat
  BY <1>1, <1>2
<1>9. ASSUME NEW s \in DOMAIN J, NEW l \in DirBlocks(J[s].tree)
      PROVE  /\ J[s].tree[Path(l)] \in DOMAIN E
             /\ J[s].mode = "DIR" => E[J[s].tree[Path(l)]].entries # <<>>
  <2>1. CASE s # t
    BY <1>1, <1>2, <1>5, <1>9, <2>1
  <2>2. CASE s = t /\ l \in DirBlocks(T)
    <3>1. J[s].tree[Path(l)] = I[t].tree[Path(l)] /\ J[s].mode = I[t].mode
      BY <1>2, <1>3, <2>2 DEF T
    <3>2. I[t].tree[Path(l)] \in DOMAIN D /\ I[t].tree[Path(l)] # m + 1
      BY <1>1, <2>2 DEF T
    <3> QED
      BY <1>1, <1>5, <2>2, <3>1, <3>2 DEF T
  <2>3. CASE s = t /\ l \notin DirBlocks(T)
    <3>1. Last(T, k) /\ l = k /\ J[s].tree[Path(l)] = m + 1
      BY <1>2, <1>3, <1>9, <2>3
    <3> QED
      BY <1>5, <1>6, <1>7, <3>1
  <2> QED
    BY <2>1, <2>2, <2>3
<1>10. DOMAIN E \subseteq u + 1..m + 1
  <2>1. m + 1 \in u + 1..m + 1 /\ u + 1..m \subseteq u + 1..m + 1
    OBVIOUS
  <2> QED
    BY <1>1, <1>5, <2>1
<1>11. ASSUME NEW b \in DOMAIN E PROVE IsBlock(E[b]) /\ EntriesOK(J, E[b].entries)
  <2>1. CASE b \in DOMAIN D
    <3>1. E[b] = D[b] /\ IsBlock(D[b]) /\ EntriesOK(I, D[b].entries)
      BY <1>1, <1>5, <2>1
    <3>2. EntriesOK(J, D[b].entries)
      BY <1>2, <1>4, <3>1, EntriesKept
    <3> QED
      BY <3>1, <3>2
  <2>2. CASE b \notin DOMAIN D
    <3>1. E[b] = Dir(EmptyDir)
      BY <1>5, <2>2
    <3> QED
      BY <1>6, <1>7, <3>1
  <2> QED
    BY <2>1, <2>2
<1>12. 1 \in DOMAIN J /\ J[1].mode = "DIR"
  BY <1>1, <1>2, <1>4
<1> QED
  BY <1>8, <1>9, <1>10, <1>11, <1>12, Zenon DEF DiskOf

\* Blocks of trees are below the first that is free.
LEMMA TreeBelow ==
    ASSUME ImageOK, NEW t \in DOMAIN inodes, NEW a \in DOMAIN inodes[t].tree
    PROVE  inodes[t].tree[a] \in Meta + 1..Taken /\ inodes[t].tree[a] # Taken + 1
<1>1. t # 0 /\ t \in DOMAIN Trees /\ Trees[t] = inodes[t].tree
  <2>1. DOMAIN inodes = 1..InUse
    BY DEF ImageOK, Layout
  <2>2. t # 0
    BY <2>1
  <2> QED
    BY <2>2 DEF Trees
<1>2. inodes[t].tree[a] \in Meta + 1..Taken
  BY <1>1 DEF ImageOK, AllOwned, Owned
<1>3. Meta \in Nat /\ Taken \in Nat
  BY FirstGroup DEF ImageOK
<1> QED
  BY <1>2, <1>3

\* What write_entry_alloc does with the block it gets.
AllocOf(b) ==
    LET T == inodes[job.ino].tree
        k == target_block
    IN  /\ Missing(T, k) # {}
        /\ inodes' = [inodes EXCEPT ![job.ino].tree = Put(T, Node(T, k), b)]
        /\ disk' = IF Last(T, k) THEN Put(disk, b, Dir(EmptyDir)) ELSE disk
        /\ update_block_bitmap(b)
        /\ UNCHANGED <<s_blocks_count, s_free_inodes_count, inode_bitmap, pc, job, copied, count>>

\* write_entry_alloc exits or gets a block.
LEMMA AllocCases ==
    ASSUME write_entry_alloc
    PROVE  /\ PathMissing
           /\ Exit("exit_dir") \/ \E b \in alloc_block : AllocOf(b)
  BY Zenon DEF write_entry_alloc, AllocOf, Node, Last

\* A block for a directory.
LEMMA AllocImage ==
    ASSUME ImageOK, job.ino \in DOMAIN inodes, NEW b \in alloc_block, AllocOf(b)
    PROVE  ImageOK' /\ b = Taken + 1
<1> DEFINE t == job.ino
           T == inodes[t].tree
           k == target_block
           U == Put(T, Node(T, k), Taken + 1)
<1>1. k \in 0..MaxBlocks - 1 /\ Missing(T, k) # {}
  BY TargetBlock, Zenon DEF AllocOf
<1>2. /\ inodes' = [inodes EXCEPT ![t].tree = Put(T, Node(T, k), b)]
      /\ disk' = IF Last(T, k) THEN Put(disk, b, Dir(EmptyDir)) ELSE disk
      /\ update_block_bitmap(b) /\ job' = job
      /\ UNCHANGED <<s_blocks_count, s_free_inodes_count, inode_bitmap>>
  BY Zenon DEF AllocOf
<1>3. DOMAIN inodes' = DOMAIN inodes
  BY <1>2
<1>4. Layout' /\ Sums' /\ Placed /\ b = Taken + 1 /\ Taken' = Taken + 1
  BY <1>2, <1>3, LayoutBlock DEF ImageOK
<1>5. Meta \in Nat /\ Taken \in Nat /\ Meta <= Taken
  BY FirstGroup DEF ImageOK
<1>6. inodes' = [inodes EXCEPT ![t].tree = U]
  BY <1>2, <1>4
<1>7. IsInode(inodes[t])
  BY DEF ImageOK, DiskOK, DiskOf
<1>8. Node(T, k) \notin DOMAIN T
  <2>1. k \in Nat /\ Missing(T, k) # {}
    BY <1>1
  <2> HIDE DEF k, T
  <2>2. Grown(T, k, Put(T, Node(T, k), b))
    BY <2>1, Grow
  <2> QED
    BY <2>2 DEF Grown
<1>9. t # 0 /\ DOMAIN inodes = 1..InUse
  <2>1. DOMAIN inodes = 1..InUse
    BY DEF ImageOK, Layout
  <2> QED
    BY <2>1
<1>10. AllOwned'
  <2> HIDE DEF U
  <2>1. /\ DOMAIN inodes' = DOMAIN inodes /\ inodes'[t].tree = U
        /\ \A s \in DOMAIN inodes : s # t => inodes'[s] = inodes[s]
    BY <1>6, <1>7, InodeTree
  <2>2. Alike(Trees, Trees', t) /\ Trees'[t] = U /\ Trees[t] = T /\ t \in DOMAIN Trees
    BY <1>2, <1>9, <2>1 DEF Alike, Trees
  <2>3. Trees'[t] = Put(Trees[t], Node(T, k), Taken + 1)
    BY <2>2 DEF U
  <2>4. Owned(Trees, Meta, Taken)
    BY DEF ImageOK, AllOwned
  <2> HIDE DEF T, k, t
  <2>5. Owned(Trees', Meta, Taken + 1)
    BY <1>5, <1>8, <2>2, <2>3, <2>4, OwnedPut
  <2> QED
    BY <1>4, <2>5 DEF AllOwned, Placed
<1>11. DiskOK'
  <2>1. \A s \in DOMAIN inodes : \A l \in DirBlocks(inodes[s].tree) :
            inodes[s].tree[Path(l)] # Taken + 1
    BY TreeBelow DEF DirBlocks
  <2>2. disk' = IF Last(T, k) THEN Put(disk, Taken + 1, Dir(EmptyDir)) ELSE disk
    BY <1>2, <1>4
  <2>3. DiskOf(inodes, disk, Meta, Taken)
    BY DEF ImageOK, DiskOK
  <2>4. DiskOf(inodes', disk', Meta, Taken + 1)
    <3> HIDE DEF k
    <3> QED
      BY <1>1, <1>5, <1>6, <2>1, <2>2, <2>3, DiskGrow
  <2> QED
    BY <1>4, <2>4 DEF DiskOK, Placed
<1> QED
  BY <1>4, <1>10, <1>11 DEF ImageOK

\* write_entry_alloc leaves the image in order.
LEMMA StepAlloc ==
    ASSUME ImageInv, write_entry_alloc
    PROVE  ImageInv'
<1>1. pc = "path" /\ job.name # 0
  BY AllocCases DEF PathMissing
<1>2. ImageOK /\ JobOK
  BY <1>1 DEF ImageInv, Unmade
<1>3. CASE Exit("exit_dir")
  BY <1>1, <1>3, StepExit DEF Unmade
<1>4. ASSUME NEW b \in alloc_block, AllocOf(b) PROVE ImageInv'
  <2>1. job.ino \in DOMAIN inodes
    BY <1>1, <1>2 DEF JobOK
  <2>2. ImageOK'
    BY <1>2, <1>4, <2>1, AllocImage
  <2>3. pc' = pc /\ job' = job
    BY <1>4, Zenon DEF AllocOf
  <2>4. DOMAIN inodes' = DOMAIN inodes /\ inodes'[job.ino].mode = inodes[job.ino].mode
    <3>1. IsInode(inodes[job.ino])
      BY <1>2, <2>1 DEF ImageOK, DiskOK, DiskOf
    <3> DEFINE U == Put(inodes[job.ino].tree, Node(inodes[job.ino].tree, target_block), b)
    <3>2. inodes' = [inodes EXCEPT ![job.ino].tree = U]
      BY <1>4, Zenon DEF AllocOf
    <3> HIDE DEF U
    <3> QED
      BY <2>1, <3>1, <3>2, InodeTree
  <2>5. JobOK' /\ DataOK'
    BY <1>1, <1>2, <2>3, <2>4 DEF JobOK, DataOK, Fresh
  <2> QED
    BY <1>1, <2>2, <2>3, <2>5 DEF ImageInv, Unmade
<1> QED
  BY <1>3, <1>4, AllocCases

\* What write_dir_entry returns: the padding at the end gives way to the entry.
Written(s, w, name, type, ino) ==
    /\ w \in Seq(DirEntries) /\ Len(w) \in {Len(s), Len(s) + 1}
    /\ \A i \in 1..Len(s) - 1 : w[i] = s[i]
    /\ w[Len(s)].name = name /\ w[Len(s)].inode = ino /\ w[Len(s)].type = type
    /\ Len(w) = Len(s) + 1 =>
          w[Len(s) + 1].type = "UNKNOWN" /\ w[Len(s) + 1].inode = 0 /\ w[Len(s) + 1].name = ""

\* The length of an entry.
LEMMA RecLenInt ==
    ASSUME NEW name \in DOMAIN NameLen
    PROVE  rec_len(name) \in Int
<1>1. NameLen[name] \in Nat /\ ENTRY_SIZE \in Nat
  BY NamesAssumption, SizesAssumption
<1> QED
  BY <1>1 DEF rec_len

\* A sequence without its last element.
LEMMA ButLast ==
    ASSUME NEW S, NEW s \in Seq(S), s # <<>>
    PROVE  /\ SubSeq(s, 1, Len(s) - 1) \in Seq(S) /\ Len(SubSeq(s, 1, Len(s) - 1)) = Len(s) - 1
           /\ \A i \in 1..Len(s) - 1 : SubSeq(s, 1, Len(s) - 1)[i] = s[i]
<1>1. Len(s) \in Nat /\ Len(s) >= 1 /\ \A i \in 1..Len(s) : s[i] \in S
  OBVIOUS
<1> DEFINE n == Len(s) - 1
<1>2. n \in Int /\ 1 \in Int /\ n >= 0 /\ \A i \in 1..n : s[i] \in S
  BY <1>1
<1> HIDE DEF n
<1>3. /\ SubSeq(s, 1, n) \in Seq(S) /\ Len(SubSeq(s, 1, n)) = IF 1 <= n THEN n - 1 + 1 ELSE 0
      /\ \A i \in 1..n - 1 + 1 : SubSeq(s, 1, n)[i] = s[1 + i - 1]
  BY <1>2, SubSeqProperties
<1>4. n - 1 + 1 = n /\ \A i \in 1..n : 1 + i - 1 = i
  BY <1>2
<1>5. Len(SubSeq(s, 1, n)) = n /\ \A i \in 1..n : SubSeq(s, 1, n)[i] = s[i]
  BY <1>2, <1>3, <1>4
<1> QED
  BY <1>3, <1>5 DEF n

\* A sequence with one more element.
LEMMA OneMore ==
    ASSUME NEW S, NEW s \in Seq(S), NEW x \in S
    PROVE  /\ s \o <<x>> \in Seq(S) /\ Len(s \o <<x>>) = Len(s) + 1
           /\ \A i \in 1..Len(s) : (s \o <<x>>)[i] = s[i]
           /\ (s \o <<x>>)[Len(s) + 1] = x
  OBVIOUS

\* write_dir_entry does that.
LEMMA WriteDirEntry ==
    ASSUME NEW s \in Seq(DirEntries), s # <<>>, NEW name \in DOMAIN NameLen,
           NEW type \in {"DIR", "REG"}, NEW ino \in Nat
    PROVE  Written(s, write_dir_entry(s, name, type, ino), name, type, ino)
<1> DEFINE n == Len(s)
           max_len == s[n].rec_len
           len == rec_len(name)
           need == max_len >= len + ENTRY_SIZE
           entry == [name |-> name, inode |-> ino, type |-> type,
                     rec_len |-> IF need THEN len ELSE max_len]
           pad == padding_entry(max_len - len)
           front == SubSeq(s, 1, n - 1)
           tail == IF need THEN <<pad>> ELSE <<>>
           w == (front \o <<entry>>) \o tail
<1>1. write_dir_entry(s, name, type, ino) = w
  BY Zenon DEF write_dir_entry
<1>2. n \in Nat /\ n >= 1
  OBVIOUS
<1>3. s[n] \in DirEntries
  BY <1>2
<1>4. max_len \in Int
  BY <1>3 DEF DirEntries
<1>5. len \in Int
  BY RecLenInt
<1>6. entry \in DirEntries
  <2> DEFINE x == IF need THEN len ELSE max_len
  <2>1. x \in Int
    BY <1>4, <1>5
  <2> HIDE DEF x
  <2>2. [name |-> name, inode |-> ino, type |-> type, rec_len |-> x] \in DirEntries
    BY <2>1 DEF DirEntries
  <2> QED
    BY <2>2 DEF x
<1>7. pad \in DirEntries /\ pad.type = "UNKNOWN" /\ pad.inode = 0 /\ pad.name = ""
  <2> DEFINE x == max_len - len
  <2>1. x \in Int
    BY <1>4, <1>5
  <2> HIDE DEF x
  <2>2. padding_entry(x) \in DirEntries
    BY <2>1 DEF DirEntries, padding_entry
  <2>3. padding_entry(x).type = "UNKNOWN" /\ padding_entry(x).inode = 0
        /\ padding_entry(x).name = ""
    BY DEF padding_entry
  <2> QED
    BY <2>2, <2>3 DEF x
<1>8. front \in Seq(DirEntries) /\ Len(front) = n - 1 /\ \A i \in 1..n - 1 : front[i] = s[i]
  BY ButLast, Zenon
<1>9. entry.name = name /\ entry.inode = ino /\ entry.type = type
  OBVIOUS
<1>10. tail = <<>> \/ tail = <<pad>>
  OBVIOUS
<1> HIDE DEF front, entry, pad, tail, n
<1>11. /\ front \o <<entry>> \in Seq(DirEntries) /\ Len(front \o <<entry>>) = n
       /\ \A i \in 1..n - 1 : (front \o <<entry>>)[i] = s[i]
       /\ (front \o <<entry>>)[n] = entry
  BY <1>2, <1>6, <1>8
<1> DEFINE v == front \o <<entry>>
<1> HIDE DEF v
<1>12. /\ v \in Seq(DirEntries) /\ Len(v) = n
       /\ \A i \in 1..n - 1 : v[i] = s[i]
       /\ v[n] = entry
  BY <1>11 DEF v
<1>13. CASE tail = <<>>
  <2>1. w = v
    BY <1>12, <1>13 DEF v
  <2> HIDE DEF w
  <2>2. Len(v) # n + 1
    BY <1>2, <1>12
  <2> QED
    BY <1>1, <1>2, <1>9, <1>12, <2>1, <2>2 DEF Written, n
<1>14. CASE tail = <<pad>>
  <2>1. w = v \o <<pad>>
    BY <1>14 DEF v
  <2> HIDE DEF w
  <2>2. /\ w \in Seq(DirEntries) /\ Len(w) = n + 1 /\ w[n + 1] = pad
        /\ \A i \in 1..n : w[i] = v[i]
    <3>1. /\ v \o <<pad>> \in Seq(DirEntries) /\ Len(v \o <<pad>>) = Len(v) + 1
          /\ \A i \in 1..Len(v) : (v \o <<pad>>)[i] = v[i]
          /\ (v \o <<pad>>)[Len(v) + 1] = pad
      BY <1>7, <1>12, OneMore, ZenonT(30)
    <3> QED
      BY <1>12, <2>1, <3>1, Zenon
  <2>3. w[n] = entry /\ \A i \in 1..n - 1 : w[i] = s[i]
    BY <1>2, <1>12, <2>2
  <2> QED
    BY <1>1, <1>2, <1>7, <1>9, <2>2, <2>3 DEF Written, n
<1> QED
  BY <1>10, <1>13, <1>14

\* The entries of a block after one was written for the inode n.
LEMMA WrittenOK ==
    ASSUME NEW J, NEW n \in DOMAIN J, NEW r, J[n] = r, r.mode # "UNKNOWN",
           NEW s, EntriesOK(J, s), s # <<>>, NEW w, NEW name \in DOMAIN NameLen,
           Written(s, w, name, r.mode, n)
    PROVE  EntriesOK(J, w) /\ w # <<>>
<1>1. n \in DOMAIN J /\ J[n] = r
  OBVIOUS
<1>2. s \in Seq(DirEntries) /\ Len(s) \in Nat /\ Len(s) >= 1
  BY DEF EntriesOK
<1>3. EntriesOK(J, s)
  OBVIOUS
<1>4. /\ w \in Seq(DirEntries) /\ Len(w) \in {Len(s), Len(s) + 1}
      /\ \A i \in 1..Len(s) - 1 : w[i] = s[i]
      /\ w[Len(s)].name = name /\ w[Len(s)].inode = n /\ w[Len(s)].type = r.mode
      /\ Len(w) = Len(s) + 1 =>
          w[Len(s) + 1].type = "UNKNOWN" /\ w[Len(s) + 1].inode = 0 /\ w[Len(s) + 1].name = ""
  BY DEF Written
<1> DEFINE p == Len(s)
           q == Len(w)
<1>8. p \in Nat /\ p >= 1 /\ (q = p \/ q = p + 1)
  BY <1>2, <1>4
<1>9. \A i \in 1..p : EntryOK(J, s[i])
  BY <1>3 DEF EntriesOK
<1>10. /\ \A i \in 1..p - 1 : w[i] = s[i]
       /\ w[p].name = name /\ w[p].inode = n /\ w[p].type = r.mode
       /\ q = p + 1 => w[p + 1].type = "UNKNOWN" /\ w[p + 1].inode = 0 /\ w[p + 1].name = ""
  BY <1>4
<1>6. w # <<>>
  <2>1. q # 0
    BY <1>8
  <2> QED
    BY <2>1
<1> HIDE DEF p, q
<1>5. ASSUME NEW i \in 1..q PROVE EntryOK(J, w[i])
  <2>1. CASE i \in 1..p - 1
    <3>1. i \in 1..p
      BY <1>8, <2>1
    <3>2. w[i] = s[i]
      BY <1>10, <2>1, Zenon
    <3> QED
      BY <1>9, <3>1, <3>2
  <2>2. CASE i = p
    BY <1>1, <1>10, <2>2 DEF EntryOK, Real
  <2>3. CASE i = p + 1
    <3>1. q = p + 1
      BY <1>8, <2>3
    <3> QED
      BY <1>10, <2>3, <3>1 DEF EntryOK, Real
  <2> QED
    BY <1>8, <2>1, <2>2, <2>3
<1>7. w \in Seq(DirEntries)
  BY <1>4
<1> QED
  BY <1>5, <1>6, <1>7 DEF EntriesOK, q

\* Other entries for a block.
Rewritten(D, b, w, E) == E = [D EXCEPT ![b].entries = w]

\* The other blocks are as they were.
LEMMA BlockEntries ==
    ASSUME NEW D, NEW b \in DOMAIN D, IsBlock(D[b]), NEW w, NEW E, Rewritten(D, b, w, E)
    PROVE  /\ DOMAIN E = DOMAIN D /\ \A c \in DOMAIN D : c # b => E[c] = D[c]
           /\ IsBlock(E[b]) /\ E[b].entries = w /\ E[b].src = D[b].src /\ E[b].k = D[b].k
<1>1. DOMAIN E = DOMAIN D /\ \A c \in DOMAIN D : c # b => E[c] = D[c]
  BY DEF Rewritten
<1>2. E[b] = [D[b] EXCEPT !.entries = w]
  BY DEF Rewritten
<1>3. E[b] = [entries |-> w, src |-> D[b].src, k |-> D[b].k]
  BY <1>2 DEF IsBlock
<1> QED
  BY <1>1, <1>3 DEF IsBlock

\* A new inode, without blocks, and its entry.
LEMMA DiskWrite ==
    ASSUME NEW I, NEW D, NEW u, NEW m, DiskOf(I, D, u, m),
           NEW n, n \notin DOMAIN I, NEW r, IsInode(r), r.mode \in {"DIR", "REG"}, r.size \in Nat,
           r.tree = <<>>, NEW J, J = Put(I, n, r),
           NEW b \in DOMAIN D, NEW w, NEW E, E = [D EXCEPT ![b].entries = w],
           EntriesOK(J, w), w # <<>>
    PROVE  DiskOf(J, E, u, m)
<1>1. /\ \A s \in DOMAIN I : IsInode(I[s]) /\ I[s].mode \in {"DIR", "REG"} /\ I[s].size \in Nat
      /\ 1 \in DOMAIN I /\ I[1].mode = "DIR"
      /\ \A s \in DOMAIN I : \A l \in DirBlocks(I[s].tree) :
            /\ I[s].tree[Path(l)] \in DOMAIN D
            /\ I[s].mode = "DIR" => D[I[s].tree[Path(l)]].entries # <<>>
      /\ DOMAIN D \subseteq u + 1..m
      /\ \A c \in DOMAIN D : IsBlock(D[c]) /\ EntriesOK(I, D[c].entries)
  BY DEF DiskOf
<1>2. /\ DOMAIN J = DOMAIN I \cup {n} /\ J[n] = r /\ \A t \in DOMAIN I : J[t] = I[t]
  BY DEF Put
<1>3. /\ DOMAIN E = DOMAIN D /\ \A c \in DOMAIN D : c # b => E[c] = D[c]
      /\ IsBlock(E[b]) /\ E[b].entries = w
  <2>1. IsBlock(D[b]) /\ Rewritten(D, b, w, E)
    BY <1>1 DEF Rewritten
  <2> QED
    BY <2>1, BlockEntries
<1>4. DirBlocks(r.tree) = {}
  BY DEF DirBlocks
<1>5. \A s \in DOMAIN J : IsInode(J[s]) /\ J[s].mode \in {"DIR", "REG"} /\ J[s].size \in Nat
  BY <1>1, <1>2
<1>6. 1 \in DOMAIN J /\ J[1].mode = "DIR"
  BY <1>1, <1>2
<1>7. ASSUME NEW s \in DOMAIN J, NEW l \in DirBlocks(J[s].tree)
      PROVE  /\ J[s].tree[Path(l)] \in DOMAIN E
             /\ J[s].mode = "DIR" => E[J[s].tree[Path(l)]].entries # <<>>
  <2>1. s \in DOMAIN I /\ J[s] = I[s]
    BY <1>2, <1>4, <1>7
  <2>2. /\ J[s].tree[Path(l)] \in DOMAIN D
        /\ J[s].mode = "DIR" => D[J[s].tree[Path(l)]].entries # <<>>
    BY <1>1, <1>7, <2>1
  <2> QED
    BY <1>3, <2>2
<1>8. ASSUME NEW c \in DOMAIN E PROVE IsBlock(E[c]) /\ EntriesOK(J, E[c].entries)
  <2>1. CASE c = b
    BY <1>3, <2>1
  <2>2. CASE c # b
    <3>1. c \in DOMAIN D /\ E[c] = D[c] /\ IsBlock(D[c]) /\ EntriesOK(I, D[c].entries)
      BY <1>1, <1>3, <2>2
    <3>2. EntriesOK(J, D[c].entries)
      BY <1>2, <3>1, EntriesKept
    <3> QED
      BY <3>1, <3>2
  <2> QED
    BY <2>1, <2>2
<1>9. DOMAIN E \subseteq u + 1..m
  BY <1>1, <1>3
<1> QED
  BY <1>5, <1>6, <1>7, <1>8, <1>9, Zenon DEF DiskOf

\* What write_entry does with the inode number it gets.
EntryType == IF is_dir_name THEN "DIR" ELSE "REG"
WriteOf(ino) ==
    LET T == inodes[job.ino].tree
        b == T[Path(target_block)]
    IN  /\ Missing(T, target_block) = {}
        /\ disk' = [disk EXCEPT ![b].entries =
                       write_dir_entry(disk[b].entries, job.path[job.name], EntryType, ino)]
        /\ write_inode(ino, [mode |-> EntryType, size |-> 0, tree |-> <<>>])
        /\ job' = [job EXCEPT !.ino = ino, !.name = next_name]
        /\ UNCHANGED <<s_blocks_count, s_free_blocks_count, block_bitmap, pc, copied, count>>

\* write_entry does that.
LEMMA WriteCases ==
    ASSUME write_entry
    PROVE  PathMissing /\ \E ino \in alloc_inode_no : WriteOf(ino)
  BY Zenon DEF write_entry, WriteOf, EntryType

\* The block that gets the entry has padding at its end.
LEMMA WriteTarget ==
    ASSUME ImageOK, job.ino \in DOMAIN inodes, inodes[job.ino].mode = "DIR",
           Missing(inodes[job.ino].tree, target_block) = {}
    PROVE  LET b == inodes[job.ino].tree[Path(target_block)]
               s == disk[b].entries
           IN  /\ target_block \in DirBlocks(inodes[job.ino].tree)
               /\ b \in DOMAIN disk /\ IsBlock(disk[b]) /\ EntriesOK(inodes, s) /\ s # <<>>
               /\ s \in Seq(DirEntries) /\ ~Real(s[Len(s)])
<1> DEFINE T == inodes[job.ino].tree
           k == target_block
           b == T[Path(k)]
           s == disk[b].entries
<1>1. k \in 0..MaxBlocks - 1 /\ has_room(s, job.path[job.name])
  BY TargetBlock, Zenon
<1>2. Path(k) \in DOMAIN T
  <2>1. k \in Nat
    BY <1>1
  <2> QED
    BY <2>1, MissingPath
<1>3. k \in DirBlocks(T)
  BY <1>1, <1>2 DEF DirBlocks
<1>4. b \in DOMAIN disk /\ s # <<>> /\ IsBlock(disk[b]) /\ EntriesOK(inodes, s)
  BY <1>3 DEF ImageOK, DiskOK, DiskOf
<1>5. ~Real(s[Len(s)])
  BY <1>1 DEF has_room, Real
<1>6. s \in Seq(DirEntries)
  BY <1>4 DEF EntriesOK
<1> QED
  BY <1>3, <1>4, <1>5, <1>6

\* A new inode for an entry.
LEMMA EntryImage ==
    ASSUME ImageOK, job.ino \in DOMAIN inodes, inodes[job.ino].mode = "DIR",
           job.path[job.name] \in DOMAIN NameLen, job'.tree = job.tree,
           NEW ino \in alloc_inode_no, WriteOf(ino)
    PROVE  /\ ImageOK' /\ ino \notin DOMAIN inodes /\ ino \in Nat /\ ino > 1
           /\ Meta' = Meta /\ Taken' = Taken
           /\ inodes' = Put(inodes, ino, [mode |-> EntryType, size |-> 0, tree |-> <<>>])
<1> DEFINE r == [mode |-> EntryType, size |-> 0, tree |-> <<>>]
           b == inodes[job.ino].tree[Path(target_block)]
           s == disk[b].entries
           name == job.path[job.name]
           w == write_dir_entry(s, name, EntryType, ino)
<1>1. /\ Missing(inodes[job.ino].tree, target_block) = {}
      /\ disk' = [disk EXCEPT ![b].entries = w] /\ write_inode(ino, r)
      /\ UNCHANGED <<s_blocks_count, s_free_blocks_count, block_bitmap>>
  BY Zenon DEF WriteOf
<1>2. /\ b \in DOMAIN disk /\ IsBlock(disk[b]) /\ EntriesOK(inodes, s) /\ s # <<>>
      /\ s \in Seq(DirEntries)
  BY <1>1, WriteTarget, Zenon
<1>3. EntryType \in {"DIR", "REG"}
  BY DEF EntryType
<1>4. IsInode(r) /\ r.mode = EntryType /\ r.size = 0 /\ r.tree = <<>>
  BY DEF IsInode
<1> HIDE DEF r
<1>5. /\ Layout' /\ Sums' /\ Placed /\ Taken' = Taken
      /\ ino = InUse + 1 /\ inodes' = Put(inodes, ino, r)
  BY <1>1, LayoutInode DEF ImageOK
<1>6. DOMAIN inodes = 1..InUse /\ InUse \in Nat /\ InUse >= 1
  BY FirstGroup DEF ImageOK, Layout
<1>7. ino \notin DOMAIN inodes /\ ino \in Nat /\ ino # 0 /\ ino > 1
  BY <1>5, <1>6
<1>8. AllOwned'
  <2>1. DOMAIN inodes' = DOMAIN inodes \cup {ino} /\ inodes'[ino] = r
        /\ \A t \in DOMAIN inodes : inodes'[t] = inodes[t]
    BY <1>5, <1>7 DEF Put
  <2>2. DOMAIN Trees' = DOMAIN Trees \cup {ino} /\ ino \notin DOMAIN Trees
    BY <1>7, <2>1 DEF Trees
  <2>3. \A t \in DOMAIN Trees : Trees'[t] = Trees[t]
    BY <1>7, <2>1 DEF Trees
  <2>4. Trees'[ino] = <<>>
    BY <1>4, <1>7, <2>1 DEF Trees
  <2>5. DOMAIN Trees'[ino] = {}
    BY <2>4
  <2>6. Owned(Trees, Meta, Taken)
    BY DEF ImageOK, AllOwned
  <2>7. Owned(Trees', Meta, Taken)
    BY <2>2, <2>3, <2>5, <2>6, OwnedNew
  <2> QED
    BY <1>5, <2>7 DEF AllOwned, Placed
<1>9. DiskOK'
  <2> HIDE DEF s, b, name
  <2>1. Written(s, w, name, EntryType, ino)
    BY <1>2, <1>3, <1>7, WriteDirEntry DEF name
  <2> HIDE DEF w
  <2>2. EntriesOK(inodes', w) /\ w # <<>>
    <3>1. name \in DOMAIN NameLen
      BY DEF name
    <3>2. r.mode # "UNKNOWN" /\ Written(s, w, name, r.mode, ino)
      BY <1>3, <1>4, <2>1
    <3>3. /\ ino \in DOMAIN inodes' /\ inodes'[ino] = r /\ DOMAIN inodes \subseteq DOMAIN inodes'
          /\ \A t \in DOMAIN inodes : inodes'[t].mode = inodes[t].mode
      BY <1>5, <1>7 DEF Put
    <3>4. EntriesOK(inodes', s)
      BY <1>2, <3>3, EntriesKept
    <3> QED
      BY <1>2, <3>1, <3>2, <3>3, <3>4, WrittenOK
  <2>3. DiskOf(inodes, disk, Meta, Taken)
    BY DEF ImageOK, DiskOK
  <2>4. r.mode \in {"DIR", "REG"} /\ r.size \in Nat
    BY <1>3, <1>4
  <2>5. DiskOf(inodes', disk', Meta, Taken)
    BY <1>1, <1>2, <1>4, <1>5, <1>7, <2>2, <2>3, <2>4, DiskWrite
  <2> QED
    BY <1>5, <2>5 DEF DiskOK, Placed
<1> QED
  BY <1>5, <1>7, <1>8, <1>9 DEF ImageOK, Placed, r

\* write_entry leaves the image in order.
LEMMA StepEntry ==
    ASSUME ImageInv, write_entry
    PROVE  ImageInv'
<1>1. pc = "path" /\ job.name # 0
  BY WriteCases DEF PathMissing
<1>2. ImageOK /\ JobOK
  BY <1>1 DEF ImageInv, Unmade
<1>3. PICK ino \in alloc_inode_no : WriteOf(ino)
  BY WriteCases
<1>4. pc' = pc /\ job' = [job EXCEPT !.ino = ino, !.name = next_name]
  BY <1>3, Zenon DEF WriteOf
<1>5. /\ IsJob(job') /\ job'.ino = ino /\ job'.name = next_name /\ job'.path = job.path
      /\ job'.size = job.size /\ job'.k = job.k /\ job'.tree = job.tree
  BY <1>2, <1>4 DEF JobOK, IsJob
<1>6. /\ job.ino \in DOMAIN inodes /\ inodes[job.ino].mode = "DIR"
      /\ job.path \in Seq(DOMAIN NameLen) /\ job.name \in 1..Len(job.path)
  BY <1>1, <1>2 DEF JobOK
<1>7. job.path[job.name] \in DOMAIN NameLen /\ Len(job.path) \in Nat /\ Len(job.path) > 0
  BY <1>6
<1> DEFINE r == [mode |-> EntryType, size |-> 0, tree |-> <<>>]
<1>8. ImageOK' /\ ino \notin DOMAIN inodes /\ inodes' = Put(inodes, ino, r)
  BY <1>2, <1>3, <1>5, <1>6, <1>7, EntryImage
<1>9. ino \in DOMAIN inodes' /\ inodes'[ino] = r
  BY <1>8 DEF Put
<1>10. CASE is_dir_name
  <2>1. next_name = 2 /\ Len(job.path) > 1 /\ r.mode = "DIR"
    BY <1>10 DEF is_dir_name, next_name, EntryType
  <2> HIDE DEF r
  <2>2. JobOK' /\ DataOK'
    BY <1>1, <1>2, <1>4, <1>5, <1>7, <1>9, <2>1 DEF JobOK, DataOK, Fresh
  <2> QED
    BY <1>1, <1>4, <1>8, <2>2 DEF ImageInv, Unmade
<1>11. CASE ~is_dir_name
  <2>1. next_name = 0 /\ Len(job.path) = 1 /\ r = NewFile
    <3>1. next_name = 0 /\ EntryType = "REG"
      BY <1>11 DEF next_name, EntryType
    <3>2. Len(job.path) = 1
      <4> DEFINE n == Len(job.path)
      <4>1. n \in Nat /\ n > 0
        BY <1>7
      <4>2. ~(n > 1)
        BY <1>11, Zenon DEF is_dir_name
      <4> HIDE DEF n
      <4>3. n = 1
        BY <4>1, <4>2
      <4> QED
        BY <4>3 DEF n
    <3> QED
      BY <3>1, <3>2 DEF NewFile
  <2> HIDE DEF r
  <2>2. JobOK' /\ DataOK'
    BY <1>1, <1>2, <1>4, <1>5, <1>7, <1>9, <2>1 DEF JobOK, DataOK, Fresh
  <2> QED
    BY <1>1, <1>4, <1>8, <2>2 DEF ImageInv, Unmade
<1> QED
  BY <1>10, <1>11

\* The smaller of two numbers.
LEMMA MinTwo ==
    ASSUME NEW a \in Nat, NEW b \in Nat
    PROVE  Min({a, b}) \in {a, b} /\ Min({a, b}) <= a /\ Min({a, b}) <= b
<1> DEFINE S == {a, b}
<1>1. S \in SUBSET Nat /\ S # {} /\ a \in S /\ b \in S
  OBVIOUS
<1> HIDE DEF S
<1>2. Min(S) \in S /\ \A y \in S : Min(S) <= y
  BY <1>1, MinNat
<1>3. Min(S) \in S /\ Min(S) <= a /\ Min(S) <= b
  BY <1>1, <1>2
<1> QED
  BY <1>3 DEF S

\* What write_data does with the block it gets.
DataOf(b) ==
    LET T == job.tree
        k == job.k
    IN  /\ disk' = IF Last(T, k) THEN Put(disk, b, Data(job.src, k)) ELSE disk
        /\ job' = [job EXCEPT !.tree = Put(T, Node(T, k), b),
                              !.k = IF Last(T, k) THEN k + 1 ELSE k]
        /\ update_block_bitmap(b)
        /\ UNCHANGED <<s_blocks_count, s_free_inodes_count, inode_bitmap, inodes, pc, copied, count>>

\* write_data exits or gets a block.
LEMMA DataCases ==
    ASSUME write_data
    PROVE  /\ pc = "data" /\ job.k < Min({data_blocks, MaxBlocks})
           /\ Exit("exit_data") \/ \E b \in alloc_block : DataOf(b)
  BY Zenon DEF write_data, DataOf, Node, Last

\* A block of data.
LEMMA DiskData ==
    ASSUME NEW I, NEW D, NEW u \in Nat, NEW m \in Nat, u <= m, DiskOf(I, D, u, m),
           NEW src, NEW k, NEW E, E = D \/ E = Put(D, m + 1, Data(src, k))
    PROVE  DiskOf(I, E, u, m + 1)
<1>1. /\ \A s \in DOMAIN I : IsInode(I[s]) /\ I[s].mode \in {"DIR", "REG"} /\ I[s].size \in Nat
      /\ 1 \in DOMAIN I /\ I[1].mode = "DIR"
      /\ \A s \in DOMAIN I : \A l \in DirBlocks(I[s].tree) :
            /\ I[s].tree[Path(l)] \in DOMAIN D
            /\ I[s].mode = "DIR" => D[I[s].tree[Path(l)]].entries # <<>>
      /\ DOMAIN D \subseteq u + 1..m
      /\ \A b \in DOMAIN D : IsBlock(D[b]) /\ EntriesOK(I, D[b].entries)
  BY DEF DiskOf
<1>2. m + 1 \notin DOMAIN D
  BY <1>1
<1>3. /\ DOMAIN D \subseteq DOMAIN E /\ DOMAIN E \subseteq DOMAIN D \cup {m + 1}
      /\ \A b \in DOMAIN D : E[b] = D[b]
      /\ m + 1 \in DOMAIN E => E[m + 1] = Data(src, k)
  BY <1>2 DEF Put
<1>4. IsBlock(Data(src, k)) /\ Data(src, k).entries = <<>>
  BY DEF Data, IsBlock
<1>5. EntriesOK(I, <<>>)
  BY DEF EntriesOK
<1>6. \A s \in DOMAIN I : \A l \in DirBlocks(I[s].tree) :
          /\ I[s].tree[Path(l)] \in DOMAIN E
          /\ I[s].mode = "DIR" => E[I[s].tree[Path(l)]].entries # <<>>
  BY <1>1, <1>3
<1>7. DOMAIN E \subseteq u + 1..m + 1
  <2>1. m + 1 \in u + 1..m + 1 /\ u + 1..m \subseteq u + 1..m + 1
    OBVIOUS
  <2> QED
    BY <1>1, <1>3, <2>1
<1>8. \A b \in DOMAIN E : IsBlock(E[b]) /\ EntriesOK(I, E[b].entries)
  <2> SUFFICES ASSUME NEW b \in DOMAIN E PROVE IsBlock(E[b]) /\ EntriesOK(I, E[b].entries)
    OBVIOUS
  <2>1. CASE b \in DOMAIN D
    BY <1>1, <1>3, <2>1
  <2>2. CASE b \notin DOMAIN D
    <3>1. E[b] = Data(src, k)
      BY <1>3, <2>2
    <3> QED
      BY <1>4, <1>5, <3>1
  <2> QED
    BY <2>1, <2>2
<1> QED
  BY <1>1, <1>6, <1>7, <1>8, Zenon DEF DiskOf

\* The image after a block for the file.
LEMMA DataImage ==
    ASSUME ImageOK, IsJob(job), job.k \in 0..MaxBlocks - 1, Missing(job.tree, job.k) # {},
           NEW b \in alloc_block, DataOf(b)
    PROVE  /\ ImageOK' /\ b = Taken + 1
           /\ job'.tree = Put(job.tree, Node(job.tree, job.k), b)
           /\ job'.k = IF Last(job.tree, job.k) THEN job.k + 1 ELSE job.k
           /\ job'.path = job.path /\ job'.name = job.name /\ job'.src = job.src
           /\ job'.size = job.size /\ job'.ino = job.ino /\ IsJob(job')
<1> DEFINE T == job.tree
           k == job.k
           U == Put(T, Node(T, k), b)
           l == IF Last(T, k) THEN k + 1 ELSE k
<1>1. /\ disk' = IF Last(T, k) THEN Put(disk, b, Data(job.src, k)) ELSE disk
      /\ job' = [job EXCEPT !.tree = U, !.k = l]
      /\ update_block_bitmap(b) /\ inodes' = inodes
      /\ UNCHANGED <<s_blocks_count, s_free_inodes_count, inode_bitmap>>
  BY Zenon DEF DataOf
<1>2. Layout' /\ Sums' /\ Placed /\ b = Taken + 1 /\ Taken' = Taken + 1
  BY <1>1, LayoutBlock DEF ImageOK
<1>3. Meta \in Nat /\ Taken \in Nat /\ Meta <= Taken
  BY FirstGroup DEF ImageOK
<1>4. Node(T, k) \notin DOMAIN T
  <2>1. k \in Nat
    BY PointersPos
  <2>2. Grown(T, k, U)
    BY <2>1, Grow
  <2> QED
    BY <2>2 DEF Grown
<1> HIDE DEF l
<1>5. /\ job'.tree = U /\ job'.k = l /\ job'.path = job.path /\ job'.name = job.name
      /\ job'.src = job.src /\ job'.size = job.size /\ job'.ino = job.ino /\ IsJob(job')
  <2> HIDE DEF U, T, k
  <2> QED
    BY <1>1 DEF IsJob
<1>6. AllOwned'
  <2>1. \A t \in DOMAIN inodes : t # 0
    <3>1. DOMAIN inodes = 1..InUse
      BY DEF ImageOK, Layout
    <3> QED
      BY <3>1
  <2> HIDE DEF U
  <2>2. Alike(Trees, Trees', 0) /\ Trees'[0] = U /\ Trees[0] = T /\ 0 \in DOMAIN Trees
    BY <1>1, <1>5, <2>1 DEF Alike, Trees
  <2>3. Trees'[0] = Put(Trees[0], Node(T, k), Taken + 1)
    BY <1>2, <2>2 DEF U
  <2>4. Owned(Trees, Meta, Taken)
    BY DEF ImageOK, AllOwned
  <2> DEFINE t == 0
  <2> HIDE DEF T, k, t
  <2>5. /\ t \in DOMAIN Trees /\ Alike(Trees, Trees', t) /\ Node(T, k) \notin DOMAIN Trees[t]
        /\ Trees'[t] = Put(Trees[t], Node(T, k), Taken + 1)
    BY <1>4, <2>2, <2>3 DEF t
  <2>6. Owned(Trees', Meta, Taken + 1)
    BY <1>3, <2>4, <2>5, OwnedPut
  <2> QED
    BY <1>2, <2>6 DEF AllOwned, Placed
<1>7. DiskOK'
  <2>1. disk' = disk \/ disk' = Put(disk, Taken + 1, Data(job.src, k))
    BY <1>1, <1>2
  <2>2. DiskOf(inodes, disk, Meta, Taken)
    BY DEF ImageOK, DiskOK
  <2>3. DiskOf(inodes, disk', Meta, Taken + 1)
    BY <1>3, <2>1, <2>2, DiskData
  <2> QED
    BY <1>1, <1>2, <2>3 DEF DiskOK, Placed
<1> QED
  BY <1>2, <1>5, <1>6, <1>7 DEF ImageOK, l

\* write_data leaves the image in order.
LEMMA StepData ==
    ASSUME ImageInv, write_data
    PROVE  ImageInv'
<1>1. pc = "data" /\ job.k < Min({data_blocks, MaxBlocks})
  BY DataCases
<1>2. ImageOK /\ JobOK /\ DataOK
  BY <1>1 DEF ImageInv, Unmade
<1>3. CASE Exit("exit_data")
  BY <1>1, <1>3, StepExit DEF Unmade
<1>4. ASSUME NEW b \in alloc_block, DataOf(b) PROVE ImageInv'
  <2> DEFINE T == job.tree
             k == job.k
             U == Put(T, Node(T, k), b)
  <2>1. IsJob(job) /\ job.size \in Nat /\ k \in Nat
    BY <1>2 DEF JobOK
  <2>2. data_blocks \in Nat /\ MaxBlocks \in Nat
    BY <2>1, SizesAssumption, CeilNat, PointersPos DEF data_blocks
  <2>3. k < data_blocks /\ k < MaxBlocks
    <3> DEFINE m == Min({data_blocks, MaxBlocks})
    <3>1. m \in {data_blocks, MaxBlocks} /\ m <= data_blocks /\ m <= MaxBlocks
      BY <2>2, MinTwo
    <3>2. k < m
      BY <1>1
    <3> HIDE DEF m, k
    <3> QED
      BY <2>1, <2>2, <3>1, <3>2
  <2>4. k \in 0..MaxBlocks - 1
    BY <2>1, <2>2, <2>3
  <2>5. /\ \A l \in 0..MaxBlocks - 1 : Path(l) \in DOMAIN T <=> l < k
        /\ \A l \in 0..k - 1 : T[Path(l)] \in DOMAIN disk /\ disk[T[Path(l)]] = Data(job.src, l)
    BY <1>1, <1>2 DEF DataOK
  <2>6. Missing(T, k) # {}
    <3>1. Path(k) \notin DOMAIN T
      BY <2>1, <2>4, <2>5
    <3> QED
      BY <2>1, <3>1, MissingPath
  <2>7. /\ ImageOK' /\ b = Taken + 1 /\ job'.tree = U
        /\ job'.k = IF Last(T, k) THEN k + 1 ELSE k
        /\ job'.path = job.path /\ job'.name = job.name /\ job'.src = job.src
        /\ job'.size = job.size /\ job'.ino = job.ino /\ IsJob(job')
    BY <1>2, <1>4, <2>1, <2>4, <2>6, DataImage
  <2>8. /\ pc' = pc /\ inodes' = inodes
        /\ disk' = IF Last(T, k) THEN Put(disk, b, Data(job.src, k)) ELSE disk
    BY <1>4, Zenon DEF DataOf
  <2>9. JobOK'
    <3>1. job'.k \in Nat
      BY <2>1, <2>7
    <3> QED
      BY <1>1, <1>2, <2>7, <2>8, <3>1 DEF JobOK, Fresh
  <2>10. /\ DirBlocks(U) = IF Last(T, k) THEN DirBlocks(T) \cup {k} ELSE DirBlocks(T)
         /\ \A l \in DirBlocks(T) : U[Path(l)] = T[Path(l)]
         /\ Last(T, k) => U[Path(k)] = b
    <3> HIDE DEF T, k
    <3> QED
      BY <2>4, <2>6, TreeLeaf
  <2>11. DirBlocks(T) = 0..k - 1
    BY <2>1, <2>2, <2>3, <2>5 DEF DirBlocks
  <2>12. Taken + 1 \notin DOMAIN disk
    <3>1. DOMAIN disk \subseteq Meta + 1..Taken
      BY <1>2 DEF ImageOK, DiskOK, DiskOf
    <3>2. Taken \in Nat /\ Meta \in Nat
      BY <1>2, FirstGroup DEF ImageOK
    <3> QED
      BY <3>1, <3>2
  <2>13. \A l \in 0..k - 1 : /\ U[Path(l)] \in DOMAIN disk'
                             /\ disk'[U[Path(l)]] = Data(job.src, l)
    <3> SUFFICES ASSUME NEW l \in 0..k - 1
                 PROVE  U[Path(l)] \in DOMAIN disk' /\ disk'[U[Path(l)]] = Data(job.src, l)
      OBVIOUS
    <3> HIDE DEF U
    <3>1. U[Path(l)] = T[Path(l)]
      BY <2>10, <2>11
    <3>2. T[Path(l)] \in DOMAIN disk /\ disk[T[Path(l)]] = Data(job.src, l)
      BY <2>5
    <3>3. T[Path(l)] # b
      BY <2>7, <2>12, <3>2
    <3> QED
      BY <2>8, <3>1, <3>2, <3>3 DEF Put
  <2> HIDE DEF U, T
  <2>14. data_blocks' = data_blocks
    BY <2>7 DEF data_blocks
  <2>15. CASE ~Last(T, k)
    <3>1. DirBlocks(U) = 0..k - 1 /\ job'.k = k
      BY <2>7, <2>10, <2>11, <2>15
    <3>2. \A l \in 0..MaxBlocks - 1 : Path(l) \in DOMAIN U <=> l < k
      BY <2>1, <2>2, <2>3, <3>1 DEF DirBlocks
    <3>3. DataOK'
      BY <2>1, <2>2, <2>3, <2>7, <2>13, <2>14, <3>1, <3>2 DEF DataOK
    <3> QED
      BY <1>1, <2>7, <2>8, <2>9, <3>3 DEF ImageInv, Unmade
  <2>16. CASE Last(T, k)
    <3>1. DirBlocks(U) = (0..k - 1) \cup {k} /\ job'.k = k + 1 /\ U[Path(k)] = b
      BY <2>7, <2>10, <2>11, <2>16
    <3>2. \A l \in 0..MaxBlocks - 1 : Path(l) \in DOMAIN U <=> l < k + 1
      BY <2>1, <2>2, <2>3, <3>1 DEF DirBlocks
    <3>3. b \in DOMAIN disk' /\ disk'[b] = Data(job.src, k)
      BY <2>8, <2>16 DEF Put
    <3>4. \A l \in 0..k + 1 - 1 : /\ U[Path(l)] \in DOMAIN disk'
                                  /\ disk'[U[Path(l)]] = Data(job.src, l)
      <4> SUFFICES ASSUME NEW l \in 0..k + 1 - 1
                   PROVE  U[Path(l)] \in DOMAIN disk' /\ disk'[U[Path(l)]] = Data(job.src, l)
        OBVIOUS
      <4>1. l \in 0..k - 1 \/ l = k
        BY <2>1
      <4> QED
        BY <2>13, <3>1, <3>3, <4>1
    <3>5. k + 1 <= data_blocks /\ k + 1 <= MaxBlocks
      BY <2>1, <2>2, <2>3
    <3>6. DataOK'
      <4>1. job'.k <= data_blocks' /\ job'.k <= MaxBlocks
        BY <2>14, <3>1, <3>5
      <4>2. \A l \in 0..MaxBlocks - 1 : Path(l) \in DOMAIN job'.tree <=> l < job'.k
        BY <2>7, <3>1, <3>2
      <4>3. \A l \in 0..job'.k - 1 : /\ job'.tree[Path(l)] \in DOMAIN disk'
                                     /\ disk'[job'.tree[Path(l)]] = Data(job'.src, l)
        <5>1. job'.tree = U /\ job'.src = job.src /\ job'.k = k + 1
          BY <2>7, <3>1
        <5> SUFFICES ASSUME NEW l \in 0..job'.k - 1
                     PROVE  /\ job'.tree[Path(l)] \in DOMAIN disk'
                            /\ disk'[job'.tree[Path(l)]] = Data(job'.src, l)
          OBVIOUS
        <5>2. l \in 0..k + 1 - 1
          <6> DEFINE m == job'.k
          <6>1. l \in 0..m - 1 /\ m = k + 1 /\ k \in Nat
            BY <2>1, <5>1
          <6> HIDE DEF m, k
          <6> QED
            BY <6>1
        <5>3. U[Path(l)] \in DOMAIN disk' /\ disk'[U[Path(l)]] = Data(job.src, l)
          BY <3>4, <5>2, Zenon
        <5> QED
          BY <5>1, <5>3, Zenon
      <4> QED
        BY <4>1, <4>2, <4>3, Zenon DEF DataOK
    <3> QED
      BY <1>1, <2>7, <2>8, <2>9, <3>6 DEF ImageInv, Unmade
  <2> QED
    BY <2>15, <2>16
<1> QED
  BY <1>3, <1>4, DataCases

\* update_inode at the end of write_file.
Filed(I, t, size, T, J) == J = [I EXCEPT ![t].size = size, ![t].tree = T]

\* The file is written: its inode gets its blocks.
LEMMA DiskFile ==
    ASSUME NEW I, NEW D, NEW u, NEW m, DiskOf(I, D, u, m),
           NEW t \in DOMAIN I, I[t].mode = "REG", NEW size \in Nat, NEW T,
           \A k \in DirBlocks(T) : T[Path(k)] \in DOMAIN D,
           NEW J, Filed(I, t, size, T, J)
    PROVE  /\ DiskOf(J, D, u, m) /\ DOMAIN J = DOMAIN I
           /\ J[t] = [mode |-> "REG", size |-> size, tree |-> T]
           /\ \A s \in DOMAIN I : s # t => J[s] = I[s]
<1>1. /\ \A s \in DOMAIN I : IsInode(I[s]) /\ I[s].mode \in {"DIR", "REG"} /\ I[s].size \in Nat
      /\ 1 \in DOMAIN I /\ I[1].mode = "DIR"
      /\ \A s \in DOMAIN I : \A l \in DirBlocks(I[s].tree) :
            /\ I[s].tree[Path(l)] \in DOMAIN D
            /\ I[s].mode = "DIR" => D[I[s].tree[Path(l)]].entries # <<>>
      /\ DOMAIN D \subseteq u + 1..m
      /\ \A c \in DOMAIN D : IsBlock(D[c]) /\ EntriesOK(I, D[c].entries)
  BY DEF DiskOf
<1>2. /\ DOMAIN J = DOMAIN I /\ \A s \in DOMAIN I : s # t => J[s] = I[s]
      /\ J[t] = [[I[t] EXCEPT !.size = size] EXCEPT !.tree = T]
  BY DEF Filed
<1>3. J[t] = [mode |-> "REG", size |-> size, tree |-> T]
  <2> DEFINE r == I[t]
  <2>1. r = [mode |-> r.mode, size |-> r.size, tree |-> r.tree] /\ r.mode = "REG"
    BY <1>1 DEF IsInode
  <2>2. J[t] = [[r EXCEPT !.size = size] EXCEPT !.tree = T]
    BY <1>2
  <2> HIDE DEF r
  <2> QED
    BY <2>1, <2>2
<1>4. J[t].mode = "REG" /\ J[t].size = size /\ J[t].tree = T /\ IsInode(J[t])
  BY <1>3 DEF IsInode
<1> HIDE DEF IsInode
<1>5. \A s \in DOMAIN J : IsInode(J[s]) /\ J[s].mode \in {"DIR", "REG"} /\ J[s].size \in Nat
  BY <1>1, <1>2, <1>4
<1>6. \A s \in DOMAIN I : J[s].mode = I[s].mode
  BY <1>2, <1>4
<1>7. \A s \in DOMAIN J : \A l \in DirBlocks(J[s].tree) :
          /\ J[s].tree[Path(l)] \in DOMAIN D
          /\ J[s].mode = "DIR" => D[J[s].tree[Path(l)]].entries # <<>>
  <2> SUFFICES ASSUME NEW s \in DOMAIN J, NEW l \in DirBlocks(J[s].tree)
               PROVE  /\ J[s].tree[Path(l)] \in DOMAIN D
                      /\ J[s].mode = "DIR" => D[J[s].tree[Path(l)]].entries # <<>>
    OBVIOUS
  <2>1. CASE s = t
    BY <1>4, <2>1
  <2>2. CASE s # t
    BY <1>1, <1>2, <2>2
  <2> QED
    BY <2>1, <2>2
<1>8. \A c \in DOMAIN D : IsBlock(D[c]) /\ EntriesOK(J, D[c].entries)
  <2> SUFFICES ASSUME NEW c \in DOMAIN D PROVE IsBlock(D[c]) /\ EntriesOK(J, D[c].entries)
    OBVIOUS
  <2>1. IsBlock(D[c]) /\ EntriesOK(I, D[c].entries) /\ DOMAIN I \subseteq DOMAIN J
    BY <1>1, <1>2
  <2>2. EntriesOK(J, D[c].entries)
    BY <1>6, <2>1, EntriesKept
  <2> QED
    BY <2>1, <2>2
<1>9. 1 \in DOMAIN J /\ J[1].mode = "DIR"
  BY <1>1, <1>2, <1>6
<1>10. DiskOf(J, D, u, m)
  BY <1>1, <1>5, <1>7, <1>8, <1>9, Zenon DEF DiskOf
<1> QED
  BY <1>2, <1>3, <1>10

\* write_file leaves the image in order.
LEMMA StepFile ==
    ASSUME ImageInv, write_file
    PROVE  /\ ImageInv' /\ DOMAIN inodes' = DOMAIN inodes
           /\ inodes'[job.ino] = [mode |-> "REG", size |-> job.size, tree |-> job.tree]
           /\ \A s \in DOMAIN inodes : s # job.ino => inodes'[s] = inodes[s]
<1>1. /\ pc = "data" /\ pc' = "idle" /\ job' = NoJob /\ disk' = disk
      /\ inodes' = [inodes EXCEPT ![job.ino].size = job.size, ![job.ino].tree = job.tree]
      /\ UNCHANGED <<super, maps>>
  BY DEF write_file
<1>2. ImageOK /\ JobOK /\ DataOK
  BY <1>1 DEF ImageInv, Unmade
<1> DEFINE t == job.ino
           T == job.tree
<1>3. t \in DOMAIN inodes /\ inodes[t] = NewFile /\ job.size \in Nat /\ job.k \in Nat
  BY <1>1, <1>2 DEF JobOK, Fresh
<1>4. inodes[t].mode = "REG" /\ inodes[t].tree = <<>>
  BY <1>3 DEF NewFile
<1>5. \A k \in DirBlocks(T) : T[Path(k)] \in DOMAIN disk
  <2> SUFFICES ASSUME NEW k \in DirBlocks(T) PROVE T[Path(k)] \in DOMAIN disk
    OBVIOUS
  <2>1. k \in 0..MaxBlocks - 1 /\ Path(k) \in DOMAIN T
    BY DEF DirBlocks
  <2>2. k < job.k
    BY <1>1, <1>2, <2>1 DEF DataOK
  <2>3. k \in 0..job.k - 1
    BY <1>3, <2>1, <2>2
  <2> QED
    BY <1>1, <1>2, <2>3 DEF DataOK
<1>6. DiskOf(inodes, disk, Meta, Taken)
  BY <1>2 DEF ImageOK, DiskOK
<1>7. /\ DiskOf(inodes', disk, Meta, Taken) /\ DOMAIN inodes' = DOMAIN inodes
      /\ inodes'[t] = [mode |-> "REG", size |-> job.size, tree |-> T]
      /\ \A s \in DOMAIN inodes : s # t => inodes'[s] = inodes[s]
  <2> DEFINE size == job.size
  <2>1. size \in Nat /\ Filed(inodes, t, size, T, inodes')
    BY <1>1, <1>3 DEF Filed
  <2> HIDE DEF t, T, size
  <2>2. /\ DiskOf(inodes', disk, Meta, Taken) /\ DOMAIN inodes' = DOMAIN inodes
        /\ inodes'[t] = [mode |-> "REG", size |-> size, tree |-> T]
        /\ \A s \in DOMAIN inodes : s # t => inodes'[s] = inodes[s]
    BY <1>3, <1>4, <1>5, <1>6, <2>1, DiskFile
  <2> QED
    BY <2>2 DEF size
<1>8. /\ s_blocks_count' = s_blocks_count /\ s_free_blocks_count' = s_free_blocks_count
      /\ s_free_inodes_count' = s_free_inodes_count
      /\ bg' = bg /\ block_bitmap' = block_bitmap /\ inode_bitmap' = inode_bitmap
  BY <1>1 DEF super, maps
<1>9. GroupNum' = GroupNum /\ Meta' = Meta
  BY <1>8 DEF GroupNum, Meta, used_blocks, inodes_table_blocks, Ceil
<1>10. \A g : used_blocks(g, GroupNum)' = used_blocks(g, GroupNum)
  BY <1>9 DEF used_blocks, inodes_table_blocks, Ceil
<1>11. \A g : blocks_of(g, s_blocks_count)' = blocks_of(g, s_blocks_count)
  BY <1>8 DEF blocks_of
<1>12. Taken' = Taken /\ InUse' = InUse
  BY <1>8, <1>11 DEF Taken, InUse
<1>13. Layout'
  BY <1>2, <1>7, <1>8, <1>9, <1>10, <1>11, <1>12 DEF Layout, ImageOK
<1>14. Sums'
  BY <1>2, <1>8, <1>9 DEF Sums, Groups, ImageOK
<1>15. DiskOK'
  BY <1>1, <1>7, <1>9, <1>12 DEF DiskOK
<1>16. AllOwned'
  <2>1. DOMAIN inodes = 1..InUse
    BY <1>2 DEF ImageOK, Layout
  <2>2. \A s \in DOMAIN inodes : s # 0
    BY <2>1
  <2>3. inodes'[t].tree = T /\ job'.tree = <<>>
    BY <1>1, <1>7, NoJobIs
  <2> HIDE DEF T
  <2>4. /\ DOMAIN Trees' = DOMAIN Trees /\ Trees'[t] = Trees[0] /\ Trees'[0] = <<>>
        /\ Trees[t] = <<>> /\ t \in DOMAIN Trees /\ 0 \in DOMAIN Trees /\ t # 0
    BY <1>3, <1>4, <1>7, <2>2, <2>3 DEF Trees, T
  <2>5. \A s \in DOMAIN Trees : s # 0 /\ s # t => Trees'[s] = Trees[s]
    BY <1>7 DEF Trees
  <2> DEFINE z == 0
  <2> HIDE DEF z, t
  <2>6. /\ z \in DOMAIN Trees /\ t \in DOMAIN Trees /\ z # t /\ DOMAIN Trees[t] = {}
        /\ Trees'[t] = Trees[z] /\ DOMAIN Trees'[z] = {}
        /\ \A s \in DOMAIN Trees : s # z /\ s # t => Trees'[s] = Trees[s]
    BY <2>4, <2>5 DEF z
  <2>7. Owned(Trees, Meta, Taken)
    BY <1>2 DEF ImageOK, AllOwned
  <2>8. Owned(Trees', Meta, Taken)
    BY <2>4, <2>6, <2>7, OwnedMove
  <2> QED
    BY <1>9, <1>12, <2>8 DEF AllOwned
<1>17. JobOK' /\ DataOK'
  BY <1>1, NoJobIs DEF JobOK, DataOK, Fresh
<1> QED
  BY <1>1, <1>7, <1>13, <1>14, <1>15, <1>16, <1>17 DEF ImageInv, ImageOK, Unmade

\* What mkfs makes of an image of N blocks.
MadeOf(N) ==
    LET root == used_blocks(0, Ceil(N, BLOCKS_PER_GROUP)) + SUPER_BLOCK_NO
    IN  /\ Blank(N)
        /\ inodes' = [ino \in {ROOT_INO} |->
              [mode |-> "DIR", size |-> BLOCK_SIZE, tree |-> [k \in {<<0>>} |-> root]]]
        /\ disk' = [b \in {root} |-> Dir(write_dir_entry(
              write_dir_entry(EmptyDir, ".", "DIR", ROOT_INO), "..", "DIR", ROOT_INO))]

\* mkfs exits or makes an image.
LEMMA MakeCases ==
    ASSUME mkfs
    PROVE  /\ pc = "start" /\ UNCHANGED <<job, copied, count>>
           /\ \/ pc' = "exit_mkfs" /\ UNCHANGED <<super, maps, inodes, disk>>
              \/ pc' = "idle" /\ \E N : MadeOf(N)
<1>1. pc = "start" /\ UNCHANGED <<job, copied, count>>
  BY DEF mkfs
<1>2. PICK size \in ImageSizes :
        LET block_num == size - 1
            n == Ceil(block_num, BLOCKS_PER_GROUP)
            used(g) == used_blocks(g, n)
            free(g) == blocks_of(g, block_num) - used(g)
            root == used(0) + SUPER_BLOCK_NO
            first(g) == IF g = 0 THEN 1 ELSE 0
        IN  IF n < 1 \/ \E g \in 0..n - 1 : free(g) <= 0
            THEN /\ pc' = "exit_mkfs"
                 /\ UNCHANGED <<super, maps, inodes, disk>>
            ELSE /\ pc' = "idle"
                 /\ s_blocks_count' = block_num
                 /\ s_free_blocks_count' = SumTo([g \in 0..n - 1 |-> free(g)], n) - 1
                 /\ s_free_inodes_count' = n * InodesPerGroup - 1
                 /\ bg' = [g \in 0..n - 1 |-> [free_blocks |-> free(g) - first(g),
                                               free_inodes |-> InodesPerGroup - first(g)]]
                 /\ block_bitmap' = [g \in 0..n - 1 |-> 0..used(g) - 1 + first(g)]
                 /\ inode_bitmap' = [g \in 0..n - 1 |-> 0..first(g) - 1]
                 /\ inodes' = [ino \in {ROOT_INO} |->
                        [mode |-> "DIR", size |-> BLOCK_SIZE, tree |-> [k \in {<<0>>} |-> root]]]
                 /\ disk' = [b \in {root} |-> Dir(write_dir_entry(
                        write_dir_entry(EmptyDir, ".", "DIR", ROOT_INO),
                        "..", "DIR", ROOT_INO))]
  BY Zenon DEF mkfs
<1> DEFINE N == size - 1
           n == Ceil(N, BLOCKS_PER_GROUP)
           free(g) == blocks_of(g, N) - used_blocks(g, n)
<1>3. CASE n < 1 \/ \E g \in 0..n - 1 : free(g) <= 0
  BY <1>1, <1>2, <1>3, Zenon
<1>4. CASE ~(n < 1 \/ \E g \in 0..n - 1 : free(g) <= 0)
  <2>1. N \in Nat /\ n \in Nat
    <3>1. N \in Nat
      BY OptionsAssumption
    <3> QED
      BY <3>1, GroupAssumption, CeilNat
  <2>2. ASSUME NEW g \in 0..n - 1 PROVE free(g) > 0
    <3>1. ~(free(g) <= 0)
      BY <1>4
    <3>2. g \in Nat
      BY <2>1
    <3>3. blocks_of(g, N) \in Int
      BY <2>1, <3>2, GroupAssumption DEF blocks_of
    <3>4. used_blocks(g, n) \in Nat
      BY <2>1, <3>2, UsedNat
    <3> DEFINE f == free(g)
    <3>5. f \in Int /\ ~(f <= 0)
      BY <3>1, <3>3, <3>4
    <3> HIDE DEF f
    <3>6. f > 0
      BY <3>5
    <3> QED
      BY <3>6 DEF f
  <2>3. n >= 1
    BY <1>4, <2>1
  <2>4. Blank(N)
    BY <1>2, <1>4, <2>1, <2>2, <2>3, Zenon DEF Blank
  <2>5. MadeOf(N) /\ pc' = "idle"
    BY <1>2, <1>4, <2>4, Zenon DEF MadeOf
  <2> QED
    BY <1>1, <2>5
<1> QED
  BY <1>3, <1>4

\* The root directory of a new image.
RootEntries ==
    write_dir_entry(write_dir_entry(EmptyDir, ".", "DIR", ROOT_INO), "..", "DIR", ROOT_INO)

\* Its entries.
LEMMA RootWritten ==
    \E s : Written(EmptyDir, s, ".", "DIR", 1) /\ Written(s, RootEntries, "..", "DIR", 1)
<1> DEFINE s == write_dir_entry(EmptyDir, ".", "DIR", ROOT_INO)
<1>1. "." \in DOMAIN NameLen /\ ".." \in DOMAIN NameLen /\ 1 \in Nat /\ "DIR" \in {"DIR", "REG"}
  BY NamesAssumption
<1>2. EmptyDir \in Seq(DirEntries) /\ EmptyDir # <<>> /\ Len(EmptyDir) = 1
  BY EmptyDirOK DEF EntriesOK
<1>3. ROOT_INO = 1
  BY DEF ROOT_INO
<1>4. Written(EmptyDir, s, ".", "DIR", 1)
  BY <1>1, <1>2, <1>3, WriteDirEntry, Zenon
<1>5. s \in Seq(DirEntries) /\ s # <<>>
  <2>1. s \in Seq(DirEntries) /\ Len(s) \in {Len(EmptyDir), Len(EmptyDir) + 1}
    BY <1>4, Zenon DEF Written
  <2> HIDE DEF s
  <2> QED
    BY <1>2, <2>1
<1>6. Written(s, write_dir_entry(s, "..", "DIR", ROOT_INO), "..", "DIR", 1)
  BY <1>1, <1>3, <1>5, WriteDirEntry, Zenon
<1> QED
  BY <1>4, <1>6, Zenon DEF RootEntries

\* A new image is in order.
LEMMA MakeImage ==
    ASSUME NEW N, MadeOf(N), job'.tree = <<>>
    PROVE  ImageOK'
<1> DEFINE root == used_blocks(0, Ceil(N, BLOCKS_PER_GROUP)) + 1
           T == [k \in {<<0>>} |-> root]
           r == [mode |-> "DIR", size |-> BLOCK_SIZE, tree |-> T]
           d == Dir(RootEntries)
<1>1. /\ Blank(N) /\ inodes' = [ino \in {1} |-> r] /\ disk' = [b \in {root} |-> d]
  BY Zenon DEF MadeOf, SUPER_BLOCK_NO, ROOT_INO, RootEntries
<1>2. DOMAIN inodes' = {1} /\ inodes'[1] = r /\ DOMAIN disk' = {root} /\ disk'[root] = d
  BY <1>1
<1>3. Layout' /\ Taken' = Meta' + 1 /\ Sums'
  BY <1>1, <1>2, BlankLayout, BlankSums
<1>4. Meta' + 1 = root
  <2>1. Meta' = used_blocks(0, Ceil(N, BLOCKS_PER_GROUP))
    BY <1>1, BlankNumbers, Zenon
  <2> QED
    BY <2>1
<1>5. Meta' \in Nat
  <2> DEFINE n == Ceil(N, BLOCKS_PER_GROUP)
  <2>1. /\ Meta' = used_blocks(0, n) /\ n \in Nat \ {0}
        /\ \A g \in 0..n - 1 : used_blocks(g, n) \in Nat
    BY <1>1, BlankNumbers, Zenon
  <2> HIDE DEF n
  <2> QED
    BY <2>1
<1> HIDE DEF root
<1>6. IsInode(r) /\ r.mode = "DIR" /\ r.size \in Nat /\ r.tree = T
  BY SizesAssumption DEF IsInode
<1> HIDE DEF r
<1>7. DOMAIN T = {<<0>>} /\ T[<<0>>] = root
  OBVIOUS
<1> HIDE DEF T
<1>8. AllOwned'
  <2>1. DOMAIN Trees' = {0, 1} /\ Trees'[0] = <<>> /\ Trees'[1] = T
    BY <1>2, <1>6 DEF Trees
  <2>2. Meta' + 1..Taken' = {root}
    BY <1>3, <1>4, <1>5
  <2>3. DOMAIN Trees'[0] = {}
    BY <2>1
  <2>4. \A t \in DOMAIN Trees' :
            \A a \in DOMAIN Trees'[t] : t = 1 /\ a = <<0>> /\ Trees'[t][a] = root
    BY <1>7, <2>1, <2>3
  <2>5. 1 \in DOMAIN Trees' /\ <<0>> \in DOMAIN Trees'[1] /\ Trees'[1][<<0>>] = root
    BY <1>7, <2>1
  <2>6. Owned(Trees', Meta', Taken')
    BY <2>2, <2>4, <2>5 DEF Owned
  <2> QED
    BY <2>6 DEF AllOwned
<1>9. DiskOK'
  <2> DEFINE w == RootEntries
  <2>1. d.entries = w /\ IsBlock(d)
    BY DEF Dir, IsBlock
  <2> HIDE DEF d
  <2>2. PICK s : Written(EmptyDir, s, ".", "DIR", 1) /\ Written(s, w, "..", "DIR", 1)
    BY RootWritten
  <2>3. EntriesOK(inodes', EmptyDir) /\ EmptyDir # <<>>
    BY EmptyDirOK
  <2>4. "." \in DOMAIN NameLen /\ ".." \in DOMAIN NameLen
    BY NamesAssumption
  <2>5. 1 \in DOMAIN inodes' /\ inodes'[1] = r /\ r.mode # "UNKNOWN"
    BY <1>2, <1>6
  <2> HIDE DEF w
  <2> DEFINE n == 1
             dot == "."
             dots == ".."
  <2>6. /\ n \in DOMAIN inodes' /\ inodes'[n] = r /\ Written(EmptyDir, s, dot, r.mode, n)
        /\ Written(s, w, dots, r.mode, n) /\ dot \in DOMAIN NameLen /\ dots \in DOMAIN NameLen
    BY <1>6, <2>2, <2>4, <2>5
  <2> HIDE DEF n, dot, dots
  <2>7. EntriesOK(inodes', s) /\ s # <<>>
    BY <2>3, <2>5, <2>6, WrittenOK
  <2>8. EntriesOK(inodes', w) /\ w # <<>>
    BY <2>5, <2>6, <2>7, WrittenOK
  <2>9. DirBlocks(T) \subseteq {0}
    <3> SUFFICES ASSUME NEW k \in DirBlocks(T) PROVE k = 0
      OBVIOUS
    <3>1. k \in Nat /\ 0 \in Nat /\ Path(k) = <<0>>
      BY <1>7, PointersPos DEF DirBlocks
    <3>2. Path(0) = <<0>>
      BY PathHead, PointersPos
    <3> QED
      BY <3>1, <3>2, PathInjective
  <2>10. \A k \in DirBlocks(T) : T[Path(k)] = root
    BY <1>7 DEF DirBlocks
  <2>11. root \in Meta' + 1..Taken'
    BY <1>3, <1>4, <1>5
  <2>12. DiskOf(inodes', disk', Meta', Taken')
    <3>1. \A t \in DOMAIN inodes' : /\ IsInode(inodes'[t]) /\ inodes'[t].mode \in {"DIR", "REG"}
                                    /\ inodes'[t].size \in Nat
      BY <1>2, <1>6
    <3>2. \A t \in DOMAIN inodes' : \A k \in DirBlocks(inodes'[t].tree) :
            /\ inodes'[t].tree[Path(k)] \in DOMAIN disk'
            /\ inodes'[t].mode = "DIR" => disk'[inodes'[t].tree[Path(k)]].entries # <<>>
      BY <1>2, <1>6, <2>1, <2>8, <2>10
    <3>3. \A b \in DOMAIN disk' : IsBlock(disk'[b]) /\ EntriesOK(inodes', disk'[b].entries)
      BY <1>2, <2>1, <2>8
    <3>4. /\ 1 \in DOMAIN inodes' /\ inodes'[1].mode = "DIR"
          /\ DOMAIN disk' \subseteq Meta' + 1..Taken'
      BY <1>2, <1>6, <2>11
    <3> QED
      BY <3>1, <3>2, <3>3, <3>4, Zenon DEF DiskOf
  <2> QED
    BY <2>12 DEF DiskOK
<1> QED
  BY <1>3, <1>8, <1>9 DEF ImageOK

\* mkfs leaves nothing or a new image.
LEMMA StepMake ==
    ASSUME ImageInv, mkfs
    PROVE  ImageInv'
<1>1. /\ pc = "start" /\ UNCHANGED <<job, copied, count>>
      /\ \/ pc' = "exit_mkfs" /\ UNCHANGED <<super, maps, inodes, disk>>
         \/ pc' = "idle" /\ \E N : MadeOf(N)
  BY MakeCases
<1>2. NothingYet
  BY <1>1 DEF ImageInv, Unmade
<1>3. CASE pc' = "exit_mkfs" /\ UNCHANGED <<super, maps, inodes, disk>>
  BY <1>1, <1>2, <1>3 DEF ImageInv, Unmade, NothingYet, super, maps
<1>4. ASSUME pc' = "idle", NEW N, MadeOf(N) PROVE ImageInv'
  <2>1. job' = NoJob
    BY <1>1, <1>2 DEF NothingYet
  <2>2. ImageOK'
    BY <1>4, <2>1, NoJobIs, MakeImage
  <2>3. JobOK' /\ DataOK'
    BY <1>4, <2>1, NoJobIs DEF JobOK, DataOK, Fresh
  <2> QED
    BY <1>4, <2>2, <2>3 DEF ImageInv, Unmade
<1> QED
  BY <1>1, <1>3, <1>4

\* The invariant of mkfs holds at first.
LEMMA ImageInit ==
    ASSUME MkfsInit
    PROVE  ImageInv
  BY DEF MkfsInit, ImageInv, Unmade, NothingYet

\* Every step keeps it.
LEMMA ImageStep ==
    ASSUME ImageInv, [Next]_vars
    PROVE  ImageInv'
<1>1. CASE mkfs
  BY <1>1, StepMake
<1>2. CASE copy_file
  BY <1>2, StepCopy
<1>3. CASE path_found
  BY <1>3, StepFound
<1>4. CASE write_entry_no_inode
  <2>1. pc = "path" /\ Exit("exit_inode")
    BY <1>4 DEF write_entry_no_inode, PathMissing
  <2> QED
    BY <2>1, StepExit DEF Unmade
<1>5. CASE write_entry_alloc
  BY <1>5, StepAlloc
<1>6. CASE write_entry
  BY <1>6, StepEntry
<1>7. CASE check_space
  BY <1>7, StepSpace
<1>8. CASE write_data
  BY <1>8, StepData
<1>9. CASE write_file
  BY <1>9, StepFile
<1>10. CASE cpfs_end
  BY <1>10, StepEnd
<1>11. CASE UNCHANGED mkfsVars
  <2>1. /\ UNCHANGED <<super, maps, inodes, disk>> /\ job' = job /\ pc' = pc /\ copied' = copied
    BY <1>11 DEF mkfsVars
  <2>2. CASE Unmade
    BY <2>1, <2>2 DEF ImageInv, Unmade, NothingYet, super, maps
  <2>3. CASE ~Unmade
    <3>1. ImageOK /\ JobOK /\ DataOK
      BY <2>3 DEF ImageInv
    <3>2. ImageOK'
      BY <2>1, <3>1, Still
    <3>3. JobOK' /\ DataOK'
      BY <2>1, <3>1 DEF JobOK, DataOK, Fresh, data_blocks
    <3> QED
      BY <2>1, <2>3, <3>2, <3>3 DEF ImageInv, Unmade
  <2> QED
    BY <2>2, <2>3
<1>12. \/ MkfsNext \/ UNCHANGED mkfsVars
  BY Zenon DEF Next, sys_open, sys_open_stale, vfs_open_panic, sys_close, sys_read, sys_read_panic,
         proc_clone, proc_exit, Stopped, vars
<1> QED
  BY <1>1, <1>2, <1>3, <1>4, <1>5, <1>6, <1>7, <1>8, <1>9, <1>10, <1>11, <1>12 DEF MkfsNext

\* The image is in order at every step of mkfs: every block taken has exactly one
\* owner, the counters are those of the bitmaps, and what is not yet linked to
\* an inode belongs to the copy under way.
THEOREM ImageInvariant == Spec => []ImageInv
<1>1. Init => ImageInv
  BY ImageInit DEF Init
<1>2. ImageInv /\ [Next]_vars => ImageInv'
  BY ImageStep
<1> QED
  BY <1>1, <1>2, PTL DEF Spec

-----------------------------------------------------------------------------
(* The file system check.                                                  *)

\* The number of the numbers below m.
LEMMA CardBelow ==
    ASSUME NEW m \in Nat
    PROVE  Cardinality(0..m - 1) = m
<1>1. 0 \in Int /\ m - 1 \in Int
  OBVIOUS
<1>2. Cardinality(0..m - 1) = IF 0 > m - 1 THEN 0 ELSE m - 1 - 0 + 1
  BY <1>1, FS_Interval
<1> QED
  BY <1>2

\* The pointers of the image, while no file is written, are those of Trees.
LEMMA PointersAre ==
    ASSUME ImageOK, job.tree = <<>>
    PROVE  /\ \A p \in Pointers : /\ p[1] \in DOMAIN Trees /\ p[2] \in DOMAIN Trees[p[1]]
                                  /\ Target(p) = Trees[p[1]][p[2]] /\ p = <<p[1], p[2]>>
           /\ \A t \in DOMAIN Trees : \A a \in DOMAIN Trees[t] :
                 <<t, a>> \in Pointers /\ Target(<<t, a>>) = Trees[t][a]
<1>1. \A t \in DOMAIN inodes : t # 0
  <2>1. DOMAIN inodes = 1..InUse
    BY DEF ImageOK, Layout
  <2> QED
    BY <2>1
<1>2. DOMAIN Trees = {0} \cup DOMAIN inodes /\ Trees[0] = <<>>
      /\ \A t \in DOMAIN inodes : Trees[t] = inodes[t].tree
  BY <1>1 DEF Trees
<1>3. ASSUME NEW p \in Pointers
      PROVE  /\ p[1] \in DOMAIN Trees /\ p[2] \in DOMAIN Trees[p[1]]
             /\ Target(p) = Trees[p[1]][p[2]] /\ p = <<p[1], p[2]>>
  <2>1. PICK t \in DOMAIN inodes : \E a \in DOMAIN inodes[t].tree : p = <<t, a>>
    BY DEF Pointers
  <2>2. PICK a \in DOMAIN inodes[t].tree : p = <<t, a>>
    BY <2>1
  <2>3. p[1] = t /\ p[2] = a
    BY <2>2
  <2> QED
    BY <1>2, <2>2, <2>3 DEF Target
<1>4. ASSUME NEW t \in DOMAIN Trees, NEW a \in DOMAIN Trees[t]
      PROVE  <<t, a>> \in Pointers /\ Target(<<t, a>>) = Trees[t][a]
  <2>1. t \in DOMAIN inodes
    BY <1>2
  <2>2. a \in DOMAIN inodes[t].tree
    BY <1>2, <2>1
  <2>3. <<t, a>> \in Pointers
    BY <2>1, <2>2 DEF Pointers
  <2> QED
    BY <1>2, <2>1, <2>3 DEF Target
<1> QED
  BY <1>3, <1>4

\* The blocks with pointers.
LEMMA TargetsAre ==
    ASSUME ImageOK, job.tree = <<>>
    PROVE  /\ \A p, q \in Pointers : p # q => Target(p) # Target(q)
           /\ \A p \in Pointers : Target(p) \in Meta + 1..Taken
           /\ \A x \in Meta + 1..Taken : \E p \in Pointers : Target(p) = x
<1>1. /\ \A p \in Pointers : /\ p[1] \in DOMAIN Trees /\ p[2] \in DOMAIN Trees[p[1]]
                             /\ Target(p) = Trees[p[1]][p[2]] /\ p = <<p[1], p[2]>>
      /\ \A t \in DOMAIN Trees : \A a \in DOMAIN Trees[t] :
                 <<t, a>> \in Pointers /\ Target(<<t, a>>) = Trees[t][a]
  BY PointersAre
<1>2. Owned(Trees, Meta, Taken)
  BY DEF ImageOK, AllOwned
<1>3. \A p \in Pointers : Target(p) \in Meta + 1..Taken
  BY <1>1, <1>2 DEF Owned
<1>4. ASSUME NEW p \in Pointers, NEW q \in Pointers, Target(p) = Target(q) PROVE p = q
  <2>1. p[1] = q[1] /\ p[2] = q[2]
    BY <1>1, <1>2, <1>4 DEF Owned
  <2> QED
    BY <1>1, <2>1
<1>5. ASSUME NEW x \in Meta + 1..Taken PROVE \E p \in Pointers : Target(p) = x
  <2>1. PICK t \in DOMAIN Trees : \E a \in DOMAIN Trees[t] : Trees[t][a] = x
    BY <1>2 DEF Owned
  <2>2. PICK a \in DOMAIN Trees[t] : Trees[t][a] = x
    BY <2>1
  <2>3. <<t, a>> \in Pointers /\ Target(<<t, a>>) = x
    BY <1>1, <2>2
  <2> QED
    BY <2>3, Zenon
<1> QED
  BY <1>3, <1>4, <1>5

\* What Fsck asks of group g.
FsckGroup(g) ==
    /\ \A i \in 0..BLOCKS_PER_GROUP - 1 : i \in block_bitmap[g] <=>
            IsMetadata(g, i) \/ \E p \in Pointers : Target(p) = BlockNo(g, i)
    /\ \A i \in block_bitmap[g] : BlockNo(g, i) <= s_blocks_count
    /\ bg[g].free_blocks = blocks_of(g, s_blocks_count) - Cardinality(block_bitmap[g])
    /\ {g * InodesPerGroup + i + 1 : i \in inode_bitmap[g]}
          = {n \in DOMAIN inodes : (n - 1) \div InodesPerGroup = g}
    /\ bg[g].free_inodes = InodesPerGroup - Cardinality(inode_bitmap[g])

\* The inodes are in the first group.
LEMMA InodeGroup ==
    ASSUME ImageOK, NEW n \in DOMAIN inodes
    PROVE  (n - 1) \div InodesPerGroup = 0 /\ (n - 1) % InodesPerGroup = n - 1 /\ n \in Nat
<1>1. DOMAIN inodes = 1..InUse /\ InUse \in 1..InodesPerGroup /\ InodesPerGroup \in Nat \ {0}
  BY FirstGroup DEF ImageOK, Layout
<1>2. n - 1 \in 0..InodesPerGroup - 1 /\ n \in Nat
  BY <1>1
<1> QED
  BY <1>1, <1>2, DivSmall

\* The first group.
LEMMA FsckFirst ==
    ASSUME ImageOK, job.tree = <<>>, Cardinality(Groups) = GroupNum
    PROVE  FsckGroup(0)
<1>1. /\ bg[0] \in [free_blocks : Nat, free_inodes : Nat]
      /\ BLOCKS_PER_GROUP \in Nat /\ InodesPerGroup \in Nat
      /\ blocks_of(0, s_blocks_count) \in Nat
      /\ blocks_of(0, s_blocks_count) <= s_blocks_count
      /\ Meta \in Nat /\ Meta >= 2 /\ Taken \in Nat /\ Meta < Taken
      /\ Taken <= blocks_of(0, s_blocks_count)
      /\ InUse \in 1..InodesPerGroup /\ s_blocks_count \in Nat
  BY FirstGroup DEF ImageOK, Layout
<1>2. /\ block_bitmap[0] = 0..Taken - 1 /\ inode_bitmap[0] = 0..InUse - 1
      /\ DOMAIN inodes = 1..InUse
  BY DEF ImageOK, Layout
<1>3. \A i \in Int : BlockNo(0, i) = i + 1
  BY <1>1 DEF BlockNo, SUPER_BLOCK_NO
<1>4. \A i : IsMetadata(0, i) <=> i < Meta
  BY DEF IsMetadata, Meta
<1>5. ASSUME NEW i \in 0..BLOCKS_PER_GROUP - 1
      PROVE  i \in block_bitmap[0] <=>
                IsMetadata(0, i) \/ \E p \in Pointers : Target(p) = BlockNo(0, i)
  <2>1. i \in Nat
    BY <1>1
  <2>2. i \in block_bitmap[0] <=> i < Taken
    BY <1>1, <1>2, <2>1
  <2>3. (\E p \in Pointers : Target(p) = BlockNo(0, i)) <=> i + 1 \in Meta + 1..Taken
    BY <1>3, <2>1, TargetsAre
  <2>4. i < Taken <=> i < Meta \/ i + 1 \in Meta + 1..Taken
    BY <1>1, <2>1
  <2> QED
    BY <1>4, <2>2, <2>3, <2>4
<1>6. \A i \in block_bitmap[0] : BlockNo(0, i) <= s_blocks_count
  BY <1>1, <1>2, <1>3, SMTT(30)
<1>7. bg[0].free_blocks = blocks_of(0, s_blocks_count) - Cardinality(block_bitmap[0])
  <2>1. Cardinality(block_bitmap[0]) = Taken
    BY <1>1, <1>2, CardBelow
  <2> QED
    BY <1>1, <2>1 DEF Taken
<1>8. {0 * InodesPerGroup + i + 1 : i \in inode_bitmap[0]}
        = {n \in DOMAIN inodes : (n - 1) \div InodesPerGroup = 0}
  <2>1. {n \in DOMAIN inodes : (n - 1) \div InodesPerGroup = 0} = 1..InUse
    BY <1>2, InodeGroup
  <2>2. \A i \in 0..InUse - 1 : 0 * InodesPerGroup + i + 1 = i + 1
    BY <1>1
  <2>3. {0 * InodesPerGroup + i + 1 : i \in 0..InUse - 1} = {i + 1 : i \in 0..InUse - 1}
    BY <2>2
  <2>4. {i + 1 : i \in 0..InUse - 1} = 1..InUse
    <3>1. \A n \in 1..InUse : n - 1 \in 0..InUse - 1 /\ n = (n - 1) + 1
      BY <1>1
    <3>2. \A i \in 0..InUse - 1 : i + 1 \in 1..InUse
      BY <1>1
    <3> QED
      BY <3>1, <3>2
  <2> QED
    BY <1>2, <2>1, <2>3, <2>4
<1>9. bg[0].free_inodes = InodesPerGroup - Cardinality(inode_bitmap[0])
  <2>1. Cardinality(inode_bitmap[0]) = InUse
    BY <1>1, <1>2, CardBelow
  <2> QED
    BY <1>1, <2>1 DEF InUse
<1> QED
  BY <1>5, <1>6, <1>7, <1>8, <1>9, Zenon DEF FsckGroup

\* The other groups: nothing but metadata.
LEMMA FsckOther ==
    ASSUME ImageOK, job.tree = <<>>, Cardinality(Groups) = GroupNum, NEW g \in 1..GroupNum - 1
    PROVE  FsckGroup(g)
<1> DEFINE B == BLOCKS_PER_GROUP
           N == s_blocks_count
           used == used_blocks(g, GroupNum)
           size == blocks_of(g, N)
<1>1. /\ B \in Nat \ {0} /\ InodesPerGroup \in Nat /\ N \in Nat /\ GroupNum \in Nat
      /\ Meta \in Nat /\ Taken \in Nat /\ Taken <= B
  <2>1. blocks_of(0, N) \in Nat /\ blocks_of(0, N) <= B /\ Taken <= blocks_of(0, N)
        /\ Meta \in Nat /\ Taken \in Nat /\ GroupNum \in Nat
    BY FirstGroup DEF ImageOK
  <2> QED
    BY <2>1, GroupAssumption, OptionsAssumption DEF ImageOK, Layout
<1>2. /\ block_bitmap[g] = 0..used - 1 /\ bg[g].free_blocks = size - used
      /\ inode_bitmap[g] = {} /\ bg[g].free_inodes = InodesPerGroup
  BY DEF ImageOK, Layout
<1>3. g \in Nat /\ g >= 1 /\ g \in 0..GroupNum - 1
  BY <1>1
<1>4. used < size
  BY <1>3 DEF ImageOK, Layout
<1>5. used \in Nat
  BY <1>1, <1>3, UsedNat
<1>6. g * B \in Nat /\ g * B >= B
  BY <1>1, <1>3
<1> DEFINE gB == g * B
<1>7. size \in Int /\ size <= B /\ size <= N - gB
  BY <1>1, <1>6 DEF blocks_of
<1>8. \A i : BlockNo(g, i) = gB + i + 1
  BY DEF BlockNo, SUPER_BLOCK_NO
<1>9. \A i : IsMetadata(g, i) <=> i < used
  BY DEF IsMetadata
<1>10. gB \in Nat /\ gB >= B
  BY <1>6
<1> HIDE DEF used, size, gB, B, N
<1>11. ASSUME NEW i \in 0..B - 1
       PROVE  i \in block_bitmap[g] <=>
                IsMetadata(g, i) \/ \E p \in Pointers : Target(p) = BlockNo(g, i)
  <2>1. i \in Nat
    BY <1>1
  <2>2. i \in block_bitmap[g] <=> i < used
    BY <1>2, <1>5, <2>1
  <2>3. gB + i + 1 \notin Meta + 1..Taken
    BY <1>1, <1>10, <2>1
  <2>4. ~\E p \in Pointers : Target(p) = BlockNo(g, i)
    BY <1>8, <2>3, TargetsAre
  <2> QED
    BY <1>9, <2>2, <2>4
<1>12. \A i \in block_bitmap[g] : BlockNo(g, i) <= N
  <2> SUFFICES ASSUME NEW i \in 0..used - 1 PROVE gB + i + 1 <= N
    BY <1>2, <1>8
  <2> QED
    BY <1>1, <1>4, <1>5, <1>7, <1>10
<1>13. bg[g].free_blocks = size - Cardinality(block_bitmap[g])
  BY <1>2, <1>5, CardBelow
<1>14. {g * InodesPerGroup + i + 1 : i \in inode_bitmap[g]}
          = {n \in DOMAIN inodes : (n - 1) \div InodesPerGroup = g}
  <2>1. \A n \in DOMAIN inodes : (n - 1) \div InodesPerGroup # g
    BY <1>3, InodeGroup
  <2> QED
    BY <1>2, <2>1
<1>15. bg[g].free_inodes = InodesPerGroup - Cardinality(inode_bitmap[g])
  <2>1. Cardinality(inode_bitmap[g]) = 0
    BY <1>2, FS_EmptySet
  <2> QED
    BY <1>1, <1>2, <2>1
<1> QED
  BY <1>11, <1>12, <1>13, <1>14, <1>15, Zenon DEF FsckGroup, B, N, size

\* The number of groups.
LEMMA GroupsCount ==
    ASSUME Layout
    PROVE  Cardinality(Groups) = GroupNum
<1>1. Groups = 0..GroupNum - 1 /\ GroupNum \in Nat
  BY DEF Layout, Groups
<1> QED
  BY <1>1, CardBelow

\* The invariant is enough for Fsck.
LEMMA FsckFollows ==
    ASSUME ImageInv
    PROVE  Fsck
<1> SUFFICES ASSUME pc \in {"idle", "done"} PROVE Fsck
  BY DEF Fsck
<1>1. ImageOK /\ JobOK /\ job = NoJob
  BY DEF ImageInv, Unmade, JobOK
<1>2. job.tree = <<>>
  BY <1>1, NoJobIs
<1>3. Cardinality(Groups) = GroupNum /\ Groups = 0..GroupNum - 1 /\ GroupNum \in Nat
  BY <1>1, GroupsCount DEF ImageOK, Layout, Groups
<1>4. ASSUME NEW g \in Groups PROVE FsckGroup(g)
  <2>1. CASE g = 0
    BY <1>1, <1>2, <1>3, <2>1, FsckFirst
  <2>2. CASE g # 0
    <3>1. g \in 1..GroupNum - 1
      BY <1>3, <2>2
    <3> QED
      BY <1>1, <1>2, <1>3, <3>1, FsckOther
  <2> QED
    BY <2>1, <2>2
<1>5. \A p, q \in Pointers : p # q => Target(p) # Target(q)
  BY <1>1, <1>2, TargetsAre
<1>6. /\ s_free_blocks_count = SumTo([g \in Groups |-> bg[g].free_blocks], Cardinality(Groups))
      /\ s_free_inodes_count = SumTo([g \in Groups |-> bg[g].free_inodes], Cardinality(Groups))
  BY <1>1, <1>3 DEF ImageOK, Sums
<1> QED
  BY <1>4, <1>5, <1>6, Zenon DEF Fsck, FsckGroup

\* Whatever is copied, and whatever copies fail, what mkfs leaves passes a file
\* system check: the bitmaps, the pointers and the counters agree.
THEOREM FsckInvariant == Spec => []Fsck
<1>1. ImageInv => Fsck
  BY FsckFollows
<1> QED
  BY <1>1, ImageInvariant, PTL

-----------------------------------------------------------------------------
(* Directories and files.                                                  *)

\* The entries s, or the directory with the tree T on the disk D, say that n is t.
InBlock(s, n, t) == \E i \in 1..Len(s) : Real(s[i]) /\ s[i].name = n /\ s[i].inode = t
InDir(D, T, n, t) == \E k \in DirBlocks(T) : InBlock(D[T[Path(k)]].entries, n, t)

\* The inode t has the size and the data of the copy c.
Holds(I, D, c, t) ==
    /\ I[t].mode = "REG" /\ I[t].size = c.size
    /\ \A k \in 0..Ceil(c.size, BLOCK_SIZE) - 1 :
         /\ Path(k) \in DOMAIN I[t].tree /\ I[t].tree[Path(k)] \in DOMAIN D
         /\ D[I[t].tree[Path(k)]] = Data(c.src, k)

\* Blocks are added to a directory in order, with the pointers that lead to them.
Filled(T) == \A k \in DirBlocks(T) : \A j \in 0..k : Missing(T, j) = {}

\* In a directory no name is there twice, and no file has two names.
OneName(D, T) ==
    \A m, n, s, t : InDir(D, T, m, s) /\ InDir(D, T, n, t) =>
        (m = n => s = t) /\ (s = t /\ t # 1 => m = n)

\* The root is the only directory, and has every copy under its name.  P has the
\* name and the inode of a file that is being written.
RootOf(I, D, C, P) ==
    LET T == I[1].tree IN
    /\ \A t \in DOMAIN I : I[t].mode = "DIR" => t = 1
    /\ Filled(T) /\ OneName(D, T)
    /\ \A c \in C : \E t \in DOMAIN I : /\ InDir(D, T, c.path[1], t) /\ Holds(I, D, c, t)
                                        /\ \A p \in P : p[2] # t
    /\ \A t \in DOMAIN I : I[t].mode = "REG" /\ I[t].size # 0 =>
          \E c \in C : InDir(D, T, c.path[1], t) /\ Holds(I, D, c, t)
    /\ \A p \in P : InDir(D, T, p[1], p[2])

Pending == IF Fresh THEN {<<job.path[1], job.ino>>} ELSE {}
CopiesOK == \A c \in copied : c.path \in Seq(DOMAIN NameLen) /\ Len(c.path) = 1 /\ c.size \in Nat
RootOK == RootOf(inodes, disk, copied, Pending)

\* A copy that makes a directory goes on from one empty directory to the next; it
\* ends when mkfs exits.
Lost == pc = "path" /\ job.name # 0 /\ job.ino # 1
LostOK == Len(job.path) > 1 /\ \A n, t : ~InDir(disk, inodes[job.ino].tree, n, t)

RootInv ==
    /\ CopiesOK
    /\ pc \in {"idle", "path", "data", "done"} => IF Lost THEN LostOK ELSE RootOK

\* An empty directory.
LEMMA InDirEmpty ==
    ASSUME NEW D, NEW T, T = <<>>
    PROVE  \A n, t : ~InDir(D, T, n, t)
<1>1. DirBlocks(T) = {}
  BY DEF DirBlocks
<1> QED
  BY <1>1 DEF InDir

\* A directory whose blocks are as they were.
LEMMA InDirSame ==
    ASSUME NEW D, NEW E, NEW T, \A k \in DirBlocks(T) : T[Path(k)] \in DOMAIN D,
           \A b \in DOMAIN D : E[b] = D[b]
    PROVE  \A n, t : InDir(E, T, n, t) <=> InDir(D, T, n, t)
  BY DEF InDir

\* A directory with one more block or pointer.
LEMMA InDirGrow ==
    ASSUME NEW D, NEW T, NEW k \in 0..MaxBlocks - 1, Missing(T, k) # {}, NEW b, b \notin DOMAIN D,
           \A l \in DirBlocks(T) : T[Path(l)] \in DOMAIN D,
           NEW U, U = Put(T, Node(T, k), b),
           NEW E, E = IF Last(T, k) THEN Put(D, b, Dir(EmptyDir)) ELSE D
    PROVE  \A n, t : InDir(E, U, n, t) <=> InDir(D, T, n, t)
<1>1. /\ DirBlocks(U) = IF Last(T, k) THEN DirBlocks(T) \cup {k} ELSE DirBlocks(T)
      /\ \A l \in DirBlocks(T) : U[Path(l)] = T[Path(l)]
      /\ Last(T, k) => U[Path(k)] = b
  BY TreeLeaf
<1>2. \A c \in DOMAIN D : E[c] = D[c]
  BY DEF Put
<1>3. Last(T, k) => E[b].entries = EmptyDir
  BY DEF Put, Dir
<1>4. \A l \in DirBlocks(T) : E[U[Path(l)]].entries = D[T[Path(l)]].entries
  BY <1>1, <1>2
<1>5. \A n, t : ~InBlock(EmptyDir, n, t)
  <2>1. Len(EmptyDir) = 1 /\ ~Real(EmptyDir[1])
    BY EmptyDirOK
  <2> QED
    BY <2>1 DEF InBlock
<1>6. Last(T, k) => \A n, t : ~InBlock(E[U[Path(k)]].entries, n, t)
  BY <1>1, <1>3, <1>5
<1> QED
  BY <1>1, <1>4, <1>6 DEF InDir

\* The tree of a directory grows in order.
LEMMA FilledGrow ==
    ASSUME NEW T, Filled(T), NEW k \in 0..MaxBlocks - 1, Missing(T, k) # {}, NEW b,
           \A j \in 0..k - 1 : Missing(T, j) = {}, NEW U, U = Put(T, Node(T, k), b)
    PROVE  Filled(U)
<1>1. MaxBlocks \in Nat /\ k \in Nat
  BY PointersPos
<1>2. Grown(T, k, U)
  BY <1>1, Grow
<1>3. DirBlocks(U) = IF Last(T, k) THEN DirBlocks(T) \cup {k} ELSE DirBlocks(T)
  BY TreeLeaf
<1>4. \A l \in Nat : Missing(T, l) = {} => Missing(U, l) = {}
  BY <1>2 DEF Grown
<1>5. Last(T, k) => Missing(U, k) = {}
  BY <1>2 DEF Grown
<1> SUFFICES ASSUME NEW l \in DirBlocks(U), NEW j \in 0..l PROVE Missing(U, j) = {}
  BY DEF Filled
<1>6. l \in Nat /\ j \in Nat
  BY <1>1 DEF DirBlocks
<1>7. CASE l \in DirBlocks(T)
  BY <1>4, <1>6, <1>7 DEF Filled
<1>8. CASE l = k /\ Last(T, k)
  <2>1. j = k \/ j \in 0..k - 1
    BY <1>1, <1>6, <1>8
  <2> QED
    BY <1>4, <1>5, <1>6, <1>8, <2>1
<1> QED
  BY <1>3, <1>7, <1>8

\* write_dir_entry adds one name to a block.
LEMMA InBlockWritten ==
    ASSUME NEW s \in Seq(DirEntries), s # <<>>, ~Real(s[Len(s)]), NEW w, NEW name, NEW ino,
           NEW type \in {"DIR", "REG"}, Written(s, w, name, type, ino)
    PROVE  \A n, t : InBlock(w, n, t) <=> InBlock(s, n, t) \/ (n = name /\ t = ino)
<1> DEFINE m == Len(s)
<1>1. m \in Nat /\ m > 0
  OBVIOUS
<1>2. Len(w) \in {m, m + 1} /\ \A i \in 1..m - 1 : w[i] = s[i]
  BY DEF Written
<1>3. w[m].name = name /\ w[m].inode = ino /\ Real(w[m])
  BY DEF Written, Real
<1>4. Len(w) = m + 1 => ~Real(w[m + 1])
  BY DEF Written, Real
<1>5. ~Real(s[m])
  OBVIOUS
<1> HIDE DEF m
<1> SUFFICES ASSUME NEW n, NEW t
             PROVE  InBlock(w, n, t) <=> InBlock(s, n, t) \/ (n = name /\ t = ino)
  OBVIOUS
<1>6. ASSUME InBlock(w, n, t) PROVE InBlock(s, n, t) \/ (n = name /\ t = ino)
  <2>1. PICK i \in 1..Len(w) : Real(w[i]) /\ w[i].name = n /\ w[i].inode = t
    BY <1>6 DEF InBlock
  <2>2. i \in 1..m - 1 \/ i = m \/ (i = m + 1 /\ Len(w) = m + 1)
    BY <1>1, <1>2
  <2>3. i \in 1..m - 1 => i \in 1..Len(s)
    BY <1>1 DEF m
  <2> QED
    BY <1>2, <1>3, <1>4, <2>1, <2>2, <2>3 DEF InBlock
<1>7. ASSUME InBlock(s, n, t) PROVE InBlock(w, n, t)
  <2>1. PICK i \in 1..m : Real(s[i]) /\ s[i].name = n /\ s[i].inode = t
    BY <1>7 DEF InBlock, m
  <2>2. i \in 1..m - 1
    BY <1>1, <1>5, <2>1
  <2>3. i \in 1..Len(w)
    BY <1>1, <1>2, <2>2
  <2> QED
    BY <1>2, <2>1, <2>2, <2>3 DEF InBlock
<1>8. ASSUME n = name, t = ino PROVE InBlock(w, n, t)
  <2>1. m \in 1..Len(w)
    BY <1>1, <1>2
  <2> QED
    BY <1>3, <1>8, <2>1 DEF InBlock
<1> QED
  BY <1>6, <1>7, <1>8

\* The entries s, or the directory with the tree T, and one more entry.
OneMoreIn(w, s, name, ino) ==
    \A n, t : InBlock(w, n, t) <=> InBlock(s, n, t) \/ (n = name /\ t = ino)
OneMoreInDir(E, D, T, name, ino) ==
    \A n, t : InDir(E, T, n, t) <=> InDir(D, T, n, t) \/ (n = name /\ t = ino)

\* A directory with one more entry in one of its blocks.
LEMMA InDirWrite ==
    ASSUME NEW D, NEW T, \A k \in DirBlocks(T) : T[Path(k)] \in DOMAIN D,
           NEW b, \E l \in DirBlocks(T) : b = T[Path(l)], IsBlock(D[b]), NEW w, NEW name, NEW ino,
           OneMoreIn(w, D[b].entries, name, ino), NEW E, Rewritten(D, b, w, E)
    PROVE  OneMoreInDir(E, D, T, name, ino)
<1>1. b \in DOMAIN D
  OBVIOUS
<1>2. (\A c \in DOMAIN D : c # b => E[c] = D[c]) /\ E[b].entries = w
  BY <1>1, BlockEntries
<1> HIDE DEF InBlock
<1> SUFFICES ASSUME NEW n, NEW t
             PROVE  InDir(E, T, n, t) <=> InDir(D, T, n, t) \/ (n = name /\ t = ino)
  BY DEF OneMoreInDir
<1>3. InBlock(E[b].entries, n, t) <=> InBlock(D[b].entries, n, t) \/ (n = name /\ t = ino)
  BY <1>2 DEF OneMoreIn
<1>4. \A k \in DirBlocks(T) : T[Path(k)] # b => E[T[Path(k)]] = D[T[Path(k)]]
  BY <1>2
<1>5. ASSUME InDir(E, T, n, t) PROVE InDir(D, T, n, t) \/ (n = name /\ t = ino)
  <2>1. PICK k \in DirBlocks(T) : InBlock(E[T[Path(k)]].entries, n, t)
    BY <1>5 DEF InDir
  <2> QED
    BY <1>3, <1>4, <2>1 DEF InDir
<1>6. ASSUME InDir(D, T, n, t) PROVE InDir(E, T, n, t)
  <2>1. PICK k \in DirBlocks(T) : InBlock(D[T[Path(k)]].entries, n, t)
    BY <1>6 DEF InDir
  <2> QED
    BY <1>3, <1>4, <2>1 DEF InDir
<1>7. n = name /\ t = ino => InDir(E, T, n, t)
  BY <1>3 DEF InDir
<1> QED
  BY <1>5, <1>6, <1>7

\* A file is what it was as long as its inode and its data blocks are.
LEMMA HoldsKept ==
    ASSUME NEW I, NEW J, NEW D, NEW E, NEW t, J[t] = I[t],
           \A b \in DOMAIN D : b \in DOMAIN E /\ (D[b].entries = <<>> => E[b] = D[b])
    PROVE  \A c : Holds(I, D, c, t) => Holds(J, E, c, t)
<1> SUFFICES ASSUME NEW c, Holds(I, D, c, t) PROVE Holds(J, E, c, t)
  OBVIOUS
<1>1. \A src, k : Data(src, k).entries = <<>>
  BY DEF Data
<1> HIDE DEF Data
<1> QED
  BY <1>1 DEF Holds

\* The root of an image with the same names and files.
LEMMA RootKept ==
    ASSUME NEW I, NEW D, NEW C, NEW P, RootOf(I, D, C, P), NEW J, NEW E,
           DOMAIN J = DOMAIN I,
           \A t \in DOMAIN I : J[t].mode = I[t].mode /\ J[t].size = I[t].size,
           Filled(J[1].tree),
           \A n, t : InDir(E, J[1].tree, n, t) <=> InDir(D, I[1].tree, n, t),
           \A t \in DOMAIN I : \A c : Holds(I, D, c, t) => Holds(J, E, c, t),
           NEW Q, Q = P \/ Q = {}
    PROVE  RootOf(J, E, C, Q)
<1> DEFINE T == I[1].tree
           U == J[1].tree
<1>1. \A t \in DOMAIN J : J[t].mode = "DIR" => t = 1
  BY DEF RootOf
<1>2. OneName(E, U)
  <2>1. OneName(D, T)
    BY DEF RootOf
  <2> QED
    BY <2>1 DEF OneName
<1>3. ASSUME NEW c \in C
      PROVE  \E t \in DOMAIN J : /\ InDir(E, U, c.path[1], t) /\ Holds(J, E, c, t)
                                 /\ \A p \in Q : p[2] # t
  <2>1. PICK t \in DOMAIN I : /\ InDir(D, T, c.path[1], t) /\ Holds(I, D, c, t)
                              /\ \A p \in P : p[2] # t
    BY Zenon DEF RootOf
  <2>2. \A p \in Q : p[2] # t
    BY <2>1
  <2> QED
    BY <2>1, <2>2, Zenon
<1>4. ASSUME NEW t \in DOMAIN J, J[t].mode = "REG", J[t].size # 0
      PROVE  \E c \in C : InDir(E, U, c.path[1], t) /\ Holds(J, E, c, t)
  <2>1. I[t].mode = "REG" /\ I[t].size # 0 /\ t \in DOMAIN I
    BY <1>4
  <2>2. PICK c \in C : InDir(D, T, c.path[1], t) /\ Holds(I, D, c, t)
    BY <2>1, Zenon DEF RootOf
  <2> QED
    BY <2>1, <2>2, Zenon
<1>5. \A p \in Q : InDir(E, U, p[1], p[2])
  <2>1. \A p \in P : InDir(D, T, p[1], p[2])
    BY Zenon DEF RootOf
  <2> QED
    BY <2>1
<1> QED
  BY <1>1, <1>2, <1>3, <1>4, <1>5, Zenon DEF RootOf

\* The root with a name and a new inode.
LEMMA RootNamed ==
    ASSUME NEW I, NEW D, NEW C, RootOf(I, D, C, {}), 1 \in DOMAIN I,
           NEW ino, ino \notin DOMAIN I, NEW J, J = Put(I, ino, NewFile), NEW name, NEW E,
           \A n, t : InDir(D, I[1].tree, n, t) => t \in DOMAIN I /\ n # name,
           \A n, t : InDir(E, I[1].tree, n, t) <=> InDir(D, I[1].tree, n, t) \/ (n = name /\ t = ino),
           \A t \in DOMAIN I : \A c : Holds(I, D, c, t) => Holds(J, E, c, t)
    PROVE  RootOf(J, E, C, {<<name, ino>>})
<1> DEFINE T == I[1].tree
<1>1. /\ DOMAIN J = DOMAIN I \cup {ino} /\ J[ino] = NewFile
      /\ \A t \in DOMAIN I : J[t] = I[t] /\ t # ino
  BY DEF Put
<1>2. NewFile.mode = "REG" /\ NewFile.size = 0
  BY DEF NewFile
<1>3. J[1].tree = T /\ ino # 1
  BY <1>1
<1>4. \A t \in DOMAIN J : J[t].mode = "DIR" => t = 1
  <2>1. \A t \in DOMAIN I : I[t].mode = "DIR" => t = 1
    BY Zenon DEF RootOf
  <2> QED
    BY <1>1, <1>2, <2>1
<1>5. Filled(T)
  BY Zenon DEF RootOf
<1>6. OneName(E, T)
  <2>1. OneName(D, T)
    BY Zenon DEF RootOf
  <2> SUFFICES ASSUME NEW m, NEW n, NEW s, NEW t, InDir(E, T, m, s), InDir(E, T, n, t)
               PROVE  (m = n => s = t) /\ (s = t /\ t # 1 => m = n)
    BY DEF OneName
  <2>2. InDir(D, T, m, s) \/ (m = name /\ s = ino)
    BY Zenon
  <2>3. InDir(D, T, n, t) \/ (n = name /\ t = ino)
    BY Zenon
  <2>4. InDir(D, T, m, s) => s # ino /\ m # name
    BY Zenon
  <2>5. InDir(D, T, n, t) => t # ino /\ n # name
    BY Zenon
  <2>6. InDir(D, T, m, s) /\ InDir(D, T, n, t) => (m = n => s = t) /\ (s = t /\ t # 1 => m = n)
    BY <2>1 DEF OneName
  <2> QED
    BY <2>2, <2>3, <2>4, <2>5, <2>6
<1>7. ASSUME NEW c \in C
      PROVE  \E t \in DOMAIN J : /\ InDir(E, T, c.path[1], t) /\ Holds(J, E, c, t)
                                 /\ \A p \in {<<name, ino>>} : p[2] # t
  <2>1. PICK t \in DOMAIN I : InDir(D, T, c.path[1], t) /\ Holds(I, D, c, t)
    BY Zenon DEF RootOf
  <2>2. InDir(E, T, c.path[1], t) /\ Holds(J, E, c, t)
    BY <2>1, Zenon
  <2>3. \A p \in {<<name, ino>>} : p[2] # t
    BY <1>1
  <2> QED
    BY <1>1, <2>2, <2>3
<1>8. ASSUME NEW t \in DOMAIN J, J[t].mode = "REG", J[t].size # 0
      PROVE  \E c \in C : InDir(E, T, c.path[1], t) /\ Holds(J, E, c, t)
  <2>1. I[t].mode = "REG" /\ I[t].size # 0 /\ t \in DOMAIN I
    BY <1>1, <1>2, <1>8
  <2>2. PICK c \in C : InDir(D, T, c.path[1], t) /\ Holds(I, D, c, t)
    BY <2>1, Zenon DEF RootOf
  <2> QED
    BY <2>1, <2>2, Zenon
<1>9. \A p \in {<<name, ino>>} : InDir(E, T, p[1], p[2])
  <2>1. InDir(E, T, name, ino)
    BY Zenon
  <2> QED
    BY <2>1
<1> QED
  BY <1>3, <1>4, <1>5, <1>6, <1>7, <1>8, <1>9 DEF RootOf

\* The root when the file that was being written is there.
LEMMA RootFiled ==
    ASSUME NEW I, NEW D, NEW C, NEW name, NEW ino \in DOMAIN I,
           RootOf(I, D, C, {<<name, ino>>}), ino # 1, NEW J, DOMAIN J = DOMAIN I,
           \A t \in DOMAIN I : t # ino => J[t] = I[t], 1 \in DOMAIN I,
           NEW c, c.path[1] = name, Holds(J, D, c, ino)
    PROVE  RootOf(J, D, C \cup {c}, {})
<1> DEFINE T == I[1].tree
<1>1. J[1].tree = T
  OBVIOUS
<1>2. J[ino].mode = "REG"
  BY DEF Holds
<1>3. \A t \in DOMAIN J : J[t].mode = "DIR" => t = 1
  <2>1. \A t \in DOMAIN I : I[t].mode = "DIR" => t = 1
    BY Zenon DEF RootOf
  <2> QED
    BY <1>2, <2>1
<1>4. Filled(T) /\ OneName(D, T)
  BY Zenon DEF RootOf
<1>5. \A t \in DOMAIN I : t # ino => \A d : Holds(I, D, d, t) => Holds(J, D, d, t)
  BY DEF Holds
<1>6. InDir(D, T, c.path[1], ino)
  <2>1. \A p \in {<<name, ino>>} : InDir(D, T, p[1], p[2])
    BY Zenon DEF RootOf
  <2> QED
    BY <2>1
<1>7. ASSUME NEW d \in C
      PROVE  \E t \in DOMAIN J : InDir(D, T, d.path[1], t) /\ Holds(J, D, d, t)
  <2>1. PICK t \in DOMAIN I : /\ InDir(D, T, d.path[1], t) /\ Holds(I, D, d, t)
                              /\ \A p \in {<<name, ino>>} : p[2] # t
    BY Zenon DEF RootOf
  <2>2. t # ino
    BY <2>1
  <2> QED
    BY <1>5, <2>1, <2>2, Zenon
<1>8. \A d \in C \cup {c} : \E t \in DOMAIN J : /\ InDir(D, T, d.path[1], t) /\ Holds(J, D, d, t)
                                              /\ \A p \in {} : p[2] # t
  BY <1>6, <1>7
<1>9. ASSUME NEW t \in DOMAIN J, J[t].mode = "REG", J[t].size # 0
      PROVE  \E d \in C \cup {c} : InDir(D, T, d.path[1], t) /\ Holds(J, D, d, t)
  <2>1. CASE t = ino
    BY <1>6, <2>1
  <2>2. CASE t # ino
    <3>1. I[t].mode = "REG" /\ I[t].size # 0 /\ t \in DOMAIN I
      BY <1>9, <2>2
    <3>2. PICK d \in C : InDir(D, T, d.path[1], t) /\ Holds(I, D, d, t)
      BY <3>1, Zenon DEF RootOf
    <3>3. Holds(J, D, d, t)
      BY <1>5, <2>2, <3>1, <3>2, Zenon
    <3> QED
      BY <3>2, <3>3
  <2> QED
    BY <2>1, <2>2
<1> QED
  BY <1>1, <1>3, <1>4, <1>8, <1>9 DEF RootOf

\* A step that leaves the directories and the files alone.
LEMMA RootStill ==
    ASSUME RootInv, pc \in {"idle", "path", "data", "done"}, UNCHANGED <<inodes, disk, copied>>,
           ~Lost, ~Lost', Pending' = Pending \/ Pending' = {}
    PROVE  RootInv'
<1>1. CopiesOK /\ RootOf(inodes, disk, copied, Pending)
  BY DEF RootInv, RootOK
<1>2. RootOf(inodes, disk, copied, Pending')
  BY <1>1 DEF RootOf
<1>3. CopiesOK'
  BY <1>1 DEF CopiesOK
<1> QED
  BY <1>2, <1>3 DEF RootInv, RootOK

\* mkfs exits, also from where it is lost.
LEMMA RootExit ==
    ASSUME RootInv, copied' = copied, pc' \notin {"idle", "path", "data", "done"}
    PROVE  RootInv'
  BY DEF RootInv, CopiesOK

\* A copy begins, or is refused.
LEMMA RootCopy ==
    ASSUME ImageInv, RootInv, copy_file
    PROVE  RootInv'
<1>1. pc = "idle" /\ UNCHANGED <<inodes, disk, copied>>
  BY DEF copy_file
<1>2. ~Lost /\ Pending = {}
  BY <1>1 DEF Lost, Pending, Fresh
<1>3. PICK c \in Copies :
        IF c.path = <<>> THEN UNCHANGED <<pc, job>>
        ELSE /\ pc' = "path"
             /\ job' = [NoJob EXCEPT !.src = c.src, !.size = c.size, !.path = c.path,
                                     !.name = 1, !.ino = ROOT_INO]
  BY DEF copy_file
<1>4. CASE c.path = <<>>
  <2>1. ~Lost' /\ Pending' = {}
    BY <1>1, <1>3, <1>4 DEF Lost, Pending, Fresh
  <2> QED
    BY <1>1, <1>2, <2>1, RootStill
<1>5. CASE c.path # <<>>
  <2>1. pc' = "path" /\ job'.name = 1 /\ job'.ino = 1
    BY <1>3, <1>5 DEF NoJob, ROOT_INO
  <2>2. ~Lost' /\ Pending' = {}
    BY <2>1 DEF Lost, Pending, Fresh
  <2> QED
    BY <1>1, <1>2, <2>2, RootStill
<1> QED
  BY <1>4, <1>5

\* What get_entry_from_dir finds is in the directory.
LEMMA EntryInDir ==
    ASSUME ImageOK, NEW t \in DOMAIN inodes, NEW name
    PROVE  /\ \A e \in get_entry_from_dir(t, name) :
                InDir(disk, inodes[t].tree, name, e.inode) /\ EntryOK(inodes, e) /\ Real(e)
           /\ get_entry_from_dir(t, name) = {} => \A s : ~InDir(disk, inodes[t].tree, name, s)
<1> DEFINE T == inodes[t].tree
<1>1. ASSUME NEW e \in get_entry_from_dir(t, name)
      PROVE  InDir(disk, T, name, e.inode) /\ EntryOK(inodes, e) /\ Real(e)
  <2>1. PICK k \in DirBlocks(T) :
          \E i \in 1..Len(disk[T[Path(k)]].entries) :
             /\ e = disk[T[Path(k)]].entries[i] /\ Real(e) /\ e.name = name /\ EntryOK(inodes, e)
    BY EntryFound DEF ImageOK
  <2>2. InBlock(disk[T[Path(k)]].entries, name, e.inode)
    BY <2>1 DEF InBlock
  <2> QED
    BY <2>1, <2>2 DEF InDir
<1>2. ASSUME NEW s, InDir(disk, T, name, s) PROVE get_entry_from_dir(t, name) # {}
  <2>1. PICK k \in DirBlocks(T) : InBlock(disk[T[Path(k)]].entries, name, s)
    BY <1>2 DEF InDir
  <2> DEFINE b == T[Path(k)]
  <2>2. PICK i \in 1..Len(disk[b].entries) :
          Real(disk[b].entries[i]) /\ disk[b].entries[i].name = name
    BY <2>1 DEF InBlock
  <2>3. disk[b].entries \in Seq(DirEntries)
    BY DEF ImageOK, DiskOK, DiskOf, EntriesOK
  <2>4. i \in DOMAIN disk[b].entries
    BY <2>2, <2>3
  <2> DEFINE entries(l) == disk[T[Path(l)]].entries
             named(l) == {entries(l)[j] : j \in {j \in DOMAIN entries(l) :
                             entries(l)[j].type # "UNKNOWN" /\ entries(l)[j].name = name}}
  <2>5. disk[b].entries[i] \in named(k)
    BY <2>2, <2>4 DEF Real
  <2>6. get_entry_from_dir(t, name) = UNION {named(l) : l \in DirBlocks(T)}
    BY Zenon DEF get_entry_from_dir
  <2> HIDE DEF named, b
  <2> QED
    BY <2>5, <2>6
<1> QED
  BY <1>1, <1>2

\* A name that is there: a copy that is lost meets none.
LEMMA RootFound ==
    ASSUME ImageInv, RootInv, path_found
    PROVE  RootInv'
<1>1. pc = "path" /\ job.name # 0
  BY DEF path_found
<1>2. ImageOK /\ JobOK
  BY <1>1 DEF ImageInv, Unmade
<1>3. job.ino \in DOMAIN inodes
  BY <1>1, <1>2 DEF JobOK
<1>4. PICK e \in get_entry_from_dir(job.ino, job.path[job.name]) :
        IF ~is_dir_name \/ e.type # "DIR" THEN Fail
        ELSE /\ job' = [job EXCEPT !.ino = e.inode, !.name = next_name]
             /\ UNCHANGED <<super, maps, inodes, disk, pc, copied, count>>
  BY DEF path_found
<1>5. /\ InDir(disk, inodes[job.ino].tree, job.path[job.name], e.inode)
      /\ EntryOK(inodes, e) /\ Real(e)
  BY <1>2, <1>3, EntryInDir
<1>6. ~Lost
  BY <1>1, <1>5 DEF RootInv, LostOK
<1>7. Pending = {}
  BY <1>1 DEF Pending, Fresh
<1>8. RootOK
  BY <1>1, <1>6 DEF RootInv
<1>9. CASE ~is_dir_name \/ e.type # "DIR"
  <2>1. pc' = "idle" /\ UNCHANGED <<inodes, disk, copied>>
    BY <1>4, <1>9 DEF Fail
  <2>2. ~Lost' /\ Pending' = {}
    BY <2>1 DEF Lost, Pending, Fresh
  <2> QED
    BY <1>1, <1>6, <2>1, <2>2, RootStill
<1>10. CASE is_dir_name /\ e.type = "DIR"
  <2>1. /\ UNCHANGED <<inodes, disk, copied>> /\ pc' = pc
        /\ job' = [job EXCEPT !.ino = e.inode, !.name = 2]
    BY <1>4, <1>10 DEF next_name
  <2>2. job'.ino = e.inode /\ job'.name = 2
    BY <1>2, <2>1 DEF JobOK, IsJob
  <2>3. e.inode = 1
    BY <1>5, <1>8, <1>10 DEF EntryOK, RootOK, RootOf
  <2>4. ~Lost' /\ Pending' = {}
    BY <1>1, <2>1, <2>2, <2>3 DEF Lost, Pending, Fresh
  <2> QED
    BY <1>1, <1>6, <2>1, <2>4, RootStill
<1> QED
  BY <1>9, <1>10

\* The space is looked at: the empty file stays when there is not enough.
LEMMA RootSpace ==
    ASSUME ImageInv, RootInv, check_space
    PROVE  RootInv'
<1>1. pc = "path" /\ job.name = 0
  BY DEF check_space
<1>2. ~Lost
  BY <1>1 DEF Lost
<1>3. CASE ~has_enough_space
  <2>1. pc' = "idle" /\ UNCHANGED <<inodes, disk, copied>>
    BY <1>3 DEF check_space, Fail
  <2>2. ~Lost' /\ Pending' = {}
    BY <2>1 DEF Lost, Pending, Fresh
  <2> QED
    BY <1>1, <1>2, <2>1, <2>2, RootStill
<1>4. CASE has_enough_space
  <2>1. UNCHANGED <<inodes, disk, copied>> /\ job' = job /\ pc' = "data"
    BY <1>4 DEF check_space
  <2>2. ~Lost' /\ Pending' = Pending
    BY <1>1, <2>1 DEF Lost, Pending, Fresh
  <2> QED
    BY <1>1, <1>2, <2>1, <2>2, RootStill
<1> QED
  BY <1>3, <1>4

\* The blocks a directory takes: they hold no name, and they come in order.
LEMMA RootAlloc ==
    ASSUME ImageInv, RootInv, write_entry_alloc
    PROVE  RootInv'
<1>1. pc = "path" /\ job.name # 0
  BY AllocCases DEF PathMissing
<1>2. ImageOK /\ JobOK
  BY <1>1 DEF ImageInv, Unmade
<1>3. CASE Exit("exit_dir")
  BY <1>3, RootExit DEF Exit
<1>4. ASSUME NEW b \in alloc_block, AllocOf(b) PROVE RootInv'
  <2> DEFINE t == job.ino
             T == inodes[t].tree
             k == target_block
             U == Put(T, Node(T, k), b)
  <2>1. t \in DOMAIN inodes
    BY <1>1, <1>2 DEF JobOK
  <2>2. /\ pc' = pc /\ job' = job /\ copied' = copied /\ Missing(T, k) # {}
        /\ inodes' = [inodes EXCEPT ![t].tree = U]
        /\ disk' = IF Last(T, k) THEN Put(disk, b, Dir(EmptyDir)) ELSE disk
    BY <1>4, Zenon DEF AllocOf
  <2>3. k \in 0..MaxBlocks - 1 /\ \A j \in 0..k - 1 : Missing(T, j) = {}
    BY <1>2, <2>1, TargetBlock
  <2>4. b = Taken + 1
    BY <1>2, <1>4, <2>1, AllocImage
  <2>5. /\ DOMAIN disk \subseteq Meta + 1..Taken
        /\ \A s \in DOMAIN inodes : IsInode(inodes[s]) /\ inodes[s].mode \in {"DIR", "REG"}
        /\ \A s \in DOMAIN inodes : \A l \in DirBlocks(inodes[s].tree) :
              inodes[s].tree[Path(l)] \in DOMAIN disk
        /\ \A c \in DOMAIN disk : IsBlock(disk[c])
    BY <1>2 DEF ImageOK, DiskOK, DiskOf
  <2>6. b \notin DOMAIN disk
    <3>1. Taken \in Nat /\ Meta \in Nat
      BY <1>2, FirstGroup DEF ImageOK
    <3> QED
      BY <2>4, <2>5, <3>1
  <2>7. /\ DOMAIN inodes' = DOMAIN inodes /\ \A s \in DOMAIN inodes : s # t => inodes'[s] = inodes[s]
        /\ inodes'[t].mode = inodes[t].mode /\ inodes'[t].size = inodes[t].size
        /\ inodes'[t].tree = U
    <3> HIDE DEF U
    <3> QED
      BY <2>1, <2>2, <2>5, InodeTree
  <2>8. \A n, s : InDir(disk', U, n, s) <=> InDir(disk, T, n, s)
    <3>1. \A l \in DirBlocks(T) : T[Path(l)] \in DOMAIN disk
      BY <2>1, <2>5
    <3> HIDE DEF T, k
    <3> QED
      BY <2>2, <2>3, <2>6, <3>1, InDirGrow
  <2>9. CopiesOK'
    BY <2>2 DEF RootInv, CopiesOK
  <2> HIDE DEF U
  <2>10. CASE Lost
    <3>1. Lost' /\ LostOK
      BY <1>1, <2>2, <2>10 DEF Lost, RootInv
    <3>2. LostOK'
      BY <2>2, <2>7, <2>8, <3>1 DEF LostOK
    <3> QED
      BY <2>9, <3>1, <3>2 DEF RootInv
  <2>11. CASE ~Lost
    <3>1. ~Lost' /\ t = 1 /\ Pending' = Pending
      BY <1>1, <2>2, <2>11 DEF Lost, Pending, Fresh
    <3>2. RootOf(inodes, disk, copied, Pending)
      BY <1>1, <2>11 DEF RootInv, RootOK
    <3>3. Filled(U)
      <4>1. Filled(T)
        BY <3>1, <3>2, Zenon DEF RootOf
      <4> HIDE DEF T, k
      <4> QED
        BY <2>2, <2>3, <4>1, FilledGrow DEF U
    <3>4. inodes'[1].tree = U /\ Filled(inodes'[1].tree)
      BY <2>7, <3>1, <3>3
    <3>5. \A s \in DOMAIN inodes : /\ inodes'[s].mode = inodes[s].mode
                                   /\ inodes'[s].size = inodes[s].size
      BY <2>7
    <3>6. \A c \in DOMAIN disk :
              c \in DOMAIN disk' /\ (disk[c].entries = <<>> => disk'[c] = disk[c])
      BY <2>2, <2>6 DEF Put
    <3>7. ASSUME NEW s \in DOMAIN inodes
          PROVE  \A c : Holds(inodes, disk, c, s) => Holds(inodes', disk', c, s)
      <4>1. CASE s = 1
        <5>1. inodes[s].mode = "DIR"
          BY <1>2, <4>1 DEF ImageOK, DiskOK, DiskOf
        <5> QED
          BY <5>1 DEF Holds
      <4>2. CASE s # 1
        <5>1. inodes'[s] = inodes[s]
          BY <2>7, <3>1, <4>2
        <5> QED
          BY <3>6, <5>1, HoldsKept
      <4> QED
        BY <4>1, <4>2
    <3>8. \A n, s : InDir(disk', inodes'[1].tree, n, s) <=> InDir(disk, inodes[1].tree, n, s)
      BY <2>8, <3>1, <3>4
    <3>9. RootOf(inodes', disk', copied, Pending)
      BY <2>7, <3>2, <3>4, <3>5, <3>7, <3>8, RootKept
    <3> QED
      BY <1>1, <2>2, <2>9, <3>1, <3>9 DEF RootInv, RootOK
  <2> QED
    BY <2>10, <2>11
<1> QED
  BY <1>3, <1>4, AllocCases

\* The blocks a file takes.
LEMMA RootData ==
    ASSUME ImageInv, RootInv, write_data
    PROVE  RootInv'
<1>1. pc = "data"
  BY DataCases
<1>2. ImageOK /\ JobOK
  BY <1>1 DEF ImageInv, Unmade
<1>3. CASE Exit("exit_data")
  BY <1>3, RootExit DEF Exit
<1>4. ASSUME NEW b \in alloc_block, DataOf(b) PROVE RootInv'
  <2> DEFINE T == inodes[1].tree
  <2>1. /\ pc' = pc /\ inodes' = inodes /\ copied' = copied
        /\ job' = [job EXCEPT !.tree = Put(job.tree, Node(job.tree, job.k), b),
                              !.k = IF Last(job.tree, job.k) THEN job.k + 1 ELSE job.k]
    BY <1>4, Zenon DEF DataOf
  <2>2. disk' = disk \/ disk' = Put(disk, b, Data(job.src, job.k))
    BY <1>4 DEF DataOf
  <2>3. job'.path = job.path /\ job'.ino = job.ino
    BY <1>2, <2>1 DEF JobOK, IsJob
  <2>4. b = Taken + 1
    BY <1>2, <1>4, AllocBlock DEF ImageOK
  <2>5. DOMAIN disk \subseteq Meta + 1..Taken /\ \A l \in DirBlocks(T) : T[Path(l)] \in DOMAIN disk
    BY <1>2 DEF ImageOK, DiskOK, DiskOf
  <2>6. b \notin DOMAIN disk
    <3>1. Taken \in Nat /\ Meta \in Nat
      BY <1>2, FirstGroup DEF ImageOK
    <3> QED
      BY <2>4, <2>5, <3>1
  <2>7. \A c \in DOMAIN disk : c \in DOMAIN disk' /\ disk'[c] = disk[c]
    BY <2>2, <2>6 DEF Put
  <2>8. ~Lost /\ ~Lost' /\ Pending' = Pending
    BY <1>1, <2>1, <2>3 DEF Lost, Pending, Fresh
  <2>9. RootOf(inodes, disk, copied, Pending)
    BY <1>1, <2>8 DEF RootInv, RootOK
  <2>10. \A n, s : InDir(disk', T, n, s) <=> InDir(disk, T, n, s)
    <3> HIDE DEF T
    <3> QED
      BY <2>5, <2>7, InDirSame
  <2>11. \A s \in DOMAIN inodes : \A c : Holds(inodes, disk, c, s) => Holds(inodes, disk', c, s)
    BY <2>7, HoldsKept
  <2>12. Filled(T)
    BY <2>9, Zenon DEF RootOf
  <2>13. RootOf(inodes, disk', copied, Pending)
    BY <2>9, <2>10, <2>11, <2>12, RootKept
  <2>14. CopiesOK'
    BY <2>1 DEF RootInv, CopiesOK
  <2> QED
    BY <1>1, <2>1, <2>8, <2>13, <2>14 DEF RootInv, RootOK
<1> QED
  BY <1>3, <1>4, DataCases

\* A name in a directory is one of an inode.
LEMMA InDirInode ==
    ASSUME NEW I, NEW D, NEW u, NEW m, DiskOf(I, D, u, m), NEW t \in DOMAIN I
    PROVE  \A n, s : InDir(D, I[t].tree, n, s) => s \in DOMAIN I /\ n # ""
<1> SUFFICES ASSUME NEW n, NEW s, InDir(D, I[t].tree, n, s) PROVE s \in DOMAIN I /\ n # ""
  OBVIOUS
<1>1. PICK k \in DirBlocks(I[t].tree) : InBlock(D[I[t].tree[Path(k)]].entries, n, s)
  BY DEF InDir
<1> DEFINE e == D[I[t].tree[Path(k)]].entries
<1>2. EntriesOK(I, e)
  BY DEF DiskOf
<1>3. InBlock(e, n, s)
  BY <1>1
<1> HIDE DEF e
<1>4. PICK i \in 1..Len(e) : Real(e[i]) /\ e[i].name = n /\ e[i].inode = s
  BY <1>3 DEF InBlock
<1>5. EntryOK(I, e[i])
  BY <1>2 DEF EntriesOK
<1> QED
  BY <1>4, <1>5, NamesAssumption DEF EntryOK

\* A name is added: in the root, the name of a file; otherwise mkfs is lost.
LEMMA RootEntry ==
    ASSUME ImageInv, RootInv, write_entry
    PROVE  RootInv'
<1>1. pc = "path" /\ job.name # 0 /\ get_entry_from_dir(job.ino, job.path[job.name]) = {}
  BY WriteCases DEF PathMissing
<1>2. ImageOK /\ JobOK
  BY <1>1 DEF ImageInv, Unmade
<1>3. PICK ino \in alloc_inode_no : WriteOf(ino)
  BY WriteCases
<1> DEFINE name == job.path[job.name]
           T == inodes[job.ino].tree
           b == T[Path(target_block)]
           s == disk[b].entries
           w == write_dir_entry(s, name, EntryType, ino)
           r == [mode |-> EntryType, size |-> 0, tree |-> <<>>]
<1>4. /\ pc' = pc /\ copied' = copied /\ job' = [job EXCEPT !.ino = ino, !.name = next_name]
      /\ Missing(T, target_block) = {} /\ disk' = [disk EXCEPT ![b].entries = w]
  BY <1>3, Zenon DEF WriteOf
<1>5. job'.ino = ino /\ job'.name = next_name /\ job'.path = job.path /\ job'.tree = job.tree
  BY <1>2, <1>4 DEF JobOK, IsJob
<1>6. /\ job.ino \in DOMAIN inodes /\ inodes[job.ino].mode = "DIR"
      /\ job.path \in Seq(DOMAIN NameLen) /\ job.name \in 1..Len(job.path)
  BY <1>1, <1>2 DEF JobOK
<1>7. name \in DOMAIN NameLen /\ Len(job.path) \in Nat /\ Len(job.path) > 0
  BY <1>6
<1>8. ino \notin DOMAIN inodes /\ inodes' = Put(inodes, ino, r) /\ ino > 1 /\ ino \in Nat
  BY <1>2, <1>3, <1>5, <1>6, <1>7, EntryImage
<1>9. inodes'[ino].tree = <<>>
  BY <1>8 DEF Put
<1>10. CopiesOK'
  BY <1>4 DEF RootInv, CopiesOK
<1>11. CASE is_dir_name
  <2>1. next_name = 2 /\ Len(job.path) > 1
    BY <1>11 DEF is_dir_name, next_name
  <2>2. Lost'
    BY <1>1, <1>4, <1>5, <1>8, <2>1 DEF Lost
  <2>3. LostOK'
    BY <1>5, <1>9, <2>1, InDirEmpty DEF LostOK
  <2> QED
    BY <1>10, <2>2, <2>3 DEF RootInv
<1>12. CASE ~is_dir_name
  <2>1. next_name = 0 /\ EntryType = "REG" /\ r = NewFile
    BY <1>12 DEF next_name, EntryType, NewFile
  <2>2. Len(job.path) = 1
    <3> DEFINE n == Len(job.path)
    <3>1. n \in Nat /\ n > 0
      BY <1>7
    <3>2. ~(n > 1)
      BY <1>12, Zenon DEF is_dir_name
    <3> HIDE DEF n
    <3>3. n = 1
      BY <3>1, <3>2
    <3> QED
      BY <3>3 DEF n
  <2>3. ~Lost /\ job.ino = 1
    BY <1>1, <2>2 DEF RootInv, LostOK, Lost
  <2>4. name = job.path[1]
    BY <1>6, <2>2
  <2>5. ~Lost' /\ Pending' = {<<name, ino>>}
    BY <1>1, <1>4, <1>5, <2>1, <2>4 DEF Lost, Pending, Fresh
  <2>6. RootOf(inodes, disk, copied, {})
    <3>1. Pending = {}
      BY <1>1 DEF Pending, Fresh
    <3>2. RootOK
      BY <1>1, <2>3 DEF RootInv
    <3> QED
      BY <3>1, <3>2 DEF RootOK
  <2>7. /\ target_block \in DirBlocks(T) /\ b \in DOMAIN disk /\ IsBlock(disk[b]) /\ s # <<>>
        /\ s \in Seq(DirEntries) /\ ~Real(s[Len(s)])
    BY <1>2, <1>4, <1>6, WriteTarget, Zenon
  <2>8. Written(s, w, name, EntryType, ino)
    <3> HIDE DEF s, name
    <3>1. EntryType \in {"DIR", "REG"}
      BY <2>1
    <3> QED
      BY <1>7, <1>8, <2>7, <3>1, WriteDirEntry
  <2> HIDE DEF w
  <2>9. \A n, t : InBlock(w, n, t) <=> InBlock(s, n, t) \/ (n = name /\ t = ino)
    <3> HIDE DEF s, name
    <3>1. EntryType \in {"DIR", "REG"}
      BY <2>1
    <3> QED
      BY <2>7, <2>8, <3>1, InBlockWritten
  <2>10. \A l \in DirBlocks(T) : T[Path(l)] \in DOMAIN disk
    BY <1>2, <1>6 DEF ImageOK, DiskOK, DiskOf
  <2>11. \A n, t : InDir(disk', T, n, t) <=> InDir(disk, T, n, t) \/ (n = name /\ t = ino)
    <3>1. /\ \E l \in DirBlocks(T) : b = T[Path(l)]
          /\ OneMoreIn(w, disk[b].entries, name, ino) /\ IsBlock(disk[b])
      BY <2>7, <2>9 DEF OneMoreIn
    <3>2. disk' = [disk EXCEPT ![b].entries = w]
      BY <1>4
    <3> DEFINE E == disk'
    <3>3. Rewritten(disk, b, w, E)
      BY <3>2 DEF Rewritten
    <3> HIDE DEF T, b, name, E, s
    <3>4. OneMoreInDir(E, disk, T, name, ino)
      BY <2>10, <3>1, <3>3, InDirWrite
    <3> QED
      BY <3>4 DEF E, OneMoreInDir
  <2>12. \A n, t : InDir(disk, T, n, t) => t \in DOMAIN inodes /\ n # name
    <3>1. \A t : ~InDir(disk, T, name, t)
      BY <1>1, <1>2, <1>6, EntryInDir, Zenon
    <3>2. \A n, t : InDir(disk, T, n, t) => t \in DOMAIN inodes
      BY <1>2, <1>6, InDirInode DEF ImageOK, DiskOK
    <3> QED
      BY <3>1, <3>2
  <2>13. \A c \in DOMAIN disk : c \in DOMAIN disk' /\ (disk[c].entries = <<>> => disk'[c] = disk[c])
    <3>1. DOMAIN disk' = DOMAIN disk /\ \A c \in DOMAIN disk : c # b => disk'[c] = disk[c]
      <4>1. Rewritten(disk, b, w, disk')
        BY <1>4 DEF Rewritten
      <4> HIDE DEF b
      <4> QED
        BY <2>7, <4>1, BlockEntries
    <3> QED
      BY <2>7, <3>1
  <2>14. \A t \in DOMAIN inodes : \A c : Holds(inodes, disk, c, t) => Holds(inodes', disk', c, t)
    <3>1. \A t \in DOMAIN inodes : inodes'[t] = inodes[t]
      BY <1>8 DEF Put
    <3> QED
      BY <2>13, <3>1, HoldsKept
  <2>15. 1 \in DOMAIN inodes /\ inodes[1].tree = T
    BY <1>6, <2>3
  <2>16. RootOf(inodes', disk', copied, {<<name, ino>>})
    <3>1. inodes' = Put(inodes, ino, NewFile)
      BY <1>8, <2>1
    <3> HIDE DEF name
    <3>2. /\ \A n, t : InDir(disk, inodes[1].tree, n, t) => t \in DOMAIN inodes /\ n # name
          /\ \A n, t : InDir(disk', inodes[1].tree, n, t)
                          <=> InDir(disk, inodes[1].tree, n, t) \/ (n = name /\ t = ino)
      BY <2>11, <2>12, <2>15
    <3> DEFINE E == disk'
               J == inodes'
    <3>3. /\ J = Put(inodes, ino, NewFile) /\ ino \notin DOMAIN inodes
          /\ \A n, t : InDir(E, inodes[1].tree, n, t)
                          <=> InDir(disk, inodes[1].tree, n, t) \/ (n = name /\ t = ino)
          /\ \A t \in DOMAIN inodes : \A c : Holds(inodes, disk, c, t) => Holds(J, E, c, t)
      BY <1>8, <2>14, <3>1, <3>2
    <3> HIDE DEF E, J
    <3>4. RootOf(J, E, copied, {<<name, ino>>})
      BY <2>6, <2>15, <3>2, <3>3, RootNamed
    <3> QED
      BY <3>4 DEF E, J
  <2> QED
    BY <1>1, <1>4, <1>10, <2>5, <2>16 DEF RootInv, RootOK
<1> QED
  BY <1>11, <1>12

\* The file is written: all of its blocks are there.
LEMMA RootFile ==
    ASSUME ImageInv, RootInv, write_file
    PROVE  RootInv'
<1>1. /\ pc = "data" /\ pc' = "idle" /\ job' = NoJob /\ disk' = disk
      /\ job.k = Min({data_blocks, MaxBlocks})
      /\ copied' = copied \cup {[path |-> job.path, src |-> job.src, size |-> job.size]}
  BY DEF write_file
<1>2. ImageOK /\ JobOK /\ DataOK
  BY <1>1 DEF ImageInv, Unmade
<1> DEFINE ino == job.ino
           c == [path |-> job.path, src |-> job.src, size |-> job.size]
<1>3. /\ DOMAIN inodes' = DOMAIN inodes
      /\ inodes'[ino] = [mode |-> "REG", size |-> job.size, tree |-> job.tree]
      /\ \A s \in DOMAIN inodes : s # ino => inodes'[s] = inodes[s]
  BY StepFile
<1>4. /\ ino \in DOMAIN inodes /\ inodes[ino] = NewFile /\ Len(job.path) = 1
      /\ job.path \in Seq(DOMAIN NameLen) /\ job.size \in Nat /\ job.k \in Nat
  BY <1>1, <1>2 DEF JobOK, Fresh
<1>5. ino # 1 /\ 1 \in DOMAIN inodes
  <2>1. 1 \in DOMAIN inodes /\ inodes[1].mode = "DIR"
    BY <1>2 DEF ImageOK, DiskOK, DiskOf
  <2> QED
    BY <1>4, <2>1 DEF NewFile
<1>6. data_blocks \in Nat /\ MaxBlocks \in Nat
  BY <1>4, SizesAssumption, CeilNat, PointersPos DEF data_blocks
<1>7. job.k # MaxBlocks
  <2>1. 0 \in DOMAIN Trees /\ Trees[0] = job.tree
    BY DEF Trees
  <2>2. PICK k \in 0..MaxBlocks - 1 : Path(k) \notin DOMAIN job.tree
    <3> DEFINE z == 0
    <3>1. z \in DOMAIN Trees /\ Trees[z] = job.tree
      BY <2>1
    <3> HIDE DEF z
    <3> QED
      BY <1>2, <3>1, RoomExists
  <2>3. ~(k < job.k)
    BY <1>1, <1>2, <2>2 DEF DataOK
  <2> QED
    BY <1>6, <2>2, <2>3
<1>8. job.k = data_blocks
  <2>1. Min({data_blocks, MaxBlocks}) \in {data_blocks, MaxBlocks}
    BY <1>6, MinTwo
  <2> QED
    BY <1>1, <1>7, <2>1
<1>9. Holds(inodes', disk, c, ino)
  <2> DEFINE J == inodes'
             r == [mode |-> "REG", size |-> job.size, tree |-> job.tree]
  <2>1. J[ino].mode = "REG" /\ J[ino].size = job.size /\ J[ino].tree = job.tree
    BY <1>3
  <2>2. c.size = job.size /\ c.src = job.src
    OBVIOUS
  <2>3. Ceil(c.size, BLOCK_SIZE) = job.k
    BY <1>8, <2>2 DEF data_blocks
  <2>4. \A k \in 0..job.k - 1 : Path(k) \in DOMAIN job.tree
    <3> SUFFICES ASSUME NEW k \in 0..job.k - 1 PROVE Path(k) \in DOMAIN job.tree
      OBVIOUS
    <3>1. k \in 0..MaxBlocks - 1 /\ k < job.k
      BY <1>1, <1>2, <1>4, <1>6 DEF DataOK
    <3> QED
      BY <1>1, <1>2, <3>1 DEF DataOK
  <2>5. \A k \in 0..job.k - 1 : /\ job.tree[Path(k)] \in DOMAIN disk
                                /\ disk[job.tree[Path(k)]] = Data(job.src, k)
    BY <1>1, <1>2 DEF DataOK
  <2> HIDE DEF J, c
  <2>6. Holds(J, disk, c, ino)
    BY <2>1, <2>2, <2>3, <2>4, <2>5 DEF Holds
  <2> QED
    BY <2>6 DEF J
<1>10. RootOf(inodes, disk, copied, {<<job.path[1], ino>>})
  <2>1. ~Lost /\ Pending = {<<job.path[1], ino>>}
    BY <1>1 DEF Lost, Pending, Fresh
  <2>2. RootOK
    BY <1>1, <2>1 DEF RootInv
  <2> QED
    BY <2>1, <2>2 DEF RootOK
<1>11. RootOf(inodes', disk, copied \cup {c}, {})
  <2>1. c.path[1] = job.path[1]
    OBVIOUS
  <2> HIDE DEF ino, c
  <2> QED
    BY <1>3, <1>4, <1>5, <1>9, <1>10, <2>1, RootFiled
<1>12. ~Lost' /\ Pending' = {}
  BY <1>1 DEF Lost, Pending, Fresh
<1>13. CopiesOK'
  BY <1>1, <1>4 DEF RootInv, CopiesOK
<1> QED
  BY <1>1, <1>11, <1>12, <1>13 DEF RootInv, RootOK

\* A new image has no files.
LEMMA RootMake ==
    ASSUME ImageInv, ImageInv', mkfs
    PROVE  RootInv'
<1>1. pc = "start" /\ copied' = copied
  BY MakeCases
<1>2. copied' = {}
  BY <1>1 DEF ImageInv, Unmade, NothingYet
<1>3. CopiesOK'
  BY <1>2 DEF CopiesOK
<1>4. CASE pc' = "exit_mkfs"
  BY <1>3, <1>4 DEF RootInv
<1>5. ASSUME pc' = "idle", NEW N, MadeOf(N) PROVE RootInv'
  <2> DEFINE root == used_blocks(0, Ceil(N, BLOCKS_PER_GROUP)) + SUPER_BLOCK_NO
             T == [k \in {<<0>>} |-> root]
             J == inodes'
             E == disk'
  <2>1. J = [ino \in {ROOT_INO} |-> [mode |-> "DIR", size |-> BLOCK_SIZE, tree |-> T]]
    BY <1>5, Zenon DEF MadeOf
  <2>2. DOMAIN J = {1} /\ J[1].mode = "DIR" /\ J[1].tree = T
    BY <2>1 DEF ROOT_INO
  <2>3. DOMAIN T = {<<0>>}
    OBVIOUS
  <2>4. ~Lost' /\ Pending' = {} /\ ~Unmade'
    BY <1>5 DEF Lost, Pending, Fresh, Unmade
  <2>5. DiskOf(J, E, Meta', Taken')
    BY <2>4 DEF ImageInv, ImageOK, DiskOK
  <2> HIDE DEF T, J, E
  <2>6. \A n, s : InDir(E, T, n, s) => s = 1
    <3> DEFINE one == 1
    <3>1. one \in DOMAIN J /\ J[one].tree = T
      BY <2>2
    <3> HIDE DEF one
    <3>2. \A n, s : InDir(E, J[one].tree, n, s) => s \in DOMAIN J
      BY <2>5, <3>1, InDirInode
    <3> QED
      BY <2>2, <3>1, <3>2
  <2>7. OneName(E, T)
    BY <2>6 DEF OneName
  <2>8. Filled(T)
    <3>1. Path(0) = <<0>>
      BY PathHead, PointersPos
    <3> SUFFICES ASSUME NEW k \in DirBlocks(T), NEW j \in 0..k PROVE Missing(T, j) = {}
      BY DEF Filled
    <3>2. k \in Nat /\ Path(k) = <<0>>
      BY <2>3, PointersPos DEF DirBlocks
    <3>3. k = 0
      <4> DEFINE z == 0
      <4>1. z \in Nat /\ Path(k) = Path(z)
        BY <3>1, <3>2
      <4> HIDE DEF z
      <4>2. k = z
        BY <3>2, <4>1, PathInjective
      <4> QED
        BY <4>2 DEF z
    <3>4. j = 0
      BY <3>3
    <3>5. Missing(T, 0) = {}
      <4> DEFINE p == Path(0)
      <4>1. p \in Seq(Nat) /\ Len(p) = 1 /\ p \in DOMAIN T
        <5>1. <<0>> \in Seq(Nat) /\ Len(<<0>>) = 1
          OBVIOUS
        <5> QED
          BY <2>3, <3>1, <5>1, Zenon
      <4> HIDE DEF p
      <4>2. SubSeq(p, 1, 1) = p
        BY <4>1
      <4>3. \A i \in 1..Len(p) : SubSeq(p, 1, i) \in DOMAIN T
        <5>1. \A i \in 1..Len(p) : i = 1
          BY <4>1
        <5> QED
          BY <4>1, <4>2, <5>1, Zenon
      <4> QED
        BY <4>3 DEF Missing, p
    <3> QED
      BY <3>4, <3>5
  <2>9. RootOf(J, E, {}, {})
    BY <2>2, <2>7, <2>8 DEF RootOf
  <2> QED
    BY <1>2, <1>3, <2>4, <2>9 DEF RootInv, RootOK, J, E
<1> QED
  BY <1>4, <1>5, MakeCases

\* Every step keeps the root in order.
LEMMA RootStep ==
    ASSUME ImageInv, ImageInv', RootInv, [Next]_vars
    PROVE  RootInv'
<1>1. CASE mkfs
  BY <1>1, RootMake
<1>2. CASE copy_file
  BY <1>2, RootCopy
<1>3. CASE path_found
  BY <1>3, RootFound
<1>4. CASE write_entry_no_inode
  BY <1>4, RootExit DEF write_entry_no_inode, Exit
<1>5. CASE write_entry_alloc
  BY <1>5, RootAlloc
<1>6. CASE write_entry
  BY <1>6, RootEntry
<1>7. CASE check_space
  BY <1>7, RootSpace
<1>8. CASE write_data
  BY <1>8, RootData
<1>9. CASE write_file
  BY <1>9, RootFile
<1>10. CASE cpfs_end
  <2>1. pc = "idle" /\ pc' = "done" /\ UNCHANGED <<inodes, disk, copied>>
    BY <1>10 DEF cpfs_end
  <2>2. ~Lost /\ ~Lost' /\ Pending' = {}
    BY <2>1 DEF Lost, Pending, Fresh
  <2> QED
    BY <2>1, <2>2, RootStill
<1>11. CASE UNCHANGED mkfsVars
  <2>1. UNCHANGED <<inodes, disk, job, pc, copied>>
    BY <1>11 DEF mkfsVars
  <2>2. Lost' = Lost /\ Pending' = Pending
    BY <2>1 DEF Lost, Pending, Fresh
  <2>3. CopiesOK' /\ (LostOK => LostOK')
    BY <2>1 DEF RootInv, CopiesOK, LostOK
  <2>4. RootOK => RootOK'
    BY <2>1, <2>2 DEF RootOK
  <2> QED
    BY <2>1, <2>2, <2>3, <2>4 DEF RootInv
<1>12. MkfsNext \/ UNCHANGED mkfsVars
  BY Zenon DEF Next, sys_open, sys_open_stale, vfs_open_panic, sys_close, sys_read, sys_read_panic,
         proc_clone, proc_exit, Stopped, vars
<1> QED
  BY <1>1, <1>2, <1>3, <1>4, <1>5, <1>6, <1>7, <1>8, <1>9, <1>10, <1>11, <1>12 DEF MkfsNext

\* mkfs keeps the root directory in order: no name is there twice, and every copy
\* it reported is there under its name with its size and its data.
THEOREM RootInvariant == Spec => []RootInv
<1>1. Init => RootInv
  BY DEF Init, MkfsInit, RootInv, CopiesOK
<1>2. ImageInv /\ ImageInv' /\ RootInv /\ [Next]_vars => RootInv'
  BY RootStep
<1> QED
  BY <1>1, <1>2, ImageInvariant, PTL DEF Spec

-----------------------------------------------------------------------------
(* What axfs finds.                                                        *)

\* Where axfs looks for the byte o after the beginning of block t.
ByteAt(B, S, t, o) == ((t + o \div B) * (B \div S) + (o % B) \div S) * S + ((o % B) % S)

\* It is where that byte is.
LEMMA SectorOf ==
    ASSUME NEW B \in Nat \ {0}, NEW S \in Nat \ {0}, B % S = 0, NEW t \in Nat, NEW o \in Nat
    PROVE  ByteAt(B, S, t, o) = t * B + o
<1> DEFINE q == o \div B
           r == o % B
           m == B \div S
           x == r \div S
           y == r % S
<1>1. q \in Nat /\ r \in Nat /\ o = B * q + r
  BY Division
<1>2. m \in Nat /\ B = S * m
  <2>1. B \div S \in Nat /\ B = S * (B \div S) + (B % S)
    BY Division
  <2> QED
    BY <2>1
<1>3. x \in Nat /\ y \in Nat /\ r = S * x + y
  BY <1>1, Division
<1> HIDE DEF q, r, m, x, y
<1>4. ((t + q) * m + x) * S = (t + q) * (S * m) + S * x
  BY <1>1, <1>2, <1>3
<1>5. (t + q) * (S * m) = t * B + B * q
  BY <1>1, <1>2
<1>6. ((t + q) * m + x) * S + y = t * B + o
  BY <1>1, <1>2, <1>3, <1>4, <1>5
<1> QED
  BY <1>6, Zenon DEF q, r, m, x, y, ByteAt

\* axfs finds the descriptor of the first group, where all inodes are.
LEMMA DescGet ==
    ASSUME ImageOK
    PROVE  get_bg_inode_table(0) = bg_inode_table(0) /\ 0 \in DOMAIN bg
<1> DEFINE o == DESC_SIZE * 0
           t == SUPER_BLOCK_NO + 1
           byte == (SECTOR_NO(desc_block(0)) + (o % BLOCK_SIZE) \div SECTOR_SIZE) * SECTOR_SIZE
                     + (o % SECTOR_SIZE)
<1>1. /\ BLOCK_SIZE \in Nat \ {0} /\ DESC_SIZE \in Nat \ {0} /\ SECTOR_SIZE \in Nat \ {0}
      /\ BLOCK_SIZE % SECTOR_SIZE = 0
  BY SizesAssumption, SectorAssumption
<1>2. o = 0 /\ t = 2
  BY <1>1 DEF SUPER_BLOCK_NO
<1>3. byte = ByteAt(BLOCK_SIZE, SECTOR_SIZE, t, o)
  <2>1. o % BLOCK_SIZE = o /\ desc_block(0) = t + o \div BLOCK_SIZE
    BY <1>1, <1>2 DEF desc_block, SUPER_BLOCK_NO
  <2> QED
    BY <2>1, Zenon DEF ByteAt, SECTOR_NO
<1>4. byte = 2 * BLOCK_SIZE
  <2>1. t \in Nat /\ o \in Nat
    BY <1>2
  <2> HIDE DEF t, o, byte
  <2>2. byte = t * BLOCK_SIZE + o
    BY <1>1, <1>3, <2>1, SectorOf
  <2> QED
    BY <1>1, <1>2, <2>2
<1>5. 0 \in DOMAIN bg /\ \A h \in DOMAIN bg : h \in Nat
  BY FirstGroup DEF ImageOK, Layout
<1>6. \A h \in DOMAIN bg : seek_desc(h) = byte <=> h = 0
  <2> SUFFICES ASSUME NEW h \in DOMAIN bg PROVE seek_desc(h) = byte <=> h = 0
    OBVIOUS
  <2>1. seek_desc(h) = h * DESC_SIZE + 2 * BLOCK_SIZE /\ h \in Nat
    BY <1>5 DEF seek_desc, SUPER_BLOCK_NO
  <2>2. h * DESC_SIZE = 0 <=> h = 0
    BY <1>1, <2>1
  <2>3. 2 * BLOCK_SIZE \in Nat /\ h * DESC_SIZE \in Nat
    BY <1>1, <2>1
  <2> HIDE DEF byte
  <2> QED
    BY <1>4, <2>1, <2>2, <2>3
<1>7. (CHOOSE h \in DOMAIN bg : seek_desc(h) = byte) = 0
  <2> HIDE DEF byte
  <2> QED
    BY <1>5, <1>6, Zenon
<1> QED
  BY <1>5, <1>7, Zenon DEF get_bg_inode_table

\* axfs, which reads sectors, finds the inode that mkfs has written.
LEMMA InodeGet ==
    ASSUME ImageOK, NEW ino \in DOMAIN inodes
    PROVE  inode_get(ino) = inodes[ino]
<1> DEFINE t == bg_inode_table(0)
<1>1. BLOCK_SIZE \in Nat \ {0} /\ INODE_SIZE \in Nat \ {0} /\ SECTOR_SIZE \in Nat \ {0}
  BY SizesAssumption, SectorAssumption
<1>2. t \in Nat
  <2>1. Cardinality(DOMAIN bg) \in Nat
    BY GroupsCount, FirstGroup DEF ImageOK, Groups
  <2>2. inodes_table_blocks \in Nat
    <3>1. InodesPerGroup * INODE_SIZE \in Nat
      BY <1>1, OptionsAssumption
    <3> QED
      BY <1>1, <3>1, CeilNat DEF inodes_table_blocks
  <2>3. Ceil(Cardinality(DOMAIN bg) * DESC_SIZE, BLOCK_SIZE) \in Nat
    <3>1. Cardinality(DOMAIN bg) * DESC_SIZE \in Nat
      BY <2>1, SizesAssumption
    <3> QED
      BY <1>1, <3>1, CeilNat
  <2> HIDE DEF Ceil
  <2>4. used_blocks(0, Cardinality(DOMAIN bg)) - inodes_table_blocks
          = 1 + Ceil(Cardinality(DOMAIN bg) * DESC_SIZE, BLOCK_SIZE) + 1 + 1
    BY <2>2, <2>3 DEF used_blocks
  <2> DEFINE u == used_blocks(0, Cardinality(DOMAIN bg))
             c == Ceil(Cardinality(DOMAIN bg) * DESC_SIZE, BLOCK_SIZE)
  <2>5. u \in Nat
    BY <2>1, UsedNat
  <2>6. u - inodes_table_blocks = 1 + c + 1 + 1 /\ c \in Nat
    BY <2>3, <2>4
  <2>7. t = 0 * BLOCKS_PER_GROUP + 1 + u - inodes_table_blocks
    BY DEF bg_inode_table, SUPER_BLOCK_NO
  <2>8. BLOCKS_PER_GROUP \in Nat
    BY GroupAssumption
  <2> HIDE DEF u, c, t
  <2> QED
    BY <2>2, <2>5, <2>6, <2>7, <2>8
<1> HIDE DEF t
<1>3. ASSUME NEW i \in DOMAIN inodes
      PROVE  seek_inode(i) = (i - 1) * INODE_SIZE + t * BLOCK_SIZE /\ i \in Nat /\ i >= 1
  <2>1. (i - 1) \div InodesPerGroup = 0 /\ (i - 1) % InodesPerGroup = i - 1
    BY InodeGroup
  <2>2. DOMAIN inodes = 1..InUse
    BY DEF ImageOK, Layout
  <2> QED
    BY <2>1, <2>2 DEF seek_inode, t
<1>4. inode_read(ino) = seek_inode(ino)
  <2> DEFINE o == INODE_SIZE * (ino - 1)
  <2>1. (ino - 1) \div InodesPerGroup = 0 /\ (ino - 1) % InodesPerGroup = ino - 1
    BY InodeGroup
  <2>2. inode_read(ino) = ByteAt(BLOCK_SIZE, SECTOR_SIZE, t, o)
    <3>1. inode_block(ino) = t + o \div BLOCK_SIZE
      BY <2>1, DescGet, Zenon DEF inode_block, t
    <3> QED
      BY <2>1, <3>1, Zenon DEF inode_read, SECTOR_NO, ByteAt
  <2>3. o \in Nat /\ o = (ino - 1) * INODE_SIZE
    BY <1>1, <1>3
  <2> HIDE DEF o
  <2>4. inode_read(ino) = t * BLOCK_SIZE + o
    <3>1. BLOCK_SIZE % SECTOR_SIZE = 0
      BY SectorAssumption
    <3>2. ByteAt(BLOCK_SIZE, SECTOR_SIZE, t, o) = t * BLOCK_SIZE + o
      BY <1>1, <1>2, <2>3, <3>1, SectorOf
    <3> QED
      BY <2>2, <3>2, Zenon
  <2>5. t * BLOCK_SIZE \in Nat
    BY <1>1, <1>2
  <2> QED
    BY <1>3, <2>3, <2>4, <2>5
<1>5. ASSUME NEW i \in DOMAIN inodes, seek_inode(i) = inode_read(ino) PROVE i = ino
  <2>1. i \in Nat /\ ino \in Nat /\ t * BLOCK_SIZE \in Nat
    BY <1>1, <1>2, <1>3
  <2>2. (i - 1) * INODE_SIZE + t * BLOCK_SIZE = (ino - 1) * INODE_SIZE + t * BLOCK_SIZE
    BY <1>3, <1>4, <1>5
  <2>3. (i - 1) * INODE_SIZE = (ino - 1) * INODE_SIZE
    BY <1>1, <2>1, <2>2
  <2>4. (i - ino) * INODE_SIZE = 0
    BY <1>1, <2>1, <2>3
  <2> QED
    BY <1>1, <2>1, <2>4
<1>6. (CHOOSE i \in DOMAIN inodes : seek_inode(i) = inode_read(ino)) = ino
  BY <1>4, <1>5, Zenon
<1> QED
  BY <1>6, Zenon DEF inode_get

\* The direct blocks are the first blocks of an inode.
LEMMA DirectPath ==
    ASSUME NEW k \in 0..DIRECT_BLOCK_COUNT - 1
    PROVE  k \in Nat /\ k \in 0..MaxBlocks - 1 /\ Path(k) = <<k>>
<1>1. DIRECT_BLOCK_COUNT \in Nat /\ DIRECT_BLOCK_COUNT <= MaxBlocks
  <2> DEFINE P == POINTERS
             Q == POINTERS * POINTERS
             R == POINTERS * POINTERS * POINTERS
  <2>1. P \in Nat /\ Q \in Nat /\ R \in Nat /\ DIRECT_BLOCK_COUNT \in Nat
    BY PointersPos
  <2>2. MaxBlocks = DIRECT_BLOCK_COUNT + P + Q + R
    BY DEF MaxBlocks
  <2> HIDE DEF P, Q, R
  <2> QED
    BY <2>1, <2>2
<1>2. MaxBlocks \in Nat
  BY PointersPos
<1>3. k \in Nat /\ k < DIRECT_BLOCK_COUNT
  BY <1>1
<1> QED
  BY <1>1, <1>2, <1>3, PathHead

\* The direct blocks that dir_find_ino looks at, and what it finds in one.
Searched(T) == {k \in 0..DIRECT_BLOCK_COUNT - 1 : \A j \in 0..k : <<j>> \in DOMAIN T}
FoundIn(s, n) == {s[i].inode : i \in {j \in DOMAIN s : s[j].name = n}}

\* What dir_find_ino finds.
LEMMA FindIs ==
    ASSUME ImageOK, NEW d \in DOMAIN inodes, NEW n, NEW bad, NEW t
    PROVE  LET T == inodes[d].tree IN
           t \in dir_find_ino(d, n, bad) <=>
             \E k \in Searched(T) : T[<<k>>] \notin bad /\ t \in FoundIn(disk[T[<<k>>]].entries, n)
<1> DEFINE T == inodes[d].tree
           found(b) == {disk[b].entries[i].inode : i \in {j \in DOMAIN disk[b].entries :
                           disk[b].entries[j].name = n}}
<1>1. inode_get(d) = inodes[d]
  BY InodeGet
<1>2. dir_find_ino(d, n, bad)
        = UNION {found(T[<<k>>]) : k \in {k \in Searched(T) : T[<<k>>] \notin bad}}
  <2> DEFINE U == inode_get(d).tree
  <2>1. dir_find_ino(d, n, bad)
          = UNION {found(U[<<k>>]) : k \in {k \in Searched(U) : U[<<k>>] \notin bad}}
    BY Zenon DEF dir_find_ino, Searched
  <2>2. U = T
    BY <1>1
  <2> HIDE DEF U, T, found
  <2> QED
    BY <2>1, <2>2
<1>3. \A b : found(b) = FoundIn(disk[b].entries, n)
  BY DEF FoundIn
<1> HIDE DEF found
<1> QED
  BY <1>2, <1>3

Nameless(n) == n = ""

\* What it finds is in the directory; only padding has no name.
LEMMA FoundInDir ==
    ASSUME ImageOK, NEW d \in DOMAIN inodes, NEW n, NEW bad, NEW t \in dir_find_ino(d, n, bad)
    PROVE  /\ ~Nameless(n) => InDir(disk, inodes[d].tree, n, t)
           /\ Nameless(n) => t = 0
           /\ t \in {0} \cup DOMAIN inodes /\ t \in Nat
<1> DEFINE T == inodes[d].tree
<1>1. PICK k \in Searched(T) : t \in FoundIn(disk[T[<<k>>]].entries, n)
  BY FindIs
<1>2. k \in 0..DIRECT_BLOCK_COUNT - 1 /\ k \in 0..k /\ <<k>> \in DOMAIN T
  <2>1. k \in 0..DIRECT_BLOCK_COUNT - 1 /\ \A j \in 0..k : <<j>> \in DOMAIN T
    BY DEF Searched
  <2>2. k \in 0..k
    BY <2>1
  <2> QED
    BY <2>1, <2>2
<1>3. k \in 0..MaxBlocks - 1 /\ Path(k) = <<k>>
  BY <1>2, DirectPath
<1>4. k \in DirBlocks(T)
  BY <1>2, <1>3 DEF DirBlocks
<1> DEFINE s == disk[T[Path(k)]].entries
<1>5. EntriesOK(inodes, s)
  BY <1>4 DEF ImageOK, DiskOK, DiskOf
<1>6. t \in FoundIn(s, n)
  BY <1>1, <1>3
<1> HIDE DEF s
<1>7. PICK i \in DOMAIN s : t = s[i].inode /\ s[i].name = n
  BY <1>6 DEF FoundIn
<1>8. i \in 1..Len(s) /\ EntryOK(inodes, s[i]) /\ s[i] \in DirEntries
  BY <1>5, <1>7 DEF EntriesOK
<1>9. CASE Real(s[i])
  <2>1. InBlock(s, n, t)
    BY <1>7, <1>8, <1>9 DEF InBlock
  <2>2. InDir(disk, T, n, t)
    BY <1>4, <2>1 DEF InDir, s
  <2>3. n # "" /\ t \in DOMAIN inodes
    BY <1>7, <1>8, <1>9, NamesAssumption DEF EntryOK
  <2>4. t \in Nat
    BY <1>7, <1>8 DEF DirEntries
  <2> QED
    BY <2>2, <2>3, <2>4 DEF Nameless
<1>10. CASE ~Real(s[i])
  <2>1. s[i].inode = 0 /\ s[i].name = ""
    BY <1>8, <1>10 DEF EntryOK
  <2>2. t = 0 /\ n = ""
    BY <1>7, <2>1, Zenon
  <2> QED
    BY <2>2 DEF Nameless
<1> QED
  BY <1>9, <1>10

\* A name in a direct block is found.
LEMMA InDirFound ==
    ASSUME ImageOK, NEW d \in DOMAIN inodes, Filled(inodes[d].tree), NEW n, NEW t,
           NEW k \in DirBlocks(inodes[d].tree), k < DIRECT_BLOCK_COUNT,
           InBlock(disk[inodes[d].tree[Path(k)]].entries, n, t)
    PROVE  t \in dir_find_ino(d, n, {})
<1> DEFINE T == inodes[d].tree
<1>1. k \in Nat /\ DIRECT_BLOCK_COUNT \in Nat
  BY PointersPos DEF DirBlocks
<1>2. k \in 0..DIRECT_BLOCK_COUNT - 1
  BY <1>1
<1>3. ASSUME NEW j \in 0..k PROVE <<j>> \in DOMAIN T
  <2>1. j \in 0..DIRECT_BLOCK_COUNT - 1
    BY <1>1
  <2>2. Path(j) = <<j>> /\ j \in Nat
    BY <2>1, DirectPath
  <2>3. Missing(T, j) = {}
    BY DEF Filled
  <2>4. Path(j) \in DOMAIN T
    BY <2>2, <2>3, MissingPath
  <2> QED
    BY <2>2, <2>4
<1>4. k \in Searched(T)
  BY <1>2, <1>3 DEF Searched
<1>5. Path(k) = <<k>>
  BY <1>2, DirectPath
<1> DEFINE s == disk[T[<<k>>]].entries
<1>6. s \in Seq(DirEntries)
  BY <1>5 DEF ImageOK, DiskOK, DiskOf, EntriesOK
<1>7. InBlock(s, n, t)
  BY <1>5
<1>8. t \in FoundIn(s, n)
  <2> HIDE DEF s
  <2>1. PICK i \in 1..Len(s) : s[i].name = n /\ s[i].inode = t
    BY <1>7 DEF InBlock
  <2>2. i \in DOMAIN s
    BY <1>6, <2>1
  <2> QED
    BY <2>1, <2>2 DEF FoundIn
<1> QED
  BY <1>4, <1>8, FindIs

\* A directory with a block beyond the direct ones has its first indirect block.
LEMMA Indirect ==
    ASSUME NEW T, Filled(T), NEW k \in DirBlocks(T), ~(k < DIRECT_BLOCK_COUNT)
    PROVE  <<DIRECT_BLOCK_COUNT>> \in DOMAIN T
<1> DEFINE n == DIRECT_BLOCK_COUNT
<1>1. n \in Nat /\ POINTERS \in Nat \ {0} /\ k \in Nat
  BY PointersPos DEF DirBlocks
<1>2. n \in 0..k
  BY <1>1
<1>3. Missing(T, n) = {}
  BY <1>2 DEF Filled
<1>4. Path(n) = <<n, 0>>
  <2>1. n - n = 0 /\ ~(n - n < 0) /\ n - n - POINTERS < 0
    BY <1>1
  <2> QED
    BY <2>1, Zenon DEF Path
<1> DEFINE p == <<n, 0>>
           q == SubSeq(p, 1, 1)
<1>5. p \in Seq(Nat) /\ Len(p) = 2 /\ p[1] = n
  BY <1>1
<1>6. 1 \in 1..Len(Path(n)) /\ SubSeq(Path(n), 1, 1) = <<n>>
  <2> HIDE DEF p
  <2>1. q \in Seq(Nat) /\ Len(q) = 1 /\ q[1] = n
    BY <1>5
  <2> HIDE DEF q
  <2>2. q = <<n>>
    BY <2>1
  <2>3. 1 \in 1..Len(p)
    BY <1>5
  <2> QED
    BY <1>4, <2>2, <2>3 DEF p, q
<1>7. SubSeq(Path(n), 1, 1) \in DOMAIN T
  BY <1>3, <1>6, Zenon DEF Missing
<1> QED
  BY <1>6, <1>7

\* What namex does with one name.
Find(ino, name, bad) ==
    LET found == dir_find_ino(ino, name, bad)
    IN IF inode_get(ino).mode # "DIR" \/ found = {} THEN 0 ELSE Min(found)

\* An image with all of its copies.
Ready == ImageOK /\ CopiesOK /\ RootOf(inodes, disk, copied, {})

\* It finds an inode of the directory, or none.
LEMMA FindResult ==
    ASSUME ImageOK, NEW ino \in DOMAIN inodes, NEW name, NEW bad
    PROVE  /\ Find(ino, name, bad) \in {0} \cup DOMAIN inodes
           /\ Find(ino, name, bad) # 0 =>
                 /\ inodes[ino].mode = "DIR" /\ Find(ino, name, bad) \in dir_find_ino(ino, name, bad)
                 /\ InDir(disk, inodes[ino].tree, name, Find(ino, name, bad))
<1> DEFINE S == dir_find_ino(ino, name, bad)
           t == Find(ino, name, bad)
<1>1. inode_get(ino) = inodes[ino]
  BY InodeGet
<1>2. t = IF inodes[ino].mode # "DIR" \/ S = {} THEN 0 ELSE Min(S)
  BY <1>1 DEF Find
<1>3. \A s \in S : /\ s \in {0} \cup DOMAIN inodes /\ s \in Nat
                   /\ ~Nameless(name) => InDir(disk, inodes[ino].tree, name, s)
                   /\ Nameless(name) => s = 0
  BY FoundInDir
<1> HIDE DEF S, t
<1>4. S # {} => Min(S) \in S
  <2>1. S \in SUBSET Nat
    BY <1>3
  <2> QED
    BY <2>1, MinNat
<1>5. t \in {0} \cup DOMAIN inodes
  BY <1>2, <1>3, <1>4
<1>6. ASSUME t # 0 PROVE inodes[ino].mode = "DIR" /\ t \in S
  BY <1>2, <1>4, <1>6
<1>7. ASSUME t # 0 PROVE InDir(disk, inodes[ino].tree, name, t)
  BY <1>3, <1>6, <1>7
<1> QED
  BY <1>5, <1>6, <1>7 DEF S, t

\* A block that cannot be read hides a name, and never leads to another file.
LEMMA FindBad ==
    ASSUME Ready, NEW ino \in DOMAIN inodes, NEW name, NEW bad, Find(ino, name, bad) # 0
    PROVE  /\ ino = 1 /\ InDir(disk, inodes[1].tree, name, Find(ino, name, bad))
           /\ Find(ino, name, {}) = Find(ino, name, bad)
<1> DEFINE S == dir_find_ino(ino, name, {})
           t == Find(ino, name, bad)
           T == inodes[ino].tree
<1>1. ImageOK /\ OneName(disk, inodes[1].tree)
  BY DEF Ready, RootOf
<1>2. /\ inodes[ino].mode = "DIR" /\ t \in dir_find_ino(ino, name, bad)
      /\ InDir(disk, T, name, t)
  BY <1>1, FindResult
<1>3. ino = 1
  BY <1>2 DEF Ready, RootOf
<1>4. t \in S
  <2>1. PICK k \in Searched(T) : t \in FoundIn(disk[T[<<k>>]].entries, name)
    BY <1>1, <1>2, FindIs
  <2> QED
    BY <1>1, <2>1, FindIs
<1>5. ~Nameless(name)
  <2>1. t # 0
    OBVIOUS
  <2> QED
    BY <1>1, <1>2, <2>1, FoundInDir
<1>6. ASSUME NEW s \in S PROVE s = t
  <2>1. InDir(disk, T, name, s)
    BY <1>1, <1>5, FoundInDir
  <2> QED
    BY <1>1, <1>2, <1>3, <2>1 DEF OneName
<1>7. S = {t}
  BY <1>4, <1>6
<1>8. Min(S) = t
  <2>1. t \in Nat
    BY <1>1, <1>2, FoundInDir
  <2>2. S \in SUBSET Nat /\ S # {}
    BY <1>7, <2>1
  <2>3. Min(S) \in S
    BY <2>2, MinNat
  <2> QED
    BY <1>7, <2>3
<1>9. inode_get(ino) = inodes[ino]
  BY <1>1, InodeGet
<1>10. Find(ino, name, {}) = t
  <2> HIDE DEF t
  <2> QED
    BY <1>2, <1>7, <1>8, <1>9 DEF Find
<1> QED
  BY <1>2, <1>3, <1>10

\* namex as it goes over the names of a path.
WalkEq(f, path, bad) ==
    f = [i \in 0..Len(path) |->
            IF i = 0 THEN ROOT_INO ELSE IF f[i - 1] = 0 THEN 0 ELSE Find(f[i - 1], path[i], bad)]
Walk(f, path, bad) ==
    /\ f[0] = 1 /\ \A i \in 0..Len(path) : f[i] \in {0} \cup DOMAIN inodes
    /\ \A i \in 1..Len(path) : f[i] = IF f[i - 1] = 0 THEN 0 ELSE Find(f[i - 1], path[i], bad)

\* It ends with what namex returns.
LEMMA NamexIs ==
    ASSUME ImageOK, NEW path, Len(path) \in Nat, NEW bad
    PROVE  \E f : Walk(f, path, bad) /\ namex(path, bad) = f[Len(path)]
<1> DEFINE n == Len(path)
           S == {0} \cup DOMAIN inodes
           step == [y \in S \X (1..n) |-> IF y[1] = 0 THEN 0 ELSE Find(y[1], path[y[2]], bad)]
<1>1. \A x \in S, i \in 1..n : (IF x = 0 THEN 0 ELSE Find(x, path[i], bad)) \in S
  BY FindResult
<1>2. step \in [S \X (1..n) -> S]
  BY <1>1
<1>3. \A x \in S, i \in 1..n : step[<<x, i>>] = IF x = 0 THEN 0 ELSE Find(x, path[i], bad)
  OBVIOUS
<1>4. 1 \in S
  BY DEF ImageOK, DiskOK, DiskOf
<1> HIDE DEF step, S
<1>5. PICK r : IsRun(r, n, S, 1, step)
  <2> DEFINE base == 1
  <2>1. base \in S /\ n \in Nat
    BY <1>4
  <2> HIDE DEF base, n
  <2>2. \E r : IsRun(r, n, S, base, step)
    BY <1>2, <2>1, Recursion
  <2> QED
    BY <2>2 DEF base
<1>6. r \in [0..n -> S] /\ r[0] = 1 /\ \A i \in 1..n : r[i] = step[<<r[i - 1], i>>]
  BY <1>5 DEF IsRun
<1>7. n \in Nat
  OBVIOUS
<1>8. \A i \in 1..n : i - 1 \in 0..n /\ r[i - 1] \in S
  <2> HIDE DEF n
  <2> QED
    BY <1>6, <1>7
<1>9. \A i \in 1..n : r[i] = IF r[i - 1] = 0 THEN 0 ELSE Find(r[i - 1], path[i], bad)
  BY <1>3, <1>6, <1>8
<1>10. WalkEq(r, path, bad)
  <2>1. \A i \in 0..n : r[i] = IF i = 0 THEN ROOT_INO
                               ELSE IF r[i - 1] = 0 THEN 0 ELSE Find(r[i - 1], path[i], bad)
    <3> HIDE DEF n
    <3>1. \A i \in 0..n : i = 0 \/ i \in 1..n
      BY <1>7
    <3> QED
      BY <1>6, <1>9, <3>1 DEF ROOT_INO
  <2> QED
    BY <1>6, <2>1 DEF WalkEq
<1> DEFINE f == CHOOSE g : WalkEq(g, path, bad)
<1>11. namex(path, bad) = f[n]
  BY Zenon DEF namex, walk, WalkEq, Find
<1>12. WalkEq(f, path, bad)
  BY <1>10
<1> HIDE DEF f
<1>13. /\ f[0] = 1
       /\ \A i \in 1..n : f[i] = IF f[i - 1] = 0 THEN 0 ELSE Find(f[i - 1], path[i], bad)
  BY <1>7, <1>12 DEF WalkEq, ROOT_INO
<1> DEFINE G == {i \in Nat : i <= n => f[i] \in S}
<1>14. 0 \in G
  BY <1>4, <1>13
<1>15. ASSUME NEW i \in Nat, i \in G PROVE i + 1 \in G
  <2> SUFFICES ASSUME i + 1 <= n PROVE f[i + 1] \in S
    OBVIOUS
  <2> HIDE DEF n
  <2>1. i + 1 \in 1..n /\ (i + 1) - 1 = i /\ f[i] \in S
    BY <1>7, <1>15
  <2>2. f[i + 1] = IF f[i] = 0 THEN 0 ELSE Find(f[i], path[i + 1], bad)
    BY <1>13, <2>1
  <2> QED
    BY <1>1, <2>1, <2>2
<1>16. Nat \subseteq G
  <2> HIDE DEF G
  <2> QED
    BY <1>14, <1>15, Induction
<1>17. \A i \in 0..n : f[i] \in S
  BY <1>7, <1>16
<1>18. Walk(f, path, bad)
  BY <1>13, <1>17 DEF Walk, S
<1> QED
  BY <1>11, <1>18

\* When mkfs is done the image has all of its copies.
LEMMA DoneReady ==
    ASSUME ImageInv, RootInv, pc = "done"
    PROVE  Ready
<1>1. ImageOK /\ CopiesOK /\ ~Lost /\ Pending = {}
  BY DEF ImageInv, Unmade, RootInv, Lost, Pending, Fresh
<1>2. RootOK
  BY <1>1 DEF RootInv
<1> QED
  BY <1>1, <1>2 DEF Ready, RootOK

\* A path of one name.
LEMMA NamexOne ==
    ASSUME ImageOK, NEW path, Len(path) = 1, NEW bad
    PROVE  namex(path, bad) = Find(1, path[1], bad)
<1>2. Len(path) \in Nat /\ 1 \in 1..Len(path) /\ 1 - 1 = 0
  OBVIOUS
<1>1. PICK f : Walk(f, path, bad) /\ namex(path, bad) = f[Len(path)]
  BY <1>2, NamexIs, Zenon
<1>3. f[1] = IF f[1 - 1] = 0 THEN 0 ELSE Find(f[1 - 1], path[1], bad)
  BY <1>1, <1>2, Zenon DEF Walk
<1>4. f[0] = 1
  BY <1>1 DEF Walk
<1> QED
  BY <1>1, <1>2, <1>3, <1>4

\* A name of the root is found, unless it is beyond the direct blocks.
LEMMA FindName ==
    ASSUME Ready, NEW n, NEW t, InDir(disk, inodes[1].tree, n, t)
    PROVE  \/ Find(1, n, {}) = t /\ t \in DOMAIN inodes
           \/ Find(1, n, {}) = 0 /\ <<DIRECT_BLOCK_COUNT>> \in DOMAIN inodes[1].tree
<1> DEFINE T == inodes[1].tree
           S == dir_find_ino(1, n, {})
           x == Find(1, n, {})
           one == 1
<1>1. ImageOK /\ OneName(disk, T) /\ Filled(T)
  BY DEF Ready, RootOf
<1>2. 1 \in DOMAIN inodes /\ inodes[1].mode = "DIR" /\ DiskOf(inodes, disk, Meta, Taken)
  BY <1>1 DEF ImageOK, DiskOK, DiskOf
<1>3. t \in DOMAIN inodes /\ n # ""
  <2>1. one \in DOMAIN inodes /\ InDir(disk, inodes[one].tree, n, t)
    BY <1>2
  <2> HIDE DEF one
  <2> QED
    BY <1>2, <2>1, InDirInode
<1>4. ASSUME x # 0 PROVE x = t
  <2>1. InDir(disk, T, n, x)
    <3>1. one \in DOMAIN inodes /\ Find(one, n, {}) # 0
      BY <1>2, <1>4
    <3> HIDE DEF one
    <3>2. InDir(disk, inodes[one].tree, n, Find(one, n, {}))
      BY <1>1, <3>1, FindResult
    <3> QED
      BY <3>2 DEF one
  <2> HIDE DEF x, T
  <2> QED
    BY <1>1, <2>1 DEF OneName, T
<1>5. ASSUME x = 0 PROVE <<DIRECT_BLOCK_COUNT>> \in DOMAIN T
  <2>1. PICK k \in DirBlocks(T) : InBlock(disk[T[Path(k)]].entries, n, t)
    BY DEF InDir
  <2>2. CASE k < DIRECT_BLOCK_COUNT
    <3>1. t \in S
      <4>1. /\ one \in DOMAIN inodes /\ Filled(inodes[one].tree) /\ k \in DirBlocks(inodes[one].tree)
            /\ InBlock(disk[inodes[one].tree[Path(k)]].entries, n, t)
        BY <1>1, <1>2, <2>1
      <4> HIDE DEF one
      <4>2. t \in dir_find_ino(one, n, {})
        BY <1>1, <2>2, <4>1, InDirFound
      <4> QED
        BY <4>2 DEF one
    <3>2. inode_get(1) = inodes[1]
      <4>1. one \in DOMAIN inodes
        BY <1>2
      <4> HIDE DEF one
      <4>2. inode_get(one) = inodes[one]
        BY <1>1, <4>1, InodeGet
      <4> QED
        BY <4>2 DEF one
    <3>3. x = Min(S)
      BY <1>2, <3>1, <3>2 DEF Find
    <3>4. ASSUME NEW s \in S PROVE s \in Nat /\ s # 0
      <4>1. one \in DOMAIN inodes /\ s \in dir_find_ino(one, n, {})
        BY <1>2
      <4> HIDE DEF one
      <4>2. s \in Nat /\ (~Nameless(n) => InDir(disk, inodes[one].tree, n, s))
        BY <1>1, <4>1, FoundInDir
      <4>3. InDir(disk, inodes[one].tree, n, s)
        BY <1>3, <4>2 DEF Nameless
      <4>4. s \in DOMAIN inodes
        BY <1>2, <4>1, <4>3, InDirInode
      <4>5. DOMAIN inodes = 1..InUse
        BY <1>1 DEF ImageOK, Layout
      <4> QED
        BY <4>2, <4>4, <4>5
    <3>5. Min(S) \in S
      <4>1. S \in SUBSET Nat /\ S # {}
        BY <3>1, <3>4
      <4> HIDE DEF S
      <4> QED
        BY <4>1, MinNat
    <3> QED
      BY <1>5, <3>3, <3>4, <3>5
  <2>3. CASE ~(k < DIRECT_BLOCK_COUNT)
    <3> HIDE DEF T
    <3> QED
      BY <1>1, <2>1, <2>3, Indirect
  <2> QED
    BY <2>2, <2>3
<1> QED
  BY <1>3, <1>4, <1>5

\* What mkfs says it copied is there for axfs.
LEMMA CopiedFollows ==
    ASSUME ImageInv, RootInv
    PROVE  CopiedIsFound
<1> SUFFICES ASSUME pc = "done", NEW c \in copied
             PROVE  LET ino == namex(c.path, {}) IN
                    \/ /\ ino # 0 /\ inodes[ino].mode = "REG" /\ inodes[ino].size = c.size
                       /\ \A k \in 0..Ceil(c.size, BLOCK_SIZE) - 1 :
                            disk[inodes[ino].tree[Path(k)]] = Data(c.src, k)
                    \/ ino = 0 /\ \E d \in DOMAIN inodes :
                            /\ inodes[d].mode = "DIR"
                            /\ <<DIRECT_BLOCK_COUNT>> \in DOMAIN inodes[d].tree
  BY Zenon DEF CopiedIsFound
<1> DEFINE n == c.path[1]
           ino == namex(c.path, {})
<1>1. Ready /\ ImageOK
  BY DoneReady DEF Ready
<1>2. Len(c.path) = 1
  BY <1>1 DEF Ready, CopiesOK
<1>3. ino = Find(1, n, {})
  BY <1>1, <1>2, NamexOne
<1>4. PICK t \in DOMAIN inodes : InDir(disk, inodes[1].tree, n, t) /\ Holds(inodes, disk, c, t)
  BY <1>1, Zenon DEF Ready, RootOf
<1>5. \/ ino = t
      \/ ino = 0 /\ <<DIRECT_BLOCK_COUNT>> \in DOMAIN inodes[1].tree
  BY <1>1, <1>3, <1>4, FindName
<1>6. t # 0
  <2>1. DOMAIN inodes = 1..InUse
    BY <1>1 DEF ImageOK, Layout
  <2> QED
    BY <1>4, <2>1
<1>7. 1 \in DOMAIN inodes /\ inodes[1].mode = "DIR"
  BY <1>1 DEF ImageOK, DiskOK, DiskOf
<1> HIDE DEF ino
<1>8. CASE ino = t
  BY <1>4, <1>6, <1>8 DEF Holds, ino
<1>9. CASE ino = 0 /\ <<DIRECT_BLOCK_COUNT>> \in DOMAIN inodes[1].tree
  BY <1>7, <1>9 DEF ino
<1> QED
  BY <1>5, <1>8, <1>9

\* Every file that mkfs says it copied is found by axfs under its path, with its
\* size and its data, except in a root directory with indirect blocks, which axfs
\* does not search.
THEOREM CopiedInvariant == Spec => []CopiedIsFound
<1>1. ImageInv /\ RootInv => CopiedIsFound
  BY CopiedFollows
<1> QED
  BY <1>1, ImageInvariant, RootInvariant, PTL

-----------------------------------------------------------------------------
(* What a process reads.                                                   *)

\* The byte at offset i of block b, and the bytes that the direct blocks of the inode
\* t lead to.
ByteOf(D, b, i) ==
    IF b \in DOMAIN D THEN <<D[b].src, D[b].k * BLOCK_SIZE + i>> ELSE <<"", b * BLOCK_SIZE + i>>
Bytes(I, D, t) ==
    [i \in Nat |-> ByteOf(D, I[t].tree[<<i \div BLOCK_SIZE>>], i % BLOCK_SIZE)]
Start(h, n) == [i \in 1..n |-> h[i - 1]]

\* An open file, which is of the inode t and has given the bytes o if its open could
\* read the metadata.
IsFile(r) == r = [path |-> r.path, inode |-> r.inode, f_pos |-> r.f_pos, f_refs |-> r.f_refs,
                  stale |-> r.stale]
Opened(r) ==
    IsFile(r) /\ r.f_refs = 1 /\ r.path \in Seq(STRING) /\ r.stale \in BOOLEAN
Streamed(I, D, t, r, o) ==
    /\ t \in DOMAIN I /\ I[t].mode = "REG" /\ r.inode = I[t]
    /\ r.f_pos \in Nat /\ r.f_pos <= I[t].size
    /\ r.f_pos <= DIRECT_BLOCK_COUNT * BLOCK_SIZE
    /\ o = Start(Bytes(I, D, t), r.f_pos)
Reads(I, D, t, r, o) == ~r.stale => Streamed(I, D, t, r, o)
InOrder(f) == Opened(file[f]) /\ Reads(inodes, disk, namex(file[f].path, {}), file[f], out[f])

\* Every descriptor has an object of its own.
Tables(F, N) ==
    /\ F \in [Procs -> [Fds -> N \cup {NULL}]]
    /\ \A p, q \in Procs : \A i, j \in Fds :
         F[p][i] = F[q][j] /\ F[p][i] # NULL => p = q /\ i = j

FilesOK ==
    /\ DOMAIN file \subseteq FileObjects /\ DOMAIN out = DOMAIN file
    /\ Tables(files, DOMAIN file)
    /\ pc # "done" => DOMAIN file = {}
    /\ \A f \in DOMAIN file : InOrder(f)

\* dir_find_ino in the directory with the tree T on the disk D.
FindAll(T, D, name, bad) ==
    LET direct == {k \in 0..DIRECT_BLOCK_COUNT - 1 : \A j \in 0..k : <<j>> \in DOMAIN T}
        found(b) == {D[b].entries[i].inode : i \in {j \in DOMAIN D[b].entries :
                        D[b].entries[j].name = name}}
    IN UNION {found(T[<<k>>]) : k \in {k \in direct : T[<<k>>] \notin bad}}

\* A path leads to the same file as long as the image is not written.
LEMMA NamexSame ==
    ASSUME UNCHANGED mkfsVars, NEW path, NEW bad
    PROVE  namex(path, bad)' = namex(path, bad)
<1>1. inodes' = inodes /\ disk' = disk /\ bg' = bg
  BY DEF mkfsVars, maps
<1>2. ASSUME NEW i PROVE seek_inode(i)' = seek_inode(i) /\ inode_read(i)' = inode_read(i)
  <2>1. \A g : bg_inode_table(g)' = bg_inode_table(g)
    BY <1>1 DEF bg_inode_table
  <2>2. \A g : get_bg_inode_table(g)' = get_bg_inode_table(g)
    BY <1>1, <2>1 DEF get_bg_inode_table, seek_desc, SECTOR_NO, desc_block
  <2>3. inode_block(i)' = inode_block(i)
    BY <2>2 DEF inode_block
  <2> QED
    BY <2>1, <2>3 DEF seek_inode, inode_read, SECTOR_NO
<1>3. ASSUME NEW i PROVE inode_get(i)' = inode_get(i)
  BY <1>1, <1>2 DEF inode_get
<1>4. ASSUME NEW i, NEW n PROVE dir_find_ino(i, n, bad)' = dir_find_ino(i, n, bad)
  <2>1. dir_find_ino(i, n, bad) = FindAll(inode_get(i).tree, disk, n, bad)
    BY DEF dir_find_ino, FindAll
  <2>2. dir_find_ino(i, n, bad)' = FindAll(inode_get(i)'.tree, disk', n, bad)
    BY DEF dir_find_ino, FindAll
  <2> QED
    BY <1>1, <1>3, <2>1, <2>2
<1>5. \A i, n : Find(i, n, bad)' = Find(i, n, bad)
  BY <1>3, <1>4 DEF Find
<1>6. \A g : WalkEq(g, path, bad)' <=> WalkEq(g, path, bad)
  BY <1>5 DEF WalkEq
<1>7. namex(path, bad) = (CHOOSE g : WalkEq(g, path, bad))[Len(path)]
  BY Zenon DEF namex, walk, WalkEq, Find
<1>8. namex(path, bad)' = (CHOOSE g : WalkEq(g, path, bad)')[Len(path)]
  BY Zenon DEF namex, walk, WalkEq, Find
<1>9. (CHOOSE g : WalkEq(g, path, bad)') = (CHOOSE g : WalkEq(g, path, bad))
  BY <1>6
<1> QED
  BY <1>7, <1>8, <1>9

\* A path that leads somewhere although blocks could not be read leads there when
\* they can.
LEMMA NamexBad ==
    ASSUME Ready, NEW path, Len(path) \in Nat, NEW bad, namex(path, bad) # 0
    PROVE  namex(path, {}) = namex(path, bad) /\ namex(path, bad) \in DOMAIN inodes
<1> DEFINE n == Len(path)
<1>1. ImageOK
  BY DEF Ready
<1>2. PICK f : Walk(f, path, bad) /\ namex(path, bad) = f[Len(path)]
  BY <1>1, NamexIs
<1>3. PICK g : Walk(g, path, {}) /\ namex(path, {}) = g[Len(path)]
  BY <1>1, NamexIs
<1> DEFINE G == {i \in Nat : i <= n /\ f[i] # 0 => g[i] = f[i]}
<1>4. 0 \in G
  BY <1>2, <1>3 DEF Walk
<1>5. ASSUME NEW i \in Nat, i \in G PROVE i + 1 \in G
  <2> SUFFICES ASSUME i + 1 <= n, f[i + 1] # 0 PROVE g[i + 1] = f[i + 1]
    OBVIOUS
  <2>1. i + 1 \in 1..Len(path) /\ i \in 0..Len(path) /\ (i + 1) - 1 = i
    OBVIOUS
  <2>2. /\ f[i + 1] = IF f[i] = 0 THEN 0 ELSE Find(f[i], path[i + 1], bad)
        /\ f[i] \in {0} \cup DOMAIN inodes
    <3>1. f[i + 1] = IF f[(i + 1) - 1] = 0 THEN 0 ELSE Find(f[(i + 1) - 1], path[i + 1], bad)
      BY <1>2, <2>1, Zenon DEF Walk
    <3> QED
      BY <1>2, <2>1, <3>1 DEF Walk
  <2>3. g[i + 1] = IF g[i] = 0 THEN 0 ELSE Find(g[i], path[i + 1], {})
    <3>1. g[i + 1] = IF g[(i + 1) - 1] = 0 THEN 0 ELSE Find(g[(i + 1) - 1], path[i + 1], {})
      BY <1>3, <2>1, Zenon DEF Walk
    <3> QED
      BY <2>1, <3>1
  <2>4. f[i] # 0 /\ f[i] \in DOMAIN inodes /\ g[i] = f[i]
    BY <1>5, <2>1, <2>2
  <2>5. Find(f[i], path[i + 1], {}) = Find(f[i], path[i + 1], bad)
    BY <2>2, <2>4, FindBad
  <2> QED
    BY <2>2, <2>3, <2>4, <2>5
<1>6. Nat \subseteq G
  <2> HIDE DEF G
  <2> QED
    BY <1>4, <1>5, Induction
<1>7. g[n] = f[n]
  BY <1>2, <1>6
<1>8. f[n] \in {0} \cup DOMAIN inodes
  BY <1>2 DEF Walk
<1> QED
  BY <1>2, <1>3, <1>7, <1>8

\* A file that a path leads to is in the root, under the last name of the path.
LEMMA NamexLast ==
    ASSUME Ready, NEW path, Len(path) \in Nat, NEW t, namex(path, {}) = t, t # 0, t # 1
    PROVE  \E n : Find(1, n, {}) = t /\ InDir(disk, inodes[1].tree, n, t)
<1> DEFINE m == Len(path)
<1>1. ImageOK
  BY DEF Ready
<1>2. PICK f : Walk(f, path, {}) /\ namex(path, {}) = f[Len(path)]
  BY <1>1, NamexIs
<1>3. m \in 1..Len(path) /\ m - 1 \in 0..Len(path)
  BY <1>2 DEF Walk
<1>4. /\ f[m] = IF f[m - 1] = 0 THEN 0 ELSE Find(f[m - 1], path[m], {})
      /\ f[m - 1] \in {0} \cup DOMAIN inodes
  BY <1>2, <1>3, Zenon DEF Walk
<1>5. f[m - 1] \in DOMAIN inodes /\ t = Find(f[m - 1], path[m], {})
  BY <1>2, <1>4
<1> HIDE DEF m
<1>6. f[m - 1] = 1 /\ InDir(disk, inodes[1].tree, path[m], Find(f[m - 1], path[m], {}))
  BY <1>5, FindBad
<1> QED
  BY <1>5, <1>6

\* A function on 1..n is a sequence.
LEMMA FunIsSeq ==
    ASSUME NEW n \in Nat, NEW S, NEW s \in [1..n -> S]
    PROVE  s \in Seq(S) /\ Len(s) = n
  OBVIOUS

\* The beginning of a file and what comes after it.
LEMMA StartMore ==
    ASSUME NEW h, NEW p \in Nat, NEW b \in Nat, NEW d, d = [i \in 1..b |-> h[p + i - 1]]
    PROVE  Start(h, p) \o d = Start(h, p + b)
<1> DEFINE s == Start(h, p)
           S == {h[i - 1] : i \in 1..p + b}
<1>1. s = [i \in 1..p |-> h[i - 1]]
  BY DEF Start
<1>2. s \in Seq(S) /\ Len(s) = p
  <2>1. ASSUME NEW i \in 1..p PROVE h[i - 1] \in S
    <3>1. i \in 1..p + b
      OBVIOUS
    <3> QED
      BY <3>1
  <2>2. s \in [1..p -> S]
    <3> HIDE DEF S
    <3> QED
      BY <1>1, <2>1
  <2> QED
    BY <2>2, FunIsSeq, Zenon
<1>3. d \in Seq(S) /\ Len(d) = b
  <2>1. ASSUME NEW i \in 1..b PROVE h[p + i - 1] \in S
    <3>1. p + i \in 1..p + b /\ (p + i) - 1 = p + i - 1
      OBVIOUS
    <3> QED
      BY <3>1
  <2>2. d \in [1..b -> S]
    <3> HIDE DEF S
    <3> QED
      BY <2>1
  <2> HIDE DEF S
  <2> QED
    BY <2>2, FunIsSeq
<1> HIDE DEF s, S
<1>4. /\ Len(s \o d) = p + b /\ s \o d \in Seq(S)
      /\ \A i \in 1..p + b : (s \o d)[i] = IF i <= p THEN s[i] ELSE d[i - p]
  BY <1>2, <1>3
<1>5. ASSUME NEW i \in 1..p + b PROVE (s \o d)[i] = h[i - 1]
  <2>1. CASE i <= p
    BY <1>1, <1>4, <2>1
  <2>2. CASE ~(i <= p)
    <3>1. i - p \in 1..b /\ p + (i - p) - 1 = i - 1
      BY <2>2
    <3> QED
      BY <1>4, <2>2, <3>1
  <2> QED
    BY <2>1, <2>2
<1> DEFINE e == s \o d
<1>6. e \in Seq(S) /\ Len(e) = p + b /\ \A i \in 1..p + b : e[i] = h[i - 1]
  BY <1>4, <1>5
<1> HIDE DEF e
<1>7. e = [i \in 1..p + b |-> h[i - 1]]
  BY <1>6
<1> QED
  BY <1>7 DEF e, s, Start

\* read_file gives the bytes from the position on, and moves it by as many.
LEMMA ReadMore ==
    ASSUME ImageOK, NEW t, NEW r, NEW o, Streamed(inodes, disk, t, r, o), NEW size \in Nat, NEW bad
    PROVE  LET x == read_file(r.inode, r.f_pos, size, bad)
               p == IF x.ret > 0 THEN r.f_pos + x.ret ELSE r.f_pos
           IN  /\ p \in Nat /\ p <= inodes[t].size /\ p <= DIRECT_BLOCK_COUNT * BLOCK_SIZE
               /\ o \o x.data = Start(Bytes(inodes, disk, t), p)
<1> DEFINE pos == r.f_pos
           x == read_file(r.inode, pos, size, bad)
           h == Bytes(inodes, disk, t)
           len == inodes[t].size
           most == DIRECT_BLOCK_COUNT * BLOCK_SIZE
           S == {size, len - pos, most - pos}
           bytes == Min(S)
           block(n) == inodes[t].tree[<<n \div BLOCK_SIZE>>]
           d == [i \in 1..bytes |-> Byte(block(pos + i - 1), (pos + i - 1) % BLOCK_SIZE)]
<1>1. /\ t \in DOMAIN inodes /\ pos \in Nat /\ pos <= len /\ pos <= most /\ o = Start(h, pos)
  BY DEF Streamed
<1>2. len \in Nat /\ BLOCK_SIZE \in Nat \ {0} /\ DIRECT_BLOCK_COUNT \in Nat /\ most \in Nat
  BY <1>1, SizesAssumption, GroupAssumption DEF ImageOK, DiskOK, DiskOf
<1>3. r.inode = inodes[t]
  BY DEF Streamed
<1>4. CASE x.ret = bytes /\ x.data = d
  <2>1. S \in SUBSET Nat /\ S # {}
    <3> HIDE DEF len, pos, most
    <3> QED
      BY <1>1, <1>2
  <2>2. bytes \in S /\ \A y \in S : bytes <= y
    <3> HIDE DEF S
    <3> QED
      BY <2>1, MinNat
  <2>3. bytes \in Nat /\ bytes <= len - pos /\ bytes <= most - pos
    BY <2>1, <2>2
  <2>4. d = [i \in 1..bytes |-> h[pos + i - 1]]
    <3>1. ASSUME NEW i \in 1..bytes
          PROVE  Byte(block(pos + i - 1), (pos + i - 1) % BLOCK_SIZE) = h[pos + i - 1]
      <4> DEFINE n == pos + i - 1
      <4>1. n \in Nat
        <5> HIDE DEF pos, bytes
        <5> QED
          BY <1>1, <2>3
      <4> HIDE DEF n
      <4>2. Byte(block(n), n % BLOCK_SIZE) = h[n]
        BY <4>1, Zenon DEF Byte, ByteOf, Bytes
      <4> QED
        BY <4>2, Zenon DEF n
    <3> HIDE DEF h, bytes
    <3> QED
      BY <3>1
  <2> HIDE DEF bytes, d, h, S
  <2>5. o \o d = Start(h, pos + bytes)
    BY <1>1, <2>3, <2>4, StartMore
  <2> HIDE DEF x, pos, len, most
  <2>6. (IF x.ret > 0 THEN pos + x.ret ELSE pos) = pos + bytes
    BY <1>1, <1>4, <2>3
  <2>7. pos + bytes \in Nat /\ pos + bytes <= len /\ pos + bytes <= most
    BY <1>1, <1>2, <2>3
  <2>8. LET p == IF x.ret > 0 THEN pos + x.ret ELSE pos
        IN p \in Nat /\ p <= len /\ p <= most /\ o \o x.data = Start(h, p)
    BY <1>4, <2>5, <2>6, <2>7
  <2> QED
    BY <2>8 DEF x, pos, len, most, h
<1>5. CASE x.ret \in {0, -1} /\ x.data = <<>>
  <2>1. o \o <<>> = o
    <3> HIDE DEF h
    <3>1. <<>> = [i \in 1..0 |-> h[pos + i - 1]]
      OBVIOUS
    <3> DEFINE z == 0
               e == <<>>
    <3>2. z \in Nat /\ e = [i \in 1..z |-> h[pos + i - 1]]
      BY <3>1
    <3> HIDE DEF z, e
    <3>3. Start(h, pos) \o e = Start(h, pos + z)
      BY <1>1, <3>2, StartMore
    <3>4. pos + z = pos
      BY <1>1 DEF z
    <3> QED
      BY <1>1, <3>3, <3>4 DEF e
  <2> HIDE DEF x, pos, len, most, h
  <2>2. (IF x.ret > 0 THEN pos + x.ret ELSE pos) = pos
    BY <1>5
  <2>3. LET p == IF x.ret > 0 THEN pos + x.ret ELSE pos
        IN p \in Nat /\ p <= len /\ p <= most /\ o \o x.data = Start(h, p)
    BY <1>1, <1>5, <2>1, <2>2
  <2> QED
    BY <2>3 DEF x, pos, len, most, h
<1>6. \/ x.ret = bytes /\ x.data = d
      \/ x.ret \in {0, -1} /\ x.data = <<>>
  <2>1. x \in {[ret |-> bytes, data |-> d], [ret |-> 0, data |-> <<>>], [ret |-> -1, data |-> <<>>]}
    <3>1. bytes_to_read(r.inode, pos, size) = bytes
      BY <1>3 DEF bytes_to_read
    <3>2. \A n : block_at(r.inode, n) = block(n)
      BY <1>3 DEF block_at
    <3> HIDE DEF bytes, block
    <3>3. d = [i \in 1..bytes |-> Byte(block_at(r.inode, pos + i - 1), (pos + i - 1) % BLOCK_SIZE)]
      BY <3>2
    <3> HIDE DEF d
    <3> QED
      BY <3>1, <3>3 DEF read_file
  <2> HIDE DEF x, d, bytes
  <2> QED
    BY <2>1
<1> QED
  BY <1>4, <1>5, <1>6

\* A file object with a value that was in order is in order.
LEMMA InOrderKept ==
    ASSUME UNCHANGED mkfsVars, NEW g, NEW r, NEW o, file'[g] = r, out'[g] = o, Opened(r),
           Reads(inodes, disk, namex(r.path, {}), r, o)
    PROVE  InOrder(g)'
<1>1. namex(r.path, {})' = namex(r.path, {})
  BY NamexSame
<1>2. namex(file[g].path, {})' = namex(r.path, {})'
  BY DEF namex, walk
<1>3. inodes' = inodes /\ disk' = disk
  BY DEF mkfsVars
<1> QED
  BY <1>1, <1>2, <1>3, Zenon DEF InOrder, Opened, IsFile, Reads, Streamed, Bytes

\* A step that leaves the image, the objects and what was read alone.
LEMMA FilesStill ==
    ASSUME FilesOK, UNCHANGED mkfsVars, file' = file, out' = out,
           Tables(files, DOMAIN file)'
    PROVE  FilesOK'
<1>1. pc' = pc
  BY DEF mkfsVars
<1>2. ASSUME NEW f \in DOMAIN file PROVE InOrder(f)'
  <2> DEFINE s == file[f]
  <2>1. file'[f] = s /\ out'[f] = out[f] /\ Opened(s)
        /\ Reads(inodes, disk, namex(s.path, {}), s, out[f])
    BY DEF FilesOK, InOrder
  <2> HIDE DEF s
  <2> QED
    BY <2>1, InOrderKept
<1> QED
  BY <1>1, <1>2 DEF FilesOK

\* A new object that is in order.
LEMMA FilesAdd ==
    ASSUME FilesOK, NEW p \in Procs, pc = "done", UNCHANGED mkfsVars, FreeFds(p) # {},
           FreeObjects # {}, NEW path \in Seq(STRING), NEW inode, NEW stale \in BOOLEAN,
           Opens(p, path, inode, stale),
           ~stale => \E t : t = namex(path, {}) /\ t \in DOMAIN inodes /\ inodes[t].mode = "REG"
                            /\ inodes[t].size \in Nat /\ inode = inodes[t]
    PROVE  FilesOK'
<1> DEFINE f == Min(FreeObjects)
           d == Min(FreeFds(p))
           r == [path |-> path, inode |-> inode, f_pos |-> 0, f_refs |-> 1, stale |-> stale]
<1>1. /\ file' = Put(file, f, r) /\ files' = [files EXCEPT ![p][d] = f] /\ out' = Put(out, f, <<>>)
  BY Zenon DEF Opens
<1>3. inodes' = inodes /\ disk' = disk /\ pc' = pc
  BY DEF mkfsVars
<1>5. f \in FileObjects \ DOMAIN file /\ f # NULL
  <2>1. FreeObjects \in SUBSET Nat
    BY FilesAssumption DEF FreeObjects, FileObjects
  <2>2. Min(FreeObjects) \in FreeObjects
    BY <2>1, MinNat
  <2> QED
    BY <2>2, FilesAssumption DEF FreeObjects, FileObjects, NULL
<1>6. d \in Fds /\ files[p][d] = NULL
  <2>1. FreeFds(p) \in SUBSET Nat
    BY FilesAssumption DEF FreeFds, Fds
  <2>2. Min(FreeFds(p)) \in FreeFds(p)
    BY <2>1, MinNat
  <2> QED
    BY <2>2 DEF FreeFds
<1> HIDE DEF f, d
<1>10. Opened(r)
  BY DEF Opened, IsFile
<1>11. Reads(inodes, disk, namex(r.path, {}), r, <<>>)
  <2> SUFFICES ASSUME ~stale PROVE Streamed(inodes, disk, namex(path, {}), r, <<>>)
    BY DEF Reads
  <2>1. DIRECT_BLOCK_COUNT * BLOCK_SIZE \in Nat
    BY SizesAssumption, GroupAssumption
  <2>2. PICK t : t = namex(path, {}) /\ t \in DOMAIN inodes /\ inodes[t].mode = "REG"
                 /\ inodes[t].size \in Nat /\ inode = inodes[t]
    OBVIOUS
  <2>3. Start(Bytes(inodes, disk, t), 0) = <<>>
    BY DEF Start
  <2> QED
    BY <2>1, <2>2, <2>3 DEF Streamed
<1>12. /\ DOMAIN file' = DOMAIN file \cup {f} /\ DOMAIN out' = DOMAIN out \cup {f}
       /\ file'[f] = r /\ out'[f] = <<>>
       /\ \A g \in DOMAIN file : file'[g] = file[g]
       /\ \A g \in DOMAIN out : out'[g] = out[g]
  <2> HIDE DEF r
  <2> QED
    BY <1>1, <1>5 DEF Put, FilesOK
<1>13. DOMAIN file' \subseteq FileObjects /\ DOMAIN out' = DOMAIN file'
  BY <1>5, <1>12 DEF FilesOK
<1> HIDE DEF r
<1>14. ASSUME NEW g \in DOMAIN file' PROVE InOrder(g)'
  <2>1. CASE g = f
    <3> DEFINE o == <<>>
    <3>1. file'[g] = r /\ out'[g] = o /\ Reads(inodes, disk, namex(r.path, {}), r, o)
      BY <1>11, <1>12, <2>1
    <3> HIDE DEF o
    <3> QED
      BY <1>10, <3>1, InOrderKept
  <2>2. CASE g \in DOMAIN file
    <3> DEFINE s == file[g]
    <3>1. file'[g] = s /\ out'[g] = out[g] /\ Opened(s)
          /\ Reads(inodes, disk, namex(s.path, {}), s, out[g])
      BY <1>12, <2>2 DEF FilesOK, InOrder
    <3> HIDE DEF s
    <3> QED
      BY <3>1, InOrderKept
  <2> QED
    BY <1>12, <2>1, <2>2
<1>15. Tables(files', DOMAIN file')
  <2> DEFINE N == DOMAIN file
             M == DOMAIN file'
  <2>1. Tables(files, N) /\ M = N \cup {f} /\ f \notin N /\ f # NULL
    BY <1>5, <1>12 DEF FilesOK
  <2> HIDE DEF N, M
  <2>2. /\ files' \in [Procs -> [Fds -> M \cup {NULL}]]
    BY <1>1, <1>6, <2>1 DEF Tables
  <2>3. ASSUME NEW q \in Procs, NEW i \in Fds
        PROVE  files'[q][i] = IF q = p /\ i = d THEN f ELSE files[q][i]
    BY <1>1, <1>6, <2>1 DEF Tables
  <2>4. \A q \in Procs, i \in Fds : files[q][i] # f
    BY <2>1 DEF Tables
  <2> QED
    BY <2>1, <2>2, <2>3, <2>4 DEF Tables, M
<1> QED
  BY <1>3, <1>13, <1>14, <1>15 DEF FilesOK

\* sys_open makes an object of its own for a file that is there.
LEMMA FilesOpen ==
    ASSUME ImageInv, RootInv, FilesOK, NEW p \in Procs, sys_open(p)
    PROVE  FilesOK'
<1>1. PICK path \in OpenPaths, bad \in Failures :
        /\ namex(path, bad) # 0
        /\ Opens(p, path, inode_get(namex(path, bad)), FALSE)
  BY Zenon DEF sys_open
<1>2. pc = "done" /\ UNCHANGED mkfsVars /\ FreeFds(p) # {} /\ FreeObjects # {}
  BY DEF sys_open, Booted
<1>3. Ready /\ ImageOK
  BY <1>2, DoneReady DEF Ready
<1> DEFINE ino == namex(path, bad)
           inode == inode_get(ino)
           stale == FALSE
<1>4. path \in Seq(STRING) /\ Len(path) \in Nat
  <2>1. path \in Seq(STRING)
    BY FilesAssumption
  <2> QED
    BY <2>1, LenProperties
<1>5. ino = namex(path, {}) /\ ino \in DOMAIN inodes
  BY <1>1, <1>3, <1>4, NamexBad
<1> HIDE DEF ino
<1>6. inode = inodes[ino]
  BY <1>3, <1>5, InodeGet
<1>7. inodes[ino].mode = "REG" /\ inodes[ino].size \in Nat
  <2>1. inodes[ino].mode # "DIR"
    BY <1>1, <1>6 DEF Opens, ino
  <2> QED
    BY <1>3, <1>5, <2>1 DEF ImageOK, DiskOK, DiskOf
<1>8. Opens(p, path, inode, stale) /\ stale \in BOOLEAN
  BY <1>1 DEF ino
<1> HIDE DEF inode, stale
<1> QED
  BY <1>2, <1>4, <1>5, <1>6, <1>7, <1>8, FilesAdd

\* An open that goes on with what the buffers hold makes an object of its own too.
LEMMA FilesStale ==
    ASSUME FilesOK, NEW p \in Procs, sys_open_stale(p)
    PROVE  FilesOK'
<1>1. pc = "done" /\ UNCHANGED mkfsVars /\ FreeFds(p) # {} /\ FreeObjects # {}
  BY DEF sys_open_stale, Booted
<1>2. PICK path \in OpenPaths :
        \/ \E inode : Opens(p, path, inode, TRUE)
        \/ UNCHANGED <<files, file, out>>
  BY Zenon DEF sys_open_stale
<1>3. path \in Seq(STRING)
  BY FilesAssumption
<1>4. ASSUME NEW inode, Opens(p, path, inode, TRUE) PROVE FilesOK'
  <2> DEFINE stale == TRUE
  <2>1. Opens(p, path, inode, stale) /\ stale \in BOOLEAN /\ ~(~stale)
    BY <1>4
  <2> HIDE DEF stale
  <2> QED
    BY <1>1, <1>3, <2>1, FilesAdd
<1>5. CASE UNCHANGED <<files, file, out>>
  <2>1. Tables(files', DOMAIN file') /\ file' = file /\ out' = out
    BY <1>5 DEF FilesOK
  <2> QED
    BY <1>1, <2>1, FilesStill
<1> QED
  BY <1>2, <1>4, <1>5

\* sys_close releases the object: no other descriptor has it.
LEMMA FilesClose ==
    ASSUME FilesOK, NEW p \in Procs, sys_close(p)
    PROVE  FilesOK'
<1>1. PICK d \in Fds :
        /\ files[p][d] # NULL
        /\ files' = [files EXCEPT ![p][d] = NULL]
        /\ IF file[files[p][d]].f_refs = 1
           THEN /\ file' = [g \in DOMAIN file \ {files[p][d]} |-> file[g]]
                /\ out' = [g \in DOMAIN out \ {files[p][d]} |-> out[g]]
           ELSE /\ file' = [file EXCEPT ![files[p][d]].f_refs = @ - 1]
                /\ UNCHANGED out
  BY Zenon DEF sys_close
<1>2. pc = "done" /\ UNCHANGED mkfsVars
  BY DEF sys_close, Booted
<1>3. inodes' = inodes /\ disk' = disk /\ pc' = pc
  BY <1>2 DEF mkfsVars
<1> DEFINE f == files[p][d]
           N == DOMAIN file
           M == DOMAIN file'
<1>4. Tables(files, N) /\ f \in N /\ f # NULL
  BY <1>1 DEF FilesOK, Tables
<1>5. file[f].f_refs = 1
  BY <1>4 DEF FilesOK, InOrder, Opened
<1>6. /\ file' = [g \in N \ {f} |-> file[g]] /\ out' = [g \in DOMAIN out \ {f} |-> out[g]]
  BY <1>1, <1>5
<1>7. /\ M = N \ {f} /\ DOMAIN out' = M
      /\ \A g \in M : file'[g] = file[g] /\ out'[g] = out[g]
  BY <1>6 DEF FilesOK
<1>8. ASSUME NEW g \in M PROVE InOrder(g)'
  <2> DEFINE s == file[g]
  <2>1. file'[g] = s /\ out'[g] = out[g] /\ Opened(s)
        /\ Reads(inodes, disk, namex(s.path, {}), s, out[g])
    BY <1>7 DEF FilesOK, InOrder
  <2> HIDE DEF s
  <2> QED
    BY <1>2, <2>1, InOrderKept
<1>9. Tables(files', M)
  <2> HIDE DEF N, M
  <2>1. ASSUME NEW q \in Procs, NEW i \in Fds
        PROVE  files'[q][i] = IF q = p /\ i = d THEN NULL ELSE files[q][i]
    BY <1>1, <1>4 DEF Tables
  <2>2. ASSUME NEW q \in Procs, NEW i \in Fds PROVE files'[q][i] \in M \cup {NULL}
    BY <1>4, <1>7, <2>1, <2>2 DEF Tables
  <2>3. files' \in [Procs -> [Fds -> N \cup {NULL}]]
    BY <1>1, <1>4 DEF Tables
  <2>4. files' \in [Procs -> [Fds -> M \cup {NULL}]]
    BY <2>2, <2>3
  <2> HIDE DEF f
  <2> QED
    BY <1>4, <2>1, <2>4 DEF Tables
<1> QED
  BY <1>2, <1>3, <1>7, <1>8, <1>9 DEF FilesOK

\* sys_read goes on where the last one stopped.
LEMMA FilesRead ==
    ASSUME ImageInv, RootInv, FilesOK, NEW p \in Procs, sys_read(p)
    PROVE  FilesOK'
<1>1. PICK d \in Fds, size \in ReadSizes, bad \in Failures :
        LET f == files[p][d]
            x == read_file(file[f].inode, file[f].f_pos, size, bad)
        IN  /\ f # NULL
            /\ file' = [file EXCEPT ![f].f_pos = IF x.ret > 0 THEN @ + x.ret ELSE @]
            /\ out' = [out EXCEPT ![f] = @ \o x.data]
  BY Zenon DEF sys_read
<1>2. pc = "done" /\ UNCHANGED mkfsVars /\ files' = files
  BY DEF sys_read, Booted
<1>3. inodes' = inodes /\ disk' = disk /\ pc' = pc
  BY <1>2 DEF mkfsVars
<1>4. ImageOK
  BY <1>2, DoneReady DEF Ready
<1> DEFINE f == files[p][d]
           s == file[f]
           t == namex(s.path, {})
           x == read_file(s.inode, s.f_pos, size, bad)
           pos == IF x.ret > 0 THEN s.f_pos + x.ret ELSE s.f_pos
           r == [s EXCEPT !.f_pos = pos]
           o == out[f] \o x.data
<1>5. f \in DOMAIN file /\ DOMAIN out = DOMAIN file
  BY <1>1 DEF FilesOK, Tables
<1>6. Opened(s) /\ Reads(inodes, disk, t, s, out[f])
  BY <1>5 DEF FilesOK, InOrder
<1>7. ASSUME ~s.stale
      PROVE  /\ pos \in Nat /\ pos <= inodes[t].size /\ pos <= DIRECT_BLOCK_COUNT * BLOCK_SIZE
             /\ o = Start(Bytes(inodes, disk, t), pos)
  <2>1. size \in Nat
    BY FilesAssumption
  <2>2. Streamed(inodes, disk, t, s, out[f])
    BY <1>6, <1>7 DEF Reads
  <2> HIDE DEF s, f, t
  <2> QED
    BY <1>4, <2>1, <2>2, ReadMore, ZenonT(40)
<1>8. /\ DOMAIN file' = DOMAIN file /\ DOMAIN out' = DOMAIN out
      /\ file'[f] = r /\ out'[f] = o
      /\ \A g \in DOMAIN file \ {f} : file'[g] = file[g] /\ out'[g] = out[g]
  <2> HIDE DEF f
  <2>1. /\ file' = [file EXCEPT ![f].f_pos = IF x.ret > 0 THEN @ + x.ret ELSE @]
        /\ out' = [out EXCEPT ![f] = @ \o x.data]
    BY <1>1 DEF f
  <2> HIDE DEF x
  <2> QED
    BY <1>5, <2>1
<1> HIDE DEF x, pos, o
<1>9. r = [path |-> s.path, inode |-> s.inode, f_pos |-> pos, f_refs |-> s.f_refs,
           stale |-> s.stale]
  <2> HIDE DEF s
  <2>1. s = [path |-> s.path, inode |-> s.inode, f_pos |-> s.f_pos, f_refs |-> s.f_refs,
             stale |-> s.stale]
    BY <1>6 DEF Opened, IsFile
  <2> QED
    BY <2>1
<1> HIDE DEF s, r
<1>10. /\ r.path = s.path /\ r.inode = s.inode /\ r.f_refs = s.f_refs /\ r.f_pos = pos
       /\ r.stale = s.stale /\ IsFile(r)
  BY <1>9 DEF IsFile
<1>11. Opened(r)
  BY <1>6, <1>10 DEF Opened
<1>12. Reads(inodes, disk, namex(r.path, {}), r, o)
  <2>1. namex(r.path, {}) = t
    BY <1>10
  <2> HIDE DEF t
  <2> QED
    BY <1>6, <1>7, <1>10, <2>1 DEF Reads, Streamed
<1> HIDE DEF f, t
<1>13. ASSUME NEW g \in DOMAIN file' PROVE InOrder(g)'
  <2>1. CASE g = f
    <3>1. file'[g] = r /\ out'[g] = o
      BY <1>8, <2>1
    <3> QED
      BY <1>2, <1>11, <1>12, <3>1, InOrderKept
  <2>2. CASE g # f
    <3> DEFINE u == file[g]
    <3>1. file'[g] = u /\ out'[g] = out[g] /\ Opened(u)
          /\ Reads(inodes, disk, namex(u.path, {}), u, out[g])
      BY <1>8, <2>2 DEF FilesOK, InOrder
    <3> HIDE DEF u
    <3> QED
      BY <1>2, <3>1, InOrderKept
  <2> QED
    BY <2>1, <2>2
<1> QED
  BY <1>2, <1>3, <1>5, <1>8, <1>13 DEF FilesOK

\* The table of a process is cleared.
LEMMA FilesClear ==
    ASSUME FilesOK, NEW p \in Procs, UNCHANGED <<mkfsVars, file, out>>,
           files' = [files EXCEPT ![p] = [fd \in Fds |-> NULL]]
    PROVE  FilesOK'
<1> DEFINE N == DOMAIN file
<1>1. Tables(files, N)
  BY DEF FilesOK
<1> HIDE DEF N
<1>2. ASSUME NEW q \in Procs, NEW i \in Fds
      PROVE  files'[q][i] = IF q = p THEN NULL ELSE files[q][i]
  BY <1>1 DEF Tables
<1>3. files' \in [Procs -> [Fds -> N \cup {NULL}]]
  BY <1>1 DEF Tables
<1>4. Tables(files', N)
  BY <1>1, <1>2, <1>3 DEF Tables
<1>5. file' = file /\ out' = out /\ UNCHANGED mkfsVars
  OBVIOUS
<1>6. Tables(files', DOMAIN file')
  BY <1>4, <1>5 DEF N
<1> QED
  BY <1>5, <1>6, FilesStill

\* Every step keeps the open files in order.
LEMMA FilesStep ==
    ASSUME ImageInv, RootInv, FilesOK, [Next]_vars
    PROVE  FilesOK'
<1>1. CASE MkfsNext /\ UNCHANGED fsVars
  <2>1. pc # "done"
    BY <1>1, Zenon
    DEF MkfsNext, mkfs, copy_file, path_found, write_entry_no_inode, write_entry_alloc, write_entry,
        PathMissing, check_space, write_data, write_file, cpfs_end
  <2>2. DOMAIN file = {} /\ file' = file /\ out' = out /\ files' = files
    BY <1>1, <2>1 DEF FilesOK, fsVars
  <2> QED
    BY <2>2 DEF FilesOK
<1>2. CASE \E p \in Procs : sys_open(p) \/ sys_open_stale(p)
  BY <1>2, FilesOpen, FilesStale
<1>3. CASE \E p \in Procs : sys_close(p)
  BY <1>3, FilesClose
<1>4. CASE \E p \in Procs : sys_read(p)
  BY <1>4, FilesRead
<1>5. CASE \E p \in Procs : proc_clone(p)
  <2>1. PICK c \in Procs : files' = [files EXCEPT ![c] = [fd \in Fds |-> NULL]]
    BY <1>5 DEF proc_clone
  <2>2. UNCHANGED <<mkfsVars, file, out>>
    BY <1>5 DEF proc_clone
  <2> QED
    BY <2>1, <2>2, FilesClear
<1>6. CASE \E p \in Procs : proc_exit(p)
  <2>1. PICK c \in Procs : files' = [files EXCEPT ![c] = [fd \in Fds |-> NULL]]
    BY <1>6 DEF proc_exit
  <2>2. UNCHANGED <<mkfsVars, file, out>>
    BY <1>6 DEF proc_exit
  <2> QED
    BY <2>1, <2>2, FilesClear
<1>7. CASE UNCHANGED <<mkfsVars, files, file, out>>
  <2>1. UNCHANGED mkfsVars /\ file' = file /\ out' = out /\ files' = files
    BY <1>7
  <2>2. Tables(files', DOMAIN file')
    BY <2>1 DEF FilesOK
  <2> QED
    BY <2>1, <2>2, FilesStill
<1>8. \/ MkfsNext /\ UNCHANGED fsVars
      \/ \E p \in Procs : \/ sys_open(p) \/ sys_open_stale(p) \/ sys_close(p) \/ sys_read(p)
                          \/ proc_clone(p) \/ proc_exit(p)
      \/ UNCHANGED <<mkfsVars, files, file, out>>
  BY Zenon DEF Next, vfs_open_panic, sys_read_panic, Stopped, vars, fsVars
<1> QED
  BY <1>1, <1>2, <1>3, <1>4, <1>5, <1>6, <1>7, <1>8

\* The bytes of a copy that an inode holds, as far as the direct blocks go.
LEMMA BytesHeld ==
    ASSUME ImageOK, NEW c, c.size \in Nat, NEW t \in DOMAIN inodes, Holds(inodes, disk, c, t),
           NEW n \in Nat, n <= c.size, n <= DIRECT_BLOCK_COUNT * BLOCK_SIZE
    PROVE  Start(Bytes(inodes, disk, t), n) = [i \in 1..n |-> <<c.src, i - 1>>]
<1> DEFINE h == Bytes(inodes, disk, t)
           B == BLOCK_SIZE
<1>1. B \in Nat \ {0} /\ DIRECT_BLOCK_COUNT \in Nat
  BY SizesAssumption, GroupAssumption
<1>2. ASSUME NEW m \in Nat, m < n PROVE h[m] = <<c.src, m>>
  <2> DEFINE k == m \div B
             q == m % B
             b == inodes[t].tree[<<k>>]
  <2>1. k \in Nat /\ q \in 0..B - 1 /\ m = B * k + q
    BY <1>1, Division, Zenon
  <2>2. k \in 0..Ceil(c.size, B) - 1
    <3>1. m < c.size
      BY <1>2
    <3> QED
      BY <1>1, <3>1, CeilBlock
  <2>3. h[m] = ByteOf(disk, b, q)
    BY Zenon DEF Bytes
  <2> HIDE DEF k, q
  <2>4. k \in 0..DIRECT_BLOCK_COUNT - 1
    <3>1. ASSUME k >= DIRECT_BLOCK_COUNT PROVE FALSE
      <4>1. B * k >= B * DIRECT_BLOCK_COUNT
        BY <1>1, <2>1, <3>1
      <4>2. DIRECT_BLOCK_COUNT * B = B * DIRECT_BLOCK_COUNT
        BY <1>1
      <4> QED
        BY <1>1, <1>2, <2>1, <4>1, <4>2
    <3> QED
      BY <1>1, <2>1, <3>1
  <2>5. Path(k) = <<k>>
    BY <2>4, DirectPath
  <2>6. disk[b] = Data(c.src, k) /\ b \in DOMAIN disk
    BY <2>2, <2>5 DEF Holds
  <2>7. disk[b].src = c.src /\ disk[b].k = k
    BY <2>6 DEF Data
  <2>8. k * B + q = m
    BY <1>1, <2>1
  <2> QED
    BY <2>3, <2>6, <2>7, <2>8 DEF ByteOf
<1> HIDE DEF h
<1>3. ASSUME NEW i \in 1..n PROVE h[i - 1] = <<c.src, i - 1>>
  <2>1. i - 1 \in Nat /\ i - 1 < n
    OBVIOUS
  <2> QED
    BY <1>2, <2>1
<1> QED
  BY <1>3 DEF Start, h

\* What a process has read is the beginning of the file.
LEMMA StreamFollows ==
    ASSUME ImageInv, RootInv, FilesOK
    PROVE  StreamIsFile
<1>1. \A p \in Procs, fd \in Fds : files[p][fd] \in DOMAIN file \cup {NULL}
  BY DEF FilesOK, Tables
<1>2. ASSUME NEW f \in DOMAIN file, ~file[f].stale
      PROVE  LET ino == namex(file[f].path, {}) IN
             /\ ino # 0 /\ file[f].inode = inode_get(ino)
             /\ \/ out[f] = <<>> /\ file[f].f_pos = 0
                \/ \E c \in copied : /\ namex(c.path, {}) = ino
                                     /\ file[f].f_pos <= c.size
                                     /\ out[f] = [i \in 1..file[f].f_pos |-> <<c.src, i - 1>>]
  <2> DEFINE r == file[f]
             t == namex(r.path, {})
             T == inodes[1].tree
  <2>1. Opened(r) /\ Streamed(inodes, disk, t, r, out[f]) /\ pc = "done"
    BY <1>2 DEF FilesOK, InOrder, Reads
  <2>2. Ready /\ ImageOK
    BY <2>1, DoneReady DEF Ready
  <2>3. t = namex(r.path, {}) /\ Len(r.path) \in Nat
    BY <2>1 DEF Opened
  <2>4. /\ t \in DOMAIN inodes /\ inodes[t].mode = "REG" /\ r.f_pos \in Nat /\ r.inode = inodes[t]
        /\ r.f_pos <= inodes[t].size /\ r.f_pos <= DIRECT_BLOCK_COUNT * BLOCK_SIZE
        /\ out[f] = Start(Bytes(inodes, disk, t), r.f_pos)
    BY <2>1 DEF Streamed
  <2>a. t # 0 /\ r.inode = inode_get(t)
    <3>1. DOMAIN inodes = 1..InUse
      BY <2>2 DEF ImageOK, Layout
    <3> HIDE DEF t, r
    <3>2. inode_get(t) = inodes[t]
      BY <2>2, <2>4, InodeGet
    <3> QED
      BY <2>4, <3>1, <3>2
  <2> HIDE DEF r
  <2>5. CASE r.f_pos = 0
    <3>1. Start(Bytes(inodes, disk, t), 0) = <<>>
      BY DEF Start
    <3> QED
      BY <2>a, <2>4, <2>5, <3>1 DEF r
  <2>6. CASE r.f_pos # 0
    <3>1. inodes[t].size \in Nat /\ inodes[t].size # 0
      <4>1. inodes[t].size \in Nat
        BY <2>2, <2>4 DEF ImageOK, DiskOK, DiskOf
      <4> QED
        BY <2>4, <2>6, <4>1
    <3>2. PICK c \in copied : InDir(disk, T, c.path[1], t) /\ Holds(inodes, disk, c, t)
      BY <2>2, <2>4, <3>1 DEF Ready, RootOf
    <3>3. c.size \in Nat /\ Len(c.path) = 1 /\ inodes[t].size = c.size
      BY <2>2, <3>2 DEF Ready, CopiesOK, Holds
    <3>4. out[f] = [i \in 1..r.f_pos |-> <<c.src, i - 1>>] /\ r.f_pos <= c.size
      <4>1. r.f_pos <= c.size
        BY <2>4, <3>3
      <4> HIDE DEF t
      <4> QED
        BY <2>2, <2>4, <3>2, <3>3, <4>1, BytesHeld
    <3>5. t # 0 /\ t # 1
      <4>1. DOMAIN inodes = 1..InUse /\ inodes[1].mode = "DIR"
        BY <2>2 DEF ImageOK, Layout, DiskOK, DiskOf
      <4> QED
        BY <2>4, <4>1
    <3>6. PICK n : Find(1, n, {}) = t /\ InDir(disk, T, n, t)
      <4> HIDE DEF t
      <4> QED
        BY <2>2, <2>3, <3>5, NamexLast
    <3>7. n = c.path[1]
      <4>1. OneName(disk, T)
        BY <2>2 DEF Ready, RootOf
      <4> DEFINE m == c.path[1]
      <4>2. InDir(disk, T, m, t) /\ InDir(disk, T, n, t) /\ t # 1
        BY <3>2, <3>5, <3>6
      <4> HIDE DEF T, t, m
      <4>3. n = m
        BY <4>1, <4>2 DEF OneName
      <4> QED
        BY <4>3 DEF m
    <3>8. namex(c.path, {}) = t
      <4>1. namex(c.path, {}) = Find(1, c.path[1], {})
        BY <2>2, <3>3, NamexOne
      <4> QED
        BY <3>6, <3>7, <4>1
    <3> QED
      BY <2>a, <3>4, <3>8 DEF r
  <2> QED
    BY <2>5, <2>6
<1> QED
  BY <1>1, <1>2 DEF StreamIsFile

\* At first no file is open.
LEMMA FilesInit ==
    ASSUME Init
    PROVE  FilesOK
<1>1. file = <<>> /\ out = <<>> /\ files = [p \in Procs |-> [fd \in Fds |-> NULL]]
  BY DEF Init
<1>2. DOMAIN file = {} /\ DOMAIN out = {}
  BY <1>1
<1>3. Tables(files, DOMAIN file)
  BY <1>1 DEF Tables
<1> QED
  BY <1>2, <1>3 DEF FilesOK

\* Every descriptor has a file object of its own, and an object whose open could read
\* the metadata is of the file that its path leads to and has given the bytes up to
\* its position.
THEOREM FilesInvariant == Spec => []FilesOK
<1>1. Init => FilesOK
  BY FilesInit
<1>2. ImageInv /\ RootInv /\ FilesOK /\ [Next]_vars => FilesOK'
  BY FilesStep
<1> QED
  BY <1>1, <1>2, ImageInvariant, RootInvariant, PTL DEF Spec

\* What a process has read from a file whose open could read the metadata is the
\* beginning of the one that mkfs copied under its path, up to the position, whatever
\* the sizes asked for, the data and directory blocks that could not be read, and what
\* opens that did not get their metadata (axfs.c:26, 60, 80) have made of theirs.
THEOREM StreamInvariant == Spec => []StreamIsFile
<1>1. ImageInv /\ RootInv /\ FilesOK => StreamIsFile
  BY StreamFollows
<1> QED
  BY <1>1, ImageInvariant, RootInvariant, FilesInvariant, PTL

-----------------------------------------------------------------------------
(* The counters do not wrap.                                               *)

\* A sum of natural numbers is one.
LEMMA SumNat ==
    ASSUME NEW n \in Nat, NEW f \in [0..n - 1 -> Nat]
    PROVE  SumTo(f, n) \in Nat
<1>1. f \in [0..n - 1 -> Int]
  OBVIOUS
<1>2. PICK s : Summing(s, f, n) /\ SumTo(f, n) = s[n]
  BY <1>1, SumIs
<1> DEFINE S == {i \in Nat : i <= n => s[i] \in Nat}
<1>3. 0 \in S
  BY <1>2 DEF Summing
<1>4. ASSUME NEW i \in Nat, i \in S PROVE i + 1 \in S
  <2> SUFFICES ASSUME i + 1 <= n PROVE s[i + 1] \in Nat
    OBVIOUS
  <2>1. i + 1 \in 1..n /\ (i + 1) - 1 = i /\ s[i] \in Nat /\ f[i] \in Nat
    BY <1>4
  <2> QED
    BY <1>2, <2>1 DEF Summing
<1>5. Nat \subseteq S
  <2> HIDE DEF S
  <2> QED
    BY <1>3, <1>4, Induction
<1> QED
  BY <1>2, <1>5

\* The counters of a group, and the bits of its maps.
LEMMA GroupTypes ==
    ASSUME Layout, NEW g \in DOMAIN bg
    PROVE  /\ bg[g] \in [free_blocks : 0..BLOCKS_PER_GROUP, free_inodes : 0..InodesPerGroup]
           /\ block_bitmap[g] \subseteq 0..BLOCKS_PER_GROUP - 1
           /\ inode_bitmap[g] \subseteq 0..InodesPerGroup - 1
<1>1. /\ g \in 0..GroupNum - 1 /\ GroupNum \in Nat /\ s_blocks_count \in Nat
      /\ bg[g] \in [free_blocks : Nat, free_inodes : Nat]
  BY DEF Layout
<1>2. BLOCKS_PER_GROUP \in Nat \ {0} /\ InodesPerGroup \in Nat \ {0}
  BY GroupAssumption, OptionsAssumption
<1>3. CASE g = 0
  <2>1. /\ blocks_of(0, s_blocks_count) <= BLOCKS_PER_GROUP /\ Taken \in Nat /\ InUse \in Nat
        /\ blocks_of(0, s_blocks_count) \in Nat /\ Taken <= blocks_of(0, s_blocks_count)
        /\ InUse <= InodesPerGroup
    BY <1>2, FirstGroup
  <2>2. bg[0].free_blocks <= BLOCKS_PER_GROUP /\ bg[0].free_inodes <= InodesPerGroup
    BY <1>1, <1>2, <1>3, <2>1 DEF Taken, InUse
  <2>3. block_bitmap[0] = 0..Taken - 1 /\ inode_bitmap[0] = 0..InUse - 1
    BY DEF Layout
  <2> QED
    BY <1>1, <1>2, <1>3, <2>1, <2>2, <2>3
<1>4. CASE g # 0
  <2>1. g \in 1..GroupNum - 1 /\ g \in Nat
    BY <1>1, <1>4
  <2> DEFINE used == used_blocks(g, GroupNum)
             size == blocks_of(g, s_blocks_count)
  <2>2. /\ block_bitmap[g] = 0..used - 1 /\ bg[g].free_blocks = size - used
        /\ inode_bitmap[g] = {} /\ bg[g].free_inodes = InodesPerGroup /\ used < size
    BY <1>1, <2>1 DEF Layout
  <2>3. used \in Nat
    BY <1>1, <2>1, UsedNat
  <2>4. size \in Int /\ size <= BLOCKS_PER_GROUP
    <3>1. g * BLOCKS_PER_GROUP \in Nat
      BY <1>2, <2>1
    <3> QED
      BY <1>1, <1>2, <3>1 DEF blocks_of
  <2> HIDE DEF used, size
  <2>5. bg[g].free_blocks <= BLOCKS_PER_GROUP /\ 0..used - 1 \subseteq 0..BLOCKS_PER_GROUP - 1
    BY <1>2, <2>2, <2>3, <2>4
  <2> QED
    BY <1>1, <1>2, <2>2, <2>5
<1> QED
  BY <1>3, <1>4

\* The values of an image that has been made.
LEMMA ImageTypes ==
    ASSUME ImageOK
    PROVE  /\ s_blocks_count \in Nat /\ s_free_blocks_count \in Nat /\ s_free_inodes_count \in Nat
           /\ DOMAIN disk \subseteq 1..s_blocks_count
<1>1. /\ GroupNum \in Nat /\ DOMAIN bg = 0..GroupNum - 1 /\ s_blocks_count \in Nat
      /\ \A g \in 0..GroupNum - 1 : bg[g] \in [free_blocks : Nat, free_inodes : Nat]
  BY DEF ImageOK, Layout
<1>2. s_free_blocks_count \in Nat /\ s_free_inodes_count \in Nat
  <2> DEFINE f == [g \in Groups |-> bg[g].free_blocks]
             h == [g \in Groups |-> bg[g].free_inodes]
  <2>1. f \in [0..GroupNum - 1 -> Nat] /\ h \in [0..GroupNum - 1 -> Nat]
    BY <1>1 DEF Groups
  <2>2. s_free_blocks_count = SumTo(f, GroupNum) /\ s_free_inodes_count = SumTo(h, GroupNum)
    BY Zenon DEF ImageOK, Sums
  <2> HIDE DEF f, h
  <2> QED
    BY <1>1, <2>1, <2>2, SumNat
<1>3. /\ Meta \in Nat /\ Taken \in Nat /\ Taken <= blocks_of(0, s_blocks_count)
      /\ blocks_of(0, s_blocks_count) \in Nat /\ blocks_of(0, s_blocks_count) <= s_blocks_count
  BY FirstGroup DEF ImageOK
<1>4. DOMAIN disk \subseteq Meta + 1..Taken
  BY DEF ImageOK, DiskOK, DiskOf
<1> QED
  BY <1>1, <1>2, <1>3, <1>4

LiveOK == live \subseteq Procs

\* The values have their kinds.
LEMMA TypesFollow ==
    ASSUME ImageInv, FilesOK, LiveOK
    PROVE  TypeOK
<1>1. /\ s_blocks_count \in Nat /\ s_free_blocks_count \in Nat /\ s_free_inodes_count \in Nat
      /\ DOMAIN disk \subseteq 1..s_blocks_count
  <2>1. CASE Unmade
    BY <2>1 DEF ImageInv, NothingYet
  <2>2. CASE ~Unmade
    BY <2>2, ImageTypes DEF ImageInv
  <2> QED
    BY <2>1, <2>2
<1>2. ASSUME NEW g \in DOMAIN bg
      PROVE  /\ bg[g] \in [free_blocks : 0..BLOCKS_PER_GROUP, free_inodes : 0..InodesPerGroup]
             /\ block_bitmap[g] \subseteq 0..BLOCKS_PER_GROUP - 1
             /\ inode_bitmap[g] \subseteq 0..InodesPerGroup - 1
  <2>1. ~Unmade
    BY <1>2 DEF ImageInv, NothingYet
  <2>2. Layout
    BY <2>1 DEF ImageInv, ImageOK
  <2> QED
    BY <2>2, GroupTypes
<1>3. \A p \in Procs, fd \in Fds : files[p][fd] \in DOMAIN file \cup {NULL}
  BY DEF FilesOK, Tables
<1>4. \A f \in DOMAIN file : f \in FileObjects /\ file[f].stale \in BOOLEAN
  BY DEF FilesOK, InOrder, Opened
<1> QED
  BY <1>1, <1>2, <1>3, <1>4 DEF TypeOK, LiveOK

\* Processes come from Procs.
LEMMA LiveInvariant == Spec => []LiveOK
<1>1. Init => LiveOK
  BY ProcsAssumption DEF Init, LiveOK
<1>2. LiveOK /\ [Next]_vars => LiveOK'
  BY DEF LiveOK, Next, vars, fsVars, sys_open, sys_open_stale, vfs_open_panic, sys_close,
         sys_read, sys_read_panic, proc_clone, proc_exit, Stopped
<1> QED
  BY <1>1, <1>2, PTL DEF Spec

\* The values keep their kinds: the counters of the groups and of the super block,
\* which are unsigned in the code, never fall below 0, mkfs writes no block
\* outside of the image, and a descriptor names an object in use or none.
THEOREM TypeCorrect == Spec => []TypeOK
<1>1. ImageInv /\ FilesOK /\ LiveOK => TypeOK
  BY TypesFollow
<1> QED
  BY <1>1, ImageInvariant, FilesInvariant, LiveInvariant, PTL
=============================================================================
