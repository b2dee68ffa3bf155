------------------------------ MODULE NatFacts ------------------------------
(***************************************************************************)
(* Facts about natural numbers that the proofs about the kernel's modules  *)
(* need: least and greatest elements, induction, functions defined by      *)
(* recursion, powers of two, and division.                                 *)
(*                                                                         *)
(* Induction over the natural numbers is stated for a set, so that it has  *)
(* no operator parameter; it rests on the well-foundedness of the strict   *)
(* subset ordering of finite sets.                                         *)
(***************************************************************************)
EXTENDS Integers, FiniteSets, TLAPS, FiniteSetTheorems, FunctionTheorems

\* Every non-empty set of natural numbers has a least element: what makes a
\* search from the front, as in alloc_pid or find_bio, stop at one place.
LEMMA LeastNat ==
    ASSUME NEW S \in SUBSET Nat, S # {}
    PROVE  \E x \in S : \A y \in S : x <= y
<1> DEFINE upto == {0..n : n \in S}
<1>1. upto \subseteq FiniteSubsetsOf(Nat)
  <2> SUFFICES ASSUME NEW n \in S PROVE 0..n \in FiniteSubsetsOf(Nat)
    OBVIOUS
  <2>1. IsFiniteSet(0..n)
    BY FS_Interval
  <2>. QED BY <2>1 DEF FiniteSubsetsOf
<1>2. upto # {}
  OBVIOUS
<1>3. PICK m \in upto : \A u \in upto : ~(<<u, m>> \in StrictSubsetOrdering(Nat))
  BY <1>1, <1>2, FS_StrictSubsetOrderingWellFounded, WFMin
<1>4. PICK x \in S : m = 0..x
  OBVIOUS
<1>5. ASSUME NEW y \in S, y < x PROVE FALSE
  <2>1. 0..y \subseteq 0..x /\ 0..y # 0..x
    BY <1>5
  <2>2. 0..y \in SUBSET Nat /\ 0..x \in SUBSET Nat
    OBVIOUS
  <2>3. <<0..y, 0..x>> \in StrictSubsetOrdering(Nat)
    BY <2>1, <2>2 DEF StrictSubsetOrdering
  <2>4. 0..y \in upto
    OBVIOUS
  <2>. QED BY <1>3, <1>4, <2>3, <2>4
<1>. QED BY <1>5

\* A set that holds 0 and with n also n + 1 holds every natural number.
LEMMA Induction ==
    ASSUME NEW S, 0 \in S, \A n \in Nat : n \in S => n + 1 \in S
    PROVE  Nat \subseteq S
<1> SUFFICES ASSUME Nat \ S # {} PROVE FALSE
  OBVIOUS
<1>1. PICK x \in Nat \ S : \A y \in Nat \ S : x <= y
  BY LeastNat
<1>2. x # 0 /\ x - 1 \in Nat
  OBVIOUS
<1>3. x - 1 \in S
  BY <1>1, <1>2
<1>. QED BY <1>1, <1>2, <1>3

\* A bounded, non-empty set of natural numbers has a greatest element: what
\* makes a search from the back, as in find_unused_bio, stop at one place.
LEMMA GreatestNat ==
    ASSUME NEW S \in SUBSET Nat, S # {}, NEW n \in Nat, \A x \in S : x <= n
    PROVE  \E x \in S : \A y \in S : x >= y
<1> DEFINE T == {n - x : x \in S}
<1>1. T \in SUBSET Nat /\ T # {}
  <2>1. \A x \in S : n - x \in Nat
    OBVIOUS
  <2>. QED BY <2>1
<1>2. PICK t \in T : \A u \in T : t <= u
  BY <1>1, LeastNat
<1>3. PICK x \in S : t = n - x
  BY <1>2
<1>4. ASSUME NEW y \in S PROVE x >= y
  <2>1. n - x <= n - y
    BY <1>2, <1>3
  <2>. QED BY <2>1
<1>. QED BY <1>4

\* The size 2^n of a buddy block is a natural number.
LEMMA PowNat ==
    ASSUME NEW n \in Nat
    PROVE  2^n \in Nat
<1>1. IsFiniteSet(1..n) /\ Cardinality(1..n) = n
  BY FS_Interval
<1>2. IsFiniteSet(SUBSET (1..n)) /\ Cardinality(SUBSET (1..n)) = 2^n
  BY <1>1, FS_SUBSET
<1>. QED BY <1>2, FS_CardinalityType

\* Two blocks of order n fill one of order n + 1.
LEMMA PowDouble ==
    ASSUME NEW n \in Nat
    PROVE  2^(n + 1) = 2^n + 2^n
<1> DEFINE S == SUBSET (1..n)
           T == {X \cup {n + 1} : X \in S}
           f == [X \in S |-> X \cup {n + 1}]
<1>1. IsFiniteSet(1..n) /\ Cardinality(1..n) = n
  BY FS_Interval
<1>2. IsFiniteSet(1..n + 1) /\ Cardinality(1..n + 1) = n + 1
  BY FS_Interval
<1>3. IsFiniteSet(S) /\ Cardinality(S) = 2^n
  BY <1>1, FS_SUBSET
<1>4. Cardinality(SUBSET (1..n + 1)) = 2^(n + 1)
  BY <1>2, FS_SUBSET
<1>5. \A X \in S : n + 1 \notin X
  OBVIOUS
<1>6. f \in Bijection(S, T)
  <2>1. f \in [S -> T]
    OBVIOUS
  <2>2. ASSUME NEW X \in S, NEW Y \in S, f[X] = f[Y] PROVE X = Y
    <3>1. X \cup {n + 1} = Y \cup {n + 1}
      BY <2>2
    <3>. QED BY <3>1, <1>5
  <2>3. \A t \in T : \E X \in S : f[X] = t
    OBVIOUS
  <2>. QED BY <2>1, <2>2, <2>3, Fun_IsBij
<1>7. IsFiniteSet(T) /\ Cardinality(T) = 2^n
  BY <1>3, <1>6, FS_Bijection DEF ExistsBijection
<1>8. S \cap T = {}
  BY <1>5
<1>9. SUBSET (1..n + 1) = S \cup T
  <2>1. ASSUME NEW X \in SUBSET (1..n + 1) PROVE X \in S \cup T
    <3>1. CASE n + 1 \notin X
      BY <3>1
    <3>2. CASE n + 1 \in X
      <4>1. X \ {n + 1} \in S
        OBVIOUS
      <4>2. X = (X \ {n + 1}) \cup {n + 1}
        BY <3>2
      <4>. QED BY <4>1, <4>2
    <3>. QED BY <3>1, <3>2
  <2>2. S \subseteq SUBSET (1..n + 1) /\ T \subseteq SUBSET (1..n + 1)
    <3>1. 1..n \subseteq 1..n + 1 /\ n + 1 \in 1..n + 1
      OBVIOUS
    <3>. QED BY <3>1
  <2>. QED BY <2>1, <2>2
<1>10. Cardinality(S \cap T) = 0
  BY <1>8, FS_EmptySet
<1>11. 2^n \in Nat
  BY PowNat
<1>12. Cardinality(S \cup T) = Cardinality(S) + Cardinality(T) - Cardinality(S \cap T)
  BY <1>3, <1>7, FS_Union
<1> HIDE DEF S, T
<1>13. 2^(n + 1) = (2^n + 2^n) - 0
  <2>1. Cardinality(SUBSET (1..n + 1)) = Cardinality(S \cup T)
    BY <1>9
  <2>2. 2^(n + 1) = Cardinality(S \cup T)
    BY <1>4, <2>1
  <2>3. Cardinality(S \cup T) = (2^n + 2^n) - 0
    BY <1>3, <1>7, <1>10, <1>12
  <2>. QED BY <2>2, <2>3
<1>14. \A a \in Nat : (a + a) - 0 = a + a
  OBVIOUS
<1>. QED BY <1>11, <1>13, <1>14, Zenon

\* A function that goes from base on by step.
IsRun(f, N, S, base, step) ==
    f \in [0..N -> S] /\ f[0] = base /\ \A i \in 1..N : f[i] = step[<<f[i - 1], i>>]

\* A function defined by recursion over 0..n, as the loops over the characters of
\* a string are, exists when every step stays in a set.
LEMMA Recursion ==
    ASSUME NEW N \in Nat, NEW S, NEW base \in S, NEW step \in [S \X (1..N) -> S]
    PROVE  \E f : IsRun(f, N, S, base, step)
<1> DEFINE Good(n) == \E f \in [0..n -> S] : /\ f[0] = base
                                             /\ \A i \in 1..n : f[i] = step[<<f[i - 1], i>>]
           G == {n \in Nat : n <= N => Good(n)}
<1>1. 0 \in G
  <2> DEFINE f == [i \in 0..0 |-> base]
  <2>1. f \in [0..0 -> S] /\ f[0] = base /\ 1..0 = {}
    OBVIOUS
  <2> HIDE DEF f
  <2>2. Good(0)
    BY <2>1
  <2> QED
    BY <2>2
<1>2. ASSUME NEW n \in Nat, n \in G PROVE n + 1 \in G
  <2> SUFFICES ASSUME n + 1 <= N PROVE Good(n + 1)
    OBVIOUS
  <2>1. PICK f \in [0..n -> S] : f[0] = base /\ \A i \in 1..n : f[i] = step[<<f[i - 1], i>>]
    BY <1>2
  <2> DEFINE x == step[<<f[n], n + 1>>]
             g == [i \in 0..n + 1 |-> IF i = n + 1 THEN x ELSE f[i]]
  <2>2. x \in S
    <3>1. f[n] \in S /\ n + 1 \in 1..N
      BY <2>1
    <3> QED
      BY <3>1
  <2> HIDE DEF x
  <2>3. g \in [0..n + 1 -> S] /\ g[n + 1] = x /\ \A i \in 0..n : g[i] = f[i]
    BY <2>1, <2>2
  <2> HIDE DEF g
  <2>4. g[0] = base
    BY <2>1, <2>3
  <2>5. ASSUME NEW i \in 1..n + 1 PROVE g[i] = step[<<g[i - 1], i>>]
    <3>1. CASE i = n + 1
      <4>1. i - 1 = n /\ n \in 0..n
        BY <3>1
      <4> QED
        BY <2>3, <3>1, <4>1 DEF x
    <3>2. CASE i # n + 1
      <4>1. i \in 1..n /\ i \in 0..n /\ i - 1 \in 0..n
        BY <3>2
      <4> QED
        BY <2>1, <2>3, <4>1
    <3> QED
      BY <3>1, <3>2
  <2> QED
    BY <2>3, <2>4, <2>5
<1> HIDE DEF G
<1>3. N \in G
  BY <1>1, <1>2, Induction
<1> QED
  BY <1>3 DEF G, IsRun

\* Division.
LEMMA Quotient ==
    ASSUME NEW a \in Nat, NEW b \in Nat, b >= 1
    PROVE  a = (a \div b) * b + (a % b) /\ a \div b \in Nat /\ a % b \in 0..b - 1
OBVIOUS

\* Division by what is not 0.
LEMMA Division ==
    ASSUME NEW a \in Nat, NEW b \in Nat \ {0}
    PROVE  a \div b \in Nat /\ a % b \in 0..b - 1 /\ a = b * (a \div b) + (a % b)
<1> DEFINE q == a \div b
           r == a % b
<1>1. b \in Nat /\ b >= 1
  OBVIOUS
<1>2. a = q * b + r /\ q \in Nat /\ r \in 0..b - 1
  BY <1>1, Quotient, Zenon
<1> HIDE DEF q, r
<1>3. q \in Nat /\ r \in 0..b - 1 /\ a = b * q + r
  BY <1>2
<1> QED
  BY <1>3, Zenon DEF q, r

\* A quotient and a remainder are those of one number only.
LEMMA DivisionUnique ==
    ASSUME NEW b \in Nat \ {0}, NEW q \in Nat, NEW r \in 0..b - 1, NEW s \in Nat,
           NEW t \in 0..b - 1, b * q + r = b * s + t
    PROVE  q = s /\ r = t
<1>1. ASSUME q < s PROVE FALSE
  <2>1. b * s >= b * q + b
    BY <1>1
  <2> QED
    BY <2>1
<1>2. ASSUME s < q PROVE FALSE
  <2>1. b * q >= b * s + b
    BY <1>2
  <2> QED
    BY <2>1
<1>3. q = s
  BY <1>1, <1>2
<1> QED
  BY <1>3
=============================================================================
