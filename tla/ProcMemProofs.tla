--------------------------- MODULE ProcMemProofs ---------------------------
(***************************************************************************)
(* Proofs about ProcMem: the process cache and the pages of processes are  *)
(* exact at every step, however the making of a process fails, and a       *)
(* process that runs has what its program asks for.                        *)
(***************************************************************************)
EXTENDS ProcMem, NatFacts, SequenceTheorems

-----------------------------------------------------------------------------
(* Lists of pages.                                                         *)

\* The least of some pages is one of them.
LEMMA MinIn ==
    ASSUME NEW S \in SUBSET Nat, S # {}
    PROVE  Min(S) \in S
  BY LeastNat DEF Min

\* The list s holds the pages of S, each once.
Listed(s, S) == s \in Seq(Memory) /\ IsInjective(s) /\ ToSet(s) = S

\* What is on a list when a page is put in front of it.
LEMMA ListedAdd ==
    ASSUME NEW s, NEW S, Listed(s, S), NEW x \in Memory, x \notin S
    PROVE  Listed(<<x>> \o s, S \cup {x})
  <1> DEFINE t == <<x>> \o s
  <1>1. s \in Seq(Memory) /\ ToSet(s) = S /\ \A i, j \in 1..Len(s) : s[i] = s[j] => i = j
    BY DEF Listed, IsInjective
  <1>2. /\ t \in Seq(Memory) /\ Len(t) = Len(s) + 1 /\ t[1] = x
        /\ \A i \in 1..Len(s) : t[i + 1] = s[i]
        /\ \A i \in 2..Len(t) : t[i] = s[i - 1] /\ i - 1 \in 1..Len(s)
    BY <1>1
  <1>3. \A i \in 1..Len(s) : s[i] \in S
    BY <1>1 DEF ToSet
  <1>4. \A y \in S : \E i \in 1..Len(s) : s[i] = y
    BY <1>1 DEF ToSet
  <1> HIDE DEF t
  <1>5. DOMAIN t = 1..Len(t) /\ Len(s) \in Nat
    BY <1>1, <1>2
  <1>6. ASSUME NEW i \in 1..Len(t), NEW j \in 1..Len(t), t[i] = t[j] PROVE i = j
    <2>1. CASE i = 1 /\ j = 1
      BY <2>1
    <2>2. CASE i = 1 /\ j # 1
      BY <1>2, <1>3, <1>5, <1>6, <2>2
    <2>3. CASE i # 1 /\ j = 1
      BY <1>2, <1>3, <1>5, <1>6, <2>3
    <2>4. CASE i # 1 /\ j # 1
      <3>1. s[i - 1] = s[j - 1] /\ i - 1 \in 1..Len(s) /\ j - 1 \in 1..Len(s)
        BY <1>2, <1>5, <1>6, <2>4
      <3>2. i - 1 = j - 1
        BY <1>1, <3>1
      <3> QED
        BY <3>2, <1>5
    <2> QED
      BY <2>1, <2>2, <2>3, <2>4
  <1>7. ToSet(t) = S \cup {x}
    <2>1. ASSUME NEW y \in ToSet(t) PROVE y \in S \cup {x}
      <3>1. PICK i \in 1..Len(t) : y = t[i]
        BY <1>5 DEF ToSet
      <3>2. i = 1 \/ i \in 2..Len(t)
        BY <1>2, <1>5
      <3> QED
        BY <3>1, <3>2, <1>2, <1>3
    <2>2. ASSUME NEW y \in S PROVE y \in ToSet(t)
      <3>1. PICK i \in 1..Len(s) : s[i] = y
        BY <1>4
      <3>2. i + 1 \in 1..Len(t) /\ t[i + 1] = y
        BY <3>1, <1>2, <1>5
      <3> QED
        BY <3>2, <1>5 DEF ToSet
    <2>3. x \in ToSet(t)
      <3>1. 1 \in 1..Len(t)
        BY <1>2, <1>5
      <3> QED
        BY <3>1, <1>2, <1>5 DEF ToSet
    <2> QED
      BY <2>1, <2>2, <2>3
  <1>8. IsInjective(t)
    BY <1>5, <1>6 DEF IsInjective
  <1>9. Listed(t, S \cup {x})
    BY <1>2, <1>7, <1>8 DEF Listed
  <1> QED
    BY <1>9 DEF t

\* What is on a list without a page.
LEMMA ListedRemove ==
    ASSUME NEW s, NEW S, Listed(s, S), NEW x
    PROVE  Listed(RemoveFirst(s, x), S \ {x})
  <1>1. s \in Seq(Memory) /\ ToSet(s) = S /\ \A i, j \in 1..Len(s) : s[i] = s[j] => i = j
    BY DEF Listed, IsInjective
  <1>2. Len(s) \in Nat /\ DOMAIN s = 1..Len(s)
    BY <1>1
  <1>3. CASE ~\E i \in 1..Len(s) : s[i] = x
    <2>1. RemoveFirst(s, x) = s
      BY <1>3 DEF RemoveFirst
    <2>2. S \ {x} = S
      BY <1>1, <1>2, <1>3 DEF ToSet
    <2> QED
      BY <2>1, <2>2
  <1>4. CASE \E i \in 1..Len(s) : s[i] = x
    <2> DEFINE I == {i \in 1..Len(s) : s[i] = x}
               k == SelectInSeq(s, LAMBDA v : v = x)
               t == RemoveAt(s, k)
    <2>1. k = Min(I)
      BY <1>4 DEF SelectInSeq
    <2>2. I # {} /\ I \in SUBSET Nat
      BY <1>4, <1>2
    <2>3. k \in 1..Len(s) /\ s[k] = x
      <3> HIDE DEF k
      <3>1. k \in I
        BY <2>1, <2>2, MinIn
      <3> QED
        BY <3>1
    <2>4. RemoveFirst(s, x) = t
      BY <1>4 DEF RemoveFirst
    <2> HIDE DEF k
    <2>5. /\ t \in Seq(Memory) /\ Len(t) = Len(s) - 1
          /\ \A i \in 1..Len(t) : t[i] = s[IF i < k THEN i ELSE i + 1]
      <3> DEFINE l == SubSeq(s, 1, k - 1)
                 r == SubSeq(s, k + 1, Len(s))
      <3>1. l \in Seq(Memory) /\ Len(l) = k - 1 /\ \A i \in 1..k - 1 : l[i] = s[i]
        BY <1>1, <1>2, <2>3
      <3>2. r \in Seq(Memory) /\ Len(r) = Len(s) - k /\ \A i \in 1..Len(s) - k : r[i] = s[k + i]
        <4>1. /\ k + 1 \in 1..Len(s) + 1 /\ Len(s) \in k + 1 - 1..Len(s)
              /\ Len(s) - (k + 1) + 1 = Len(s) - k
          BY <1>2, <2>3
        <4>2. /\ r \in Seq(Memory) /\ Len(r) = Len(s) - (k + 1) + 1
              /\ \A i \in 1..Len(s) - (k + 1) + 1 : r[i] = s[k + 1 + i - 1]
          BY <1>1, <4>1, SubSeqProperties
        <4> HIDE DEF r
        <4>3. \A i \in 1..Len(s) - k : k + 1 + i - 1 = k + i
          BY <1>2, <2>3
        <4> QED
          BY <4>1, <4>2, <4>3
      <3>3. t = l \o r
        BY DEF RemoveAt
      <3> HIDE DEF l, r, t
      <3>4. t \in Seq(Memory) /\ Len(t) = Len(l) + Len(r)
        BY <3>1, <3>2, <3>3, ConcatProperties
      <3>5. \A i \in 1..Len(t) : t[i] = IF i <= Len(l) THEN l[i] ELSE r[i - Len(l)]
        <4>1. \A i \in 1..(Len(l) + Len(r)) :
                 (l \o r)[i] = IF i <= Len(l) THEN l[i] ELSE r[i - Len(l)]
          BY <3>1, <3>2, ConcatProperties
        <4> QED
          BY <4>1, <3>3, <3>4
      <3>6. ASSUME NEW i \in 1..Len(t) PROVE t[i] = s[IF i < k THEN i ELSE i + 1]
        <4>1. CASE i < k
          BY <4>1, <3>1, <3>2, <3>4, <3>5, <2>3, <1>2
        <4>2. CASE ~(i < k)
          <5>1. i - (k - 1) \in 1..Len(s) - k /\ k + (i - (k - 1)) = i + 1 /\ ~(i <= Len(l))
            BY <4>2, <3>1, <3>2, <3>4, <2>3, <1>2
          <5> QED
            BY <5>1, <4>2, <3>1, <3>2, <3>5
        <4> QED
          BY <4>1, <4>2
      <3> QED
        BY <3>1, <3>2, <3>4, <3>6, <2>3, <1>2
    <2> HIDE DEF t
    <2>6. DOMAIN t = 1..Len(t)
      BY <2>5
    <2>7. ASSUME NEW i \in 1..Len(t), NEW j \in 1..Len(t), t[i] = t[j] PROVE i = j
      <3> DEFINE a == IF i < k THEN i ELSE i + 1
                 b == IF j < k THEN j ELSE j + 1
      <3>1. a \in 1..Len(s) /\ b \in 1..Len(s)
        BY <2>5, <2>3, <1>2
      <3>2. s[a] = s[b]
        BY <2>5, <2>7
      <3>3. a = b
        BY <3>1, <3>2, <1>1
      <3> QED
        BY <3>3, <2>3, <1>2, <2>5
    <2>8. ToSet(t) = S \ {x}
      <3>1. ASSUME NEW y \in ToSet(t) PROVE y \in S \ {x}
        <4>1. PICK i \in 1..Len(t) : y = t[i]
          BY <2>6 DEF ToSet
        <4> DEFINE a == IF i < k THEN i ELSE i + 1
        <4>2. a \in 1..Len(s) /\ a # k
          BY <2>5, <2>3, <1>2
        <4>3. y = s[a]
          BY <4>1, <2>5
        <4> QED
          BY <4>2, <4>3, <1>1, <1>2, <2>3 DEF ToSet
      <3>2. ASSUME NEW y \in S, y # x PROVE y \in ToSet(t)
        <4>1. PICK i \in 1..Len(s) : s[i] = y
          BY <1>1, <1>2 DEF ToSet
        <4>2. i # k
          BY <4>1, <3>2, <2>3
        <4> DEFINE a == IF i < k THEN i ELSE i - 1
        <4>3. a \in 1..Len(t) /\ (IF a < k THEN a ELSE a + 1) = i
          BY <4>2, <2>3, <2>5, <1>2
        <4>4. t[a] = y
          BY <4>1, <4>3, <2>5
        <4> QED
          BY <4>3, <4>4, <2>6 DEF ToSet
      <3> QED
        BY <3>1, <3>2
    <2> QED
      BY <2>4, <2>5, <2>6, <2>7, <2>8 DEF Listed, IsInjective
  <1> QED
    BY <1>3, <1>4

\* A list without pages is empty, and the head of another one is on it.
LEMMA ListedHead ==
    ASSUME NEW s, NEW S, Listed(s, S)
    PROVE  /\ s = <<>> <=> S = {}
           /\ s # <<>> => Head(s) \in S
  <1>1. s \in Seq(Memory) /\ ToSet(s) = S
    BY DEF Listed
  <1>2. s # <<>> => 1 \in DOMAIN s /\ s[1] = Head(s)
    BY <1>1
  <1>3. s = <<>> => DOMAIN s = {}
    OBVIOUS
  <1> QED
    BY <1>1, <1>2, <1>3 DEF ToSet

-----------------------------------------------------------------------------
(* The free array of a slab page.                                          *)

\* The first n elements of the array f are the objects of S, each once.
Stacked(f, n, S) ==
    /\ f \in [1..Limit -> 1..Limit] /\ n \in 0..Limit
    /\ \A i, j \in 1..n : f[i] = f[j] => i = j
    /\ {f[i] : i \in 1..n} = S

\* alloc_object_from_slab takes the last of them.
LEMMA Popped ==
    ASSUME NEW f, NEW n, NEW S, Stacked(f, n, S), n # 0
    PROVE  f[n] \in S /\ f[n] \in 1..Limit /\ Stacked(f, n - 1, S \ {f[n]})
  <1>1. /\ n \in 1..Limit /\ n - 1 \in 0..Limit /\ n \in 1..n /\ 1..n = (1..n - 1) \cup {n}
        /\ n \notin 1..n - 1
    BY LimitAssumption DEF Stacked
  <1>2. f \in [1..Limit -> 1..Limit] /\ \A i, j \in 1..n : f[i] = f[j] => i = j
    BY DEF Stacked
  <1>3. {f[i] : i \in 1..n} = S
    BY DEF Stacked
  <1>4. {f[i] : i \in 1..n - 1} = S \ {f[n]}
    BY <1>1, <1>2, <1>3
  <1>5. f[n] \in S /\ f[n] \in 1..Limit
    BY <1>1, <1>2, <1>3
  <1>6. \A i, j \in 1..n - 1 : f[i] = f[j] => i = j
    BY <1>1, <1>2
  <1> QED
    BY <1>1, <1>2, <1>4, <1>5, <1>6 DEF Stacked

\* The number of the elements is the number of objects.
LEMMA StackedSize ==
    ASSUME NEW f, NEW n, NEW S, Stacked(f, n, S)
    PROVE  IsFiniteSet(S) /\ Cardinality(S) = n
  <1>1. n \in Nat /\ n \in 0..Limit
    BY LimitAssumption DEF Stacked
  <1>2. \A i \in 1..n : f[i] \in S
    BY DEF Stacked
  <1>3. \A x \in S : \E i \in 1..n : f[i] = x
    BY DEF Stacked
  <1>4. \A i, j \in 1..n : f[i] = f[j] => i = j
    BY DEF Stacked
  <1> DEFINE g == [i \in 1..n |-> f[i]]
  <1>5. g \in Bijection(1..n, S)
    <2>1. g \in [1..n -> S]
      BY <1>2
    <2>2. \A i, j \in 1..n : g[i] = g[j] => i = j
      BY <1>4
    <2>3. \A x \in S : \E i \in 1..n : g[i] = x
      BY <1>3
    <2> HIDE DEF g
    <2> QED
      BY <2>1, <2>2, <2>3, Zenon DEF Bijection, Injection, Surjection, IsInjective
  <1>6. ExistsBijection(1..n, S)
    BY <1>5 DEF ExistsBijection
  <1>7. IsFiniteSet(1..n) /\ Cardinality(1..n) = n
    BY <1>1, FS_Interval
  <1> QED
    BY <1>6, <1>7, FS_Bijection

\* free_object puts another one behind them, for which there is room.
LEMMA Pushed ==
    ASSUME NEW f, NEW n, NEW S, Stacked(f, n, S), NEW x \in 1..Limit, x \notin S
    PROVE  n < Limit /\ Stacked([f EXCEPT ![n + 1] = x], n + 1, S \cup {x})
  <1>1. f \in [1..Limit -> 1..Limit] /\ n \in 0..Limit /\ {f[i] : i \in 1..n} = S
    BY DEF Stacked
  <1>2. \A i, j \in 1..n : f[i] = f[j] => i = j
    BY DEF Stacked
  <1>3. n < Limit
    <2>1. IsFiniteSet(1..Limit) /\ Cardinality(1..Limit) = Limit
      BY FS_Interval, LimitAssumption
    <2>2. S \in SUBSET (1..Limit)
      BY <1>1, LimitAssumption, SMTT(30)
    <2>3. Cardinality(S) = n
      BY StackedSize
    <2>4. n # Limit
      BY <2>1, <2>2, <2>3, FS_Subset
    <2> QED
      BY <1>1, <2>4, LimitAssumption
  <1> DEFINE g == [f EXCEPT ![n + 1] = x]
  <1>4. /\ n + 1 \in 1..Limit /\ n + 1 \in 0..Limit /\ n + 1 \notin 1..n
        /\ 1..n + 1 = (1..n) \cup {n + 1} /\ 1..n \subseteq 1..Limit
    <2>1. n \in Nat /\ Limit \in Nat /\ n < Limit
      BY <1>1, <1>3, LimitAssumption
    <2>2. 1..n + 1 = (1..n) \cup {n + 1}
      BY <2>1
    <2> QED
      BY <2>1, <2>2
  <1>5. g \in [1..Limit -> 1..Limit] /\ g[n + 1] = x /\ \A i \in 1..n : g[i] = f[i]
    BY <1>1, <1>4
  <1> HIDE DEF g
  <1>6. \A i \in 1..n : f[i] # x
    BY <1>1
  <1>7. \A i, j \in 1..n + 1 : g[i] = g[j] => i = j
    BY <1>2, <1>4, <1>5, <1>6
  <1>8. {g[i] : i \in 1..n + 1} = S \cup {x}
    BY <1>1, <1>4, <1>5
  <1>9. Stacked(g, n + 1, S \cup {x})
    BY <1>4, <1>5, <1>7, <1>8 DEF Stacked
  <1> QED
    BY <1>3, <1>9 DEF g

-----------------------------------------------------------------------------
(* The process cache.                                                      *)

\* A cache with these lists and arrays.
CacheOf(full, partial, none, f, a) ==
    [full_slab |-> full, partial_slab |-> partial, free_slab |-> none, free |-> f, avail |-> a]

\* The objects of some pages.
Objects(P) == P \X (1..Limit)

\* An object is a page and an index below limit.
LEMMA ObjectsOf ==
    ASSUME NEW P
    PROVE  /\ \A o \in Objects(P) : o = <<o[1], o[2]>> /\ o[1] \in P /\ o[2] \in 1..Limit
           /\ \A page, i : <<page, i>> \in Objects(P) <=> page \in P /\ i \in 1..Limit
  BY DEF Objects

\* What CacheExact says of a cache in which the objects of U are in use, in the
\* parts that the operations change one by one.
Parts(full, partial, none, f, a, U) ==
    /\ DOMAIN f \subseteq Memory
    /\ f = [page \in DOMAIN f |-> f[page]]
    /\ a = [page \in DOMAIN f |-> a[page]]
    /\ Listed(full, {page \in DOMAIN f : a[page] = 0})
    /\ Listed(partial, {page \in DOMAIN f : a[page] \notin {0, Limit}})
    /\ Listed(none, {page \in DOMAIN f : a[page] = Limit})
    /\ U \subseteq Objects(DOMAIN f)
    /\ \A page \in DOMAIN f : Stacked(f[page], a[page], {i \in 1..Limit : <<page, i>> \notin U})

Well(c, U) ==
    /\ c = CacheOf(c.full_slab, c.partial_slab, c.free_slab, c.free, c.avail)
    /\ Parts(c.full_slab, c.partial_slab, c.free_slab, c.free, c.avail, U)

\* A cache of exact parts is exact.
LEMMA WellParts ==
    ASSUME NEW full, NEW partial, NEW none, NEW f, NEW a, NEW U
    PROVE  /\ Well(CacheOf(full, partial, none, f, a), U) <=> Parts(full, partial, none, f, a, U)
           /\ PagesOf(CacheOf(full, partial, none, f, a)) = DOMAIN f
  <1> DEFINE c == CacheOf(full, partial, none, f, a)
  <1>1. /\ c.full_slab = full /\ c.partial_slab = partial /\ c.free_slab = none
        /\ c.free = f /\ c.avail = a
    BY DEF CacheOf
  <1>2. c = CacheOf(c.full_slab, c.partial_slab, c.free_slab, c.free, c.avail)
    BY <1>1, Zenon
  <1> HIDE DEF c
  <1>3. Well(c, U) <=> Parts(full, partial, none, f, a, U)
    BY <1>1, <1>2, Zenon DEF Well
  <1>4. PagesOf(c) = DOMAIN f
    BY <1>1 DEF PagesOf
  <1> QED
    BY <1>3, <1>4 DEF c

\* slab_create_kmem_cache makes a cache with nothing in use.
LEMMA EmptyWell == Well(EmptyCache, {}) /\ PagesOf(EmptyCache) = {}
  <1>1. EmptyCache = CacheOf(<<>>, <<>>, <<>>, <<>>, <<>>)
    BY DEF EmptyCache, CacheOf
  <1>2. Listed(<<>>, {})
    BY DEF Listed, IsInjective, ToSet
  <1>3. <<>> = [page \in {} |-> <<>>[page]] /\ DOMAIN <<>> = {}
    OBVIOUS
  <1>4. Parts(<<>>, <<>>, <<>>, <<>>, <<>>, {})
    BY <1>2, <1>3 DEF Parts
  <1> QED
    BY <1>1, <1>3, <1>4, WellParts

\* The cache that alloc_slab_page leaves, field by field.
LEMMA InitIs ==
    ASSUME NEW full, NEW partial, NEW none, NEW f, NEW a, NEW page
    PROVE  init_slab_page(CacheOf(full, partial, none, f, a), page)
             = CacheOf(full, partial, <<page>> \o none, Extend(f, page, [i \in 1..Limit |-> i]),
                       Extend(a, page, Limit))
  <1> DEFINE l == <<page>> \o none
             g == Extend(f, page, [i \in 1..Limit |-> i])
             b == Extend(a, page, Limit)
             c == CacheOf(full, partial, none, f, a)
  <1>1. c.free_slab = none /\ c.free = f /\ c.avail = a
    BY DEF CacheOf
  <1>2. init_slab_page(c, page) = [c EXCEPT !.free_slab = l, !.free = g, !.avail = b]
    <2> HIDE DEF c
    <2> QED
      BY <1>1, Zenon DEF init_slab_page
  <1>3. @ = [[[c EXCEPT !.free_slab = l] EXCEPT !.free = g] EXCEPT !.avail = b]
    <2> HIDE DEF c, l, g, b
    <2> QED
      OBVIOUS
  <1> HIDE DEF l, g, b
  <1>4. [c EXCEPT !.free_slab = l] = CacheOf(full, partial, l, f, a)
    BY SMT DEF CacheOf
  <1>5. [CacheOf(full, partial, l, f, a) EXCEPT !.free = g] = CacheOf(full, partial, l, g, a)
    BY SMT DEF CacheOf
  <1>6. [CacheOf(full, partial, l, g, a) EXCEPT !.avail = b] = CacheOf(full, partial, l, g, b)
    BY SMT DEF CacheOf
  <1> QED
    BY <1>2, <1>3, <1>4, <1>5, <1>6, Zenon DEF l, g, b

\* The cache that slab_list_remove leaves, field by field.
LEMMA RemoveIs ==
    ASSUME NEW full, NEW partial, NEW none, NEW f, NEW a, NEW page
    PROVE  slab_list_remove(CacheOf(full, partial, none, f, a), page)
             = CacheOf(RemoveFirst(full, page), RemoveFirst(partial, page),
                       RemoveFirst(none, page), f, a)
  <1> DEFINE x == RemoveFirst(full, page)
             y == RemoveFirst(partial, page)
             z == RemoveFirst(none, page)
             c == CacheOf(full, partial, none, f, a)
  <1>1. c.full_slab = full /\ c.partial_slab = partial /\ c.free_slab = none
    BY DEF CacheOf
  <1>2. slab_list_remove(c, page) = [c EXCEPT !.full_slab = x, !.partial_slab = y, !.free_slab = z]
    <2> HIDE DEF c
    <2> QED
      BY <1>1, Zenon DEF slab_list_remove
  <1>3. @ = [[[c EXCEPT !.full_slab = x] EXCEPT !.partial_slab = y] EXCEPT !.free_slab = z]
    <2> HIDE DEF c, x, y, z
    <2> QED
      OBVIOUS
  <1> HIDE DEF x, y, z
  <1>4. [c EXCEPT !.full_slab = x] = CacheOf(x, partial, none, f, a)
    BY SMT DEF CacheOf
  <1>5. [CacheOf(x, partial, none, f, a) EXCEPT !.partial_slab = y] = CacheOf(x, y, none, f, a)
    BY SMT DEF CacheOf
  <1>6. [CacheOf(x, y, none, f, a) EXCEPT !.free_slab = z] = CacheOf(x, y, z, f, a)
    BY SMT DEF CacheOf
  <1> QED
    BY <1>2, <1>3, <1>4, <1>5, <1>6, Zenon DEF x, y, z

\* The cache that alloc_slab_page gives has its new page on the free list.
LEMMA InitWell ==
    ASSUME NEW c, NEW U, Well(c, U), NEW page \in Memory, page \notin PagesOf(c)
    PROVE  /\ Well(init_slab_page(c, page), U)
           /\ PagesOf(init_slab_page(c, page)) = PagesOf(c) \cup {page}
           /\ ~needs_page(init_slab_page(c, page))
  <1> DEFINE full == c.full_slab
             partial == c.partial_slab
             none == c.free_slab
             f == c.free
             a == c.avail
             g == Extend(f, page, [i \in 1..Limit |-> i])
             b == Extend(a, page, Limit)
             l == <<page>> \o none
             P == DOMAIN f
             d == CacheOf(full, partial, l, g, b)
  <1>1. c = CacheOf(full, partial, none, f, a) /\ Parts(full, partial, none, f, a, U)
    BY DEF Well
  <1>2. page \notin P
    BY DEF PagesOf
  <1> HIDE DEF full, partial, none, f, a
  <1>3. init_slab_page(c, page) = d
    <2> HIDE DEF d
    <2>1. init_slab_page(CacheOf(full, partial, none, f, a), page) = d
      BY InitIs DEF d
    <2> QED
      BY <1>1, <2>1
  <1>4. DOMAIN a = P /\ P \subseteq Memory
    BY <1>1 DEF Parts
  <1>5. /\ g = [q \in P \cup {page} |-> IF q = page THEN [i \in 1..Limit |-> i] ELSE f[q]]
        /\ b = [q \in P \cup {page} |-> IF q = page THEN Limit ELSE a[q]]
    BY <1>4 DEF Extend
  <1> HIDE DEF g, b, d, P
  <1>6. DOMAIN g = P \cup {page}
    BY <1>5
  <1>7. Limit # 0
    BY LimitAssumption
  <1>8. {q \in P \cup {page} : b[q] = 0} = {q \in P : a[q] = 0}
    BY <1>2, <1>5, <1>7
  <1>9. {q \in P \cup {page} : b[q] \notin {0, Limit}} = {q \in P : a[q] \notin {0, Limit}}
    BY <1>2, <1>5, <1>7
  <1>10. {q \in P \cup {page} : b[q] = Limit} = {q \in P : a[q] = Limit} \cup {page}
    BY <1>2, <1>5, <1>7
  <1>11. Listed(l, {q \in P : a[q] = Limit} \cup {page})
    <2>1. Listed(none, {q \in P : a[q] = Limit})
      BY <1>1 DEF Parts, P
    <2> QED
      BY <2>1, <1>2, ListedAdd
  <1>12. U \subseteq Objects(P)
    BY <1>1 DEF Parts, P
  <1>13. ASSUME NEW q \in P \cup {page}
         PROVE  Stacked(g[q], b[q], {i \in 1..Limit : <<q, i>> \notin U})
    <2>1. CASE q = page
      <3>1. g[q] = [i \in 1..Limit |-> i] /\ b[q] = Limit
        BY <2>1, <1>5
      <3>2. {i \in 1..Limit : <<q, i>> \notin U} = 1..Limit
        BY <1>12, <1>2, <2>1, ObjectsOf
      <3>3. Stacked([i \in 1..Limit |-> i], Limit, 1..Limit)
        BY LimitAssumption DEF Stacked
      <3> QED
        BY <3>1, <3>2, <3>3
    <2>2. CASE q # page
      <3>1. q \in P /\ g[q] = f[q] /\ b[q] = a[q]
        BY <2>2, <1>5
      <3> QED
        BY <3>1, <1>1 DEF Parts, P
    <2> QED
      BY <2>1, <2>2
  <1>14. g = [q \in P \cup {page} |-> g[q]] /\ b = [q \in P \cup {page} |-> b[q]]
    BY <1>5
  <1>15. Listed(full, {q \in P : a[q] = 0}) /\ Listed(partial, {q \in P : a[q] \notin {0, Limit}})
    BY <1>1 DEF Parts, P
  <1>16. Parts(full, partial, l, g, b, U)
    <2>1. P \cup {page} \subseteq Memory /\ U \subseteq Objects(P \cup {page})
      BY <1>4, <1>12 DEF Objects
    <2> HIDE DEF l
    <2>2. /\ Listed(full, {q \in P \cup {page} : b[q] = 0})
          /\ Listed(partial, {q \in P \cup {page} : b[q] \notin {0, Limit}})
          /\ Listed(l, {q \in P \cup {page} : b[q] = Limit})
      BY <1>8, <1>9, <1>10, <1>11, <1>15, Zenon
    <2> QED
      BY <1>6, <1>13, <1>14, <2>1, <2>2, Zenon DEF Parts
  <1>17. ~needs_page(d)
    <2>1. l # <<>>
      BY <1>11, ListedHead
    <2>2. d.free_slab = l
      BY DEF d, CacheOf
    <2> QED
      BY <2>1, <2>2 DEF needs_page
  <1>18. Well(d, U) /\ PagesOf(d) = P \cup {page}
    <2> HIDE DEF l
    <2> QED
      BY <1>6, <1>16, WellParts DEF d
  <1> QED
    BY <1>3, <1>17, <1>18 DEF P, f, PagesOf

\* The arrays f and a of a cache with the objects of U in use become g and b,
\* and U becomes V: only the page p changes.
Changes(f, a, U, p, g, b, V) ==
    /\ p \in DOMAIN f
    /\ g = [q \in DOMAIN f |-> g[q]] /\ b = [q \in DOMAIN f |-> b[q]]
    /\ \A q \in DOMAIN f \ {p} : g[q] = f[q] /\ b[q] = a[q]
    /\ V \subseteq Objects(DOMAIN f)
    /\ \A q \in DOMAIN f \ {p} : \A i \in 1..Limit : <<q, i>> \in V <=> <<q, i>> \in U
    /\ Stacked(g[p], b[p], {i \in 1..Limit : <<p, i>> \notin V})

\* The list of the pages of P with some number of free objects after such a
\* change.
Relisted(s, p, here) == IF here THEN <<p>> \o RemoveFirst(s, p) ELSE RemoveFirst(s, p)

\* A page that is taken off its list and put on the one that its new number of
\* free objects asks for; or left where it is when that is the same list.
LEMMA PartsChange ==
    ASSUME NEW full, NEW partial, NEW none, NEW f, NEW a, NEW U, NEW p, NEW g, NEW b, NEW V,
           Parts(full, partial, none, f, a, U), Changes(f, a, U, p, g, b, V)
    PROVE  /\ Parts(Relisted(full, p, b[p] = 0), Relisted(partial, p, b[p] \notin {0, Limit}),
                    Relisted(none, p, b[p] = Limit), g, b, V)
           /\ a[p] \notin {0, Limit} /\ b[p] \notin {0, Limit} => Parts(full, partial, none, g, b, V)
           /\ DOMAIN g = DOMAIN f
  <1> DEFINE P == DOMAIN f
             F == {q \in P : a[q] = 0}
             H == {q \in P : a[q] \notin {0, Limit}}
             N == {q \in P : a[q] = Limit}
             FF == {q \in P : b[q] = 0}
             HH == {q \in P : b[q] \notin {0, Limit}}
             NN == {q \in P : b[q] = Limit}
  <1>1. p \in P /\ \A q \in P \ {p} : g[q] = f[q] /\ b[q] = a[q]
    BY DEF Changes
  <1>2. P \subseteq Memory /\ Listed(full, F) /\ Listed(partial, H) /\ Listed(none, N)
    BY DEF Parts
  <1>3. g = [q \in P |-> g[q]] /\ b = [q \in P |-> b[q]]
    BY DEF Changes
  <1>4. DOMAIN g = P
    BY <1>3
  <1>5. ASSUME NEW q \in P PROVE Stacked(g[q], b[q], {i \in 1..Limit : <<q, i>> \notin V})
    <2>1. CASE q = p
      BY <2>1 DEF Changes
    <2>2. CASE q # p
      <3>1. {i \in 1..Limit : <<q, i>> \notin V} = {i \in 1..Limit : <<q, i>> \notin U}
        BY <2>2 DEF Changes
      <3>2. Stacked(f[q], a[q], {i \in 1..Limit : <<q, i>> \notin U})
        BY DEF Parts
      <3> QED
        BY <3>1, <3>2, <2>2, <1>1
    <2> QED
      BY <2>1, <2>2
  <1>6. V \subseteq Objects(P)
    BY DEF Changes
  <1>7. ASSUME NEW x, NEW y, NEW z, Listed(x, FF), Listed(y, HH), Listed(z, NN)
        PROVE  Parts(x, y, z, g, b, V)
    <2> HIDE DEF P
    <2>1. /\ Listed(x, {q \in DOMAIN g : b[q] = 0})
          /\ Listed(y, {q \in DOMAIN g : b[q] \notin {0, Limit}})
          /\ Listed(z, {q \in DOMAIN g : b[q] = Limit})
      BY <1>4, <1>7, Zenon
    <2> HIDE DEF FF, HH, NN
    <2> QED
      BY <2>1, <1>2, <1>3, <1>4, <1>5, <1>6, Zenon DEF Parts
  <1>8. ASSUME NEW s, NEW S, NEW T, Listed(s, S), NEW here \in BOOLEAN,
               T = IF here THEN (S \ {p}) \cup {p} ELSE S \ {p}
        PROVE  Listed(Relisted(s, p, here), T)
    <2>1. Listed(RemoveFirst(s, p), S \ {p})
      BY <1>8, ListedRemove
    <2>2. Listed(<<p>> \o RemoveFirst(s, p), (S \ {p}) \cup {p})
      BY <2>1, <1>1, <1>2, ListedAdd
    <2> QED
      BY <2>1, <2>2, <1>8 DEF Relisted
  <1>9. /\ FF = IF b[p] = 0 THEN (F \ {p}) \cup {p} ELSE F \ {p}
        /\ HH = IF b[p] \notin {0, Limit} THEN (H \ {p}) \cup {p} ELSE H \ {p}
        /\ NN = IF b[p] = Limit THEN (N \ {p}) \cup {p} ELSE N \ {p}
    <2> HIDE DEF P
    <2> QED
      BY <1>1
  <1>10. a[p] \notin {0, Limit} /\ b[p] \notin {0, Limit} => FF = F /\ HH = H /\ NN = N
    <2> HIDE DEF P
    <2> QED
      BY <1>1
  <1> HIDE DEF F, H, N, FF, HH, NN
  <1>11. /\ Listed(Relisted(full, p, b[p] = 0), FF)
         /\ Listed(Relisted(partial, p, b[p] \notin {0, Limit}), HH)
         /\ Listed(Relisted(none, p, b[p] = Limit), NN)
    BY <1>2, <1>8, <1>9
  <1> QED
    BY <1>2, <1>4, <1>7, <1>10, <1>11
\* The cache that alloc_object leaves, in its three cases.
LEMMA AllocIs ==
    ASSUME NEW full, NEW partial, NEW none, NEW f, NEW a, NEW page, page \in DOMAIN a,
           page = slab_list_first(CacheOf(full, partial, none, f, a))
    PROVE  LET b == [a EXCEPT ![page] = @ - 1]
           IN  alloc_object(CacheOf(full, partial, none, f, a)) =
                 IF b[page] = 0
                 THEN CacheOf(<<page>> \o RemoveFirst(full, page), RemoveFirst(partial, page),
                              RemoveFirst(none, page), f, b)
                 ELSE IF b[page] + 1 = Limit
                 THEN CacheOf(RemoveFirst(full, page), <<page>> \o RemoveFirst(partial, page),
                              RemoveFirst(none, page), f, b)
                 ELSE CacheOf(full, partial, none, f, b)
  <1> DEFINE b == [a EXCEPT ![page] = @ - 1]
             c == CacheOf(full, partial, none, f, a)
             d == CacheOf(full, partial, none, f, b)
             x == RemoveFirst(full, page)
             y == RemoveFirst(partial, page)
             z == RemoveFirst(none, page)
             moved == CacheOf(x, y, z, f, b)
  <1>1. c.avail = a
    BY DEF CacheOf
  <1>2. d.avail = b /\ moved.full_slab = x /\ moved.partial_slab = y
    BY DEF CacheOf
  <1>3. [c EXCEPT !.avail[page] = @ - 1] = d
    <2>1. [c EXCEPT !.avail[page] = @ - 1] = [c EXCEPT !.avail = [c.avail EXCEPT ![page] = c.avail[page] - 1]]
      <3> HIDE DEF c
      <3> QED
        OBVIOUS
    <2>2. [c.avail EXCEPT ![page] = c.avail[page] - 1] = b
      <3> HIDE DEF c
      <3> QED
        BY <1>1
    <2>3. [c EXCEPT !.avail = b] = d
      <3> HIDE DEF b
      <3> QED
        BY SMT DEF CacheOf
    <2> QED
      BY <2>1, <2>2, <2>3, Zenon
  <1>4. slab_list_remove(d, page) = moved
    <2> HIDE DEF b
    <2> QED
      BY RemoveIs
  <1>5. [moved EXCEPT !.full_slab = <<page>> \o @] = CacheOf(<<page>> \o x, y, z, f, b)
    <2> HIDE DEF x, y, z, b
    <2>1. ASSUME NEW w PROVE [moved EXCEPT !.full_slab = w] = CacheOf(w, y, z, f, b)
      BY SMT DEF CacheOf
    <2>2. [moved EXCEPT !.full_slab = <<page>> \o x] = CacheOf(<<page>> \o x, y, z, f, b)
      BY <2>1, Zenon
    <2> HIDE DEF moved
    <2> QED
      BY <1>2, <2>2, Zenon
  <1>6. [moved EXCEPT !.partial_slab = <<page>> \o @] = CacheOf(x, <<page>> \o y, z, f, b)
    <2> HIDE DEF x, y, z, b
    <2>1. ASSUME NEW w PROVE [moved EXCEPT !.partial_slab = w] = CacheOf(x, w, z, f, b)
      BY SMT DEF CacheOf
    <2>2. [moved EXCEPT !.partial_slab = <<page>> \o y] = CacheOf(x, <<page>> \o y, z, f, b)
      BY <2>1, Zenon
    <2> HIDE DEF moved
    <2> QED
      BY <1>2, <2>2, Zenon
  <1> HIDE DEF b, c, d, x, y, z, moved
  <1>7. alloc_object(c) = CASE d.avail[page] = 0 -> [moved EXCEPT !.full_slab = <<page>> \o @]
                            [] d.avail[page] # 0 /\ d.avail[page] + 1 = Limit
                                 -> [moved EXCEPT !.partial_slab = <<page>> \o @]
                            [] OTHER -> d
    <2>1. slab_list_first(c) = page
      BY DEF c
    <2> QED
      BY <1>3, <1>4, <2>1, Zenon DEF alloc_object
  <1>8. alloc_object(c) = IF b[page] = 0 THEN [moved EXCEPT !.full_slab = <<page>> \o @]
                          ELSE IF b[page] + 1 = Limit
                               THEN [moved EXCEPT !.partial_slab = <<page>> \o @] ELSE d
    BY <1>2, <1>7
  <1>9. alloc_object(c) = IF b[page] = 0 THEN CacheOf(<<page>> \o x, y, z, f, b)
                          ELSE IF b[page] + 1 = Limit
                               THEN CacheOf(x, <<page>> \o y, z, f, b) ELSE d
    BY <1>5, <1>6, <1>8, Zenon
  <1> QED
    BY <1>9 DEF b, c, d, x, y, z

\* slab_alloc with a page at hand gives an object that is not in use, which
\* then is.
LEMMA AllocWell ==
    ASSUME NEW c, NEW U, Well(c, U), ~needs_page(c)
    PROVE  /\ next_object(c) \in Objects(PagesOf(c)) \ U
           /\ Well(alloc_object(c), U \cup {next_object(c)})
           /\ PagesOf(alloc_object(c)) = PagesOf(c)
  <1> DEFINE full == c.full_slab
             partial == c.partial_slab
             none == c.free_slab
             f == c.free
             a == c.avail
             page == slab_list_first(c)
             b == [a EXCEPT ![page] = @ - 1]
             i == f[page][a[page]]
             V == U \cup {<<page, i>>}
             P == DOMAIN f
             S == {k \in 1..Limit : <<page, k>> \notin U}
             x == RemoveFirst(full, page)
             y == RemoveFirst(partial, page)
             z == RemoveFirst(none, page)
  <1>1. c = CacheOf(full, partial, none, f, a) /\ Parts(full, partial, none, f, a, U)
    BY DEF Well
  <1>2. next_object(c) = <<page, i>> /\ P = PagesOf(c)
    BY DEF next_object, PagesOf
  <1>3. page = IF partial # <<>> THEN Head(partial) ELSE Head(none)
    BY DEF slab_list_first
  <1>4. partial # <<>> \/ none # <<>>
    BY DEF needs_page
  <1>5. page = slab_list_first(CacheOf(full, partial, none, f, a))
    <2> HIDE DEF full, partial, none, f, a
    <2> QED
      BY <1>1
  <1> HIDE DEF full, partial, none, f, a, page
  <1>6. a = [q \in P |-> a[q]] /\ P \subseteq Memory /\ U \subseteq Objects(P)
    BY <1>1 DEF Parts
  <1>7. f = [q \in P |-> f[q]]
    BY <1>1 DEF Parts
  <1>8. page \in P /\ a[page] # 0 /\ (a[page] = Limit \/ a[page] \notin {0, Limit})
    <2>1. /\ Listed(partial, {q \in P : a[q] \notin {0, Limit}})
          /\ Listed(none, {q \in P : a[q] = Limit})
      BY <1>1 DEF Parts
    <2>2. partial # <<>> => page \in {q \in P : a[q] \notin {0, Limit}}
      BY <2>1, <1>3, ListedHead
    <2>3. partial = <<>> => page \in {q \in P : a[q] = Limit}
      BY <2>1, <1>3, <1>4, ListedHead
    <2> QED
      BY <2>2, <2>3, LimitAssumption
  <1>9. Stacked(f[page], a[page], S)
    BY <1>1, <1>8 DEF Parts
  <1>10. i \in S /\ i \in 1..Limit /\ Stacked(f[page], a[page] - 1, S \ {i})
    <2> HIDE DEF S
    <2> QED
      BY <1>8, <1>9, Popped
  <1>11. a[page] \in 1..Limit
    BY <1>8, <1>9, LimitAssumption DEF Stacked
  <1>12. /\ b = [q \in P |-> b[q]] /\ b[page] = a[page] - 1
         /\ (\A q \in P \ {page} : b[q] = a[q]) /\ page \in DOMAIN a
    BY <1>6, <1>8
  <1>13. <<page, i>> \in Objects(P) \ U
    BY <1>8, <1>10, ObjectsOf
  <1> HIDE DEF b, i
  <1>14. V \subseteq Objects(P)
    BY <1>6, <1>13
  <1>15. {k \in 1..Limit : <<page, k>> \notin V} = S \ {i}
    OBVIOUS
  <1>16. \A q \in P \ {page} : \A k \in 1..Limit : <<q, k>> \in V <=> <<q, k>> \in U
    OBVIOUS
  <1>17. Changes(f, a, U, page, f, b, V)
    <2>1. Stacked(f[page], b[page], {k \in 1..Limit : <<page, k>> \notin V})
      BY <1>10, <1>12, <1>15
    <2> HIDE DEF V
    <2> QED
      BY <1>7, <1>8, <1>12, <1>14, <1>16, <2>1, Zenon DEF Changes
  <1> HIDE DEF V
  <1>18. /\ Parts(Relisted(full, page, b[page] = 0), Relisted(partial, page, b[page] \notin {0, Limit}),
                  Relisted(none, page, b[page] = Limit), f, b, V)
         /\ a[page] \notin {0, Limit} /\ b[page] \notin {0, Limit} => Parts(full, partial, none, f, b, V)
    BY <1>1, <1>17, PartsChange
  <1>19. alloc_object(c) = IF b[page] = 0 THEN CacheOf(<<page>> \o x, y, z, f, b)
                           ELSE IF b[page] + 1 = Limit
                                THEN CacheOf(x, <<page>> \o y, z, f, b)
                                ELSE CacheOf(full, partial, none, f, b)
    <2>1. alloc_object(CacheOf(full, partial, none, f, a))
                         = IF b[page] = 0 THEN CacheOf(<<page>> \o x, y, z, f, b)
                           ELSE IF b[page] + 1 = Limit
                                THEN CacheOf(x, <<page>> \o y, z, f, b)
                                ELSE CacheOf(full, partial, none, f, b)
      BY <1>5, <1>12, AllocIs DEF b
    <2> QED
      BY <1>1, <2>1
  <1>20. b[page] \in 0..Limit - 1 /\ b[page] # Limit /\ Limit \in Nat /\ a[page] = b[page] + 1
    BY <1>11, <1>12, LimitAssumption
  <1>21. Well(alloc_object(c), V) /\ PagesOf(alloc_object(c)) = P
    <2> HIDE DEF x, y, z, P
    <2>1. CASE b[page] = 0
      <3>1. alloc_object(c) = CacheOf(<<page>> \o x, y, z, f, b)
        BY <1>19, <2>1
      <3>2. Parts(<<page>> \o x, y, z, f, b, V)
        BY <1>18, <1>20, <2>1 DEF Relisted, x, y, z
      <3> QED
        BY <3>1, <3>2, WellParts DEF P
    <2>2. CASE b[page] # 0 /\ b[page] + 1 = Limit
      <3>1. alloc_object(c) = CacheOf(x, <<page>> \o y, z, f, b)
        BY <1>19, <2>2
      <3>2. Parts(x, <<page>> \o y, z, f, b, V)
        BY <1>18, <1>20, <2>2 DEF Relisted, x, y, z
      <3> QED
        BY <3>1, <3>2, WellParts DEF P
    <2>3. CASE b[page] # 0 /\ b[page] + 1 # Limit
      <3>1. alloc_object(c) = CacheOf(full, partial, none, f, b)
        BY <1>19, <2>3
      <3>2. Parts(full, partial, none, f, b, V)
        BY <1>18, <1>20, <2>3
      <3> QED
        BY <3>1, <3>2, WellParts DEF P
    <2> QED
      BY <2>1, <2>2, <2>3
  <1> QED
    BY <1>2, <1>13, <1>21 DEF V

Stores(f, a, page, i, n, g, b) ==
    g = [f EXCEPT ![page] = [@ EXCEPT ![n + 1] = i]] /\ b = [a EXCEPT ![page] = n + 1]

\* The cache after the store of free_object.
LEMMA StoreIs ==
    ASSUME NEW full, NEW partial, NEW none, NEW f, NEW a, NEW page, NEW i, NEW n, NEW g, NEW b,
           Stores(f, a, page, i, n, g, b)
    PROVE  free_store(CacheOf(full, partial, none, f, a), <<page, i>>, n)
             = CacheOf(full, partial, none, g, b)
  <1> DEFINE c == CacheOf(full, partial, none, f, a)
  <1>1. c.free = f /\ c.avail = a
    BY DEF CacheOf
  <1>2. <<page, i>>[1] = page /\ <<page, i>>[2] = i
    OBVIOUS
  <1>3. free_store(c, <<page, i>>, n) = [[c EXCEPT !.free[page][n + 1] = i] EXCEPT !.avail[page] = n + 1]
    <2> HIDE DEF c
    <2> QED
      BY <1>2 DEF free_store
  <1>4. [c EXCEPT !.free[page][n + 1] = i] = [c EXCEPT !.free = [c.free EXCEPT ![page][n + 1] = i]]
    <2> HIDE DEF c
    <2> QED
      OBVIOUS
  <1>5. [c.free EXCEPT ![page][n + 1] = i] = g
    <2> HIDE DEF c
    <2> QED
      BY <1>1 DEF Stores
  <1>6. [c EXCEPT !.free = g] = CacheOf(full, partial, none, g, a)
    BY SMT DEF CacheOf
  <1> DEFINE d == CacheOf(full, partial, none, g, a)
  <1>7. d.avail = a
    BY DEF CacheOf
  <1>8. [d EXCEPT !.avail = b] = CacheOf(full, partial, none, g, b)
    BY SMT DEF CacheOf
  <1>9. [d EXCEPT !.avail[page] = n + 1] = [d EXCEPT !.avail = [d.avail EXCEPT ![page] = n + 1]]
    <2> HIDE DEF d
    <2> QED
      OBVIOUS
  <1>10. [d.avail EXCEPT ![page] = n + 1] = b
    <2> HIDE DEF d
    <2> QED
      BY <1>7 DEF Stores
  <1>11. [c EXCEPT !.free[page][n + 1] = i] = d
    <2> HIDE DEF c, d
    <2> QED
      BY <1>4, <1>5, <1>6, Zenon DEF d
  <1>12. free_store(c, <<page, i>>, n) = CacheOf(full, partial, none, g, b)
    <2> HIDE DEF c, d
    <2> QED
      BY <1>3, <1>8, <1>9, <1>10, <1>11, Zenon
  <1> QED
    BY <1>12

\* The cache after the move of free_object, in its three cases.
LEMMA MoveIs ==
    ASSUME NEW full, NEW partial, NEW none, NEW f, NEW a, NEW page, NEW n
    PROVE  free_move(CacheOf(full, partial, none, f, a), page, n) =
             IF n = 1 /\ n < Limit
             THEN CacheOf(RemoveFirst(full, page), <<page>> \o RemoveFirst(partial, page),
                          RemoveFirst(none, page), f, a)
             ELSE IF n = Limit
             THEN CacheOf(RemoveFirst(full, page), RemoveFirst(partial, page),
                          <<page>> \o RemoveFirst(none, page), f, a)
             ELSE CacheOf(full, partial, none, f, a)
  <1> DEFINE c == CacheOf(full, partial, none, f, a)
             x == RemoveFirst(full, page)
             y == RemoveFirst(partial, page)
             z == RemoveFirst(none, page)
             moved == CacheOf(x, y, z, f, a)
  <1>1. moved.partial_slab = y /\ moved.free_slab = z
    BY DEF CacheOf
  <1>2. slab_list_remove(c, page) = moved
    BY RemoveIs
  <1>3. [moved EXCEPT !.partial_slab = <<page>> \o @] = CacheOf(x, <<page>> \o y, z, f, a)
    <2> HIDE DEF x, y, z
    <2>1. ASSUME NEW w PROVE [moved EXCEPT !.partial_slab = w] = CacheOf(x, w, z, f, a)
      BY SMT DEF CacheOf
    <2>2. [moved EXCEPT !.partial_slab = <<page>> \o y] = CacheOf(x, <<page>> \o y, z, f, a)
      BY <2>1, Zenon
    <2> HIDE DEF moved
    <2> QED
      BY <1>1, <2>2, Zenon
  <1>4. [moved EXCEPT !.free_slab = <<page>> \o @] = CacheOf(x, y, <<page>> \o z, f, a)
    <2> HIDE DEF x, y, z
    <2>1. ASSUME NEW w PROVE [moved EXCEPT !.free_slab = w] = CacheOf(x, y, w, f, a)
      BY SMT DEF CacheOf
    <2>2. [moved EXCEPT !.free_slab = <<page>> \o z] = CacheOf(x, y, <<page>> \o z, f, a)
      BY <2>1, Zenon
    <2> HIDE DEF moved
    <2> QED
      BY <1>1, <2>2, Zenon
  <1> HIDE DEF c, x, y, z, moved
  <1>5. free_move(c, page, n) = CASE n = 1 /\ n < Limit -> [moved EXCEPT !.partial_slab = <<page>> \o @]
                                  [] n = Limit -> [moved EXCEPT !.free_slab = <<page>> \o @]
                                  [] OTHER -> c
    BY <1>2, Zenon DEF free_move
  <1>6. (n = 1 /\ n < Limit) /\ n = Limit => FALSE
    BY LimitAssumption
  <1>7. free_move(c, page, n) = IF n = 1 /\ n < Limit THEN [moved EXCEPT !.partial_slab = <<page>> \o @]
                                ELSE IF n = Limit THEN [moved EXCEPT !.free_slab = <<page>> \o @] ELSE c
    BY <1>5, <1>6
  <1>8. free_move(c, page, n) = IF n = 1 /\ n < Limit THEN CacheOf(x, <<page>> \o y, z, f, a)
                                ELSE IF n = Limit THEN CacheOf(x, y, <<page>> \o z, f, a) ELSE c
    BY <1>3, <1>4, <1>7, Zenon
  <1> QED
    BY <1>8 DEF c, x, y, z

\* slab_free of an object in use makes it available again.
LEMMA FreeWell ==
    ASSUME NEW c, NEW U, Well(c, U), NEW o \in U
    PROVE  /\ Well(free_object(c, o), U \ {o})
           /\ PagesOf(free_object(c, o)) = PagesOf(c)
  <1> DEFINE full == c.full_slab
             partial == c.partial_slab
             none == c.free_slab
             f == c.free
             a == c.avail
             page == o[1]
             i == o[2]
             n == a[page]
             g == [f EXCEPT ![page] = [@ EXCEPT ![n + 1] = i]]
             b == [a EXCEPT ![page] = n + 1]
             V == U \ {o}
             P == DOMAIN f
             S == {k \in 1..Limit : <<page, k>> \notin U}
             x == RemoveFirst(full, page)
             y == RemoveFirst(partial, page)
             z == RemoveFirst(none, page)
  <1>1. c = CacheOf(full, partial, none, f, a) /\ Parts(full, partial, none, f, a, U)
    BY DEF Well
  <1>2. P = PagesOf(c)
    BY DEF PagesOf
  <1>3. free_object(c, o) = free_move(free_store(c, o, n), page, n + 1)
    BY DEF free_object
  <1> HIDE DEF full, partial, none, f, a
  <1>4. a = [q \in P |-> a[q]] /\ f = [q \in P |-> f[q]] /\ U \subseteq Objects(P)
    BY <1>1 DEF Parts
  <1>5. o = <<page, i>> /\ page \in P /\ i \in 1..Limit
    BY <1>4, ObjectsOf
  <1> HIDE DEF page, i
  <1>6. Stacked(f[page], n, S)
    BY <1>1, <1>5 DEF Parts
  <1>7. i \notin S
    BY <1>5
  <1>8. n < Limit /\ Stacked([f[page] EXCEPT ![n + 1] = i], n + 1, S \cup {i})
    <2> HIDE DEF S
    <2> QED
      BY <1>5, <1>6, <1>7, Pushed
  <1>9. n \in 0..Limit - 1 /\ n + 1 \in 1..Limit /\ n + 1 # 0 /\ n # Limit /\ (n # 0 <=> n + 1 # 1)
    <2>1. n \in 0..Limit
      BY <1>6 DEF Stacked
    <2> HIDE DEF n
    <2> QED
      BY <1>8, <2>1, LimitAssumption
  <1>10. /\ g = [q \in P |-> g[q]] /\ g[page] = [f[page] EXCEPT ![n + 1] = i]
         /\ \A q \in P \ {page} : g[q] = f[q]
    BY <1>4, <1>5
  <1>11. b = [q \in P |-> b[q]] /\ b[page] = n + 1 /\ \A q \in P \ {page} : b[q] = a[q]
    BY <1>4, <1>5
  <1>12. free_object(c, o) = IF n + 1 = 1 /\ n + 1 < Limit THEN CacheOf(x, <<page>> \o y, z, g, b)
                             ELSE IF n + 1 = Limit THEN CacheOf(x, y, <<page>> \o z, g, b)
                             ELSE CacheOf(full, partial, none, g, b)
    <2>1. free_store(CacheOf(full, partial, none, f, a), <<page, i>>, n)
            = CacheOf(full, partial, none, g, b)
      <3> HIDE DEF n
      <3>1. Stores(f, a, page, i, n, g, b)
        BY DEF Stores
      <3> HIDE DEF g, b
      <3> QED
        BY <3>1, StoreIs
    <2>2. free_store(c, o, n) = CacheOf(full, partial, none, g, b)
      <3> HIDE DEF g, b, n
      <3> QED
        BY <1>1, <1>5, <2>1
    <2> HIDE DEF g, b, n
    <2>3. free_object(c, o) = free_move(CacheOf(full, partial, none, g, b), page, n + 1)
      BY <1>3, <2>2
    <2> DEFINE m == n + 1
    <2> HIDE DEF m
    <2>4. free_move(CacheOf(full, partial, none, g, b), page, m)
                           = IF m = 1 /\ m < Limit THEN CacheOf(x, <<page>> \o y, z, g, b)
                             ELSE IF m = Limit THEN CacheOf(x, y, <<page>> \o z, g, b)
                             ELSE CacheOf(full, partial, none, g, b)
      BY MoveIs
    <2> QED
      BY <2>3, <2>4, Zenon DEF m
  <1> HIDE DEF g, b
  <1>13. V \subseteq Objects(P)
    BY <1>4
  <1>14. {k \in 1..Limit : <<page, k>> \notin V} = S \cup {i}
    BY <1>5
  <1>15. \A q \in P \ {page} : \A k \in 1..Limit : <<q, k>> \in V <=> <<q, k>> \in U
    BY <1>5
  <1>16. Changes(f, a, U, page, g, b, V)
    <2>1. Stacked(g[page], b[page], {k \in 1..Limit : <<page, k>> \notin V})
      BY <1>8, <1>10, <1>11, <1>14
    <2> HIDE DEF V
    <2> QED
      BY <1>5, <1>10, <1>11, <1>13, <1>15, <2>1, Zenon DEF Changes
  <1> HIDE DEF V
  <1>17. /\ Parts(Relisted(full, page, b[page] = 0), Relisted(partial, page, b[page] \notin {0, Limit}),
                  Relisted(none, page, b[page] = Limit), g, b, V)
         /\ a[page] \notin {0, Limit} /\ b[page] \notin {0, Limit} => Parts(full, partial, none, g, b, V)
         /\ DOMAIN g = P
    BY <1>1, <1>16, PartsChange
  <1>18. b[page] # 0 /\ (b[page] = 1 /\ b[page] < Limit => b[page] # Limit)
    BY <1>9, <1>11, LimitAssumption
  <1>19. Well(free_object(c, o), V) /\ PagesOf(free_object(c, o)) = P
    <2> HIDE DEF x, y, z, P, n
    <2>1. CASE n + 1 = 1 /\ n + 1 < Limit
      <3>1. free_object(c, o) = CacheOf(x, <<page>> \o y, z, g, b)
        BY <1>12, <2>1
      <3>2. b[page] # 0 /\ b[page] # Limit
        BY <1>11, <1>18, <2>1
      <3>3. Parts(x, <<page>> \o y, z, g, b, V)
        BY <1>17, <3>2 DEF Relisted, x, y, z
      <3> QED
        BY <3>1, <3>3, <1>17, WellParts
    <2>2. CASE ~(n + 1 = 1 /\ n + 1 < Limit) /\ n + 1 = Limit
      <3>1. free_object(c, o) = CacheOf(x, y, <<page>> \o z, g, b)
        BY <1>12, <2>2
      <3>2. b[page] # 0 /\ b[page] = Limit
        BY <1>11, <1>18, <2>2
      <3>3. Parts(x, y, <<page>> \o z, g, b, V)
        BY <1>17, <3>2 DEF Relisted, x, y, z
      <3> QED
        BY <3>1, <3>3, <1>17, WellParts
    <2>3. CASE ~(n + 1 = 1 /\ n + 1 < Limit) /\ n + 1 # Limit
      <3>1. free_object(c, o) = CacheOf(full, partial, none, g, b)
        BY <1>12, <2>3
      <3>2. n # 0 /\ n # Limit /\ b[page] # 0 /\ b[page] # Limit
        BY <1>9, <1>11, <1>18, <2>3, LimitAssumption
      <3>3. Parts(full, partial, none, g, b, V)
        BY <1>17, <3>2 DEF n
      <3> QED
        BY <3>1, <3>3, <1>17, WellParts
    <2> QED
      BY <2>1, <2>2, <2>3
  <1> QED
    BY <1>2, <1>19 DEF V

\* One list behind another.
LEMMA ListedConcat ==
    ASSUME NEW s, NEW S, NEW t, NEW T, Listed(s, S), Listed(t, T), S \cap T = {}
    PROVE  Listed(s \o t, S \cup T)
  <1> DEFINE u == s \o t
  <1>1. /\ s \in Seq(Memory) /\ ToSet(s) = S /\ \A i, j \in 1..Len(s) : s[i] = s[j] => i = j
        /\ t \in Seq(Memory) /\ ToSet(t) = T /\ \A i, j \in 1..Len(t) : t[i] = t[j] => i = j
    BY DEF Listed, IsInjective
  <1>2. /\ Len(s) \in Nat /\ Len(t) \in Nat
        /\ DOMAIN s = 1..Len(s) /\ DOMAIN t = 1..Len(t)
    BY <1>1
  <1>3. /\ u \in Seq(Memory) /\ Len(u) = Len(s) + Len(t)
        /\ \A i \in 1..(Len(s) + Len(t)) : u[i] = IF i <= Len(s) THEN s[i] ELSE t[i - Len(s)]
    BY <1>1, ConcatProperties
  <1> HIDE DEF u
  <1>4. DOMAIN u = 1..Len(u)
    BY <1>3
  <1>5. \A i \in 1..Len(s) : s[i] \in S
    BY <1>1, <1>2 DEF ToSet
  <1>6. \A i \in 1..Len(t) : t[i] \in T
    BY <1>1, <1>2 DEF ToSet
  <1>7. \A i \in 1..Len(u) : \/ i \in 1..Len(s) /\ u[i] = s[i] /\ u[i] \in S
                             \/ i - Len(s) \in 1..Len(t) /\ u[i] = t[i - Len(s)] /\ u[i] \in T
    <2> TAKE i \in 1..Len(u)
    <2>1. CASE i <= Len(s)
      <3>1. i \in 1..Len(s) /\ u[i] = s[i]
        BY <1>2, <1>3, <2>1
      <3> QED
        BY <3>1, <1>5
    <2>2. CASE ~(i <= Len(s))
      <3>1. i - Len(s) \in 1..Len(t) /\ u[i] = t[i - Len(s)]
        BY <1>2, <1>3, <2>2
      <3> QED
        BY <3>1, <1>6
    <2> QED
      BY <2>1, <2>2
  <1>8. ASSUME NEW i \in 1..Len(u), NEW j \in 1..Len(u), u[i] = u[j] PROVE i = j
    <2>1. CASE i \in 1..Len(s) /\ j \in 1..Len(s) /\ s[i] = s[j]
      BY <1>1, <2>1
    <2>2. CASE i - Len(s) \in 1..Len(t) /\ j - Len(s) \in 1..Len(t) /\ t[i - Len(s)] = t[j - Len(s)]
      <3>1. i - Len(s) = j - Len(s)
        BY <1>1, <2>2
      <3> QED
        BY <3>1, <1>2, <1>3
    <2> QED
      BY <2>1, <2>2, <1>7, <1>8
  <1>9. ToSet(u) = S \cup T
    <2>1. \A y \in ToSet(u) : y \in S \cup T
      BY <1>4, <1>7 DEF ToSet
    <2>2. ASSUME NEW y \in S PROVE y \in ToSet(u)
      <3>1. PICK i \in 1..Len(s) : s[i] = y
        BY <1>1, <1>2 DEF ToSet
      <3>2. i \in 1..Len(u) /\ u[i] = y
        BY <3>1, <1>2, <1>3
      <3> QED
        BY <3>2, <1>4 DEF ToSet
    <2>3. ASSUME NEW y \in T PROVE y \in ToSet(u)
      <3>1. PICK i \in 1..Len(t) : t[i] = y
        BY <1>1, <1>2 DEF ToSet
      <3> DEFINE k == i + Len(s)
      <3>2. k \in 1..(Len(s) + Len(t)) /\ ~(k <= Len(s)) /\ k - Len(s) = i
        BY <1>2
      <3> HIDE DEF k
      <3>3. u[k] = y /\ k \in DOMAIN u
        BY <3>1, <3>2, <1>3, <1>4
      <3> QED
        BY <3>3 DEF ToSet
    <2> QED
      BY <2>1, <2>2, <2>3
  <1>10. Listed(u, S \cup T)
    BY <1>3, <1>4, <1>8, <1>9 DEF Listed, IsInjective
  <1> QED
    BY <1>10 DEF u

\* Such a cache is what CacheOK and CacheExact say.
LEMMA WellExact ==
    ASSUME NEW c, NEW U, Well(c, U)
    PROVE  CacheOK(c) /\ CacheExact(c, U) /\ PagesOf(c) \subseteq Memory /\ U \subseteq Objects(PagesOf(c))
  <1> DEFINE full == c.full_slab
             partial == c.partial_slab
             none == c.free_slab
             a == c.avail
             P == PagesOf(c)
             F == {q \in P : a[q] = 0}
             H == {q \in P : a[q] \notin {0, Limit}}
             N == {q \in P : a[q] = Limit}
  <1>1. /\ Listed(full, F) /\ Listed(partial, H) /\ Listed(none, N) /\ P \subseteq Memory
        /\ U \subseteq Objects(P)
    BY DEF Well, Parts, PagesOf
  <1>2. \A q \in P : Stacked(c.free[q], a[q], {i \in 1..Limit : <<q, i>> \notin U})
    BY DEF Well, Parts, PagesOf
  <1> HIDE DEF full, partial, none, a, P
  <1>3. F \cap H = {} /\ (F \cup H) \cap N = {} /\ F \cup H \cup N = P
    BY LimitAssumption
  <1>4. Listed(full \o partial \o none, P)
    <2> HIDE DEF F, H, N
    <2>1. Listed(full \o partial, F \cup H)
      BY <1>1, <1>3, ListedConcat
    <2>2. Listed((full \o partial) \o none, (F \cup H) \cup N)
      BY <1>1, <1>3, <2>1, ListedConcat
    <2> QED
      BY <1>3, <2>2
  <1>5. ASSUME NEW q \in P
        PROVE  /\ Cardinality(Available(c, q)) = a[q]
               /\ Available(c, q) = {i \in 1..Limit : <<q, i>> \notin U}
               /\ a[q] \in 0..Limit /\ \A i \in 1..Limit : c.free[q][i] \in 1..Limit
    <2> DEFINE S == {i \in 1..Limit : <<q, i>> \notin U}
    <2>1. Stacked(c.free[q], a[q], S)
      BY <1>2
    <2> HIDE DEF S
    <2>2. Cardinality(S) = a[q]
      BY <2>1, StackedSize
    <2>3. Available(c, q) = S
      BY <2>1 DEF Stacked, Available, a
    <2>4. a[q] \in 0..Limit /\ \A i \in 1..Limit : c.free[q][i] \in 1..Limit
      BY <2>1 DEF Stacked
    <2> QED
      BY <2>2, <2>3, <2>4 DEF S
  <1>6. IsInjective(full \o partial \o none) /\ ToSet(full \o partial \o none) = P
    BY <1>4 DEF Listed
  <1>7. ToSet(full) = F /\ ToSet(partial) = H /\ ToSet(none) = N
    BY <1>1 DEF Listed
  <1>8. CacheExact(c, U)
    BY <1>5, <1>6, <1>7 DEF CacheExact, full, partial, none, P, a
  <1>9. CacheOK(c)
    <2>1. \A list \in {full, partial, none} : ToSet(list) \subseteq P
      BY <1>7
    <2> QED
      BY <1>5, <2>1 DEF CacheOK, full, partial, none, P, a
  <1> QED
    BY <1>1, <1>8, <1>9 DEF P

-----------------------------------------------------------------------------
(* Address spaces.                                                         *)

\* A process object with these fields.
ProcOf(st, dir, tabs, pages, n) ==
    [state |-> st, page_dir |-> dir, tabs |-> tabs, pages |-> pages, mem_pages |-> n]

\* The pages that tables or pages f are in.
Frames(f) == {f[y].page : y \in DOMAIN f}

\* The address space from the page directory, the tables and the pages.
LEMMA SpaceFrames ==
    ASSUME NEW p
    PROVE  AddressSpace(p) = ({p.page_dir} \ {0}) \cup Frames(p.tabs) \cup Frames(p.pages)
  BY Zenon DEF AddressSpace, Frames

\* An address space: its pages are pages of the memory, no page is in it twice,
\* and the table of every page is there.
SpaceOK(p) ==
    /\ p = ProcOf(p.state, p.page_dir, p.tabs, p.pages, p.mem_pages)
    /\ p.state \in {"new", "RUNNING"} /\ p.page_dir \in Memory \cup {0}
    /\ IsFiniteSet(DOMAIN p.tabs) /\ IsFiniteSet(DOMAIN p.pages)
    /\ DOMAIN p.tabs \subseteq 0..USER_PDES - 1 /\ DOMAIN p.pages \subseteq Nat
    /\ \A v \in DOMAIN p.pages : VMM_PDE_INDEX(v) \in DOMAIN p.tabs
    /\ AddressSpace(p) \subseteq Memory
    /\ Cardinality(AddressSpace(p)) = PagesIn(p)

\* q is p with one more page.
Grown(p, q, page) ==
    SpaceOK(q) /\ AddressSpace(q) = AddressSpace(p) \cup {page} /\ PagesIn(q) = PagesIn(p) + 1

\* The memory is finite.
LEMMA MemoryFinite == IsFiniteSet(Memory) /\ Cardinality(Memory) = MemoryPages /\ Memory \subseteq Nat
  <1>1. MemoryPages \in Nat
    BY LayoutAssumption
  <1>2. /\ IsFiniteSet(1..MemoryPages)
        /\ Cardinality(1..MemoryPages) = IF 1 > MemoryPages THEN 0 ELSE MemoryPages - 1 + 1
    BY <1>1, FS_Interval
  <1> QED
    BY <1>1, <1>2 DEF Memory

\* An address space that has one page and one entry more.
LEMMA SpaceGrows ==
    ASSUME NEW p, NEW q, NEW page \in Memory, SpaceOK(p), page \notin AddressSpace(p),
           AddressSpace(q) = AddressSpace(p) \cup {page}, PagesIn(q) = PagesIn(p) + 1
    PROVE  /\ AddressSpace(q) \subseteq Memory /\ Cardinality(AddressSpace(q)) = PagesIn(q)
           /\ PagesIn(p) \in 0..MemoryPages
  <1>1. AddressSpace(p) \subseteq Memory /\ Cardinality(AddressSpace(p)) = PagesIn(p)
    BY DEF SpaceOK
  <1>2. IsFiniteSet(AddressSpace(p)) /\ Cardinality(AddressSpace(p)) <= MemoryPages
    BY <1>1, MemoryFinite, FS_Subset
  <1>3. Cardinality(AddressSpace(p) \cup {page}) = Cardinality(AddressSpace(p)) + 1
    BY <1>2, FS_AddElement
  <1>4. Cardinality(AddressSpace(p)) \in Nat
    BY <1>2, FS_CardinalityType
  <1> QED
    BY <1>1, <1>2, <1>3, <1>4, LayoutAssumption

\* vmm_alloc_vaddr_space
LEMMA GrowDir ==
    ASSUME NEW p, SpaceOK(p), NEW page \in Memory, page \notin AddressSpace(p), NEW n,
           p.page_dir = 0
    PROVE  Grown(p, ProcOf(p.state, page, p.tabs, p.pages, n), page)
  <1> DEFINE q == ProcOf(p.state, page, p.tabs, p.pages, n)
  <1>1. /\ q.state = p.state /\ q.page_dir = page /\ q.tabs = p.tabs /\ q.pages = p.pages
        /\ q.mem_pages = n
    BY DEF ProcOf
  <1>2. q = ProcOf(q.state, q.page_dir, q.tabs, q.pages, q.mem_pages)
    BY <1>1, Zenon
  <1> HIDE DEF q
  <1>3. page # 0
    BY LayoutAssumption DEF Memory
  <1>4. AddressSpace(q) = AddressSpace(p) \cup {page}
    BY <1>1, <1>3 DEF AddressSpace
  <1>5. Cardinality(DOMAIN p.tabs) \in Nat /\ Cardinality(DOMAIN p.pages) \in Nat
    BY FS_CardinalityType DEF SpaceOK
  <1>6. PagesIn(q) = PagesIn(p) + 1
    BY <1>1, <1>3, <1>5 DEF PagesIn
  <1>7. AddressSpace(q) \subseteq Memory /\ Cardinality(AddressSpace(q)) = PagesIn(q)
    BY <1>4, <1>6, SpaceGrows
  <1>8. /\ p.state \in {"new", "RUNNING"} /\ page \in Memory \cup {0}
        /\ IsFiniteSet(DOMAIN p.tabs) /\ IsFiniteSet(DOMAIN p.pages)
        /\ DOMAIN p.tabs \subseteq 0..USER_PDES - 1 /\ DOMAIN p.pages \subseteq Nat
        /\ \A v \in DOMAIN p.pages : VMM_PDE_INDEX(v) \in DOMAIN p.tabs
    BY DEF SpaceOK
  <1>9. SpaceOK(q)
    BY <1>1, <1>2, <1>7, <1>8, Zenon DEF SpaceOK
  <1> QED
    BY <1>4, <1>6, <1>9 DEF Grown, q

\* g is f with one entry more.
Adds(f, x, v, g) ==
    /\ DOMAIN g = DOMAIN f \cup {x}
    /\ g[x] = v /\ \A y \in DOMAIN f : g[y] = f[y]
    /\ IsFiniteSet(DOMAIN g) /\ Cardinality(DOMAIN g) = Cardinality(DOMAIN f) + 1
    /\ Frames(g) = Frames(f) \cup {v.page}

\* What Extend adds.
LEMMA Extended ==
    ASSUME NEW f, NEW x, x \notin DOMAIN f, NEW v, IsFiniteSet(DOMAIN f)
    PROVE  Adds(f, x, v, Extend(f, x, v))
  <1> DEFINE g == Extend(f, x, v)
  <1>1. DOMAIN g = DOMAIN f \cup {x} /\ g[x] = v /\ \A y \in DOMAIN f : g[y] = f[y]
    BY DEF Extend
  <1> HIDE DEF g
  <1>2. IsFiniteSet(DOMAIN g) /\ Cardinality(DOMAIN g) = Cardinality(DOMAIN f) + 1
    BY <1>1, FS_AddElement
  <1>3. Frames(g) = Frames(f) \cup {v.page}
    BY <1>1 DEF Frames
  <1>4. Adds(f, x, v, g)
    BY <1>1, <1>2, <1>3 DEF Adds
  <1> QED
    BY <1>4 DEF g

\* A new page table.
LEMMA GrowTab ==
    ASSUME NEW p, SpaceOK(p), NEW page \in Memory, page \notin AddressSpace(p), NEW n,
           NEW d \in 0..USER_PDES - 1, d \notin DOMAIN p.tabs, NEW t, t.page = page
    PROVE  Grown(p, ProcOf(p.state, p.page_dir, Extend(p.tabs, d, t), p.pages, n), page)
  <1> DEFINE tabs == Extend(p.tabs, d, t)
             q == ProcOf(p.state, p.page_dir, tabs, p.pages, n)
  <1>1. /\ q.state = p.state /\ q.page_dir = p.page_dir /\ q.tabs = tabs /\ q.pages = p.pages
        /\ q.mem_pages = n
    BY DEF ProcOf
  <1>2. q = ProcOf(q.state, q.page_dir, q.tabs, q.pages, q.mem_pages)
    BY <1>1, Zenon
  <1>3. /\ p.state \in {"new", "RUNNING"} /\ p.page_dir \in Memory \cup {0}
        /\ IsFiniteSet(DOMAIN p.tabs) /\ IsFiniteSet(DOMAIN p.pages)
        /\ DOMAIN p.tabs \subseteq 0..USER_PDES - 1 /\ DOMAIN p.pages \subseteq Nat
        /\ \A v \in DOMAIN p.pages : VMM_PDE_INDEX(v) \in DOMAIN p.tabs
    BY DEF SpaceOK
  <1>4. /\ DOMAIN tabs = DOMAIN p.tabs \cup {d}
        /\ IsFiniteSet(DOMAIN tabs) /\ Cardinality(DOMAIN tabs) = Cardinality(DOMAIN p.tabs) + 1
        /\ Frames(tabs) = Frames(p.tabs) \cup {t.page}
    <2>1. Adds(p.tabs, d, t, tabs)
      BY <1>3, Extended
    <2> HIDE DEF tabs
    <2> QED
      BY <2>1 DEF Adds
  <1> HIDE DEF q, tabs
  <1>5. AddressSpace(q) = AddressSpace(p) \cup {page}
    BY <1>1, <1>4, SpaceFrames
  <1>6. Cardinality(DOMAIN p.tabs) \in Nat /\ Cardinality(DOMAIN p.pages) \in Nat
    BY <1>3, FS_CardinalityType
  <1>7. PagesIn(q) = PagesIn(p) + 1
    BY <1>1, <1>4, <1>6 DEF PagesIn
  <1>8. AddressSpace(q) \subseteq Memory /\ Cardinality(AddressSpace(q)) = PagesIn(q)
    BY <1>5, <1>7, SpaceGrows
  <1>9. /\ DOMAIN tabs \subseteq 0..USER_PDES - 1
        /\ \A v \in DOMAIN p.pages : VMM_PDE_INDEX(v) \in DOMAIN tabs
    BY <1>3, <1>4
  <1>10. SpaceOK(q)
    BY <1>1, <1>2, <1>3, <1>4, <1>8, <1>9, Zenon DEF SpaceOK
  <1> QED
    BY <1>5, <1>7, <1>10 DEF Grown, q, tabs

\* A new page, in a table that is there.
LEMMA GrowPage ==
    ASSUME NEW p, SpaceOK(p), NEW page \in Memory, page \notin AddressSpace(p), NEW n,
           NEW v \in Nat, v \notin DOMAIN p.pages, VMM_PDE_INDEX(v) \in DOMAIN p.tabs,
           NEW t, t.page = page
    PROVE  Grown(p, ProcOf(p.state, p.page_dir, p.tabs, Extend(p.pages, v, t), n), page)
  <1> DEFINE pages == Extend(p.pages, v, t)
             q == ProcOf(p.state, p.page_dir, p.tabs, pages, n)
  <1>1. /\ q.state = p.state /\ q.page_dir = p.page_dir /\ q.tabs = p.tabs /\ q.pages = pages
        /\ q.mem_pages = n
    BY DEF ProcOf
  <1>2. q = ProcOf(q.state, q.page_dir, q.tabs, q.pages, q.mem_pages)
    BY <1>1, Zenon
  <1>3. /\ p.state \in {"new", "RUNNING"} /\ p.page_dir \in Memory \cup {0}
        /\ IsFiniteSet(DOMAIN p.tabs) /\ IsFiniteSet(DOMAIN p.pages)
        /\ DOMAIN p.tabs \subseteq 0..USER_PDES - 1 /\ DOMAIN p.pages \subseteq Nat
        /\ \A w \in DOMAIN p.pages : VMM_PDE_INDEX(w) \in DOMAIN p.tabs
    BY DEF SpaceOK
  <1>4. /\ DOMAIN pages = DOMAIN p.pages \cup {v}
        /\ IsFiniteSet(DOMAIN pages) /\ Cardinality(DOMAIN pages) = Cardinality(DOMAIN p.pages) + 1
        /\ Frames(pages) = Frames(p.pages) \cup {t.page}
    <2>1. Adds(p.pages, v, t, pages)
      BY <1>3, Extended
    <2> HIDE DEF pages
    <2> QED
      BY <2>1 DEF Adds
  <1> HIDE DEF q, pages
  <1>5. AddressSpace(q) = AddressSpace(p) \cup {page}
    BY <1>1, <1>4, SpaceFrames
  <1>6. Cardinality(DOMAIN p.tabs) \in Nat /\ Cardinality(DOMAIN p.pages) \in Nat
    BY <1>3, FS_CardinalityType
  <1>7. PagesIn(q) = PagesIn(p) + 1
    BY <1>1, <1>4, <1>6 DEF PagesIn
  <1>8. AddressSpace(q) \subseteq Memory /\ Cardinality(AddressSpace(q)) = PagesIn(q)
    BY <1>5, <1>7, SpaceGrows
  <1>9. DOMAIN pages \subseteq Nat /\ \A w \in DOMAIN pages : VMM_PDE_INDEX(w) \in DOMAIN p.tabs
    BY <1>3, <1>4
  <1>10. SpaceOK(q)
    BY <1>1, <1>2, <1>3, <1>4, <1>8, <1>9, Zenon DEF SpaceOK
  <1> QED
    BY <1>5, <1>7, <1>10 DEF Grown, q, pages

-----------------------------------------------------------------------------
(* Where the pages of the memory are.                                      *)

\* The address spaces of the processes pr.
SpacesOf(pr) == [o \in DOMAIN pr |-> AddressSpace(pr[o])]

\* Every page is in one of these sets: the free pages fr, the pages ot of the
\* rest of the kernel, the pages ca of the process cache, the address spaces sp.
Homes(fr, ot, ca, sp) ==
    /\ fr \subseteq Memory /\ ot \subseteq Memory /\ ca \subseteq Memory
    /\ \A o \in DOMAIN sp : sp[o] \subseteq Memory
    /\ \A x \in Memory : x \in fr \/ x \in ot \/ x \in ca \/ \E o \in DOMAIN sp : x \in sp[o]
    /\ fr \cap ot = {} /\ fr \cap ca = {} /\ ot \cap ca = {}
    /\ \A o \in DOMAIN sp : sp[o] \cap fr = {} /\ sp[o] \cap ot = {} /\ sp[o] \cap ca = {}
    /\ \A o, q \in DOMAIN sp : o # q => sp[o] \cap sp[q] = {}

\* A free page becomes a page of the address space of o,
LEMMA HomeSpace ==
    ASSUME NEW fr, NEW ot, NEW ca, NEW sp, Homes(fr, ot, ca, sp), NEW x \in fr,
           NEW o \in DOMAIN sp, NEW sq, DOMAIN sq = DOMAIN sp, sq[o] = sp[o] \cup {x},
           \A q \in DOMAIN sp \ {o} : sq[q] = sp[q]
    PROVE  Homes(fr \ {x}, ot, ca, sq)
  <1>1. \A q \in DOMAIN sp : \A y : y \in sq[q] <=> y \in sp[q] \/ (q = o /\ y = x)
    OBVIOUS
  <1>2. x \notin ot /\ x \notin ca /\ x \in Memory /\ \A q \in DOMAIN sp : x \notin sp[q]
    BY DEF Homes
  <1>3. \A q \in DOMAIN sq :
            sq[q] \subseteq Memory /\ sq[q] \cap (fr \ {x}) = {} /\ sq[q] \cap ot = {} /\ sq[q] \cap ca = {}
    BY <1>1, <1>2 DEF Homes
  <1>4. \A q, r \in DOMAIN sq : q # r => sq[q] \cap sq[r] = {}
    BY <1>1, <1>2 DEF Homes
  <1>5. \A y \in Memory : y \in fr \ {x} \/ y \in ot \/ y \in ca \/ \E q \in DOMAIN sq : y \in sq[q]
    BY <1>1, <1>2 DEF Homes
  <1> QED
    BY <1>3, <1>4, <1>5 DEF Homes

\* a page of the process cache,
LEMMA HomeCache ==
    ASSUME NEW fr, NEW ot, NEW ca, NEW sp, Homes(fr, ot, ca, sp), NEW x \in fr
    PROVE  Homes(fr \ {x}, ot, ca \cup {x}, sp)
  BY DEF Homes

\* or one of the rest of the kernel;
LEMMA HomeOther ==
    ASSUME NEW fr, NEW ot, NEW ca, NEW sp, Homes(fr, ot, ca, sp), NEW x \in fr
    PROVE  Homes(fr \ {x}, ot \cup {x}, ca, sp)
  BY DEF Homes

\* a process is made, which has no page yet;
LEMMA HomeNew ==
    ASSUME NEW fr, NEW ot, NEW ca, NEW sp, Homes(fr, ot, ca, sp), NEW o, o \notin DOMAIN sp,
           NEW sq, DOMAIN sq = DOMAIN sp \cup {o}, sq[o] = {}, \A q \in DOMAIN sp : sq[q] = sp[q]
    PROVE  Homes(fr, ot, ca, sq)
  <1>1. \A q \in DOMAIN sq : \A y : y \in sq[q] <=> q \in DOMAIN sp /\ y \in sp[q]
    OBVIOUS
  <1>2. \A q \in DOMAIN sq :
            sq[q] \subseteq Memory /\ sq[q] \cap fr = {} /\ sq[q] \cap ot = {} /\ sq[q] \cap ca = {}
    BY <1>1 DEF Homes
  <1>3. \A q, r \in DOMAIN sq : q # r => sq[q] \cap sq[r] = {}
    BY <1>1 DEF Homes
  <1>4. \A y \in Memory : y \in fr \/ y \in ot \/ y \in ca \/ \E q \in DOMAIN sq : y \in sq[q]
    BY DEF Homes
  <1> QED
    BY <1>2, <1>3, <1>4 DEF Homes

\* and the address space of a process becomes free.
LEMMA HomeFree ==
    ASSUME NEW fr, NEW ot, NEW ca, NEW sp, Homes(fr, ot, ca, sp), NEW o \in DOMAIN sp,
           NEW sq, DOMAIN sq = DOMAIN sp \ {o}, \A q \in DOMAIN sp \ {o} : sq[q] = sp[q]
    PROVE  Homes(fr \cup sp[o], ot, ca, sq)
  <1> DEFINE S == sp[o]
  <1>1. /\ S \subseteq Memory /\ S \cap fr = {} /\ S \cap ot = {} /\ S \cap ca = {}
        /\ \A q \in DOMAIN sq : S \cap sq[q] = {}
    BY DEF Homes
  <1>2. \A q \in DOMAIN sq :
            sq[q] \subseteq Memory /\ sq[q] \cap fr = {} /\ sq[q] \cap ot = {} /\ sq[q] \cap ca = {}
    BY DEF Homes
  <1>3. \A q, r \in DOMAIN sq : q # r => sq[q] \cap sq[r] = {}
    BY DEF Homes
  <1>4. \A y \in Memory :
            y \in fr \cup S \/ y \in ot \/ y \in ca \/ \E q \in DOMAIN sq : y \in sq[q]
    BY DEF Homes
  <1>5. /\ fr \subseteq Memory /\ ot \subseteq Memory /\ ca \subseteq Memory /\ fr \cap ot = {}
        /\ fr \cap ca = {} /\ ot \cap ca = {}
    BY DEF Homes
  <1> HIDE DEF S
  <1>6. /\ fr \cup S \subseteq Memory /\ (fr \cup S) \cap ot = {} /\ (fr \cup S) \cap ca = {}
        /\ \A q \in DOMAIN sq : sq[q] \cap (fr \cup S) = {}
    BY <1>1, <1>2, <1>5
  <1>7. Homes(fr \cup S, ot, ca, sq)
    BY <1>2, <1>3, <1>4, <1>5, <1>6 DEF Homes
  <1> QED
    BY <1>7 DEF S

-----------------------------------------------------------------------------
(* The inductive invariant.                                                *)

\* Process objects: address spaces, mem_pages, and a directory where it runs.
ProcsOK(pr, kt) ==
    /\ pr = [o \in DOMAIN pr |-> pr[o]]
    /\ \A o \in DOMAIN pr : SpaceOK(pr[o])
    /\ \A o \in DOMAIN pr : pr[o].mem_pages = IF o = kt THEN 0 ELSE PagesIn(pr[o])
    /\ \A o \in DOMAIN pr : pr[o].state = "RUNNING" => pr[o].page_dir # 0

\* A job with these fields.
JobOf(stage, o, parent, pht, todo, program) ==
    [stage |-> stage, proc |-> o, parent |-> parent, pht |-> pht, todo |-> todo,
     program |-> program]

IsJob(jb) == jb = JobOf(jb.stage, jb.proc, jb.parent, jb.pht, jb.todo, jb.program)

Stages == {"boot", "exec", "exec_dir", "elf", "pht", "stacks", "clone_dir", "copy", "none"}
Starting == {"exec_dir", "clone_dir"}               \* no page directory yet
Filling == {"elf", "pht", "stacks", "copy"}         \* with one

\* Pages that are still to be mapped.
Mapping == [vaddr : 0..USER_PDES * NUM_PTE - 1, user : BOOLEAN]

\* The process being made is not used by anybody, and a clone has no more tables
\* and pages than its parent.
JobOK(jb, pr, kt) ==
    /\ IsJob(jb)
    /\ jb.stage \in Stages /\ jb.program \in Programs
    /\ jb.pht \in Seq(Segment) /\ jb.todo \in Seq(Mapping)
    /\ jb.todo # <<>> => jb.stage \in {"pht", "stacks"}
    /\ jb.stage # "boot" => kt \in DOMAIN pr
    /\ jb.stage \in Starting \cup Filling =>
        jb.proc \in DOMAIN pr \ {kt} /\ pr[jb.proc].state = "new"
    /\ jb.stage \in Starting =>
        /\ pr[jb.proc].page_dir = 0
        /\ DOMAIN pr[jb.proc].tabs = {} /\ DOMAIN pr[jb.proc].pages = {}
    /\ jb.stage \in Filling => pr[jb.proc].page_dir # 0
    /\ jb.stage \in {"clone_dir", "copy"} =>
        /\ jb.parent \in DOMAIN pr \ {kt} /\ pr[jb.parent].state = "RUNNING"
        /\ DOMAIN pr[jb.proc].tabs \subseteq DOMAIN pr[jb.parent].tabs
        /\ DOMAIN pr[jb.proc].pages \subseteq DOMAIN pr[jb.parent].pages

IInv ==
    /\ Well(proc_cache, DOMAIN proc)
    /\ Homes(free, other, PagesOf(proc_cache), SpacesOf(proc))
    /\ ProcsOK(proc, ktask)
    /\ JobOK(job, proc, ktask)
    /\ job.stage = "boot" => proc = <<>> /\ proc_cache = EmptyCache
    /\ panic \in {"", "slab", "ktask", "remap"}

\* The process o becomes p, the others stay.
Put(pr, o, p) == [q \in DOMAIN pr |-> IF q = o THEN p ELSE pr[q]]

\* Setting one field of it.
SetState(f, o, z) == [f EXCEPT ![o].state = z]
SetDir(f, o, z) == [f EXCEPT ![o].page_dir = z]
SetTabs(f, o, z) == [f EXCEPT ![o].tabs = z]
SetPages(f, o, z) == [f EXCEPT ![o].pages = z]
SetCount(f, o, z) == [f EXCEPT ![o].mem_pages = z]

\* The ways in which the actions change a process object.
PutDir(f, o, x, n) == [f EXCEPT ![o].page_dir = x, ![o].mem_pages = n]
PutTabs(f, o, x, n) == [f EXCEPT ![o].tabs = x, ![o].mem_pages = n]
PutPages(f, o, x, n) == [f EXCEPT ![o].pages = x, ![o].mem_pages = n]
PutBoth(f, o, x, y, n) == [f EXCEPT ![o].tabs = x, ![o].pages = y, ![o].mem_pages = n]

Changed(pr, o, x, y, n) ==
    /\ PutDir(pr, o, x, n) = Put(pr, o, ProcOf(pr[o].state, x, pr[o].tabs, pr[o].pages, n))
    /\ PutTabs(pr, o, x, n) = Put(pr, o, ProcOf(pr[o].state, pr[o].page_dir, x, pr[o].pages, n))
    /\ PutPages(pr, o, x, n) = Put(pr, o, ProcOf(pr[o].state, pr[o].page_dir, pr[o].tabs, x, n))
    /\ PutBoth(pr, o, x, y, n) = Put(pr, o, ProcOf(pr[o].state, pr[o].page_dir, x, y, n))
    /\ SetState(pr, o, x)
         = Put(pr, o, ProcOf(x, pr[o].page_dir, pr[o].tabs, pr[o].pages, pr[o].mem_pages))

\* Each of them puts a process object with other fields in the place of o.
LEMMA ProcUpdates ==
    ASSUME NEW pr, NEW kt, ProcsOK(pr, kt), NEW o \in DOMAIN pr, NEW x, NEW y, NEW n
    PROVE  Changed(pr, o, x, y, n)
  <1> DEFINE st == pr[o].state
             dir == pr[o].page_dir
             tabs == pr[o].tabs
             pages == pr[o].pages
             m == pr[o].mem_pages
  <1>1. pr = [q \in DOMAIN pr |-> pr[q]] /\ pr[o] = ProcOf(st, dir, tabs, pages, m)
    BY DEF ProcsOK, SpaceOK
  <1> HIDE DEF st, dir, tabs, pages, m
  <1>2. ASSUME NEW p, NEW q PROVE [Put(pr, o, p) EXCEPT ![o] = q] = Put(pr, o, q)
    BY DEF Put
  <1>3. ASSUME NEW p PROVE Put(pr, o, p)[o] = p
    BY DEF Put
  <1>4. pr = Put(pr, o, ProcOf(st, dir, tabs, pages, m))
    BY <1>1 DEF Put
  <1>5. ASSUME NEW f, NEW a, NEW b, NEW c, NEW d, NEW e, NEW z, f = Put(pr, o, ProcOf(a, b, c, d, e))
        PROVE  /\ SetState(f, o, z) = Put(pr, o, ProcOf(z, b, c, d, e))
               /\ SetDir(f, o, z) = Put(pr, o, ProcOf(a, z, c, d, e))
               /\ SetTabs(f, o, z) = Put(pr, o, ProcOf(a, b, z, d, e))
               /\ SetPages(f, o, z) = Put(pr, o, ProcOf(a, b, c, z, e))
               /\ SetCount(f, o, z) = Put(pr, o, ProcOf(a, b, c, d, z))
    <2>1. f[o] = ProcOf(a, b, c, d, e)
      BY <1>3, <1>5
    <2>2. \A q : [f EXCEPT ![o] = q] = Put(pr, o, q)
      BY <1>2, <1>5
    <2>3. SetState(f, o, z) = Put(pr, o, ProcOf(z, b, c, d, e))
      <3>1. SetState(f, o, z) = [f EXCEPT ![o] = [f[o] EXCEPT !.state = z]]
        BY DEF SetState
      <3>2. [ProcOf(a, b, c, d, e) EXCEPT !.state = z] = ProcOf(z, b, c, d, e)
        BY SMT DEF ProcOf
      <3> QED
        BY <2>1, <2>2, <3>1, <3>2, Zenon
    <2>4. SetDir(f, o, z) = Put(pr, o, ProcOf(a, z, c, d, e))
      <3>1. SetDir(f, o, z) = [f EXCEPT ![o] = [f[o] EXCEPT !.page_dir = z]]
        BY DEF SetDir
      <3>2. [ProcOf(a, b, c, d, e) EXCEPT !.page_dir = z] = ProcOf(a, z, c, d, e)
        BY SMT DEF ProcOf
      <3> QED
        BY <2>1, <2>2, <3>1, <3>2, Zenon
    <2>5. SetTabs(f, o, z) = Put(pr, o, ProcOf(a, b, z, d, e))
      <3>1. SetTabs(f, o, z) = [f EXCEPT ![o] = [f[o] EXCEPT !.tabs = z]]
        BY DEF SetTabs
      <3>2. [ProcOf(a, b, c, d, e) EXCEPT !.tabs = z] = ProcOf(a, b, z, d, e)
        BY SMT DEF ProcOf
      <3> QED
        BY <2>1, <2>2, <3>1, <3>2, Zenon
    <2>6. SetPages(f, o, z) = Put(pr, o, ProcOf(a, b, c, z, e))
      <3>1. SetPages(f, o, z) = [f EXCEPT ![o] = [f[o] EXCEPT !.pages = z]]
        BY DEF SetPages
      <3>2. [ProcOf(a, b, c, d, e) EXCEPT !.pages = z] = ProcOf(a, b, c, z, e)
        BY SMT DEF ProcOf
      <3> QED
        BY <2>1, <2>2, <3>1, <3>2, Zenon
    <2>7. SetCount(f, o, z) = Put(pr, o, ProcOf(a, b, c, d, z))
      <3>1. SetCount(f, o, z) = [f EXCEPT ![o] = [f[o] EXCEPT !.mem_pages = z]]
        BY DEF SetCount
      <3>2. [ProcOf(a, b, c, d, e) EXCEPT !.mem_pages = z] = ProcOf(a, b, c, d, z)
        BY SMT DEF ProcOf
      <3> QED
        BY <2>1, <2>2, <3>1, <3>2, Zenon
    <2> QED
      BY <2>3, <2>4, <2>5, <2>6, <2>7
  <1>6. /\ PutDir(pr, o, x, n) = SetCount(SetDir(pr, o, x), o, n)
        /\ PutTabs(pr, o, x, n) = SetCount(SetTabs(pr, o, x), o, n)
        /\ PutPages(pr, o, x, n) = SetCount(SetPages(pr, o, x), o, n)
        /\ PutBoth(pr, o, x, y, n) = SetCount(SetPages(SetTabs(pr, o, x), o, y), o, n)
    BY Zenon DEF SetDir, SetTabs, SetPages, SetCount, PutDir, PutTabs, PutPages, PutBoth
  <1>8. SetDir(pr, o, x) = Put(pr, o, ProcOf(st, x, tabs, pages, m))
    BY <1>4, <1>5
  <1>9. SetTabs(pr, o, x) = Put(pr, o, ProcOf(st, dir, x, pages, m))
    BY <1>4, <1>5
  <1>10. SetPages(pr, o, x) = Put(pr, o, ProcOf(st, dir, tabs, x, m))
    BY <1>4, <1>5
  <1>11. SetState(pr, o, x) = Put(pr, o, ProcOf(x, dir, tabs, pages, m))
    BY <1>4, <1>5
  <1>12. SetCount(SetDir(pr, o, x), o, n) = Put(pr, o, ProcOf(st, x, tabs, pages, n))
    BY <1>5, <1>8
  <1>13. SetCount(SetTabs(pr, o, x), o, n) = Put(pr, o, ProcOf(st, dir, x, pages, n))
    BY <1>5, <1>9
  <1>14. SetCount(SetPages(pr, o, x), o, n) = Put(pr, o, ProcOf(st, dir, tabs, x, n))
    BY <1>5, <1>10
  <1>15. SetPages(SetTabs(pr, o, x), o, y) = Put(pr, o, ProcOf(st, dir, x, y, m))
    BY <1>5, <1>9
  <1>16. SetCount(SetPages(SetTabs(pr, o, x), o, y), o, n)
           = Put(pr, o, ProcOf(st, dir, x, y, n))
    BY <1>5, <1>15
  <1> QED
    BY <1>6, <1>11, <1>12, <1>13, <1>14, <1>16, Zenon DEF Changed, st, dir, tabs, pages, m

\* p is r, a process being made, with one more page, which is counted.
GrowsTo(r, p, page) ==
    Grown(r, p, page) /\ p.mem_pages = r.mem_pages + 1 /\ p.state = r.state /\ r.state = "new"

\* The process o gets the page that was free: the invariant's parts about
\* processes and about pages.
LEMMA GrowProc ==
    ASSUME NEW fr, NEW ot, NEW ca, NEW pr, NEW kt, NEW o \in DOMAIN pr \ {kt}, NEW p, NEW page \in fr,
           Homes(fr, ot, ca, SpacesOf(pr)), ProcsOK(pr, kt), GrowsTo(pr[o], p, page)
    PROVE  ProcsOK(Put(pr, o, p), kt) /\ Homes(fr \ {page}, ot, ca, SpacesOf(Put(pr, o, p)))
  <1> DEFINE ps == Put(pr, o, p)
             sp == SpacesOf(pr)
             sq == SpacesOf(ps)
  <1>1. DOMAIN ps = DOMAIN pr /\ ps[o] = p /\ \A q \in DOMAIN pr \ {o} : ps[q] = pr[q]
    BY DEF Put
  <1>2. ps = [q \in DOMAIN ps |-> ps[q]]
    BY DEF Put
  <1> HIDE DEF ps
  <1>3. /\ SpaceOK(p) /\ AddressSpace(p) = AddressSpace(pr[o]) \cup {page}
        /\ PagesIn(p) = PagesIn(pr[o]) + 1 /\ p.mem_pages = pr[o].mem_pages + 1
        /\ p.state = pr[o].state /\ pr[o].state = "new"
    BY DEF Grown, GrowsTo
  <1>4. /\ \A q \in DOMAIN pr : SpaceOK(pr[q])
        /\ \A q \in DOMAIN pr : pr[q].mem_pages = IF q = kt THEN 0 ELSE PagesIn(pr[q])
        /\ \A q \in DOMAIN pr : pr[q].state = "RUNNING" => pr[q].page_dir # 0
    BY DEF ProcsOK
  <1>5. p.mem_pages = PagesIn(p)
    BY <1>3, <1>4
  <1>6. ProcsOK(ps, kt)
    <2>1. \A q \in DOMAIN ps : SpaceOK(ps[q])
      BY <1>1, <1>3, <1>4
    <2>2. \A q \in DOMAIN ps : ps[q].mem_pages = IF q = kt THEN 0 ELSE PagesIn(ps[q])
      BY <1>1, <1>4, <1>5
    <2>3. \A q \in DOMAIN ps : ps[q].state = "RUNNING" => ps[q].page_dir # 0
      BY <1>1, <1>3, <1>4
    <2> QED
      BY <1>2, <2>1, <2>2, <2>3 DEF ProcsOK
  <1>7. /\ DOMAIN sp = DOMAIN pr /\ DOMAIN sq = DOMAIN pr
        /\ \A q \in DOMAIN pr : sp[q] = AddressSpace(pr[q]) /\ sq[q] = AddressSpace(ps[q])
    BY <1>1 DEF SpacesOf
  <1>8. o \in DOMAIN sp /\ sq[o] = sp[o] \cup {page} /\ \A q \in DOMAIN sp \ {o} : sq[q] = sp[q]
    BY <1>1, <1>3, <1>7
  <1> HIDE DEF sp, sq
  <1>9. Homes(fr, ot, ca, sp)
    BY DEF sp
  <1>10. Homes(fr \ {page}, ot, ca, sq)
    BY <1>7, <1>8, <1>9, HomeSpace
  <1> QED
    BY <1>6, <1>10 DEF ps, sq

\* A process that begins to run keeps its pages.
Running(r) == ProcOf("RUNNING", r.page_dir, r.tabs, r.pages, r.mem_pages)

\* Nothing is counted or owned that was not before.
LEMMA RunProc ==
    ASSUME NEW pr, NEW kt, NEW o \in DOMAIN pr, ProcsOK(pr, kt), pr[o].page_dir # 0
    PROVE  /\ ProcsOK(Put(pr, o, Running(pr[o])), kt)
           /\ SpacesOf(Put(pr, o, Running(pr[o]))) = SpacesOf(pr)
  <1> DEFINE r == pr[o]
             p == ProcOf("RUNNING", r.page_dir, r.tabs, r.pages, r.mem_pages)
             ps == Put(pr, o, p)
  <1>1. DOMAIN ps = DOMAIN pr /\ ps[o] = p /\ \A q \in DOMAIN pr \ {o} : ps[q] = pr[q]
    BY DEF Put
  <1>2. ps = [q \in DOMAIN ps |-> ps[q]]
    BY DEF Put
  <1> HIDE DEF ps
  <1>3. /\ p.state = "RUNNING" /\ p.page_dir = r.page_dir /\ p.tabs = r.tabs /\ p.pages = r.pages
        /\ p.mem_pages = r.mem_pages
    BY DEF ProcOf
  <1>4. /\ \A q \in DOMAIN pr : SpaceOK(pr[q])
        /\ \A q \in DOMAIN pr : pr[q].mem_pages = IF q = kt THEN 0 ELSE PagesIn(pr[q])
        /\ \A q \in DOMAIN pr : pr[q].state = "RUNNING" => pr[q].page_dir # 0
    BY DEF ProcsOK
  <1>5. p = ProcOf(p.state, p.page_dir, p.tabs, p.pages, p.mem_pages)
    BY <1>3, Zenon
  <1> HIDE DEF p
  <1>6. AddressSpace(p) = AddressSpace(r) /\ PagesIn(p) = PagesIn(r)
    BY <1>3, Zenon DEF AddressSpace, PagesIn
  <1>7. SpaceOK(r)
    BY <1>4
  <1> HIDE DEF r
  <1>8. /\ r.page_dir \in Memory \cup {0}
        /\ IsFiniteSet(DOMAIN r.tabs) /\ IsFiniteSet(DOMAIN r.pages)
        /\ DOMAIN r.tabs \subseteq 0..USER_PDES - 1 /\ DOMAIN r.pages \subseteq Nat
        /\ \A v \in DOMAIN r.pages : VMM_PDE_INDEX(v) \in DOMAIN r.tabs
        /\ AddressSpace(r) \subseteq Memory /\ Cardinality(AddressSpace(r)) = PagesIn(r)
    BY <1>7 DEF SpaceOK
  <1>9. SpaceOK(p)
    <2>1. p.state \in {"new", "RUNNING"}
      BY <1>3
    <2> QED
      BY <1>3, <1>5, <1>6, <1>8, <2>1, Zenon DEF SpaceOK
  <1>10. ProcsOK(ps, kt)
    <2>1. \A q \in DOMAIN ps : SpaceOK(ps[q])
      BY <1>1, <1>4, <1>9
    <2>2. \A q \in DOMAIN ps : ps[q].mem_pages = IF q = kt THEN 0 ELSE PagesIn(ps[q])
      BY <1>1, <1>3, <1>4, <1>6 DEF r
    <2>3. \A q \in DOMAIN ps : ps[q].state = "RUNNING" => ps[q].page_dir # 0
      BY <1>1, <1>3, <1>4 DEF r
    <2> QED
      BY <1>2, <2>1, <2>2, <2>3 DEF ProcsOK
  <1>11. SpacesOf(ps) = SpacesOf(pr)
    <2>1. \A q \in DOMAIN pr : AddressSpace(ps[q]) = AddressSpace(pr[q])
      BY <1>1, <1>6 DEF r
    <2> QED
      BY <1>1, <2>1 DEF SpacesOf
  <1> QED
    BY <1>10, <1>11 DEF Running, ps, p, r

\* The fields of a job.
HasFields(jb, stage, o, parent, pht, todo, program) ==
    /\ jb.stage = stage /\ jb.proc = o /\ jb.parent = parent
    /\ jb.pht = pht /\ jb.todo = todo /\ jb.program = program

\* JobOf has these fields.
LEMMA JobIs ==
    ASSUME NEW stage, NEW o, NEW parent, NEW pht, NEW todo, NEW program
    PROVE  HasFields(JobOf(stage, o, parent, pht, todo, program), stage, o, parent, pht, todo, program)
  BY DEF HasFields, JobOf

SetStage(f, z) == [f EXCEPT !.stage = z]
SetProc(f, z) == [f EXCEPT !.proc = z]
SetParent(f, z) == [f EXCEPT !.parent = z]
SetPht(f, z) == [f EXCEPT !.pht = z]
SetTodo(f, z) == [f EXCEPT !.todo = z]

\* Setting one field of a job.
LEMMA JobSets ==
    ASSUME NEW a, NEW b, NEW c, NEW d, NEW e, NEW g, NEW z
    PROVE  /\ SetStage(JobOf(a, b, c, d, e, g), z) = JobOf(z, b, c, d, e, g)
           /\ SetProc(JobOf(a, b, c, d, e, g), z) = JobOf(a, z, c, d, e, g)
           /\ SetParent(JobOf(a, b, c, d, e, g), z) = JobOf(a, b, z, d, e, g)
           /\ SetPht(JobOf(a, b, c, d, e, g), z) = JobOf(a, b, c, z, e, g)
           /\ SetTodo(JobOf(a, b, c, d, e, g), z) = JobOf(a, b, c, d, z, g)
  <1>1. SetStage(JobOf(a, b, c, d, e, g), z) = JobOf(z, b, c, d, e, g)
    BY SMT DEF JobOf, SetStage
  <1>2. SetProc(JobOf(a, b, c, d, e, g), z) = JobOf(a, z, c, d, e, g)
    BY SMT DEF JobOf, SetProc
  <1>3. SetParent(JobOf(a, b, c, d, e, g), z) = JobOf(a, b, z, d, e, g)
    BY SMT DEF JobOf, SetParent
  <1>4. SetPht(JobOf(a, b, c, d, e, g), z) = JobOf(a, b, c, z, e, g)
    BY SMT DEF JobOf, SetPht
  <1>5. SetTodo(JobOf(a, b, c, d, e, g), z) = JobOf(a, b, c, d, z, g)
    BY SMT DEF JobOf, SetTodo
  <1> QED
    BY <1>1, <1>2, <1>3, <1>4, <1>5

\* The ways in which the actions change the job.
Staged(jb, x) == [jb EXCEPT !.stage = x]
Begun(jb, x, y, z) == [jb EXCEPT !.stage = x, !.proc = y, !.parent = z]
WithTable(jb, x, y) == [jb EXCEPT !.stage = x, !.pht = y]
WithPages(jb, x, y) == [jb EXCEPT !.stage = x, !.todo = y]
WithSegment(jb, x, y) == [[jb EXCEPT !.pht = x] EXCEPT !.todo = y]
WithRest(jb, x) == [jb EXCEPT !.todo = x]

Updated(jb, x, y, z) ==
    /\ Staged(jb, x) = JobOf(x, jb.proc, jb.parent, jb.pht, jb.todo, jb.program)
    /\ Begun(jb, x, y, z)
         = JobOf(x, y, z, jb.pht, jb.todo, jb.program)
    /\ WithTable(jb, x, y) = JobOf(x, jb.proc, jb.parent, y, jb.todo, jb.program)
    /\ WithPages(jb, x, y) = JobOf(x, jb.proc, jb.parent, jb.pht, y, jb.program)
    /\ WithSegment(jb, x, y)
         = JobOf(jb.stage, jb.proc, jb.parent, x, y, jb.program)
    /\ WithRest(jb, x) = JobOf(jb.stage, jb.proc, jb.parent, jb.pht, x, jb.program)

\* Each of these changes gives a job with other fields.
LEMMA JobUpdates ==
    ASSUME NEW jb, NEW x, NEW y, NEW z, IsJob(jb)
    PROVE  Updated(jb, x, y, z)
  <1> DEFINE a == jb.stage
             b == jb.proc
             c == jb.parent
             d == jb.pht
             e == jb.todo
             g == jb.program
             J == JobOf(a, b, c, d, e, g)
  <1>1. jb = J
    BY DEF IsJob
  <1> HIDE DEF a, b, c, d, e, g, J
  <1>2. SetStage(J, x) = JobOf(x, b, c, d, e, g)
    BY JobSets DEF J
  <1>3. SetProc(SetStage(J, x), y) = JobOf(x, y, c, d, e, g)
    BY <1>2, JobSets
  <1>4. SetParent(SetProc(SetStage(J, x), y), z) = JobOf(x, y, z, d, e, g)
    BY <1>3, JobSets
  <1>5. SetPht(SetStage(J, x), y) = JobOf(x, b, c, y, e, g)
    BY <1>2, JobSets
  <1>6. SetTodo(SetStage(J, x), y) = JobOf(x, b, c, d, y, g)
    BY <1>2, JobSets
  <1>7. SetPht(J, x) = JobOf(a, b, c, x, e, g) /\ SetTodo(J, x) = JobOf(a, b, c, d, x, g)
    BY JobSets DEF J
  <1>8. SetTodo(SetPht(J, x), y) = JobOf(a, b, c, x, y, g)
    BY <1>7, JobSets
  <1>9. /\ Staged(J, x) = SetStage(J, x)
        /\ Begun(J, x, y, z) = SetParent(SetProc(SetStage(J, x), y), z)
        /\ WithTable(J, x, y) = SetPht(SetStage(J, x), y)
        /\ WithPages(J, x, y) = SetTodo(SetStage(J, x), y)
        /\ WithSegment(J, x, y) = SetTodo(SetPht(J, x), y)
        /\ WithRest(J, x) = SetTodo(J, x)
    BY Zenon DEF Staged, Begun, WithTable, WithPages, WithSegment, WithRest, SetStage, SetProc,
       SetParent, SetPht, SetTodo
  <1>10. /\ Staged(J, x) = JobOf(x, b, c, d, e, g)
         /\ Begun(J, x, y, z) = JobOf(x, y, z, d, e, g)
         /\ WithTable(J, x, y) = JobOf(x, b, c, y, e, g)
         /\ WithPages(J, x, y) = JobOf(x, b, c, d, y, g)
         /\ WithSegment(J, x, y) = JobOf(a, b, c, x, y, g)
         /\ WithRest(J, x) = JobOf(a, b, c, d, x, g)
    BY <1>2, <1>4, <1>5, <1>6, <1>7, <1>8, <1>9, Zenon
  <1> QED
    BY <1>1, <1>10, Zenon DEF Updated, a, b, c, d, e, g

-----------------------------------------------------------------------------
(* Steps that several actions share.                                       *)

\* The job when no process is being made.
LEMMA JobDoneIs == JobDone = JobOf("none", <<>>, <<>>, <<>>, <<>>, job.program)
  BY SMT DEF JobDone, NoJob, JobOf

\* No job is under way.
LEMMA DoneOK ==
    ASSUME NEW jb, NEW pr, NEW ps, NEW kt, JobOK(jb, pr, kt), kt \in DOMAIN ps
    PROVE  JobOK(JobOf("none", <<>>, <<>>, <<>>, <<>>, jb.program), ps, kt)
  <1> DEFINE j == JobOf("none", <<>>, <<>>, <<>>, <<>>, jb.program)
  <1>1. /\ j.stage = "none" /\ j.proc = <<>> /\ j.parent = <<>> /\ j.pht = <<>> /\ j.todo = <<>>
        /\ j.program = jb.program
    <2>1. HasFields(j, "none", <<>>, <<>>, <<>>, <<>>, jb.program)
      BY JobIs
    <2> HIDE DEF j
    <2> QED
      BY <2>1, Zenon DEF HasFields
  <1>2. IsJob(j)
    BY <1>1, Zenon DEF IsJob
  <1>3. jb.program \in Programs
    BY DEF JobOK
  <1>4. <<>> \in Seq(Segment) /\ <<>> \in Seq(Mapping)
    OBVIOUS
  <1> HIDE DEF j
  <1>5. JobOK(j, ps, kt)
    BY <1>1, <1>2, <1>3, <1>4 DEF JobOK, Stages, Starting, Filling
  <1> QED
    BY <1>5 DEF j

\* A new process has no pages.
LEMMA NewProcOK ==
    /\ SpaceOK(NewProc) /\ AddressSpace(NewProc) = {} /\ PagesIn(NewProc) = 0
    /\ NewProc.state = "new" /\ NewProc.page_dir = 0 /\ NewProc.mem_pages = 0
    /\ DOMAIN NewProc.tabs = {} /\ DOMAIN NewProc.pages = {}
    /\ NewProc = ProcOf("new", 0, <<>>, <<>>, 0)
  <1>1. NewProc = ProcOf("new", 0, <<>>, <<>>, 0)
    BY DEF NewProc, ProcOf
  <1>2. /\ NewProc.state = "new" /\ NewProc.page_dir = 0 /\ NewProc.tabs = <<>> /\ NewProc.pages = <<>>
        /\ NewProc.mem_pages = 0
    BY DEF NewProc
  <1> HIDE DEF NewProc
  <1>3. DOMAIN <<>> = {}
    OBVIOUS
  <1>4. IsFiniteSet({}) /\ Cardinality({}) = 0
    BY FS_EmptySet
  <1>5. AddressSpace(NewProc) = {}
    BY <1>2, <1>3 DEF AddressSpace
  <1>6. PagesIn(NewProc) = 0
    BY <1>2, <1>3, <1>4 DEF PagesIn
  <1>7. NewProc = ProcOf(NewProc.state, NewProc.page_dir, NewProc.tabs, NewProc.pages, NewProc.mem_pages)
    BY <1>1, <1>2, Zenon
  <1>8. SpaceOK(NewProc)
    BY <1>2, <1>3, <1>4, <1>5, <1>6, <1>7 DEF SpaceOK
  <1> QED
    BY <1>1, <1>2, <1>3, <1>5, <1>6, <1>8

\* proc_free never finds a leak, and leaves everything exact.
LEMMA FreeProc ==
    ASSUME IInv, panic = "", job.stage # "boot", NEW o \in DOMAIN proc \ {ktask}, proc_free(o)
    PROVE  IInv'
  <1>1. /\ Well(proc_cache, DOMAIN proc) /\ Homes(free, other, PagesOf(proc_cache), SpacesOf(proc))
        /\ ProcsOK(proc, ktask) /\ JobOK(job, proc, ktask)
    BY DEF IInv
  <1>2. /\ \A q \in DOMAIN proc : SpaceOK(proc[q])
        /\ \A q \in DOMAIN proc : proc[q].mem_pages = IF q = ktask THEN 0 ELSE PagesIn(proc[q])
        /\ \A q \in DOMAIN proc : proc[q].state = "RUNNING" => proc[q].page_dir # 0
    BY <1>1 DEF ProcsOK
  <1>3. proc[o].mem_pages = PagesIn(proc[o])
    BY <1>2
  <1>4. /\ free' = free \cup AddressSpace(proc[o]) /\ proc_cache' = free_object(proc_cache, o)
        /\ proc' = [q \in DOMAIN proc \ {o} |-> proc[q]] /\ job' = JobDone
        /\ UNCHANGED <<other, ktask, panic>>
    BY <1>3 DEF proc_free
  <1>5. DOMAIN proc' = DOMAIN proc \ {o} /\ \A q \in DOMAIN proc \ {o} : proc'[q] = proc[q]
    BY <1>4
  <1>6. Well(proc_cache', DOMAIN proc') /\ PagesOf(proc_cache') = PagesOf(proc_cache)
    BY <1>1, <1>4, <1>5, FreeWell
  <1>7. Homes(free', other', PagesOf(proc_cache'), SpacesOf(proc'))
    <2> DEFINE sp == SpacesOf(proc)
               sq == SpacesOf(proc')
    <2>1. /\ DOMAIN sp = DOMAIN proc /\ \A q \in DOMAIN proc : sp[q] = AddressSpace(proc[q])
          /\ DOMAIN sq = DOMAIN proc' /\ \A q \in DOMAIN proc' : sq[q] = AddressSpace(proc'[q])
      BY DEF SpacesOf
    <2>2. o \in DOMAIN sp /\ DOMAIN sq = DOMAIN sp \ {o} /\ \A q \in DOMAIN sp \ {o} : sq[q] = sp[q]
      BY <1>5, <2>1
    <2>3. Homes(free, other, PagesOf(proc_cache), sp)
      BY <1>1
    <2> HIDE DEF sp, sq
    <2>4. Homes(free \cup sp[o], other, PagesOf(proc_cache), sq)
      BY <2>2, <2>3, HomeFree
    <2> QED
      BY <1>4, <1>6, <2>1, <2>4 DEF sq
  <1>8. ProcsOK(proc', ktask')
    <2>1. proc' = [q \in DOMAIN proc' |-> proc'[q]]
      BY <1>4
    <2> QED
      BY <1>2, <1>4, <1>5, <2>1 DEF ProcsOK
  <1>9. JobOK(job', proc', ktask') /\ job'.stage # "boot"
    <2>1. ktask' \in DOMAIN proc'
      BY <1>1, <1>4, <1>5 DEF JobOK
    <2>2. job' = JobOf("none", <<>>, <<>>, <<>>, <<>>, job.program)
      BY <1>4, JobDoneIs
    <2>3. JobOK(JobOf("none", <<>>, <<>>, <<>>, <<>>, job.program), proc', ktask)
      BY <1>1, <1>4, <2>1, DoneOK
    <2>4. JobOf("none", <<>>, <<>>, <<>>, <<>>, job.program).stage = "none"
      BY DEF JobOf
    <2> QED
      BY <1>4, <2>2, <2>3, <2>4
  <1> QED
    BY <1>4, <1>6, <1>7, <1>8, <1>9 DEF IInv

\* The least page of a set of free pages.
LEMMA MinFree ==
    ASSUME NEW S, S \subseteq Memory, S # {}
    PROVE  Min(S) \in S
  BY MinIn, MemoryFinite

\* The cache that slab_alloc takes an object from has one.
LEMMA CacheForAlloc ==
    ASSUME IInv, can_alloc
    PROVE  /\ Well(cache_of_alloc, DOMAIN proc) /\ ~needs_page(cache_of_alloc)
           /\ Homes(free_after_alloc, other, PagesOf(cache_of_alloc), SpacesOf(proc))
  <1>1. Well(proc_cache, DOMAIN proc) /\ Homes(free, other, PagesOf(proc_cache), SpacesOf(proc))
    BY DEF IInv
  <1>2. CASE needs_page(proc_cache)
    <2>1. free # {} /\ free \subseteq Memory /\ free \cap PagesOf(proc_cache) = {}
      BY <1>1, <1>2 DEF can_alloc, Homes
    <2>2. Min(free) \in free
      BY <2>1, MinFree
    <2>3. Min(free) \in Memory /\ Min(free) \notin PagesOf(proc_cache)
      BY <2>1, <2>2
    <2>4. /\ cache_of_alloc = init_slab_page(proc_cache, Min(free))
          /\ free_after_alloc = free \ {Min(free)}
      BY <1>2 DEF cache_of_alloc, free_after_alloc
    <2>5. /\ Well(cache_of_alloc, DOMAIN proc) /\ ~needs_page(cache_of_alloc)
          /\ PagesOf(cache_of_alloc) = PagesOf(proc_cache) \cup {Min(free)}
      BY <1>1, <2>3, <2>4, InitWell
    <2>6. Homes(free \ {Min(free)}, other, PagesOf(proc_cache) \cup {Min(free)}, SpacesOf(proc))
      BY <1>1, <2>2, HomeCache
    <2> QED
      BY <2>4, <2>5, <2>6
  <1>3. CASE ~needs_page(proc_cache)
    BY <1>1, <1>3 DEF cache_of_alloc, free_after_alloc
  <1> QED
    BY <1>2, <1>3

Extends(f, x, v, g) ==
    DOMAIN g = DOMAIN f \cup {x} /\ g[x] = v /\ \A y \in DOMAIN f \ {x} : g[y] = f[y]

\* Extend adds an entry and keeps the others.
LEMMA ExtendIs ==
    ASSUME NEW f, NEW x, NEW v
    PROVE  Extends(f, x, v, Extend(f, x, v))
  BY DEF Extend, Extends

\* The new process o is there, without pages.
LEMMA AddProc ==
    ASSUME NEW fr, NEW ot, NEW ca, NEW pr, NEW kt, NEW o, o \notin DOMAIN pr, kt \in DOMAIN pr,
           Homes(fr, ot, ca, SpacesOf(pr)), ProcsOK(pr, kt)
    PROVE  /\ ProcsOK(Extend(pr, o, NewProc), kt)
           /\ Homes(fr, ot, ca, SpacesOf(Extend(pr, o, NewProc)))
  <1> DEFINE ps == Extend(pr, o, NewProc)
             sp == SpacesOf(pr)
             sq == SpacesOf(ps)
  <1>1. /\ DOMAIN ps = DOMAIN pr \cup {o} /\ ps[o] = NewProc /\ \A q \in DOMAIN pr : ps[q] = pr[q]
        /\ ps = [q \in DOMAIN ps |-> ps[q]]
    BY DEF Extend
  <1> HIDE DEF ps
  <1>2. /\ \A q \in DOMAIN pr : SpaceOK(pr[q])
        /\ \A q \in DOMAIN pr : pr[q].mem_pages = IF q = kt THEN 0 ELSE PagesIn(pr[q])
        /\ \A q \in DOMAIN pr : pr[q].state = "RUNNING" => pr[q].page_dir # 0
    BY DEF ProcsOK
  <1>3. ProcsOK(ps, kt)
    <2>1. \A q \in DOMAIN ps : SpaceOK(ps[q])
      BY <1>1, <1>2, NewProcOK
    <2>2. \A q \in DOMAIN ps : ps[q].mem_pages = IF q = kt THEN 0 ELSE PagesIn(ps[q])
      BY <1>1, <1>2, NewProcOK
    <2>3. \A q \in DOMAIN ps : ps[q].state = "RUNNING" => ps[q].page_dir # 0
      BY <1>1, <1>2, NewProcOK
    <2> QED
      BY <1>1, <2>1, <2>2, <2>3 DEF ProcsOK
  <1>4. /\ DOMAIN sp = DOMAIN pr /\ \A q \in DOMAIN pr : sp[q] = AddressSpace(pr[q])
        /\ DOMAIN sq = DOMAIN ps /\ \A q \in DOMAIN ps : sq[q] = AddressSpace(ps[q])
    BY DEF SpacesOf
  <1>5. /\ o \notin DOMAIN sp /\ DOMAIN sq = DOMAIN sp \cup {o} /\ sq[o] = {}
        /\ \A q \in DOMAIN sp : sq[q] = sp[q]
    BY <1>1, <1>4, NewProcOK
  <1>6. Homes(fr, ot, ca, sp)
    OBVIOUS
  <1> HIDE DEF sp, sq
  <1>7. Homes(fr, ot, ca, sq)
    BY <1>5, <1>6, HomeNew
  <1> QED
    BY <1>3, <1>7 DEF ps, sq

\* proc_alloc hands out an object that no process uses; without a pid everything
\* is as before, but for a page that the cache may have gained.
LEMMA AllocProc ==
    ASSUME IInv, panic = "", job.stage \in {"exec", "none"}, NEW parent, NEW stage,
           stage = "exec_dir" \/ (stage = "clone_dir" /\ parent \in UserProcs),
           proc_alloc(parent, stage)
    PROVE  IInv'
  <1> DEFINE c == cache_of_alloc
             new == next_object(c)
             d == alloc_object(c)
  <1>1. /\ Homes(free, other, PagesOf(proc_cache), SpacesOf(proc))
        /\ ProcsOK(proc, ktask) /\ JobOK(job, proc, ktask)
    BY DEF IInv
  <1>2. can_alloc /\ free' = free_after_alloc /\ UNCHANGED <<other, ktask, panic>>
    BY DEF proc_alloc
  <1>3. /\ Well(c, DOMAIN proc) /\ ~needs_page(c)
        /\ Homes(free', other', PagesOf(c), SpacesOf(proc))
    BY <1>2, CacheForAlloc
  <1> HIDE DEF c
  <1>4. /\ new \notin DOMAIN proc /\ Well(d, DOMAIN proc \cup {new}) /\ PagesOf(d) = PagesOf(c)
    BY <1>3, AllocWell
  <1>5. ktask \in DOMAIN proc /\ job.todo = <<>>
    BY <1>1 DEF JobOK
  <1>6. CASE pid_avail
    <2>1. /\ proc_cache' = d /\ proc' = Extend(proc, new, NewProc)
          /\ job' = [job EXCEPT !.stage = stage, !.proc = new, !.parent = parent]
      BY <1>6 DEF proc_alloc, c
    <2> HIDE DEF new, d
    <2>2. /\ DOMAIN proc' = DOMAIN proc \cup {new} /\ proc'[new] = NewProc
          /\ \A q \in DOMAIN proc : proc'[q] = proc[q]
      <3>1. proc' = Extend(proc, new, NewProc) /\ new \notin DOMAIN proc
        BY <1>4, <2>1
      <3>2. \A q \in DOMAIN proc : q # new
        BY <3>1
      <3>3. Extends(proc, new, NewProc, proc')
        BY <3>1, ExtendIs
      <3> QED
        BY <3>2, <3>3 DEF Extends
    <2>3. Well(proc_cache', DOMAIN proc') /\ PagesOf(proc_cache') = PagesOf(c)
      BY <1>4, <2>1, <2>2
    <2>4. ProcsOK(proc', ktask') /\ Homes(free', other', PagesOf(proc_cache'), SpacesOf(proc'))
      BY <1>1, <1>2, <1>3, <1>4, <1>5, <2>1, <2>3, AddProc
    <2>5. job' = JobOf(stage, new, parent, job.pht, job.todo, job.program)
      <3>1. IsJob(job)
        BY <1>1 DEF JobOK
      <3>2. job' = Begun(job, stage, new, parent)
        BY <2>1, Zenon DEF Begun
      <3>3. Updated(job, stage, new, parent)
        BY <3>1, JobUpdates
      <3> QED
        BY <3>2, <3>3, Zenon DEF Updated
    <2>6. /\ job'.stage = stage /\ job'.proc = new /\ job'.parent = parent /\ job'.pht = job.pht
          /\ job'.todo = job.todo /\ job'.program = job.program
      BY <2>5 DEF JobOf
    <2>7. JobOK(job', proc', ktask')
      <3>1. IsJob(job')
        BY <2>5, <2>6, Zenon DEF IsJob
      <3>2. job.program \in Programs /\ job.pht \in Seq(Segment) /\ job.todo \in Seq(Mapping)
        BY <1>1 DEF JobOK
      <3>3. /\ stage \in Stages /\ stage \in Starting /\ stage \notin Filling /\ stage # "boot"
            /\ stage # "copy"
        BY DEF Stages, Starting, Filling
      <3>4. ktask' \in DOMAIN proc' /\ new # ktask'
        BY <1>2, <1>4, <1>5, <2>2
      <3>5. /\ proc'[new].state = "new" /\ proc'[new].page_dir = 0
            /\ DOMAIN proc'[new].tabs = {} /\ DOMAIN proc'[new].pages = {}
        BY <2>2, NewProcOK
      <3>6. stage = "clone_dir" => parent \in DOMAIN proc' \ {ktask'} /\ proc'[parent].state = "RUNNING"
        BY <1>2, <2>2 DEF UserProcs
      <3>7. /\ job'.stage \in Stages /\ job'.program \in Programs
            /\ job'.pht \in Seq(Segment) /\ job'.todo \in Seq(Mapping) /\ job'.todo = <<>>
        BY <1>5, <2>6, <3>2, <3>3
      <3>8. job'.proc \in DOMAIN proc' \ {ktask'} /\ proc'[job'.proc].state = "new"
        BY <2>2, <2>6, <3>4, <3>5
      <3>9. /\ proc'[job'.proc].page_dir = 0
            /\ DOMAIN proc'[job'.proc].tabs = {} /\ DOMAIN proc'[job'.proc].pages = {}
        BY <2>6, <3>5
      <3>10. job'.stage \in {"clone_dir", "copy"} =>
               job'.parent \in DOMAIN proc' \ {ktask'} /\ proc'[job'.parent].state = "RUNNING"
        BY <2>6, <3>3, <3>6
      <3>11. job'.stage \notin Filling
        BY <2>6, <3>3
      <3> QED
        BY <3>1, <3>4, <3>7, <3>8, <3>9, <3>10, <3>11 DEF JobOK
    <2>8. job'.stage # "boot"
      BY <2>6
    <2> QED
      BY <1>2, <2>3, <2>4, <2>7, <2>8 DEF IInv
  <1>7. CASE ~pid_avail
    <2>1. proc_cache' = free_object(d, new) /\ job' = JobDone /\ proc' = proc
      BY <1>7 DEF proc_alloc, c
    <2> HIDE DEF new, d
    <2>2. Well(proc_cache', (DOMAIN proc \cup {new}) \ {new}) /\ PagesOf(proc_cache') = PagesOf(c)
      <3> DEFINE U == DOMAIN proc \cup {new}
      <3>1. Well(d, U) /\ new \in U
        BY <1>4
      <3> HIDE DEF U
      <3>2. Well(free_object(d, new), U \ {new}) /\ PagesOf(free_object(d, new)) = PagesOf(d)
        BY <3>1, FreeWell
      <3> QED
        BY <1>4, <2>1, <3>2 DEF U
    <2>3. (DOMAIN proc \cup {new}) \ {new} = DOMAIN proc'
      BY <1>4, <2>1
    <2>4. /\ Well(proc_cache', DOMAIN proc')
          /\ Homes(free', other', PagesOf(proc_cache'), SpacesOf(proc'))
      BY <1>3, <2>1, <2>2, <2>3
    <2>5. ProcsOK(proc', ktask')
      BY <1>1, <1>2, <2>1
    <2>6. job' = JobOf("none", <<>>, <<>>, <<>>, <<>>, job.program)
      BY <2>1, JobDoneIs
    <2>7. JobOK(JobOf("none", <<>>, <<>>, <<>>, <<>>, job.program), proc', ktask)
      BY <1>1, <1>5, <2>1, DoneOK
    <2>8. JobOf("none", <<>>, <<>>, <<>>, <<>>, job.program).stage = "none"
      BY DEF JobOf
    <2>9. JobOK(job', proc', ktask') /\ job'.stage # "boot"
      BY <1>2, <2>6, <2>7, <2>8
    <2> QED
      BY <1>2, <2>4, <2>5, <2>9 DEF IInv
  <1> QED
    BY <1>6, <1>7

\* The kernel stops in one of the ways that the invariant admits.
LEMMA PanicStep ==
    ASSUME IInv, NEW why \in {"slab", "ktask", "remap"}, Panic(why)
    PROVE  IInv'
  <1>1. panic' = why /\ UNCHANGED <<free, other, proc_cache, proc, ktask, job>>
    BY DEF Panic
  <1>2. /\ Well(proc_cache, DOMAIN proc) /\ Homes(free, other, PagesOf(proc_cache), SpacesOf(proc))
        /\ ProcsOK(proc, ktask) /\ JobOK(job, proc, ktask)
        /\ job.stage = "boot" => proc = <<>> /\ proc_cache = EmptyCache
    BY DEF IInv
  <1> QED
    BY <1>1, <1>2 DEF IInv

\* The job goes on as jc with its process as p.
Continues(jb, jc, pr, p) ==
    /\ IsJob(jc) /\ jb.stage \in Starting \cup Filling /\ jc.stage \in Filling
    /\ jc.proc = jb.proc /\ jc.parent = jb.parent /\ jc.program = jb.program
    /\ jc.pht \in Seq(Segment) /\ jc.todo \in Seq(Mapping)
    /\ jc.todo # <<>> => jc.stage \in {"pht", "stacks"}
    /\ p.state = "new" /\ p.page_dir # 0
    /\ jc.stage = "copy" =>
        /\ jb.stage \in {"clone_dir", "copy"}
        /\ DOMAIN p.tabs \subseteq DOMAIN pr[jb.parent].tabs
        /\ DOMAIN p.pages \subseteq DOMAIN pr[jb.parent].pages

\* Then the part of the invariant about jobs holds of it.
LEMMA JobContinues ==
    ASSUME NEW jb, NEW jc, NEW pr, NEW kt, NEW p, JobOK(jb, pr, kt), Continues(jb, jc, pr, p)
    PROVE  JobOK(jc, Put(pr, jb.proc, p), kt)
  <1> DEFINE o == jb.proc
             ps == Put(pr, o, p)
  <1>1. o \in DOMAIN pr \ {kt} /\ pr[o].state = "new" /\ kt \in DOMAIN pr /\ jb.program \in Programs
    BY DEF JobOK, Continues, Starting, Filling
  <1>2. DOMAIN ps = DOMAIN pr /\ ps[o] = p /\ \A q \in DOMAIN pr \ {o} : ps[q] = pr[q]
    BY <1>1 DEF Put
  <1> HIDE DEF ps
  <1>3. /\ IsJob(jc) /\ jc.stage \in Filling
        /\ jc.proc = o /\ jc.parent = jb.parent /\ jc.program \in Programs
        /\ jc.pht \in Seq(Segment) /\ jc.todo \in Seq(Mapping)
        /\ jc.todo # <<>> => jc.stage \in {"pht", "stacks"}
        /\ p.state = "new" /\ p.page_dir # 0
    BY <1>1 DEF Continues
  <1>4. /\ jc.stage \in Stages /\ jc.stage \notin Starting /\ jc.stage # "boot"
        /\ jc.stage # "clone_dir"
    BY <1>3 DEF Stages, Starting, Filling
  <1>5. ASSUME jc.stage \in {"clone_dir", "copy"}
        PROVE  /\ jc.parent \in DOMAIN ps \ {kt} /\ ps[jc.parent].state = "RUNNING"
               /\ DOMAIN ps[jc.proc].tabs \subseteq DOMAIN ps[jc.parent].tabs
               /\ DOMAIN ps[jc.proc].pages \subseteq DOMAIN ps[jc.parent].pages
    <2>1. /\ jb.stage \in {"clone_dir", "copy"}
          /\ DOMAIN p.tabs \subseteq DOMAIN pr[jb.parent].tabs
          /\ DOMAIN p.pages \subseteq DOMAIN pr[jb.parent].pages
      BY <1>4, <1>5 DEF Continues
    <2>2. jb.parent \in DOMAIN pr \ {kt} /\ pr[jb.parent].state = "RUNNING"
      BY <2>1 DEF JobOK
    <2>3. jb.parent # o /\ ps[jc.parent] = pr[jb.parent]
      BY <1>1, <1>2, <1>3, <2>2
    <2> QED
      BY <1>2, <1>3, <2>1, <2>2, <2>3
  <1>6. /\ jc.proc \in DOMAIN ps \ {kt} /\ ps[jc.proc].state = "new" /\ ps[jc.proc].page_dir # 0
        /\ kt \in DOMAIN ps
    BY <1>1, <1>2, <1>3
  <1>7. JobOK(jc, ps, kt)
    BY <1>3, <1>4, <1>5, <1>6 DEF JobOK
  <1> QED
    BY <1>7 DEF ps

\* Parts of the invariant from which the step of a job that goes on follows.
LEMMA JobStep ==
    ASSUME IInv, panic = "", job.stage \in Starting \cup Filling, NEW p,
           proc' = Put(proc, job.proc, p), Continues(job, job', proc, p),
           ProcsOK(proc', ktask), Homes(free', other, PagesOf(proc_cache), SpacesOf(proc')),
           UNCHANGED <<other, proc_cache, ktask, panic>>
    PROVE  IInv'
  <1>1. Well(proc_cache, DOMAIN proc) /\ JobOK(job, proc, ktask)
    BY DEF IInv
  <1>2. JobOK(job', proc', ktask)
    BY <1>1, JobContinues
  <1>3. DOMAIN proc' = DOMAIN proc
    BY DEF Put
  <1>4. job'.stage # "boot"
    BY DEF Continues, Filling
  <1> QED
    BY <1>1, <1>2, <1>3, <1>4 DEF IInv

\* The pages of the memory have addresses other than NULL.
LEMMA NotNull ==
    ASSUME NEW page \in Memory
    PROVE  page # 0
  BY LayoutAssumption DEF Memory

\* What is known of a process being made and of the free pages.
LEMMA JobProc ==
    ASSUME IInv, job.stage \in Starting \cup Filling
    PROVE  /\ job.proc \in DOMAIN proc \ {ktask} /\ proc[job.proc].state = "new"
           /\ SpaceOK(proc[job.proc])
           /\ \A x \in free : x \in Memory /\ x \notin AddressSpace(proc[job.proc])
           /\ ProcsOK(proc, ktask) /\ JobOK(job, proc, ktask) /\ IsJob(job)
           /\ Homes(free, other, PagesOf(proc_cache), SpacesOf(proc))
           /\ free # {} => Min(free) \in free
  <1>1. /\ ProcsOK(proc, ktask) /\ JobOK(job, proc, ktask)
        /\ Homes(free, other, PagesOf(proc_cache), SpacesOf(proc))
    BY DEF IInv
  <1>2. job.proc \in DOMAIN proc \ {ktask} /\ proc[job.proc].state = "new" /\ IsJob(job)
    BY <1>1 DEF JobOK
  <1>3. SpaceOK(proc[job.proc])
    BY <1>1, <1>2 DEF ProcsOK
  <1>4. free \subseteq Memory
    BY <1>1 DEF Homes
  <1>5. free # {} => Min(free) \in free
    BY <1>4, MinFree
  <1>6. AddressSpace(proc[job.proc]) \cap free = {}
    <2>1. /\ DOMAIN SpacesOf(proc) = DOMAIN proc
          /\ \A o \in DOMAIN proc : SpacesOf(proc)[o] = AddressSpace(proc[o])
      BY DEF SpacesOf
    <2>2. \A o \in DOMAIN SpacesOf(proc) : SpacesOf(proc)[o] \cap free = {}
      BY <1>1 DEF Homes
    <2> QED
      BY <1>2, <2>1, <2>2
  <1> QED
    BY <1>1, <1>2, <1>3, <1>4, <1>5, <1>6

\* vmm_alloc_vaddr_space, for proc_exec and for proc_clone.
LEMMA DirStep ==
    ASSUME IInv, panic = "", NEW stage,
           \/ job.stage = "exec_dir" /\ stage = "elf"
           \/ job.stage = "clone_dir" /\ stage = "copy",
           alloc_page_dir(job.proc, stage)
    PROVE  IInv'
  <1> DEFINE o == job.proc
             r == proc[o]
             page == Min(free)
             n == r.mem_pages + 1
             p == ProcOf(r.state, page, r.tabs, r.pages, n)
  <1>1. /\ free # {} /\ free' = free \ {page} /\ job' = [job EXCEPT !.stage = stage]
        /\ proc' = [proc EXCEPT ![o].page_dir = page, ![o].mem_pages = n]
        /\ UNCHANGED <<other, proc_cache, ktask, panic>>
    BY DEF alloc_page_dir
  <1>2. job.stage \in Starting /\ stage \in Filling /\ job.stage \in Starting \cup Filling
    BY DEF Starting, Filling
  <1>3. /\ o \in DOMAIN proc \ {ktask} /\ r.state = "new" /\ SpaceOK(r)
        /\ \A x \in free : x \in Memory /\ x \notin AddressSpace(r)
        /\ ProcsOK(proc, ktask) /\ JobOK(job, proc, ktask) /\ IsJob(job)
        /\ Homes(free, other, PagesOf(proc_cache), SpacesOf(proc)) /\ page \in free
    BY <1>1, <1>2, JobProc
  <1>4. r.page_dir = 0 /\ page # 0
    <2>1. r.page_dir = 0
      BY <1>2, <1>3 DEF JobOK
    <2>2. page \in Memory
      BY <1>3
    <2>3. page # 0
      BY <2>2, NotNull
    <2> QED
      BY <2>1, <2>3
  <1>5. proc' = Put(proc, o, p)
    <2> HIDE DEF page, n, o
    <2>1. proc' = PutDir(proc, o, page, n)
      BY <1>1, Zenon DEF PutDir
    <2>2. o \in DOMAIN proc /\ ProcsOK(proc, ktask)
      BY <1>3
    <2>3. Changed(proc, o, page, page, n)
      BY <2>2, ProcUpdates
    <2> QED
      BY <2>1, <2>3, Zenon DEF Changed, p, r
  <1>6. /\ p.state = r.state /\ p.page_dir = page /\ p.tabs = r.tabs /\ p.pages = r.pages
        /\ p.mem_pages = n
    BY DEF ProcOf
  <1>7. GrowsTo(r, p, page)
    <2>1. page \in Memory /\ page \notin AddressSpace(r)
      BY <1>3
    <2>2. Grown(r, p, page)
      <3> HIDE DEF page, n, r
      <3> QED
        BY <1>3, <1>4, <2>1, GrowDir DEF p
    <2> HIDE DEF p, page, r
    <2> QED
      BY <1>3, <1>6, <2>2 DEF GrowsTo, n
  <1> HIDE DEF p, page, n
  <1>8. ProcsOK(proc', ktask) /\ Homes(free', other, PagesOf(proc_cache), SpacesOf(proc'))
    <2> HIDE DEF o
    <2>1. GrowsTo(proc[o], p, page)
      BY <1>7 DEF r
    <2>2. /\ ProcsOK(Put(proc, o, p), ktask)
          /\ Homes(free \ {page}, other, PagesOf(proc_cache), SpacesOf(Put(proc, o, p)))
      BY <1>3, <2>1, GrowProc
    <2> QED
      BY <1>1, <1>5, <2>2
  <1>9. Continues(job, job', proc, p)
    <2>1. job' = JobOf(stage, job.proc, job.parent, job.pht, job.todo, job.program)
      <3>1. job' = Staged(job, stage) /\ Updated(job, stage, stage, stage)
        BY <1>1, <1>3, JobUpdates DEF Staged
      <3> QED
        BY <3>1, Zenon DEF Updated
    <2>2. /\ job'.stage = stage /\ job'.proc = job.proc /\ job'.parent = job.parent /\ job'.pht = job.pht
          /\ job'.todo = job.todo /\ job'.program = job.program
      BY <2>1 DEF JobOf
    <2>3. IsJob(job')
      BY <2>1, <2>2, Zenon DEF IsJob
    <2>4. job.pht \in Seq(Segment) /\ job.todo \in Seq(Mapping) /\ job.todo = <<>>
      BY <1>3 DEF JobOK
    <2>5. stage = "copy" => /\ job.stage = "clone_dir"
                            /\ DOMAIN r.tabs = {} /\ DOMAIN r.pages = {}
      BY <1>2, <1>3 DEF JobOK
    <2> QED
      BY <1>2, <1>3, <1>4, <1>6, <2>2, <2>3, <2>4, <2>5 DEF Continues
  <1> QED
    BY <1>1, <1>2, <1>5, <1>8, <1>9, JobStep

\* A step of the copying that gives the clone p, with one page more.
LEMMA CopyStep ==
    ASSUME IInv, panic = "", job.stage = "copy", free # {}, NEW p,
           GrowsTo(proc[job.proc], p, Min(free)), proc' = Put(proc, job.proc, p),
           free' = free \ {Min(free)}, UNCHANGED <<other, proc_cache, ktask, job, panic>>,
           p.page_dir = proc[job.proc].page_dir,
           DOMAIN p.tabs \subseteq DOMAIN proc[job.parent].tabs,
           DOMAIN p.pages \subseteq DOMAIN proc[job.parent].pages
    PROVE  IInv'
  <1> DEFINE o == job.proc
             page == Min(free)
  <1>1. job.stage \in Filling /\ job.stage \in Starting \cup Filling
    BY DEF Starting, Filling
  <1>2. /\ o \in DOMAIN proc \ {ktask} /\ page \in free /\ ProcsOK(proc, ktask)
        /\ JobOK(job, proc, ktask) /\ IsJob(job)
        /\ Homes(free, other, PagesOf(proc_cache), SpacesOf(proc))
    BY <1>1, JobProc
  <1>3. ProcsOK(proc', ktask) /\ Homes(free', other, PagesOf(proc_cache), SpacesOf(proc'))
    <2>1. GrowsTo(proc[o], p, page)
      OBVIOUS
    <2> HIDE DEF o, page
    <2>2. /\ ProcsOK(Put(proc, o, p), ktask)
          /\ Homes(free \ {page}, other, PagesOf(proc_cache), SpacesOf(Put(proc, o, p)))
      BY <1>2, <2>1, GrowProc
    <2> QED
      BY <2>2 DEF o, page
  <1>4. /\ job.pht \in Seq(Segment) /\ job.todo \in Seq(Mapping) /\ job.todo = <<>>
        /\ proc[o].page_dir # 0
    BY <1>1, <1>2 DEF JobOK
  <1>5. p.state = "new"
    BY DEF GrowsTo
  <1>6. Continues(job, job, proc, p)
    BY <1>1, <1>2, <1>4, <1>5 DEF Continues
  <1>7. Continues(job, job', proc, p)
    BY <1>6
  <1> QED
    BY <1>1, <1>3, <1>7, JobStep

\* init_proc_from_proc allocates a table.
LEMMA CopyTableStep ==
    ASSUME IInv, copy_table
    PROVE  IInv'
  <1> DEFINE o == job.proc
             r == proc[o]
             page == Min(free)
             d == Min(TablesLeft)
             tab == [page |-> page, user |-> proc[job.parent].tabs[d].user]
             tabs == Extend(r.tabs, d, tab)
             n == r.mem_pages + 1
             p == ProcOf(r.state, r.page_dir, tabs, r.pages, n)
  <1>1. /\ panic = "" /\ job.stage = "copy" /\ TablesLeft # {} /\ free # {}
        /\ free' = free \ {page}
        /\ proc' = [proc EXCEPT ![o].tabs = tabs, ![o].mem_pages = n]
        /\ UNCHANGED <<other, proc_cache, ktask, job, panic>>
    BY DEF copy_table, Step
  <1>2. job.stage \in Filling /\ job.stage \in Starting \cup Filling
    BY <1>1 DEF Starting, Filling
  <1>3. /\ o \in DOMAIN proc \ {ktask} /\ r.state = "new" /\ SpaceOK(r)
        /\ \A x \in free : x \in Memory /\ x \notin AddressSpace(r)
        /\ ProcsOK(proc, ktask) /\ JobOK(job, proc, ktask) /\ page \in free
    BY <1>1, <1>2, JobProc
  <1>4. /\ job.parent \in DOMAIN proc
        /\ DOMAIN r.tabs \subseteq DOMAIN proc[job.parent].tabs
        /\ DOMAIN r.pages \subseteq DOMAIN proc[job.parent].pages
    BY <1>1, <1>3 DEF JobOK
  <1>5. d \in DOMAIN proc[job.parent].tabs \ DOMAIN r.tabs /\ d \in 0..USER_PDES - 1
    <2>1. SpaceOK(proc[job.parent])
      BY <1>3, <1>4 DEF ProcsOK
    <2>2. DOMAIN proc[job.parent].tabs \subseteq 0..USER_PDES - 1
      BY <2>1 DEF SpaceOK
    <2>3. TablesLeft = DOMAIN proc[job.parent].tabs \ DOMAIN r.tabs
      BY DEF TablesLeft
    <2>4. /\ TablesLeft \subseteq 0..USER_PDES - 1 /\ IsFiniteSet(0..USER_PDES - 1)
          /\ 0..USER_PDES - 1 \subseteq Nat
      BY <2>2, <2>3, FS_Interval, LayoutAssumption
    <2>5. IsFiniteSet(TablesLeft) /\ TablesLeft \subseteq Nat
      BY <2>4, FS_Subset
    <2>6. d \in TablesLeft
      BY <1>1, <2>5, MinIn
    <2> QED
      BY <2>2, <2>3, <2>6
  <1>6. proc' = Put(proc, o, p)
    <2> HIDE DEF page, n, o, tabs
    <2>1. proc' = PutTabs(proc, o, tabs, n)
      BY <1>1, Zenon DEF PutTabs
    <2>2. o \in DOMAIN proc /\ ProcsOK(proc, ktask)
      BY <1>3
    <2>3. Changed(proc, o, tabs, tabs, n)
      BY <2>2, ProcUpdates
    <2> QED
      BY <2>1, <2>3, Zenon DEF Changed, p, r
  <1>7. /\ p.state = r.state /\ p.page_dir = r.page_dir /\ p.tabs = tabs /\ p.pages = r.pages
        /\ p.mem_pages = n
    BY DEF ProcOf
  <1>8. tab.page = page
    OBVIOUS
  <1>9. GrowsTo(r, p, page)
    <2>1. page \in Memory /\ page \notin AddressSpace(r)
      BY <1>3
    <2>2. Grown(r, p, page)
      <3> HIDE DEF page, n, r, d, tab
      <3> QED
        BY <1>3, <1>5, <1>8, <2>1, GrowTab DEF p, tabs
    <2> HIDE DEF p, page, r
    <2> QED
      BY <1>3, <1>7, <2>2 DEF GrowsTo, n
  <1>10. /\ DOMAIN p.tabs \subseteq DOMAIN proc[job.parent].tabs
         /\ DOMAIN p.pages \subseteq DOMAIN proc[job.parent].pages
    <2>1. DOMAIN tabs = DOMAIN r.tabs \cup {d}
      BY DEF Extend
    <2> HIDE DEF tabs, d, r, p
    <2> QED
      BY <1>4, <1>5, <1>7, <2>1
  <1> HIDE DEF p, n, tabs, d, tab
  <1> QED
    BY <1>1, <1>6, <1>7, <1>9, <1>10, CopyStep

\* init_proc_from_proc copies a page.
LEMMA CopyPageStep ==
    ASSUME IInv, copy_page
    PROVE  IInv'
  <1> DEFINE o == job.proc
             r == proc[o]
             page == Min(free)
             v == Min(PagesLeft)
             t == [page |-> page, user |-> proc[job.parent].pages[v].user]
             pages == Extend(r.pages, v, t)
             n == r.mem_pages + 1
             p == ProcOf(r.state, r.page_dir, r.tabs, pages, n)
  <1>1. /\ panic = "" /\ job.stage = "copy" /\ PagesLeft # {} /\ free # {}
        /\ free' = free \ {page}
        /\ proc' = [proc EXCEPT ![o].pages = pages, ![o].mem_pages = n]
        /\ UNCHANGED <<other, proc_cache, ktask, job, panic>>
    BY DEF copy_page, Step
  <1>2. job.stage \in Filling /\ job.stage \in Starting \cup Filling
    BY <1>1 DEF Starting, Filling
  <1>3. /\ o \in DOMAIN proc \ {ktask} /\ r.state = "new" /\ SpaceOK(r)
        /\ \A x \in free : x \in Memory /\ x \notin AddressSpace(r)
        /\ ProcsOK(proc, ktask) /\ JobOK(job, proc, ktask) /\ page \in free
    BY <1>1, <1>2, JobProc
  <1>4. /\ job.parent \in DOMAIN proc
        /\ DOMAIN r.tabs \subseteq DOMAIN proc[job.parent].tabs
        /\ DOMAIN r.pages \subseteq DOMAIN proc[job.parent].pages
    BY <1>1, <1>3 DEF JobOK
  <1>5. /\ v \in DOMAIN proc[job.parent].pages \ DOMAIN r.pages /\ v \in Nat
        /\ VMM_PDE_INDEX(v) \in DOMAIN r.tabs
    <2>1. SpaceOK(proc[job.parent])
      BY <1>3, <1>4 DEF ProcsOK
    <2>2. DOMAIN proc[job.parent].pages \subseteq Nat /\ IsFiniteSet(DOMAIN proc[job.parent].pages)
      BY <2>1 DEF SpaceOK
    <2>3. PagesLeft = {w \in DOMAIN proc[job.parent].pages \ DOMAIN r.pages : VMM_PDE_INDEX(w) \in DOMAIN r.tabs}
      BY DEF PagesLeft
    <2>4. PagesLeft \subseteq DOMAIN proc[job.parent].pages
      BY <2>3
    <2>5. IsFiniteSet(PagesLeft) /\ PagesLeft \subseteq Nat
      BY <2>2, <2>4, FS_Subset
    <2>6. v \in PagesLeft
      BY <1>1, <2>5, MinIn
    <2> HIDE DEF v
    <2> QED
      BY <2>2, <2>3, <2>6
  <1>6. proc' = Put(proc, o, p)
    <2> HIDE DEF page, n, o, pages
    <2>1. proc' = PutPages(proc, o, pages, n)
      BY <1>1, Zenon DEF PutPages
    <2>2. o \in DOMAIN proc /\ ProcsOK(proc, ktask)
      BY <1>3
    <2>3. Changed(proc, o, pages, pages, n)
      BY <2>2, ProcUpdates
    <2> QED
      BY <2>1, <2>3, Zenon DEF Changed, p, r
  <1>7. /\ p.state = r.state /\ p.page_dir = r.page_dir /\ p.tabs = r.tabs /\ p.pages = pages
        /\ p.mem_pages = n
    BY DEF ProcOf
  <1>8. t.page = page
    OBVIOUS
  <1>9. GrowsTo(r, p, page)
    <2>1. page \in Memory /\ page \notin AddressSpace(r)
      BY <1>3
    <2>2. Grown(r, p, page)
      <3> HIDE DEF page, n, r, v, t
      <3> QED
        BY <1>3, <1>5, <1>8, <2>1, GrowPage DEF p, pages
    <2> HIDE DEF p, page, r
    <2> QED
      BY <1>3, <1>7, <2>2 DEF GrowsTo, n
  <1>10. /\ DOMAIN p.tabs \subseteq DOMAIN proc[job.parent].tabs
         /\ DOMAIN p.pages \subseteq DOMAIN proc[job.parent].pages
    <2>1. DOMAIN pages = DOMAIN r.pages \cup {v}
      BY DEF Extend
    <2> HIDE DEF pages, v, r, p
    <2> QED
      BY <1>4, <1>5, <1>7, <2>1
  <1> HIDE DEF p, n, pages, v, t
  <1> QED
    BY <1>1, <1>6, <1>7, <1>9, <1>10, CopyStep

\* sched_add: the process that was made runs, with the pages it has.
LEMMA RunStep ==
    ASSUME IInv, panic = "", job.stage \in Filling,
           proc' = [proc EXCEPT ![job.proc].state = "RUNNING"], job' = JobDone,
           UNCHANGED <<free, other, proc_cache, ktask, panic>>
    PROVE  IInv'
  <1> DEFINE o == job.proc
             r == proc[o]
             p == Running(r)
  <1>1. job.stage \in Starting \cup Filling
    OBVIOUS
  <1>2. /\ o \in DOMAIN proc \ {ktask} /\ ProcsOK(proc, ktask) /\ JobOK(job, proc, ktask)
        /\ Homes(free, other, PagesOf(proc_cache), SpacesOf(proc))
    BY <1>1, JobProc
  <1>3. r.page_dir # 0 /\ ktask \in DOMAIN proc
    BY <1>2 DEF JobOK, Filling
  <1>4. proc' = Put(proc, o, p)
    <2>1. proc' = SetState(proc, o, "RUNNING")
      BY Zenon DEF SetState
    <2> HIDE DEF o
    <2>2. o \in DOMAIN proc /\ ProcsOK(proc, ktask)
      BY <1>2
    <2>3. Changed(proc, o, "RUNNING", "RUNNING", 0)
      BY <2>2, ProcUpdates
    <2> QED
      BY <2>1, <2>3, Zenon DEF Changed, Running, p, r
  <1>5. ProcsOK(proc', ktask) /\ SpacesOf(proc') = SpacesOf(proc)
    <2> HIDE DEF o
    <2>1. o \in DOMAIN proc /\ proc[o].page_dir # 0
      BY <1>2, <1>3 DEF r
    <2>2. /\ ProcsOK(Put(proc, o, Running(proc[o])), ktask)
          /\ SpacesOf(Put(proc, o, Running(proc[o]))) = SpacesOf(proc)
      BY <1>2, <2>1, RunProc
    <2> QED
      BY <1>4, <2>2 DEF p, r
  <1> HIDE DEF p
  <1>6. DOMAIN proc' = DOMAIN proc
    BY <1>4 DEF Put
  <1>7. JobOK(job', proc', ktask')
    <2>1. JobOK(JobOf("none", <<>>, <<>>, <<>>, <<>>, job.program), proc', ktask)
      BY <1>2, <1>3, <1>6, DoneOK
    <2> QED
      BY <2>1, JobDoneIs
  <1>8. job'.stage # "boot"
    <2>1. job' = JobOf("none", <<>>, <<>>, <<>>, <<>>, job.program)
      BY JobDoneIs
    <2>2. JobOf("none", <<>>, <<>>, <<>>, <<>>, job.program).stage = "none"
      BY DEF JobOf
    <2> QED
      BY <2>1, <2>2
  <1>9. Well(proc_cache, DOMAIN proc)
    BY DEF IInv
  <1> QED
    BY <1>2, <1>5, <1>6, <1>7, <1>8, <1>9 DEF IInv

\* A complete clone has as many pages as its parent.
LEMMA CloneStep ==
    ASSUME IInv, clone_done
    PROVE  IInv'
  <1> DEFINE o == job.proc
             r == proc[o]
             s == proc[job.parent]
  <1>1. panic = "" /\ job.stage = "copy" /\ PagesLeft \cup TablesLeft = {}
    BY DEF clone_done, Step
  <1>2. job.stage \in Filling /\ job.stage \in Starting \cup Filling
    BY <1>1 DEF Starting, Filling
  <1>3. o \in DOMAIN proc \ {ktask} /\ ProcsOK(proc, ktask) /\ JobOK(job, proc, ktask)
    BY <1>1, <1>2, JobProc
  <1>4. /\ job.parent \in DOMAIN proc \ {ktask} /\ s.state = "RUNNING"
        /\ DOMAIN r.tabs \subseteq DOMAIN s.tabs /\ DOMAIN r.pages \subseteq DOMAIN s.pages
        /\ r.page_dir # 0
    BY <1>1, <1>2, <1>3 DEF JobOK
  <1>5. s.page_dir # 0 /\ r.mem_pages = PagesIn(r) /\ s.mem_pages = PagesIn(s) /\ SpaceOK(s)
    BY <1>3, <1>4 DEF ProcsOK
  <1>6. DOMAIN r.tabs = DOMAIN s.tabs
    BY <1>1, <1>4 DEF TablesLeft
  <1>7. \A v \in DOMAIN s.pages : VMM_PDE_INDEX(v) \in DOMAIN s.tabs
    BY <1>5 DEF SpaceOK
  <1>8. DOMAIN r.pages = DOMAIN s.pages
    BY <1>1, <1>4, <1>6, <1>7 DEF PagesLeft
  <1>9. PagesIn(r) = PagesIn(s)
    BY <1>4, <1>5, <1>6, <1>8 DEF PagesIn
  <1>10. r.mem_pages = s.mem_pages
    BY <1>5, <1>9
  <1>11. /\ proc' = [proc EXCEPT ![job.proc].state = "RUNNING"] /\ job' = JobDone
         /\ UNCHANGED <<free, other, proc_cache, ktask, panic>>
    BY <1>10 DEF clone_done
  <1> QED
    BY <1>1, <1>2, <1>11, RunStep

\* proc_exec makes the process run.
LEMMA ExecStep ==
    ASSUME IInv, exec_done
    PROVE  IInv'
  <1>1. job.stage \in Filling /\ panic = ""
    BY DEF exec_done, Step, Filling
  <1> QED
    BY <1>1, RunStep DEF exec_done

\* A step that changes nothing but the job.
LEMMA JobOnlyStep ==
    ASSUME IInv, panic = "", job.stage \in Filling, Continues(job, job', proc, proc[job.proc]),
           UNCHANGED <<free, other, proc_cache, proc, ktask, panic>>
    PROVE  IInv'
  <1>1. job.stage \in Starting \cup Filling
    OBVIOUS
  <1>2. /\ ProcsOK(proc, ktask) /\ Homes(free, other, PagesOf(proc_cache), SpacesOf(proc))
    BY <1>1, JobProc
  <1>3. proc = Put(proc, job.proc, proc[job.proc])
    BY <1>2 DEF Put, ProcsOK
  <1>4. proc' = Put(proc, job.proc, proc[job.proc])
    BY <1>3
  <1>5. ProcsOK(proc', ktask) /\ Homes(free', other, PagesOf(proc_cache), SpacesOf(proc'))
    BY <1>2
  <1> QED
    BY <1>1, <1>4, <1>5, JobStep

\* The pages of the address space: the bounds of the two stacks.
LEMMA Layout ==
    /\ USER_PDES * NUM_PTE \in Nat /\ PROC_KERNEL_STACK - 1 \in 0..USER_PDES * NUM_PTE - 1
    /\ PROC_USER_STACK - 1 \in 0..USER_PDES * NUM_PTE - 1
  <1>1. /\ USER_PDES \in Nat /\ USER_PDES >= 2 /\ NUM_PTE \in Nat /\ NUM_PTE >= 1
        /\ STACK_GAP \in Nat /\ STACK_GAP < NUM_PTE
    BY LayoutAssumption
  <1> DEFINE K == USER_PDES * NUM_PTE
  <1>2. K \in Nat
    BY <1>1
  <1>3. K >= 2 * NUM_PTE
    BY <1>1
  <1>4. PROC_KERNEL_STACK = K - STACK_GAP /\ PROC_USER_STACK = K - NUM_PTE
    BY DEF PROC_KERNEL_STACK, PROC_USER_STACK
  <1> HIDE DEF K
  <1>5. K - STACK_GAP - 1 \in 0..K - 1 /\ K - NUM_PTE - 1 \in 0..K - 1
    BY <1>1, <1>2, <1>3
  <1> QED
    BY <1>2, <1>4, <1>5 DEF K

\* load_from_prog_header maps pages below KERNEL_BASE.
LEMMA LoadOK ==
    ASSUME NEW ph \in Segment, ph.load
    PROVE  load_from_prog_header(ph) \in Seq(Mapping)
  <1> DEFINE K == USER_PDES * NUM_PTE
             P == PAGE_SIZE
             first == ph.vaddr \div P
             last == (ph.vaddr + ph.memsz + P - 1) \div P
             n == IF ph.memsz = 0 THEN 0 ELSE last - first
  <1>1. K \in Nat /\ P \in Nat /\ P > 0
    BY Layout, LayoutAssumption
  <1>2. ph.vaddr \in Nat /\ ph.memsz \in Nat /\ ph.vaddr + ph.memsz <= K * P
    BY DEF Segment
  <1> DEFINE v == ph.vaddr
             m == ph.memsz
  <1> HIDE DEF K, P, v, m
  <1>3. v \in Nat /\ m \in Nat /\ v + m <= K * P
    BY <1>2 DEF v, m
  <1>4. first = v \div P /\ last = (v + m + P - 1) \div P
    BY DEF v, m
  <1>5. first \in Nat /\ last \in Nat /\ first * P <= v
    BY <1>1, <1>3, <1>4
  <1>6. last <= K
    <2>1. v + m + P - 1 < K * P + P
      BY <1>1, <1>3
    <2>2. last * P <= v + m + P - 1
      BY <1>1, <1>3, <1>4
    <2>3. last * P < (K + 1) * P
      BY <2>1, <2>2, <1>1, <1>3, <1>5
    <2> HIDE DEF last
    <2>4. last < K + 1
      BY <2>3, <1>1, <1>5
    <2> QED
      BY <2>4, <1>1, <1>5
  <1>7. last >= first
    <2>1. v <= v + m + P - 1
      BY <1>1, <1>3
    <2> QED
      BY <2>1, <1>1, <1>3, <1>4
  <1> HIDE DEF first, last
  <1>8. n \in Nat /\ n <= last - first
    BY <1>5, <1>7
  <1> DEFINE s == [i \in 1..n |-> [vaddr |-> first + i - 1, user |-> TRUE]]
  <1>9. load_from_prog_header(ph) = s
    BY DEF load_from_prog_header, first, last, P
  <1> HIDE DEF n
  <1>10. ASSUME NEW i \in 1..n PROVE [vaddr |-> first + i - 1, user |-> TRUE] \in Mapping
    <2>1. first + i - 1 \in 0..K - 1
      BY <1>1, <1>5, <1>6, <1>8
    <2> QED
      BY <2>1 DEF Mapping, K
  <1>11. s \in [1..n -> Mapping]
    BY <1>10
  <1> HIDE DEF s
  <1>12. s \in Seq(Mapping)
    BY <1>8, <1>11
  <1> QED
    BY <1>9, <1>12

\* elf_load_program with a header that is right.
LEMMA ElfStep ==
    ASSUME IInv, elf_load_program
    PROVE  IInv'
  <1>1. panic = "" /\ job.stage = "elf"
    BY DEF elf_load_program, Step
  <1>2. job.stage \in Filling /\ job.stage \in Starting \cup Filling /\ job.stage # "boot"
    BY <1>1 DEF Filling
  <1>3. /\ job.proc \in DOMAIN proc \ {ktask} /\ JobOK(job, proc, ktask) /\ IsJob(job)
        /\ proc[job.proc].state = "new"
    BY <1>2, JobProc
  <1>4. CASE ~job.program.header
    <2>1. proc_free(job.proc)
      BY <1>4 DEF elf_load_program
    <2> QED
      BY <1>1, <1>2, <1>3, <2>1, FreeProc
  <1>5. CASE job.program.header
    <2> DEFINE pht == job.program.pht
    <2>1. /\ job' = [job EXCEPT !.stage = "pht", !.pht = pht]
          /\ UNCHANGED <<free, other, proc_cache, proc, ktask, panic>>
      BY <1>5 DEF elf_load_program
    <2>2. pht \in Seq(Segment)
      BY <1>3, ProgramsAssumption DEF JobOK
    <2> HIDE DEF pht
    <2>3. job' = JobOf("pht", job.proc, job.parent, pht, job.todo, job.program)
      <3>1. job' = WithTable(job, "pht", pht) /\ Updated(job, "pht", pht, pht)
        BY <1>3, <2>1, JobUpdates DEF WithTable
      <3> QED
        BY <3>1, Zenon DEF Updated
    <2>4. /\ job'.stage = "pht" /\ job'.proc = job.proc /\ job'.parent = job.parent /\ job'.pht = pht
          /\ job'.todo = job.todo /\ job'.program = job.program
      BY <2>3 DEF JobOf
    <2>5. IsJob(job')
      BY <2>3, <2>4, Zenon DEF IsJob
    <2>6. job.todo \in Seq(Mapping) /\ proc[job.proc].page_dir # 0
      BY <1>2, <1>3 DEF JobOK
    <2>7. Continues(job, job', proc, proc[job.proc])
      BY <1>2, <1>3, <2>2, <2>4, <2>5, <2>6 DEF Continues, Filling
    <2> QED
      BY <1>1, <1>2, <2>1, <2>7, JobOnlyStep
  <1> QED
    BY <1>4, <1>5

\* load_from_pht with a segment that it loads or passes over.
LEMMA PhtStep ==
    ASSUME IInv, load_from_pht
    PROVE  IInv'
  <1> DEFINE ph == Head(job.pht)
             bad == /\ ph.load
                    /\ ph.memsz < ph.filesz \/ ph.offset >= job.program.size
                           \/ ph.offset + ph.filesz > job.program.size
  <1>1. panic = "" /\ job.stage = "pht" /\ job.todo = <<>> /\ job.pht # <<>>
    BY DEF load_from_pht, Step
  <1>2. job.stage \in Filling /\ job.stage \in Starting \cup Filling /\ job.stage # "boot"
    BY <1>1 DEF Filling
  <1>3. /\ job.proc \in DOMAIN proc \ {ktask} /\ JobOK(job, proc, ktask) /\ IsJob(job)
        /\ proc[job.proc].state = "new"
    BY <1>2, JobProc
  <1>4. CASE bad
    <2>1. proc_free(job.proc)
      BY <1>4 DEF load_from_pht
    <2> QED
      BY <1>1, <1>2, <1>3, <2>1, FreeProc
  <1>5. CASE ~bad
    <2> DEFINE todo == IF ph.load THEN load_from_prog_header(ph) ELSE <<>>
               rest == Tail(job.pht)
    <2>1. /\ job' = [[job EXCEPT !.pht = rest] EXCEPT !.todo = todo]
          /\ UNCHANGED <<free, other, proc_cache, proc, ktask, panic>>
      BY <1>5 DEF load_from_pht
    <2>2. job.pht \in Seq(Segment) /\ proc[job.proc].page_dir # 0
      BY <1>2, <1>3 DEF JobOK
    <2>3. ph \in Segment /\ rest \in Seq(Segment)
      BY <1>1, <2>2, HeadTailProperties
    <2>4. todo \in Seq(Mapping)
      <3> HIDE DEF ph
      <3>1. CASE ph.load
        BY <2>3, <3>1, LoadOK
      <3>2. CASE ~ph.load
        BY <3>2
      <3> QED
        BY <3>1, <3>2
    <2> HIDE DEF todo, rest
    <2>5. job' = JobOf(job.stage, job.proc, job.parent, rest, todo, job.program)
      <3>1. job' = WithSegment(job, rest, todo) /\ Updated(job, rest, todo, todo)
        BY <1>3, <2>1, JobUpdates DEF WithSegment
      <3> QED
        BY <3>1, Zenon DEF Updated
    <2>6. /\ job'.stage = job.stage /\ job'.proc = job.proc /\ job'.parent = job.parent
          /\ job'.pht = rest /\ job'.todo = todo /\ job'.program = job.program
      BY <2>5 DEF JobOf
    <2>7. IsJob(job')
      BY <2>5, <2>6, Zenon DEF IsJob
    <2>8. Continues(job, job', proc, proc[job.proc])
      BY <1>1, <1>2, <1>3, <2>2, <2>3, <2>4, <2>6, <2>7 DEF Continues
    <2> QED
      BY <1>1, <1>2, <2>1, <2>8, JobOnlyStep
  <1> QED
    BY <1>4, <1>5

\* alloc_proc_stacks has two pages to map.
LEMMA StacksStep ==
    ASSUME IInv, alloc_proc_stacks
    PROVE  IInv'
  <1> DEFINE todo == <<[vaddr |-> PROC_KERNEL_STACK - 1, user |-> FALSE],
                       [vaddr |-> PROC_USER_STACK - 1, user |-> TRUE]>>
  <1>1. /\ panic = "" /\ job.stage = "pht" /\ job' = [job EXCEPT !.stage = "stacks", !.todo = todo]
        /\ UNCHANGED <<free, other, proc_cache, proc, ktask, panic>>
    BY DEF alloc_proc_stacks, Step
  <1>2. job.stage \in Filling /\ job.stage \in Starting \cup Filling /\ "stacks" \in Filling
    BY <1>1 DEF Filling
  <1>3. /\ job.proc \in DOMAIN proc \ {ktask} /\ JobOK(job, proc, ktask) /\ IsJob(job)
        /\ proc[job.proc].state = "new"
    BY <1>2, JobProc
  <1>4. todo \in Seq(Mapping)
    <2>1. /\ [vaddr |-> PROC_KERNEL_STACK - 1, user |-> FALSE] \in Mapping
          /\ [vaddr |-> PROC_USER_STACK - 1, user |-> TRUE] \in Mapping
      <3>1. /\ PROC_KERNEL_STACK - 1 \in 0..USER_PDES * NUM_PTE - 1
            /\ PROC_USER_STACK - 1 \in 0..USER_PDES * NUM_PTE - 1
        BY Layout
      <3> QED
        BY <3>1 DEF Mapping
    <2> QED
      BY <2>1
  <1>5. job.pht \in Seq(Segment) /\ proc[job.proc].page_dir # 0
    BY <1>2, <1>3 DEF JobOK
  <1> HIDE DEF todo
  <1>6. job' = JobOf("stacks", job.proc, job.parent, job.pht, todo, job.program)
    <2>1. job' = WithPages(job, "stacks", todo) /\ Updated(job, "stacks", todo, todo)
      BY <1>1, <1>3, JobUpdates DEF WithPages
    <2> QED
      BY <2>1, Zenon DEF Updated
  <1>7. /\ job'.stage = "stacks" /\ job'.proc = job.proc /\ job'.parent = job.parent
        /\ job'.pht = job.pht /\ job'.todo = todo /\ job'.program = job.program
    BY <1>6 DEF JobOf
  <1>8. IsJob(job')
    BY <1>6, <1>7, Zenon DEF IsJob
  <1>9. Continues(job, job', proc, proc[job.proc])
    BY <1>2, <1>3, <1>4, <1>5, <1>7, <1>8 DEF Continues
  <1> QED
    BY <1>1, <1>2, <1>9, JobOnlyStep

\* A process may change twice.
LEMMA PutPut ==
    ASSUME NEW pr, NEW o \in DOMAIN pr, NEW p, NEW q
    PROVE  /\ Put(Put(pr, o, p), o, q) = Put(pr, o, q)
           /\ DOMAIN Put(pr, o, p) = DOMAIN pr /\ Put(pr, o, p)[o] = p
  BY DEF Put

\* A step of the loading that gives the process p and leaves fr free.
LEMMA MapStep ==
    ASSUME IInv, panic = "", job.todo # <<>>, NEW p, proc' = Put(proc, job.proc, p),
           p.state = "new", p.page_dir = proc[job.proc].page_dir,
           ProcsOK(proc', ktask), Homes(free', other, PagesOf(proc_cache), SpacesOf(proc')),
           job' = WithRest(job, Tail(job.todo)),
           UNCHANGED <<other, proc_cache, ktask, panic>>
    PROVE  IInv'
  <1> DEFINE rest == Tail(job.todo)
  <1>1. JobOK(job, proc, ktask)
    BY DEF IInv
  <1>2. /\ job.stage \in {"pht", "stacks"} /\ job.todo \in Seq(Mapping) /\ IsJob(job)
        /\ job.pht \in Seq(Segment)
    BY <1>1 DEF JobOK
  <1>3. job.stage \in Filling /\ job.stage \in Starting \cup Filling /\ job.stage # "copy"
    BY <1>2 DEF Filling
  <1>4. proc[job.proc].page_dir # 0
    BY <1>1, <1>3 DEF JobOK
  <1>5. rest \in Seq(Mapping)
    BY <1>2, HeadTailProperties
  <1>6. job' = WithRest(job, rest)
    OBVIOUS
  <1> HIDE DEF rest
  <1>7. job' = JobOf(job.stage, job.proc, job.parent, job.pht, rest, job.program)
    <2>1. job' = WithRest(job, rest) /\ Updated(job, rest, rest, rest)
      BY <1>2, <1>6, JobUpdates
    <2> QED
      BY <2>1, Zenon DEF Updated
  <1>8. /\ job'.stage = job.stage /\ job'.proc = job.proc /\ job'.parent = job.parent
        /\ job'.pht = job.pht /\ job'.todo = rest /\ job'.program = job.program
    <2>1. HasFields(job', job.stage, job.proc, job.parent, job.pht, rest, job.program)
      BY <1>7, JobIs
    <2> QED
      BY <2>1, Zenon DEF HasFields
  <1>9. IsJob(job')
    BY <1>7, <1>8, Zenon DEF IsJob
  <1>10. Continues(job, job', proc, p)
    BY <1>2, <1>3, <1>4, <1>5, <1>8, <1>9 DEF Continues
  <1> QED
    BY <1>3, <1>10, JobStep

\* Where the pages to be mapped are.
LEMMA MappingIn ==
    ASSUME NEW m \in Mapping
    PROVE  m.vaddr \in Nat /\ VMM_PDE_INDEX(m.vaddr) \in 0..USER_PDES - 1
  <1> DEFINE v == m.vaddr
  <1>1. v \in 0..USER_PDES * NUM_PTE - 1
    BY DEF Mapping
  <1>2. USER_PDES \in Nat /\ NUM_PTE \in Nat /\ NUM_PTE > 0 /\ USER_PDES * NUM_PTE \in Nat
    BY LayoutAssumption, Layout
  <1> HIDE DEF v
  <1>3. v \in Nat /\ v < USER_PDES * NUM_PTE
    BY <1>1, <1>2
  <1>4. v \div NUM_PTE \in Nat /\ (v \div NUM_PTE) * NUM_PTE <= v
    BY <1>2, <1>3
  <1>5. v \div NUM_PTE < USER_PDES
    BY <1>2, <1>3, <1>4
  <1> QED
    BY <1>2, <1>3, <1>4, <1>5 DEF VMM_PDE_INDEX, v

\* vmm_map for the next page, with or without a new table.
LEMMA MapPageStep ==
    ASSUME IInv, map_page
    PROVE  IInv'
  <1> DEFINE o == job.proc
             r == proc[o]
             m == Head(job.todo)
             v == m.vaddr
             d == VMM_PDE_INDEX(v)
             page == Min(free)
             e == Min(free \ {page})
             t == [page |-> page, user |-> m.user]
             u == [page |-> e, user |-> m.user]
             pages == Extend(r.pages, v, t)
             n == r.mem_pages
  <1>1. panic = "" /\ job.todo # <<>> /\ free # {}
    BY DEF map_page
  <1>2. /\ job.todo \in Seq(Mapping) /\ job.stage \in Filling
        /\ job.stage \in Starting \cup Filling /\ job.stage # "boot"
    BY <1>1 DEF IInv, JobOK, Filling
  <1>3. /\ o \in DOMAIN proc \ {ktask} /\ r.state = "new" /\ SpaceOK(r)
        /\ \A x \in free : x \in Memory /\ x \notin AddressSpace(r)
        /\ ProcsOK(proc, ktask) /\ page \in free
        /\ Homes(free, other, PagesOf(proc_cache), SpacesOf(proc))
    BY <1>1, <1>2, JobProc
  <1>4. v \in Nat /\ d \in 0..USER_PDES - 1
    <2>1. m \in Mapping
      BY <1>1, <1>2, HeadTailProperties
    <2> HIDE DEF m
    <2> QED
      BY <2>1, MappingIn
  <1>5. t.page = page /\ u.page = e
    OBVIOUS
  <1>6. n \in Int
    <2>1. r.mem_pages = PagesIn(r)
      BY <1>3 DEF ProcsOK
    <2>2. Cardinality(DOMAIN r.tabs) \in Nat /\ Cardinality(DOMAIN r.pages) \in Nat
      BY <1>3, FS_CardinalityType DEF SpaceOK
    <2> HIDE DEF r
    <2> QED
      BY <2>1, <2>2 DEF PagesIn
  <1>7. CASE d \notin DOMAIN r.tabs /\ free = {page}
    <2>1. proc_free(job.proc)
      BY <1>7 DEF map_page
    <2> QED
      BY <1>1, <1>2, <1>3, <2>1, FreeProc
  <1>8. CASE ~(d \notin DOMAIN r.tabs /\ free = {page}) /\ v \in DOMAIN r.pages
    <2>1. Panic("remap")
      BY <1>8 DEF map_page
    <2> QED
      BY <2>1, PanicStep
  <1>9. CASE d \in DOMAIN r.tabs /\ v \notin DOMAIN r.pages
    <2> DEFINE p == ProcOf(r.state, r.page_dir, r.tabs, pages, n + 1)
    <2>1. /\ free' = (free \ {page}) \ {}
          /\ proc' = [proc EXCEPT ![o].tabs = r.tabs, ![o].pages = pages, ![o].mem_pages = n + 1 + Cardinality({})]
          /\ job' = [job EXCEPT !.todo = Tail(@)]
          /\ UNCHANGED <<other, proc_cache, ktask, panic>>
      BY <1>9 DEF map_page
    <2>2. free' = free \ {page} /\ n + 1 + Cardinality({}) = n + 1
      BY <1>6, <2>1, FS_EmptySet
    <2>3. proc' = Put(proc, o, p)
      <3> DEFINE k == n + 1
                 tabs == r.tabs
      <3> HIDE DEF page, n, pages, k
      <3>1. proc' = [proc EXCEPT ![o].tabs = tabs, ![o].pages = pages, ![o].mem_pages = k]
        BY <2>1, <2>2 DEF k
      <3> HIDE DEF tabs, o
      <3>2. proc' = PutBoth(proc, o, tabs, pages, k)
        BY <3>1, Zenon DEF PutBoth
      <3>3. o \in DOMAIN proc /\ ProcsOK(proc, ktask)
        BY <1>3
      <3>4. Changed(proc, o, tabs, pages, k)
        BY <3>3, ProcUpdates
      <3> QED
        BY <3>2, <3>4, Zenon DEF Changed, p, r, k, tabs
    <2>4. GrowsTo(r, p, page)
      <3>1. page \in Memory /\ page \notin AddressSpace(r)
        BY <1>3
      <3>2. Grown(r, p, page)
        <4> DEFINE k == n + 1
        <4> HIDE DEF page, n, r, v, t, d, k
        <4>1. VMM_PDE_INDEX(v) \in DOMAIN r.tabs
          BY <1>9 DEF d
        <4>2. Grown(r, ProcOf(r.state, r.page_dir, r.tabs, Extend(r.pages, v, t), k), page)
          BY <1>3, <1>4, <1>5, <1>9, <3>1, <4>1, GrowPage
        <4> QED
          BY <4>2 DEF p, pages, k
      <3>3. p.state = r.state /\ p.mem_pages = r.mem_pages + 1
        BY DEF ProcOf
      <3> HIDE DEF p, page, r
      <3> QED
        BY <1>3, <3>2, <3>3 DEF GrowsTo
    <2>5. p.state = r.state /\ p.page_dir = r.page_dir
      BY DEF ProcOf
    <2> HIDE DEF p, page
    <2>6. ProcsOK(proc', ktask) /\ Homes(free', other, PagesOf(proc_cache), SpacesOf(proc'))
      <3> HIDE DEF o
      <3>1. GrowsTo(proc[o], p, page)
        BY <2>4 DEF r
      <3>2. /\ ProcsOK(Put(proc, o, p), ktask)
            /\ Homes(free \ {page}, other, PagesOf(proc_cache), SpacesOf(Put(proc, o, p)))
        BY <1>3, <3>1, GrowProc
      <3> QED
        BY <2>2, <2>3, <3>2
    <2>7. job' = WithRest(job, Tail(job.todo))
      BY <2>1, Zenon DEF WithRest
    <2> QED
      BY <1>1, <1>3, <2>1, <2>3, <2>5, <2>6, <2>7, MapStep
  <1>10. CASE d \notin DOMAIN r.tabs /\ free # {page} /\ v \notin DOMAIN r.pages
    <2> DEFINE tabs == Extend(r.tabs, d, u)
               q == ProcOf(r.state, r.page_dir, tabs, r.pages, n + 1)
               p == ProcOf(r.state, r.page_dir, tabs, pages, n + 1 + 1)
    <2>1. /\ free' = (free \ {page}) \ {e}
          /\ proc' = [proc EXCEPT ![o].tabs = tabs, ![o].pages = pages, ![o].mem_pages = n + 1 + Cardinality({e})]
          /\ job' = [job EXCEPT !.todo = Tail(@)]
          /\ UNCHANGED <<other, proc_cache, ktask, panic>>
      BY <1>10 DEF map_page
    <2>2. e \in free /\ e # page
      <3>1. free \ {page} # {} /\ free \ {page} \subseteq Memory
        BY <1>3, <1>10
      <3>2. e \in free \ {page}
        BY <3>1, MinFree
      <3> QED
        BY <3>2
    <2>3. free' = (free \ {e}) \ {page} /\ n + 1 + Cardinality({e}) = n + 1 + 1
      <3>1. Cardinality({e}) = 1
        BY FS_Singleton
      <3> HIDE DEF e, page
      <3> QED
        BY <1>6, <2>1, <3>1
    <2>4. proc' = Put(proc, o, p)
      <3> DEFINE k == n + 1 + 1
      <3> HIDE DEF page, n, pages, k, e, tabs
      <3>1. proc' = [proc EXCEPT ![o].tabs = tabs, ![o].pages = pages, ![o].mem_pages = k]
        BY <2>1, <2>3 DEF k
      <3> HIDE DEF o
      <3>2. proc' = PutBoth(proc, o, tabs, pages, k)
        BY <3>1, Zenon DEF PutBoth
      <3>3. o \in DOMAIN proc /\ ProcsOK(proc, ktask)
        BY <1>3
      <3>4. Changed(proc, o, tabs, pages, k)
        BY <3>3, ProcUpdates
      <3> QED
        BY <3>2, <3>4, Zenon DEF Changed, p, r, k
    <2>5. GrowsTo(r, q, e)
      <3>1. e \in Memory /\ e \notin AddressSpace(r)
        BY <1>3, <2>2
      <3>2. Grown(r, q, e)
        <4> DEFINE k == n + 1
        <4> HIDE DEF e, n, r, d, u, k
        <4>1. Grown(r, ProcOf(r.state, r.page_dir, Extend(r.tabs, d, u), r.pages, k), e)
          BY <1>3, <1>4, <1>5, <1>10, <3>1, GrowTab
        <4> QED
          BY <4>1 DEF q, tabs, k
      <3>3. q.state = r.state /\ q.mem_pages = r.mem_pages + 1
        BY DEF ProcOf
      <3> HIDE DEF q, e, r
      <3> QED
        BY <1>3, <3>2, <3>3 DEF GrowsTo
    <2>6. /\ q.state = r.state /\ q.page_dir = r.page_dir /\ q.tabs = tabs /\ q.pages = r.pages
          /\ q.mem_pages = n + 1
      BY DEF ProcOf
    <2>7. /\ p.state = r.state /\ p.page_dir = r.page_dir /\ p.mem_pages = n + 1 + 1
      BY DEF ProcOf
    <2>8. p = ProcOf(q.state, q.page_dir, q.tabs, Extend(q.pages, v, t), n + 1 + 1)
      BY <2>6, Zenon DEF p, pages
    <2>9. SpaceOK(q) /\ AddressSpace(q) = AddressSpace(r) \cup {e}
      <3> HIDE DEF q, e, r
      <3> QED
        BY <2>5 DEF GrowsTo, Grown
    <2>10. d \in DOMAIN tabs
      BY DEF Extend
    <2> HIDE DEF q
    <2>11. GrowsTo(q, p, page)
      <3>1. page \in Memory /\ page \notin AddressSpace(q)
        <4> HIDE DEF page, e, r
        <4> QED
          BY <1>3, <2>2, <2>9
      <3>2. Grown(q, p, page)
        <4> DEFINE k == n + 1 + 1
        <4>1. VMM_PDE_INDEX(v) \in DOMAIN q.tabs /\ v \notin DOMAIN q.pages
          BY <1>10, <2>6, <2>10 DEF d
        <4> HIDE DEF page, n, r, v, t, d, k, p
        <4>2. Grown(q, ProcOf(q.state, q.page_dir, q.tabs, Extend(q.pages, v, t), k), page)
          BY <1>4, <1>5, <2>9, <3>1, <4>1, GrowPage
        <4> QED
          BY <2>8, <4>2 DEF k
      <3> HIDE DEF p, page, r, n
      <3> QED
        BY <1>3, <2>6, <2>7, <3>2 DEF GrowsTo
    <2> HIDE DEF p, page, e
    <2>12. ProcsOK(proc', ktask) /\ Homes(free', other, PagesOf(proc_cache), SpacesOf(proc'))
      <3> DEFINE ps == Put(proc, o, q)
      <3>1. GrowsTo(proc[o], q, e)
        BY <2>5 DEF r
      <3> HIDE DEF o
      <3>2. /\ ProcsOK(ps, ktask)
            /\ Homes(free \ {e}, other, PagesOf(proc_cache), SpacesOf(ps))
        BY <1>3, <2>2, <3>1, GrowProc
      <3>3. /\ Put(Put(proc, o, q), o, p) = Put(proc, o, p)
            /\ DOMAIN Put(proc, o, q) = DOMAIN proc /\ Put(proc, o, q)[o] = q
        BY <1>3, PutPut
      <3>4. GrowsTo(ps[o], p, page) /\ o \in DOMAIN ps \ {ktask} /\ page \in free \ {e}
        BY <1>3, <2>2, <2>11, <3>3
      <3> HIDE DEF ps
      <3>5. /\ ProcsOK(Put(ps, o, p), ktask)
            /\ Homes((free \ {e}) \ {page}, other, PagesOf(proc_cache), SpacesOf(Put(ps, o, p)))
        BY <3>2, <3>4, GrowProc
      <3> QED
        BY <2>3, <2>4, <3>3, <3>5 DEF ps
    <2>13. job' = WithRest(job, Tail(job.todo))
      BY <2>1, Zenon DEF WithRest
    <2> QED
      BY <1>1, <1>3, <2>1, <2>4, <2>7, <2>12, <2>13, MapStep
  <1> QED
    BY <1>7, <1>8, <1>9, <1>10


\* The rest of the kernel takes a page.
LEMMA OtherStep ==
    ASSUME IInv, other_cache_grows
    PROVE  IInv'
  <1>1. /\ job.stage = "none" /\ free # {} /\ free' = free \ {Min(free)}
        /\ other' = other \cup {Min(free)}
        /\ UNCHANGED <<proc_cache, proc, ktask, job, panic>>
    BY DEF other_cache_grows, Step
  <1>2. /\ Well(proc_cache, DOMAIN proc) /\ Homes(free, other, PagesOf(proc_cache), SpacesOf(proc))
        /\ ProcsOK(proc, ktask) /\ JobOK(job, proc, ktask)
        /\ panic \in {"", "slab", "ktask", "remap"}
    BY DEF IInv
  <1>3. Min(free) \in free
    BY <1>1, <1>2, MinFree DEF Homes
  <1>4. Homes(free', other', PagesOf(proc_cache), SpacesOf(proc))
    BY <1>1, <1>2, <1>3, HomeOther
  <1> QED
    BY <1>1, <1>2, <1>4 DEF IInv

\* A step in which a process could not be made and is released.
LEMMA FailStep ==
    ASSUME IInv, panic = "", job.stage \in Starting \cup Filling, proc_free(job.proc)
    PROVE  IInv'
  <1>1. job.proc \in DOMAIN proc \ {ktask}
    BY JobProc
  <1>2. job.stage # "boot"
    BY DEF Starting, Filling
  <1> QED
    BY <1>1, <1>2, FreeProc

\* init_proc_from_elf and init_proc_from_proc, up to the page directory.
LEMMA InitProcStep ==
    ASSUME IInv, init_proc_from_elf \/ init_proc_from_proc
    PROVE  IInv'
  <1>1. panic = "" /\ job.stage \in {"exec_dir", "clone_dir"}
    BY DEF init_proc_from_elf, init_proc_from_proc, Step
  <1>2. job.stage \in Starting \cup Filling
    BY <1>1 DEF Starting
  <1>3. \/ job.stage = "exec_dir" /\ alloc_page_dir(job.proc, "elf")
        \/ job.stage = "clone_dir" /\ alloc_page_dir(job.proc, "copy")
        \/ proc_free(job.proc)
    BY DEF init_proc_from_elf, init_proc_from_proc, Step
  <1>4. CASE proc_free(job.proc)
    BY <1>1, <1>2, <1>4, FailStep
  <1>5. CASE job.stage = "exec_dir" /\ alloc_page_dir(job.proc, "elf")
    BY <1>1, <1>5, DirStep
  <1>6. CASE job.stage = "clone_dir" /\ alloc_page_dir(job.proc, "copy")
    BY <1>1, <1>6, DirStep
  <1> QED
    BY <1>3, <1>4, <1>5, <1>6

\* The kernel's own task takes the first object, the first page directory and a
\* stack.
LEMMA KtaskStep ==
    ASSUME IInv, ktask_initialize
    PROVE  IInv'
  <1> DEFINE first == Min(free)
             stack == Min(free \ {first})
             dir == Min(free \ {first, stack})
             c == init_slab_page(proc_cache, first)
             new == next_object(c)
             d == alloc_object(c)
             p == [NewProc EXCEPT !.state = "RUNNING", !.page_dir = dir]
  <1>1. panic = "" /\ job.stage = "boot"
    BY DEF ktask_initialize, Step
  <1>2. /\ proc = <<>> /\ proc_cache = EmptyCache /\ JobOK(job, proc, ktask)
        /\ Homes(free, other, PagesOf(proc_cache), SpacesOf(proc))
        /\ Well(proc_cache, DOMAIN proc)
    BY <1>1 DEF IInv
  <1>3. CASE Cardinality(free) < 3
    <2>1. Panic("ktask")
      BY <1>3 DEF ktask_initialize
    <2> QED
      BY <2>1, PanicStep
  <1>4. CASE ~(Cardinality(free) < 3)
    <2>1. /\ ktask' = new /\ proc_cache' = d /\ proc' = Extend(proc, new, p)
          /\ free' = free \ {first, stack, dir} /\ other' = other \cup {stack}
          /\ job' = [job EXCEPT !.stage = "exec"] /\ panic' = panic
      BY <1>4 DEF ktask_initialize
    <2>2. first \in free /\ stack \in free \ {first} /\ dir \in free \ {first, stack}
      <3>1. free \subseteq Memory /\ IsFiniteSet(free)
        BY <1>2, MemoryFinite, FS_Subset DEF Homes
      <3>2. Cardinality(free) \in Nat
        BY <3>1, FS_CardinalityType
      <3>3. free # {}
        BY <1>4, FS_EmptySet
      <3>4. first \in free
        BY <3>1, <3>3, MinFree
      <3> HIDE DEF first
      <3>5. Cardinality(free \ {first}) = Cardinality(free) - 1 /\ IsFiniteSet(free \ {first})
        BY <3>1, <3>4, FS_RemoveElement
      <3>6. free \ {first} # {}
        <4>1. Cardinality(free \ {first}) # 0
          BY <1>4, <3>2, <3>5
        <4> QED
          BY <4>1, FS_EmptySet
      <3>7. stack \in free \ {first}
        <4>1. free \ {first} \subseteq Memory
          BY <3>1
        <4> QED
          BY <3>6, <4>1, MinFree
      <3> HIDE DEF stack
      <3>8. Cardinality((free \ {first}) \ {stack}) = Cardinality(free) - 2
        <4> DEFINE S == free \ {first}
        <4>1. stack \in S /\ IsFiniteSet(S) /\ Cardinality(S) = Cardinality(free) - 1
          BY <3>5, <3>7
        <4> HIDE DEF S
        <4>2. Cardinality(S \ {stack}) = Cardinality(S) - 1
          BY <4>1, FS_RemoveElement
        <4>3. Cardinality(S \ {stack}) = Cardinality(free) - 2
          BY <3>2, <4>1, <4>2
        <4> QED
          BY <4>3 DEF S
      <3>9. (free \ {first}) \ {stack} = free \ {first, stack}
        OBVIOUS
      <3>10. free \ {first, stack} # {}
        <4>1. Cardinality(free \ {first, stack}) # 0
          BY <1>4, <3>2, <3>8, <3>9
        <4> QED
          BY <4>1, FS_EmptySet
      <3>11. dir \in free \ {first, stack}
        <4>1. free \ {first, stack} \subseteq Memory
          BY <3>1
        <4> QED
          BY <3>10, <4>1, MinFree
      <3> QED
        BY <3>4, <3>7, <3>11
    <2> HIDE DEF first, stack, dir
    <2>3. first \in Memory /\ stack \in Memory /\ dir \in Memory /\ first \notin PagesOf(proc_cache)
      <3>1. free \subseteq Memory /\ free \cap PagesOf(proc_cache) = {}
        BY <1>2 DEF Homes
      <3> QED
        BY <2>2, <3>1
    <2>4. /\ Well(c, DOMAIN proc) /\ ~needs_page(c) /\ PagesOf(c) = PagesOf(proc_cache) \cup {first}
      BY <1>2, <2>3, InitWell
    <2> HIDE DEF c
    <2>5. /\ new \notin DOMAIN proc /\ Well(d, DOMAIN proc \cup {new}) /\ PagesOf(d) = PagesOf(c)
      BY <2>4, AllocWell
    <2> HIDE DEF new, d
    <2>6. p = ProcOf("RUNNING", dir, <<>>, <<>>, 0)
      <3>1. p = [[NewProc EXCEPT !.state = "RUNNING"] EXCEPT !.page_dir = dir]
        BY Zenon
      <3>2. [NewProc EXCEPT !.state = "RUNNING"] = ProcOf("RUNNING", 0, <<>>, <<>>, 0)
        BY SMT DEF NewProc, ProcOf
      <3>3. [ProcOf("RUNNING", 0, <<>>, <<>>, 0) EXCEPT !.page_dir = dir] = ProcOf("RUNNING", dir, <<>>, <<>>, 0)
        BY SMT DEF ProcOf
      <3> QED
        BY <3>1, <3>2, <3>3, Zenon
    <2> HIDE DEF p
    <2>7. /\ p.state = "RUNNING" /\ p.page_dir = dir /\ p.tabs = <<>> /\ p.pages = <<>>
          /\ p.mem_pages = 0
      BY <2>6 DEF ProcOf
    <2>8. p = ProcOf(p.state, p.page_dir, p.tabs, p.pages, p.mem_pages)
      BY <2>6, <2>7, Zenon
    <2>9. dir # 0
      BY <2>3, NotNull
    <2>10. DOMAIN <<>> = {} /\ IsFiniteSet({}) /\ Cardinality({}) = 0
      BY FS_EmptySet
    <2>11. AddressSpace(p) = {dir}
      BY <2>7, <2>9, <2>10 DEF AddressSpace
    <2>12. PagesIn(p) = 1
      BY <2>7, <2>9, <2>10 DEF PagesIn
    <2>13. SpaceOK(p)
      <3>1. Cardinality(AddressSpace(p)) = PagesIn(p)
        BY <2>11, <2>12, FS_Singleton
      <3>2. AddressSpace(p) \subseteq Memory
        BY <2>3, <2>11
      <3> QED
        BY <2>3, <2>7, <2>8, <2>10, <3>1, <3>2 DEF SpaceOK
    <2>14. /\ DOMAIN proc' = {new} /\ proc'[new] = p /\ proc' = [q \in DOMAIN proc' |-> proc'[q]]
      <3>1. DOMAIN proc = {}
        BY <1>2
      <3> QED
        BY <2>1, <3>1 DEF Extend
    <2>15. Well(proc_cache', DOMAIN proc')
      <3>1. DOMAIN proc \cup {new} = {new}
        BY <1>2
      <3> QED
        BY <2>1, <2>5, <2>14, <3>1
    <2>16. ProcsOK(proc', ktask')
      BY <2>1, <2>7, <2>9, <2>13, <2>14 DEF ProcsOK
    <2>17. Homes(free', other', PagesOf(proc_cache'), SpacesOf(proc'))
      <3> DEFINE sp == SpacesOf(proc)
                 sq == SpacesOf(proc')
      <3>1. DOMAIN sp = {} /\ DOMAIN sq = {new} /\ sq[new] = {dir}
        BY <1>2, <2>11, <2>14 DEF SpacesOf
      <3>2. Homes(free, other, PagesOf(proc_cache), sp)
        BY <1>2
      <3> HIDE DEF sp, sq
      <3>3. /\ free' = free \ {first, stack, dir} /\ other' = other \cup {stack}
            /\ PagesOf(proc_cache') = PagesOf(proc_cache) \cup {first}
        BY <2>1, <2>4, <2>5
      <3>4. Homes(free', other', PagesOf(proc_cache'), sq)
        BY <2>2, <3>1, <3>2, <3>3 DEF Homes
      <3> QED
        BY <3>4 DEF sq
    <2>18. JobOK(job', proc', ktask') /\ job'.stage # "boot"
      <3>1. /\ IsJob(job) /\ job.program \in Programs /\ job.pht \in Seq(Segment)
            /\ job.todo \in Seq(Mapping) /\ job.todo = <<>>
        BY <1>1, <1>2 DEF JobOK
      <3>2. job' = JobOf("exec", job.proc, job.parent, job.pht, job.todo, job.program)
        <4>1. job' = Staged(job, "exec") /\ Updated(job, "exec", "exec", "exec")
          BY <2>1, <3>1, JobUpdates DEF Staged
        <4> QED
          BY <4>1, Zenon DEF Updated
      <3>3. /\ job'.stage = "exec" /\ job'.proc = job.proc /\ job'.parent = job.parent
            /\ job'.pht = job.pht /\ job'.todo = job.todo /\ job'.program = job.program
        <4>1. HasFields(job', "exec", job.proc, job.parent, job.pht, job.todo, job.program)
          BY <3>2, JobIs
        <4> QED
          BY <4>1, Zenon DEF HasFields
      <3>4. IsJob(job')
        BY <3>2, <3>3, Zenon DEF IsJob
      <3>5. ktask' \in DOMAIN proc'
        BY <2>1, <2>14
      <3> QED
        BY <3>1, <3>3, <3>4, <3>5 DEF JobOK, Stages, Starting, Filling
    <2> QED
      BY <1>1, <2>1, <2>15, <2>16, <2>17, <2>18 DEF IInv
  <1> QED
    BY <1>3, <1>4

\* The state the kernel starts from.
LEMMA InitOK == Init => IInv
  <1> SUFFICES ASSUME Init PROVE IInv
    OBVIOUS
  <1>1. /\ proc_cache = EmptyCache /\ proc = <<>> /\ ktask = <<>> /\ panic = ""
    BY DEF Init
  <1>2. DOMAIN proc = {} /\ proc = [o \in DOMAIN proc |-> proc[o]]
    <2>1. <<>> \in [1..Len(<<>>) -> {}]
      <3>1. <<>> \in Seq({})
        OBVIOUS
      <3> QED
        BY <3>1, LenProperties
    <2>2. \A S, f : f \in [S -> {}] => f = [o \in DOMAIN f |-> f[o]]
      OBVIOUS
    <2>3. <<>> = [o \in DOMAIN <<>> |-> <<>>[o]]
      BY <2>1, <2>2, Zenon
    <2>4. DOMAIN <<>> = {}
      OBVIOUS
    <2> QED
      BY <1>1, <2>3, <2>4, Zenon
  <1>3. Well(proc_cache, DOMAIN proc) /\ PagesOf(proc_cache) = {}
    BY <1>1, <1>2, EmptyWell
  <1>4. ProcsOK(proc, ktask)
    BY <1>2 DEF ProcsOK
  <1>5. Homes(free, other, PagesOf(proc_cache), SpacesOf(proc))
    <2>1. PICK n \in TakenPages : other = 1..n /\ free = Memory \ (1..n)
      BY DEF Init
    <2>2. n \in 0..MemoryPages /\ MemoryPages \in Nat
      BY LayoutAssumption
    <2>3. other \subseteq Memory /\ free = Memory \ other
      BY <2>1, <2>2 DEF Memory
    <2>4. DOMAIN SpacesOf(proc) = {}
      BY <1>2 DEF SpacesOf
    <2> QED
      BY <1>3, <2>3, <2>4 DEF Homes
  <1>6. JobOK(job, proc, ktask)
    <2>1. PICK p \in Programs : job = [NoJob EXCEPT !.stage = "boot", !.program = p]
      BY DEF Init
    <2>2. job = JobOf("boot", <<>>, <<>>, <<>>, <<>>, p)
      <3>1. job = [[NoJob EXCEPT !.stage = "boot"] EXCEPT !.program = p]
        BY <2>1, Zenon
      <3>2. [NoJob EXCEPT !.stage = "boot"] = JobOf("boot", <<>>, <<>>, <<>>, <<>>, <<>>)
        BY SMT DEF NoJob, JobOf
      <3>3. [JobOf("boot", <<>>, <<>>, <<>>, <<>>, <<>>) EXCEPT !.program = p]
              = JobOf("boot", <<>>, <<>>, <<>>, <<>>, p)
        BY SMT DEF JobOf
      <3> QED
        BY <3>1, <3>2, <3>3, Zenon
    <2>3. /\ job.stage = "boot" /\ job.proc = <<>> /\ job.parent = <<>> /\ job.pht = <<>> /\ job.todo = <<>>
          /\ job.program = p
      <3>1. HasFields(job, "boot", <<>>, <<>>, <<>>, <<>>, p)
        BY <2>2, JobIs
      <3> QED
        BY <3>1, Zenon DEF HasFields
    <2>4. IsJob(job)
      BY <2>2, <2>3, Zenon DEF IsJob
    <2>5. <<>> \in Seq(Segment) /\ <<>> \in Seq(Mapping)
      OBVIOUS
    <2> QED
      BY <2>3, <2>4, <2>5 DEF JobOK, Stages, Starting, Filling
  <1> QED
    BY <1>1, <1>3, <1>4, <1>5, <1>6 DEF IInv

\* Every step keeps the invariant: one case for each action.
LEMMA NextOK == IInv /\ [Next]_vars => IInv'
  <1> SUFFICES ASSUME IInv, [Next]_vars PROVE IInv'
    OBVIOUS
  <1>1. CASE ktask_initialize
    BY <1>1, KtaskStep
  <1>2. CASE proc_exec
    <2>1. panic = "" /\ job.stage = "exec"
      BY <1>2 DEF proc_exec, Step
    <2>2. CASE proc_alloc(<<>>, "exec_dir")
      BY <2>1, <2>2, AllocProc
    <2>3. CASE Panic("slab")
      BY <2>3, PanicStep
    <2> QED
      BY <1>2, <2>2, <2>3 DEF proc_exec
  <1>3. CASE init_proc_from_elf \/ init_proc_from_proc
    BY <1>3, InitProcStep
  <1>4. CASE elf_load_program
    BY <1>4, ElfStep
  <1>5. CASE load_from_pht
    BY <1>5, PhtStep
  <1>6. CASE alloc_proc_stacks
    BY <1>6, StacksStep
  <1>7. CASE map_page
    BY <1>7, MapPageStep
  <1>8. CASE map_page_fails
    <2>1. panic = "" /\ job.todo # <<>> /\ proc_free(job.proc)
      BY <1>8 DEF map_page_fails
    <2>2. job.stage \in Starting \cup Filling
      BY <2>1 DEF IInv, JobOK, Filling
    <2> QED
      BY <2>1, <2>2, FailStep
  <1>9. CASE exec_done
    BY <1>9, ExecStep
  <1>10. ASSUME NEW o \in UserProcs, proc_clone(o) PROVE IInv'
    <2>1. panic = "" /\ job.stage = "none"
      BY <1>10 DEF proc_clone, Step
    <2>2. CASE proc_alloc(o, "clone_dir")
      BY <2>1, <2>2, AllocProc
    <2>3. CASE Panic("slab")
      BY <2>3, PanicStep
    <2> QED
      BY <1>10, <2>2, <2>3 DEF proc_clone
  <1>11. ASSUME NEW o \in UserProcs, proc_exit(o) PROVE IInv'
    <2>1. panic = "" /\ job.stage # "boot" /\ proc_free(o)
      BY <1>11 DEF proc_exit, Step
    <2>2. o \in DOMAIN proc \ {ktask}
      BY DEF UserProcs
    <2> QED
      BY <2>1, <2>2, FreeProc
  <1>12. CASE copy_table
    BY <1>12, CopyTableStep
  <1>13. CASE copy_page
    BY <1>13, CopyPageStep
  <1>14. CASE copy_fails
    <2>1. panic = "" /\ job.stage = "copy" /\ proc_free(job.proc)
      BY <1>14 DEF copy_fails, Step
    <2>2. job.stage \in Starting \cup Filling
      BY <2>1 DEF Filling
    <2> QED
      BY <2>1, <2>2, FailStep
  <1>15. CASE clone_done
    BY <1>15, CloneStep
  <1>16. CASE other_cache_grows
    BY <1>16, OtherStep
  <1>17. CASE UNCHANGED vars
    <2>1. UNCHANGED <<free, other, proc_cache, proc, ktask, job, panic>>
      BY <1>17 DEF vars
    <2>2. /\ Well(proc_cache, DOMAIN proc) /\ Homes(free, other, PagesOf(proc_cache), SpacesOf(proc))
          /\ ProcsOK(proc, ktask) /\ JobOK(job, proc, ktask)
          /\ job.stage = "boot" => proc = <<>> /\ proc_cache = EmptyCache
          /\ panic \in {"", "slab", "ktask", "remap"}
      BY DEF IInv
    <2> QED
      BY <2>1, <2>2 DEF IInv
  <1> QED
    BY <1>1, <1>2, <1>3, <1>4, <1>5, <1>6, <1>7, <1>8, <1>9, <1>10, <1>11, <1>12, <1>13, <1>14,
       <1>15, <1>16, <1>17 DEF Next, Stopped

\* In every reachable state the process cache, the homes of the pages, the
\* address spaces and the job under way are as IInv says.
THEOREM Invariance == Spec => []IInv
  BY InitOK, NextOK, PTL DEF Spec

\* The process cache stays exact (mm/slab.c on the objects of kernel/process.c):
\* an object in use is never handed out again and every page is on the list that
\* its free objects ask for, for every number of objects in a page.
THEOREM SlabIsExact == Spec => []SlabExact
  <1>1. IInv => SlabExact
    <2> SUFFICES ASSUME IInv PROVE SlabExact
      OBVIOUS
    <2>1. Well(proc_cache, DOMAIN proc)
      BY DEF IInv
    <2> QED
      BY <2>1, WellExact DEF SlabExact
  <1> QED
    BY <1>1, Invariance, PTL

\* No page of the memory is lost or has two owners, whatever fails while a
\* process is made, and mem_pages is exact, so proc_free reports no leak and a
\* clone does not differ from its parent.
THEOREM PagesAreExact == Spec => []PagesExact
  <1>1. IInv => PagesExact
    <2> SUFFICES ASSUME IInv PROVE PagesExact
      OBVIOUS
    <2> DEFINE ca == PagesOf(proc_cache)
               sp == SpacesOf(proc)
    <2>1. /\ Homes(free, other, ca, sp) /\ ProcsOK(proc, ktask)
          /\ panic \in {"", "slab", "ktask", "remap"}
      BY DEF IInv
    <2>2. DOMAIN sp = DOMAIN proc /\ \A o \in DOMAIN proc : sp[o] = AddressSpace(proc[o])
      BY DEF SpacesOf
    <2> HIDE DEF ca, sp
    <2>3. free \cup other \cup ca \cup UNION {AddressSpace(proc[o]) : o \in DOMAIN proc} = Memory
      <3>1. /\ free \cup other \cup ca \subseteq Memory
            /\ \A o \in DOMAIN proc : AddressSpace(proc[o]) \subseteq Memory
        BY <2>1, <2>2 DEF Homes
      <3>2. \A x \in Memory :
                x \in free \/ x \in other \/ x \in ca \/ \E o \in DOMAIN proc : x \in AddressSpace(proc[o])
        BY <2>1, <2>2 DEF Homes
      <3> QED
        BY <3>1, <3>2
    <2>4. free \cap other = {} /\ ca \cap (free \cup other) = {}
      BY <2>1 DEF Homes
    <2>5. ASSUME NEW o \in DOMAIN proc
          PROVE  /\ AddressSpace(proc[o]) \cap (free \cup other \cup ca) = {}
                 /\ \A q \in DOMAIN proc \ {o} : AddressSpace(proc[o]) \cap AddressSpace(proc[q]) = {}
      <3>1. sp[o] \cap free = {} /\ sp[o] \cap other = {} /\ sp[o] \cap ca = {}
        BY <2>1, <2>2 DEF Homes
      <3>2. \A q \in DOMAIN proc \ {o} : sp[o] \cap sp[q] = {}
        BY <2>1, <2>2 DEF Homes
      <3> QED
        BY <2>2, <3>1, <3>2
    <2>6. \A o \in DOMAIN proc : Cardinality(AddressSpace(proc[o])) = PagesIn(proc[o])
      BY <2>1 DEF ProcsOK, SpaceOK
    <2>7. \A o \in Users : proc[o].mem_pages = PagesIn(proc[o])
      BY <2>1 DEF ProcsOK, Users
    <2> QED
      BY <2>1, <2>3, <2>4, <2>5, <2>6, <2>7 DEF PagesExact, ca
  <1> QED
    BY <1>1, Invariance, PTL

\* Every variable of ProcMem keeps a value of its kind; in particular mem_pages
\* never exceeds the pages there are, and the table of every page is there.
THEOREM TypeCorrect == Spec => []TypeOK
  <1>1. IInv => TypeOK
    <2> SUFFICES ASSUME IInv PROVE TypeOK
      OBVIOUS
    <2>1. /\ Well(proc_cache, DOMAIN proc) /\ Homes(free, other, PagesOf(proc_cache), SpacesOf(proc))
          /\ ProcsOK(proc, ktask) /\ JobOK(job, proc, ktask) /\ panic \in {"", "slab", "ktask", "remap"}
      BY DEF IInv
    <2>2. CacheOK(proc_cache)
      BY <2>1, WellExact
    <2>3. free \subseteq Memory /\ other \subseteq Memory
      BY <2>1 DEF Homes
    <2>4. ASSUME NEW o \in DOMAIN proc
          PROVE  /\ proc[o].state \in {"new", "RUNNING"} /\ proc[o].page_dir \in Memory \cup {0}
                 /\ DOMAIN proc[o].tabs \subseteq 0..USER_PDES - 1
                 /\ \A v \in DOMAIN proc[o].pages : VMM_PDE_INDEX(v) \in DOMAIN proc[o].tabs
                 /\ proc[o].mem_pages \in 0..MemoryPages
      <3>1. SpaceOK(proc[o]) /\ proc[o].mem_pages \in {0, PagesIn(proc[o])}
        BY <2>1 DEF ProcsOK
      <3>2. /\ AddressSpace(proc[o]) \subseteq Memory
            /\ Cardinality(AddressSpace(proc[o])) = PagesIn(proc[o])
        BY <3>1 DEF SpaceOK
      <3>3. IsFiniteSet(AddressSpace(proc[o])) /\ Cardinality(AddressSpace(proc[o])) <= MemoryPages
        BY <3>2, MemoryFinite, FS_Subset
      <3>4. Cardinality(AddressSpace(proc[o])) \in Nat
        BY <3>3, FS_CardinalityType
      <3>5. proc[o].mem_pages \in 0..MemoryPages
        BY <3>1, <3>2, <3>3, <3>4, LayoutAssumption
      <3> QED
        BY <3>1, <3>5 DEF SpaceOK
    <2>5. job.stage \in {"boot", "exec", "exec_dir", "elf", "pht", "stacks", "clone_dir", "copy", "none"}
      BY <2>1 DEF JobOK, Stages
    <2> QED
      BY <2>1, <2>2, <2>3, <2>4, <2>5 DEF TypeOK
  <1> QED
    BY <1>1, Invariance, PTL

-----------------------------------------------------------------------------
(* What a process that runs has.                                           *)

\* The pages of the two stacks.
KStack == PROC_KERNEL_STACK - 1
UStack == PROC_USER_STACK - 1

\* The addresses of the pages that are still to be mapped.
Addresses(todo) == {todo[i].vaddr : i \in DOMAIN todo}

\* User mode reaches every page of p,
AllUser(p) ==
    /\ \A v \in DOMAIN p.pages : p.pages[v].user = TRUE
    /\ \A d \in DOMAIN p.tabs : p.tabs[d].user = TRUE

\* or every one but that of the kernel stack.
ButStack(p) ==
    /\ KStack \in DOMAIN p.pages /\ p.pages[KStack].user = FALSE
    /\ \A v \in DOMAIN p.pages \ {KStack} : p.pages[v].user = TRUE
    /\ \A v \in DOMAIN p.pages \ {KStack} : p.tabs[VMM_PDE_INDEX(v)].user = TRUE
    /\ \A d \in DOMAIN p.tabs \ {VMM_PDE_INDEX(KStack)} : p.tabs[d].user = TRUE

\* The address space p of a program that touches the pages T.
Complete(p, T) ==
    ButStack(p) /\ KStack \notin T /\ DOMAIN p.pages = T \cup {KStack} \cup {UStack}

\* The tables and pages of p have the flags of those of s.
SameFlags(p, s) ==
    /\ \A d \in DOMAIN p.tabs : p.tabs[d].user = s.tabs[d].user
    /\ \A v \in DOMAIN p.pages : p.pages[v].user = s.pages[v].user

KMap == [vaddr |-> KStack, user |-> FALSE]
UMap == [vaddr |-> UStack, user |-> TRUE]

\* How far the process p of the job jb is.
Progress(jb, p, s, T) ==
    /\ jb.stage = "elf" => DOMAIN p.pages = {} /\ DOMAIN p.tabs = {}
    /\ jb.stage = "pht" =>
        /\ AllUser(p) /\ \A i \in DOMAIN jb.todo : jb.todo[i].user = TRUE
        /\ DOMAIN p.pages \cup Addresses(jb.todo) \cup ProgramPages(jb.pht) = T
    /\ jb.stage = "stacks" =>
        \/ jb.todo = <<KMap, UMap>> /\ AllUser(p) /\ DOMAIN p.pages = T
        \/ jb.todo = <<UMap>> /\ ButStack(p) /\ KStack \notin T /\ DOMAIN p.pages = T \cup {KStack}
        \/ jb.todo = <<>> /\ Complete(p, T)
    /\ jb.stage = "copy" => SameFlags(p, s)

SInv ==
    LET T == ProgramPages(job.program.pht)
    IN  /\ \A o \in UserProcs : Complete(proc[o], T)
        /\ job.stage \in Filling => Progress(job, proc[job.proc], proc[job.parent], T)

\* The processes that run are the ones that did, and the job has got on.
LEMMA UsersOK ==
    ASSUME SInv, job'.program = job.program,
           \A o \in UserProcs' : o \in UserProcs /\ proc'[o] = proc[o],
           job'.stage \in Filling =>
               Progress(job', proc'[job'.proc], proc'[job'.parent], ProgramPages(job.program.pht))
    PROVE  SInv'
  <1>1. \A o \in UserProcs : Complete(proc[o], ProgramPages(job.program.pht))
    BY DEF SInv
  <1>2. \A o \in UserProcs' : Complete(proc'[o], ProgramPages(job.program.pht))
    BY <1>1
  <1> QED
    BY <1>2 DEF SInv

\* The job is over and the processes that run are ones that did.
LEMMA DoneStep ==
    ASSUME SInv, job' = JobDone, \A o \in UserProcs' : o \in UserProcs /\ proc'[o] = proc[o]
    PROVE  SInv'
  <1>1. job' = JobOf("none", <<>>, <<>>, <<>>, <<>>, job.program)
    BY JobDoneIs
  <1>2. HasFields(job', "none", <<>>, <<>>, <<>>, <<>>, job.program)
    BY <1>1, JobIs
  <1>3. job'.stage \notin Filling /\ job'.program = job.program
    BY <1>2 DEF HasFields, Filling
  <1> QED
    BY <1>3, UsersOK

\* A process that does not run yet changes.
LEMMA UsersStay ==
    ASSUME NEW o \in DOMAIN proc, NEW p, proc' = Put(proc, o, p), ktask' = ktask,
           p.state # "RUNNING"
    PROVE  \A q \in UserProcs' : q \in UserProcs /\ proc'[q] = proc[q]
  <1>1. /\ DOMAIN proc' = DOMAIN proc /\ proc'[o] = p
        /\ \A q \in DOMAIN proc \ {o} : proc'[q] = proc[q]
    BY DEF Put
  <1> QED
    BY <1>1 DEF UserProcs

\* proc_free
LEMMA FreeSpace ==
    ASSUME IInv, SInv, NEW o \in DOMAIN proc \ {ktask}, proc_free(o)
    PROVE  SInv'
  <1>1. proc[o].mem_pages = PagesIn(proc[o])
    BY DEF IInv, ProcsOK
  <1>2. proc' = [q \in DOMAIN proc \ {o} |-> proc[q]] /\ job' = JobDone /\ ktask' = ktask
    BY <1>1 DEF proc_free
  <1>3. \A q \in UserProcs' : q \in UserProcs /\ proc'[q] = proc[q]
    BY <1>2 DEF UserProcs
  <1> QED
    BY <1>2, <1>3, DoneStep

\* Nothing that the invariant is about changes.
LEMMA SameSpace ==
    ASSUME SInv, UNCHANGED <<proc, ktask, job>>
    PROVE  SInv'
  <1>1. UserProcs' = UserProcs
    BY DEF UserProcs
  <1>2. \A o \in UserProcs : Complete(proc[o], ProgramPages(job.program.pht))
    BY DEF SInv
  <1>3. job.stage \in Filling => Progress(job, proc[job.proc], proc[job.parent], ProgramPages(job.program.pht))
    BY DEF SInv
  <1> QED
    BY <1>1, <1>2, <1>3 DEF SInv

\* proc_alloc
LEMMA AllocSpace ==
    ASSUME IInv, SInv, job.stage \in {"exec", "none"}, NEW parent, NEW stage \in Starting,
           proc_alloc(parent, stage)
    PROVE  SInv'
  <1> DEFINE new == next_object(cache_of_alloc)
  <1>1. can_alloc /\ ktask' = ktask
    BY DEF proc_alloc
  <1>2. CASE pid_avail
    <2>1. /\ proc' = Extend(proc, new, NewProc)
          /\ job' = [job EXCEPT !.stage = stage, !.proc = new, !.parent = parent]
      BY <1>2 DEF proc_alloc
    <2>2. \A q \in UserProcs' : q \in UserProcs /\ proc'[q] = proc[q]
      <3> HIDE DEF new
      <3>1. Extends(proc, new, NewProc, proc')
        BY <2>1, ExtendIs
      <3> QED
        BY <1>1, <3>1, NewProcOK DEF Extends, UserProcs
    <2> HIDE DEF new
    <2>3. job'.stage = stage /\ job'.program = job.program
      <3>1. IsJob(job)
        BY DEF IInv, JobOK
      <3>2. job' = Begun(job, stage, new, parent)
        BY <2>1, Zenon DEF Begun
      <3>3. Updated(job, stage, new, parent)
        BY <3>1, JobUpdates
      <3>4. job' = JobOf(stage, new, parent, job.pht, job.todo, job.program)
        BY <3>2, <3>3, Zenon DEF Updated
      <3>5. HasFields(job', stage, new, parent, job.pht, job.todo, job.program)
        BY <3>4, JobIs
      <3> QED
        BY <3>5, Zenon DEF HasFields
    <2>4. job'.stage \notin Filling
      BY <2>3 DEF Starting, Filling
    <2> QED
      BY <2>2, <2>3, <2>4, UsersOK
  <1>3. CASE ~pid_avail
    <2>1. job' = JobDone /\ proc' = proc
      BY <1>3 DEF proc_alloc
    <2>2. \A q \in UserProcs' : q \in UserProcs /\ proc'[q] = proc[q]
      BY <1>1, <2>1 DEF UserProcs
    <2> QED
      BY <2>1, <2>2, DoneStep
  <1> QED
    BY <1>2, <1>3

\* A page directory comes before tables and pages.
LEMMA DirSpace ==
    ASSUME IInv, SInv, NEW stage,
           \/ job.stage = "exec_dir" /\ stage = "elf"
           \/ job.stage = "clone_dir" /\ stage = "copy",
           alloc_page_dir(job.proc, stage)
    PROVE  SInv'
  <1> DEFINE o == job.proc
             r == proc[o]
             page == Min(free)
             n == r.mem_pages + 1
             p == ProcOf(r.state, page, r.tabs, r.pages, n)
  <1>1. /\ job' = [job EXCEPT !.stage = stage] /\ ktask' = ktask
        /\ proc' = [proc EXCEPT ![o].page_dir = page, ![o].mem_pages = n]
    BY DEF alloc_page_dir
  <1>2. job.stage \in Starting /\ job.stage \in Starting \cup Filling
    BY DEF Starting
  <1>3. /\ o \in DOMAIN proc \ {ktask} /\ r.state = "new"
        /\ ProcsOK(proc, ktask) /\ JobOK(job, proc, ktask) /\ IsJob(job)
    BY <1>2, JobProc
  <1>4. DOMAIN r.tabs = {} /\ DOMAIN r.pages = {}
    BY <1>2, <1>3 DEF JobOK
  <1>5. proc' = Put(proc, o, p)
    <2> HIDE DEF page, n, o
    <2>1. proc' = PutDir(proc, o, page, n)
      BY <1>1, Zenon DEF PutDir
    <2>2. o \in DOMAIN proc /\ ProcsOK(proc, ktask)
      BY <1>3
    <2>3. Changed(proc, o, page, page, n)
      BY <2>2, ProcUpdates
    <2> QED
      BY <2>1, <2>3, Zenon DEF Changed, p, r
  <1>6. p.state = r.state /\ p.tabs = r.tabs /\ p.pages = r.pages
    BY DEF ProcOf
  <1> HIDE DEF p
  <1>7. \A q \in UserProcs' : q \in UserProcs /\ proc'[q] = proc[q]
    BY <1>1, <1>3, <1>5, <1>6, UsersStay
  <1>8. job'.stage = stage /\ job'.proc = o /\ job'.program = job.program
    <2>1. job' = Staged(job, stage) /\ Updated(job, stage, stage, stage)
      BY <1>1, <1>3, JobUpdates DEF Staged
    <2>2. job' = JobOf(stage, job.proc, job.parent, job.pht, job.todo, job.program)
      BY <2>1, Zenon DEF Updated
    <2>3. HasFields(job', stage, job.proc, job.parent, job.pht, job.todo, job.program)
      BY <2>2, JobIs
    <2> QED
      BY <2>3, Zenon DEF HasFields
  <1>9. proc'[o] = p
    BY <1>3, <1>5 DEF Put
  <1>10. Progress(job', proc'[job'.proc], proc'[job'.parent], ProgramPages(job.program.pht))
    BY <1>4, <1>6, <1>8, <1>9 DEF Progress, SameFlags
  <1> QED
    BY <1>7, <1>8, <1>10, UsersOK

\* The loop of load_from_prog_header maps the pages that the segment touches.
LEMMA LoadTouches ==
    ASSUME NEW ph \in Segment, ph.load
    PROVE  /\ Addresses(load_from_prog_header(ph)) = TouchedPages(ph)
           /\ \A i \in DOMAIN load_from_prog_header(ph) : load_from_prog_header(ph)[i].user = TRUE
  <1> DEFINE K == USER_PDES * NUM_PTE
             P == PAGE_SIZE
             v == ph.vaddr
             m == ph.memsz
             first == v \div P
             last == (v + m + P - 1) \div P
             n == IF m = 0 THEN 0 ELSE last - first
             s == [i \in 1..n |-> [vaddr |-> first + i - 1, user |-> TRUE]]
  <1>1. K \in Nat /\ P \in Nat /\ P > 0
    BY Layout, LayoutAssumption
  <1>2. v \in Nat /\ m \in Nat /\ v + m <= K * P
    BY DEF Segment
  <1>3. load_from_prog_header(ph) = s
    BY DEF load_from_prog_header
  <1>4. TouchedPages(ph) = {w \in 0..K - 1 : m > 0 /\ w * P < v + m /\ (w + 1) * P > v}
    BY DEF TouchedPages
  <1> HIDE DEF K, P, v, m
  <1>5. first \in Nat /\ last \in Nat /\ first * P <= v /\ v < (first + 1) * P
    BY <1>1, <1>2
  <1>6. last * P <= v + m + P - 1 /\ v + m + P - 1 < (last + 1) * P
    BY <1>1, <1>2
  <1> HIDE DEF first, last
  <1>7. last * P < v + m + P /\ v + m <= last * P
    BY <1>1, <1>2, <1>5, <1>6
  <1>8. last <= K
    <2>1. last * P < (K + 1) * P
      BY <1>1, <1>2, <1>5, <1>7
    <2>2. last < K + 1
      BY <1>1, <1>5, <2>1
    <2> QED
      BY <1>1, <1>5, <2>2
  <1>9. ASSUME NEW w \in Nat PROVE w * P < v + m <=> w < last
    <2>1. ASSUME w < last PROVE w * P < v + m
      <3>1. w + 1 <= last
        BY <1>5, <2>1
      <3>2. (w + 1) * P <= last * P
        BY <1>1, <1>5, <3>1
      <3> QED
        BY <1>1, <1>2, <1>5, <1>7, <3>2
    <2>2. ASSUME w >= last PROVE w * P >= v + m
      <3>1. last * P <= w * P
        BY <1>1, <1>5, <2>2
      <3> QED
        BY <1>1, <1>2, <1>5, <1>7, <3>1
    <2>3. w * P \in Nat
      BY <1>1
    <2> QED
      BY <1>2, <1>5, <2>1, <2>2, <2>3
  <1>10. ASSUME NEW w \in Nat PROVE (w + 1) * P > v <=> w >= first
    <2>1. ASSUME w >= first PROVE (w + 1) * P > v
      <3>1. (first + 1) * P <= (w + 1) * P
        BY <1>1, <1>5, <2>1
      <3> QED
        BY <1>1, <1>2, <1>5, <3>1
    <2>2. ASSUME w < first PROVE (w + 1) * P <= v
      <3>1. (w + 1) * P <= first * P
        BY <1>1, <1>5, <2>2
      <3> QED
        BY <1>1, <1>2, <1>5, <3>1
    <2>3. (w + 1) * P \in Nat
      BY <1>1
    <2> QED
      BY <1>2, <1>5, <2>1, <2>2, <2>3
  <1>11. n \in Int /\ (m = 0 => n = 0) /\ (m # 0 => n = last - first)
    BY <1>5
  <1> HIDE DEF n
  <1>12. DOMAIN s = 1..n /\ \A i \in 1..n : s[i].vaddr = first + i - 1 /\ s[i].user = TRUE
    OBVIOUS
  <1> HIDE DEF s
  <1>13. Addresses(s) = {first + i - 1 : i \in 1..n}
    BY <1>12 DEF Addresses
  <1>14. {first + i - 1 : i \in 1..n} = {w \in 0..K - 1 : m > 0 /\ w * P < v + m /\ (w + 1) * P > v}
    <2>1. ASSUME NEW i \in 1..n
          PROVE  first + i - 1 \in {w \in 0..K - 1 : m > 0 /\ w * P < v + m /\ (w + 1) * P > v}
      <3> DEFINE w == first + i - 1
      <3>1. w \in Nat /\ w >= first /\ m > 0 /\ w < last
        BY <1>2, <1>5, <1>11
      <3> HIDE DEF w
      <3>2. w * P < v + m /\ (w + 1) * P > v
        BY <1>9, <1>10, <3>1
      <3>3. w \in 0..K - 1
        BY <1>1, <1>5, <1>8, <3>1
      <3> QED
        BY <3>1, <3>2, <3>3 DEF w
    <2>2. ASSUME NEW w \in 0..K - 1, m > 0, w * P < v + m, (w + 1) * P > v
          PROVE  w \in {first + i - 1 : i \in 1..n}
      <3>1. w \in Nat
        BY <1>1
      <3>2. w < last /\ w >= first
        BY <1>9, <1>10, <2>2, <3>1
      <3>3. w - first + 1 \in 1..n /\ w = first + (w - first + 1) - 1
        BY <1>2, <1>5, <1>11, <2>2, <3>1, <3>2
      <3> QED
        BY <3>3
    <2> QED
      BY <2>1, <2>2
  <1> QED
    BY <1>3, <1>4, <1>12, <1>13, <1>14

\* The table of segments, one taken off.
LEMMA PagesOfTable ==
    /\ ProgramPages(<<>>) = {}
    /\ \A pht \in Seq(Segment) : pht # <<>> =>
         ProgramPages(pht) = TouchedPages(Head(pht)) \cup ProgramPages(Tail(pht))
  <1>1. ProgramPages(<<>>) = {}
    <2>1. DOMAIN <<>> = {}
      OBVIOUS
    <2> QED
      BY <2>1 DEF ProgramPages
  <1>2. ASSUME NEW pht \in Seq(Segment), pht # <<>>
        PROVE  ProgramPages(pht) = TouchedPages(Head(pht)) \cup ProgramPages(Tail(pht))
    <2> DEFINE t == Tail(pht)
    <2>1. /\ t \in Seq(Segment) /\ Len(t) = Len(pht) - 1 /\ \A i \in 1..Len(t) : t[i] = pht[i + 1]
          /\ Head(pht) = pht[1]
      BY <1>2, HeadTailProperties
    <2> HIDE DEF t
    <2>2. /\ DOMAIN pht = 1..Len(pht) /\ DOMAIN t = 1..Len(t) /\ Len(pht) \in Nat /\ Len(t) \in Nat
          /\ Len(pht) > 0
      BY <1>2, <2>1
    <2>3. ASSUME NEW x, x \in ProgramPages(pht) PROVE x \in TouchedPages(pht[1]) \cup ProgramPages(t)
      <3>1. PICK i \in 1..Len(pht) : x \in TouchedPages(pht[i])
        BY <2>2, <2>3 DEF ProgramPages
      <3>2. CASE i # 1
        <4>1. i - 1 \in 1..Len(t) /\ (i - 1) + 1 = i
          BY <2>1, <2>2, <3>2
        <4>2. t[i - 1] = pht[i]
          BY <2>1, <4>1
        <4> QED
          BY <2>2, <3>1, <4>1, <4>2 DEF ProgramPages
      <3> QED
        BY <3>1, <3>2
    <2>4. ASSUME NEW x, x \in ProgramPages(t) PROVE x \in ProgramPages(pht)
      <3>1. PICK i \in 1..Len(t) : x \in TouchedPages(t[i])
        BY <2>2, <2>4 DEF ProgramPages
      <3>2. i + 1 \in DOMAIN pht /\ t[i] = pht[i + 1]
        BY <2>1, <2>2
      <3> QED
        BY <3>1, <3>2 DEF ProgramPages
    <2>5. TouchedPages(pht[1]) \subseteq ProgramPages(pht)
      <3>1. 1 \in DOMAIN pht
        BY <2>2
      <3> QED
        BY <3>1 DEF ProgramPages
    <2> QED
      BY <2>1, <2>3, <2>4, <2>5 DEF t
  <1> QED
    BY <1>1, <1>2

\* A step that changes nothing but the job.
LEMMA JobOnlySpace ==
    ASSUME SInv, UNCHANGED <<proc, ktask>>, job'.program = job.program,
           job'.stage \in Filling =>
               Progress(job', proc[job'.proc], proc[job'.parent], ProgramPages(job.program.pht))
    PROVE  SInv'
  <1>1. \A q \in UserProcs' : q \in UserProcs /\ proc'[q] = proc[q]
    BY DEF UserProcs
  <1> QED
    BY <1>1, UsersOK

\* elf_load_program: nothing is mapped, everything the program touches is to be.
LEMMA ElfSpace ==
    ASSUME IInv, SInv, elf_load_program
    PROVE  SInv'
  <1> DEFINE r == proc[job.proc]
             T == ProgramPages(job.program.pht)
  <1>1. job.stage = "elf"
    BY DEF elf_load_program, Step
  <1>2. job.stage \in Filling /\ job.stage \in Starting \cup Filling
    BY <1>1 DEF Filling
  <1>3. job.proc \in DOMAIN proc \ {ktask} /\ JobOK(job, proc, ktask) /\ IsJob(job)
    BY <1>2, JobProc
  <1>4. CASE ~job.program.header
    <2>1. proc_free(job.proc)
      BY <1>4 DEF elf_load_program
    <2> QED
      BY <1>3, <2>1, FreeSpace
  <1>5. CASE job.program.header
    <2> DEFINE pht == job.program.pht
    <2>1. job' = [job EXCEPT !.stage = "pht", !.pht = pht] /\ UNCHANGED <<proc, ktask>>
      BY <1>5 DEF elf_load_program
    <2> HIDE DEF pht
    <2>2. /\ job'.stage = "pht" /\ job'.proc = job.proc /\ job'.pht = pht /\ job'.todo = job.todo
          /\ job'.program = job.program
      <3>1. job' = WithTable(job, "pht", pht) /\ Updated(job, "pht", pht, pht)
        BY <1>3, <2>1, JobUpdates DEF WithTable
      <3>2. job' = JobOf("pht", job.proc, job.parent, pht, job.todo, job.program)
        BY <3>1, Zenon DEF Updated
      <3>3. HasFields(job', "pht", job.proc, job.parent, pht, job.todo, job.program)
        BY <3>2, JobIs
      <3> QED
        BY <3>3, Zenon DEF HasFields
    <2>3. DOMAIN r.pages = {} /\ DOMAIN r.tabs = {} /\ job.todo = <<>>
      BY <1>1, <1>2, <1>3 DEF SInv, Progress, JobOK
    <2>4. DOMAIN job'.todo = {} /\ Addresses(job'.todo) = {}
      BY <2>2, <2>3 DEF Addresses
    <2>5. AllUser(r)
      BY <2>3 DEF AllUser
    <2>6. DOMAIN r.pages \cup Addresses(job'.todo) \cup ProgramPages(job'.pht) = T
      BY <2>2, <2>3, <2>4 DEF pht
    <2>7. Progress(job', proc[job'.proc], proc[job'.parent], T)
      <3> HIDE DEF T
      <3> QED
        BY <2>2, <2>4, <2>5, <2>6 DEF Progress
    <2> QED
      BY <2>1, <2>2, <2>7, JobOnlySpace
  <1> QED
    BY <1>4, <1>5

\* load_from_pht: what the next segment touches is to be mapped now.
LEMMA PhtSpace ==
    ASSUME IInv, SInv, load_from_pht
    PROVE  SInv'
  <1> DEFINE ph == Head(job.pht)
             bad == /\ ph.load
                    /\ ph.memsz < ph.filesz \/ ph.offset >= job.program.size
                           \/ ph.offset + ph.filesz > job.program.size
             r == proc[job.proc]
             T == ProgramPages(job.program.pht)
  <1>1. job.stage = "pht" /\ job.todo = <<>> /\ job.pht # <<>>
    BY DEF load_from_pht, Step
  <1>2. job.stage \in Filling /\ job.stage \in Starting \cup Filling
    BY <1>1 DEF Filling
  <1>3. job.proc \in DOMAIN proc \ {ktask} /\ JobOK(job, proc, ktask) /\ IsJob(job)
    BY <1>2, JobProc
  <1>4. CASE bad
    <2>1. proc_free(job.proc)
      BY <1>4 DEF load_from_pht
    <2> QED
      BY <1>3, <2>1, FreeSpace
  <1>5. CASE ~bad
    <2> DEFINE todo == IF ph.load THEN load_from_prog_header(ph) ELSE <<>>
               rest == Tail(job.pht)
    <2>1. job' = [[job EXCEPT !.pht = rest] EXCEPT !.todo = todo] /\ UNCHANGED <<proc, ktask>>
      BY <1>5 DEF load_from_pht
    <2>2. job.pht \in Seq(Segment)
      BY <1>3 DEF JobOK
    <2>3. ph \in Segment
      BY <1>1, <2>2, HeadTailProperties
    <2>4. ProgramPages(job.pht) = TouchedPages(ph) \cup ProgramPages(rest)
      BY <1>1, <2>2, PagesOfTable
    <2>5. Addresses(todo) = TouchedPages(ph) /\ \A i \in DOMAIN todo : todo[i].user = TRUE
      <3> HIDE DEF ph
      <3>1. CASE ph.load
        BY <2>3, <3>1, LoadTouches
      <3>2. CASE ~ph.load
        <4>1. todo = <<>> /\ DOMAIN <<>> = {}
          BY <3>2
        <4>2. TouchedPages(ph) = {}
          BY <3>2 DEF TouchedPages
        <4> HIDE DEF todo
        <4> QED
          BY <4>1, <4>2 DEF Addresses
      <3> QED
        BY <3>1, <3>2
    <2> HIDE DEF todo, rest, ph
    <2>6. /\ job'.stage = "pht" /\ job'.proc = job.proc /\ job'.pht = rest /\ job'.todo = todo
          /\ job'.program = job.program
      <3>1. job' = WithSegment(job, rest, todo) /\ Updated(job, rest, todo, todo)
        BY <1>3, <2>1, JobUpdates DEF WithSegment
      <3>2. job' = JobOf(job.stage, job.proc, job.parent, rest, todo, job.program)
        BY <3>1, Zenon DEF Updated
      <3>3. HasFields(job', job.stage, job.proc, job.parent, rest, todo, job.program)
        BY <3>2, JobIs
      <3> QED
        BY <1>1, <3>3, Zenon DEF HasFields
    <2>7. AllUser(r) /\ DOMAIN r.pages \cup Addresses(job.todo) \cup ProgramPages(job.pht) = T
      BY <1>1, <1>2 DEF SInv, Progress
    <2>8. Addresses(job.todo) = {}
      BY <1>1 DEF Addresses
    <2> HIDE DEF r, T
    <2>9. DOMAIN r.pages \cup Addresses(job'.todo) \cup ProgramPages(job'.pht) = T
      BY <2>4, <2>5, <2>6, <2>7, <2>8
    <2>10. Progress(job', proc[job'.proc], proc[job'.parent], T)
      BY <2>5, <2>6, <2>7, <2>9 DEF Progress, r
    <2> QED
      BY <2>1, <2>6, <2>10, JobOnlySpace DEF T
  <1> QED
    BY <1>4, <1>5

\* alloc_proc_stacks: everything that the program touches is there.
LEMMA StacksSpace ==
    ASSUME IInv, SInv, alloc_proc_stacks
    PROVE  SInv'
  <1> DEFINE todo == <<KMap, UMap>>
             r == proc[job.proc]
             T == ProgramPages(job.program.pht)
  <1>1. /\ job.stage = "pht" /\ job.todo = <<>> /\ job.pht = <<>>
        /\ job' = [job EXCEPT !.stage = "stacks", !.todo = todo] /\ UNCHANGED <<proc, ktask>>
    BY DEF alloc_proc_stacks, Step, KMap, UMap, KStack, UStack
  <1>2. job.stage \in Filling /\ job.stage \in Starting \cup Filling
    BY <1>1 DEF Filling
  <1>3. IsJob(job)
    BY <1>2, JobProc
  <1>4. AllUser(r) /\ DOMAIN r.pages \cup Addresses(job.todo) \cup ProgramPages(job.pht) = T
    BY <1>1, <1>2 DEF SInv, Progress
  <1>5. Addresses(job.todo) = {} /\ ProgramPages(job.pht) = {}
    <2>1. Addresses(<<>>) = {}
      BY DEF Addresses
    <2> QED
      BY <1>1, <2>1, PagesOfTable
  <1> HIDE DEF todo
  <1>6. /\ job'.stage = "stacks" /\ job'.proc = job.proc /\ job'.todo = todo
        /\ job'.program = job.program
    <2>1. job' = WithPages(job, "stacks", todo) /\ Updated(job, "stacks", todo, todo)
      BY <1>1, <1>3, JobUpdates DEF WithPages
    <2>2. job' = JobOf("stacks", job.proc, job.parent, job.pht, todo, job.program)
      BY <2>1, Zenon DEF Updated
    <2>3. HasFields(job', "stacks", job.proc, job.parent, job.pht, todo, job.program)
      BY <2>2, JobIs
    <2> QED
      BY <2>3, Zenon DEF HasFields
  <1> HIDE DEF r, T
  <1>7. DOMAIN r.pages = T
    BY <1>4, <1>5
  <1>8. Progress(job', proc[job'.proc], proc[job'.parent], T)
    BY <1>4, <1>6, <1>7 DEF Progress, r, todo
  <1> QED
    BY <1>1, <1>6, <1>8, JobOnlySpace DEF T

\* p is r with a page at v, in the table d, new or old; flag is that of the page,
\* and of a new table.
Mapped(r, p, v, d, flag) ==
    /\ v \notin DOMAIN r.pages /\ DOMAIN p.pages = DOMAIN r.pages \cup {v}
    /\ p.pages[v].user = flag /\ \A w \in DOMAIN r.pages : p.pages[w] = r.pages[w]
    /\ DOMAIN p.tabs = DOMAIN r.tabs \cup {d}
    /\ d \notin DOMAIN r.tabs => p.tabs[d].user = flag
    /\ \A e \in DOMAIN r.tabs : p.tabs[e] = r.tabs[e]
    /\ p.state = r.state

\* What vmm_map does to the process being loaded when it succeeds.
LEMMA MapEffect ==
    ASSUME IInv, map_page
    PROVE  \/ proc_free(job.proc)
           \/ Panic("remap")
           \/ /\ \E p : /\ proc' = Put(proc, job.proc, p)
                        /\ Mapped(proc[job.proc], p, Head(job.todo).vaddr,
                                  VMM_PDE_INDEX(Head(job.todo).vaddr), Head(job.todo).user)
              /\ job' = WithRest(job, Tail(job.todo)) /\ ktask' = ktask
  <1> DEFINE o == job.proc
             r == proc[o]
             m == Head(job.todo)
             v == m.vaddr
             d == VMM_PDE_INDEX(v)
             page == Min(free)
             e == Min(free \ {page})
             t == [page |-> page, user |-> m.user]
             u == [page |-> e, user |-> m.user]
             pages == Extend(r.pages, v, t)
             extra == IF d \in DOMAIN r.tabs THEN {} ELSE {e}
             tabs == IF d \in DOMAIN r.tabs THEN r.tabs ELSE Extend(r.tabs, d, u)
             n == r.mem_pages + 1 + Cardinality(extra)
             p == ProcOf(r.state, r.page_dir, tabs, pages, n)
  <1>1. job.todo # <<>>
    BY DEF map_page
  <1>2. job.stage \in Starting \cup Filling
    BY <1>1 DEF IInv, JobOK, Filling
  <1>3. o \in DOMAIN proc /\ ProcsOK(proc, ktask)
    BY <1>2, JobProc
  <1>4. CASE d \notin DOMAIN r.tabs /\ free = {page}
    BY <1>4 DEF map_page
  <1>5. CASE ~(d \notin DOMAIN r.tabs /\ free = {page}) /\ v \in DOMAIN r.pages
    BY <1>5 DEF map_page
  <1>6. CASE ~(d \notin DOMAIN r.tabs /\ free = {page}) /\ v \notin DOMAIN r.pages
    <2>1. /\ proc' = [proc EXCEPT ![o].tabs = tabs, ![o].pages = pages, ![o].mem_pages = n]
          /\ job' = [job EXCEPT !.todo = Tail(@)] /\ ktask' = ktask
      BY <1>6 DEF map_page
    <2>2. job' = WithRest(job, Tail(job.todo))
      BY <2>1, Zenon DEF WithRest
    <2>3. proc' = Put(proc, o, p)
      <3> HIDE DEF tabs, pages, n, o
      <3>1. proc' = PutBoth(proc, o, tabs, pages, n)
        BY <2>1, Zenon DEF PutBoth
      <3>2. Changed(proc, o, tabs, pages, n)
        BY <1>3, ProcUpdates
      <3> QED
        BY <3>1, <3>2, Zenon DEF Changed, p, r
    <2>4. p.state = r.state /\ p.tabs = tabs /\ p.pages = pages
      BY DEF ProcOf
    <2>5. Extends(r.pages, v, t, pages) /\ t.user = m.user /\ u.user = m.user
      <3>1. t.user = m.user /\ u.user = m.user
        OBVIOUS
      <3> HIDE DEF t, u, v, r
      <3> QED
        BY <3>1, ExtendIs
    <2>6. IF d \in DOMAIN r.tabs THEN tabs = r.tabs ELSE Extends(r.tabs, d, u, tabs)
      <3> HIDE DEF u, r, d
      <3> QED
        BY ExtendIs
    <2> HIDE DEF p, tabs, pages, t, u
    <2>7. Mapped(r, p, v, d, m.user)
      <3> DEFINE k == m.user
      <3> HIDE DEF r, m, d, v, k
      <3>1. v \notin DOMAIN r.pages /\ t.user = k /\ u.user = k
        BY <1>6, <2>5 DEF k
      <3>2. /\ DOMAIN p.pages = DOMAIN r.pages \cup {v}
            /\ p.pages[v].user = k /\ \A w \in DOMAIN r.pages : p.pages[w] = r.pages[w]
        BY <2>4, <2>5, <3>1 DEF Extends
      <3>3. /\ DOMAIN p.tabs = DOMAIN r.tabs \cup {d}
            /\ d \notin DOMAIN r.tabs => p.tabs[d].user = k
            /\ \A x \in DOMAIN r.tabs : p.tabs[x] = r.tabs[x]
        <4>1. CASE d \in DOMAIN r.tabs
          BY <2>4, <2>6, <4>1
        <4>2. CASE d \notin DOMAIN r.tabs
          <5>1. Extends(r.tabs, d, u, p.tabs)
            BY <2>4, <2>6, <4>2
          <5> QED
            BY <3>1, <4>2, <5>1 DEF Extends
        <4> QED
          BY <4>1, <4>2
      <3> QED
        BY <2>4, <3>1, <3>2, <3>3 DEF Mapped, k
    <2> QED
      BY <2>2, <2>3, <2>7, <2>1
  <1> QED
    BY <1>4, <1>5, <1>6

\* The table of the user stack is not that of the kernel stack.
LEMMA StackTables == KStack # UStack /\ VMM_PDE_INDEX(UStack) # VMM_PDE_INDEX(KStack)
  <1> DEFINE N == NUM_PTE
             k == KStack
             u == UStack
             B == (USER_PDES - 1) * N
  <1>1. /\ USER_PDES \in Nat /\ USER_PDES >= 2 /\ N \in Nat /\ N >= 1
        /\ STACK_GAP \in Nat /\ STACK_GAP < N
    BY LayoutAssumption
  <1>2. B \in Nat /\ USER_PDES * N = B + N /\ B >= N
    <2>1. USER_PDES - 1 \in Nat /\ USER_PDES - 1 >= 1
      BY <1>1
    <2> QED
      BY <1>1, <2>1
  <1>3. k = USER_PDES * N - STACK_GAP - 1 /\ u = USER_PDES * N - N - 1
    BY DEF KStack, UStack, PROC_KERNEL_STACK, PROC_USER_STACK
  <1> DEFINE M == USER_PDES * N
  <1> HIDE DEF N, k, u, M
  <1>4. k = M - STACK_GAP - 1 /\ u = M - N - 1 /\ M = B + N
    BY <1>2, <1>3 DEF M
  <1>5. k \in Nat /\ u \in Nat /\ k >= B /\ u < B
    <2> HIDE DEF B
    <2> QED
      BY <1>1, <1>2, <1>4
  <1>6. k \div N >= USER_PDES - 1 /\ u \div N < USER_PDES - 1
    <2>1. k \div N \in Int /\ u \div N \in Int /\ k < (k \div N + 1) * N /\ (u \div N) * N <= u
      BY <1>1, <1>5
    <2>2. ASSUME NEW i \in Int, (USER_PDES - 1) * N < (i + 1) * N PROVE i >= USER_PDES - 1
      BY <1>1, <2>2
    <2>3. ASSUME NEW i \in Int, i * N < (USER_PDES - 1) * N PROVE i < USER_PDES - 1
      BY <1>1, <2>3
    <2> DEFINE a == k \div N
               b == u \div N
    <2> HIDE DEF a, b
    <2>4. a \in Int /\ b \in Int /\ k < (a + 1) * N /\ b * N <= u
      BY <2>1 DEF a, b
    <2>5. (USER_PDES - 1) * N < (a + 1) * N /\ b * N < (USER_PDES - 1) * N
      <3>1. (a + 1) * N \in Int /\ b * N \in Int
        BY <1>1, <2>4
      <3> QED
        BY <1>2, <1>5, <2>4, <3>1
    <2>6. a >= USER_PDES - 1 /\ b < USER_PDES - 1
      BY <2>2, <2>3, <2>4, <2>5
    <2> QED
      BY <2>6 DEF a, b
  <1>7. k # u
    <2> HIDE DEF B
    <2> QED
      BY <1>2, <1>5
  <1>8. k \div N # u \div N
    <2>1. k \div N \in Int /\ u \div N \in Int
      BY <1>1, <1>5
    <2> QED
      BY <1>1, <1>6, <2>1
  <1> QED
    BY <1>7, <1>8 DEF VMM_PDE_INDEX, N, k, u

\* A page of the program is mapped: user mode reaches all pages.
LEMMA MapUser ==
    ASSUME NEW r, NEW p, NEW v, NEW d, AllUser(r), Mapped(r, p, v, d, TRUE)
    PROVE  AllUser(p)
  BY DEF AllUser, Mapped

\* The kernel stack is mapped: a table that is new for it holds nothing else.
LEMMA MapKernelStack ==
    ASSUME NEW r, NEW p, AllUser(r), SpaceOK(r),
           Mapped(r, p, KStack, VMM_PDE_INDEX(KStack), FALSE)
    PROVE  ButStack(p)
  <1>1. \A v \in DOMAIN r.pages : VMM_PDE_INDEX(v) \in DOMAIN r.tabs
    BY DEF SpaceOK
  <1>2. KStack \in DOMAIN p.pages /\ p.pages[KStack].user = FALSE
    BY DEF Mapped
  <1>3. \A v \in DOMAIN p.pages \ {KStack} : v \in DOMAIN r.pages /\ p.pages[v] = r.pages[v]
    BY DEF Mapped
  <1>4. \A d \in DOMAIN r.tabs : p.tabs[d] = r.tabs[d] /\ r.tabs[d].user = TRUE
    BY DEF Mapped, AllUser
  <1>5. \A v \in DOMAIN p.pages \ {KStack} :
            p.pages[v].user = TRUE /\ p.tabs[VMM_PDE_INDEX(v)].user = TRUE
    BY <1>1, <1>3, <1>4 DEF AllUser
  <1>6. \A d \in DOMAIN p.tabs \ {VMM_PDE_INDEX(KStack)} : p.tabs[d].user = TRUE
    BY <1>4 DEF Mapped
  <1> QED
    BY <1>2, <1>5, <1>6 DEF ButStack

\* The user stack is mapped, in a table other than the kernel stack's.
LEMMA MapUserStack ==
    ASSUME NEW r, NEW p, ButStack(r), SpaceOK(r),
           Mapped(r, p, UStack, VMM_PDE_INDEX(UStack), TRUE)
    PROVE  ButStack(p)
  <1>1. \A v \in DOMAIN r.pages : VMM_PDE_INDEX(v) \in DOMAIN r.tabs
    BY DEF SpaceOK
  <1>2. KStack # UStack /\ VMM_PDE_INDEX(UStack) # VMM_PDE_INDEX(KStack)
    BY StackTables
  <1>3. KStack \in DOMAIN p.pages /\ p.pages[KStack].user = FALSE
    BY DEF Mapped, ButStack
  <1>4. \A d \in DOMAIN p.tabs \ {VMM_PDE_INDEX(KStack)} : p.tabs[d].user = TRUE
    BY DEF Mapped, ButStack
  <1>5. VMM_PDE_INDEX(UStack) \in DOMAIN p.tabs
    BY DEF Mapped
  <1>6. \A v \in DOMAIN p.pages \ {KStack} :
          p.pages[v].user = TRUE /\ p.tabs[VMM_PDE_INDEX(v)].user = TRUE
    <2> TAKE v \in DOMAIN p.pages \ {KStack}
    <2>1. CASE v = UStack
      <3>1. p.pages[UStack].user = TRUE
        BY DEF Mapped
      <3> QED
        BY <1>2, <1>4, <1>5, <2>1, <3>1
    <2>2. CASE v # UStack
      <3>1. v \in DOMAIN r.pages \ {KStack} /\ p.pages[v] = r.pages[v]
        BY <2>2 DEF Mapped
      <3>2. p.tabs[VMM_PDE_INDEX(v)] = r.tabs[VMM_PDE_INDEX(v)]
        BY <1>1, <3>1 DEF Mapped
      <3> QED
        BY <3>1, <3>2 DEF ButStack
    <2> QED
      BY <2>1, <2>2
  <1> QED
    BY <1>3, <1>4, <1>6 DEF ButStack

\* What is to be mapped, one page taken off.
LEMMA AddressesOf ==
    ASSUME NEW s \in Seq(Mapping), s # <<>>
    PROVE  /\ Addresses(s) = {Head(s).vaddr} \cup Addresses(Tail(s))
           /\ (\A i \in DOMAIN s : s[i].user = TRUE) =>
                Head(s).user = TRUE /\ \A i \in DOMAIN Tail(s) : Tail(s)[i].user = TRUE
  <1> DEFINE t == Tail(s)
  <1>1. /\ t \in Seq(Mapping) /\ Len(t) = Len(s) - 1 /\ \A i \in 1..Len(t) : t[i] = s[i + 1]
        /\ Head(s) = s[1]
    BY HeadTailProperties
  <1> HIDE DEF t
  <1>2. /\ DOMAIN s = 1..Len(s) /\ DOMAIN t = 1..Len(t) /\ Len(s) \in Nat /\ Len(t) \in Nat
        /\ Len(s) > 0
    BY <1>1
  <1>3. 1 \in DOMAIN s /\ \A i \in DOMAIN t : i + 1 \in DOMAIN s /\ t[i] = s[i + 1]
    BY <1>1, <1>2
  <1>4. \A i \in DOMAIN s : i = 1 \/ (i - 1 \in DOMAIN t /\ t[i - 1] = s[i])
    <2> TAKE i \in DOMAIN s
    <2>1. CASE i # 1
      <3>1. i - 1 \in 1..Len(t) /\ (i - 1) + 1 = i
        BY <1>1, <1>2, <2>1
      <3>2. t[i - 1] = s[(i - 1) + 1]
        BY <1>1, <3>1
      <3> QED
        BY <1>2, <3>1, <3>2
    <2> QED
      BY <2>1
  <1>5. Addresses(s) = {s[1].vaddr} \cup Addresses(t)
    BY <1>3, <1>4 DEF Addresses
  <1> QED
    BY <1>1, <1>3, <1>5 DEF t

\* map_page
LEMMA MapSpace ==
    ASSUME IInv, SInv, map_page
    PROVE  SInv'
  <1> DEFINE o == job.proc
             r == proc[o]
             m == Head(job.todo)
             rest == Tail(job.todo)
             T == ProgramPages(job.program.pht)
  <1>1. job.todo # <<>>
    BY DEF map_page
  <1>2. /\ job.todo \in Seq(Mapping) /\ job.stage \in {"pht", "stacks"} /\ job.stage \in Filling
        /\ job.stage \in Starting \cup Filling
    BY <1>1 DEF IInv, JobOK, Filling
  <1>3. o \in DOMAIN proc \ {ktask} /\ r.state = "new" /\ SpaceOK(r) /\ IsJob(job)
    BY <1>2, JobProc
  <1>4. CASE proc_free(job.proc)
    BY <1>3, <1>4, FreeSpace
  <1>5. CASE Panic("remap")
    BY <1>5, SameSpace DEF Panic
  <1>6. ASSUME NEW p, proc' = Put(proc, o, p), Mapped(r, p, m.vaddr, VMM_PDE_INDEX(m.vaddr), m.user),
               job' = WithRest(job, rest), ktask' = ktask
        PROVE  SInv'
    <2>1. p.state = "new"
      BY <1>3, <1>6 DEF Mapped
    <2>2. \A q \in UserProcs' : q \in UserProcs /\ proc'[q] = proc[q]
      BY <1>3, <1>6, <2>1, UsersStay
    <2>3. /\ job'.stage = job.stage /\ job'.proc = o /\ job'.pht = job.pht /\ job'.todo = rest
          /\ job'.program = job.program
      <3>1. Updated(job, rest, rest, rest)
        BY <1>3, JobUpdates
      <3>2. job' = JobOf(job.stage, job.proc, job.parent, job.pht, rest, job.program)
        BY <1>6, <3>1, Zenon DEF Updated
      <3>3. HasFields(job', job.stage, job.proc, job.parent, job.pht, rest, job.program)
        BY <3>2, JobIs
      <3> QED
        BY <3>3, Zenon DEF HasFields
    <2>4. proc'[o] = p
      BY <1>3, <1>6 DEF Put
    <2>5. Progress(job, r, proc[job.parent], T)
      BY <1>2 DEF SInv
    <2>6. DOMAIN p.pages = DOMAIN r.pages \cup {m.vaddr} /\ m.vaddr \notin DOMAIN r.pages
      BY <1>6 DEF Mapped
    <2>7. CASE job.stage = "pht"
      <3>1. /\ AllUser(r) /\ \A i \in DOMAIN job.todo : job.todo[i].user = TRUE
            /\ DOMAIN r.pages \cup Addresses(job.todo) \cup ProgramPages(job.pht) = T
        BY <2>5, <2>7 DEF Progress
      <3>2. /\ Addresses(job.todo) = {m.vaddr} \cup Addresses(rest)
            /\ m.user = TRUE /\ \A i \in DOMAIN rest : rest[i].user = TRUE
        BY <1>1, <1>2, <3>1, AddressesOf
      <3>3. AllUser(p)
        <4>1. Mapped(r, p, m.vaddr, VMM_PDE_INDEX(m.vaddr), TRUE)
          BY <1>6, <3>2
        <4> HIDE DEF r, m
        <4> QED
          BY <3>1, <4>1, MapUser
      <3> HIDE DEF T, r, m, rest, o
      <3>4. DOMAIN p.pages \cup Addresses(rest) \cup ProgramPages(job.pht) = T
        BY <2>6, <3>1, <3>2
      <3>5. Progress(job', proc'[job'.proc], proc'[job'.parent], T)
        BY <2>3, <2>4, <2>7, <3>2, <3>3, <3>4 DEF Progress
      <3> QED
        BY <2>2, <2>3, <3>5, UsersOK DEF T
    <2>8. CASE job.stage = "stacks" /\ job.todo = <<KMap, UMap>>
      <3>1. AllUser(r) /\ DOMAIN r.pages = T
        <4>1. <<KMap, UMap>> # <<UMap>>
          OBVIOUS
        <4> QED
          BY <1>1, <2>5, <2>8, <4>1 DEF Progress
      <3>2. m = KMap /\ rest = <<UMap>>
        BY <2>8
      <3>3. m.vaddr = KStack /\ m.user = FALSE
        BY <3>2 DEF KMap
      <3>4. ButStack(p)
        <4>1. Mapped(r, p, KStack, VMM_PDE_INDEX(KStack), FALSE)
          BY <1>6, <3>3
        <4> HIDE DEF r
        <4> QED
          BY <1>3, <3>1, <4>1, MapKernelStack
      <3> HIDE DEF T, r, m, rest, o
      <3>5. KStack \notin T /\ DOMAIN p.pages = T \cup {KStack}
        BY <2>6, <3>1, <3>3
      <3>6. Progress(job', proc'[job'.proc], proc'[job'.parent], T)
        BY <2>3, <2>4, <2>8, <3>2, <3>4, <3>5 DEF Progress
      <3> QED
        BY <2>2, <2>3, <3>6, UsersOK DEF T
    <2>9. CASE job.stage = "stacks" /\ job.todo # <<KMap, UMap>>
      <3>1. /\ job.todo = <<UMap>> /\ ButStack(r) /\ KStack \notin T
            /\ DOMAIN r.pages = T \cup {KStack}
        BY <1>1, <2>5, <2>9 DEF Progress
      <3>2. m = UMap /\ rest = <<>>
        BY <3>1
      <3>3. m.vaddr = UStack /\ m.user = TRUE
        BY <3>2 DEF UMap
      <3>4. ButStack(p)
        <4>1. Mapped(r, p, UStack, VMM_PDE_INDEX(UStack), TRUE)
          BY <1>6, <3>3
        <4> HIDE DEF r
        <4> QED
          BY <1>3, <3>1, <4>1, MapUserStack
      <3> HIDE DEF T, r, m, rest, o
      <3>5. Complete(p, T)
        BY <2>6, <3>1, <3>3, <3>4 DEF Complete
      <3>6. Progress(job', proc'[job'.proc], proc'[job'.parent], T)
        BY <2>3, <2>4, <2>9, <3>2, <3>5 DEF Progress
      <3> QED
        BY <2>2, <2>3, <3>6, UsersOK DEF T
    <2> QED
      BY <1>2, <2>7, <2>8, <2>9
  <1> QED
    BY <1>4, <1>5, <1>6, MapEffect

\* sched_add, for a process that is complete.
LEMMA RunSpace ==
    ASSUME IInv, SInv, job.stage \in Filling,
           proc' = [proc EXCEPT ![job.proc].state = "RUNNING"], job' = JobDone, ktask' = ktask,
           Complete(proc[job.proc], ProgramPages(job.program.pht))
    PROVE  SInv'
  <1> DEFINE o == job.proc
             r == proc[o]
             p == Running(r)
             T == ProgramPages(job.program.pht)
  <1>1. o \in DOMAIN proc /\ ProcsOK(proc, ktask)
    BY JobProc
  <1>2. proc' = Put(proc, o, p)
    <2>1. proc' = SetState(proc, o, "RUNNING")
      BY Zenon DEF SetState
    <2> HIDE DEF o
    <2>2. Changed(proc, o, "RUNNING", "RUNNING", 0)
      BY <1>1, ProcUpdates
    <2> QED
      BY <2>1, <2>2, Zenon DEF Changed, Running, p, r
  <1>3. p.tabs = r.tabs /\ p.pages = r.pages
    BY DEF Running, ProcOf
  <1> HIDE DEF p
  <1>4. /\ DOMAIN proc' = DOMAIN proc /\ proc'[o] = p
        /\ \A q \in DOMAIN proc \ {o} : proc'[q] = proc[q]
    BY <1>1, <1>2 DEF Put
  <1>5. Complete(p, T)
    <2>1. Complete(r, T)
      OBVIOUS
    <2> HIDE DEF r, T
    <2> QED
      BY <1>3, <2>1 DEF Complete, ButStack
  <1>6. \A q \in UserProcs : Complete(proc[q], T)
    BY DEF SInv
  <1> HIDE DEF T, o
  <1>7. \A q \in UserProcs' : Complete(proc'[q], T)
    <2> TAKE q \in UserProcs'
    <2>1. CASE q = o
      BY <1>4, <1>5, <2>1
    <2>2. CASE q # o
      <3>1. q \in UserProcs /\ proc'[q] = proc[q]
        BY <1>4, <2>2 DEF UserProcs
      <3> QED
        BY <1>6, <3>1
    <2> QED
      BY <2>1, <2>2
  <1>8. HasFields(job', "none", <<>>, <<>>, <<>>, <<>>, job.program)
    <2>1. job' = JobOf("none", <<>>, <<>>, <<>>, <<>>, job.program)
      BY JobDoneIs
    <2> QED
      BY <2>1, JobIs
  <1>9. job'.stage \notin Filling /\ job'.program = job.program
    BY <1>8 DEF HasFields, Filling
  <1> QED
    BY <1>7, <1>9 DEF SInv, T

\* proc_exec
LEMMA ExecSpace ==
    ASSUME IInv, SInv, exec_done
    PROVE  SInv'
  <1> DEFINE T == ProgramPages(job.program.pht)
  <1>1. /\ job.stage = "stacks" /\ job.todo = <<>>
        /\ proc' = [proc EXCEPT ![job.proc].state = "RUNNING"] /\ job' = JobDone /\ ktask' = ktask
    BY DEF exec_done, Step
  <1>2. job.stage \in Filling
    BY <1>1 DEF Filling
  <1>3. Progress(job, proc[job.proc], proc[job.parent], T)
    BY <1>2 DEF SInv
  <1>4. Complete(proc[job.proc], T)
    <2>1. job.todo # <<KMap, UMap>> /\ job.todo # <<UMap>>
      BY <1>1
    <2> QED
      BY <1>1, <1>3, <2>1 DEF Progress
  <1> QED
    BY <1>1, <1>2, <1>4, RunSpace

\* The parent is another process, which stays as it is.
LEMMA ParentStays ==
    ASSUME IInv, job.stage = "copy", NEW p, proc' = Put(proc, job.proc, p), job' = job
    PROVE  proc'[job'.proc] = p /\ proc'[job'.parent] = proc[job.parent]
  <1>1. JobOK(job, proc, ktask)
    BY DEF IInv
  <1>2. /\ job.proc \in DOMAIN proc /\ proc[job.proc].state = "new"
        /\ job.parent \in DOMAIN proc /\ proc[job.parent].state = "RUNNING"
    BY <1>1 DEF JobOK, Filling
  <1>3. job.parent # job.proc
    BY <1>2
  <1> QED
    BY <1>2, <1>3 DEF Put

\* copy_table
LEMMA CopyTableSpace ==
    ASSUME IInv, SInv, copy_table
    PROVE  SInv'
  <1> DEFINE o == job.proc
             r == proc[o]
             s == proc[job.parent]
             d == Min(TablesLeft)
             tab == [page |-> Min(free), user |-> s.tabs[d].user]
             tabs == Extend(r.tabs, d, tab)
             n == r.mem_pages + 1
             p == ProcOf(r.state, r.page_dir, tabs, r.pages, n)
             T == ProgramPages(job.program.pht)
  <1>1. /\ job.stage = "copy" /\ proc' = [proc EXCEPT ![o].tabs = tabs, ![o].mem_pages = n]
        /\ UNCHANGED <<ktask, job>>
    BY DEF copy_table, Step
  <1>2. job.stage \in Filling /\ job.stage \in Starting \cup Filling
    BY <1>1 DEF Filling
  <1>3. o \in DOMAIN proc /\ r.state = "new" /\ ProcsOK(proc, ktask)
    BY <1>2, JobProc
  <1>4. proc' = Put(proc, o, p)
    <2> HIDE DEF n, o, tabs
    <2>1. proc' = PutTabs(proc, o, tabs, n)
      BY <1>1, Zenon DEF PutTabs
    <2>2. Changed(proc, o, tabs, tabs, n)
      BY <1>3, ProcUpdates
    <2> QED
      BY <2>1, <2>2, Zenon DEF Changed, p, r
  <1>5. p.state = r.state /\ p.tabs = tabs /\ p.pages = r.pages
    BY DEF ProcOf
  <1>6. Progress(job, r, s, T)
    BY <1>2 DEF SInv
  <1>7. SameFlags(r, s)
    BY <1>1, <1>6 DEF Progress
  <1>8. SameFlags(p, s)
    <2>1. tab.user = s.tabs[d].user
      OBVIOUS
    <2> HIDE DEF r, s, d, tab
    <2>2. Extends(r.tabs, d, tab, tabs)
      BY ExtendIs
    <2> HIDE DEF tabs, p
    <2>3. \A y \in DOMAIN r.tabs : r.tabs[y].user = s.tabs[y].user
      BY <1>7 DEF SameFlags
    <2>4. \A y \in DOMAIN tabs : tabs[y].user = s.tabs[y].user
      BY <2>1, <2>2, <2>3 DEF Extends
    <2> QED
      BY <1>5, <1>7, <2>4 DEF SameFlags
  <1> HIDE DEF p
  <1>9. \A q \in UserProcs' : q \in UserProcs /\ proc'[q] = proc[q]
    BY <1>1, <1>3, <1>4, <1>5, UsersStay
  <1>10. proc'[job'.proc] = p /\ proc'[job'.parent] = s
    BY <1>1, <1>4, ParentStays
  <1>11. Progress(job', proc'[job'.proc], proc'[job'.parent], T)
    <2> HIDE DEF s, T
    <2> QED
      BY <1>1, <1>8, <1>10 DEF Progress
  <1> QED
    BY <1>1, <1>9, <1>11, UsersOK

\* copy_page
LEMMA CopyPageSpace ==
    ASSUME IInv, SInv, copy_page
    PROVE  SInv'
  <1> DEFINE o == job.proc
             r == proc[o]
             s == proc[job.parent]
             v == Min(PagesLeft)
             t == [page |-> Min(free), user |-> s.pages[v].user]
             pages == Extend(r.pages, v, t)
             n == r.mem_pages + 1
             p == ProcOf(r.state, r.page_dir, r.tabs, pages, n)
             T == ProgramPages(job.program.pht)
  <1>1. /\ job.stage = "copy" /\ proc' = [proc EXCEPT ![o].pages = pages, ![o].mem_pages = n]
        /\ UNCHANGED <<ktask, job>>
    BY DEF copy_page, Step
  <1>2. job.stage \in Filling /\ job.stage \in Starting \cup Filling
    BY <1>1 DEF Filling
  <1>3. o \in DOMAIN proc /\ r.state = "new" /\ ProcsOK(proc, ktask)
    BY <1>2, JobProc
  <1>4. proc' = Put(proc, o, p)
    <2> HIDE DEF n, o, pages
    <2>1. proc' = PutPages(proc, o, pages, n)
      BY <1>1, Zenon DEF PutPages
    <2>2. Changed(proc, o, pages, pages, n)
      BY <1>3, ProcUpdates
    <2> QED
      BY <2>1, <2>2, Zenon DEF Changed, p, r
  <1>5. p.state = r.state /\ p.tabs = r.tabs /\ p.pages = pages
    BY DEF ProcOf
  <1>6. Progress(job, r, s, T)
    BY <1>2 DEF SInv
  <1>7. SameFlags(r, s)
    BY <1>1, <1>6 DEF Progress
  <1>8. SameFlags(p, s)
    <2>1. t.user = s.pages[v].user
      OBVIOUS
    <2> HIDE DEF r, s, v, t
    <2>2. Extends(r.pages, v, t, pages)
      BY ExtendIs
    <2> HIDE DEF pages, p
    <2>3. \A y \in DOMAIN r.pages : r.pages[y].user = s.pages[y].user
      BY <1>7 DEF SameFlags
    <2>4. \A y \in DOMAIN pages : pages[y].user = s.pages[y].user
      BY <2>1, <2>2, <2>3 DEF Extends
    <2> QED
      BY <1>5, <1>7, <2>4 DEF SameFlags
  <1> HIDE DEF p
  <1>9. \A q \in UserProcs' : q \in UserProcs /\ proc'[q] = proc[q]
    BY <1>1, <1>3, <1>4, <1>5, UsersStay
  <1>10. proc'[job'.proc] = p /\ proc'[job'.parent] = s
    BY <1>1, <1>4, ParentStays
  <1>11. Progress(job', proc'[job'.proc], proc'[job'.parent], T)
    <2> HIDE DEF s, T
    <2> QED
      BY <1>1, <1>8, <1>10 DEF Progress
  <1> QED
    BY <1>1, <1>9, <1>11, UsersOK

\* The tables and pages of a clone that lacks none are those of its parent.
LEMMA CloneDomains ==
    ASSUME IInv, job.stage = "copy", PagesLeft \cup TablesLeft = {}
    PROVE  /\ DOMAIN proc[job.proc].tabs = DOMAIN proc[job.parent].tabs
           /\ DOMAIN proc[job.proc].pages = DOMAIN proc[job.parent].pages
           /\ job.parent \in UserProcs /\ SpaceOK(proc[job.parent])
  <1> DEFINE r == proc[job.proc]
             s == proc[job.parent]
  <1>1. ProcsOK(proc, ktask) /\ JobOK(job, proc, ktask)
    BY DEF IInv
  <1>2. /\ job.parent \in DOMAIN proc \ {ktask} /\ s.state = "RUNNING"
        /\ DOMAIN r.tabs \subseteq DOMAIN s.tabs /\ DOMAIN r.pages \subseteq DOMAIN s.pages
    BY <1>1 DEF JobOK
  <1>3. SpaceOK(s)
    BY <1>1, <1>2 DEF ProcsOK
  <1>4. DOMAIN r.tabs = DOMAIN s.tabs
    BY <1>2 DEF TablesLeft
  <1>5. \A v \in DOMAIN s.pages : VMM_PDE_INDEX(v) \in DOMAIN s.tabs
    BY <1>3 DEF SpaceOK
  <1>6. DOMAIN r.pages = DOMAIN s.pages
    BY <1>2, <1>4, <1>5 DEF PagesLeft
  <1> QED
    BY <1>2, <1>3, <1>4, <1>6 DEF UserProcs

\* clone_done: what the parent has, the clone has.
LEMMA CloneSpace ==
    ASSUME IInv, SInv, clone_done
    PROVE  SInv'
  <1> DEFINE r == proc[job.proc]
             s == proc[job.parent]
             T == ProgramPages(job.program.pht)
  <1>1. job.stage = "copy" /\ PagesLeft \cup TablesLeft = {}
    BY DEF clone_done, Step
  <1>2. job.stage \in Filling
    BY <1>1 DEF Filling
  <1>3. Progress(job, r, s, T)
    BY <1>2 DEF SInv
  <1>4. SameFlags(r, s)
    BY <1>1, <1>3 DEF Progress
  <1>5. /\ DOMAIN r.tabs = DOMAIN s.tabs /\ DOMAIN r.pages = DOMAIN s.pages
        /\ job.parent \in UserProcs /\ SpaceOK(s)
    BY <1>1, CloneDomains
  <1>6. Complete(s, T)
    BY <1>5 DEF SInv
  <1>7. Complete(r, T)
    <2> HIDE DEF r, s, T
    <2>1. \A v \in DOMAIN s.pages : VMM_PDE_INDEX(v) \in DOMAIN s.tabs
      BY <1>5 DEF SpaceOK
    <2> QED
      BY <1>4, <1>5, <1>6, <2>1 DEF Complete, ButStack, SameFlags
  <1>8. CASE proc[job.proc].mem_pages # proc[job.parent].mem_pages
    <2>1. Panic("clone")
      BY <1>8 DEF clone_done
    <2> QED
      BY <2>1, SameSpace DEF Panic
  <1>9. CASE proc[job.proc].mem_pages = proc[job.parent].mem_pages
    <2>1. proc' = [proc EXCEPT ![job.proc].state = "RUNNING"] /\ job' = JobDone /\ ktask' = ktask
      BY <1>9 DEF clone_done
    <2> QED
      BY <1>2, <1>7, <2>1, RunSpace
  <1> QED
    BY <1>8, <1>9

\* ktask_initialize: no user process yet.
LEMMA KtaskSpace ==
    ASSUME IInv, SInv, ktask_initialize
    PROVE  SInv'
  <1> DEFINE first == Min(free)
             stack == Min(free \ {first})
             dir == Min(free \ {first, stack})
             new == next_object(init_slab_page(proc_cache, first))
             p == [NewProc EXCEPT !.state = "RUNNING", !.page_dir = dir]
  <1>1. job.stage = "boot"
    BY DEF ktask_initialize, Step
  <1>2. proc = <<>> /\ IsJob(job)
    BY <1>1 DEF IInv, JobOK
  <1>3. CASE Cardinality(free) < 3
    <2>1. Panic("ktask")
      BY <1>3 DEF ktask_initialize
    <2> QED
      BY <2>1, SameSpace DEF Panic
  <1>4. CASE ~(Cardinality(free) < 3)
    <2>1. ktask' = new /\ proc' = Extend(proc, new, p) /\ job' = [job EXCEPT !.stage = "exec"]
      BY <1>4 DEF ktask_initialize
    <2> HIDE DEF new, p
    <2>2. DOMAIN proc' = {ktask'}
      <3>1. Extends(proc, new, p, proc')
        BY <2>1, ExtendIs
      <3>2. DOMAIN proc = {}
        BY <1>2
      <3> QED
        BY <2>1, <3>1, <3>2 DEF Extends
    <2>3. UserProcs' = {}
      BY <2>2 DEF UserProcs
    <2>4. job'.stage = "exec"
      <3>1. job' = Staged(job, "exec") /\ Updated(job, "exec", "exec", "exec")
        BY <1>2, <2>1, JobUpdates DEF Staged
      <3>2. job' = JobOf("exec", job.proc, job.parent, job.pht, job.todo, job.program)
        BY <3>1, Zenon DEF Updated
      <3>3. HasFields(job', "exec", job.proc, job.parent, job.pht, job.todo, job.program)
        BY <3>2, JobIs
      <3> QED
        BY <3>3, Zenon DEF HasFields
    <2>5. job'.stage \notin Filling
      BY <2>4 DEF Filling
    <2> QED
      BY <2>3, <2>5 DEF SInv
  <1> QED
    BY <1>3, <1>4

\* The second invariant holds at first,
LEMMA InitSpace == Init => SInv
  <1> SUFFICES ASSUME Init PROVE SInv
    OBVIOUS
  <1>1. UserProcs = {}
    <2>1. proc = <<>>
      BY DEF Init
    <2>2. DOMAIN <<>> = {}
      OBVIOUS
    <2> QED
      BY <2>1, <2>2, Zenon DEF UserProcs
  <1>2. job.stage = "boot"
    <2>1. IInv
      BY InitOK
    <2>2. PICK p \in Programs : job = [NoJob EXCEPT !.stage = "boot", !.program = p]
      BY DEF Init
    <2> QED
      BY <2>2 DEF NoJob
  <1>3. job.stage \notin Filling
    BY <1>2 DEF Filling
  <1> QED
    BY <1>1, <1>3 DEF SInv

\* and after every step.
LEMMA NextSpace == IInv /\ SInv /\ [Next]_vars => SInv'
  <1> SUFFICES ASSUME IInv, SInv, [Next]_vars PROVE SInv'
    OBVIOUS
  <1>1. CASE ktask_initialize
    BY <1>1, KtaskSpace
  <1>2. CASE proc_exec
    <2>1. job.stage = "exec" /\ "exec_dir" \in Starting
      BY <1>2 DEF proc_exec, Step, Starting
    <2>2. CASE proc_alloc(<<>>, "exec_dir")
      BY <2>1, <2>2, AllocSpace
    <2>3. CASE Panic("slab")
      BY <2>3, SameSpace DEF Panic
    <2> QED
      BY <1>2, <2>2, <2>3 DEF proc_exec
  <1>3. CASE init_proc_from_elf \/ init_proc_from_proc
    <2>1. job.stage \in Starting \cup Filling
      BY <1>3 DEF init_proc_from_elf, init_proc_from_proc, Step, Starting
    <2>2. \/ job.stage = "exec_dir" /\ alloc_page_dir(job.proc, "elf")
          \/ job.stage = "clone_dir" /\ alloc_page_dir(job.proc, "copy")
          \/ proc_free(job.proc)
      BY <1>3 DEF init_proc_from_elf, init_proc_from_proc, Step
    <2>3. CASE proc_free(job.proc)
      BY <2>1, <2>3, JobProc, FreeSpace
    <2>4. CASE job.stage = "exec_dir" /\ alloc_page_dir(job.proc, "elf")
      BY <2>4, DirSpace
    <2>5. CASE job.stage = "clone_dir" /\ alloc_page_dir(job.proc, "copy")
      BY <2>5, DirSpace
    <2> QED
      BY <2>2, <2>3, <2>4, <2>5
  <1>4. CASE elf_load_program
    BY <1>4, ElfSpace
  <1>5. CASE load_from_pht
    BY <1>5, PhtSpace
  <1>6. CASE alloc_proc_stacks
    BY <1>6, StacksSpace
  <1>7. CASE map_page
    BY <1>7, MapSpace
  <1>8. CASE map_page_fails
    <2>1. job.todo # <<>> /\ proc_free(job.proc)
      BY <1>8 DEF map_page_fails
    <2>2. job.stage \in Starting \cup Filling
      BY <2>1 DEF IInv, JobOK, Filling
    <2> QED
      BY <2>1, <2>2, JobProc, FreeSpace
  <1>9. CASE exec_done
    BY <1>9, ExecSpace
  <1>10. ASSUME NEW o \in UserProcs, proc_clone(o) PROVE SInv'
    <2>1. job.stage = "none" /\ "clone_dir" \in Starting
      BY <1>10 DEF proc_clone, Step, Starting
    <2>2. CASE proc_alloc(o, "clone_dir")
      BY <2>1, <2>2, AllocSpace
    <2>3. CASE Panic("slab")
      BY <2>3, SameSpace DEF Panic
    <2> QED
      BY <1>10, <2>2, <2>3 DEF proc_clone
  <1>11. ASSUME NEW o \in UserProcs, proc_exit(o) PROVE SInv'
    <2>1. proc_free(o) /\ o \in DOMAIN proc \ {ktask}
      BY <1>11 DEF proc_exit, UserProcs
    <2> QED
      BY <2>1, FreeSpace
  <1>12. CASE copy_table
    BY <1>12, CopyTableSpace
  <1>13. CASE copy_page
    BY <1>13, CopyPageSpace
  <1>14. CASE copy_fails
    <2>1. job.stage \in Starting \cup Filling /\ proc_free(job.proc)
      BY <1>14 DEF copy_fails, Step, Filling
    <2> QED
      BY <2>1, JobProc, FreeSpace
  <1>15. CASE clone_done
    BY <1>15, CloneSpace
  <1>16. CASE other_cache_grows
    BY <1>16, SameSpace DEF other_cache_grows
  <1>17. CASE UNCHANGED vars
    BY <1>17, SameSpace DEF vars
  <1> QED
    BY <1>1, <1>2, <1>3, <1>4, <1>5, <1>6, <1>7, <1>8, <1>9, <1>10, <1>11, <1>12, <1>13, <1>14,
       <1>15, <1>16, <1>17 DEF Next, Stopped

\* A process that runs, loaded or cloned over any number of generations, has the
\* pages its program touches and the two stacks, and user mode reaches all of them
\* but the kernel stack: for every layout, every program below KERNEL_BASE and every
\* point at which memory runs out.
THEOREM SpacesAreProgram == Spec => []SpaceIsProgram
  <1>1. IInv /\ SInv => SpaceIsProgram
    <2> SUFFICES ASSUME IInv, SInv, NEW o \in UserProcs
                 PROVE  LET user == ProgramPages(job.program.pht) \cup {PROC_USER_STACK - 1}
                        IN  /\ DOMAIN proc[o].pages = user \cup {PROC_KERNEL_STACK - 1}
                            /\ {v \in DOMAIN proc[o].pages :
                                  proc[o].pages[v].user /\ proc[o].tabs[VMM_PDE_INDEX(v)].user} = user
      BY DEF SpaceIsProgram
    <2> DEFINE T == ProgramPages(job.program.pht)
               p == proc[o]
    <2>1. Complete(p, T) /\ KStack # UStack
      BY StackTables DEF SInv
    <2> HIDE DEF T, p
    <2>2. DOMAIN p.pages = (T \cup {UStack}) \cup {KStack} /\ KStack \notin T \cup {UStack}
      BY <2>1 DEF Complete
    <2>3. {v \in DOMAIN p.pages : p.pages[v].user /\ p.tabs[VMM_PDE_INDEX(v)].user} = T \cup {UStack}
      <3>1. p.pages[KStack].user = FALSE
        BY <2>1 DEF Complete, ButStack
      <3>2. \A v \in DOMAIN p.pages \ {KStack} :
              p.pages[v].user = TRUE /\ p.tabs[VMM_PDE_INDEX(v)].user = TRUE
        BY <2>1 DEF Complete, ButStack
      <3>3. DOMAIN p.pages \ {KStack} = T \cup {UStack}
        BY <2>2
      <3> QED
        BY <3>1, <3>2, <3>3
    <2> QED
      BY <2>2, <2>3 DEF KStack, UStack, T, p
  <1>2. Init => SInv
    BY InitSpace
  <1>3. IInv /\ SInv /\ [Next]_vars => SInv'
    BY NextSpace
  <1> QED
    BY <1>1, <1>2, <1>3, Invariance, PTL DEF Spec
=============================================================================
