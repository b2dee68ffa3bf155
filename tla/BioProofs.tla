----------------------------- MODULE BioProofs -----------------------------
(***************************************************************************)
(* Proofs about Bio, for every set of processes, every cache size and every *)
(* outcome of the page allocator: the type invariant, the exclusive use of  *)
(* a bio, the chains of sleepers, the place of the reader at the front of   *)
(* its bio's chain, and that a bio with a pending read does not change; and *)
(* on top of these that the wake-up for the processes that wait for any bio *)
(* at all is passed on, and that a cache that never has to reuse a bio for  *)
(* another block serves every process with the sector it asked for.         *)
(***************************************************************************)
EXTENDS Bio, SequenceTheorems, NatFacts

\* Every bio that is listed, held or waited for has been allocated.
Allocated ==
    /\ \A i \in DOMAIN lru : lru[i] <= bio_cache_count
    /\ \A p \in Procs : mybio[p] <= bio_cache_count
    /\ \A p \in Procs : pc[p] \in {"held", "waitIO", "waitBio"} => mybio[p] # 0
    /\ \A p \in Procs : pc[p] = "waitHead" => mybio[p] = 0

\* Only the process inside the kernel has returned from bio_get or bio_read.
OneInKernel ==
    \A p \in Procs : pc[p] = "held" <=> cpu = p

AwakeInKernel ==
    \A p \in Procs : pc[p] \in {"idle", "held"} => state[p] = "RUNNING"

\* A read request is for the bio it fills, and a bio has one at a time.
OneReadPerBio ==
    /\ \A i \in DOMAIN ioq : ioq[i].kind = "read" =>
        /\ ioq[i].data \in Bios /\ ioq[i].bio = ioq[i].data
        /\ \A j \in DOMAIN ioq :
             ioq[j].kind = "read" /\ ioq[i].data = ioq[j].data => i = j
        /\ ~(done.kind = "read" /\ done.data = ioq[i].data)
    /\ done.kind = "read" => done.data \in Bios /\ done.proc \in Procs

\* The inductive invariant.
IInv ==
    /\ TypeOK
    /\ Allocated
    /\ OneInKernel
    /\ AwakeInKernel
    /\ MutualExclusion
    /\ SleepChains
    /\ OneReadPerBio
    /\ ReaderFirst

-----------------------------------------------------------------------------
(* Sequences.                                                              *)

\* Putting an element at the front of a sequence.
LEMMA PushFront ==
    ASSUME NEW S, NEW s \in Seq(S), NEW e \in S
    PROVE  /\ <<e>> \o s \in Seq(S)
           /\ <<e>> \o s # <<>>
           /\ Head(<<e>> \o s) = e
           /\ DOMAIN (<<e>> \o s) = 1..(Len(s) + 1)
           /\ (<<e>> \o s)[1] = e
           /\ \A i \in 2..(Len(s) + 1) : (<<e>> \o s)[i] = s[i - 1]
<1>1. <<e>> \in Seq(S) /\ Len(<<e>>) = 1 /\ <<e>>[1] = e
  OBVIOUS
<1>2. /\ <<e>> \o s \in Seq(S)
      /\ Len(<<e>> \o s) = 1 + Len(s)
      /\ \A i \in 1..(1 + Len(s)) :
            (<<e>> \o s)[i] = IF i <= 1 THEN <<e>>[i] ELSE s[i - 1]
  BY <1>1, ConcatProperties, LenProperties
<1>3. Len(s) \in Nat
  OBVIOUS
<1> QED
  BY <1>1, <1>2, <1>3

Moved(s, i) == <<s[i]>> \o SubSeq(s, 1, i - 1) \o SubSeq(s, i + 1, Len(s))

\* Moving the element at index i to the front of a sequence: the result has
\* the same elements.
LEMMA MoveToFront ==
    ASSUME NEW S, NEW s \in Seq(S), NEW i \in 1..Len(s)
    PROVE  /\ Moved(s, i) \in Seq(S)
           /\ \A k \in DOMAIN Moved(s, i) : \E j \in DOMAIN s : Moved(s, i)[k] = s[j]
<1> DEFINE a == <<s[i]>>
           b == SubSeq(s, 1, i - 1)
           c == SubSeq(s, i + 1, Len(s))
<1>1. a \in Seq(S) /\ Len(a) = 1 /\ a[1] = s[i] /\ Len(s) \in Nat
  OBVIOUS
<1>2. /\ b \in Seq(S) /\ Len(b) = i - 1
      /\ \A k \in 1..(i - 1) : b[k] = s[k]
  BY <1>1, SubSeqProperties
<1>3. /\ c \in Seq(S) /\ Len(c) = Len(s) - i
      /\ \A k \in 1..(Len(s) - i) : c[k] = s[i + k]
  BY <1>1, SubSeqProperties
<1> HIDE DEF a, b, c
<1>4. /\ a \o b \in Seq(S) /\ Len(a \o b) = i
      /\ \A k \in 1..i : (a \o b)[k] = IF k <= 1 THEN a[k] ELSE b[k - 1]
  <2>1. /\ a \o b \in Seq(S)
        /\ Len(a \o b) = Len(a) + Len(b)
        /\ \A k \in 1..(Len(a) + Len(b)) :
             (a \o b)[k] = IF k <= Len(a) THEN a[k] ELSE b[k - Len(a)]
    BY <1>1, <1>2, ConcatProperties
  <2> QED
    BY <1>1, <1>2, <2>1
<1> DEFINE ab == a \o b
<1>ab. ab \in Seq(S) /\ Len(ab) = i /\ \A k \in 1..i : ab[k] = IF k <= 1 THEN a[k] ELSE b[k - 1]
  BY <1>4
<1> HIDE DEF ab
<1> DEFINE t == ab \o c
<1>5. /\ t \in Seq(S) /\ Len(t) = Len(s)
      /\ \A k \in 1..Len(s) : t[k] = IF k <= i THEN ab[k] ELSE c[k - i]
  <2>2. /\ t \in Seq(S)
        /\ Len(t) = Len(ab) + Len(c)
        /\ \A k \in 1..(Len(ab) + Len(c)) :
             t[k] = IF k <= Len(ab) THEN ab[k] ELSE c[k - Len(ab)]
    BY <1>3, <1>ab, ConcatProperties
  <2> HIDE DEF t
  <2> QED
    BY <1>1, <1>3, <1>ab, <2>2
<1> HIDE DEF t
<1>6. ASSUME NEW k \in 1..Len(s)
      PROVE  \E j \in 1..Len(s) : t[k] = s[j]
  <2>1. CASE k = 1
    <3>1. t[k] = s[i]
      BY <1>1, <1>ab, <1>5, <2>1
    <3> QED
      BY <3>1
  <2>2. CASE 1 < k /\ k <= i
    <3>1. t[k] = s[k - 1]
      <4>1. k - 1 \in 1..(i - 1) /\ k \in 1..i
        BY <1>1, <2>2
      <4>2. t[k] = ab[k] /\ ab[k] = b[k - 1]
        BY <1>ab, <1>5, <2>2, <4>1
      <4> QED
        BY <1>2, <4>1, <4>2
    <3> QED
      BY <1>1, <2>2, <3>1
  <2>3. CASE i < k
    <3>1. t[k] = s[k]
      BY <1>1, <1>3, <1>5, <2>3
    <3> QED
      BY <3>1
  <2> QED
    BY <1>1, <2>1, <2>2, <2>3
<1>7. t \in Seq(S) /\ \A k \in DOMAIN t : \E j \in DOMAIN s : t[k] = s[j]
  <2>1. DOMAIN t = 1..Len(s) /\ DOMAIN s = 1..Len(s)
    BY <1>5, LenProperties
  <2> QED
    BY <1>5, <1>6, <2>1
<1>8. t = Moved(s, i)
  BY Zenon DEF Moved, t, ab, a, b, c
<1> QED
  BY <1>7, <1>8

-----------------------------------------------------------------------------
(* What the searches return, and the steps that several actions share.     *)

\* BASE_SECTOR of a sector number is a sector number.
LEMMA BaseSectorType ==
    ASSUME NEW s \in Nat
    PROVE  BASE_SECTOR(s) \in Nat
<1>1. s \div SECTORS_PER_BIO \in Nat
  BY SpbAssumption
<1> QED
  BY <1>1, SpbAssumption DEF BASE_SECTOR

\* find_bio and find_unused_bio return listed bios, the latter unused ones.
LEMMA Searches ==
    ASSUME IInv
    PROVE  /\ \A d, s : \A b \in find_bio(d, s) : b \in Bios /\ b <= bio_cache_count
           /\ \A b \in find_unused_bio :
                /\ b \in Bios /\ b <= bio_cache_count
                /\ ~Busy(b)
<1>1. \A i \in DOMAIN lru : lru[i] \in Bios /\ lru[i] <= bio_cache_count
  BY LenProperties DEF IInv, TypeOK, Allocated
<1> QED
  BY <1>1 DEF find_bio, find_unused_bio

\* The chains are sequences of processes.
LEMMA Chains ==
    ASSUME TypeOK, NEW c \in Bios \cup {Head0}
    PROVE  /\ sleep[c] \in Seq(Procs)
           /\ Len(sleep[c]) \in Nat
           /\ DOMAIN sleep[c] = 1..Len(sleep[c])
           /\ \A i \in DOMAIN sleep[c] : sleep[c][i] \in Procs
           /\ sleep[c] # <<>> => 1 \in DOMAIN sleep[c] /\ Head(sleep[c]) = sleep[c][1]
<1>1. sleep[c] \in Seq(Procs)
  BY DEF TypeOK
<1>2. /\ Len(sleep[c]) \in Nat
      /\ DOMAIN sleep[c] = 1..Len(sleep[c])
      /\ \A i \in DOMAIN sleep[c] : sleep[c][i] \in Procs
  BY <1>1, LenProperties, ElementOfSeq
<1>3. sleep[c] # <<>> => Len(sleep[c]) # 0 /\ Head(sleep[c]) = sleep[c][1]
  BY <1>1
<1> QED
  BY <1>1, <1>2, <1>3

\* The bio a process waits for or holds: a bio of the cache, or the list head.
LEMMA MybioType ==
    ASSUME TypeOK, NEW q \in Procs
    PROVE  mybio[q] \in 0..MAX_CACHE_COUNT /\ mybio[q] \in Bios \cup {Head0}
<1>1. mybio[q] \in 0..MAX_CACHE_COUNT
  BY DEF TypeOK
<1> QED
  BY <1>1, CacheAssumption DEF Bios, Head0

\* The processes on a chain: asleep, waiting for its bio, all different.
LEMMA OnChain ==
    ASSUME TypeOK, SleepChains, NEW c \in Bios \cup {Head0}, NEW i \in DOMAIN sleep[c]
    PROVE  /\ sleep[c][i] \in Procs
           /\ state[sleep[c][i]] = "IO"
           /\ mybio[sleep[c][i]] = c
           /\ \A j \in DOMAIN sleep[c] : i # j => sleep[c][i] # sleep[c][j]
  BY Chains DEF SleepChains

\* bio_get hands a bio that is not referenced to a process.
LEMMA TakeStep ==
    ASSUME IInv,
           NEW p \in Procs, CanRun(p), pc[p] \in {"idle", "waitHead", "waitBio"},
           NEW b \in Bios, REFFED \notin flag[b],
           NEW f \in SUBSET Flags, NEW d \in Nat, NEW base \in Nat, NEW s \in Nat,
           Take(p, b, f, d, base, s),
           bio_cache_count' \in bio_cache_count..MAX_CACHE_COUNT,
           b <= bio_cache_count',
           req' \in [Procs -> Nat \X Nat],
           UNCHANGED <<buffer, res, data, ioVars, panic>>
    PROVE  IInv'
<1> USE ProcsAssumption, CacheAssumption
<1>1. /\ lru' \in Seq(Bios)
      /\ \A i \in DOMAIN lru' : lru'[i] <= bio_cache_count'
  <2>1. /\ lru \in Seq(Bios) /\ DOMAIN lru = 1..Len(lru) /\ Len(lru) \in Nat
        /\ bio_cache_count \in Nat /\ bio_cache_count <= bio_cache_count'
    BY LenProperties DEF IInv, TypeOK
  <2>2. \A i \in DOMAIN lru : lru[i] \in Bios /\ lru[i] <= bio_cache_count'
    BY <2>1 DEF IInv, Allocated, Bios
  <2>3. CASE lru' = <<b>> \o lru
    <3>1. /\ lru' \in Seq(Bios)
          /\ DOMAIN lru' = 1..(Len(lru) + 1)
          /\ lru'[1] = b
          /\ \A i \in 2..(Len(lru) + 1) : lru'[i] = lru[i - 1]
      BY <2>1, <2>3, PushFront
    <3>2. ASSUME NEW i \in DOMAIN lru'
          PROVE  lru'[i] <= bio_cache_count'
      <4>1. CASE i = 1
        BY <3>1, <4>1
      <4>2. CASE i # 1
        <5>1. i \in 2..(Len(lru) + 1) /\ i - 1 \in DOMAIN lru
          BY <2>1, <3>1, <4>2
        <5> QED
          BY <2>2, <3>1, <5>1
      <4> QED
        BY <4>1, <4>2
    <3> QED
      BY <3>1, <3>2
  <2>4. ASSUME NEW i \in DOMAIN lru, lru[i] = b,
               lru' = <<b>> \o SubSeq(lru, 1, i - 1) \o SubSeq(lru, i + 1, Len(lru))
        PROVE  /\ lru' \in Seq(Bios)
               /\ \A k \in DOMAIN lru' : lru'[k] <= bio_cache_count'
    <3>1. i \in 1..Len(lru) /\ lru' = Moved(lru, i)
      BY <2>1, <2>4, Zenon DEF Moved
    <3>2. lru \in Seq(Bios) /\ i \in 1..Len(lru)
      BY <2>1, <3>1
    <3> HIDE DEF Bios
    <3>3. /\ Moved(lru, i) \in Seq(Bios)
          /\ \A k \in DOMAIN Moved(lru, i) : \E j \in DOMAIN lru : Moved(lru, i)[k] = lru[j]
      BY ONLY <3>2, MoveToFront, ZenonT(30)
    <3> QED
      BY <2>2, <3>1, <3>3
  <2> QED
    BY <2>3, <2>4 DEF Take
<1>2. TypeOK'
  <2>1. (s - base) % 256 \in 0..255
    OBVIOUS
  <2>2. flag' \in [Bios -> SUBSET Flags] /\ iter' \in [Bios -> 0..255]
    <3>1. f \cup {REFFED} \in SUBSET Flags
      BY DEF Flags
    <3>2. flag' = [flag EXCEPT ![b] = f \cup {REFFED}] /\ flag \in [Bios -> SUBSET Flags]
      BY DEF IInv, TypeOK, Take
    <3>3. iter' = [iter EXCEPT ![b] = (s - base) % 256] /\ iter \in [Bios -> 0..255]
      BY DEF IInv, TypeOK, Take
    <3> HIDE DEF Flags
    <3> QED
      BY <2>1, <3>1, <3>2, <3>3
  <2>3. dev' \in [Bios -> Nat] /\ sector' \in [Bios -> Nat]
    BY DEF IInv, TypeOK, Take
  <2>4. /\ pc' \in [Procs -> {"idle", "waitHead", "waitBio", "held", "waitIO"}]
        /\ mybio' \in [Procs -> 0..MAX_CACHE_COUNT]
        /\ cpu' \in Procs \cup {NoProc}
    <3>1. b \in 0..MAX_CACHE_COUNT
      BY DEF Bios
    <3> QED
      BY <3>1 DEF IInv, TypeOK, Take
  <2>5. bio_cache_count' \in 0..MAX_CACHE_COUNT
    BY DEF IInv, TypeOK
  <2> QED
    BY <1>1, <2>2, <2>3, <2>4, <2>5 DEF IInv, TypeOK, Take, ioVars
<1>3. \A q \in Procs : q # p => pc'[q] = pc[q] /\ mybio'[q] = mybio[q]
  BY DEF IInv, TypeOK, Take
<1>4. pc'[p] = "held" /\ mybio'[p] = b /\ cpu' = p
  BY DEF IInv, TypeOK, Take
<1>5. \A q \in Procs : pc[q] # "held"
  BY DEF IInv, OneInKernel, CanRun
<1>6. Allocated'
  <2>1. ASSUME NEW q \in Procs
        PROVE  /\ mybio'[q] <= bio_cache_count'
               /\ pc'[q] \in {"held", "waitIO", "waitBio"} => mybio'[q] # 0
               /\ pc'[q] = "waitHead" => mybio'[q] = 0
    <3>1. mybio[q] \in Nat /\ bio_cache_count \in Nat /\ b # 0
      BY DEF IInv, TypeOK, Bios
    <3> QED
      BY <1>3, <1>4, <3>1 DEF IInv, Allocated
  <2> QED
    BY <1>1, <2>1 DEF Allocated
<1>7. OneInKernel'
  BY <1>3, <1>4, <1>5 DEF IInv, OneInKernel
<1>8. AwakeInKernel'
  BY <1>3, <1>4 DEF IInv, AwakeInKernel, CanRun, Take
<1>9. MutualExclusion'
  <2>1. \A q \in Procs : ~Holds(q, b)
    BY DEF IInv, MutualExclusion
  <2>2. \A q \in Procs, c \in Bios : c # b => (Holds(q, c)' <=> Holds(q, c))
    BY <1>3, <1>4 DEF Holds
  <2>3. \A q \in Procs : Holds(q, b)' <=> q = p
    BY <1>3, <1>4, <2>1 DEF Holds
  <2>4. \A c \in Bios : c # b => flag'[c] = flag[c]
    BY DEF IInv, TypeOK, Take
  <2>5. REFFED \in flag'[b]
    BY DEF IInv, TypeOK, Take
  <2> QED
    BY <2>2, <2>3, <2>4, <2>5 DEF IInv, MutualExclusion
<1>10. \A c \in Bios \cup {Head0} : \A i \in DOMAIN sleep[c] : sleep[c][i] # p
  BY DEF IInv, SleepChains, CanRun
<1>11. \A c \in Bios \cup {Head0} : \A i \in DOMAIN sleep[c] : sleep[c][i] \in Procs
  BY Chains DEF IInv
<1>12. SleepChains'
  <2>1. sleep' = sleep /\ state' = state /\ state[p] = "RUNNING"
    BY DEF Take, CanRun
  <2>2. ASSUME NEW q \in Procs, state[q] = "IO"
        PROVE  q # p /\ pc'[q] = pc[q] /\ mybio'[q] = mybio[q]
    BY <1>3, <2>1, <2>2
  <2>3. \A c \in Bios \cup {Head0} : \A i \in DOMAIN sleep[c] :
          mybio'[sleep[c][i]] = mybio[sleep[c][i]]
    BY <1>3, <1>10, <1>11
  <2> QED
    BY <2>1, <2>2, <2>3 DEF IInv, SleepChains
<1>13. OneReadPerBio'
  BY DEF IInv, OneReadPerBio, ioVars
<1>14. ReaderFirst'
  <2>1. ASSUME NEW c \in Bios, sleep[c] # <<>>
        PROVE  Head(sleep[c]) \in Procs /\ Head(sleep[c]) # p
    <3>1. sleep[c] \in Seq(Procs) /\ 1 \in DOMAIN sleep[c] /\ Head(sleep[c]) = sleep[c][1]
      BY <2>1, Chains DEF IInv
    <3> QED
      BY <1>10, <1>11, <3>1
  <2>2. \A c \in Bios : sleep[c] # <<>> /\ IsReader(Head(sleep[c]), c)
                            => IsReader(Head(sleep[c]), c)'
    BY <1>3, <2>1 DEF IsReader, Take
  <2> QED
    BY <2>1, <2>2 DEF IInv, ReaderFirst, OneReadPerBio, ioVars, Take
<1> QED
  BY <1>2, <1>6, <1>7, <1>8, <1>9, <1>12, <1>13, <1>14 DEF IInv

\* A process goes to sleep at the end of a chain.
LEMMA SleepStep ==
    ASSUME IInv,
           NEW p \in Procs, CanRun(p), pc[p] \in {"idle", "waitHead", "waitBio"},
           NEW b \in Bios \cup {Head0}, b <= bio_cache_count,
           NEW where \in {"waitHead", "waitBio"}, where = "waitHead" <=> b = 0,
           sleep_wait_bio(p, b, where),
           req' \in [Procs -> Nat \X Nat],
           UNCHANGED <<cacheVars, res, data, ioVars, panic>>
    PROVE  IInv'
<1> USE ProcsAssumption, CacheAssumption
<1> DEFINE s == sleep[b]
<1>1. /\ s \in Seq(Procs) /\ Len(s) \in Nat /\ DOMAIN s = 1..Len(s)
      /\ \A i \in DOMAIN s : s[i] \in Procs
  BY Chains DEF IInv
<1>2. /\ sleep'[b] \in Seq(Procs) /\ sleep'[b] # <<>>
      /\ DOMAIN sleep'[b] = 1..(Len(s) + 1)
      /\ \A i \in 1..Len(s) : sleep'[b][i] = s[i]
      /\ sleep'[b][Len(s) + 1] = p
  <2>1. sleep'[b] = Append(s, p)
    BY DEF IInv, TypeOK, sleep_wait_bio
  <2> HIDE DEF s
  <2> QED
    BY <1>1, <2>1, AppendProperties, LenProperties
<1>3. \A c \in Bios \cup {Head0} : c # b => sleep'[c] = sleep[c]
  BY DEF IInv, TypeOK, sleep_wait_bio
<1>4. /\ \A q \in Procs : q # p => pc'[q] = pc[q] /\ mybio'[q] = mybio[q] /\ state'[q] = state[q]
      /\ pc'[p] = where /\ mybio'[p] = b /\ state'[p] = "IO" /\ cpu' = NoProc
  BY DEF IInv, TypeOK, sleep_wait_bio
<1>5. b \in 0..MAX_CACHE_COUNT
  BY DEF Bios, Head0
<1>6. TypeOK'
  <2>1. sleep' \in [Bios \cup {Head0} -> Seq(Procs)]
    BY <1>2, <1>3 DEF IInv, TypeOK, sleep_wait_bio
  <2>2. mybio' \in [Procs -> 0..MAX_CACHE_COUNT]
    BY <1>5 DEF IInv, TypeOK, sleep_wait_bio
  <2>3. /\ pc' \in [Procs -> {"idle", "waitHead", "waitBio", "held", "waitIO"}]
        /\ state' \in [Procs -> {"RUNNING", "IO"}]
        /\ cpu' \in Procs \cup {NoProc}
    BY DEF IInv, TypeOK, sleep_wait_bio
  <2> QED
    BY <2>1, <2>2, <2>3 DEF IInv, TypeOK, cacheVars, ioVars
<1>7. \A q \in Procs : pc[q] # "held"
  BY DEF IInv, OneInKernel, CanRun
<1>8. Allocated'
  BY <1>4 DEF IInv, Allocated, cacheVars
<1>9. OneInKernel' /\ AwakeInKernel'
  BY <1>4, <1>7 DEF IInv, OneInKernel, AwakeInKernel
<1>10. MutualExclusion'
  <2>1. \A q \in Procs, c \in Bios : Holds(q, c)' <=> Holds(q, c)
    BY <1>4 DEF Holds
  <2> QED
    BY <2>1 DEF IInv, MutualExclusion, cacheVars
<1>11. \A c \in Bios \cup {Head0} : \A i \in DOMAIN sleep[c] :
          sleep[c][i] \in Procs /\ sleep[c][i] # p
  BY Chains DEF IInv, SleepChains, CanRun
<1>12. SleepChains'
  <2>1. ASSUME NEW q \in Procs, state'[q] = "IO"
        PROVE  /\ pc'[q] \in {"waitHead", "waitBio", "waitIO"}
               /\ \E i \in DOMAIN sleep'[mybio'[q]] : sleep'[mybio'[q]][i] = q
    <3>1. CASE q = p
      <4>1. Len(s) + 1 \in DOMAIN sleep'[b]
        BY <1>1, <1>2
      <4> QED
        BY <1>2, <1>4, <3>1, <4>1
    <3>2. CASE q # p
      <4>1. state[q] = "IO" /\ mybio'[q] = mybio[q] /\ pc'[q] = pc[q]
        BY <1>4, <2>1, <3>2
      <4>2. mybio[q] \in Bios \cup {Head0}
        BY MybioType DEF IInv
      <4>3. pc[q] \in {"waitHead", "waitBio", "waitIO"}
        BY <4>1 DEF IInv, SleepChains
      <4>4. PICK i \in DOMAIN sleep[mybio[q]] : sleep[mybio[q]][i] = q
        BY <4>1 DEF IInv, SleepChains
      <4>5. i \in DOMAIN sleep'[mybio[q]] /\ sleep'[mybio[q]][i] = q
        <5>1. CASE mybio[q] = b
          <6>1. i \in DOMAIN s /\ s[i] = q
            BY <4>4, <5>1
          <6>2. i \in DOMAIN sleep'[b] /\ sleep'[b][i] = q
            <7>1. i \in 1..Len(s) /\ i \in 1..(Len(s) + 1)
              BY <1>1, <6>1
            <7> HIDE DEF s
            <7> QED
              BY <1>2, <6>1, <7>1
          <6> QED
            BY <5>1, <6>2
        <5>2. CASE mybio[q] # b
          BY <1>3, <4>2, <4>4, <5>2
        <5> QED
          BY <5>1, <5>2
      <4> QED
        BY <4>1, <4>3, <4>5
    <3> QED
      BY <3>1, <3>2
  <2>2. ASSUME NEW c \in Bios \cup {Head0}, NEW i \in DOMAIN sleep'[c]
        PROVE  /\ state'[sleep'[c][i]] = "IO"
               /\ mybio'[sleep'[c][i]] = c
               /\ \A j \in DOMAIN sleep'[c] : i # j => sleep'[c][i] # sleep'[c][j]
    <3>1. CASE c # b
      BY <1>3, <1>4, <1>11, <3>1 DEF IInv, SleepChains
    <3>2. CASE c = b
      <4>1. ASSUME NEW j \in 1..Len(s)
            PROVE  /\ sleep'[b][j] = s[j] /\ s[j] # p /\ s[j] \in Procs
                   /\ state[s[j]] = "IO" /\ mybio[s[j]] = b
                   /\ \A k \in 1..Len(s) : j # k => s[j] # s[k]
        <5>1. j \in DOMAIN sleep[b] /\ DOMAIN sleep[b] = 1..Len(s)
          BY <1>1
        <5>2. /\ state[sleep[b][j]] = "IO" /\ mybio[sleep[b][j]] = b
              /\ \A k \in DOMAIN sleep[b] : j # k => sleep[b][j] # sleep[b][k]
          BY <5>1, OnChain DEF IInv
        <5> QED
          BY <1>2, <1>11, <5>1, <5>2
      <4>3. \A j \in DOMAIN sleep'[b] : j \in 1..Len(s) \/ j = Len(s) + 1
        BY <1>1, <1>2
      <4> HIDE DEF s
      <4>4. CASE i = Len(s) + 1
        BY <1>2, <1>4, <3>2, <4>1, <4>3, <4>4
      <4>5. CASE i \in 1..Len(s)
        <5>1. /\ sleep'[b][i] = s[i] /\ s[i] # p /\ s[i] \in Procs
              /\ state[s[i]] = "IO" /\ mybio[s[i]] = b
          BY <4>1, <4>5
        <5>2. state'[s[i]] = "IO" /\ mybio'[s[i]] = b
          BY <1>4, <5>1
        <5>3. ASSUME NEW j \in DOMAIN sleep'[b], i # j
              PROVE  sleep'[b][i] # sleep'[b][j]
          <6>1. CASE j = Len(s) + 1
            BY <1>2, <5>1, <6>1
          <6>2. CASE j \in 1..Len(s)
            <7>1. sleep'[b][j] = s[j]
              BY <4>1, <6>2
            <7>2. s[i] # s[j]
              BY <4>1, <4>5, <5>3, <6>2
            <7> QED
              BY <5>1, <7>1, <7>2
          <6> QED
            BY <4>3, <6>1, <6>2
        <5> QED
          BY <3>2, <5>1, <5>2, <5>3
      <4> QED
        BY <3>2, <4>3, <4>4, <4>5
    <3> QED
      BY <3>1, <3>2
  <2> QED
    BY <2>1, <2>2 DEF SleepChains
<1>13. OneReadPerBio'
  BY DEF IInv, OneReadPerBio, ioVars
<1>14. ASSUME NEW c \in Bios, sleep[c] # <<>>
       PROVE  /\ sleep'[c] # <<>> /\ Head(sleep'[c]) = Head(sleep[c])
              /\ Head(sleep[c]) \in Procs /\ Head(sleep[c]) # p
  <2>1. /\ sleep[c] \in Seq(Procs) /\ 1 \in DOMAIN sleep[c] /\ Head(sleep[c]) = sleep[c][1]
        /\ DOMAIN sleep[c] = 1..Len(sleep[c])
    BY <1>14, Chains DEF IInv
  <2>2. CASE c = b
    <3>1. sleep'[b][1] = s[1]
      BY <1>2, <2>1, <2>2
    <3>2. Head(sleep'[b]) = sleep'[b][1]
      BY <1>2
    <3> QED
      BY <1>2, <1>11, <2>1, <2>2, <3>1, <3>2
  <2>3. CASE c # b
    BY <1>3, <1>11, <1>14, <2>1, <2>3
  <2> QED
    BY <2>2, <2>3
<1>15. ReaderFirst'
  <2>1. ASSUME NEW c \in Bios, sleep[c] # <<>>, IsReader(Head(sleep[c]), c)
        PROVE  sleep'[c] # <<>> /\ pc'[Head(sleep'[c])] = "waitIO" /\ mybio'[Head(sleep'[c])] = c
    BY <1>4, <1>14, <2>1 DEF IsReader
  <2>2. ioq' = ioq /\ done' = done
    BY DEF ioVars
  <2>3. ASSUME NEW i \in DOMAIN ioq, ioq[i].kind = "read"
        PROVE  LET c == ioq[i].data IN
               sleep'[c] # <<>> /\ pc'[Head(sleep'[c])] = "waitIO" /\ mybio'[Head(sleep'[c])] = c
    BY <2>1, <2>3 DEF IInv, ReaderFirst, OneReadPerBio
  <2>4. ASSUME done.kind = "read"
        PROVE  LET c == done.data IN
               /\ sleep'[c] # <<>> /\ pc'[Head(sleep'[c])] = "waitIO" /\ mybio'[Head(sleep'[c])] = c
               /\ done.proc = Head(sleep'[c])
    BY <1>14, <2>1, <2>4 DEF IInv, ReaderFirst, OneReadPerBio
  <2> QED
    BY <2>2, <2>3, <2>4 DEF ReaderFirst, IsReader
<1> QED
  BY <1>6, <1>8, <1>9, <1>10, <1>12, <1>13, <1>15 DEF IInv

\* A step that wakes at most some front sleepers: who still sleeps is still on
\* its chain, and the chains hold only processes that still sleep.
Woken ==
    /\ sleep' \in [Bios \cup {Head0} -> Seq(Procs)]
    /\ state' \in [Procs -> {"RUNNING", "IO"}]
    /\ \A q \in Procs : state'[q] = "IO" =>
        /\ state[q] = "IO"
        /\ \E i \in DOMAIN sleep'[mybio[q]] : sleep'[mybio[q]][i] = q
    /\ \A d \in Bios \cup {Head0} : \A i \in DOMAIN sleep'[d] :
        /\ sleep'[d][i] \in Procs
        /\ state[sleep'[d][i]] = "IO" /\ state'[sleep'[d][i]] = "IO"
        /\ mybio[sleep'[d][i]] = d
        /\ \A j \in DOMAIN sleep'[d] : i # j => sleep'[d][i] # sleep'[d][j]

\* A step that leaves the chains and the process states alone wakes nobody.
LEMMA NobodyWoken ==
    ASSUME TypeOK, SleepChains, UNCHANGED <<sleep, state>>
    PROVE  Woken
<1>1. sleep' = sleep /\ state' = state
  OBVIOUS
<1>2. /\ sleep \in [Bios \cup {Head0} -> Seq(Procs)]
      /\ state \in [Procs -> {"RUNNING", "IO"}]
  BY DEF TypeOK
<1>3. \A q \in Procs : state[q] = "IO" =>
        \E i \in DOMAIN sleep[mybio[q]] : sleep[mybio[q]][i] = q
  BY DEF SleepChains
<1> QED
  BY <1>1, <1>2, <1>3, OnChain DEF Woken

\* Waking the first process of one chain takes exactly it off the chains.
LEMMA PopFront ==
    ASSUME TypeOK, SleepChains, NEW c \in Bios \cup {Head0}, sleep[c] # <<>>,
           sleep' = [sleep EXCEPT ![c] = Tail(@)],
           state' = [state EXCEPT ![Head(sleep[c])] = "RUNNING"]
    PROVE  Woken
<1> DEFINE s == sleep[c]
<1>1. /\ s \in Seq(Procs) /\ Len(s) \in Nat /\ DOMAIN s = 1..Len(s)
      /\ 1 \in DOMAIN s /\ Head(s) = s[1] /\ s[1] \in Procs
  BY Chains
<1>2. /\ Tail(s) \in Seq(Procs)
      /\ DOMAIN Tail(s) = 1..(Len(s) - 1)
      /\ \A i \in 1..(Len(s) - 1) : Tail(s)[i] = s[i + 1]
  <2> HIDE DEF s
  <2>1. s # <<>>
    BY DEF s
  <2> QED
    BY <1>1, <2>1, HeadTailProperties, LenProperties
<1>3. /\ sleep'[c] = Tail(s)
      /\ \A d \in Bios \cup {Head0} : d # c => sleep'[d] = sleep[d]
      /\ sleep' \in [Bios \cup {Head0} -> Seq(Procs)]
  BY <1>2 DEF TypeOK
<1>4. /\ \A q \in Procs : q # s[1] => state'[q] = state[q]
      /\ state'[s[1]] = "RUNNING"
      /\ state' \in [Procs -> {"RUNNING", "IO"}]
  BY <1>1 DEF TypeOK
<1>5. ASSUME NEW q \in Procs, state'[q] = "IO"
      PROVE  /\ state[q] = "IO"
             /\ \E i \in DOMAIN sleep'[mybio[q]] : sleep'[mybio[q]][i] = q
  <2>1. q # s[1] /\ state[q] = "IO"
    BY <1>4, <1>5
  <2>2. PICK i \in DOMAIN sleep[mybio[q]] : sleep[mybio[q]][i] = q
    BY <2>1 DEF SleepChains
  <2>3. CASE mybio[q] = c
    <3>1. i \in 1..Len(s) /\ s[i] = q
      <4>1. i \in DOMAIN s /\ s[i] = q
        BY <2>2, <2>3
      <4> QED
        BY <1>1, <4>1
    <3> HIDE DEF s
    <3>2. i - 1 \in 1..(Len(s) - 1) /\ (i - 1) + 1 = i
      BY <1>1, <2>1, <3>1
    <3>3. i - 1 \in DOMAIN Tail(s) /\ Tail(s)[i - 1] = q
      BY <1>2, <3>1, <3>2
    <3> QED
      BY <1>3, <2>1, <2>3, <3>3
  <2>4. CASE mybio[q] # c
    <3>1. sleep'[mybio[q]] = sleep[mybio[q]]
      BY <1>3, <2>4, MybioType
    <3> QED
      BY <2>1, <2>2, <3>1
  <2> QED
    BY <2>3, <2>4
<1>6. ASSUME NEW d \in Bios \cup {Head0}, NEW i \in DOMAIN sleep'[d]
      PROVE  /\ sleep'[d][i] \in Procs
             /\ state[sleep'[d][i]] = "IO" /\ state'[sleep'[d][i]] = "IO"
             /\ mybio[sleep'[d][i]] = d
             /\ \A j \in DOMAIN sleep'[d] : i # j => sleep'[d][i] # sleep'[d][j]
  <2>1. CASE d # c
    <3>1. sleep'[d] = sleep[d] /\ i \in DOMAIN sleep[d]
      BY <1>3, <2>1
    <3>2. /\ sleep[d][i] \in Procs /\ state[sleep[d][i]] = "IO" /\ mybio[sleep[d][i]] = d
          /\ \A j \in DOMAIN sleep[d] : i # j => sleep[d][i] # sleep[d][j]
      BY <3>1, OnChain
    <3>3. mybio[s[1]] = c
      BY <1>1, OnChain
    <3> QED
      BY <1>4, <2>1, <3>1, <3>2, <3>3
  <2>2. CASE d = c
    <3>1. DOMAIN sleep'[c] = 1..(Len(s) - 1) /\ \A k \in 1..(Len(s) - 1) : sleep'[c][k] = s[k + 1]
      BY <1>2, <1>3
    <3>2. i \in 1..(Len(s) - 1)
      BY <2>2, <3>1
    <3>3. ASSUME NEW k \in 1..Len(s)
          PROVE  /\ s[k] \in Procs /\ state[s[k]] = "IO" /\ mybio[s[k]] = c
                 /\ \A j \in 1..Len(s) : k # j => s[k] # s[j]
      <4>1. k \in DOMAIN sleep[c]
        BY <1>1
      <4>2. /\ sleep[c][k] \in Procs /\ state[sleep[c][k]] = "IO" /\ mybio[sleep[c][k]] = c
            /\ \A j \in DOMAIN sleep[c] : k # j => sleep[c][k] # sleep[c][j]
        BY <4>1, OnChain
      <4> QED
        BY <1>1, <4>2
    <3> HIDE DEF s
    <3>4. /\ i + 1 \in 1..Len(s) /\ i + 1 # 1 /\ 1 \in 1..Len(s)
          /\ \A j \in 1..(Len(s) - 1) : j + 1 \in 1..Len(s)
      BY <1>1, <3>2
    <3>5. s[i + 1] # s[1] /\ s[i + 1] \in Procs /\ state[s[i + 1]] = "IO" /\ mybio[s[i + 1]] = c
      BY <3>3, <3>4
    <3>6. ASSUME NEW j \in 1..(Len(s) - 1), i # j
          PROVE  s[i + 1] # s[j + 1]
      <4>1. i + 1 # j + 1 /\ j + 1 \in 1..Len(s)
        BY <3>2, <3>4, <3>6
      <4> QED
        BY <3>3, <3>4, <4>1
    <3>7. sleep'[c][i] = s[i + 1]
      BY <3>1, <3>2
    <3>8. state'[s[i + 1]] = "IO"
      BY <1>4, <3>5
    <3>9. ASSUME NEW j \in DOMAIN sleep'[c], i # j
          PROVE  sleep'[c][i] # sleep'[c][j]
      <4>1. j \in 1..(Len(s) - 1) /\ sleep'[c][j] = s[j + 1]
        BY <3>1
      <4> QED
        BY <3>6, <3>7, <3>9, <4>1
    <3> QED
      BY <2>2, <3>5, <3>7, <3>8, <3>9
  <2> QED
    BY <2>1, <2>2
<1> QED
  BY <1>3, <1>4, <1>5, <1>6 DEF Woken

\* wake_up_sleep_process touches the chain of its bio and of the list head.
LEMMA WakeStep ==
    ASSUME TypeOK, SleepChains, NEW b \in Bios, wake_up_sleep_process(b)
    PROVE  /\ Woken
           /\ \A d \in Bios : d # b => sleep'[d] = sleep[d]
<1> USE CacheAssumption
<1> DEFINE c == IF sleep[b] # <<>> THEN b ELSE Head0
<1>1. c \in Bios \cup {Head0} /\ \A d \in Bios : d # b => d # c
  BY DEF Bios, Head0
<1> HIDE DEF c
<1>2. CASE sleep[c] # <<>>
  <2>1. /\ sleep' = [sleep EXCEPT ![c] = Tail(@)]
        /\ state' = [state EXCEPT ![Head(sleep[c])] = "RUNNING"]
    BY <1>2 DEF wake_up_sleep_process, c
  <2>2. Woken
    BY <1>1, <1>2, <2>1, PopFront
  <2> QED
    BY <1>1, <2>1, <2>2 DEF TypeOK
<1>3. CASE sleep[c] = <<>>
  <2>1. UNCHANGED <<sleep, state>>
    BY <1>3 DEF wake_up_sleep_process, c
  <2> QED
    BY <2>1, NobodyWoken
<1> QED
  BY <1>2, <1>3

\* Waking processes off their chains leaves the other sleepers where they were.
LEMMA WokenChains ==
    ASSUME TypeOK, SleepChains, Woken,
           \A q \in Procs : state[q] = "IO" => mybio'[q] = mybio[q] /\ pc'[q] = pc[q]
    PROVE  SleepChains'
<1>1. ASSUME NEW q \in Procs, state'[q] = "IO"
      PROVE  /\ pc'[q] \in {"waitHead", "waitBio", "waitIO"}
             /\ \E i \in DOMAIN sleep'[mybio'[q]] : sleep'[mybio'[q]][i] = q
  <2>1. state[q] = "IO" /\ \E i \in DOMAIN sleep'[mybio[q]] : sleep'[mybio[q]][i] = q
    BY <1>1 DEF Woken
  <2>2. pc[q] \in {"waitHead", "waitBio", "waitIO"} /\ pc'[q] = pc[q] /\ mybio'[q] = mybio[q]
    BY <2>1 DEF SleepChains
  <2> QED
    BY <2>1, <2>2
<1>2. ASSUME NEW c \in Bios \cup {Head0}, NEW i \in DOMAIN sleep'[c]
      PROVE  /\ state'[sleep'[c][i]] = "IO"
             /\ mybio'[sleep'[c][i]] = c
             /\ \A j \in DOMAIN sleep'[c] : i # j => sleep'[c][i] # sleep'[c][j]
  BY DEF Woken
<1> QED
  BY <1>1, <1>2 DEF SleepChains

-----------------------------------------------------------------------------
(* The actions of a process.                                               *)

\* The drive and sector a process asks for are numbers.
LEMMA RequestType ==
    ASSUME NEW r \in Devs \X Sectors
    PROVE  r \in Nat \X Nat
<1>1. r[1] \in Devs /\ r[2] \in Sectors
  OBVIOUS
<1>2. r[1] \in Nat
  <2>1. r[1] \in 0..255
    BY <1>1, DevsAssumption, Zenon
  <2> QED
    BY <2>1
<1>3. r[2] \in Nat
  BY <1>1, SectorsAssumption
<1>4. r = <<r[1], r[2]>>
  OBVIOUS
<1> QED
  BY <1>2, <1>3, <1>4

\* alloc_bio, called or resumed.
LEMMA AllocStep ==
    ASSUME IInv,
           NEW p \in Procs, CanRun(p), pc[p] \in {"idle", "waitHead"},
           NEW r \in Nat \X Nat, alloc_bio(p, r),
           req' \in [Procs -> Nat \X Nat],
           UNCHANGED <<buffer, res, data, ioVars, panic>>
    PROVE  IInv'
<1> USE CacheAssumption
<1>1. bio_cache_count \in 0..MAX_CACHE_COUNT /\ r[1] \in Nat /\ r[2] \in Nat
  BY DEF IInv, TypeOK
<1>2. BASE_SECTOR(r[2]) \in Nat /\ {} \in SUBSET Flags
  BY <1>1, BaseSectorType
<1>3. ASSUME bio_cache_count # MAX_CACHE_COUNT,
             bio_cache_count' = bio_cache_count + 1,
             Take(p, bio_cache_count + 1, {}, r[1], BASE_SECTOR(r[2]), r[2])
      PROVE  IInv'
  <2>1. /\ bio_cache_count + 1 \in Bios
        /\ bio_cache_count' \in bio_cache_count..MAX_CACHE_COUNT
        /\ bio_cache_count + 1 <= bio_cache_count'
    BY <1>1, <1>3 DEF Bios
  <2>2. REFFED \notin flag[bio_cache_count + 1]
    <3>1. ASSUME NEW q \in Procs PROVE ~Holds(q, bio_cache_count + 1)
      BY <1>1, MybioType DEF IInv, Allocated, Holds
    <3> QED
      BY <2>1, <3>1 DEF IInv, MutualExclusion
  <2> QED
    BY <1>1, <1>2, <1>3, <2>1, <2>2, TakeStep
<1>4. ASSUME NEW b \in find_unused_bio,
             Take(p, b, {}, r[1], BASE_SECTOR(r[2]), r[2]),
             UNCHANGED bio_cache_count
      PROVE  IInv'
  <2>1. b \in Bios /\ b <= bio_cache_count' /\ REFFED \notin flag[b]
    BY <1>4, Searches DEF Busy
  <2>2. bio_cache_count' \in bio_cache_count..MAX_CACHE_COUNT
    BY <1>1, <1>4
  <2> QED
    BY <1>1, <1>2, <1>4, <2>1, <2>2, TakeStep
<1>5. ASSUME sleep_wait_bio(p, Head0, "waitHead"),
             UNCHANGED <<lru, bio_cache_count, flag, dev, sector, iter>>
      PROVE  IInv'
  <2>1. Head0 \in Bios \cup {Head0} /\ Head0 <= bio_cache_count /\ Head0 = 0
    BY <1>1 DEF Head0
  <2>2. UNCHANGED <<cacheVars, res, data, ioVars, panic>>
    BY <1>5 DEF cacheVars
  <2> QED
    BY <1>5, <2>1, <2>2, SleepStep
<1> QED
  BY <1>3, <1>4, <1>5 DEF alloc_bio

\* The waiting loop of bio_get, entered or resumed.
LEMMA GetLoopStep ==
    ASSUME IInv,
           NEW p \in Procs, CanRun(p), pc[p] \in {"idle", "waitBio"},
           NEW b \in Bios, b <= bio_cache_count,
           NEW r \in Nat \X Nat, get_loop(p, b, r),
           req' \in [Procs -> Nat \X Nat],
           UNCHANGED <<buffer, res, data, ioVars, panic>>
    PROVE  IInv'
<1> USE CacheAssumption
<1>1. /\ bio_cache_count \in 0..MAX_CACHE_COUNT /\ r[2] \in Nat
      /\ flag[b] \in SUBSET Flags /\ dev[b] \in Nat /\ sector[b] \in Nat
  BY DEF IInv, TypeOK
<1>2. ASSUME sleep_wait_bio(p, b, "waitBio"),
             UNCHANGED <<lru, bio_cache_count, flag, dev, sector, iter>>
      PROVE  IInv'
  <2>1. b # 0 /\ UNCHANGED <<cacheVars, res, data, ioVars, panic>>
    BY <1>2 DEF cacheVars, Bios
  <2> QED
    BY <1>2, <2>1, SleepStep
<1>3. ASSUME ~Busy(b), Take(p, b, flag[b], dev[b], sector[b], r[2]),
             UNCHANGED bio_cache_count
      PROVE  IInv'
  <2>1. /\ bio_cache_count' \in bio_cache_count..MAX_CACHE_COUNT
        /\ b <= bio_cache_count'
        /\ REFFED \notin flag[b]
    BY <1>1, <1>3 DEF Busy
  <2> QED
    BY <1>1, <1>3, <2>1, TakeStep
<1> QED
  BY <1>2, <1>3 DEF get_loop

\* bio_get and its two resumptions.
LEMMA GetSteps ==
    ASSUME IInv, NEW p \in Procs,
           bio_get(p) \/ alloc_bio_resume(p) \/ bio_get_resume(p)
    PROVE  IInv'
<1>1. CASE bio_get(p)
  <2>1. PICK r \in Devs \X Sectors :
          /\ req' = [req EXCEPT ![p] = r]
          /\ \/ \E b \in find_bio(r[1], BASE_SECTOR(r[2])) : get_loop(p, b, r)
             \/ alloc_bio(p, r)
    BY <1>1 DEF bio_get
  <2>2. r \in Nat \X Nat /\ req' \in [Procs -> Nat \X Nat]
    BY <2>1, RequestType DEF IInv, TypeOK
  <2>3. /\ CanRun(p) /\ pc[p] = "idle"
        /\ UNCHANGED <<buffer, res, data, ioVars, panic>>
    BY <1>1 DEF bio_get
  <2>4. ASSUME NEW b \in find_bio(r[1], BASE_SECTOR(r[2])), get_loop(p, b, r)
        PROVE  IInv'
    BY <2>2, <2>3, <2>4, Searches, GetLoopStep
  <2>5. CASE alloc_bio(p, r)
    BY <2>2, <2>3, <2>5, AllocStep
  <2> QED
    BY <2>1, <2>4, <2>5
<1>2. CASE alloc_bio_resume(p)
  <2>1. req[p] \in Nat \X Nat /\ req' \in [Procs -> Nat \X Nat]
    BY <1>2 DEF IInv, TypeOK, alloc_bio_resume
  <2> QED
    BY <1>2, <2>1, AllocStep DEF alloc_bio_resume
<1>3. CASE bio_get_resume(p)
  <2>1. req[p] \in Nat \X Nat /\ req' \in [Procs -> Nat \X Nat]
    BY <1>3 DEF IInv, TypeOK, bio_get_resume
  <2>2. mybio[p] \in Bios /\ mybio[p] <= bio_cache_count
    BY <1>3, MybioType DEF IInv, Allocated, bio_get_resume, Head0
  <2> QED
    BY <1>3, <2>1, <2>2, GetLoopStep DEF bio_get_resume
<1> QED
  BY <1>1, <1>2, <1>3

\* bio_read that finds the bio up to date, bio_data and bio_advance_iter change
\* no flag, no chain and no place of a process.
LEMMA LocalSteps ==
    ASSUME IInv, NEW p \in Procs,
           bio_read_cached(p) \/ bio_data(p) \/ bio_advance_iter(p)
    PROVE  IInv'
<1>1. UNCHANGED <<lru, bio_cache_count, flag, dev, sector, buffer, sleep, state,
                  pc, mybio, cpu, ioq, done, errs>>
  BY DEF bio_read_cached, bio_data, bio_advance_iter, cacheVars, ioVars
<1>2. TypeOK'
  <2>1. CASE bio_read_cached(p)
    BY <1>1, <2>1, ZenonT(30) DEF IInv, TypeOK, bio_read_cached, cacheVars
  <2>2. CASE bio_data(p)
    <3>1. mybio[p] \in Bios
      BY <2>2, MybioType DEF IInv, Allocated, bio_data, InKernel, Head0
    <3>2. buffer[mybio[p]] \in Blocks \cup {Garbage} /\ iter[mybio[p]] \in Nat
      <4>1. /\ buffer \in [Bios -> Blocks \cup {Garbage}]
            /\ iter \in [Bios -> 0..255]
        BY DEF IInv, TypeOK
      <4>2. iter[mybio[p]] \in 0..255
        BY <3>1, <4>1
      <4> QED
        BY <3>1, <4>1, <4>2
    <3>3. ASSUME buffer[mybio[p]] \in Blocks
          PROVE  <<buffer[mybio[p]][1], buffer[mybio[p]][2] + iter[mybio[p]]>> \in Blocks
      BY <3>2, <3>3 DEF Blocks
    <3>4. (IF buffer[mybio[p]] = Garbage THEN Garbage
           ELSE <<buffer[mybio[p]][1], buffer[mybio[p]][2] + iter[mybio[p]]>>)
             \in Blocks \cup {NoBlock, Garbage}
      BY <3>2, <3>3
    <3>5. data' \in [Procs -> Blocks \cup {NoBlock, Garbage}] /\ panic' \in BOOLEAN
      BY <2>2, <3>4 DEF IInv, TypeOK, bio_data
    <3> QED
      BY <1>1, <2>2, <3>5, ZenonT(30) DEF IInv, TypeOK, bio_data, cacheVars
  <2>3. CASE bio_advance_iter(p)
    <3>1. mybio[p] \in Bios
      BY <2>3, MybioType DEF IInv, Allocated, bio_advance_iter, InKernel, Head0
    <3>2. iter[mybio[p]] \in 0..255 /\ req[p] \in Nat \X Nat
      BY <3>1 DEF IInv, TypeOK
    <3>3. (iter[mybio[p]] + 1) % 256 \in 0..255 /\ <<req[p][1], req[p][2] + 1>> \in Nat \X Nat
      BY <3>2
    <3>4. /\ iter' \in [Bios -> 0..255] /\ req' \in [Procs -> Nat \X Nat]
          /\ data' \in [Procs -> Blocks \cup {NoBlock, Garbage}]
      BY <2>3, <3>1, <3>3 DEF IInv, TypeOK, bio_advance_iter
    <3>5. res' = res /\ panic' = panic
      BY <2>3 DEF bio_advance_iter
    <3> QED
      BY <1>1, <3>4, <3>5 DEF IInv, TypeOK
  <2> QED
    BY <2>1, <2>2, <2>3
<1>3. Allocated' /\ OneInKernel' /\ AwakeInKernel' /\ OneReadPerBio'
  BY <1>1 DEF IInv, Allocated, OneInKernel, AwakeInKernel, OneReadPerBio
<1>4. MutualExclusion' /\ SleepChains' /\ ReaderFirst'
  BY <1>1 DEF IInv, MutualExclusion, SleepChains, ReaderFirst, Holds, IsReader
<1> QED
  BY <1>2, <1>3, <1>4 DEF IInv

\* A process returns from the sleep in bio_read: it was not on a chain, so it
\* was not the reader of any pending read.
LEMMA ReadResumeStep ==
    ASSUME IInv, NEW p \in Procs, bio_read_resume(p)
    PROVE  IInv'
<1> USE ProcsAssumption
<1>1. /\ UNCHANGED <<cacheVars, sleep, state, mybio, req, data, ioVars, panic>>
      /\ pc[p] = "waitIO" /\ state[p] = "RUNNING" /\ cpu = NoProc /\ cpu' = p
      /\ pc'[p] = "held" /\ \A q \in Procs : q # p => pc'[q] = pc[q]
  BY DEF IInv, TypeOK, bio_read_resume, CanRun
<1>2. TypeOK'
  <2>1. /\ pc' \in [Procs -> {"idle", "waitHead", "waitBio", "held", "waitIO"}]
        /\ res' \in [Procs -> {"none", "ok", "fail", "written"}]
    BY DEF IInv, TypeOK, bio_read_resume
  <2> QED
    BY <1>1, <2>1 DEF IInv, TypeOK, cacheVars, ioVars
<1>3. Allocated' /\ OneReadPerBio'
  BY <1>1 DEF IInv, Allocated, OneReadPerBio, cacheVars, ioVars
<1>4. OneInKernel' /\ AwakeInKernel'
  BY <1>1 DEF IInv, OneInKernel, AwakeInKernel
<1>5. MutualExclusion'
  <2>1. \A q \in Procs, c \in Bios : Holds(q, c)' <=> Holds(q, c)
    BY <1>1 DEF Holds
  <2> QED
    BY <1>1, <2>1 DEF IInv, MutualExclusion, cacheVars
<1>6. SleepChains'
  <2>1. Woken
    BY <1>1, NobodyWoken DEF IInv
  <2> QED
    BY <1>1, <2>1, WokenChains DEF IInv
<1>7. ReaderFirst'
  <2>1. ASSUME NEW c \in Bios, sleep[c] # <<>>
        PROVE  Head(sleep[c]) \in Procs /\ Head(sleep[c]) # p
    <3>1. 1 \in DOMAIN sleep[c] /\ Head(sleep[c]) = sleep[c][1]
      BY <2>1, Chains DEF IInv
    <3> QED
      BY <1>1, <3>1, OnChain DEF IInv
  <2>2. \A c \in Bios : sleep[c] # <<>> /\ IsReader(Head(sleep[c]), c)
                            => IsReader(Head(sleep[c]), c)'
    BY <1>1, <2>1 DEF IsReader
  <2> QED
    BY <1>1, <2>1, <2>2 DEF IInv, ReaderFirst, OneReadPerBio, ioVars
<1> QED
  BY <1>2, <1>3, <1>4, <1>5, <1>6, <1>7 DEF IInv

\* The queue of requests is a sequence of records.
LEMMA Queue ==
    ASSUME TypeOK
    PROVE  /\ ioq \in Seq(Requests) /\ Len(ioq) \in Nat /\ DOMAIN ioq = 1..Len(ioq)
           /\ \A i \in DOMAIN ioq : ioq[i] \in Requests
<1>1. ioq \in Seq(Requests)
  BY DEF TypeOK
<1> QED
  BY <1>1, LenProperties, ElementOfSeq

\* While a read into b is pending, its reader, asleep, holds b.
LEMMA PendingHasReader ==
    ASSUME IInv, NEW b \in Bios, ReadPending(b)
    PROVE  \E q \in Procs : IsReader(q, b) /\ state[q] = "IO" /\ Holds(q, b)
<1>1. sleep[b] # <<>> /\ IsReader(Head(sleep[b]), b)
  BY DEF IInv, ReaderFirst, ReadPending
<1>2. 1 \in DOMAIN sleep[b] /\ Head(sleep[b]) = sleep[b][1]
  BY <1>1, Chains DEF IInv
<1>3. Head(sleep[b]) \in Procs /\ state[Head(sleep[b])] = "IO"
  BY <1>2, OnChain DEF IInv
<1> QED
  BY <1>1, <1>3 DEF IsReader, Holds

\* The holder of a bio that is awake is not its reader: no read is pending.
LEMMA HeldNotPending ==
    ASSUME IInv, NEW p \in Procs, InKernel(p)
    PROVE  mybio[p] \in Bios /\ mybio[p] <= bio_cache_count /\ ~ReadPending(mybio[p])
<1>1. mybio[p] \in Bios /\ mybio[p] <= bio_cache_count
  BY MybioType DEF IInv, Allocated, InKernel, Head0
<1>2. Holds(p, mybio[p]) /\ state[p] = "RUNNING"
  BY DEF IInv, AwakeInKernel, InKernel, Holds
<1>3. \A q \in Procs : Holds(q, mybio[p]) => q = p
  BY <1>1, <1>2 DEF IInv, MutualExclusion
<1> QED
  BY <1>1, <1>2, <1>3, PendingHasReader

\* The reader queues its request and goes to the front of the chain.
LEMMA ReadStep ==
    ASSUME IInv, NEW p \in Procs, bio_read(p)
    PROVE  IInv'
<1> USE ProcsAssumption, CacheAssumption
<1> DEFINE b == mybio[p]
           s == sleep[b]
           n == Len(ioq)
<1>1. /\ InKernel(p) /\ cpu = p /\ pc[p] = "held"
      /\ sleep_wait_bio_complete(p, b)
      /\ ioq' = Append(ioq, Request("read", b, b))
      /\ UNCHANGED <<cacheVars, mybio, req, res, data, done, errs, panic>>
  BY DEF bio_read, InKernel
<1>2. b \in Bios /\ b <= bio_cache_count /\ ~ReadPending(b)
  BY <1>1, HeldNotPending
<1>3. /\ Request("read", b, b) \in Requests
      /\ Request("read", b, b).kind = "read"
      /\ Request("read", b, b).data = b /\ Request("read", b, b).bio = b
  <2>1. dev[b] \in Nat /\ sector[b] \in Nat
    BY <1>2 DEF IInv, TypeOK
  <2>2. <<dev[b], sector[b]>> \in Blocks /\ b \in 0..MAX_CACHE_COUNT
    BY <1>2, <2>1 DEF Blocks, Bios
  <2> HIDE DEF b
  <2> QED
    BY <1>2, <2>2 DEF Request, Requests
<1>4. /\ ioq' \in Seq(Requests)
      /\ n \in Nat /\ DOMAIN ioq = 1..n /\ DOMAIN ioq' = 1..(n + 1)
      /\ \A i \in 1..n : ioq'[i] = ioq[i]
      /\ ioq'[n + 1].kind = "read" /\ ioq'[n + 1].data = b /\ ioq'[n + 1].bio = b
  <2>1. ioq \in Seq(Requests) /\ n \in Nat /\ DOMAIN ioq = 1..n
    BY Queue DEF IInv
  <2>2. /\ ioq' \in Seq(Requests) /\ Len(ioq') = n + 1
        /\ \A i \in 1..n : ioq'[i] = ioq[i]
        /\ ioq'[n + 1] = Request("read", b, b)
    <3> HIDE DEF b
    <3> QED
      BY <1>1, <1>3, <2>1, AppendProperties
  <2>3. DOMAIN ioq' = 1..(n + 1)
    BY <2>2, LenProperties
  <2> QED
    BY <1>3, <2>1, <2>2, <2>3
<1>5. /\ s \in Seq(Procs) /\ Len(s) \in Nat /\ DOMAIN s = 1..Len(s)
  BY <1>2, Chains DEF IInv
<1>6. /\ sleep'[b] \in Seq(Procs) /\ sleep'[b] # <<>> /\ Head(sleep'[b]) = p
      /\ DOMAIN sleep'[b] = 1..(Len(s) + 1) /\ sleep'[b][1] = p
      /\ \A i \in 2..(Len(s) + 1) : sleep'[b][i] = s[i - 1]
  <2>1. sleep'[b] = <<p>> \o s
    BY <1>1, <1>2 DEF IInv, TypeOK, sleep_wait_bio_complete
  <2> HIDE DEF s, b
  <2> QED
    BY <1>5, <2>1, PushFront
<1>7. \A c \in Bios \cup {Head0} : c # b => sleep'[c] = sleep[c]
  BY <1>1 DEF IInv, TypeOK, sleep_wait_bio_complete
<1>8. /\ \A q \in Procs : q # p => pc'[q] = pc[q] /\ state'[q] = state[q]
      /\ pc'[p] = "waitIO" /\ state'[p] = "IO" /\ cpu' = NoProc /\ mybio' = mybio
  BY <1>1 DEF IInv, TypeOK, sleep_wait_bio_complete
<1>9. TypeOK'
  <2>1. sleep' \in [Bios \cup {Head0} -> Seq(Procs)]
    BY <1>1, <1>2, <1>6, <1>7 DEF IInv, TypeOK, sleep_wait_bio_complete
  <2>2. /\ pc' \in [Procs -> {"idle", "waitHead", "waitBio", "held", "waitIO"}]
        /\ state' \in [Procs -> {"RUNNING", "IO"}] /\ cpu' \in Procs \cup {NoProc}
    BY <1>1 DEF IInv, TypeOK, sleep_wait_bio_complete
  <2> HIDE DEF b, s, n
  <2> QED
    BY <1>1, <1>4, <2>1, <2>2 DEF IInv, TypeOK, cacheVars
<1>10. Allocated'
  BY <1>1, <1>8 DEF IInv, Allocated, cacheVars
<1>11. OneInKernel' /\ AwakeInKernel'
  BY <1>1, <1>8 DEF IInv, OneInKernel, AwakeInKernel
<1>12. MutualExclusion'
  <2>1. \A q \in Procs, c \in Bios : Holds(q, c)' <=> Holds(q, c)
    BY <1>1, <1>8 DEF Holds
  <2> QED
    BY <1>1, <2>1 DEF IInv, MutualExclusion, cacheVars
<1>13. \A c \in Bios \cup {Head0} : \A i \in DOMAIN sleep[c] :
          sleep[c][i] \in Procs /\ sleep[c][i] # p
  <2>1. state[p] = "RUNNING"
    BY <1>1 DEF IInv, AwakeInKernel
  <2> QED
    BY <2>1, OnChain DEF IInv
<1>14. SleepChains'
  <2>1. ASSUME NEW q \in Procs, state'[q] = "IO"
        PROVE  /\ pc'[q] \in {"waitHead", "waitBio", "waitIO"}
               /\ \E i \in DOMAIN sleep'[mybio'[q]] : sleep'[mybio'[q]][i] = q
    <3>1. CASE q = p
      <4>1. 1 \in DOMAIN sleep'[b]
        BY <1>5, <1>6
      <4> QED
        BY <1>6, <1>8, <3>1, <4>1
    <3>2. CASE q # p
      <4>1. state[q] = "IO" /\ pc'[q] = pc[q]
        BY <1>8, <2>1, <3>2
      <4>2. pc[q] \in {"waitHead", "waitBio", "waitIO"}
        BY <4>1 DEF IInv, SleepChains
      <4>3. PICK i \in DOMAIN sleep[mybio[q]] : sleep[mybio[q]][i] = q
        BY <4>1 DEF IInv, SleepChains
      <4>4. CASE mybio[q] = b
        <5>1. i \in DOMAIN s /\ s[i] = q
          BY <4>3, <4>4
        <5>2. i \in 1..Len(s)
          BY <1>5, <5>1
        <5> HIDE DEF s
        <5>3. i + 1 \in 2..(Len(s) + 1) /\ i + 1 \in 1..(Len(s) + 1) /\ (i + 1) - 1 = i
          BY <1>5, <5>2
        <5>4. i + 1 \in DOMAIN sleep'[b] /\ sleep'[b][i + 1] = q
          BY <1>6, <5>1, <5>3
        <5> QED
          BY <1>8, <4>1, <4>2, <4>4, <5>4
      <4>5. CASE mybio[q] # b
        <5>1. sleep'[mybio[q]] = sleep[mybio[q]]
          BY <1>7, <4>5, MybioType DEF IInv
        <5> QED
          BY <1>8, <4>1, <4>2, <4>3, <5>1
      <4> QED
        BY <4>4, <4>5
    <3> QED
      BY <3>1, <3>2
  <2>2. ASSUME NEW c \in Bios \cup {Head0}, NEW i \in DOMAIN sleep'[c]
        PROVE  /\ state'[sleep'[c][i]] = "IO"
               /\ mybio'[sleep'[c][i]] = c
               /\ \A j \in DOMAIN sleep'[c] : i # j => sleep'[c][i] # sleep'[c][j]
    <3>1. CASE c # b
      <4>1. sleep'[c] = sleep[c] /\ i \in DOMAIN sleep[c]
        BY <1>7, <3>1
      <4>2. /\ sleep[c][i] \in Procs /\ sleep[c][i] # p
            /\ state[sleep[c][i]] = "IO" /\ mybio[sleep[c][i]] = c
            /\ \A j \in DOMAIN sleep[c] : i # j => sleep[c][i] # sleep[c][j]
        BY <1>13, <4>1, OnChain DEF IInv
      <4> QED
        BY <1>8, <4>1, <4>2
    <3>2. CASE c = b
      <4>1. ASSUME NEW k \in 1..Len(s)
            PROVE  /\ s[k] \in Procs /\ s[k] # p /\ state[s[k]] = "IO" /\ mybio[s[k]] = b
                   /\ \A j \in 1..Len(s) : k # j => s[k] # s[j]
        <5>1. k \in DOMAIN sleep[b]
          BY <1>5
        <5>2. /\ sleep[b][k] \in Procs /\ sleep[b][k] # p
              /\ state[sleep[b][k]] = "IO" /\ mybio[sleep[b][k]] = b
              /\ \A j \in DOMAIN sleep[b] : k # j => sleep[b][k] # sleep[b][j]
          BY <1>2, <1>13, <5>1, OnChain DEF IInv
        <5> QED
          BY <1>5, <5>2
      <4> HIDE DEF s
      <4>2. ASSUME NEW k \in DOMAIN sleep'[b], k # 1
            PROVE  k - 1 \in 1..Len(s) /\ sleep'[b][k] = s[k - 1]
        <5>1. k \in 2..(Len(s) + 1)
          BY <1>5, <1>6, <4>2
        <5> QED
          BY <1>5, <1>6, <5>1
      <4>3. CASE i = 1
        <5>1. ASSUME NEW j \in DOMAIN sleep'[b], 1 # j
              PROVE  sleep'[b][1] # sleep'[b][j]
          BY <1>6, <4>1, <4>2, <5>1
        <5>2. state'[sleep'[b][1]] = "IO" /\ mybio'[sleep'[b][1]] = b
          BY <1>6, <1>8
        <5> QED
          BY <3>2, <4>3, <5>1, <5>2
      <4>4. CASE i # 1
        <5>1. i - 1 \in 1..Len(s) /\ sleep'[b][i] = s[i - 1] /\ i \in Int
          BY <1>6, <3>2, <4>2, <4>4
        <5>2. /\ s[i - 1] \in Procs /\ s[i - 1] # p
              /\ state[s[i - 1]] = "IO" /\ mybio[s[i - 1]] = b
          BY <4>1, <5>1
        <5>3. state'[s[i - 1]] = "IO" /\ mybio'[s[i - 1]] = b
          BY <1>8, <5>2
        <5>4. ASSUME NEW j \in DOMAIN sleep'[b], i # j
              PROVE  s[i - 1] # sleep'[b][j]
          <6>1. CASE j = 1
            BY <1>6, <5>2, <6>1
          <6>2. CASE j # 1
            <7>1. j - 1 \in 1..Len(s) /\ sleep'[b][j] = s[j - 1] /\ j \in Int
              BY <1>6, <4>2, <6>2
            <7>2. i - 1 # j - 1
              BY <5>1, <5>4, <7>1
            <7> QED
              BY <4>1, <5>1, <7>1, <7>2
          <6> QED
            BY <6>1, <6>2
        <5> QED
          BY <3>2, <5>1, <5>3, <5>4
      <4> QED
        BY <4>3, <4>4
    <3> QED
      BY <3>1, <3>2
  <2> QED
    BY <2>1, <2>2 DEF SleepChains
<1>15. \A i \in 1..n : ioq[i].kind = "read" => ioq[i].data # b
  BY <1>2, <1>4 DEF ReadPending
<1>16. done.kind = "read" => done.data # b
  BY <1>2 DEF ReadPending
<1>17. done' = done
  BY <1>1
<1>18. OneReadPerBio'
  <2>1. \A i \in 1..n : ioq[i].kind = "read" =>
          /\ ioq[i].data \in Bios /\ ioq[i].bio = ioq[i].data
          /\ \A j \in 1..n : ioq[j].kind = "read" /\ ioq[i].data = ioq[j].data => i = j
          /\ ~(done.kind = "read" /\ done.data = ioq[i].data)
    BY <1>4 DEF IInv, OneReadPerBio
  <2>2. done.kind = "read" => done.data \in Bios /\ done.proc \in Procs
    BY DEF IInv, OneReadPerBio
  <2>3. \A i \in DOMAIN ioq' : i \in 1..n \/ i = n + 1
    BY <1>4
  <2> HIDE DEF b, n
  <2> QED
    BY <1>2, <1>4, <1>15, <1>16, <1>17, <2>1, <2>2, <2>3 DEF OneReadPerBio
<1>19. ReaderFirst'
  <2>1. ASSUME NEW c \in Bios, c # b, sleep[c] # <<>>, IsReader(Head(sleep[c]), c)
        PROVE  /\ sleep'[c] = sleep[c]
               /\ pc'[Head(sleep[c])] = "waitIO" /\ mybio'[Head(sleep[c])] = c
    <3>1. 1 \in DOMAIN sleep[c] /\ Head(sleep[c]) = sleep[c][1]
      BY <2>1, Chains DEF IInv
    <3>2. Head(sleep[c]) \in Procs /\ Head(sleep[c]) # p
      BY <1>13, <3>1
    <3> QED
      BY <1>7, <1>8, <2>1, <3>2 DEF IsReader
  <2>2. ASSUME NEW i \in 1..n, ioq[i].kind = "read"
        PROVE  /\ sleep'[ioq[i].data] # <<>>
               /\ pc'[Head(sleep'[ioq[i].data])] = "waitIO"
               /\ mybio'[Head(sleep'[ioq[i].data])] = ioq[i].data
    <3>1. ioq[i].data \in Bios /\ ioq[i].data # b
      BY <1>4, <1>15, <2>2 DEF IInv, OneReadPerBio
    <3>2. sleep[ioq[i].data] # <<>> /\ IsReader(Head(sleep[ioq[i].data]), ioq[i].data)
      BY <1>4, <2>2 DEF IInv, ReaderFirst
    <3> HIDE DEF b
    <3> QED
      BY <2>1, <3>1, <3>2
  <2>3. sleep'[b] # <<>> /\ pc'[Head(sleep'[b])] = "waitIO" /\ mybio'[Head(sleep'[b])] = b
    BY <1>6, <1>8
  <2>4. ASSUME done.kind = "read"
        PROVE  /\ sleep'[done.data] # <<>> /\ done.proc = Head(sleep'[done.data])
               /\ pc'[done.proc] = "waitIO" /\ mybio'[done.proc] = done.data
    <3>1. done.data \in Bios /\ done.data # b
      BY <1>16, <2>4 DEF IInv, OneReadPerBio
    <3>2. /\ sleep[done.data] # <<>> /\ IsReader(Head(sleep[done.data]), done.data)
          /\ done.proc = Head(sleep[done.data])
      BY <2>4 DEF IInv, ReaderFirst
    <3> HIDE DEF b
    <3> QED
      BY <2>1, <3>1, <3>2
  <2>5. \A i \in DOMAIN ioq' : i \in 1..n \/ i = n + 1
    BY <1>4
  <2> HIDE DEF b, n
  <2> QED
    BY <1>4, <1>17, <2>2, <2>3, <2>4, <2>5 DEF ReaderFirst, IsReader
<1> QED
  BY <1>9, <1>10, <1>11, <1>12, <1>14, <1>18, <1>19 DEF IInv

\* A step that leaves the chains of the bios with a read pending alone, and the
\* sleeping processes where they are, keeps the readers at the front.
LEMMA ReadersKept ==
    ASSUME IInv,
           \A i \in DOMAIN ioq' : ioq'[i].kind = "read" =>
                /\ ioq'[i].data \in Bios /\ ReadPending(ioq'[i].data)
                /\ sleep'[ioq'[i].data] = sleep[ioq'[i].data],
           done'.kind = "read" =>
                /\ done'.data \in Bios /\ ReadPending(done'.data)
                /\ sleep'[done'.data] = sleep[done'.data]
                /\ done'.proc = Head(sleep[done'.data]),
           \A q \in Procs : state[q] = "IO" => pc'[q] = pc[q] /\ mybio'[q] = mybio[q]
    PROVE  ReaderFirst'
<1>1. ASSUME NEW c \in Bios, ReadPending(c), sleep'[c] = sleep[c]
      PROVE  /\ sleep'[c] # <<>>
             /\ pc'[Head(sleep'[c])] = "waitIO" /\ mybio'[Head(sleep'[c])] = c
  <2>1. sleep[c] # <<>> /\ IsReader(Head(sleep[c]), c)
    BY <1>1 DEF IInv, ReaderFirst, ReadPending
  <2>2. 1 \in DOMAIN sleep[c] /\ Head(sleep[c]) = sleep[c][1]
    BY <2>1, Chains DEF IInv
  <2>3. Head(sleep[c]) \in Procs /\ state[Head(sleep[c])] = "IO"
    BY <2>2, OnChain DEF IInv
  <2> QED
    BY <1>1, <2>1, <2>3 DEF IsReader
<1>2. ASSUME NEW i \in DOMAIN ioq', ioq'[i].kind = "read"
      PROVE  /\ sleep'[ioq'[i].data] # <<>>
             /\ pc'[Head(sleep'[ioq'[i].data])] = "waitIO"
             /\ mybio'[Head(sleep'[ioq'[i].data])] = ioq'[i].data
  BY <1>1, <1>2
<1>3. ASSUME done'.kind = "read"
      PROVE  /\ sleep'[done'.data] # <<>> /\ done'.proc = Head(sleep'[done'.data])
             /\ pc'[done'.proc] = "waitIO" /\ mybio'[done'.proc] = done'.data
  BY <1>1, <1>3
<1> QED
  BY <1>2, <1>3 DEF ReaderFirst, IsReader

\* bio_write queues a request that no process sleeps for.
LEMMA WriteStep ==
    ASSUME IInv, NEW p \in Procs, bio_write(p)
    PROVE  IInv'
<1> USE CacheAssumption
<1> DEFINE b == mybio[p]
           n == Len(ioq)
<1>1. PICK g \in 0..bio_cache_count : ioq' = Append(ioq, Request("write", g, b))
  BY DEF bio_write
<1>2. /\ InKernel(p)
      /\ flag' = [flag EXCEPT ![b] = (@ \cup {DIRTY}) \ {UPDATED}]
      /\ res' = [res EXCEPT ![p] = "written"]
      /\ UNCHANGED <<lru, bio_cache_count, dev, sector, iter, buffer, sleep,
                     state, pc, mybio, req, data, cpu, done, errs, panic>>
  BY DEF bio_write
<1>3. b \in Bios
  BY <1>2, HeldNotPending
<1>4. Request("write", g, b) \in Requests /\ Request("write", g, b).kind = "write"
  <2>1. dev[b] \in Nat /\ sector[b] \in Nat /\ bio_cache_count \in 0..MAX_CACHE_COUNT
    BY <1>3 DEF IInv, TypeOK
  <2>2. <<dev[b], sector[b]>> \in Blocks /\ g \in 0..MAX_CACHE_COUNT
    BY <2>1 DEF Blocks
  <2> HIDE DEF b
  <2> QED
    BY <1>3, <2>2 DEF Request, Requests
<1>5. /\ ioq' \in Seq(Requests)
      /\ n \in Nat /\ DOMAIN ioq = 1..n /\ DOMAIN ioq' = 1..(n + 1)
      /\ \A i \in 1..n : ioq'[i] = ioq[i]
      /\ ioq'[n + 1].kind = "write"
  <2>1. ioq \in Seq(Requests) /\ n \in Nat /\ DOMAIN ioq = 1..n
    BY Queue DEF IInv
  <2>2. /\ ioq' \in Seq(Requests) /\ Len(ioq') = n + 1
        /\ \A i \in 1..n : ioq'[i] = ioq[i]
        /\ ioq'[n + 1] = Request("write", g, b)
    <3> HIDE DEF b
    <3> QED
      BY <1>1, <1>4, <2>1, AppendProperties
  <2>3. DOMAIN ioq' = 1..(n + 1)
    BY <2>2, LenProperties
  <2> QED
    BY <1>4, <2>1, <2>2, <2>3
<1>6. ASSUME NEW i \in DOMAIN ioq', ioq'[i].kind = "read"
      PROVE  i \in DOMAIN ioq /\ ioq'[i] = ioq[i]
  <2> HIDE DEF n
  <2> QED
    BY <1>5, <1>6
<1>7. flag' \in [Bios -> SUBSET Flags]
  <2>1. flag \in [Bios -> SUBSET Flags]
    BY DEF IInv, TypeOK
  <2>2. (flag[b] \cup {DIRTY}) \ {UPDATED} \in SUBSET Flags
    BY <1>3, <2>1 DEF Flags
  <2> HIDE DEF b
  <2> QED
    BY <1>2, <2>1, <2>2
<1>8. TypeOK'
  <2>1. res' \in [Procs -> {"none", "ok", "fail", "written"}]
    BY <1>2 DEF IInv, TypeOK
  <2> HIDE DEF b, n
  <2> QED
    BY <1>2, <1>5, <1>7, <2>1 DEF IInv, TypeOK
<1>9. Allocated' /\ OneInKernel' /\ AwakeInKernel'
  BY <1>2 DEF IInv, Allocated, OneInKernel, AwakeInKernel
<1>10. MutualExclusion'
  <2>1. \A c \in Bios : REFFED \in flag'[c] <=> REFFED \in flag[c]
    BY <1>2, <1>3 DEF IInv, TypeOK, REFFED, DIRTY, UPDATED
  <2>2. \A q \in Procs, c \in Bios : Holds(q, c)' <=> Holds(q, c)
    BY <1>2 DEF Holds
  <2> QED
    BY <2>1, <2>2 DEF IInv, MutualExclusion
<1>11. SleepChains'
  BY <1>2, NobodyWoken, WokenChains DEF IInv
<1>12. OneReadPerBio'
  BY <1>2, <1>6 DEF IInv, OneReadPerBio
<1>13. ReaderFirst'
  <2>1. ASSUME NEW i \in DOMAIN ioq', ioq'[i].kind = "read"
        PROVE  /\ ioq'[i].data \in Bios /\ ReadPending(ioq'[i].data)
               /\ sleep'[ioq'[i].data] = sleep[ioq'[i].data]
    BY <1>2, <1>6, <2>1 DEF IInv, OneReadPerBio, ReadPending
  <2>2. done'.kind = "read" =>
                /\ done'.data \in Bios /\ ReadPending(done'.data)
                /\ sleep'[done'.data] = sleep[done'.data]
                /\ done'.proc = Head(sleep[done'.data])
    BY <1>2 DEF IInv, OneReadPerBio, ReaderFirst, ReadPending
  <2>3. pc' = pc /\ mybio' = mybio
    BY <1>2
  <2> QED
    BY <2>1, <2>2, <2>3, ReadersKept
<1> QED
  BY <1>8, <1>9, <1>10, <1>11, <1>12, <1>13 DEF IInv

\* bio_release drops the reference and wakes one sleeper.
LEMMA ReleaseStep ==
    ASSUME IInv, NEW p \in Procs, bio_release(p)
    PROVE  IInv'
<1> USE CacheAssumption, ProcsAssumption
<1> DEFINE b == mybio[p]
<1>1. /\ InKernel(p) /\ cpu = p /\ pc[p] = "held"
      /\ flag' = [flag EXCEPT ![b] = @ \ {REFFED}]
      /\ pc' = [pc EXCEPT ![p] = "idle"]
      /\ mybio' = [mybio EXCEPT ![p] = 0]
      /\ req' = [req EXCEPT ![p] = <<0, 0>>]
      /\ res' = [res EXCEPT ![p] = "none"]
      /\ data' = [data EXCEPT ![p] = NoBlock]
      /\ cpu' = NoProc
      /\ UNCHANGED <<lru, bio_cache_count, dev, sector, iter, buffer, ioVars, panic>>
      /\ (UNCHANGED <<sleep, state>>) \/ wake_up_sleep_process(b)
  BY DEF bio_release, InKernel
<1>2. b \in Bios /\ ~ReadPending(b)
  BY <1>1, HeldNotPending
<1>3. /\ Woken
      /\ \A d \in Bios : d # b => sleep'[d] = sleep[d]
  <2> HIDE DEF b
  <2>1. CASE UNCHANGED <<sleep, state>>
    BY <2>1, NobodyWoken DEF IInv
  <2>2. CASE wake_up_sleep_process(b)
    BY <1>2, <2>2, WakeStep DEF IInv
  <2> QED
    BY <1>1, <2>1, <2>2
<1>4. state[p] = "RUNNING" /\ state'[p] = "RUNNING"
  <2>1. state[p] = "RUNNING"
    BY <1>1 DEF IInv, AwakeInKernel
  <2>2. state'[p] \in {"RUNNING", "IO"} /\ (state'[p] = "IO" => state[p] = "IO")
    BY <1>3 DEF Woken
  <2> QED
    BY <2>1, <2>2
<1>5. /\ \A q \in Procs : q # p => pc'[q] = pc[q] /\ mybio'[q] = mybio[q]
      /\ pc'[p] = "idle" /\ mybio'[p] = 0
  BY <1>1 DEF IInv, TypeOK
<1>6. TypeOK'
  <2>1. flag' \in [Bios -> SUBSET Flags]
    <3>1. flag \in [Bios -> SUBSET Flags]
      BY DEF IInv, TypeOK
    <3> HIDE DEF b
    <3> QED
      BY <1>1, <1>2, <3>1
  <2>2. /\ pc' \in [Procs -> {"idle", "waitHead", "waitBio", "held", "waitIO"}]
        /\ mybio' \in [Procs -> 0..MAX_CACHE_COUNT]
        /\ req' \in [Procs -> Nat \X Nat]
        /\ res' \in [Procs -> {"none", "ok", "fail", "written"}]
        /\ data' \in [Procs -> Blocks \cup {NoBlock, Garbage}]
        /\ cpu' \in Procs \cup {NoProc}
    BY <1>1, SMTT(30) DEF IInv, TypeOK
  <2>3. sleep' \in [Bios \cup {Head0} -> Seq(Procs)] /\ state' \in [Procs -> {"RUNNING", "IO"}]
    BY <1>3 DEF Woken
  <2> HIDE DEF b
  <2> QED
    BY <1>1, <2>1, <2>2, <2>3 DEF IInv, TypeOK, ioVars
<1>7. Allocated'
  <2>1. bio_cache_count \in Nat
    BY DEF IInv, TypeOK
  <2> QED
    BY <1>1, <1>5, <2>1 DEF IInv, Allocated
<1>8. OneInKernel' /\ AwakeInKernel'
  <2>1. \A q \in Procs : state[q] = "RUNNING" => state'[q] = "RUNNING"
    BY <1>3 DEF Woken
  <2> QED
    BY <1>1, <1>4, <1>5, <2>1 DEF IInv, OneInKernel, AwakeInKernel
<1>9. MutualExclusion'
  <2>1. Holds(p, b) /\ \A q \in Procs : Holds(q, b) => q = p
    BY <1>1, <1>2 DEF IInv, MutualExclusion, Holds
  <2>2. \A q \in Procs, c \in Bios : Holds(q, c)' <=> (Holds(q, c) /\ c # b)
    <3>1. ASSUME NEW q \in Procs, NEW c \in Bios
          PROVE  Holds(q, c)' <=> (Holds(q, c) /\ c # b)
      <4>1. CASE q = p
        BY <1>1, <1>5, <4>1 DEF Holds
      <4>2. CASE q # p
        BY <1>5, <2>1, <4>2 DEF Holds
      <4> QED
        BY <4>1, <4>2
    <3> QED
      BY <3>1
  <2>3. \A c \in Bios : REFFED \in flag'[c] <=> (REFFED \in flag[c] /\ c # b)
    BY <1>1, <1>2 DEF IInv, TypeOK
  <2> QED
    BY <2>2, <2>3 DEF IInv, MutualExclusion
<1>10. \A q \in Procs : state[q] = "IO" => pc'[q] = pc[q] /\ mybio'[q] = mybio[q]
  BY <1>4, <1>5
<1>11. SleepChains'
  BY <1>3, <1>10, WokenChains DEF IInv
<1>12. OneReadPerBio'
  BY <1>1 DEF IInv, OneReadPerBio, ioVars
<1>13. ReaderFirst'
  <2>1. ASSUME NEW i \in DOMAIN ioq, ioq[i].kind = "read"
        PROVE  /\ ioq[i].data \in Bios /\ ReadPending(ioq[i].data)
               /\ sleep'[ioq[i].data] = sleep[ioq[i].data]
    <3>1. ioq[i].data \in Bios /\ ReadPending(ioq[i].data)
      BY <2>1 DEF IInv, OneReadPerBio, ReadPending
    <3> QED
      BY <1>2, <1>3, <3>1
  <2>2. ASSUME done.kind = "read"
        PROVE  /\ done.data \in Bios /\ ReadPending(done.data)
               /\ sleep'[done.data] = sleep[done.data]
               /\ done.proc = Head(sleep[done.data])
    <3>1. /\ done.data \in Bios /\ ReadPending(done.data)
          /\ done.proc = Head(sleep[done.data])
      BY <2>2 DEF IInv, OneReadPerBio, ReaderFirst, ReadPending
    <3> QED
      BY <1>2, <1>3, <3>1
  <2>3. ioq' = ioq /\ done' = done
    BY <1>1 DEF ioVars
  <2> QED
    BY <1>10, <2>1, <2>2, <2>3, ReadersKept
<1> QED
  BY <1>6, <1>7, <1>8, <1>9, <1>11, <1>12, <1>13 DEF IInv

-----------------------------------------------------------------------------
(* The actions of the kernel task.                                         *)

\* ktask takes the finished request off the queue and calls its callback.
LEMMA IoCompleteStep ==
    ASSUME IInv, NEW error \in BOOLEAN, io_complete(error)
    PROVE  IInv'
<1> USE CacheAssumption, ErrorsAssumption
<1> DEFINE io == ioq[1]
           n == Len(ioq)
<1>1. /\ ioq # <<>> /\ done = NoIo
      /\ error => errs < MaxErrors
      /\ errs' = IF error THEN errs + 1 ELSE errs
      /\ ioq' = Tail(ioq)
      /\ done' = [kind |-> Head(ioq).kind, data |-> Head(ioq).data, bio |-> Head(ioq).bio,
                  error |-> error,
                  proc |-> IF Head(ioq).kind = "read" /\ sleep[Head(ioq).data] # <<>>
                           THEN Head(sleep[Head(ioq).data]) ELSE NoProc]
      /\ buffer' = IF Head(ioq).kind = "read"
                   THEN [buffer EXCEPT ![Head(ioq).bio] =
                           IF error THEN Garbage ELSE Head(ioq).block]
                   ELSE buffer
      /\ UNCHANGED <<lru, bio_cache_count, flag, dev, sector, iter, sleep, state,
                     pc, mybio, req, res, data, cpu, panic>>
  BY DEF io_complete, procVars
<1>2. /\ n \in Nat /\ n >= 1 /\ DOMAIN ioq = 1..n /\ Head(ioq) = io /\ io \in Requests
      /\ ioq' \in Seq(Requests) /\ DOMAIN ioq' = 1..(n - 1)
      /\ \A i \in 1..(n - 1) : ioq'[i] = ioq[i + 1]
  <2>1. /\ ioq \in Seq(Requests) /\ n \in Nat /\ DOMAIN ioq = 1..n
        /\ \A i \in DOMAIN ioq : ioq[i] \in Requests
    BY Queue DEF IInv
  <2>2. n >= 1 /\ Head(ioq) = io
    BY <1>1, <2>1
  <2>3. /\ Tail(ioq) \in Seq(Requests) /\ Len(Tail(ioq)) = n - 1
        /\ \A i \in 1..(n - 1) : Tail(ioq)[i] = ioq[i + 1]
    BY <1>1, <2>1, HeadTailProperties
  <2>4. DOMAIN Tail(ioq) = 1..(n - 1)
    BY <2>3, LenProperties
  <2> QED
    BY <1>1, <2>1, <2>2, <2>3, <2>4
<1>3. /\ io.kind \in {"read", "write"} /\ io.data \in 0..MAX_CACHE_COUNT
      /\ io.bio \in Bios /\ io.block \in Blocks
  BY <1>2 DEF Requests
<1>4. ASSUME io.kind = "read"
      PROVE  /\ io.data \in Bios /\ ReadPending(io.data)
             /\ sleep[io.data] # <<>> /\ Head(sleep[io.data]) \in Procs
             /\ \A j \in 1..n : ioq[j].kind = "read" /\ ioq[j].data = io.data => j = 1
  <2>1. 1 \in DOMAIN ioq
    BY <1>2
  <2>2. /\ io.data \in Bios /\ ReadPending(io.data) /\ sleep[io.data] # <<>>
        /\ \A j \in 1..n : ioq[j].kind = "read" /\ ioq[j].data = io.data => j = 1
    BY <1>2, <1>4, <2>1 DEF IInv, OneReadPerBio, ReaderFirst, ReadPending
  <2>3. 1 \in DOMAIN sleep[io.data] /\ Head(sleep[io.data]) = sleep[io.data][1]
        /\ \A i \in DOMAIN sleep[io.data] : sleep[io.data][i] \in Procs
    BY <2>2, Chains DEF IInv
  <2> QED
    BY <2>2, <2>3
<1>5. done'.kind = io.kind /\ done'.data = io.data /\ done'.bio = io.bio /\ done'.error = error
  BY <1>1, <1>2
<1>6. io.kind = "read" => done'.proc = Head(sleep[io.data])
  BY <1>1, <1>2, <1>4
<1>7. TypeOK'
  <2>1. done' \in [kind : {"none", "read", "write"}, data : 0..MAX_CACHE_COUNT,
                   bio : 0..MAX_CACHE_COUNT, proc : Procs \cup {NoProc}, error : BOOLEAN]
    <3>1. io.bio \in 0..MAX_CACHE_COUNT
      BY <1>3 DEF Bios
    <3>2. (IF io.kind = "read" /\ sleep[io.data] # <<>>
           THEN Head(sleep[io.data]) ELSE NoProc) \in Procs \cup {NoProc}
      BY <1>4
    <3> HIDE DEF io
    <3> QED
      BY <1>1, <1>2, <1>3, <3>1, <3>2
  <2>2. buffer' \in [Bios -> Blocks \cup {Garbage}]
    <3>1. buffer \in [Bios -> Blocks \cup {Garbage}]
      BY DEF IInv, TypeOK
    <3>2. (IF error THEN Garbage ELSE io.block) \in Blocks \cup {Garbage}
      BY <1>3
    <3>3. buffer' = IF io.kind = "read"
                    THEN [buffer EXCEPT ![io.bio] = IF error THEN Garbage ELSE io.block]
                    ELSE buffer
      BY <1>1, <1>2
    <3> HIDE DEF io
    <3> QED
      BY <1>3, <3>1, <3>2, <3>3
  <2>3. errs' \in 0..MaxErrors
    BY <1>1 DEF IInv, TypeOK
  <2> HIDE DEF io, n
  <2> QED
    BY <1>1, <1>2, <2>1, <2>2, <2>3 DEF IInv, TypeOK
<1>8. Allocated' /\ OneInKernel' /\ AwakeInKernel'
  BY <1>1 DEF IInv, Allocated, OneInKernel, AwakeInKernel
<1>9. MutualExclusion'
  BY <1>1 DEF IInv, MutualExclusion, Holds
<1>10. SleepChains'
  BY <1>1, NobodyWoken, WokenChains DEF IInv
<1>11. ASSUME NEW i \in DOMAIN ioq'
       PROVE  i \in 1..(n - 1) /\ i + 1 \in DOMAIN ioq /\ i + 1 # 1 /\ ioq'[i] = ioq[i + 1]
  BY <1>2
<1>12. OneReadPerBio'
  <2>1. ASSUME NEW i \in DOMAIN ioq', ioq'[i].kind = "read"
        PROVE  /\ ioq'[i].data \in Bios /\ ioq'[i].bio = ioq'[i].data
               /\ \A j \in DOMAIN ioq' :
                    ioq'[j].kind = "read" /\ ioq'[i].data = ioq'[j].data => i = j
               /\ ~(done'.kind = "read" /\ done'.data = ioq'[i].data)
    <3>1. i + 1 \in DOMAIN ioq /\ ioq'[i] = ioq[i + 1] /\ i + 1 # 1 /\ i \in Int
      BY <1>2, <1>11
    <3>2. /\ ioq[i + 1].data \in Bios /\ ioq[i + 1].bio = ioq[i + 1].data
          /\ \A j \in DOMAIN ioq :
               ioq[j].kind = "read" /\ ioq[i + 1].data = ioq[j].data => i + 1 = j
      BY <2>1, <3>1 DEF IInv, OneReadPerBio
    <3>3. ASSUME NEW j \in DOMAIN ioq', ioq'[j].kind = "read", ioq'[i].data = ioq'[j].data
          PROVE  i = j
      <4>1. j + 1 \in DOMAIN ioq /\ ioq'[j] = ioq[j + 1] /\ j \in Int
        BY <1>2, <1>11
      <4>2. i + 1 = j + 1
        BY <3>1, <3>2, <3>3, <4>1
      <4> QED
        BY <3>1, <4>1, <4>2
    <3>4. ~(io.kind = "read" /\ io.data = ioq[i + 1].data)
      BY <1>2, <1>4, <2>1, <3>1
    <3> HIDE DEF io
    <3> QED
      BY <1>5, <3>1, <3>2, <3>3, <3>4
  <2>2. done'.kind = "read" => done'.data \in Bios /\ done'.proc \in Procs
    BY <1>4, <1>5, <1>6
  <2> QED
    BY <2>1, <2>2 DEF OneReadPerBio
<1>13. ReaderFirst'
  <2>1. ASSUME NEW i \in DOMAIN ioq', ioq'[i].kind = "read"
        PROVE  /\ ioq'[i].data \in Bios /\ ReadPending(ioq'[i].data)
               /\ sleep'[ioq'[i].data] = sleep[ioq'[i].data]
    BY <1>1, <1>11, <2>1 DEF IInv, OneReadPerBio, ReadPending
  <2>2. done'.kind = "read" =>
               /\ done'.data \in Bios /\ ReadPending(done'.data)
               /\ sleep'[done'.data] = sleep[done'.data]
               /\ done'.proc = Head(sleep[done'.data])
    BY <1>1, <1>4, <1>5, <1>6
  <2>3. pc' = pc /\ mybio' = mybio
    BY <1>1
  <2> QED
    BY <2>1, <2>2, <2>3, ReadersKept
<1> QED
  BY <1>7, <1>8, <1>9, <1>10, <1>12, <1>13 DEF IInv

\* The completion of a read wakes the reader, which is still first.
LEMMA ReadCompleteStep ==
    ASSUME IInv, ide_read_complete
    PROVE  IInv'
<1> USE CacheAssumption
<1> DEFINE b == done.data
           s == sleep[b]
<1>1. /\ done.kind = "read" /\ done' = NoIo
      /\ flag' = IF done.error THEN flag ELSE [flag EXCEPT ![b] = @ \cup {UPDATED}]
      /\ UNCHANGED <<lru, bio_cache_count, dev, sector, iter, buffer,
                     pc, mybio, req, res, data, cpu, ioq, errs>>
  BY DEF ide_read_complete, procVars
<1>2. b \in Bios /\ sleep[b] # <<>> /\ done.proc = Head(sleep[b])
  BY <1>1 DEF IInv, OneReadPerBio, ReaderFirst
<1>3. /\ s \in Seq(Procs) /\ Len(s) \in Nat /\ DOMAIN s = 1..Len(s) /\ 1 \in DOMAIN s
      /\ done.proc = s[1]
      /\ \A i \in DOMAIN s : s[i] = s[1] => i = 1
  <2>1. /\ s \in Seq(Procs) /\ Len(s) \in Nat /\ DOMAIN s = 1..Len(s) /\ 1 \in DOMAIN s
        /\ Head(s) = s[1]
    BY <1>2, Chains DEF IInv
  <2>2. \A j \in DOMAIN sleep[b] : 1 # j => sleep[b][1] # sleep[b][j]
    BY <1>2, <2>1, OnChain DEF IInv
  <2> QED
    BY <1>2, <2>1, <2>2
<1>4. /\ panic' = panic
      /\ sleep' = [sleep EXCEPT ![b] = SubSeq(@, 2, Len(@))]
      /\ state' = [state EXCEPT ![done.proc] = "RUNNING"]
  <2>1. PICK i \in DOMAIN sleep[b] :
            /\ sleep[b][i] = done.proc
            /\ sleep' = [sleep EXCEPT ![b] = SubSeq(@, i + 1, Len(@))]
            /\ state' = [state EXCEPT ![done.proc] = "RUNNING"]
            /\ UNCHANGED panic
    BY <1>3 DEF ide_read_complete
  <2>2. i = 1
    BY <1>3, <2>1
  <2> QED
    BY <2>1, <2>2
<1>5. Woken
  <2>1. SubSeq(s, 2, Len(s)) = Tail(s)
    <3> HIDE DEF s, b
    <3>1. s # <<>>
      BY <1>2 DEF s
    <3> QED
      BY <1>3, <3>1, TailIsSubSeq
  <2>2. sleep' = [sleep EXCEPT ![b] = Tail(@)]
    BY <1>4, <2>1
  <2>3. state' = [state EXCEPT ![Head(sleep[b])] = "RUNNING"]
    BY <1>2, <1>4
  <2> HIDE DEF s, b
  <2> QED
    BY <1>2, <2>2, <2>3, PopFront DEF IInv
<1>6. \A d \in Bios : d # b => sleep'[d] = sleep[d]
  BY <1>4 DEF IInv, TypeOK
<1>7. TypeOK'
  <2>1. flag' \in [Bios -> SUBSET Flags]
    <3>1. flag \in [Bios -> SUBSET Flags]
      BY DEF IInv, TypeOK
    <3>2. flag[b] \cup {UPDATED} \in SUBSET Flags
      BY <1>2, <3>1 DEF Flags
    <3> HIDE DEF b
    <3> QED
      BY <1>1, <1>2, <3>1, <3>2
  <2>2. sleep' \in [Bios \cup {Head0} -> Seq(Procs)] /\ state' \in [Procs -> {"RUNNING", "IO"}]
    BY <1>5 DEF Woken
  <2>3. NoIo \in [kind : {"none", "read", "write"}, data : 0..MAX_CACHE_COUNT,
                  bio : 0..MAX_CACHE_COUNT, proc : Procs \cup {NoProc}, error : BOOLEAN]
    BY DEF NoIo
  <2> HIDE DEF b
  <2> QED
    BY <1>1, <1>4, <2>1, <2>2, <2>3 DEF IInv, TypeOK
<1>8. Allocated' /\ OneInKernel'
  BY <1>1 DEF IInv, Allocated, OneInKernel
<1>9. AwakeInKernel'
  <2>1. \A q \in Procs : state[q] = "RUNNING" => state'[q] = "RUNNING"
    BY <1>5 DEF Woken
  <2> QED
    BY <1>1, <2>1 DEF IInv, AwakeInKernel
<1>10. MutualExclusion'
  <2>1. \A c \in Bios : REFFED \in flag'[c] <=> REFFED \in flag[c]
    BY <1>1, <1>2 DEF IInv, TypeOK, REFFED, UPDATED
  <2>2. \A q \in Procs, c \in Bios : Holds(q, c)' <=> Holds(q, c)
    BY <1>1 DEF Holds
  <2> QED
    BY <2>1, <2>2 DEF IInv, MutualExclusion
<1>11. SleepChains'
  BY <1>1, <1>5, WokenChains DEF IInv
<1>12. done'.kind = "none" /\ ioq' = ioq
  BY <1>1 DEF NoIo
<1>13. OneReadPerBio'
  BY <1>12 DEF IInv, OneReadPerBio
<1>14. ReaderFirst'
  <2>1. ASSUME NEW i \in DOMAIN ioq, ioq[i].kind = "read"
        PROVE  /\ ioq[i].data \in Bios /\ ReadPending(ioq[i].data)
               /\ sleep'[ioq[i].data] = sleep[ioq[i].data]
    <3>1. ioq[i].data \in Bios /\ ReadPending(ioq[i].data) /\ ioq[i].data # b
      BY <1>1, <2>1 DEF IInv, OneReadPerBio, ReadPending
    <3> QED
      BY <1>6, <3>1
  <2>2. pc' = pc /\ mybio' = mybio
    BY <1>1
  <2> QED
    BY <1>12, <2>1, <2>2, ReadersKept
<1> QED
  BY <1>7, <1>8, <1>9, <1>10, <1>11, <1>13, <1>14 DEF IInv

\* The completion of a write, through whatever pointer: it wakes a sleeper only
\* if the bio is not referenced, so never a reader.
LEMMA WriteCompleteStep ==
    ASSUME IInv, ide_write_complete
    PROVE  IInv'
<1> USE CacheAssumption
<1> DEFINE b == done.data
<1>1. /\ done.kind = "write" /\ done' = NoIo
      /\ UNCHANGED <<lru, bio_cache_count, dev, sector, iter, buffer,
                     pc, mybio, req, res, data, cpu, ioq, errs, panic>>
  BY DEF ide_write_complete, procVars
<1>2. /\ flag' \in [Bios -> SUBSET Flags]
      /\ \A c \in Bios : REFFED \in flag'[c] <=> REFFED \in flag[c]
      /\ Woken
      /\ \A d \in Bios : ReadPending(d) => sleep'[d] = sleep[d]
  <2>1. flag \in [Bios -> SUBSET Flags] /\ b \in 0..MAX_CACHE_COUNT
    BY DEF IInv, TypeOK
  <2>2. CASE b = 0
    BY <2>1, <2>2, NobodyWoken DEF ide_write_complete, IInv
  <2>3. CASE b # 0
    <3>1. b \in Bios
      BY <2>1, <2>3 DEF Bios
    <3>2. PICK f : /\ f = (IF done.error THEN flag[b] ELSE flag[b] \cup {UPDATED}) \ {DIRTY}
                   /\ flag' = [flag EXCEPT ![b] = f]
      BY <2>3 DEF ide_write_complete
    <3>3. f \in SUBSET Flags /\ (REFFED \in f <=> REFFED \in flag[b])
      BY <2>1, <3>1, <3>2 DEF Flags, REFFED, DIRTY, UPDATED
    <3>4. (REFFED \in flag[b] /\ UNCHANGED <<sleep, state>>)
             \/ (REFFED \notin flag[b] /\ wake_up_sleep_process(b))
      BY <2>3 DEF ide_write_complete
    <3> HIDE DEF b
    <3>5. CASE UNCHANGED <<sleep, state>>
      BY <2>1, <3>1, <3>2, <3>3, <3>5, NobodyWoken DEF IInv
    <3>6. CASE REFFED \notin flag[b] /\ wake_up_sleep_process(b)
      <4>1. Woken /\ \A d \in Bios : d # b => sleep'[d] = sleep[d]
        BY <3>1, <3>6, WakeStep DEF IInv
      <4>2. ~ReadPending(b)
        BY <3>1, <3>6, PendingHasReader DEF IInv, MutualExclusion
      <4> QED
        BY <2>1, <3>1, <3>2, <3>3, <4>1, <4>2
    <3> QED
      BY <3>4, <3>5, <3>6
  <2> QED
    BY <2>2, <2>3
<1> HIDE DEF b
<1>3. TypeOK'
  <2>1. sleep' \in [Bios \cup {Head0} -> Seq(Procs)] /\ state' \in [Procs -> {"RUNNING", "IO"}]
    BY <1>2 DEF Woken
  <2>2. NoIo \in [kind : {"none", "read", "write"}, data : 0..MAX_CACHE_COUNT,
                  bio : 0..MAX_CACHE_COUNT, proc : Procs \cup {NoProc}, error : BOOLEAN]
    BY DEF NoIo
  <2> QED
    BY <1>1, <1>2, <2>1, <2>2 DEF IInv, TypeOK
<1>4. Allocated' /\ OneInKernel'
  BY <1>1 DEF IInv, Allocated, OneInKernel
<1>5. AwakeInKernel'
  <2>1. \A q \in Procs : state[q] = "RUNNING" => state'[q] = "RUNNING"
    BY <1>2 DEF Woken
  <2> QED
    BY <1>1, <2>1 DEF IInv, AwakeInKernel
<1>6. MutualExclusion'
  <2>1. \A q \in Procs, c \in Bios : Holds(q, c)' <=> Holds(q, c)
    BY <1>1 DEF Holds
  <2> QED
    BY <1>2, <2>1 DEF IInv, MutualExclusion
<1>7. SleepChains'
  BY <1>1, <1>2, WokenChains DEF IInv
<1>8. done'.kind = "none" /\ ioq' = ioq
  BY <1>1 DEF NoIo
<1>9. OneReadPerBio'
  BY <1>1, <1>8 DEF IInv, OneReadPerBio
<1>10. ReaderFirst'
  <2>1. ASSUME NEW i \in DOMAIN ioq, ioq[i].kind = "read"
        PROVE  /\ ioq[i].data \in Bios /\ ReadPending(ioq[i].data)
               /\ sleep'[ioq[i].data] = sleep[ioq[i].data]
    BY <1>2, <2>1 DEF IInv, OneReadPerBio, ReadPending
  <2>2. pc' = pc /\ mybio' = mybio
    BY <1>1
  <2> QED
    BY <1>8, <2>1, <2>2, ReadersKept
<1> QED
  BY <1>3, <1>4, <1>5, <1>6, <1>7, <1>9, <1>10 DEF IInv

-----------------------------------------------------------------------------
(* The theorems.                                                           *)

\* bio_initialize establishes the inductive invariant.
LEMMA InitIInv == Init => IInv
<1> SUFFICES ASSUME Init PROVE IInv
  OBVIOUS
<1> USE CacheAssumption, ErrorsAssumption, ProcsAssumption
<1>1. TypeOK
  <2>1. NoIo \in [kind : {"none", "read", "write"}, data : 0..MAX_CACHE_COUNT,
                  bio : 0..MAX_CACHE_COUNT, proc : Procs \cup {NoProc}, error : BOOLEAN]
    BY DEF NoIo
  <2>2. lru \in Seq(Bios) /\ ioq \in Seq(Requests)
        /\ sleep \in [Bios \cup {Head0} -> Seq(Procs)]
    BY EmptySeq DEF Init
  <2>3. /\ flag \in [Bios -> SUBSET Flags] /\ dev \in [Bios -> Nat]
        /\ sector \in [Bios -> Nat] /\ iter \in [Bios -> 0..255]
        /\ buffer \in [Bios -> Blocks \cup {Garbage}]
        /\ bio_cache_count \in 0..MAX_CACHE_COUNT
    BY DEF Init
  <2>4. /\ state \in [Procs -> {"RUNNING", "IO"}]
        /\ pc \in [Procs -> {"idle", "waitHead", "waitBio", "held", "waitIO"}]
        /\ res \in [Procs -> {"none", "ok", "fail", "written"}]
    BY DEF Init
  <2>6. mybio \in [Procs -> 0..MAX_CACHE_COUNT] /\ errs \in 0..MaxErrors
    BY DEF Init
  <2>7. req \in [Procs -> Nat \X Nat]
    BY DEF Init
  <2>8. data \in [Procs -> Blocks \cup {NoBlock, Garbage}]
    BY DEF Init
  <2>9. cpu \in Procs \cup {NoProc}
    BY DEF Init
  <2>10. panic \in BOOLEAN
    BY DEF Init
  <2>5. done = NoIo
    BY DEF Init
  <2> QED
    BY <2>1, <2>2, <2>3, <2>4, <2>5, <2>6, <2>7, <2>8, <2>9, <2>10 DEF TypeOK
<1>2. /\ \A b \in Bios \cup {Head0} : DOMAIN sleep[b] = {}
      /\ DOMAIN lru = {} /\ DOMAIN ioq = {} /\ done.kind = "none"
  BY DEF Init, NoIo
<1>3. Allocated /\ OneInKernel /\ AwakeInKernel
  BY <1>2 DEF Init, Allocated, OneInKernel, AwakeInKernel
<1>4. MutualExclusion
  BY DEF Init, MutualExclusion, Holds
<1>5. SleepChains
  BY <1>2 DEF Init, SleepChains
<1>6. OneReadPerBio /\ ReaderFirst
  BY <1>2 DEF OneReadPerBio, ReaderFirst
<1> QED
  BY <1>1, <1>3, <1>4, <1>5, <1>6 DEF IInv

\* Every step of the cache, of ktask and of the disk preserves it.
LEMMA StepIInv == IInv /\ [Next]_vars => IInv'
<1> SUFFICES ASSUME IInv, [Next]_vars PROVE IInv'
  OBVIOUS
<1>1. ASSUME NEW p \in Procs, resume(p) PROVE IInv'
  BY <1>1, GetSteps, ReadResumeStep DEF resume
<1>2. ASSUME NEW p \in Procs, bio_get(p) PROVE IInv'
  BY <1>2, GetSteps
<1>3. ASSUME NEW p \in Procs, bio_read_cached(p) \/ bio_data(p) \/ bio_advance_iter(p)
      PROVE  IInv'
  BY <1>3, LocalSteps
<1>4. ASSUME NEW p \in Procs, bio_read(p) PROVE IInv'
  BY <1>4, ReadStep
<1>5. ASSUME NEW p \in Procs, bio_write(p) PROVE IInv'
  BY <1>5, WriteStep
<1>6. ASSUME NEW p \in Procs, bio_release(p) PROVE IInv'
  BY <1>6, ReleaseStep
<1>7. CASE ktask
  BY <1>7, IoCompleteStep, ReadCompleteStep, WriteCompleteStep DEF ktask
<1>8. CASE UNCHANGED vars
  <2>1. UNCHANGED <<lru, bio_cache_count, flag, dev, sector, iter, buffer, sleep, state,
                    pc, mybio, req, res, data, cpu, ioq, done, errs, panic>>
    BY <1>8 DEF vars, cacheVars, procVars, ioVars
  <2>2. TypeOK'
    BY <2>1 DEF IInv, TypeOK
  <2> QED
    BY <2>1, <2>2 DEF IInv, Allocated, OneInKernel, AwakeInKernel, MutualExclusion,
                      SleepChains, OneReadPerBio, ReaderFirst, Holds, IsReader
<1> QED
  BY <1>1, <1>2, <1>3, <1>4, <1>5, <1>6, <1>7, <1>8 DEF Next, Halted

\* The inductive invariant holds in every reachable state of the cache.
THEOREM Invariance == Spec => []IInv
  BY InitIInv, StepIInv, PTL DEF Spec

\* The variables keep their types, whatever the processes, the cache size, the
\* page allocator and the disk do.
THEOREM TypeCorrect == Spec => []TypeOK
<1>1. IInv => TypeOK
  BY DEF IInv
<1> QED
  BY <1>1, Invariance, PTL

\* bio_get gives a bio to one process at a time, for any number of processes,
\* any cache size, and also when bio_write completes through a stray pointer.
THEOREM ExclusiveUse == Spec => []MutualExclusion
<1>1. IInv => MutualExclusion
  BY DEF IInv
<1> QED
  BY <1>1, Invariance, PTL

\* A process sleeps exactly while it is on the one chain it can be woken from.
THEOREM NoLostSleeper == Spec => []SleepChains
<1>1. IInv => SleepChains
  BY DEF IInv
<1> QED
  BY <1>1, Invariance, PTL

\* ide_read_complete wakes the reader, although it loads bio->sleep before it
\* turns interrupts off.
THEOREM ReaderStaysFirst == Spec => []ReaderFirst
<1>1. IInv => ReaderFirst
  BY DEF IInv
<1> QED
  BY <1>1, Invariance, PTL

\* What bio_get may do to a bio with a read pending: nothing.
LEMMA TakePinned ==
    ASSUME IInv, NEW b \in Bios, ReadPending(b), NEW p, NEW c \in Bios,
           NEW f, NEW d, NEW base, NEW s,
           REFFED \notin flag[c], Take(p, c, f, d, base, s)
    PROVE  flag'[b] = flag[b] /\ dev'[b] = dev[b] /\ sector'[b] = sector[b] /\ iter'[b] = iter[b]
<1>1. b # c
  BY PendingHasReader DEF IInv, MutualExclusion
<1> QED
  BY <1>1 DEF IInv, TypeOK, Take

\* Neither bio_get nor a resumed bio_get touches a bio with a read pending.
LEMMA GetPinned ==
    ASSUME IInv, NEW b \in Bios, ReadPending(b), NEW p \in Procs, NEW r,
           alloc_bio(p, r) \/ \E c \in Bios : get_loop(p, c, r)
    PROVE  flag'[b] = flag[b] /\ dev'[b] = dev[b] /\ sector'[b] = sector[b] /\ iter'[b] = iter[b]
<1> USE CacheAssumption
<1>1. ASSUME NEW c \in Bios, get_loop(p, c, r)
      PROVE  flag'[b] = flag[b] /\ dev'[b] = dev[b] /\ sector'[b] = sector[b] /\ iter'[b] = iter[b]
  <2>1. CASE ~Busy(c) /\ Take(p, c, flag[c], dev[c], sector[c], r[2])
    BY <2>1, TakePinned DEF Busy
  <2> QED
    BY <1>1, <2>1 DEF get_loop
<1>2. CASE alloc_bio(p, r)
  <2>1. ASSUME bio_cache_count # MAX_CACHE_COUNT,
               Take(p, bio_cache_count + 1, {}, r[1], BASE_SECTOR(r[2]), r[2])
        PROVE  flag'[b] = flag[b] /\ dev'[b] = dev[b] /\ sector'[b] = sector[b] /\ iter'[b] = iter[b]
    <3>1. bio_cache_count \in 0..MAX_CACHE_COUNT
      BY DEF IInv, TypeOK
    <3>2. bio_cache_count + 1 \in Bios
      BY <2>1, <3>1 DEF Bios
    <3>3. ASSUME NEW q \in Procs PROVE ~Holds(q, bio_cache_count + 1)
      BY <3>1, MybioType DEF IInv, Allocated, Holds
    <3>4. REFFED \notin flag[bio_cache_count + 1]
      BY <3>2, <3>3 DEF IInv, MutualExclusion
    <3> QED
      BY <2>1, <3>2, <3>4, TakePinned
  <2>2. ASSUME NEW c \in find_unused_bio, Take(p, c, {}, r[1], BASE_SECTOR(r[2]), r[2])
        PROVE  flag'[b] = flag[b] /\ dev'[b] = dev[b] /\ sector'[b] = sector[b] /\ iter'[b] = iter[b]
    <3>1. c \in Bios /\ REFFED \notin flag[c]
      BY <2>2, Searches DEF Busy
    <3> QED
      BY <2>2, <3>1, TakePinned
  <2> QED
    BY <1>2, <2>1, <2>2 DEF alloc_bio
<1> QED
  BY <1>1, <1>2

Pinned(b) ==
    /\ REFFED \in flag'[b]
    /\ dev'[b] = dev[b] /\ sector'[b] = sector[b] /\ iter'[b] = iter[b]

\* No step changes the identity of a bio while a read into it is pending.
LEMMA StepPinned ==
    ASSUME IInv, [Next]_vars, NEW b \in Bios, ReadPending(b)
    PROVE  Pinned(b)
<1>1. REFFED \in flag[b]
  BY PendingHasReader DEF IInv, MutualExclusion
<1>2. ASSUME flag'[b] = flag[b] /\ dev'[b] = dev[b] /\ sector'[b] = sector[b] /\ iter'[b] = iter[b]
      PROVE  Pinned(b)
  BY <1>1, <1>2 DEF Pinned
<1>3. ASSUME NEW p \in Procs, bio_get(p) PROVE Pinned(b)
  <2>1. PICK r \in Devs \X Sectors :
          \/ \E c \in find_bio(r[1], BASE_SECTOR(r[2])) : get_loop(p, c, r)
          \/ alloc_bio(p, r)
    BY <1>3 DEF bio_get
  <2>2. alloc_bio(p, r) \/ \E c \in Bios : get_loop(p, c, r)
    BY <2>1, Searches
  <2> QED
    BY <1>2, <2>2, GetPinned
<1>4. ASSUME NEW p \in Procs, resume(p) PROVE Pinned(b)
  <2>1. CASE alloc_bio_resume(p)
    BY <1>2, <2>1, GetPinned DEF alloc_bio_resume
  <2>2. CASE bio_get_resume(p)
    <3>1. mybio[p] \in Bios /\ get_loop(p, mybio[p], req[p])
      BY <2>2, MybioType DEF IInv, Allocated, bio_get_resume, Head0
    <3> QED
      BY <1>2, <3>1, GetPinned
  <2>3. CASE bio_read_resume(p)
    BY <1>2, <2>3 DEF bio_read_resume, cacheVars
  <2> QED
    BY <1>4, <2>1, <2>2, <2>3 DEF resume
<1>5. ASSUME NEW p \in Procs, bio_read_cached(p) \/ bio_read(p) \/ bio_data(p)
      PROVE  Pinned(b)
  BY <1>2, <1>5 DEF bio_read_cached, bio_read, bio_data, cacheVars
<1>6. ASSUME NEW p \in Procs, bio_advance_iter(p) \/ bio_write(p) \/ bio_release(p)
      PROVE  Pinned(b)
  <2>1. mybio[p] # b
    BY <1>6, HeldNotPending DEF bio_advance_iter, bio_write, bio_release
  <2>2. flag \in [Bios -> SUBSET Flags] /\ iter \in [Bios -> 0..255]
    BY DEF IInv, TypeOK
  <2> QED
    BY <1>2, <1>6, <2>1, <2>2 DEF bio_advance_iter, bio_write, bio_release
<1>7. ASSUME NEW error \in BOOLEAN, io_complete(error) PROVE Pinned(b)
  BY <1>2, <1>7 DEF io_complete
<1>8. CASE ide_read_complete \/ ide_write_complete
  <2>1. flag \in [Bios -> SUBSET Flags]
    BY DEF IInv, TypeOK
  <2>2. dev' = dev /\ sector' = sector /\ iter' = iter
    BY <1>8 DEF ide_read_complete, ide_write_complete
  <2>3. REFFED \in flag'[b]
    BY <1>1, <1>8, <2>1 DEF ide_read_complete, ide_write_complete, REFFED, DIRTY, UPDATED
  <2> QED
    BY <2>2, <2>3 DEF Pinned
<1>9. CASE UNCHANGED vars
  BY <1>2, <1>9 DEF vars, cacheVars
<1> QED
  BY <1>3, <1>4, <1>5, <1>6, <1>7, <1>8, <1>9 DEF Next, Halted, ktask

\* A bio is not given away, reused or moved to another sector while a read
\* into it is pending.
THEOREM ReadsArePinned == Spec => PendingReadPinned
<1>1. IInv /\ [Next]_vars =>
        [\A b \in Bios : ReadPending(b) =>
            /\ REFFED \in flag'[b]
            /\ dev'[b] = dev[b] /\ sector'[b] = sector[b] /\ iter'[b] = iter[b]]_vars
  BY StepPinned DEF Pinned
<1> QED
  BY <1>1, Invariance, PTL DEF Spec, PendingReadPinned

-----------------------------------------------------------------------------
(* NoStall.                                                                *)

\* A process that is on its way to try again after it slept in bio_get.
OnTheWay == \E q \in Procs : pc[q] \in {"waitHead", "waitBio"} /\ state[q] = "RUNNING"

\* wake_up_sleep_process on a bio that nobody reads: when processes wait on the
\* list head, then a process that tries to get a bio is awake afterwards.
LEMMA WakePassedOn ==
    ASSUME IInv, NEW b \in Bios, \A q \in Procs : ~(pc[q] = "waitIO" /\ mybio[q] = b),
           wake_up_sleep_process(b),
           \A q \in Procs : state[q] = "IO" => pc'[q] = pc[q],
           sleep'[Head0] # <<>>
    PROVE  OnTheWay'
<1> USE CacheAssumption
<1> DEFINE c == IF sleep[b] # <<>> THEN b ELSE Head0
<1>1. c \in Bios \cup {Head0} /\ (c = b \/ c = 0)
  BY DEF Head0
<1>2. sleep[c] # <<>>
  <2>1. CASE sleep[b] # <<>>
    BY <2>1
  <2>2. CASE sleep[b] = <<>> /\ sleep[Head0] = <<>>
    BY <2>2 DEF wake_up_sleep_process
  <2> QED
    BY <2>1, <2>2
<1>3. state' = [state EXCEPT ![Head(sleep[c])] = "RUNNING"]
  BY <1>2 DEF wake_up_sleep_process
<1> HIDE DEF c
<1>4. 1 \in DOMAIN sleep[c] /\ Head(sleep[c]) = sleep[c][1]
  BY <1>1, <1>2, Chains DEF IInv
<1> DEFINE q == Head(sleep[c])
<1>5. q \in Procs /\ state[q] = "IO" /\ mybio[q] = c
  BY <1>1, <1>4, OnChain DEF IInv
<1>6. pc[q] \in {"waitHead", "waitBio", "waitIO"}
  BY <1>5 DEF IInv, SleepChains
<1>7. pc[q] # "waitIO"
  BY <1>1, <1>5 DEF IInv, Allocated
<1>8. state'[q] = "RUNNING" /\ pc'[q] = pc[q]
  BY <1>3, <1>5 DEF IInv, TypeOK
<1> QED
  BY <1>5, <1>6, <1>7, <1>8 DEF OnTheWay

\* What NoStall asks for when a bio stays referenced or dirty.
LEMMA BusyNoStall ==
    ASSUME NEW b \in Bios, (REFFED \in flag'[b]) \/ (DIRTY \in flag'[b])
    PROVE  NoStall'
  BY DEF NoStall, Busy

\* alloc_bio sends a process to sleep only when every bio is in use.
LEMMA SleepsWhenBusy ==
    ASSUME IInv, find_unused_bio = {}, lru # <<>>
    PROVE  \E b \in Bios : Busy(b)
<1>1. lru \in Seq(Bios) /\ Len(lru) \in Nat /\ DOMAIN lru = 1..Len(lru) /\ Len(lru) # 0
  BY LenProperties, EmptySeq DEF IInv, TypeOK
<1>2. Len(lru) \in DOMAIN lru /\ lru[Len(lru)] \in Bios
  BY <1>1, ElementOfSeq
<1>3. (Len(lru) + 1)..Len(lru) = {}
  BY <1>1
<1>4. Busy(lru[Len(lru)])
  BY <1>2, <1>3 DEF find_unused_bio
<1> QED
  BY <1>2, <1>4

\* bio_get, called or resumed, ends with a bio in use or finds them all in use.
LEMMA GetNoStall ==
    ASSUME IInv, NEW p \in Procs, NEW r,
           alloc_bio(p, r) \/ \E c \in Bios : get_loop(p, c, r)
    PROVE  NoStall'
<1> USE CacheAssumption
<1>1. ASSUME NEW b \in Bios, NEW f, NEW d, NEW base, NEW s, Take(p, b, f, d, base, s)
      PROVE  NoStall'
  <2>1. REFFED \in flag'[b]
    BY <1>1 DEF Take, IInv, TypeOK
  <2> QED
    BY <2>1, BusyNoStall
<1>2. ASSUME NEW c \in Bios, get_loop(p, c, r) PROVE NoStall'
  <2>1. CASE Busy(c) /\ flag' = flag
    BY <2>1, BusyNoStall DEF Busy
  <2> QED
    BY <1>1, <1>2, <2>1 DEF get_loop
<1>3. CASE alloc_bio(p, r)
  <2>1. CASE /\ bio_cache_count # MAX_CACHE_COUNT
             /\ Take(p, bio_cache_count + 1, {}, r[1], BASE_SECTOR(r[2]), r[2])
    <3>1. bio_cache_count \in 0..MAX_CACHE_COUNT
      BY DEF IInv, TypeOK
    <3>2. bio_cache_count + 1 \in Bios
      BY <2>1, <3>1 DEF Bios
    <3> QED
      BY <1>1, <2>1, <3>2
  <2>2. ASSUME NEW b \in find_unused_bio, Take(p, b, {}, r[1], BASE_SECTOR(r[2]), r[2])
        PROVE  NoStall'
    BY <1>1, <2>2, Searches
  <2>3. CASE find_unused_bio = {} /\ lru' = lru /\ flag' = flag
    BY <2>3, SleepsWhenBusy DEF NoStall, Busy
  <2> QED
    BY <1>3, <2>1, <2>2, <2>3 DEF alloc_bio
<1> QED
  BY <1>2, <1>3

\* No step of the cache, of ktask or of the disk brings about a stall.
LEMMA StepNoStall ==
    ASSUME IInv, NoStall, [Next]_vars
    PROVE  NoStall'
<1> USE CacheAssumption
<1>0. flag \in [Bios -> SUBSET Flags]
  BY DEF IInv, TypeOK
<1>1. ASSUME NEW p \in Procs, bio_get(p) PROVE NoStall'
  <2>1. PICK r \in Devs \X Sectors :
          \/ \E c \in find_bio(r[1], BASE_SECTOR(r[2])) : get_loop(p, c, r)
          \/ alloc_bio(p, r)
    BY <1>1 DEF bio_get
  <2> QED
    BY <2>1, Searches, GetNoStall
<1>2. ASSUME NEW p \in Procs, alloc_bio_resume(p) PROVE NoStall'
  BY <1>2, GetNoStall DEF alloc_bio_resume
<1>3. ASSUME NEW p \in Procs, bio_get_resume(p) PROVE NoStall'
  <2>1. mybio[p] \in Bios /\ get_loop(p, mybio[p], req[p])
    BY <1>3, MybioType DEF IInv, Allocated, bio_get_resume, Head0
  <2> QED
    BY <2>1, GetNoStall
<1>4. ASSUME NEW p \in Procs, pc[p] \in {"held", "waitIO"}
      PROVE  mybio[p] \in Bios /\ REFFED \in flag[mybio[p]]
  <2>1. mybio[p] \in Bios
    BY <1>4, MybioType DEF IInv, Allocated, Head0
  <2> QED
    BY <1>4, <2>1 DEF IInv, MutualExclusion, Holds
<1>5. ASSUME NEW p \in Procs,
             \/ bio_read_resume(p) \/ bio_read_cached(p) \/ bio_read(p) \/ bio_data(p)
             \/ bio_advance_iter(p)
      PROVE  NoStall'
  <2>1. pc[p] \in {"held", "waitIO"} /\ flag' = flag
    BY <1>5 DEF bio_read_resume, bio_read_cached, bio_read, bio_data, bio_advance_iter,
                InKernel, cacheVars
  <2> QED
    BY <1>4, <2>1, BusyNoStall
<1>6. ASSUME NEW p \in Procs, bio_write(p) PROVE NoStall'
  <2>1. pc[p] = "held" /\ flag' = [flag EXCEPT ![mybio[p]] = (@ \cup {DIRTY}) \ {UPDATED}]
    BY <1>6 DEF bio_write, InKernel
  <2>2. mybio[p] \in Bios
    BY <1>4, <2>1
  <2>3. DIRTY \in flag'[mybio[p]]
    BY <1>0, <2>1, <2>2 DEF DIRTY, UPDATED
  <2> QED
    BY <2>2, <2>3, BusyNoStall
<1>7. ASSUME NEW p \in Procs, bio_release(p) PROVE NoStall'
  <2>1. /\ pc[p] = "held" /\ flag' = [flag EXCEPT ![mybio[p]] = @ \ {REFFED}]
        /\ pc' = [pc EXCEPT ![p] = "idle"]
        /\ DIRTY \notin flag[mybio[p]] => wake_up_sleep_process(mybio[p])
    BY <1>7 DEF bio_release, InKernel
  <2>2. mybio[p] \in Bios
    BY <1>4, <2>1
  <2>3. CASE DIRTY \in flag[mybio[p]]
    <3>1. DIRTY \in flag'[mybio[p]]
      BY <1>0, <2>1, <2>2, <2>3 DEF DIRTY, REFFED
    <3> QED
      BY <2>2, <3>1, BusyNoStall
  <2>4. CASE DIRTY \notin flag[mybio[p]]
    <3>1. \A q \in Procs : ~(pc[q] = "waitIO" /\ mybio[q] = mybio[p])
      BY <2>1, <2>2 DEF IInv, MutualExclusion, Holds
    <3>2. \A q \in Procs : state[q] = "IO" => pc'[q] = pc[q]
      BY <2>1 DEF IInv, AwakeInKernel, TypeOK
    <3> QED
      BY <2>1, <2>2, <2>4, <3>1, <3>2, WakePassedOn DEF NoStall, OnTheWay
  <2> QED
    BY <2>3, <2>4
<1>8. ASSUME NEW error \in BOOLEAN, io_complete(error) PROVE NoStall'
  BY <1>8 DEF io_complete, procVars, NoStall, Busy
<1>9. CASE ide_read_complete
  <2>1. /\ done.kind = "read"
        /\ flag' = flag \/ flag' = [flag EXCEPT ![done.data] = @ \cup {UPDATED}]
    BY <1>9 DEF ide_read_complete
  <2>2. done.data \in Bios /\ ReadPending(done.data)
    BY <2>1 DEF IInv, OneReadPerBio, ReadPending
  <2>3. REFFED \in flag[done.data]
    BY <2>2, PendingHasReader DEF IInv, MutualExclusion
  <2>4. REFFED \in flag'[done.data]
    BY <1>0, <2>1, <2>2, <2>3
  <2> QED
    BY <2>2, <2>4, BusyNoStall
<1>10. CASE ide_write_complete
  <2> DEFINE b == done.data
  <2>1. pc' = pc /\ lru' = lru
    BY <1>10 DEF ide_write_complete, procVars
  <2>2. CASE b = 0
    BY <1>10, <2>1, <2>2 DEF ide_write_complete, NoStall, Busy
  <2>3. CASE b # 0
    <3>1. b \in Bios
      BY <2>3 DEF IInv, TypeOK, Bios
    <3>2. /\ flag' = [flag EXCEPT ![b] =
                              (IF done.error THEN @ ELSE @ \cup {UPDATED}) \ {DIRTY}]
          /\ REFFED \notin flag[b] => wake_up_sleep_process(b)
      BY <1>10, <2>3 DEF ide_write_complete
    <3> HIDE DEF b
    <3>3. CASE REFFED \in flag[b]
      <4>1. REFFED \in flag'[b]
        BY <1>0, <3>1, <3>2, <3>3 DEF REFFED, DIRTY
      <4> QED
        BY <3>1, <4>1, BusyNoStall
    <3>4. CASE REFFED \notin flag[b]
      <4>1. \A q \in Procs : ~(pc[q] = "waitIO" /\ mybio[q] = b)
        BY <3>1, <3>4 DEF IInv, MutualExclusion, Holds
      <4> QED
        BY <2>1, <3>1, <3>2, <3>4, <4>1, WakePassedOn DEF NoStall, OnTheWay
    <3> QED
      BY <3>3, <3>4
  <2> QED
    BY <2>2, <2>3
<1>11. CASE UNCHANGED vars
  BY <1>11 DEF vars, cacheVars, procVars, NoStall, Busy
<1> QED
  BY <1>1, <1>2, <1>3, <1>5, <1>6, <1>7, <1>8, <1>9, <1>10, <1>11
  DEF Next, resume, ktask, Halted

\* The single wake-up of bio_release and ide_write_complete is passed on: nobody
\* sleeps in alloc_bio while there are bios, none of them is REFFED or DIRTY, and
\* nobody is on the way to one.  It says nothing of the sleepers of one
\* bio, of a cache without bios, or of a bio that stays dirty.
THEOREM WakeUpPassedOn == Spec => []NoStall
<1>1. Init => NoStall
  BY DEF Init, NoStall
<1>2. IInv /\ NoStall /\ [Next]_vars => NoStall'
  BY StepNoStall
<1> QED
  BY <1>1, <1>2, Invariance, PTL DEF Spec

-----------------------------------------------------------------------------
(* A cache with room for every block.                                      *)

\* The blocks, one per bio, that the sectors processes ask for lie in.
AskedBlocks == {<<d, BASE_SECTOR(s)>> : d \in Devs, s \in Sectors}

\* No page allocation fails, there is a bio for every block, nobody calls
\* bio_write (whose completion goes through a stray pointer), and a uint8_t
\* can count the sectors of a bio.
Roomy ==
    /\ FALSE \notin PageOutcomes
    /\ "write" \notin ExtraOps
    /\ SECTORS_PER_BIO <= 255
    /\ IsFiniteSet(AskedBlocks) /\ Cardinality(AskedBlocks) <= MAX_CACHE_COUNT

Block(b) == <<dev[b], sector[b]>>

\* The list holds every allocated bio once.
AllListed ==
    /\ {lru[i] : i \in DOMAIN lru} = 1..bio_cache_count
    /\ \A i, j \in DOMAIN lru : lru[i] = lru[j] => i = j

\* Each allocated bio is for a block of its own.
OwnBlocks ==
    /\ \A b \in 1..bio_cache_count : Block(b) \in AskedBlocks
    /\ \A b, c \in 1..bio_cache_count : Block(b) = Block(c) => b = c

\* The bio a process waits for or has is the one of the block it asked for.
Wanted ==
    \A p \in Procs :
        /\ pc[p] # "waitHead"
        /\ pc[p] = "waitBio" => Block(mybio[p]) = <<req[p][1], BASE_SECTOR(req[p][2])>>
        /\ pc[p] \in {"held", "waitIO"} =>
             /\ dev[mybio[p]] = req[p][1]
             /\ sector[mybio[p]] + iter[mybio[p]] = req[p][2]

\* A pending request reads the block of its bio, which is not up to date.
PendingReads ==
    /\ \A i \in DOMAIN ioq :
        /\ ioq[i].kind = "read" /\ ioq[i].block = Block(ioq[i].data)
        /\ UPDATED \notin flag[ioq[i].data]
    /\ done.kind # "write"
    /\ done.kind = "read" =>
        /\ UPDATED \notin flag[done.data]
        /\ ~done.error => buffer[done.data] = Block(done.data)

\* A buffer that is up to date holds the block of its bio.
Content == \A b \in Bios : UPDATED \in flag[b] => buffer[b] = Block(b)

\* What bio_read and bio_data returned belongs to the bio that is held.
Returned ==
    \A p \in Procs :
        /\ res[p] # "none" => pc[p] = "held"
        /\ res[p] = "ok" => UPDATED \in flag[mybio[p]]
        /\ res[p] = "none" => data[p] = NoBlock

\* The inductive invariant of a roomy cache, relative to IInv.
RInv == /\ AllListed /\ OwnBlocks /\ Wanted /\ PendingReads /\ Content /\ Returned
        /\ DataIsRequested

\* The sector asked for lies in the block of its base sector.
LEMMA BaseBounds ==
    ASSUME NEW s \in Nat
    PROVE  /\ BASE_SECTOR(s) \in Nat
           /\ BASE_SECTOR(s) <= s
           /\ s - BASE_SECTOR(s) < SECTORS_PER_BIO
<1>1. SECTORS_PER_BIO \in Nat /\ SECTORS_PER_BIO > 0
  BY SpbAssumption
<1> DEFINE k == SECTORS_PER_BIO
           q == s \div k
<1>2. q \in Nat /\ s = k * q + (s % k) /\ s % k \in 0..k - 1
  BY <1>1
<1>3. q * k = k * q /\ k * q \in Nat
  BY <1>1, <1>2
<1> HIDE DEF q
<1>4. BASE_SECTOR(s) = k * q
  BY <1>3 DEF BASE_SECTOR, q
<1> HIDE DEF k
<1> QED
  BY <1>1, <1>2, <1>3, <1>4 DEF k

\* The iterator that bio_get sets: a uint8_t is wide enough.
LEMMA IterExact ==
    ASSUME Roomy, NEW s \in Nat
    PROVE  BASE_SECTOR(s) + ((s - BASE_SECTOR(s)) % 256) = s
<1> DEFINE b == BASE_SECTOR(s)
<1>1. b \in Nat /\ b <= s /\ s - b < SECTORS_PER_BIO /\ SECTORS_PER_BIO \in Nat
  BY BaseBounds, SpbAssumption
<1>2. SECTORS_PER_BIO <= 255
  BY DEF Roomy
<1> HIDE DEF b
<1>3. s - b \in 0..255
  BY <1>1, <1>2
<1>4. (s - b) % 256 = s - b
  BY <1>3
<1>5. b + ((s - b) % 256) = s
  BY <1>1, <1>4
<1> QED
  BY <1>5 DEF b

\* find_bio misses only when no listed bio has the block.
LEMMA MissMeansAbsent ==
    ASSUME IInv, AllListed, NEW d, NEW s, find_bio(d, s) = {}
    PROVE  \A b \in 1..bio_cache_count : ~Matches(b, d, s)
<1> DEFINE K == {k \in DOMAIN lru : Matches(lru[k], d, s)}
<1>1. DOMAIN lru = 1..Len(lru) /\ Len(lru) \in Nat
  BY LenProperties DEF IInv, TypeOK
<1>2. K = {}
  <2> SUFFICES ASSUME K # {} PROVE FALSE
    OBVIOUS
  <2>1. K \in SUBSET Nat
    BY <1>1
  <2> HIDE DEF K
  <2>2. PICK k \in K : \A j \in K : k <= j
    BY <2>1, LeastNat
  <2>3. k \in DOMAIN lru /\ Matches(lru[k], d, s)
    BY DEF K
  <2>4. ASSUME NEW j \in 1..(k - 1) PROVE ~Matches(lru[j], d, s)
    <3>1. j \in DOMAIN lru /\ ~(k <= j)
      BY <1>1, <2>3
    <3> QED
      BY <2>2, <3>1 DEF K
  <2>5. lru[k] \in find_bio(d, s)
    BY <2>3, <2>4 DEF find_bio
  <2> QED
    BY <2>5
<1> QED
  BY <1>2 DEF AllListed

\* A roomy cache has a bio left when a block that is asked for is not cached.
LEMMA RoomLeft ==
    ASSUME Roomy, IInv, RInv, NEW x \in AskedBlocks,
           \A b \in 1..bio_cache_count : Block(b) # x
    PROVE  bio_cache_count < MAX_CACHE_COUNT
<1> DEFINE S == 1..bio_cache_count
           T == AskedBlocks \ {x}
           f == [b \in S |-> Block(b)]
<1>1. bio_cache_count \in Nat
  BY DEF IInv, TypeOK
<1>2. IsFiniteSet(S) /\ Cardinality(S) = bio_cache_count
  BY <1>1, FS_Interval
<1>3. IsFiniteSet(T) /\ Cardinality(T) = Cardinality(AskedBlocks) - 1
  BY FS_RemoveElement DEF Roomy
<1>4. Cardinality(AskedBlocks) \in Nat /\ Cardinality(AskedBlocks) <= MAX_CACHE_COUNT
  BY FS_CardinalityType DEF Roomy
<1>5. f \in Injection(S, T)
  <2>1. f \in [S -> T]
    BY DEF RInv, OwnBlocks
  <2>2. \A b, c \in S : f[b] = f[c] => b = c
    BY DEF RInv, OwnBlocks
  <2> HIDE DEF f
  <2> QED
    BY <2>1, <2>2, Fun_IsInj
<1>6. Cardinality(S) <= Cardinality(T)
  BY <1>3, <1>5, FS_Injection
<1> QED
  BY <1>1, <1>2, <1>3, <1>4, <1>6, CacheAssumption

\* Where the elements of a sequence are after one was moved to the front.
LEMMA MovedElements ==
    ASSUME NEW S, NEW s \in Seq(S), NEW i \in 1..Len(s)
    PROVE  /\ DOMAIN Moved(s, i) = 1..Len(s)
           /\ \A k \in 1..Len(s) :
                Moved(s, i)[k] = IF k = 1 THEN s[i] ELSE IF k <= i THEN s[k - 1] ELSE s[k]
<1> DEFINE a == <<s[i]>>
           b == SubSeq(s, 1, i - 1)
           c == SubSeq(s, i + 1, Len(s))
<1>1. a \in Seq(S) /\ Len(a) = 1 /\ a[1] = s[i] /\ Len(s) \in Nat
  OBVIOUS
<1>2. /\ b \in Seq(S) /\ Len(b) = i - 1
      /\ \A k \in 1..(i - 1) : b[k] = s[k]
  BY <1>1, SubSeqProperties
<1>3. /\ c \in Seq(S) /\ Len(c) = Len(s) - i
      /\ \A k \in 1..(Len(s) - i) : c[k] = s[i + k]
  BY <1>1, SubSeqProperties
<1> HIDE DEF a, b, c
<1> DEFINE ab == a \o b
<1>4. ab \in Seq(S) /\ Len(ab) = i /\ \A k \in 1..i : ab[k] = IF k <= 1 THEN a[k] ELSE b[k - 1]
  <2>1. /\ ab \in Seq(S)
        /\ Len(ab) = Len(a) + Len(b)
        /\ \A k \in 1..(Len(a) + Len(b)) :
             ab[k] = IF k <= Len(a) THEN a[k] ELSE b[k - Len(a)]
    BY <1>1, <1>2, ConcatProperties
  <2> HIDE DEF ab
  <2> QED
    BY <1>1, <1>2, <2>1
<1> HIDE DEF ab
<1> DEFINE t == ab \o c
<1>5. /\ t \in Seq(S) /\ Len(t) = Len(s)
      /\ \A k \in 1..Len(s) : t[k] = IF k <= i THEN ab[k] ELSE c[k - i]
  <2>1. /\ t \in Seq(S)
        /\ Len(t) = Len(ab) + Len(c)
        /\ \A k \in 1..(Len(ab) + Len(c)) :
             t[k] = IF k <= Len(ab) THEN ab[k] ELSE c[k - Len(ab)]
    BY <1>3, <1>4, ConcatProperties
  <2> HIDE DEF t
  <2> QED
    BY <1>1, <1>3, <1>4, <2>1
<1> HIDE DEF t
<1>6. ASSUME NEW k \in 1..Len(s)
      PROVE  t[k] = IF k = 1 THEN s[i] ELSE IF k <= i THEN s[k - 1] ELSE s[k]
  <2>1. CASE k = 1
    <3>1. 1 \in 1..i /\ 1 \in 1..Len(s) /\ 1 <= i
      BY <1>1
    <3>2. t[1] = ab[1] /\ ab[1] = a[1]
      BY <1>4, <1>5, <3>1
    <3> QED
      BY <1>1, <2>1, <3>2
  <2>2. CASE 1 < k /\ k <= i
    <3>1. k - 1 \in 1..(i - 1) /\ k \in 1..i
      BY <1>1, <2>2
    <3>2. t[k] = ab[k] /\ ab[k] = b[k - 1]
      BY <1>4, <1>5, <2>2, <3>1
    <3> QED
      BY <1>2, <2>2, <3>1, <3>2
  <2>3. CASE i < k
    <3>1. k - i \in 1..(Len(s) - i) /\ i + (k - i) = k /\ ~(k <= i) /\ k # 1
      BY <1>1, <2>3
    <3>2. t[k] = c[k - i]
      BY <1>5, <3>1
    <3>3. c[k - i] = s[i + (k - i)]
      BY <1>3, <3>1
    <3> QED
      BY <3>1, <3>2, <3>3
  <2> QED
    BY <1>1, <2>1, <2>2, <2>3
<1>7. DOMAIN t = 1..Len(s)
  BY <1>5, LenProperties
<1>8. t = Moved(s, i)
  BY Zenon DEF Moved, t, ab, a, b, c
<1> QED
  BY <1>6, <1>7, <1>8

\* The list after bio_get: every bio once, the new one too.
LEMMA TakeListed ==
    ASSUME IInv, AllListed, NEW b \in Bios, NEW p, NEW f, NEW d, NEW base, NEW s,
           Take(p, b, f, d, base, s),
           \/ b <= bio_cache_count /\ bio_cache_count' = bio_cache_count
           \/ b = bio_cache_count + 1 /\ bio_cache_count' = bio_cache_count + 1
    PROVE  AllListed'
<1> DEFINE n == Len(lru)
<1>1. lru \in Seq(Bios) /\ n \in Nat /\ DOMAIN lru = 1..n /\ bio_cache_count \in Nat
  BY LenProperties DEF IInv, TypeOK
<1>2. /\ {lru[i] : i \in 1..n} = 1..bio_cache_count
      /\ \A i, j \in 1..n : lru[i] = lru[j] => i = j
  BY <1>1 DEF AllListed
<1>3. b \in Nat /\ b >= 1
  BY DEF Bios
<1> HIDE DEF n
<1>4. ASSUME \A i \in DOMAIN lru : lru[i] # b, lru' = <<b>> \o lru
      PROVE  AllListed'
  <2>1. b = bio_cache_count + 1 /\ bio_cache_count' = bio_cache_count + 1
    <3>1. b \notin 1..bio_cache_count
      BY <1>1, <1>2, <1>4
    <3> QED
      BY <1>1, <1>3, <3>1
  <2>2. /\ DOMAIN lru' = 1..(n + 1) /\ lru'[1] = b
        /\ \A i \in 2..(n + 1) : lru'[i] = lru[i - 1]
    BY <1>1, <1>4, PushFront DEF n
  <2>3. ASSUME NEW i \in 1..n PROVE i + 1 \in 2..(n + 1) /\ lru'[i + 1] = lru[i]
    <3>1. i + 1 \in 2..(n + 1) /\ (i + 1) - 1 = i
      BY <1>1
    <3> QED
      BY <2>2, <3>1
  <2>4. ASSUME NEW i \in 2..(n + 1) PROVE i - 1 \in 1..n /\ lru'[i] = lru[i - 1]
    BY <1>1, <2>2
  <2>5. {lru'[i] : i \in 1..(n + 1)} = 1..(bio_cache_count + 1)
    <3>1. ASSUME NEW i \in 1..(n + 1) PROVE lru'[i] \in 1..(bio_cache_count + 1)
      <4>1. CASE i = 1
        BY <1>1, <2>1, <2>2, <4>1
      <4>2. CASE i \in 2..(n + 1)
        <5>1. lru[i - 1] \in 1..bio_cache_count
          BY <1>2, <2>4, <4>2
        <5> QED
          BY <1>1, <2>4, <4>2, <5>1
      <4> QED
        BY <1>1, <4>1, <4>2
    <3>2. ASSUME NEW c \in 1..(bio_cache_count + 1)
          PROVE  \E i \in 1..(n + 1) : lru'[i] = c
      <4>1. CASE c = b
        <5>1. 1 \in 1..(n + 1)
          BY <1>1
        <5> QED
          BY <2>2, <4>1, <5>1
      <4>2. CASE c # b
        <5>1. c \in 1..bio_cache_count
          BY <1>1, <2>1, <4>2
        <5>2. PICK i \in 1..n : lru[i] = c
          BY <1>2, <5>1
        <5>3. i + 1 \in 1..(n + 1)
          BY <1>1
        <5> QED
          BY <2>3, <5>2, <5>3
      <4> QED
        BY <4>1, <4>2
    <3> QED
      BY <3>1, <3>2
  <2>6. ASSUME NEW i \in 1..(n + 1), NEW j \in 1..(n + 1), lru'[i] = lru'[j]
        PROVE  i = j
    <3>1. ASSUME NEW k \in 2..(n + 1) PROVE lru'[k] # b
      BY <1>1, <1>4, <2>4
    <3>2. CASE i \in 2..(n + 1) /\ j \in 2..(n + 1)
      <4>1. i - 1 = j - 1
        BY <1>2, <2>4, <2>6, <3>2
      <4> QED
        BY <4>1
    <3>3. CASE i = 1 \/ j = 1
      <4>1. i = 1 \/ i \in 2..(n + 1)
        BY <1>1
      <4>2. j = 1 \/ j \in 2..(n + 1)
        BY <1>1
      <4> QED
        BY <2>2, <2>6, <3>1, <3>3, <4>1, <4>2
    <3> QED
      BY <1>1, <3>2, <3>3
  <2> QED
    BY <2>1, <2>2, <2>5, <2>6 DEF AllListed
<1>5. ASSUME NEW m \in DOMAIN lru, lru[m] = b,
             lru' = <<b>> \o SubSeq(lru, 1, m - 1) \o SubSeq(lru, m + 1, Len(lru))
      PROVE  AllListed'
  <2>1. lru' = Moved(lru, m) /\ m \in 1..n
    BY <1>1, <1>5, Zenon DEF Moved
  <2> DEFINE t(k) == IF k = 1 THEN m ELSE IF k <= m THEN k - 1 ELSE k
  <2>2. DOMAIN lru' = 1..n /\ \A k \in 1..n : lru'[k] = lru[t(k)]
    <3>1. /\ DOMAIN Moved(lru, m) = 1..n
          /\ \A k \in 1..n : Moved(lru, m)[k] =
                IF k = 1 THEN lru[m] ELSE IF k <= m THEN lru[k - 1] ELSE lru[k]
      BY <1>1, <2>1, MovedElements DEF n
    <3> QED
      BY <2>1, <3>1
  <2>3. ASSUME NEW k \in 1..n PROVE t(k) \in 1..n
    BY <1>1, <2>1
  <2>4. ASSUME NEW k \in 1..n, NEW j \in 1..n, t(k) = t(j) PROVE k = j
    BY <1>1, <2>1, <2>4
  <2>5. ASSUME NEW j \in 1..n PROVE \E k \in 1..n : t(k) = j
    <3> DEFINE k == IF j = m THEN 1 ELSE IF j < m THEN j + 1 ELSE j
    <3>1. k \in 1..n /\ t(k) = j
      BY <1>1, <2>1
    <3> QED
      BY <3>1
  <2> HIDE DEF t
  <2>6. bio_cache_count' = bio_cache_count
    <3>1. b \in 1..bio_cache_count
      BY <1>2, <1>5, <2>1
    <3> QED
      BY <1>1, <3>1
  <2>7. {lru'[i] : i \in 1..n} = 1..bio_cache_count
    <3>1. ASSUME NEW k \in 1..n PROVE lru'[k] \in 1..bio_cache_count
      BY <1>2, <2>2, <2>3
    <3>2. ASSUME NEW c \in 1..bio_cache_count PROVE \E k \in 1..n : lru'[k] = c
      <4>1. PICK j \in 1..n : lru[j] = c
        BY <1>2
      <4> QED
        BY <2>2, <2>5, <4>1
    <3> QED
      BY <3>1, <3>2
  <2>8. ASSUME NEW k \in 1..n, NEW j \in 1..n, lru'[k] = lru'[j] PROVE k = j
    BY <1>2, <2>2, <2>3, <2>4, <2>8
  <2> QED
    BY <2>2, <2>6, <2>7, <2>8 DEF AllListed
<1> QED
  BY <1>4, <1>5 DEF Take

\* What of RInv a step must check when the bios keep their blocks and the list
\* stays as it is.
LEMMA SameBlocks ==
    ASSUME RInv, UNCHANGED <<lru, bio_cache_count, dev, sector>>
    PROVE  AllListed' /\ OwnBlocks' /\ \A b \in Bios : Block(b)' = Block(b)
  BY DEF RInv, AllListed, OwnBlocks, Block

\* A bio that is pending is not one that bio_get may take, and not held.
LEMMA PendingBio ==
    ASSUME IInv, RInv
    PROVE  /\ \A i \in DOMAIN ioq : /\ ioq[i].data \in Bios /\ ioq[i].bio = ioq[i].data
                                    /\ REFFED \in flag[ioq[i].data]
                                    /\ \A p \in Procs : InKernel(p) => ioq[i].data # mybio[p]
           /\ done.kind = "read" => /\ done.data \in Bios
                                    /\ REFFED \in flag[done.data]
                                    /\ \A p \in Procs : InKernel(p) => done.data # mybio[p]
<1>1. ASSUME NEW b \in Bios, ReadPending(b)
      PROVE  REFFED \in flag[b] /\ \A p \in Procs : InKernel(p) => b # mybio[p]
  BY <1>1, PendingHasReader, HeldNotPending DEF IInv, MutualExclusion
<1>2. ASSUME NEW i \in DOMAIN ioq
      PROVE  ioq[i].data \in Bios /\ ioq[i].bio = ioq[i].data /\ ReadPending(ioq[i].data)
  BY DEF IInv, OneReadPerBio, RInv, PendingReads, ReadPending
<1>3. done.kind = "read" => done.data \in Bios /\ ReadPending(done.data)
  BY DEF IInv, OneReadPerBio, ReadPending
<1> QED
  BY <1>1, <1>2, <1>3

\* Nobody has a result while a process enters or goes on in the cache.
LEMMA NoResults ==
    ASSUME IInv, RInv, cpu = NoProc
    PROVE  \A q \in Procs : pc[q] # "held" /\ res[q] = "none" /\ data[q] = NoBlock
  BY ProcsAssumption DEF IInv, OneInKernel, RInv, Returned

\* bio_get hands out a bio of the block that was asked for.
LEMMA TakeRoomy ==
    ASSUME Roomy, IInv, RInv,
           NEW p \in Procs, CanRun(p), NEW b \in Bios, REFFED \notin flag[b],
           NEW f \in SUBSET Flags, NEW r \in Nat \X Nat,
           Take(p, b, f, r[1], BASE_SECTOR(r[2]), r[2]),
           \/ /\ b <= bio_cache_count /\ bio_cache_count' = bio_cache_count
              /\ f = flag[b] /\ Block(b) = <<r[1], BASE_SECTOR(r[2])>>
           \/ /\ b = bio_cache_count + 1 /\ bio_cache_count' = bio_cache_count + 1
              /\ f = {} /\ <<r[1], BASE_SECTOR(r[2])>> \in AskedBlocks
              /\ \A c \in 1..bio_cache_count : Block(c) # <<r[1], BASE_SECTOR(r[2])>>,
           req'[p] = r, \A q \in Procs : q # p => req'[q] = req[q],
           UNCHANGED <<buffer, res, data, ioVars, panic>>
    PROVE  RInv'
<1> DEFINE d == r[1]
           base == BASE_SECTOR(r[2])
           NewBlock(c) == <<dev'[c], sector'[c]>>
<1>1. /\ dev \in [Bios -> Nat] /\ sector \in [Bios -> Nat] /\ flag \in [Bios -> SUBSET Flags]
      /\ iter \in [Bios -> 0..255] /\ pc \in [Procs -> {"idle", "waitHead", "waitBio", "held", "waitIO"}]
      /\ mybio \in [Procs -> 0..MAX_CACHE_COUNT] /\ bio_cache_count \in 0..MAX_CACHE_COUNT
  BY DEF IInv, TypeOK
<1>2. r[2] \in Nat /\ base + ((r[2] - base) % 256) = r[2]
  BY IterExact
<1> HIDE DEF base
<1>3. /\ dev'[b] = d /\ sector'[b] = base /\ sector'[b] + iter'[b] = r[2]
      /\ flag'[b] = f \cup {REFFED}
      /\ \A c \in Bios : c # b => dev'[c] = dev[c] /\ sector'[c] = sector[c]
                                   /\ iter'[c] = iter[c] /\ flag'[c] = flag[c]
  BY <1>1, <1>2 DEF Take, base
<1>4. /\ pc'[p] = "held" /\ mybio'[p] = b
      /\ \A q \in Procs : q # p => pc'[q] = pc[q] /\ mybio'[q] = mybio[q]
  BY <1>1 DEF Take
<1>5. \A q \in Procs : pc[q] # "held" /\ res[q] = "none" /\ data[q] = NoBlock
  BY NoResults DEF CanRun
<1>6. NewBlock(b) = <<d, base>> /\ \A c \in Bios : c # b => NewBlock(c) = Block(c)
  BY <1>3 DEF Block
<1>7. AllListed'
  BY TakeListed DEF RInv
<1>8. bio_cache_count' \in Nat /\ bio_cache_count' <= MAX_CACHE_COUNT
      /\ \A c \in 1..bio_cache_count' : c \in Bios
  BY <1>1, CacheAssumption DEF Bios
<1>9. OwnBlocks'
  <2>1. CASE b <= bio_cache_count /\ bio_cache_count' = bio_cache_count
             /\ Block(b) = <<d, base>>
    <3>1. \A c \in 1..bio_cache_count : NewBlock(c) = Block(c)
      BY <1>6, <1>8, <2>1
    <3>2. /\ \A c \in 1..bio_cache_count : Block(c) \in AskedBlocks
          /\ \A c, e \in 1..bio_cache_count : Block(c) = Block(e) => c = e
      BY DEF RInv, OwnBlocks
    <3>3. AskedBlocks' = AskedBlocks
      BY DEF AskedBlocks, BASE_SECTOR
    <3> QED
      BY <2>1, <3>1, <3>2, <3>3 DEF OwnBlocks, Block
  <2>2. CASE /\ b = bio_cache_count + 1 /\ bio_cache_count' = bio_cache_count + 1
             /\ <<d, base>> \in AskedBlocks
             /\ \A c \in 1..bio_cache_count : Block(c) # <<d, base>>
    <3>0. \A c \in 1..bio_cache_count' : c = b \/ (c \in 1..bio_cache_count /\ c # b)
      BY <1>1, <2>2
    <3>1. \A c \in 1..bio_cache_count : NewBlock(c) = Block(c) /\ c # b
      BY <1>1, <1>6, <1>8, <2>2
    <3>2. /\ \A c \in 1..bio_cache_count : Block(c) \in AskedBlocks
          /\ \A c, e \in 1..bio_cache_count : Block(c) = Block(e) => c = e
      BY DEF RInv, OwnBlocks
    <3>3. AskedBlocks' = AskedBlocks
      BY DEF AskedBlocks, BASE_SECTOR
    <3> HIDE DEF d
    <3>4. \A c \in 1..bio_cache_count' : NewBlock(c) \in AskedBlocks
      BY <1>6, <2>2, <3>0, <3>1, <3>2
    <3>5. \A c, e \in 1..bio_cache_count' : NewBlock(c) = NewBlock(e) => c = e
      BY <1>6, <2>2, <3>0, <3>1, <3>2
    <3> QED
      BY <3>3, <3>4, <3>5 DEF OwnBlocks, Block
  <2> QED
    BY <2>1, <2>2 DEF base
<1>10. Wanted'
  <2>1. ASSUME NEW q \in Procs, q # p
        PROVE  /\ pc'[q] # "waitHead"
               /\ pc'[q] = "waitBio" => NewBlock(mybio[q]) = <<req[q][1], BASE_SECTOR(req[q][2])>>
               /\ pc'[q] # "held"
               /\ pc'[q] = "waitIO" =>
                     /\ dev'[mybio[q]] = req[q][1]
                     /\ sector'[mybio[q]] + iter'[mybio[q]] = req[q][2]
    <3>1. /\ pc[q] # "waitHead"
          /\ pc[q] = "waitBio" => Block(mybio[q]) = <<req[q][1], BASE_SECTOR(req[q][2])>>
          /\ pc[q] = "waitIO" =>
                /\ dev[mybio[q]] = req[q][1]
                /\ sector[mybio[q]] + iter[mybio[q]] = req[q][2]
      BY DEF RInv, Wanted
    <3>2. pc'[q] = pc[q] /\ pc[q] # "held"
      BY <1>4, <1>5, <2>1
    <3>3. pc[q] \in {"waitBio", "waitIO"} => mybio[q] \in Bios /\ mybio[q] <= bio_cache_count
      BY MybioType DEF IInv, Allocated, Head0
    <3>4. pc[q] = "waitIO" => mybio[q] # b
      BY DEF IInv, MutualExclusion, Holds
    <3>5. pc[q] = "waitBio" => NewBlock(mybio[q]) = Block(mybio[q])
      <4> SUFFICES ASSUME pc[q] = "waitBio", mybio[q] = b PROVE NewBlock(b) = Block(b)
        BY <1>6, <3>3
      <4>1. b <= bio_cache_count /\ bio_cache_count \in Nat
        BY <1>1, <3>3
      <4>2. b # bio_cache_count + 1
        BY <4>1 DEF Bios
      <4> QED
        BY <1>6, <4>2 DEF base
    <3> QED
      BY <1>3, <3>1, <3>2, <3>3, <3>4, <3>5
  <2>2. ASSUME NEW q \in Procs, q # p
        PROVE  mybio'[q] = mybio[q] /\ req'[q] = req[q]
    BY <1>4, <2>2
  <2>3. pc'[p] = "held" /\ dev'[mybio'[p]] = req'[p][1]
        /\ sector'[mybio'[p]] + iter'[mybio'[p]] = req'[p][2]
    BY <1>3, <1>4
  <2>5. ASSUME NEW q \in Procs
        PROVE  /\ pc'[q] # "waitHead"
               /\ pc'[q] = "waitBio" => NewBlock(mybio'[q]) = <<req'[q][1], BASE_SECTOR(req'[q][2])>>
               /\ pc'[q] \in {"held", "waitIO"} =>
                     /\ dev'[mybio'[q]] = req'[q][1]
                     /\ sector'[mybio'[q]] + iter'[mybio'[q]] = req'[q][2]
    BY <2>1, <2>2, <2>3
  <2> QED
    BY <2>5 DEF Wanted, Block
<1>11. PendingReads'
  <2>1. ioq' = ioq /\ done' = done /\ buffer' = buffer
    BY DEF ioVars
  <2>2. ASSUME NEW i \in DOMAIN ioq
        PROVE  /\ ioq[i].kind = "read" /\ ioq[i].block = NewBlock(ioq[i].data)
               /\ UPDATED \notin flag'[ioq[i].data]
    <3>1. ioq[i].data \in Bios /\ ioq[i].data # b
      BY PendingBio
    <3> QED
      BY <1>3, <1>6, <3>1 DEF RInv, PendingReads
  <2>3. /\ done.kind # "write"
        /\ done.kind = "read" =>
            /\ UPDATED \notin flag'[done.data]
            /\ ~done.error => buffer[done.data] = NewBlock(done.data)
    <3>1. done.kind = "read" => done.data \in Bios /\ done.data # b
      BY PendingBio
    <3> QED
      BY <1>3, <1>6, <3>1 DEF RInv, PendingReads
  <2> QED
    BY <2>1, <2>2, <2>3 DEF PendingReads, Block
<1>12. Content'
  <2>1. ASSUME NEW c \in Bios, UPDATED \in flag'[c] PROVE buffer'[c] = NewBlock(c)
    <3>1. CASE c # b
      BY <1>3, <1>6, <2>1, <3>1 DEF RInv, Content
    <3>2. CASE c = b
      <4>1. UPDATED \in f
        BY <1>3, <2>1, <3>2 DEF UPDATED, REFFED
      <4>2. f = flag[b] /\ Block(b) = <<d, base>>
        BY <4>1 DEF base
      <4> QED
        BY <1>6, <3>2, <4>1, <4>2 DEF RInv, Content
    <3> QED
      BY <3>1, <3>2
  <2> QED
    BY <2>1 DEF Content, Block
<1>13. Returned' /\ DataIsRequested'
  <2>1. \A q \in Procs : res'[q] = "none" /\ data'[q] = NoBlock
    BY <1>5
  <2> QED
    BY <2>1 DEF Returned, DataIsRequested
<1> QED
  BY <1>7, <1>9, <1>10, <1>11, <1>12, <1>13 DEF RInv

\* A step that leaves the cache, the requests and every process but p as they
\* are; what becomes of p is for the caller to say.
LEMMA LocalRoomy ==
    ASSUME IInv, RInv, NEW p \in Procs,
           UNCHANGED <<lru, bio_cache_count, dev, sector, buffer, ioq, done>>,
           \A b \in Bios : UPDATED \in flag'[b] <=> UPDATED \in flag[b],
           \A q \in Procs : q # p =>
                /\ pc'[q] = pc[q] /\ mybio'[q] = mybio[q] /\ req'[q] = req[q]
                /\ res'[q] = res[q] /\ data'[q] = data[q]
                /\ pc[q] \in {"held", "waitIO"} => iter'[mybio[q]] = iter[mybio[q]],
           pc'[p] # "waitHead",
           pc'[p] = "waitBio" => <<dev[mybio'[p]], sector[mybio'[p]]>> =
                                    <<req'[p][1], BASE_SECTOR(req'[p][2])>>,
           pc'[p] \in {"held", "waitIO"} =>
                /\ dev[mybio'[p]] = req'[p][1]
                /\ sector[mybio'[p]] + iter'[mybio'[p]] = req'[p][2],
           res'[p] # "none" => pc'[p] = "held",
           res'[p] = "ok" => mybio'[p] \in Bios /\ UPDATED \in flag[mybio'[p]],
           res'[p] = "none" => data'[p] = NoBlock,
           res'[p] = "ok" /\ data'[p] # NoBlock => data'[p] = req'[p]
    PROVE  RInv'
<1>1. AllListed' /\ OwnBlocks'
  BY SameBlocks
<1>2. Wanted'
  <2>1. ASSUME NEW q \in Procs
        PROVE  /\ pc'[q] # "waitHead"
               /\ pc'[q] = "waitBio" => <<dev[mybio'[q]], sector[mybio'[q]]>> =
                                            <<req'[q][1], BASE_SECTOR(req'[q][2])>>
               /\ pc'[q] \in {"held", "waitIO"} =>
                     /\ dev[mybio'[q]] = req'[q][1]
                     /\ sector[mybio'[q]] + iter'[mybio'[q]] = req'[q][2]
    <3>1. CASE q = p
      BY <3>1
    <3>2. CASE q # p
      BY <3>2 DEF RInv, Wanted, Block
    <3> QED
      BY <3>1, <3>2
  <2> QED
    BY <2>1 DEF Wanted, Block
<1>3. PendingReads'
  <2>1. ASSUME NEW i \in DOMAIN ioq PROVE UPDATED \notin flag'[ioq[i].data]
    BY PendingBio DEF RInv, PendingReads
  <2>2. done.kind = "read" => UPDATED \notin flag'[done.data]
    BY PendingBio DEF RInv, PendingReads
  <2> QED
    BY <2>1, <2>2 DEF RInv, PendingReads, Block
<1>4. Content'
  BY DEF RInv, Content, Block
<1>5. ASSUME NEW q \in Procs
      PROVE  /\ res'[q] # "none" => pc'[q] = "held"
             /\ res'[q] = "ok" => UPDATED \in flag'[mybio'[q]]
             /\ res'[q] = "none" => data'[q] = NoBlock
             /\ res'[q] = "ok" /\ data'[q] # NoBlock => data'[q] = req'[q]
  <2>1. CASE q = p
    BY <2>1
  <2>2. CASE q # p
    <3>1. pc[q] = "held" => mybio[q] \in Bios
      BY MybioType DEF IInv, Allocated, Head0
    <3> QED
      BY <2>2, <3>1 DEF RInv, Returned, DataIsRequested
  <2> QED
    BY <2>1, <2>2
<1>6. Returned' /\ DataIsRequested'
  BY <1>5 DEF Returned, DataIsRequested
<1> QED
  BY <1>1, <1>2, <1>3, <1>4, <1>6 DEF RInv

\* The loop of bio_get on a bio of the block that was asked for.
LEMMA GetLoopRoomy ==
    ASSUME Roomy, IInv, RInv, NEW p \in Procs, CanRun(p),
           NEW b \in Bios, b <= bio_cache_count, NEW r \in Nat \X Nat,
           Block(b) = <<r[1], BASE_SECTOR(r[2])>>, get_loop(p, b, r),
           req'[p] = r, \A q \in Procs : q # p => req'[q] = req[q],
           UNCHANGED <<buffer, res, data, ioVars, panic>>
    PROVE  RInv'
<1>1. \A q \in Procs : pc[q] # "held" /\ res[q] = "none" /\ data[q] = NoBlock
  BY NoResults DEF CanRun
<1>2. CASE sleep_wait_bio(p, b, "waitBio") /\ UNCHANGED <<lru, bio_cache_count, flag, dev, sector, iter>>
  <2>1. /\ pc'[p] = "waitBio" /\ mybio'[p] = b
        /\ \A q \in Procs : q # p => pc'[q] = pc[q] /\ mybio'[q] = mybio[q]
    BY <1>2 DEF sleep_wait_bio, IInv, TypeOK
  <2> QED
    BY <1>1, <1>2, <2>1, LocalRoomy DEF ioVars, Block
<1>3. CASE /\ ~Busy(b) /\ Take(p, b, flag[b], dev[b], sector[b], r[2])
           /\ UNCHANGED bio_cache_count
  <2>1. dev[b] = r[1] /\ sector[b] = BASE_SECTOR(r[2])
    BY DEF Block
  <2>2. Take(p, b, flag[b], r[1], BASE_SECTOR(r[2]), r[2])
    BY <1>3, <2>1
  <2>3. REFFED \notin flag[b] /\ flag[b] \in SUBSET Flags
    BY <1>3 DEF Busy, IInv, TypeOK
  <2> QED
    BY <1>3, <2>2, <2>3, TakeRoomy
<1> QED
  BY <1>2, <1>3 DEF get_loop

\* bio_get and its continuations in a roomy cache: nobody waits for any bio at
\* all, and no bio changes its block.
LEMMA GetRoomy ==
    ASSUME Roomy, IInv, RInv, NEW p \in Procs,
           bio_get(p) \/ alloc_bio_resume(p) \/ bio_get_resume(p)
    PROVE  RInv'
<1> USE CacheAssumption
<1>1. CASE bio_get(p)
  <2>1. CanRun(p) /\ UNCHANGED <<buffer, res, data, ioVars, panic>>
    BY <1>1 DEF bio_get
  <2>2. PICK r \in Devs \X Sectors :
          /\ req' = [req EXCEPT ![p] = r]
          /\ \/ \E b \in find_bio(r[1], BASE_SECTOR(r[2])) : get_loop(p, b, r)
             \/ /\ find_bio(r[1], BASE_SECTOR(r[2])) = {}
                /\ alloc_bio(p, r)
    BY <1>1 DEF bio_get
  <2>3. r \in Nat \X Nat /\ r[1] \in Devs /\ r[2] \in Sectors
    BY RequestType
  <2>4. req'[p] = r /\ \A q \in Procs : q # p => req'[q] = req[q]
    BY <2>2 DEF IInv, TypeOK
  <2>5. <<r[1], BASE_SECTOR(r[2])>> \in AskedBlocks
    BY <2>3 DEF AskedBlocks
  <2>6. ASSUME NEW b \in find_bio(r[1], BASE_SECTOR(r[2])), get_loop(p, b, r)
        PROVE  RInv'
    <3>1. b \in Bios /\ b <= bio_cache_count
      BY <2>6, Searches
    <3>2. Block(b) = <<r[1], BASE_SECTOR(r[2])>>
      BY <2>6 DEF find_bio, Matches, Block
    <3> QED
      BY <2>1, <2>3, <2>4, <2>6, <3>1, <3>2, GetLoopRoomy
  <2>7. CASE find_bio(r[1], BASE_SECTOR(r[2])) = {} /\ alloc_bio(p, r)
    <3>1. \A b \in 1..bio_cache_count : ~Matches(b, r[1], BASE_SECTOR(r[2]))
      BY <2>7, MissMeansAbsent DEF RInv
    <3>2. \A b \in 1..bio_cache_count : Block(b) # <<r[1], BASE_SECTOR(r[2])>>
      BY <3>1 DEF Matches, Block
    <3>3. bio_cache_count < MAX_CACHE_COUNT /\ bio_cache_count \in Nat
      <4>1. bio_cache_count < MAX_CACHE_COUNT
        BY <2>5, <3>2, RoomLeft
      <4>2. bio_cache_count \in 0..MAX_CACHE_COUNT
        BY DEF IInv, TypeOK
      <4> QED
        BY <4>1, <4>2
    <3>4. bio_cache_count # MAX_CACHE_COUNT
      BY <3>3
    <3>5. /\ bio_cache_count' = bio_cache_count + 1
          /\ Take(p, bio_cache_count + 1, {}, r[1], BASE_SECTOR(r[2]), r[2])
      BY <2>7, <3>4 DEF alloc_bio, Roomy
    <3>6. bio_cache_count + 1 \in Bios
      BY <3>3 DEF Bios
    <3>7. ASSUME NEW q \in Procs PROVE ~Holds(q, bio_cache_count + 1)
      BY <3>3, MybioType DEF IInv, Allocated, Holds
    <3>8. REFFED \notin flag[bio_cache_count + 1] /\ {} \in SUBSET Flags
      BY <3>6, <3>7 DEF IInv, MutualExclusion
    <3> DEFINE b == bio_cache_count + 1
    <3>9. b \in Bios /\ REFFED \notin flag[b]
      BY <3>6, <3>8
    <3>10. /\ b = bio_cache_count + 1 /\ bio_cache_count' = bio_cache_count + 1
           /\ Take(p, b, {}, r[1], BASE_SECTOR(r[2]), r[2])
      BY <3>5
    <3> HIDE DEF b
    <3> QED
      BY <2>1, <2>3, <2>4, <2>5, <3>2, <3>8, <3>9, <3>10, TakeRoomy
  <2> QED
    BY <2>2, <2>6, <2>7
<1>2. CASE alloc_bio_resume(p)
  BY <1>2 DEF alloc_bio_resume, RInv, Wanted
<1>3. CASE bio_get_resume(p)
  <2>1. /\ CanRun(p) /\ pc[p] = "waitBio" /\ get_loop(p, mybio[p], req[p])
        /\ UNCHANGED <<buffer, req, res, data, ioVars, panic>>
    BY <1>3 DEF bio_get_resume
  <2>2. mybio[p] \in Bios /\ mybio[p] <= bio_cache_count
    BY <2>1, MybioType DEF IInv, Allocated, Head0
  <2>3. Block(mybio[p]) = <<req[p][1], BASE_SECTOR(req[p][2])>>
    BY <2>1 DEF RInv, Wanted
  <2>4. req[p] \in Nat \X Nat /\ req'[p] = req[p] /\ \A q \in Procs : q # p => req'[q] = req[q]
    BY <2>1 DEF IInv, TypeOK
  <2> QED
    BY <2>1, <2>2, <2>3, <2>4, GetLoopRoomy
<1> QED
  BY <1>1, <1>2, <1>3

\* What the holder of a bio does with it in a roomy cache.
LEMMA HolderRoomy ==
    ASSUME Roomy, IInv, RInv, NEW p \in Procs,
           \/ bio_read_cached(p) \/ bio_data(p) \/ bio_advance_iter(p)
           \/ bio_read_resume(p) \/ bio_release(p)
    PROVE  RInv'
<1>1. /\ flag \in [Bios -> SUBSET Flags] /\ iter \in [Bios -> 0..255]
      /\ dev \in [Bios -> Nat] /\ sector \in [Bios -> Nat]
      /\ pc \in [Procs -> {"idle", "waitHead", "waitBio", "held", "waitIO"}]
      /\ mybio \in [Procs -> 0..MAX_CACHE_COUNT] /\ req \in [Procs -> Nat \X Nat]
      /\ res \in [Procs -> {"none", "ok", "fail", "written"}]
      /\ data \in [Procs -> Blocks \cup {NoBlock, Garbage}]
  BY DEF IInv, TypeOK
<1>2. /\ pc[p] \in {"held", "waitIO"} => /\ dev[mybio[p]] = req[p][1]
                                         /\ sector[mybio[p]] + iter[mybio[p]] = req[p][2]
      /\ res[p] # "none" => pc[p] = "held"
      /\ res[p] = "ok" => UPDATED \in flag[mybio[p]]
      /\ res[p] = "none" => data[p] = NoBlock
      /\ res[p] = "ok" /\ data[p] # NoBlock => data[p] = req[p]
  BY DEF RInv, Wanted, Returned, DataIsRequested
<1>3. pc[p] \in {"held", "waitIO"} => mybio[p] \in Bios
  BY MybioType DEF IInv, Allocated, Head0
<1>4. CASE bio_read_cached(p)
  <2>1. /\ pc[p] = "held" /\ res[p] = "none" /\ UPDATED \in flag[mybio[p]]
        /\ res' = [res EXCEPT ![p] = "ok"]
        /\ UNCHANGED <<lru, bio_cache_count, flag, dev, sector, iter, buffer, pc, mybio, req,
                       data, ioq, done>>
    BY <1>4 DEF bio_read_cached, InKernel, cacheVars, ioVars
  <2>2. res'[p] = "ok" /\ \A q \in Procs : q # p => res'[q] = res[q]
    BY <1>1, <2>1
  <2> QED
    BY <1>2, <1>3, <2>1, <2>2, LocalRoomy
<1>5. CASE bio_data(p)
  <2> DEFINE b == mybio[p]
  <2>1. /\ pc[p] = "held" /\ res[p] # "none"
        /\ \/ data' = [data EXCEPT ![p] = IF buffer[b] = Garbage THEN Garbage
                                          ELSE <<buffer[b][1], buffer[b][2] + iter[b]>>]
           \/ data' = data
        /\ UNCHANGED <<lru, bio_cache_count, flag, dev, sector, iter, buffer, pc, mybio, req,
                       res, ioq, done>>
    BY <1>5 DEF bio_data, InKernel, cacheVars, ioVars
  <2>2. \A q \in Procs : q # p => data'[q] = data[q]
    BY <1>1, <2>1
  <2>3. ASSUME res[p] = "ok", data'[p] # NoBlock PROVE data'[p] = req[p]
    <3>1. b \in Bios /\ buffer[b] = <<dev[b], sector[b]>>
      BY <1>2, <1>3, <2>1, <2>3 DEF RInv, Content, Block
    <3>2. buffer[b] # Garbage /\ buffer[b][1] = dev[b] /\ buffer[b][2] = sector[b]
      BY <3>1 DEF Garbage
    <3>3. CASE data' = data
      BY <1>2, <2>3, <3>3
    <3>4. CASE data'[p] = <<buffer[b][1], buffer[b][2] + iter[b]>>
      <4>1. data'[p] = <<req[p][1], req[p][2]>>
        BY <1>2, <2>1, <3>2, <3>4
      <4>2. req[p] \in Nat \X Nat
        BY <1>1
      <4> QED
        BY <4>1, <4>2
    <3> QED
      BY <1>1, <2>1, <3>2, <3>3, <3>4
  <2> HIDE DEF b
  <2> QED
    BY <1>2, <1>3, <2>1, <2>2, <2>3, LocalRoomy
<1>6. CASE bio_advance_iter(p)
  <2> DEFINE b == mybio[p]
  <2>1. /\ pc[p] = "held" /\ iter[b] < SECTORS_PER_BIO
        /\ iter' = [iter EXCEPT ![b] = (@ + 1) % 256]
        /\ req' = [req EXCEPT ![p] = <<@[1], @[2] + 1>>]
        /\ data' = [data EXCEPT ![p] = NoBlock]
        /\ UNCHANGED <<lru, bio_cache_count, flag, dev, sector, buffer, pc, mybio, res, ioq, done>>
    BY <1>6 DEF bio_advance_iter, InKernel, ioVars
  <2>2. b \in Bios /\ iter[b] \in 0..255 /\ sector[b] \in Nat
    BY <1>1, <1>3, <2>1
  <2>3. iter'[b] = iter[b] + 1
    <3>1. SECTORS_PER_BIO \in Nat /\ SECTORS_PER_BIO <= 255
      BY SpbAssumption DEF Roomy
    <3>2. iter[b] + 1 \in 0..255
      BY <2>1, <2>2, <3>1
    <3>3. (iter[b] + 1) % 256 = iter[b] + 1
      BY <3>2
    <3> HIDE DEF b
    <3> QED
      BY <1>1, <2>1, <2>2, <3>3
  <2>4. req'[p] = <<req[p][1], req[p][2] + 1>> /\ req[p][2] \in Nat
    BY <1>1, <2>1
  <2>5. dev[b] = req'[p][1] /\ sector[b] + iter'[b] = req'[p][2]
    <3>1. sector[b] + iter[b] = req[p][2] /\ dev[b] = req[p][1]
      BY <1>2, <2>1
    <3> HIDE DEF b
    <3> QED
      BY <2>2, <2>3, <2>4, <3>1
  <2>6. data'[p] = NoBlock /\ \A q \in Procs : q # p => data'[q] = data[q] /\ req'[q] = req[q]
    BY <1>1, <2>1
  <2>7. ASSUME NEW q \in Procs, q # p, pc[q] \in {"held", "waitIO"}
        PROVE  iter'[mybio[q]] = iter[mybio[q]]
    <3>1. mybio[q] \in Bios /\ mybio[q] # b
      BY <2>1, <2>2, <2>7, MybioType DEF IInv, Allocated, Head0, MutualExclusion, Holds
    <3> HIDE DEF b
    <3> QED
      BY <1>1, <2>1, <2>2, <3>1
  <2> QED
    BY <1>2, <1>3, <2>1, <2>5, <2>6, <2>7, LocalRoomy
<1>7. CASE bio_read_resume(p)
  <2>1. /\ pc[p] = "waitIO" /\ pc' = [pc EXCEPT ![p] = "held"]
        /\ res' = [res EXCEPT ![p] = IF UPDATED \in flag[mybio[p]] THEN "ok" ELSE "fail"]
        /\ UNCHANGED <<lru, bio_cache_count, flag, dev, sector, iter, buffer, mybio, req,
                       data, ioq, done>>
    BY <1>7 DEF bio_read_resume, cacheVars, ioVars
  <2>2. /\ pc'[p] = "held" /\ res'[p] \in {"ok", "fail"}
        /\ res'[p] = "ok" => UPDATED \in flag[mybio[p]]
        /\ \A q \in Procs : q # p => pc'[q] = pc[q] /\ res'[q] = res[q]
    BY <1>1, <2>1
  <2>3. data[p] = NoBlock
    BY <1>2, <2>1
  <2> QED
    BY <1>2, <1>3, <2>1, <2>2, <2>3, LocalRoomy
<1>8. CASE bio_release(p)
  <2>1. /\ pc[p] = "held" /\ flag' = [flag EXCEPT ![mybio[p]] = @ \ {REFFED}]
        /\ pc' = [pc EXCEPT ![p] = "idle"]
        /\ mybio' = [mybio EXCEPT ![p] = 0]
        /\ req' = [req EXCEPT ![p] = <<0, 0>>]
        /\ res' = [res EXCEPT ![p] = "none"]
        /\ data' = [data EXCEPT ![p] = NoBlock]
        /\ UNCHANGED <<lru, bio_cache_count, dev, sector, iter, buffer, ioq, done>>
    BY <1>8 DEF bio_release, InKernel, ioVars
  <2>2. /\ pc'[p] = "idle" /\ res'[p] = "none" /\ data'[p] = NoBlock
        /\ \A q \in Procs : q # p => /\ pc'[q] = pc[q] /\ mybio'[q] = mybio[q]
                                     /\ req'[q] = req[q] /\ res'[q] = res[q]
                                     /\ data'[q] = data[q]
    BY <1>1, <2>1
  <2>3. \A b \in Bios : UPDATED \in flag'[b] <=> UPDATED \in flag[b]
    BY <1>1, <1>3, <2>1 DEF UPDATED, REFFED
  <2> QED
    BY <2>1, <2>2, <2>3, LocalRoomy
<1> QED
  BY <1>4, <1>5, <1>6, <1>7, <1>8

\* bio_read queues a request for the block of its bio.
LEMMA ReadRoomy ==
    ASSUME Roomy, IInv, RInv, NEW p \in Procs, bio_read(p)
    PROVE  RInv'
<1> DEFINE b == mybio[p]
           n == Len(ioq)
           x == Request("read", b, b)
<1>1. /\ pc[p] = "held" /\ InKernel(p) /\ res[p] = "none" /\ UPDATED \notin flag[b]
      /\ ioq' = Append(ioq, x)
      /\ pc' = [pc EXCEPT ![p] = "waitIO"]
      /\ UNCHANGED <<lru, bio_cache_count, flag, dev, sector, iter, buffer, mybio, req, res,
                     data, done>>
  BY DEF bio_read, InKernel, cacheVars, sleep_wait_bio_complete
<1>2. b \in Bios
  BY <1>1, HeldNotPending
<1>3. /\ x.kind = "read" /\ x.data = b /\ x.block = Block(b)
  BY DEF Request, Block
<1>4. x \in Requests
  <2>1. dev[b] \in Nat /\ sector[b] \in Nat /\ b \in 0..MAX_CACHE_COUNT
    BY <1>2 DEF IInv, TypeOK, Bios
  <2>2. <<dev[b], sector[b]>> \in Blocks
    BY <2>1 DEF Blocks
  <2> HIDE DEF b
  <2> QED
    BY <1>2, <2>1, <2>2 DEF Request, Requests
<1> HIDE DEF x
<1>5. /\ n \in Nat /\ DOMAIN ioq = 1..n /\ DOMAIN ioq' = 1..(n + 1)
      /\ \A i \in 1..n : ioq'[i] = ioq[i]
      /\ ioq'[n + 1] = x
  <2>1. ioq \in Seq(Requests) /\ n \in Nat /\ DOMAIN ioq = 1..n
    BY Queue DEF IInv
  <2>2. /\ ioq' \in Seq(Requests) /\ Len(ioq') = n + 1
        /\ \A i \in 1..n : ioq'[i] = ioq[i] /\ ioq'[n + 1] = x
    BY <1>1, <1>4, <2>1, AppendProperties
  <2>3. ioq'[n + 1] = x
    BY <1>1, <1>4, <2>1, AppendProperties
  <2> QED
    BY <2>1, <2>2, <2>3, LenProperties
<1>6. PendingReads'
  <2>1. \A i \in DOMAIN ioq' : i \in DOMAIN ioq \/ i = n + 1
    BY <1>5
  <2> HIDE DEF n, b
  <2>2. ASSUME NEW i \in DOMAIN ioq'
        PROVE  /\ ioq'[i].kind = "read" /\ UPDATED \notin flag[ioq'[i].data]
               /\ ioq'[i].block = <<dev[ioq'[i].data], sector[ioq'[i].data]>>
    <3>1. CASE i \in DOMAIN ioq
      BY <1>5, <3>1 DEF RInv, PendingReads, Block
    <3>2. CASE i = n + 1
      BY <1>1, <1>3, <1>5, <3>2 DEF Block
    <3> QED
      BY <2>1, <3>1, <3>2
  <2> QED
    BY <1>1, <2>2 DEF RInv, PendingReads, Block
<1>7. AllListed' /\ OwnBlocks'
  BY <1>1, SameBlocks
<1>8. pc'[p] = "waitIO" /\ \A q \in Procs : q # p => pc'[q] = pc[q]
  BY <1>1 DEF IInv, TypeOK
<1>9. Wanted'
  BY <1>1, <1>8 DEF RInv, Wanted, Block
<1>10. Content'
  BY <1>1 DEF RInv, Content, Block
<1>11. Returned' /\ DataIsRequested'
  BY <1>1, <1>8 DEF RInv, Returned, DataIsRequested
<1> QED
  BY <1>6, <1>7, <1>9, <1>10, <1>11 DEF RInv

\* The disk fills the buffer of the oldest request, or fails.
LEMMA IoCompleteRoomy ==
    ASSUME IInv, RInv, NEW e \in BOOLEAN, io_complete(e)
    PROVE  RInv'
<1> DEFINE x == Head(ioq)
           n == Len(ioq)
<1>1. /\ ioq # <<>> /\ ioq' = Tail(ioq) /\ done = NoIo
      /\ done' = [kind |-> x.kind, data |-> x.data, bio |-> x.bio, error |-> e,
                  proc |-> IF x.kind = "read" /\ sleep[x.data] # <<>>
                           THEN Head(sleep[x.data]) ELSE NoProc]
      /\ x.kind = "read" => buffer' = [buffer EXCEPT ![x.bio] = IF e THEN Garbage ELSE x.block]
      /\ UNCHANGED <<lru, bio_cache_count, flag, dev, sector, iter, pc, mybio, req, res, data>>
  BY DEF io_complete, procVars
<1>2. /\ n \in Nat /\ DOMAIN ioq = 1..n /\ 1 \in DOMAIN ioq /\ x = ioq[1]
      /\ DOMAIN ioq' = 1..(n - 1) /\ \A i \in 1..(n - 1) : ioq'[i] = ioq[i + 1]
  <2>1. ioq \in Seq(Requests) /\ n \in Nat /\ DOMAIN ioq = 1..n
    BY Queue DEF IInv
  <2>2. x = ioq[1] /\ n # 0
    BY <1>1, <2>1
  <2>3. Tail(ioq) \in Seq(Requests) /\ Len(Tail(ioq)) = n - 1
        /\ \A i \in 1..(n - 1) : Tail(ioq)[i] = ioq[i + 1]
    BY <1>1, <2>1, HeadTailProperties
  <2> QED
    BY <1>1, <2>1, <2>2, <2>3, LenProperties
<1> HIDE DEF x, n
<1>3. /\ x.kind = "read" /\ x.data \in Bios /\ x.bio = x.data
      /\ x.block = Block(x.data) /\ UPDATED \notin flag[x.data]
  BY <1>2, PendingBio DEF RInv, PendingReads
<1>4. /\ done'.kind = "read" /\ done'.data = x.data /\ done'.error = e
  BY <1>1, <1>3
<1>5. /\ ~e => buffer'[x.data] = Block(x.data)
      /\ \A b \in Bios : b # x.data => buffer'[b] = buffer[b]
  BY <1>1, <1>3 DEF IInv, TypeOK
<1>6. PendingReads'
  <2>1. ASSUME NEW i \in DOMAIN ioq'
        PROVE  /\ ioq'[i].kind = "read" /\ UPDATED \notin flag[ioq'[i].data]
               /\ ioq'[i].block = <<dev[ioq'[i].data], sector[ioq'[i].data]>>
    <3>1. i + 1 \in DOMAIN ioq /\ ioq'[i] = ioq[i + 1]
      BY <1>2
    <3> QED
      BY <3>1 DEF RInv, PendingReads, Block
  <2> QED
    BY <1>1, <1>3, <1>4, <1>5, <2>1 DEF PendingReads, Block
<1>7. AllListed' /\ OwnBlocks'
  BY <1>1, SameBlocks
<1>8. Wanted' /\ Returned' /\ DataIsRequested'
  BY <1>1 DEF RInv, Wanted, Returned, DataIsRequested, Block
<1>9. Content'
  BY <1>1, <1>3, <1>5 DEF RInv, Content, Block
<1> QED
  BY <1>6, <1>7, <1>8, <1>9 DEF RInv

\* ide_read_complete marks a bio up to date whose buffer holds its block.
LEMMA ReadCompleteRoomy ==
    ASSUME IInv, RInv, ide_read_complete
    PROVE  RInv'
<1> DEFINE b == done.data
<1>1. /\ done.kind = "read" /\ done' = NoIo
      /\ flag' = IF done.error THEN flag ELSE [flag EXCEPT ![b] = @ \cup {UPDATED}]
      /\ UNCHANGED <<lru, bio_cache_count, dev, sector, iter, buffer, pc, mybio, req, res,
                     data, ioq>>
  BY DEF ide_read_complete, procVars
<1>2. b \in Bios /\ \A i \in DOMAIN ioq : ioq[i].data \in Bios /\ ioq[i].data # b
  BY <1>1 DEF IInv, OneReadPerBio, RInv, PendingReads
<1>3. flag \in [Bios -> SUBSET Flags] /\ done'.kind = "none"
  BY <1>1 DEF IInv, TypeOK, NoIo
<1>4. ~done.error => buffer[b] = Block(b)
  BY <1>1 DEF RInv, PendingReads
<1> HIDE DEF b
<1>5. /\ \A c \in Bios : c # b => flag'[c] = flag[c]
      /\ \A c \in Bios : UPDATED \in flag[c] => UPDATED \in flag'[c]
      /\ UPDATED \in flag'[b] => UPDATED \in flag[b] \/ ~done.error
  BY <1>1, <1>2, <1>3
<1>6. AllListed' /\ OwnBlocks'
  BY <1>1, SameBlocks
<1>7. Wanted' /\ DataIsRequested'
  BY <1>1 DEF RInv, Wanted, DataIsRequested, Block
<1>8. PendingReads'
  BY <1>1, <1>2, <1>3, <1>5 DEF RInv, PendingReads, Block
<1>9. Content'
  BY <1>1, <1>2, <1>4, <1>5 DEF RInv, Content, Block
<1>10. Returned'
  <2>1. ASSUME NEW q \in Procs, res[q] = "ok" PROVE UPDATED \in flag'[mybio[q]]
    <3>1. pc[q] = "held" /\ UPDATED \in flag[mybio[q]]
      BY <2>1 DEF RInv, Returned
    <3>2. mybio[q] \in Bios
      BY <3>1, MybioType DEF IInv, Allocated, Head0
    <3> QED
      BY <1>5, <3>1, <3>2
  <2> QED
    BY <1>1, <2>1 DEF RInv, Returned
<1> QED
  BY <1>6, <1>7, <1>8, <1>9, <1>10 DEF RInv

\* Every step preserves the invariant of a roomy cache.
LEMMA StepRInv ==
    ASSUME Roomy, IInv, RInv, [Next]_vars
    PROVE  RInv'
<1>1. ASSUME NEW p \in Procs, resume(p) \/ bio_get(p) PROVE RInv'
  BY <1>1, GetRoomy, HolderRoomy DEF resume
<1>2. ASSUME NEW p \in Procs,
             \/ bio_read_cached(p) \/ bio_data(p) \/ bio_advance_iter(p) \/ bio_release(p)
      PROVE  RInv'
  BY <1>2, HolderRoomy
<1>3. ASSUME NEW p \in Procs, bio_read(p) PROVE RInv'
  BY <1>3, ReadRoomy
<1>4. ASSUME NEW p \in Procs, bio_write(p) PROVE FALSE
  BY <1>4 DEF bio_write, Roomy
<1>5. CASE ktask
  <2>1. ~ide_write_complete
    BY DEF ide_write_complete, RInv, PendingReads
  <2> QED
    BY <1>5, <2>1, IoCompleteRoomy, ReadCompleteRoomy DEF ktask
<1>6. CASE UNCHANGED vars
  BY <1>6 DEF vars, cacheVars, procVars, ioVars, RInv, AllListed, OwnBlocks, Wanted,
              PendingReads, Content, Returned, DataIsRequested, Block
<1> QED
  BY <1>1, <1>2, <1>3, <1>4, <1>5, <1>6 DEF Next, Halted

\* bio_initialize establishes it.
LEMMA InitRInv == Init => RInv
<1> SUFFICES ASSUME Init PROVE RInv
  OBVIOUS
<1>1. /\ DOMAIN lru = {} /\ DOMAIN ioq = {} /\ done.kind = "none" /\ 1..bio_cache_count = {}
      /\ \A b \in Bios : flag[b] = {}
      /\ \A p \in Procs : pc[p] = "idle" /\ res[p] = "none" /\ data[p] = NoBlock
  BY DEF Init, NoIo
<1>2. AllListed /\ OwnBlocks
  BY <1>1 DEF AllListed, OwnBlocks
<1>3. Wanted /\ Returned /\ DataIsRequested
  BY <1>1 DEF Wanted, Returned, DataIsRequested
<1>4. PendingReads /\ Content
  BY <1>1 DEF PendingReads, Content
<1> QED
  BY <1>2, <1>3, <1>4 DEF RInv

\* The invariant of a roomy cache holds in every reachable state of one.
THEOREM RoomyInvariance ==
    ASSUME Roomy PROVE Spec => []RInv
<1>1. IInv /\ RInv /\ [Next]_vars => RInv'
  BY StepRInv
<1> QED
  BY <1>1, InitRInv, Invariance, PTL DEF Spec

\* In a cache with a bio for every block, bio_get returns the bio of the block
\* that was asked for with its iterator on the sector: the wait in alloc_bio,
\* after which the block is not looked up again, never happens.
THEOREM RightBio ==
    ASSUME Roomy PROVE Spec => []HeldIsRequested
<1>1. RInv => HeldIsRequested
  BY DEF RInv, Wanted, HeldIsRequested
<1> QED
  BY <1>1, RoomyInvariance, PTL

\* There, what bio_data shows after a successful bio_read is the sector asked
\* for, whatever reads fail and whoever reads the block at the same time.
THEOREM RightData ==
    ASSUME Roomy PROVE Spec => []DataIsRequested
<1>1. RInv => DataIsRequested
  BY DEF RInv
<1> QED
  BY <1>1, RoomyInvariance, PTL

\* There, no two bios of the list cache the same block.
THEOREM BlocksCachedOnce ==
    ASSUME Roomy PROVE Spec => []OneBioPerBlock
<1>1. RInv => OneBioPerBlock
  <2> SUFFICES ASSUME RInv, NEW i \in DOMAIN lru, NEW j \in DOMAIN lru, i # j,
                      Matches(lru[i], dev[lru[j]], sector[lru[j]])
               PROVE  FALSE
    BY DEF OneBioPerBlock
  <2>1. lru[i] \in 1..bio_cache_count /\ lru[j] \in 1..bio_cache_count /\ lru[i] # lru[j]
    BY DEF RInv, AllListed
  <2> QED
    BY <2>1 DEF RInv, OwnBlocks, Matches, Block
<1> QED
  BY <1>1, RoomyInvariance, PTL
=============================================================================
