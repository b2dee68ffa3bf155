----------------------------- MODULE SchedProofs -----------------------------
(***************************************************************************)
(* Proofs about Sched: the process table, the process list and the values  *)
(* fork returns are right for every PROC_MAX_NUM and every number of       *)
(* process objects that slab_alloc does not exhaust.                       *)
(***************************************************************************)
EXTENDS Sched, NatFacts, SequenceTheorems

\* The kernel task is process 0, never sleeps, dies or forks.
KtaskRuns == state[Ktask] = "RUNNING" /\ pid[Ktask] = 0 /\ at[Ktask] = "user"

\* current_proc is not released, and it can run while the CPU is in it.
CurrentIsLive ==
    /\ current_proc # NULL => current_proc \in Live
    /\ cpu = "process" => current_proc # NULL /\ state[current_proc] = "RUNNING"

\* sched_task is set only while the scheduler is about to serve current_proc.
ForkIsServed ==
    sched_task = "fork" =>
        cpu = "scheduler" /\ current_proc # NULL /\ at[current_proc] = "parent"

Asking(p) == sched_task = "fork" /\ p = current_proc

\* ForkTells, without losing sight of the other parents while one is asking.
ForkAnswered ==
    \A p \in Live :
        /\ at[p] = "child" => retvalue[p] = 0
        /\ at[p] = "parent" /\ ~Asking(p) => retvalue[p] \notin {0, pid[p]}

IInv == /\ TypeOK /\ PidsMatch /\ ListIsLive
        /\ KtaskRuns /\ CurrentIsLive /\ ForkIsServed /\ ForkAnswered

-----------------------------------------------------------------------------
(* sched_remove.                                                           *)

\* The equation of the recursive function in sched_remove, up to k.
IsKept(w, s, k, dead) ==
    w = [n \in 0..k |-> IF n = 0 THEN <<>>
                        ELSE IF s[n] \in dead THEN w[n - 1] ELSE Append(w[n - 1], s[n])]

\* The recursive function inside sched_remove is the one its equation names.
LEMMA KeptExists ==
    ASSUME NEW S, NEW s \in Seq(S), NEW dead
    PROVE  \E w : IsKept(w, s, Len(s), dead)
<1> DEFINE eq(w, k) == IsKept(w, s, k, dead)
           good == {k \in Nat : \E w : eq(w, k)}
<1>1. 0 \in good
  <2>1. eq([n \in 0..0 |-> <<>>], 0)
    BY DEF IsKept
  <2>. QED BY <2>1
<1>2. ASSUME NEW k \in Nat, k \in good PROVE k + 1 \in good
  <2>1. PICK w : eq(w, k)
    BY <1>2
  <2> DEFINE last == IF s[k + 1] \in dead THEN w[k] ELSE Append(w[k], s[k + 1])
             v == [n \in 0..k + 1 |-> IF n = k + 1 THEN last ELSE w[n]]
             body(n) == IF n = 0 THEN <<>>
                        ELSE IF s[n] \in dead THEN v[n - 1] ELSE Append(v[n - 1], s[n])
  <2>2. ASSUME NEW n \in 0..k + 1 PROVE v[n] = body(n)
    <3>1. CASE n = k + 1
      BY <3>1
    <3>2. CASE n = 0
      BY <3>2, <2>1 DEF IsKept
    <3>3. CASE n \in 1..k
      <4>1. v[n] = w[n] /\ v[n - 1] = w[n - 1] /\ n \in 0..k
        BY <3>3
      <4>. QED BY <4>1, <2>1, <3>3 DEF IsKept
    <3>. QED BY <3>1, <3>2, <3>3
  <2>3. v = [n \in 0..k + 1 |-> body(n)]
    BY <2>2
  <2>4. eq(v, k + 1)
    BY <2>3 DEF IsKept
  <2>5. k + 1 \in Nat
    OBVIOUS
  <2> HIDE DEF eq, v
  <2>. QED BY <2>4, <2>5
<1>3. Nat \subseteq good
  <2> HIDE DEF good
  <2>. QED BY <1>1, <1>2, Induction
<1>4. Len(s) \in good
  <2>1. Len(s) \in Nat
    OBVIOUS
  <2> HIDE DEF good
  <2>. QED BY <1>3, <2>1
<1>. QED BY <1>4

\* sched_remove takes the dead out of the list, and nothing else: what is left
\* is there as often as before.
LEMMA RemoveFacts ==
    ASSUME NEW S, NEW s \in Seq(S), NEW dead,
           \A i, j \in DOMAIN s : i # j => s[i] # s[j]
    PROVE  /\ sched_remove(s, dead) \in Seq(S)
           /\ {sched_remove(s, dead)[i] : i \in DOMAIN sched_remove(s, dead)}
                = {s[i] : i \in DOMAIN s} \ dead
           /\ \A i, j \in DOMAIN sched_remove(s, dead) :
                i # j => sched_remove(s, dead)[i] # sched_remove(s, dead)[j]
<1> DEFINE kept == CHOOSE w : IsKept(w, s, Len(s), dead)
<1>1. IsKept(kept, s, Len(s), dead)
  BY KeptExists
<1>2. sched_remove(s, dead) = kept[Len(s)]
  BY DEF sched_remove, IsKept
<1> HIDE DEF kept
<1> DEFINE Good(k) == /\ kept[k] \in Seq(S)
                      /\ \A x : (\E i \in DOMAIN kept[k] : kept[k][i] = x)
                                 <=> (x \notin dead /\ \E i \in 1..k : s[i] = x)
                      /\ \A i, j \in DOMAIN kept[k] : i # j => kept[k][i] # kept[k][j]
           good == {k \in Nat : k <= Len(s) => Good(k)}
<1>3. 0 \in good
  <2>1. kept[0] = <<>>
    BY <1>1 DEF IsKept
  <2>2. \A i \in 1..0 : FALSE
    OBVIOUS
  <2>3. Good(0)
    BY <2>1, <2>2
  <2> HIDE DEF Good
  <2>. QED BY <2>3
<1>4. ASSUME NEW k \in Nat, k \in good PROVE k + 1 \in good
  <2> SUFFICES ASSUME k + 1 <= Len(s) PROVE Good(k + 1)
    OBVIOUS
  <2>1. Good(k)
    BY <1>4
  <2>2. s[k + 1] \in S /\ k + 1 \in DOMAIN s
    OBVIOUS
  <2>3. kept[k + 1] = IF s[k + 1] \in dead THEN kept[k] ELSE Append(kept[k], s[k + 1])
    <3>1. k + 1 \in 0..Len(s) /\ k + 1 # 0 /\ (k + 1) - 1 = k
      OBVIOUS
    <3>. QED BY <1>1, <3>1 DEF IsKept
  <2>4. \A x : (\E i \in 1..k + 1 : s[i] = x) <=> (x = s[k + 1] \/ \E i \in 1..k : s[i] = x)
    <3>1. \A i \in 1..k + 1 : i \in 1..k \/ i = k + 1
      OBVIOUS
    <3>2. 1..k \subseteq 1..k + 1 /\ k + 1 \in 1..k + 1
      OBVIOUS
    <3>. QED BY <3>1, <3>2
  <2>5. CASE s[k + 1] \in dead
    <3>1. kept[k + 1] = kept[k]
      BY <2>3, <2>5
    <3>2. \A x : (x \notin dead /\ \E i \in 1..k + 1 : s[i] = x)
                  <=> (x \notin dead /\ \E i \in 1..k : s[i] = x)
      BY <2>4, <2>5
    <3>. QED BY <2>1, <3>1, <3>2
  <2>6. CASE s[k + 1] \notin dead
    <3> DEFINE t == kept[k]
               u == kept[k + 1]
    <3>1. u = Append(t, s[k + 1]) /\ t \in Seq(S)
      BY <2>1, <2>3, <2>6
    <3>2. /\ u \in Seq(S) /\ Len(u) = Len(t) + 1
          /\ u[Len(u)] = s[k + 1]
          /\ \A i \in 1..Len(t) : u[i] = t[i]
          /\ DOMAIN u = 1..Len(u) /\ DOMAIN t = 1..Len(t) /\ Len(t) \in Nat
      BY <2>2, <3>1
    <3>3. ASSUME NEW i \in DOMAIN t PROVE t[i] # s[k + 1]
      <4>1. PICK j \in 1..k : s[j] = t[i]
        BY <2>1
      <4>2. j \in DOMAIN s /\ j # k + 1
        OBVIOUS
      <4>. QED BY <2>2, <4>1, <4>2
    <3>4. \A i \in DOMAIN u : i \in DOMAIN t \/ i = Len(u)
      BY <3>2
    <3>5. ASSUME NEW x
          PROVE  (\E i \in DOMAIN u : u[i] = x) <=> (x = s[k + 1] \/ \E i \in DOMAIN t : t[i] = x)
      <4>1. Len(u) \in DOMAIN u /\ DOMAIN t \subseteq DOMAIN u
        BY <3>2
      <4>. QED BY <3>2, <3>4, <4>1
    <3>6. ASSUME NEW x
          PROVE  (\E i \in DOMAIN u : u[i] = x) <=> (x \notin dead /\ \E i \in 1..k + 1 : s[i] = x)
      BY <2>1, <2>4, <2>6, <3>5
    <3>7. ASSUME NEW i \in DOMAIN u, NEW j \in DOMAIN u, i # j PROVE u[i] # u[j]
      BY <2>1, <3>2, <3>3, <3>4, <3>7, SMTT(40)
    <3> HIDE DEF t, u
    <3>. QED BY <3>2, <3>6, <3>7 DEF u
  <2>. QED BY <2>5, <2>6
<1>5. Nat \subseteq good
  <2> HIDE DEF good
  <2>. QED BY <1>3, <1>4, Induction
<1>6. Good(Len(s))
  <2>1. Len(s) \in Nat
    OBVIOUS
  <2> HIDE DEF Good
  <2>. QED BY <1>5, <2>1
<1>7. DOMAIN s = 1..Len(s)
  OBVIOUS
<1>8. \A x : x \in {kept[Len(s)][i] : i \in DOMAIN kept[Len(s)]}
                <=> x \in {s[i] : i \in DOMAIN s} \ dead
  <2>1. ASSUME NEW x
        PROVE  x \in {kept[Len(s)][i] : i \in DOMAIN kept[Len(s)]}
                <=> \E i \in DOMAIN kept[Len(s)] : kept[Len(s)][i] = x
    OBVIOUS
  <2>2. ASSUME NEW x
        PROVE  x \in {s[i] : i \in DOMAIN s} <=> \E i \in 1..Len(s) : s[i] = x
    BY <1>7
  <2>. QED BY <1>6, <2>1, <2>2
<1>. QED BY <1>2, <1>6, <1>8

-----------------------------------------------------------------------------
(* The helpers of the actions.                                             *)

\* What alloc_pid finds is a pid that no process has.
LEMMA AllocPidFacts ==
    ASSUME TypeOK, NEW n \in alloc_pid
    PROVE  n \in Pids /\ n \notin pid_map /\ next_pid(n) \in Pids
<1>1. PICK i \in Pids : n = (pid_gen + i) % PROC_MAX_NUM /\ n \notin pid_map
  BY DEF alloc_pid
<1>2. pid_gen + i \in Nat /\ PROC_MAX_NUM \in Nat /\ PROC_MAX_NUM > 0
  BY NumAssumption DEF TypeOK, Pids
<1>3. n \in Pids
  BY <1>1, <1>2 DEF Pids
<1>4. n + 1 \in Nat
  BY <1>3 DEF Pids
<1>5. next_pid(n) \in Pids
  BY <1>2, <1>4 DEF next_pid, Pids
<1>. QED BY <1>1, <1>3, <1>5

\* There are more objects than pids, so proc_clone finds an object.
LEMMA ObjectLeft ==
    ASSUME IInv
    PROVE  LET c == Min({p \in Procs : state[p] = "none"})
           IN  c \in Procs /\ state[c] = "none"
<1> DEFINE none == {p \in Procs : state[p] = "none"}
<1>1. none # {}
  <2> SUFFICES ASSUME none = {} PROVE FALSE
    OBVIOUS
  <2>1. Live = Procs
    BY DEF Live
  <2>2. pid \in [Procs -> Pids]
    BY <2>1 DEF IInv, TypeOK, PidsMatch
  <2>3. IsFiniteSet(Procs) /\ Cardinality(Procs) = StructCount
    BY StructsAssumption, NumAssumption, FS_Interval DEF Procs
  <2>4. IsFiniteSet(Pids) /\ Cardinality(Pids) = PROC_MAX_NUM
    BY NumAssumption, FS_Interval DEF Pids
  <2>5. Cardinality(Pids) < Cardinality(Procs)
    BY <2>3, <2>4, StructsAssumption, NumAssumption
  <2>6. PICK x, y \in Procs : x # y /\ pid[x] = pid[y]
    BY <2>2, <2>3, <2>4, <2>5, FS_PigeonHole
  <2>. QED BY <2>1, <2>6 DEF IInv, PidsMatch
<1>2. none \in SUBSET Nat
  BY DEF Procs
<1>3. \E x \in none : \A y \in none : x <= y
  BY <1>1, <1>2, LeastNat
<1>4. Min(none) \in none
  BY <1>3 DEF Min
<1>. QED BY <1>4

\* The search goes once around the list and ends at the process it left.
LEMMA SearchOrderFacts ==
    ASSUME IInv
    PROVE  /\ search_order \in Seq(Procs)
           /\ {search_order[i] : i \in DOMAIN search_order} = Live
           /\ \A i, j \in DOMAIN search_order : i # j => search_order[i] # search_order[j]
           /\ current_proc # NULL => search_order[Len(search_order)] = current_proc
<1> DEFINE i == IF current_proc = NULL THEN 0
                ELSE CHOOSE k \in DOMAIN list : list[k] = current_proc
           n == Len(list)
           o == SubSeq(list, i + 1, n) \o SubSeq(list, 1, i)
<1>1. /\ list \in Seq(Procs) /\ n \in Nat /\ DOMAIN list = 1..n
      /\ {list[x] : x \in DOMAIN list} = Live
      /\ \A x, y \in DOMAIN list : x # y => list[x] # list[y]
  BY DEF IInv, TypeOK, ListIsLive
<1>2. i \in 0..n /\ (current_proc # NULL => i \in DOMAIN list /\ list[i] = current_proc)
  <2>1. CASE current_proc = NULL
    BY <1>1, <2>1
  <2>2. CASE current_proc # NULL
    <3>1. current_proc \in Live
      BY <2>2 DEF IInv, CurrentIsLive
    <3>2. \E k \in DOMAIN list : list[k] = current_proc
      BY <1>1, <3>1
    <3>. QED BY <1>1, <2>2, <3>2
  <2>. QED BY <2>1, <2>2
<1>3. o = search_order
  BY DEF search_order
<1> HIDE DEF i
<1> DEFINE u == SubSeq(list, i + 1, n)
           v == SubSeq(list, 1, i)
<1>4. /\ u \in Seq(Procs) /\ Len(u) = n - i
      /\ \A x \in 1..n - i : u[x] = list[x + i]
  <2>1. i + 1 \in Int /\ n \in Int /\ \A x \in i + 1..n : list[x] \in Procs
    BY <1>1, <1>2
  <2>2. /\ u \in Seq(Procs) /\ Len(u) = IF i + 1 <= n THEN n - (i + 1) + 1 ELSE 0
        /\ \A x \in 1..n - (i + 1) + 1 : u[x] = list[(i + 1) + x - 1]
    BY <2>1, SubSeqProperties
  <2> HIDE DEF u, n
  <2>3. /\ n - (i + 1) + 1 = n - i /\ (~(i + 1 <= n) => n - i = 0)
        /\ \A x \in 1..n - i : (i + 1) + x - 1 = x + i
    BY <1>1, <1>2
  <2>4. Len(u) = n - i
    BY <2>2, <2>3
  <2>. QED BY <2>2, <2>3, <2>4
<1>5. /\ v \in Seq(Procs) /\ Len(v) = i
      /\ \A x \in 1..i : v[x] = list[x]
  BY <1>1, <1>2
<1>6. /\ o \in Seq(Procs) /\ Len(o) = n
      /\ \A x \in 1..n : o[x] = IF x <= n - i THEN list[x + i] ELSE list[x - (n - i)]
  <2>1. /\ o \in Seq(Procs) /\ Len(o) = Len(u) + Len(v)
        /\ \A x \in 1..Len(u) + Len(v) : o[x] = IF x <= Len(u) THEN u[x] ELSE v[x - Len(u)]
    BY <1>4, <1>5, ConcatProperties
  <2> HIDE DEF o, u, v, n
  <2>2. Len(u) + Len(v) = n
    BY <1>1, <1>2, <1>4, <1>5
  <2>3. ASSUME NEW x \in 1..n, x <= n - i PROVE o[x] = list[x + i]
    <3>1. x \in 1..n - i
      BY <1>1, <1>2, <2>3
    <3>. QED BY <1>4, <2>1, <2>2, <2>3, <3>1
  <2>4. ASSUME NEW x \in 1..n, ~(x <= n - i) PROVE o[x] = list[x - (n - i)]
    <3>1. x - (n - i) \in 1..i
      BY <1>1, <1>2, <2>4
    <3>. QED BY <1>4, <1>5, <2>1, <2>2, <2>4, <3>1
  <2>. QED BY <2>1, <2>2, <2>3, <2>4
<1>7. DOMAIN o = 1..n
  BY <1>6
<1> HIDE DEF o, n
<1>8. {o[x] : x \in DOMAIN o} = Live
  <2>1. ASSUME NEW x \in DOMAIN o PROVE o[x] \in Live
    <3>1. \E y \in 1..n : o[x] = list[y]
      BY <1>1, <1>2, <1>6, <1>7
    <3>. QED BY <1>1, <3>1
  <2>2. ASSUME NEW p \in Live PROVE \E x \in DOMAIN o : o[x] = p
    <3>1. PICK y \in 1..n : list[y] = p
      BY <1>1
    <3>2. CASE y <= i
      <4>1. y + (n - i) \in 1..n /\ ~(y + (n - i) <= n - i) /\ (y + (n - i)) - (n - i) = y
        BY <1>1, <1>2, <3>2
      <4>. QED BY <1>6, <1>7, <3>1, <4>1
    <3>3. CASE y > i
      <4>1. y - i \in 1..n /\ y - i <= n - i /\ (y - i) + i = y
        BY <1>1, <1>2, <3>3
      <4>. QED BY <1>6, <1>7, <3>1, <4>1
    <3>. QED BY <1>1, <1>2, <3>2, <3>3
  <2>. QED BY <2>1, <2>2
<1>9. ASSUME NEW x \in DOMAIN o, NEW y \in DOMAIN o, x # y PROVE o[x] # o[y]
  <2> DEFINE pos(z) == IF z <= n - i THEN z + i ELSE z - (n - i)
  <2>1. pos(x) \in 1..n /\ pos(y) \in 1..n /\ pos(x) # pos(y)
    BY <1>1, <1>2, <1>7, <1>9
  <2>2. o[x] = list[pos(x)] /\ o[y] = list[pos(y)]
    BY <1>6, <1>7
  <2> HIDE DEF pos
  <2>. QED BY <1>1, <2>1, <2>2
<1>10. ASSUME current_proc # NULL PROVE o[Len(o)] = current_proc
  <2>1. n \in 1..n /\ ~(n <= n - i) /\ n - (n - i) = i
    BY <1>1, <1>2, <1>10
  <2>. QED BY <1>2, <1>6, <1>7, <1>10, <2>1
<1>. QED BY <1>3, <1>6, <1>7, <1>8, <1>9, <1>10

\* The position in search_order where the scheduler's search ends.
FirstRunnable ==
    CHOOSE i \in DOMAIN search_order :
        /\ state[search_order[i]] = "RUNNING"
        /\ \A j \in 1..i - 1 : state[search_order[j]] # "RUNNING"

\* The search ends: the kernel task can run.
LEMMA SearchEnds ==
    ASSUME IInv
    PROVE  /\ FirstRunnable \in DOMAIN search_order
           /\ state[search_order[FirstRunnable]] = "RUNNING"
<1> DEFINE runnable == {i \in DOMAIN search_order : state[search_order[i]] = "RUNNING"}
<1>1. DOMAIN search_order = 1..Len(search_order) /\ Len(search_order) \in Nat
  BY SearchOrderFacts
<1>2. Ktask \in Live
  BY StructsAssumption, NumAssumption DEF IInv, KtaskRuns, Live, Ktask, Procs
<1>3. runnable # {}
  BY <1>2, SearchOrderFacts DEF IInv, KtaskRuns
<1>4. runnable \in SUBSET Nat
  BY <1>1
<1>5. PICK i \in runnable : \A j \in runnable : i <= j
  BY <1>3, <1>4, LeastNat
<1>6. \A j \in 1..i - 1 : state[search_order[j]] # "RUNNING"
  BY <1>1, <1>5
<1>. QED BY <1>5, <1>6 DEF FirstRunnable

\* The processes the scheduler releases are dead, and current_proc, the last it
\* comes to, is not among them.
Released == {search_order[j] : j \in {m \in 1..FirstRunnable - 1 :
                                         state[search_order[m]] = "DEAD"}}

\* What the scheduler's search releases: dead processes, never the one that
\* current_proc names nor the one it switches to.
LEMMA ReleasedFacts ==
    ASSUME IInv
    PROVE  /\ Released \subseteq Live
           /\ \A p \in Released : state[p] = "DEAD"
           /\ current_proc \notin Released
<1>1. /\ DOMAIN search_order = 1..Len(search_order) /\ Len(search_order) \in Nat
      /\ FirstRunnable \in 1..Len(search_order)
  BY SearchOrderFacts, SearchEnds
<1>2. ASSUME NEW p \in Released
      PROVE  \E j \in DOMAIN search_order : /\ j < Len(search_order)
                                           /\ search_order[j] = p /\ state[p] = "DEAD"
  BY <1>1 DEF Released
<1>3. ASSUME current_proc \in Released PROVE FALSE
  <2>1. PICK j \in DOMAIN search_order : j < Len(search_order) /\ search_order[j] = current_proc
    BY <1>2, <1>3
  <2>2. current_proc # NULL
    <3>1. current_proc \in Procs
      BY <2>1, SearchOrderFacts
    <3>. QED BY <3>1 DEF Procs, NULL
  <2>3. search_order[Len(search_order)] = current_proc /\ Len(search_order) \in DOMAIN search_order
    BY <1>1, <2>2, SearchOrderFacts
  <2>. QED BY <1>1, <2>1, <2>3, SearchOrderFacts
<1>. QED BY <1>2, <1>3, SearchOrderFacts

-----------------------------------------------------------------------------
(* The steps.                                                              *)

\* A step that changes neither the list nor who has which pid, and neither
\* makes nor releases a process, keeps the table and the list right.
LEMMA SameProcesses ==
    ASSUME IInv, UNCHANGED <<list, pid, pids>>,
           \A p \in Procs : state'[p] = "none" <=> state[p] = "none"
    PROVE  Live' = Live /\ PidsMatch' /\ ListIsLive'
<1>1. Live' = Live
  BY DEF Live
<1>2. PidsMatch'
  BY <1>1 DEF IInv, PidsMatch, pids
<1>3. ListIsLive'
  BY <1>1 DEF IInv, ListIsLive
<1>. QED BY <1>1, <1>2, <1>3

\* A timer tick, or sched() of the kernel task, disturbs nothing.
LEMMA TimerStep == IInv /\ sched_timer => IInv'
<1> SUFFICES ASSUME IInv, sched_timer PROVE IInv'
  OBVIOUS
<1> USE DEF sched_timer, objects, pids
<1>1. Live' = Live /\ PidsMatch' /\ ListIsLive'
  BY SameProcesses
<1>2. TypeOK'
  BY DEF IInv, TypeOK
<1>3. KtaskRuns' /\ CurrentIsLive' /\ ForkIsServed'
  BY <1>1 DEF IInv, KtaskRuns, CurrentIsLive, ForkIsServed
<1>4. ForkAnswered'
  BY <1>1 DEF IInv, ForkAnswered, Asking
<1>. QED BY <1>1, <1>2, <1>3, <1>4 DEF IInv

\* sched_fork: the caller becomes the asking parent.
LEMMA ForkStep == ASSUME NEW p \in Procs PROVE IInv /\ sched_fork(p) => IInv'
<1> SUFFICES ASSUME IInv, sched_fork(p) PROVE IInv'
  OBVIOUS
<1> USE DEF sched_fork, UserRuns, Running, objects, pids
<1>1. Live' = Live /\ PidsMatch' /\ ListIsLive'
  BY SameProcesses
<1>2. TypeOK'
  BY DEF IInv, TypeOK
<1>3. KtaskRuns' /\ CurrentIsLive' /\ ForkIsServed'
  BY <1>1 DEF IInv, TypeOK, KtaskRuns, CurrentIsLive, ForkIsServed
<1>4. ForkAnswered'
  <2>1. sched_task = "none"
    BY DEF IInv, TypeOK, ForkIsServed
  <2>2. \A q \in Live : q # p => at'[q] = at[q] /\ ~Asking(q)'
    BY <2>1 DEF IInv, TypeOK, Asking, Live
  <2>3. at'[p] = "parent" /\ Asking(p)'
    BY DEF IInv, TypeOK, Asking
  <2>. QED BY <1>1, <2>1, <2>2, <2>3 DEF IInv, ForkAnswered, Asking
<1>. QED BY <1>1, <1>2, <1>3, <1>4 DEF IInv

\* fork returns to user mode, in the parent or in the child.
LEMMA ForkReturnStep == ASSUME NEW p \in Procs PROVE IInv /\ sched_fork_return(p) => IInv'
<1> SUFFICES ASSUME IInv, sched_fork_return(p) PROVE IInv'
  OBVIOUS
<1> USE DEF sched_fork_return, Running, objects, pids
<1>1. Live' = Live /\ PidsMatch' /\ ListIsLive'
  BY SameProcesses
<1>2. TypeOK'
  BY NumAssumption DEF IInv, TypeOK, Pids
<1>3. KtaskRuns' /\ CurrentIsLive' /\ ForkIsServed'
  BY <1>1 DEF IInv, TypeOK, KtaskRuns, CurrentIsLive, ForkIsServed
<1>4. ForkAnswered'
  <2>1. \A q \in Live : q # p => at'[q] = at[q] /\ retvalue'[q] = retvalue[q]
    BY DEF IInv, TypeOK, Live
  <2>2. at'[p] = "user"
    BY DEF IInv, TypeOK
  <2>. QED BY <1>1, <2>1, <2>2 DEF IInv, ForkAnswered, Asking
<1>. QED BY <1>1, <1>2, <1>3, <1>4 DEF IInv

\* proc_exit leaves the process on the list, with its pid, as a dead one.
LEMMA ExitStep == ASSUME NEW p \in Procs PROVE IInv /\ proc_exit(p) => IInv'
<1> SUFFICES ASSUME IInv, proc_exit(p) PROVE IInv'
  OBVIOUS
<1> USE DEF proc_exit, UserRuns, Running, objects, pids
<1>1. Live' = Live /\ PidsMatch' /\ ListIsLive'
  <2>1. state[p] # "none" /\ state'[p] # "none" /\ \A q \in Procs : q # p => state'[q] = state[q]
    BY DEF IInv, TypeOK, CurrentIsLive
  <2>. QED BY <2>1, SameProcesses
<1>2. TypeOK'
  BY DEF IInv, TypeOK
<1>3. KtaskRuns' /\ CurrentIsLive' /\ ForkIsServed'
  BY <1>1 DEF IInv, TypeOK, KtaskRuns, CurrentIsLive, ForkIsServed
<1>4. ForkAnswered'
  BY <1>1 DEF IInv, ForkAnswered, Asking
<1>. QED BY <1>1, <1>2, <1>3, <1>4 DEF IInv

\* A system call goes to sleep.
LEMMA SleepStep == ASSUME NEW p \in Procs PROVE IInv /\ sleep_io(p) => IInv'
<1> SUFFICES ASSUME IInv, sleep_io(p) PROVE IInv'
  OBVIOUS
<1> USE DEF sleep_io, UserRuns, Running, objects, pids
<1>1. Live' = Live /\ PidsMatch' /\ ListIsLive'
  <2>1. state[p] # "none" /\ state'[p] # "none" /\ \A q \in Procs : q # p => state'[q] = state[q]
    BY DEF IInv, TypeOK, CurrentIsLive
  <2>. QED BY <2>1, SameProcesses
<1>2. TypeOK'
  BY DEF IInv, TypeOK
<1>3. KtaskRuns' /\ CurrentIsLive' /\ ForkIsServed'
  BY <1>1 DEF IInv, TypeOK, KtaskRuns, CurrentIsLive, ForkIsServed
<1>4. ForkAnswered'
  BY <1>1 DEF IInv, ForkAnswered, Asking
<1>. QED BY <1>1, <1>2, <1>3, <1>4 DEF IInv

\* A sleeping process is woken.
LEMMA WakeStep == ASSUME NEW q \in Procs PROVE IInv /\ wake_up(q) => IInv'
<1> SUFFICES ASSUME IInv, wake_up(q) PROVE IInv'
  OBVIOUS
<1> USE DEF wake_up, objects, pids
<1>1. Live' = Live /\ PidsMatch' /\ ListIsLive'
  <2>1. state[q] # "none" /\ state'[q] # "none" /\ \A p \in Procs : p # q => state'[p] = state[p]
    BY DEF IInv, TypeOK
  <2>. QED BY <2>1, SameProcesses
<1>2. TypeOK'
  BY DEF IInv, TypeOK
<1>3. KtaskRuns' /\ CurrentIsLive' /\ ForkIsServed'
  BY <1>1 DEF IInv, TypeOK, KtaskRuns, CurrentIsLive, ForkIsServed
<1>4. ForkAnswered'
  BY <1>1 DEF IInv, ForkAnswered, Asking
<1>. QED BY <1>1, <1>2, <1>3, <1>4 DEF IInv

\* Who asked for a fork is a process, and not the kernel task.
LEMMA AskingProcess ==
    ASSUME IInv, sched_task = "fork"
    PROVE  current_proc \in Live /\ current_proc \in Procs /\ at[current_proc] = "parent"
BY DEF IInv, ForkIsServed, CurrentIsLive, Live

\* proc_clone fails: the parent gets -1 and no pid is lost.
LEMMA CloneFailsStep ==
    ASSUME IInv, sched_task_fork, proc_clone_fails
    PROVE  IInv'
<1> USE DEF sched_task_fork, proc_clone_fails, pids
<1>1. current_proc \in Live /\ current_proc \in Procs /\ at[current_proc] = "parent"
  BY AskingProcess
<1>2. Live' = Live
  BY DEF Live
<1>3. PidsMatch' /\ ListIsLive'
  BY <1>2 DEF IInv, PidsMatch, ListIsLive
<1>4. pid_gen' \in Pids
  BY AllocPidFacts DEF IInv, TypeOK
<1>5. TypeOK'
  <2>1. retvalue' \in [Procs -> Pids \cup {-1}]
    BY DEF IInv, TypeOK
  <2>. QED BY <1>4, <2>1 DEF IInv, TypeOK
<1>6. KtaskRuns' /\ CurrentIsLive' /\ ForkIsServed'
  BY <1>2 DEF IInv, KtaskRuns, CurrentIsLive, ForkIsServed
<1>7. ForkAnswered'
  <2>1. \A p \in Live : pid[p] \in Pids
    BY DEF IInv, TypeOK, PidsMatch
  <2>2. retvalue'[current_proc] = -1 /\ pid[current_proc] # -1
    BY <1>1, <2>1 DEF IInv, TypeOK, Pids
  <2>3. \A p \in Live : p # current_proc => retvalue'[p] = retvalue[p]
    BY DEF IInv, TypeOK, Live
  <2>. QED BY <1>1, <1>2, <2>2, <2>3 DEF IInv, ForkAnswered, Asking
<1>. QED BY <1>3, <1>5, <1>6, <1>7 DEF IInv

\* proc_clone: the clone has a pid and an object nobody else has, is on the
\* list, and the parent is told its pid.
LEMMA CloneStep ==
    ASSUME IInv, sched_task_fork, proc_clone
    PROVE  IInv'
<1> DEFINE c == Min({p \in Procs : state[p] = "none"})
<1>1. current_proc \in Live /\ current_proc \in Procs /\ at[current_proc] = "parent"
  BY AskingProcess DEF sched_task_fork
<1>2. c \in Procs /\ state[c] = "none"
  BY ObjectLeft
<1>3. PICK n \in alloc_pid :
        /\ pid_gen' = next_pid(n)
        /\ pid_map' = pid_map \cup {n}
        /\ pid' = [pid EXCEPT ![c] = n]
        /\ state' = [state EXCEPT ![c] = "RUNNING"]
        /\ retvalue' = [retvalue EXCEPT ![current_proc] = n, ![c] = 0]
        /\ at' = [at EXCEPT ![c] = "child"]
        /\ list' = <<c>> \o list
  BY DEF proc_clone
<1>4. n \in Pids /\ n \notin pid_map /\ next_pid(n) \in Pids
  BY AllocPidFacts DEF IInv
<1>5. sched_task' = "none" /\ UNCHANGED <<current_proc, cpu>> /\ cpu = "scheduler"
  BY DEF sched_task_fork
<1> HIDE DEF c
<1>6. Live' = Live \cup {c} /\ c \notin Live /\ c # current_proc
  BY <1>1, <1>2, <1>3 DEF IInv, TypeOK, Live
<1>7. \A p \in Live : /\ pid'[p] = pid[p] /\ at'[p] = at[p] /\ state'[p] = state[p]
                      /\ p # current_proc => retvalue'[p] = retvalue[p]
  BY <1>2, <1>3, <1>6 DEF IInv, TypeOK, Live
<1>8. pid'[c] = n /\ at'[c] = "child" /\ state'[c] = "RUNNING" /\ retvalue'[c] = 0
      /\ retvalue'[current_proc] = n
  BY <1>1, <1>2, <1>3, <1>6 DEF IInv, TypeOK
<1>9. \A p \in Live : pid[p] \in pid_map /\ pid[p] # n
  BY <1>4 DEF IInv, PidsMatch
<1>10. TypeOK'
  <2>1. list' \in Seq(Procs)
    BY <1>2, <1>3 DEF IInv, TypeOK
  <2>2. 0 \in Pids
    BY NumAssumption DEF Pids
  <2>3. /\ state' \in [Procs -> {"none", "RUNNING", "IO", "DEAD"}]
        /\ at' \in [Procs -> {"user", "parent", "child"}]
    BY <1>3 DEF IInv, TypeOK
  <2>4. pid' \in [Procs -> Pids \cup {-1}] /\ retvalue' \in [Procs -> Pids \cup {-1}]
    BY <1>3, <1>4, <2>2 DEF IInv, TypeOK
  <2>5. pid_map' \subseteq Pids /\ pid_gen' \in Pids
    BY <1>3, <1>4 DEF IInv, TypeOK
  <2>. QED BY <1>5, <2>1, <2>3, <2>4, <2>5 DEF IInv, TypeOK
<1>11. PidsMatch'
  <2>1. \A p, q \in Live' : p # q => pid'[p] # pid'[q]
    BY <1>6, <1>7, <1>8, <1>9 DEF IInv, PidsMatch
  <2>2. {pid'[p] : p \in Live'} = {pid[p] : p \in Live} \cup {n}
    BY <1>6, <1>7, <1>8
  <2>. QED BY <1>3, <2>1, <2>2 DEF IInv, PidsMatch
<1>12. ListIsLive'
  <2>1. /\ list \in Seq(Procs) /\ DOMAIN list = 1..Len(list) /\ Len(list) \in Nat
        /\ {list[i] : i \in DOMAIN list} = Live
        /\ \A i, j \in DOMAIN list : i # j => list[i] # list[j]
    BY DEF IInv, TypeOK, ListIsLive
  <2>2. /\ list' \in Seq(Procs) /\ DOMAIN list' = 1..Len(list) + 1
        /\ list'[1] = c /\ \A i \in 1..Len(list) : list'[i + 1] = list[i]
    BY <1>2, <1>3, <2>1
  <2>3. \A i \in DOMAIN list' : i = 1 \/ (i - 1 \in DOMAIN list /\ list'[i] = list[i - 1])
    BY <2>1, <2>2
  <2>4. \A i \in DOMAIN list : i + 1 \in DOMAIN list'
    BY <2>1, <2>2
  <2>5. \A i \in DOMAIN list : list[i] \in Live /\ list[i] # c
    BY <1>6, <2>1
  <2>6. 1 \in DOMAIN list'
    BY <2>1, <2>2
  <2>7. ASSUME NEW p \in Live' PROVE \E i \in DOMAIN list' : list'[i] = p
    BY <1>6, <2>1, <2>2, <2>4, <2>6
  <2>8. ASSUME NEW i \in DOMAIN list' PROVE list'[i] \in Live'
    BY <1>6, <2>2, <2>3, <2>5
  <2>9. ASSUME NEW i \in DOMAIN list', NEW j \in DOMAIN list', i # j PROVE list'[i] # list'[j]
    <3>1. CASE i = 1 \/ j = 1
      BY <2>2, <2>3, <2>5, <2>9, <3>1
    <3>2. CASE i # 1 /\ j # 1
      <4>1. i - 1 # j - 1
        BY <2>2, <2>9
      <4>. QED BY <2>1, <2>3, <3>2, <4>1
    <3>. QED BY <3>1, <3>2
  <2>. QED BY <2>7, <2>8, <2>9 DEF ListIsLive
<1>13. Ktask \in Live
  BY StructsAssumption, NumAssumption DEF IInv, KtaskRuns, Live, Ktask, Procs
<1>14. KtaskRuns' /\ CurrentIsLive' /\ ForkIsServed'
  BY <1>1, <1>5, <1>6, <1>7, <1>13 DEF IInv, KtaskRuns, CurrentIsLive, ForkIsServed
<1>15. ForkAnswered'
  <2>1. n # 0
    BY <1>9, <1>13 DEF IInv, KtaskRuns
  <2>. QED BY <1>1, <1>5, <1>6, <1>7, <1>8, <1>9, <2>1 DEF IInv, ForkAnswered, Asking
<1>. QED BY <1>10, <1>11, <1>12, <1>14, <1>15 DEF IInv

\* The scheduler serves a fork.
LEMMA TaskForkStep == IInv /\ sched_task_fork => IInv'
BY CloneStep, CloneFailsStep DEF sched_task_fork

\* The search: what it releases leaves the list and the pid map together.
LEMMA SchedulerStep == IInv /\ scheduler => IInv'
<1> SUFFICES ASSUME IInv, scheduler PROVE IInv'
  OBVIOUS
<1>1. /\ release(Released) /\ current_proc' = search_order[FirstRunnable]
      /\ cpu' = "process" /\ sched_task = "none" /\ UNCHANGED <<pid_gen, sched_task>>
  BY DEF scheduler, Released, FirstRunnable
<1>2. /\ Released \subseteq Live /\ \A p \in Released : state[p] = "DEAD"
  BY ReleasedFacts
<1>3. current_proc' \in Live /\ state[current_proc'] = "RUNNING"
  BY <1>1, SearchEnds, SearchOrderFacts
<1>4. Live' = Live \ Released
  BY <1>1, <1>2 DEF release, Live
<1>5. \A p \in Live' : /\ p \in Live /\ pid'[p] = pid[p] /\ at'[p] = at[p]
                       /\ state'[p] = state[p] /\ retvalue'[p] = retvalue[p]
  BY <1>1, <1>4 DEF release, Live
<1>6. /\ list' \in Seq(Procs)
      /\ {list'[i] : i \in DOMAIN list'} = {list[i] : i \in DOMAIN list} \ Released
      /\ \A i, j \in DOMAIN list' : i # j => list'[i] # list'[j]
  <2>1. list \in Seq(Procs) /\ \A i, j \in DOMAIN list : i # j => list[i] # list[j]
    BY DEF IInv, TypeOK, ListIsLive
  <2>. QED BY <1>1, <2>1, RemoveFacts DEF release
<1>7. current_proc' \in Procs /\ current_proc' \notin Released
  BY <1>2, <1>3 DEF Live
<1>8. TypeOK'
  <2>1. 0 \in Pids
    BY NumAssumption DEF Pids
  <2>2. /\ state' \in [Procs -> {"none", "RUNNING", "IO", "DEAD"}]
        /\ at' \in [Procs -> {"user", "parent", "child"}]
        /\ pid' \in [Procs -> Pids \cup {-1}] /\ retvalue' \in [Procs -> Pids \cup {-1}]
        /\ pid_map' \subseteq Pids
    BY <1>1, <2>1 DEF IInv, TypeOK, release
  <2>. QED BY <1>1, <1>6, <1>7, <2>2 DEF IInv, TypeOK
<1>9. PidsMatch'
  <2>1. pid_map' = {pid[p] : p \in Live} \ {pid[p] : p \in Released}
    BY <1>1 DEF release, IInv, PidsMatch
  <2>2. \A p \in Live', q \in Released : pid[p] # pid[q]
    BY <1>2, <1>4 DEF IInv, PidsMatch
  <2>3. pid_map' = {pid[p] : p \in Live'}
    BY <1>4, <2>1, <2>2
  <2>4. {pid'[p] : p \in Live'} = {pid[p] : p \in Live'}
    BY <1>5
  <2>5. \A p, q \in Live' : p # q => pid'[p] # pid'[q]
    BY <1>5 DEF IInv, PidsMatch
  <2>. QED BY <2>3, <2>4, <2>5 DEF PidsMatch
<1>10. ListIsLive'
  BY <1>4, <1>6 DEF IInv, ListIsLive
<1>11. Ktask \in Live'
  BY <1>2, <1>4, StructsAssumption, NumAssumption DEF IInv, KtaskRuns, Live, Ktask, Procs
<1>12. KtaskRuns' /\ CurrentIsLive' /\ ForkIsServed'
  BY <1>1, <1>3, <1>4, <1>5, <1>7, <1>11 DEF IInv, KtaskRuns, CurrentIsLive, ForkIsServed, NULL, Procs
<1>13. ForkAnswered'
  BY <1>1, <1>5 DEF IInv, ForkAnswered, Asking
<1>. QED BY <1>8, <1>9, <1>10, <1>12, <1>13 DEF IInv

\* The state kernel_entry has set up before it calls scheduler().
LEMMA InitIInv == Init => IInv
<1> SUFFICES ASSUME Init PROVE IInv
  OBVIOUS
<1> USE NumAssumption, StructsAssumption DEF Init, Procs, Pids, Ktask, First, NULL
<1>1. Ktask \in Procs /\ First \in Procs /\ Ktask # First
  OBVIOUS
<1>2. Live = {Ktask, First}
  BY <1>1 DEF Live
<1>3. list \in Seq(Procs) /\ DOMAIN list = {1, 2} /\ list[1] = First /\ list[2] = Ktask
  BY <1>1
<1>4. 2 % PROC_MAX_NUM \in Pids
  OBVIOUS
<1>5. TypeOK
  BY <1>3, <1>4 DEF TypeOK
<1>6. PidsMatch
  <2>1. pid[Ktask] = 0 /\ pid[First] = 1
    BY <1>1
  <2>. QED BY <1>2, <2>1 DEF PidsMatch
<1>7. ListIsLive
  BY <1>2, <1>3 DEF ListIsLive
<1>8. KtaskRuns /\ CurrentIsLive /\ ForkIsServed /\ ForkAnswered
  BY <1>1 DEF KtaskRuns, CurrentIsLive, ForkIsServed, ForkAnswered, Live
<1>. QED BY <1>5, <1>6, <1>7, <1>8 DEF IInv

\* Every step of a process and of the scheduler preserves the invariant.
LEMMA StepIInv == IInv /\ [Next]_vars => IInv'
<1> SUFFICES ASSUME IInv, [Next]_vars PROVE IInv'
  OBVIOUS
<1>1. CASE UNCHANGED vars
  <2>1. Live' = Live /\ PidsMatch' /\ ListIsLive'
    BY <1>1, SameProcesses DEF vars, objects
  <2>. QED BY <1>1, <2>1 DEF vars, objects, pids, IInv, TypeOK, KtaskRuns, CurrentIsLive,
               ForkIsServed, ForkAnswered, Asking
<1>2. CASE Next
  BY <1>2, TimerStep, ForkStep, ForkReturnStep, ExitStep, SleepStep, WakeStep, TaskForkStep,
     SchedulerStep DEF Next
<1>. QED BY <1>1, <1>2

-----------------------------------------------------------------------------
(* The theorems.                                                           *)

\* The inductive invariant holds in every reachable state, for every number of
\* pids and process objects.
THEOREM Invariance == Spec => []IInv
BY InitIInv, StepIInv, PTL DEF Spec

\* The variables keep their types: alloc_pid and pid_gen stay within pid_map,
\* current_proc names a process.
THEOREM TypeCorrect == Spec => []TypeOK
<1>1. IInv => TypeOK
  BY DEF IInv
<1>. QED BY <1>1, Invariance, PTL

\* pid_map holds exactly the pids of the processes, which differ, through
\* forks that fail half way and the release of dead processes.
THEOREM PidsAreRight == Spec => []PidsMatch
<1>1. IInv => PidsMatch
  BY DEF IInv
<1>. QED BY <1>1, Invariance, PTL

\* The list holds every process once and nothing that was released.
THEOREM ListIsRight == Spec => []ListIsLive
<1>1. IInv => ListIsLive
  BY DEF IInv
<1>. QED BY <1>1, Invariance, PTL

\* fork returns 0 in the child and -1 or a pid that is neither 0 nor its own in the
\* parent, however many processes fork at the same time.
THEOREM ForkTellsApart == Spec => []ForkTells
<1>1. IInv => ForkTells
  BY DEF IInv, ForkAnswered, Asking, ForkTells
<1>. QED BY <1>1, Invariance, PTL

\* fork returns the pid of the process it has made to the parent, and -1 if it has
\* made none, for every number of pids and however the processes are scheduled
\* between the fork and its return.
THEOREM ForkTellsPid == Spec => ForkReturnsPid
<1> DEFINE Served == \/ retvalue'[current_proc] = -1 /\ Live' = Live
                     \/ \E c \in Procs \ Live : /\ Live' = Live \cup {c} /\ at'[c] = "child"
                                                /\ retvalue'[current_proc] = pid'[c]
           Kept == \A p \in Procs :
                     at[p] = "parent" /\ at'[p] = "parent"
                        /\ ~(sched_task = "fork" /\ p = current_proc)
                     => retvalue'[p] = retvalue[p]
<1>1. IInv /\ [Next]_vars
        => [(sched_task = "fork" /\ sched_task' = "none" => Served) /\ Kept]_vars
  <2> SUFFICES ASSUME IInv, Next
               PROVE  (sched_task = "fork" /\ sched_task' = "none" => Served) /\ Kept
    OBVIOUS
  <2>1. CASE sched_timer \/ \E p \in Procs : sched_fork(p) \/ proc_exit(p) \/ sleep_io(p) \/ wake_up(p)
    BY <2>1 DEF sched_timer, sched_fork, proc_exit, sleep_io, wake_up, objects
  <2>2. CASE \E p \in Procs : sched_fork_return(p)
    BY <2>2 DEF sched_fork_return, IInv, TypeOK
  <2>3. CASE sched_task_fork
    <3>1. CASE proc_clone_fails
      BY <2>3, <3>1 DEF proc_clone_fails, sched_task_fork, Live, IInv, TypeOK, CurrentIsLive,
                        ForkIsServed
    <3>2. CASE proc_clone
      <4> DEFINE c == Min({p \in Procs : state[p] = "none"})
      <4>1. c \in Procs /\ state[c] = "none"
        BY ObjectLeft
      <4>2. PICK n \in alloc_pid :
              /\ pid' = [pid EXCEPT ![c] = n]
              /\ state' = [state EXCEPT ![c] = "RUNNING"]
              /\ retvalue' = [retvalue EXCEPT ![current_proc] = n, ![c] = 0]
              /\ at' = [at EXCEPT ![c] = "child"]
        BY <3>2 DEF proc_clone
      <4>. HIDE DEF c
      <4>3. sched_task = "fork" /\ current_proc \in Procs /\ state[current_proc] # "none"
        BY <2>3 DEF sched_task_fork, IInv, CurrentIsLive, ForkIsServed, Live
      <4>4. current_proc # c
        BY <4>1, <4>3
      <4>5. /\ pid \in [Procs -> Pids \cup {-1}] /\ DOMAIN state = Procs
            /\ DOMAIN retvalue = Procs /\ DOMAIN at = Procs
        BY DEF IInv, TypeOK
      <4>6. retvalue'[current_proc] = n /\ pid'[c] = n /\ at'[c] = "child"
        BY <4>1, <4>2, <4>3, <4>4, <4>5
      <4>7. c \notin Live /\ Live' = Live \cup {c}
        BY <4>1, <4>2, <4>5 DEF Live
      <4>8. Served
        BY <4>1, <4>6, <4>7
      <4>9. Kept
        <5> SUFFICES ASSUME NEW p \in Procs, at'[p] = "parent", p # current_proc
                     PROVE  retvalue'[p] = retvalue[p]
          BY <4>3
        <5>1. p # c
          BY <4>6
        <5>. QED BY <5>1, <4>2, <4>5
      <4>. QED BY <4>8, <4>9
    <3>. QED BY <2>3, <3>1, <3>2 DEF sched_task_fork
  <2>4. CASE scheduler
    BY <2>4 DEF scheduler, release
  <2>. QED BY <2>1, <2>2, <2>3, <2>4 DEF Next
<1>. QED BY <1>1, Invariance, PTL DEF Spec, ForkReturnsPid

\* The scheduler never releases the process current_proc names.
THEOREM CurrentIsKept == Spec => CurrentNotReleased
<1>1. IInv /\ [Next]_vars => [current_proc # NULL => state'[current_proc] # "none"]_vars
  <2> SUFFICES ASSUME IInv, Next, current_proc # NULL PROVE state'[current_proc] # "none"
    OBVIOUS
  <2>1. current_proc \in Procs /\ state[current_proc] # "none"
    BY DEF IInv, CurrentIsLive, Live
  <2>2. CASE sched_timer \/ \E p \in Procs : sched_fork(p) \/ sched_fork_return(p)
    BY <2>1, <2>2 DEF sched_timer, sched_fork, sched_fork_return, objects
  <2>3. CASE \E p \in Procs : proc_exit(p) \/ sleep_io(p) \/ wake_up(p)
    BY <2>1, <2>3 DEF proc_exit, sleep_io, wake_up, IInv, TypeOK
  <2>4. CASE sched_task_fork
    <3>1. CASE proc_clone_fails
      BY <2>1, <3>1 DEF proc_clone_fails
    <3>2. CASE proc_clone
      BY <2>1, <3>2, ObjectLeft DEF proc_clone, IInv, TypeOK
    <3>. QED BY <2>4, <3>1, <3>2 DEF sched_task_fork
  <2>5. CASE scheduler
    <3>1. release(Released)
      BY <2>5 DEF scheduler, Released, FirstRunnable
    <3>2. current_proc \notin Released
      BY ReleasedFacts
    <3>. QED BY <2>1, <3>1, <3>2 DEF release
  <2>. QED BY <2>2, <2>3, <2>4, <2>5 DEF Next
<1>. QED BY <1>1, Invariance, PTL DEF Spec, CurrentNotReleased
=============================================================================
