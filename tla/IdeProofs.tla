------------------------------ MODULE IdeProofs ------------------------------
(***************************************************************************)
(* Proofs about Ide: for every number of buses, drives, requests and       *)
(* failures, and wherever ticks interrupt the kernel task, the linked      *)
(* lists are first-in first-out queues, the device works on the first      *)
(* request of its list, and the completion functions tell the truth, until *)
(* a request is linked behind an object being removed.                     *)
(***************************************************************************)
EXTENDS Ide, NatFacts, SequenceTheorems

\* The i-th node of the ring with head b and objects s: the head is before the
\* first and after the last object.
Node(s, b, i) == IF i \in 1..Len(s) THEN s[i] ELSE b

\* The links nx lead from the head b through the objects s, each once, and back.
IsChain(nx, s, b) ==
    /\ s \in Seq(Slots)
    /\ \A i, j \in 1..Len(s) : s[i] = s[j] => i = j
    /\ \A i \in 0..Len(s) : nx[Node(s, b, i)] = Node(s, b, i + 1)

\* The next links of every bus.
Linked == \A b \in Buses : IsChain(next, OnList(b), b)

\* The prev links agree with them, but for the first one while it is changed.
BackLinked ==
    \A b \in Buses : \A i \in 0..Len(OnList(b)) :
        prev[Node(OnList(b), b, i + 1)] =
            IF i = 0 /\ b = bus /\ kpc = "unlink2" THEN dma_data
            ELSE Node(OnList(b), b, i)

\* Slot s is on the list of bus b.
Listed(s, b) == \E i \in 1..Len(OnList(b)) : OnList(b)[i] = s

Removing == kpc \in {"unlink", "unlink1"}   \* the first object is about to go
Taken == kpc \in {"unlink2", "free"}     \* an object is off the lists, not yet free
Finishing == kpc \in {"unlink2", "free", "start", "call"}

IsFree(s) == \E i \in 1..Len(freeSlots) : freeSlots[i] = s

\* An object is free, on one list, or in the hands of complete_io_operation.
SlotsAccounted ==
    /\ \A i, j \in 1..Len(freeSlots) : freeSlots[i] = freeSlots[j] => i = j
    /\ \A s \in Slots : IsFree(s) \/ (Taken /\ s = dma_data) \/ \E b \in Buses : Listed(s, b)
    /\ \A s \in Slots : IsFree(s) => /\ ~(Taken /\ s = dma_data)
                                     /\ \A b \in Buses : ~Listed(s, b)

\* The objects of a list are for different requests of its bus that are
\* pending and not being completed.
Owned ==
    /\ \A b \in Buses : \A i \in 1..Len(OnList(b)) :
        LET r == io[OnList(b)[i]] IN r \in pending /\ BusOf(r) = b /\ r # done
    /\ \A b \in Buses : \A i, j \in 1..Len(OnList(b)) :
        io[OnList(b)[i]] = io[OnList(b)[j]] => i = j

\* Where the code that polls is, and what its locals are.
Polling ==
    /\ kpc = "status" \/ Removing => Len(OnList(bus)) > 0 /\ dma_data = OnList(bus)[1]
    /\ kpc = "unlink1" => nextReg = next[dma_data]
    /\ Taken => dma_data \in Slots /\ \A b \in Buses : ~Listed(dma_data, b)
    /\ kpc = "unlink2" => /\ prev[dma_data] = bus
                          /\ next[dma_data] = Node(OnList(bus), bus, 1)
                          /\ nextReg = next[dma_data]
    /\ Finishing <=> done # NULL
    /\ done # NULL => done \in pending

\* Bus b has nothing to do: its list is empty, or the first request of its
\* list is over and not yet removed.
Between(b) ==
    Len(OnList(b)) = 0 \/ (b = bus /\ kpc \in {"unlink", "unlink1", "unlink2"})

\* complete_io_operation is still to start the first request of bus b.
Starting(b) == b = bus /\ kpc \in {"free", "start"}

Quiet(b) == ~dev[b].active /\ ~dev[b].err

\* Bus b works on the first request of its list, or has done so.
WorksOnFirst(b) ==
    LET s == OnList(b)[1]
        r == io[s]
    IN /\ dev[b].cmd = r
       /\ ~dev[b].active /\ ~dev[b].err => moved[r]
       /\ dev[b].err => failed[r] > retry[s]

\* A bus with something to do works on it; one whose first request
\* complete_io_operation starts may have been started by dma_io_sectors.
DeviceAt(b) ==
    /\ Between(b) => Quiet(b)
    /\ ~Between(b) => WorksOnFirst(b) \/ (Starting(b) /\ Quiet(b))

DeviceFollows == \A b \in Buses : DeviceAt(b)

\* A second try follows a failure; a verdict that was reached is right.
Verdicts ==
    /\ \A b \in Buses : \A i \in 1..Len(OnList(b)) :
        failed[io[OnList(b)[i]]] >= retry[OnList(b)[i]]
    /\ Removing =>
        IF error THEN failed[io[dma_data]] >= 2 ELSE moved[io[dma_data]]
    /\ done # NULL => IF error THEN failed[done] >= 2 ELSE moved[done]
    /\ \A r \in Reqs : failed[r] <= errs

\* Before scheduler() is called only the bus that is polled has requests.
Booting ==
    /\ phase = "boot" => \A b \in Buses : b # bus \/ kpc = "idle" => Len(OnList(b)) = 0
    /\ phase = "run" => kpc # "wait"

\* A pending request is on its list or in the hands of complete_io_operation
\* (QueuedOnList, said of the objects).
Queued ==
    \A r \in pending :
        done = r \/ \E i \in 1..Len(OnList(BusOf(r))) : io[OnList(BusOf(r))[i]] = r

\* What completions have said is true (SuccessIsTransfer and ErrorAfterRetry).
Succeeded == \A r \in Reqs : outcome[r] = "ok" => moved[r]
Erred == \A r \in Reqs : outcome[r] = "error" => failed[r] >= 2

\* The inductive invariant, as long as no request was linked behind an object
\* being removed.
IInv ==
    /\ TypeOK /\ Linked /\ BackLinked /\ SlotsAccounted /\ Owned /\ Polling
    /\ DeviceFollows /\ Verdicts /\ Booting
    /\ Queued /\ Succeeded /\ Erred

-----------------------------------------------------------------------------
(* Constants.                                                              *)

\* Heads and objects are different nodes, and no request is NULL.
LEMMA ConstFacts ==
    /\ \A b \in Buses : b \in Nodes /\ b \notin Slots /\ b # NULL
    /\ \A s \in Slots : s \in Nodes /\ s \notin Buses /\ s # NULL
    /\ NULL \notin Nodes
    /\ Reqs = 1..Len(Io) /\ Len(Io) \in Nat /\ NULL \notin Reqs
    /\ \A r \in Reqs : BusOf(r) \in Buses
<1> USE BusAssumption, SlotsAssumption
<1>1. Len(Io) \in Nat /\ Reqs = 1..Len(Io)
  BY IoAssumption, LenProperties DEF Reqs
<1>2. NULL \notin Reqs
  BY <1>1 DEF NULL
<1>3. \A r \in Reqs : BusOf(r) \in Buses
  BY DrivesAssumption DEF BusOf, DriveBus, Buses
<1>4. \A b \in Buses : b \in Nodes /\ b \notin Slots /\ b # NULL
  BY DEF Buses, Slots, Nodes, NULL
<1>5. \A s \in Slots : s \in Nodes /\ s \notin Buses /\ s # NULL
  BY DEF Buses, Slots, Nodes, NULL
<1> QED
  BY <1>1, <1>2, <1>3, <1>4, <1>5 DEF Nodes

-----------------------------------------------------------------------------
(* Following the links.                                                    *)

Links == [Nodes -> Nodes \cup {NULL}]

\* w is the walk of ListFrom along nx.
IsWalk(w, nx, b) ==
    w = [n \in Nat |-> IF n = 0 THEN nx[b]
                       ELSE [k \in Nodes \cup {NULL} |-> IF k \in Slots THEN nx[k] ELSE NULL][w[n - 1]]]

\* The walk along a chain: its objects, the head, and then nothing.
WalkOf(s, b) ==
    [n \in Nat |-> IF n < Len(s) THEN s[n + 1] ELSE IF n = Len(s) THEN b ELSE NULL]

\* That walk follows the links.
LEMMA WalkFollows ==
    ASSUME NEW nx \in Links, NEW b \in Buses, NEW s, IsChain(nx, s, b)
    PROVE  IsWalk(WalkOf(s, b), nx, b)
<1> DEFINE m == Len(s)
           w == WalkOf(s, b)
           after == [k \in Nodes \cup {NULL} |-> IF k \in Slots THEN nx[k] ELSE NULL]
<1>1. s \in Seq(Slots) /\ m \in Nat /\ DOMAIN s = 1..m
  BY LenProperties DEF IsChain
<1>2. \A i \in 1..m : s[i] \in Slots /\ s[i] \in Nodes
  BY <1>1, ElementOfSeq, ConstFacts
<1>3. b \in Nodes /\ b \notin Slots /\ NULL \notin Slots
  BY ConstFacts
<1>4. \A i \in 0..m : nx[Node(s, b, i)] = Node(s, b, i + 1)
  BY DEF IsChain
<1>n. \A i : Node(s, b, i) = IF i \in 1..m THEN s[i] ELSE b
  BY DEF Node
<1> HIDE DEF m
<1>5. \A n \in Nat : w[n] = IF n < m THEN s[n + 1] ELSE IF n = m THEN b ELSE NULL
  BY DEF WalkOf, m
<1>6. ASSUME NEW n \in Nat
      PROVE  w[n] = IF n = 0 THEN nx[b] ELSE after[w[n - 1]]
  <2>1. CASE n = 0
    <3>1. nx[Node(s, b, 0)] = Node(s, b, 1) /\ Node(s, b, 0) = b
      BY <1>1, <1>4 DEF Node, m
    <3>2. w[0] = Node(s, b, 1)
      <4> HIDE DEF w
      <4>1. CASE m = 0
        BY <1>n, <1>5, <4>1
      <4>2. CASE m > 0
        BY <1>n, <1>5, <4>2, <1>1
      <4> QED
        BY <1>1, <4>1, <4>2
    <3> QED
      BY <2>1, <3>1, <3>2
  <2>2. CASE n # 0
    <3>1. n - 1 \in Nat
      BY <2>2
    <3>2. CASE n - 1 < m
      <4>1. n \in 1..m /\ n \in 0..m /\ (n - 1) + 1 = n
        BY <1>1, <2>2, <3>2
      <4>2. w[n - 1] = s[n]
        BY <1>5, <3>1, <3>2, <4>1
      <4>3. after[s[n]] = nx[s[n]]
        BY <1>2, <4>1
      <4>4. nx[s[n]] = Node(s, b, n + 1)
        BY <1>4, <4>1 DEF Node, m
      <4>5. w[n] = Node(s, b, n + 1)
        <5> HIDE DEF w
        <5>1. CASE n = m
          <6>1. n + 1 \notin 1..m
            BY <1>1, <5>1
          <6> QED
            BY <1>n, <1>5, <5>1, <6>1
        <5>2. CASE n < m
          <6>1. n + 1 \in 1..m
            BY <1>1, <5>2
          <6> QED
            BY <1>n, <1>5, <5>2, <6>1
        <5> QED
          BY <1>1, <4>1, <5>1, <5>2
      <4> QED
        BY <2>2, <4>2, <4>3, <4>4, <4>5
    <3>3. CASE n - 1 = m
      <4>1. w[n - 1] = b /\ w[n] = NULL
        BY <1>1, <1>5, <3>1, <3>3
      <4>2. after[b] = NULL
        BY <1>3
      <4> QED
        BY <2>2, <4>1, <4>2
    <3>4. CASE n - 1 > m
      <4>1. w[n - 1] = NULL /\ w[n] = NULL
        BY <1>1, <1>5, <3>1, <3>4
      <4>2. after[NULL] = NULL
        BY <1>3
      <4> QED
        BY <2>2, <4>1, <4>2
    <3> QED
      BY <1>1, <3>1, <3>2, <3>3, <3>4
  <2> QED
    BY <2>1, <2>2
<1>7. w = [n \in Nat |-> w[n]]
  BY DEF WalkOf
<1> HIDE DEF w, after
<1>8. w = [n \in Nat |-> IF n = 0 THEN nx[b] ELSE after[w[n - 1]]]
  BY <1>6, <1>7, Zenon
<1> QED
  BY <1>8, Zenon DEF IsWalk, w, after

\* There is one walk only.
LEMMA WalkUnique ==
    ASSUME NEW nx, NEW b, NEW v, NEW w, IsWalk(v, nx, b), IsWalk(w, nx, b)
    PROVE  v = w
<1> DEFINE after == [k \in Nodes \cup {NULL} |-> IF k \in Slots THEN nx[k] ELSE NULL]
           good == {n \in Nat : v[n] = w[n]}
<1>1. /\ v = [n \in Nat |-> IF n = 0 THEN nx[b] ELSE after[v[n - 1]]]
      /\ w = [n \in Nat |-> IF n = 0 THEN nx[b] ELSE after[w[n - 1]]]
  BY Zenon DEF IsWalk
<1> HIDE DEF after
<1>2. \A n \in Nat : /\ v[n] = IF n = 0 THEN nx[b] ELSE after[v[n - 1]]
                     /\ w[n] = IF n = 0 THEN nx[b] ELSE after[w[n - 1]]
  BY <1>1, Zenon
<1>3. 0 \in good
  BY <1>2
<1>4. ASSUME NEW n \in Nat, n \in good PROVE n + 1 \in good
  <2>1. n + 1 \in Nat /\ n + 1 # 0 /\ (n + 1) - 1 = n
    OBVIOUS
  <2>2. v[n + 1] = after[v[n]] /\ w[n + 1] = after[w[n]]
    BY <1>2, <2>1
  <2>3. v[n] = w[n]
    BY <1>4
  <2> QED
    BY <2>1, <2>2, <2>3
<1> HIDE DEF good
<1>5. Nat \subseteq good
  BY <1>3, <1>4, Induction
<1>6. \A n \in Nat : v[n] = w[n]
  BY <1>5 DEF good
<1>7. v = [n \in Nat |-> v[n]] /\ w = [n \in Nat |-> w[n]]
  BY <1>1, Zenon
<1> QED
  BY <1>6, <1>7, Zenon

\* ListFrom finds the objects of a chain.
LEMMA ChainIsList ==
    ASSUME NEW nx \in Links, NEW b \in Buses, NEW s, IsChain(nx, s, b)
    PROVE  ListFrom(nx, b) = s
<1> DEFINE m == Len(s)
           after == [k \in Nodes \cup {NULL} |-> IF k \in Slots THEN nx[k] ELSE NULL]
           node == CHOOSE w : w = [n \in Nat |-> IF n = 0 THEN nx[b] ELSE after[w[n - 1]]]
           walk == CHOOSE w : IsWalk(w, nx, b)
           inList == {n \in 0..SlotCount - 1 : walk[n] \in Slots}
<1>1. node = walk
  BY Zenon DEF IsWalk
<1>2. IsWalk(WalkOf(s, b), nx, b)
  BY WalkFollows
<1>3. IsWalk(walk, nx, b)
  BY <1>2, Zenon
<1>4. walk = WalkOf(s, b)
  BY <1>2, <1>3, WalkUnique, Zenon
<1>5. s \in Seq(Slots) /\ m \in Nat /\ DOMAIN s = 1..m
  BY LenProperties DEF IsChain
<1>6. \A i \in 1..m : s[i] \in Slots
  BY <1>5, ElementOfSeq
<1>7. m <= SlotCount
  <2>1. s \in Injection(1..m, Slots)
    <3>1. s \in [1..m -> Slots]
      BY <1>5, <1>6, LenProperties
    <3>2. \A i, j \in 1..m : s[i] = s[j] => i = j
      BY DEF IsChain
    <3> QED
      BY <3>1, <3>2, Fun_IsInj
  <2>2. IsFiniteSet(Slots) /\ Cardinality(Slots) = SlotCount
    <3>1. BusCount \in Int /\ BusCount + SlotCount - 1 \in Int /\ SlotCount \in Nat
      BY BusAssumption, SlotsAssumption
    <3>2. /\ IsFiniteSet(BusCount..BusCount + SlotCount - 1)
          /\ Cardinality(BusCount..BusCount + SlotCount - 1) =
                IF BusCount > BusCount + SlotCount - 1 THEN 0
                ELSE (BusCount + SlotCount - 1) - BusCount + 1
      BY <3>1, FS_Interval
    <3> QED
      BY <3>1, <3>2, BusAssumption DEF Slots
  <2>3. IsFiniteSet(1..m) /\ Cardinality(1..m) = m
    BY <1>5, FS_Interval
  <2> QED
    BY <2>1, <2>2, <2>3, FS_Injection
<1>8. \A n \in Nat : walk[n] = IF n < m THEN s[n + 1] ELSE IF n = m THEN b ELSE NULL
  BY <1>4 DEF WalkOf
<1> HIDE DEF m, walk
<1>9. inList = 0..m - 1
  <2>1. ASSUME NEW n \in 0..SlotCount - 1
        PROVE  walk[n] \in Slots <=> n < m
    <3>1. n \in Nat
      OBVIOUS
    <3>2. CASE n < m
      <4>1. n + 1 \in 1..m /\ walk[n] = s[n + 1]
        BY <1>5, <1>8, <3>1, <3>2
      <4> QED
        BY <1>6, <3>2, <4>1
    <3>3. CASE ~(n < m)
      BY <1>8, <3>1, <3>3, ConstFacts
    <3> QED
      BY <3>2, <3>3
  <2> QED
    BY <1>5, <1>7, <2>1, SlotsAssumption
<1>10. Cardinality(inList) = m
  <2>1. 0 \in Int /\ m - 1 \in Int
    BY <1>5
  <2>2. Cardinality(0..m - 1) = IF 0 > m - 1 THEN 0 ELSE (m - 1) - 0 + 1
    BY <2>1, FS_Interval
  <2>3. Cardinality(0..m - 1) = m
    BY <1>5, <2>2
  <2> HIDE DEF inList
  <2> QED
    BY <1>9, <2>3
<1>11. ListFrom(nx, b) = [i \in 1..Cardinality(inList) |-> walk[i - 1]]
  <2>1. ListFrom(nx, b) = [i \in 1..Cardinality({n \in 0..SlotCount - 1 : node[n] \in Slots}) |-> node[i - 1]]
    BY Zenon DEF ListFrom
  <2> HIDE DEF node
  <2> QED
    BY <1>1, <2>1, Zenon
<1> HIDE DEF inList
<1>12. ASSUME NEW i \in 1..m PROVE walk[i - 1] = s[i]
  <2>1. i - 1 \in Nat /\ i - 1 < m /\ (i - 1) + 1 = i
    BY <1>5
  <2> QED
    BY <1>8, <2>1
<1>13. s = [i \in 1..m |-> s[i]]
  BY <1>5
<1> QED
  BY <1>10, <1>11, <1>12, <1>13, Zenon

-----------------------------------------------------------------------------
(* The rings of the buses.                                                 *)

\* The list of a bus is a sequence of objects.
LEMMA ListFacts ==
    ASSUME Linked, NEW b \in Buses
    PROVE  /\ OnList(b) \in Seq(Slots) /\ Len(OnList(b)) \in Nat
           /\ DOMAIN OnList(b) = 1..Len(OnList(b))
           /\ \A i \in 1..Len(OnList(b)) : OnList(b)[i] \in Slots
           /\ \A i : Node(OnList(b), b, i) \in Nodes
           /\ OnList(b) = <<>> <=> Len(OnList(b)) = 0
<1>1. OnList(b) \in Seq(Slots)
  BY DEF Linked, IsChain
<1> DEFINE s == OnList(b)
<1>2. s \in Seq(Slots)
  BY <1>1
<1> HIDE DEF s
<1>3. Len(s) \in Nat /\ DOMAIN s = 1..Len(s) /\ \A i \in 1..Len(s) : s[i] \in Slots
  BY <1>2, LenProperties, ElementOfSeq
<1>4. s = <<>> <=> Len(s) = 0
  BY <1>2, EmptySeq
<1>5. \A i : Node(s, b, i) \in Nodes
  BY <1>3, ConstFacts DEF Node
<1> QED
  BY <1>2, <1>3, <1>4, <1>5 DEF s

\* No node is on two rings or twice on one, counted from the head ...
LEMMA NodesApart ==
    ASSUME Linked, Owned, NEW b \in Buses, NEW c \in Buses,
           NEW i \in 0..Len(OnList(b)), NEW j \in 0..Len(OnList(c)),
           Node(OnList(b), b, i) = Node(OnList(c), c, j)
    PROVE  b = c /\ i = j
<1> DEFINE s == OnList(b)
           t == OnList(c)
<1>1. /\ Len(s) \in Nat /\ \A k \in 1..Len(s) : s[k] \in Slots
      /\ Len(t) \in Nat /\ \A k \in 1..Len(t) : t[k] \in Slots
      /\ b \notin Slots /\ c \notin Slots
  BY ListFacts, ConstFacts
<1>2. \A k \in 1..Len(s) : BusOf(io[s[k]]) = b
  BY DEF Owned
<1>3. \A k \in 1..Len(t) : BusOf(io[t[k]]) = c
  BY DEF Owned
<1>4. \A k, l \in 1..Len(s) : s[k] = s[l] => k = l
  BY DEF Linked, IsChain
<1>5. b = c => s = t
  OBVIOUS
<1> HIDE DEF s, t
<1>6. i \in 0..Len(s) /\ j \in 0..Len(t) /\ Node(s, b, i) = Node(t, c, j)
  BY DEF s, t
<1>7. CASE i \in 1..Len(s) /\ j \in 1..Len(t)
  <2>1. s[i] = t[j]
    BY <1>6, <1>7 DEF Node
  <2>2. b = c
    BY <1>2, <1>3, <1>7, <2>1
  <2> QED
    BY <1>4, <1>5, <1>7, <2>1, <2>2
<1>8. CASE i \notin 1..Len(s)
  <2>1. Node(s, b, i) = b /\ i = 0
    BY <1>1, <1>6, <1>8 DEF Node
  <2>2. j \notin 1..Len(t)
    BY <1>1, <1>6, <2>1 DEF Node
  <2> QED
    BY <1>1, <1>6, <2>1, <2>2 DEF Node
<1>9. CASE j \notin 1..Len(t)
  <2>1. Node(t, c, j) = c /\ j = 0
    BY <1>1, <1>6, <1>9 DEF Node
  <2>2. i \notin 1..Len(s)
    BY <1>1, <1>6, <2>1 DEF Node
  <2> QED
    BY <1>1, <1>6, <2>1, <2>2 DEF Node
<1> QED
  BY <1>7, <1>8, <1>9

\* ... or from the first object.
LEMMA NodesApartBack ==
    ASSUME Linked, Owned, NEW b \in Buses, NEW c \in Buses,
           NEW i \in 0..Len(OnList(b)), NEW j \in 0..Len(OnList(c)),
           Node(OnList(b), b, i + 1) = Node(OnList(c), c, j + 1)
    PROVE  b = c /\ i = j
<1> DEFINE n == Len(OnList(b))
           m == Len(OnList(c))
           k == IF i = n THEN 0 ELSE i + 1
           l == IF j = m THEN 0 ELSE j + 1
<1>1. n \in Nat /\ m \in Nat /\ i \in 0..n /\ j \in 0..m
  BY ListFacts
<1>2. Node(OnList(b), b, k) = Node(OnList(b), b, i + 1)
  <2>1. CASE i = n
    <3>1. k \notin 1..n /\ i + 1 \notin 1..n
      BY <1>1, <2>1
    <3> QED
      BY <3>1 DEF Node
  <2> QED
    BY <2>1
<1>3. Node(OnList(c), c, l) = Node(OnList(c), c, j + 1)
  <2>1. CASE j = m
    <3>1. l \notin 1..m /\ j + 1 \notin 1..m
      BY <1>1, <2>1
    <3> QED
      BY <3>1 DEF Node
  <2> QED
    BY <2>1
<1>4. k \in 0..n /\ l \in 0..m
  BY <1>1
<1> HIDE DEF k, l
<1>5. b = c /\ k = l
  BY <1>2, <1>3, <1>4, NodesApart
<1>6. b = c => n = m
  OBVIOUS
<1> HIDE DEF n, m
<1> QED
  BY <1>1, <1>5, <1>6 DEF k, l

\* Links that are changed elsewhere leave the lists as they are.
LEMMA KeepLists ==
    ASSUME Linked, next' \in Links,
           \A b \in Buses : \A i \in 0..Len(OnList(b)) :
                next'[Node(OnList(b), b, i)] = next[Node(OnList(b), b, i)]
    PROVE  Linked' /\ \A b \in Buses : OnList(b)' = OnList(b)
<1>1. ASSUME NEW b \in Buses PROVE IsChain(next', OnList(b), b) /\ ListFrom(next', b) = OnList(b)
  <2>1. IsChain(next', OnList(b), b)
    BY DEF Linked, IsChain
  <2> QED
    BY <2>1, ChainIsList
<1>2. \A b \in Buses : OnList(b)' = OnList(b)
  BY <1>1 DEF OnList
<1>3. ASSUME NEW b \in Buses PROVE IsChain(next, OnList(b), b)'
  <2>1. IsChain(next', ListFrom(next', b), b)
    BY <1>1
  <2> QED
    BY <2>1 DEF OnList, IsChain, Node
<1> QED
  BY <1>2, <1>3 DEF Linked

\* What check_list and start_next find behind the head.
LEMMA HeadMeans ==
    ASSUME Linked, NEW b \in Buses
    PROVE  /\ Empty(b) <=> Len(OnList(b)) = 0
           /\ ~Empty(b) => next[b] = OnList(b)[1]
<1> DEFINE s == OnList(b)
<1>1. Len(s) \in Nat /\ \A i \in 1..Len(s) : s[i] \in Slots
  BY ListFacts
<1>2. next[Node(s, b, 0)] = Node(s, b, 1)
  BY <1>1 DEF Linked, IsChain
<1>3. b \notin Slots
  BY ConstFacts
<1> HIDE DEF s
<1>4. Node(s, b, 0) = b
  BY <1>1 DEF Node
<1>5. Node(s, b, 1) = IF Len(s) = 0 THEN b ELSE s[1]
  BY <1>1 DEF Node
<1>6. Len(s) # 0 => s[1] \in Slots
  BY <1>1
<1> QED
  BY <1>2, <1>3, <1>4, <1>5, <1>6 DEF Empty, s

\* A step of the loop in task_function, or back to the loop in sync_io_sectors.
LEMMA NextBusFacts ==
    ASSUME TypeOK, NextBus
    PROVE  /\ bus' \in Buses /\ kpc' \in {"wait", "check", "idle"}
           /\ phase = "boot" => kpc' = "wait" /\ bus' = bus
           /\ phase = "run" => kpc' # "wait"
<1>1. bus \in Buses
  BY DEF TypeOK
<1>2. bus + 1 < BusCount => bus + 1 \in Buses
  BY <1>1, BusAssumption DEF Buses
<1> QED
  BY <1>1, <1>2 DEF NextBus

\* A step that leaves the lists, the requests and what is off the lists alone.
LEMMA Frame ==
    ASSUME IInv, UNCHANGED <<next, prev, freeSlots, io, pending, done>>,
           UNCHANGED <<kpc, bus, dma_data>> \/ (~Taken /\ ~Taken')
    PROVE  /\ \A b \in Buses : OnList(b)' = OnList(b)
           /\ Linked' /\ BackLinked' /\ SlotsAccounted' /\ Owned' /\ Queued'
<1>1. /\ \A b : OnList(b)' = OnList(b)
      /\ next' = next /\ prev' = prev /\ freeSlots' = freeSlots /\ io' = io
      /\ pending' = pending /\ done' = done
  BY DEF OnList
<1>2. Linked'
  BY <1>1 DEF IInv, Linked, IsChain, Node
<1>3. BackLinked'
  <2>1. BackLinked
    BY DEF IInv
  <2>2. CASE UNCHANGED <<kpc, bus, dma_data>>
    BY <1>1, <2>1, <2>2 DEF BackLinked, Node
  <2>3. CASE ~Taken /\ ~Taken'
    <3>1. kpc # "unlink2" /\ kpc' # "unlink2"
      BY <2>3 DEF Taken
    <3> QED
      BY <1>1, <2>1, <3>1 DEF BackLinked, Node
  <2> QED
    BY <2>2, <2>3
<1>4. SlotsAccounted'
  <2>1. \A s : (Taken' /\ s = dma_data') <=> (Taken /\ s = dma_data)
    BY DEF Taken
  <2>2. \A s : IsFree(s)' <=> IsFree(s)
    BY <1>1 DEF IsFree
  <2>3. \A s, b : Listed(s, b)' <=> Listed(s, b)
    BY <1>1 DEF Listed
  <2>4. SlotsAccounted
    BY DEF IInv
  <2> QED
    BY <1>1, <2>1, <2>2, <2>3, <2>4 DEF SlotsAccounted
<1>5. Owned'
  BY <1>1 DEF IInv, Owned
<1>6. Queued'
  BY <1>1 DEF IInv, Queued
<1> QED
  BY <1>1, <1>2, <1>3, <1>4, <1>5, <1>6

-----------------------------------------------------------------------------
(* The steps that only look.                                               *)

Looking == {"idle", "check", "status", "wait"}

\* A bus whose list, requests and registers stay as they are.
LEMMA DeviceKept ==
    ASSUME IInv, NEW b \in Buses, OnList(b)' = OnList(b), Between(b)' <=> Between(b),
           Starting(b) => Starting(b)' \/ Between(b),
           UNCHANGED <<io, retry, moved, failed>>, dev'[b] = dev[b]
    PROVE  DeviceAt(b)'
<1>1. DeviceAt(b)
  BY DEF IInv, DeviceFollows
<1> QED
  BY <1>1 DEF DeviceAt, Quiet, WorksOnFirst

\* The code that polls looks at a list or at a bus, and goes on.
LEMMA LookStep ==
    ASSUME IInv, UNCHANGED <<list, seen, dev, errs, done>>,
           kpc \in Looking, kpc' \in Looking, TypeOK', Polling', Booting'
    PROVE  IInv'
<1>1. ~Taken /\ ~Taken' /\ ~Removing /\ ~Removing'
  BY DEF Taken, Removing, Looking
<1>2. UNCHANGED <<next, prev, freeSlots, io, retry, pending, done, outcome, moved, failed, dev>>
  BY DEF list, seen
<1>3. /\ \A b \in Buses : OnList(b)' = OnList(b)
      /\ Linked' /\ BackLinked' /\ SlotsAccounted' /\ Owned' /\ Queued'
  BY <1>1, <1>2, Frame
<1>4. DeviceFollows'
  <2>1. \A b \in Buses : (Between(b)' <=> Between(b)) /\ ~Starting(b)
    BY <1>3 DEF Between, Starting, Looking
  <2> QED
    BY <1>2, <1>3, <2>1, DeviceKept DEF DeviceFollows
<1>5. Verdicts'
  <2>1. done = NULL
    BY DEF IInv, Polling, Removing, Finishing, Looking
  <2> QED
    BY <1>1, <1>2, <1>3, <2>1 DEF IInv, Verdicts, Removing
<1>6. Succeeded' /\ Erred'
  BY <1>2 DEF IInv, Succeeded, Erred
<1> QED
  BY <1>3, <1>4, <1>5, <1>6 DEF IInv

\* The kernel task starts a round.
LEMMA TaskFunctionStep ==
    ASSUME IInv, task_function
    PROVE  IInv'
<1> USE DEF task_function
<1>1. TypeOK'
  BY BusAssumption DEF IInv, TypeOK, list, seen, Buses
<1>2. Polling'
  BY DEF IInv, Polling, Removing, Taken, Finishing, seen
<1>3. Booting'
  BY DEF IInv, Booting
<1> QED
  BY <1>1, <1>2, <1>3, LookStep DEF Looking

\* The test for an empty list.
LEMMA CheckListStep ==
    ASSUME IInv, check_list
    PROVE  IInv'
<1> USE DEF check_list
<1>1. TypeOK /\ Linked /\ Polling /\ Booting /\ bus \in Buses
  BY DEF IInv, TypeOK
<1>2. /\ Empty(bus) <=> Len(OnList(bus)) = 0
      /\ ~Empty(bus) => next[bus] = OnList(bus)[1]
      /\ Len(OnList(bus)) \in Nat
  BY <1>1, HeadMeans, ListFacts
<1>3. UNCHANGED <<next, prev, freeSlots, io, retry, pending, outcome, moved, failed, dev, errs, panic, raced, phase, nextReg, error, done>>
  BY DEF list, seen
<1>4. \A b : OnList(b)' = OnList(b)
  BY <1>3 DEF OnList
<1>5. CASE Empty(bus)
  <2>1. /\ bus' \in Buses /\ kpc' \in {"wait", "check", "idle"}
        /\ phase = "boot" => kpc' = "wait" /\ bus' = bus
        /\ phase = "run" => kpc' # "wait"
    BY <1>1, <1>5, NextBusFacts
  <2>2. TypeOK'
    <3>1. next[bus] \in Nodes \cup {NULL}
      BY <1>1, ConstFacts DEF TypeOK
    <3> QED
      BY <1>1, <1>3, <2>1, <3>1 DEF TypeOK
  <2>3. Polling'
    BY <1>1, <1>3, <2>1 DEF Polling, Removing, Taken, Finishing
  <2>4. Booting'
    BY <1>1, <1>3, <1>4, <2>1 DEF Booting
  <2> QED
    BY <2>1, <2>2, <2>3, <2>4, LookStep DEF Looking
<1>6. CASE ~Empty(bus)
  <2>1. kpc' = "status" /\ bus' = bus
    BY <1>6
  <2>2. TypeOK'
    <3>1. next[bus] \in Nodes \cup {NULL}
      BY <1>1, ConstFacts DEF TypeOK
    <3> QED
      BY <1>1, <1>3, <2>1, <3>1 DEF TypeOK
  <2>3. Polling'
    BY <1>1, <1>2, <1>3, <1>4, <1>6, <2>1 DEF Polling, Removing, Taken, Finishing
  <2>4. Booting'
    BY <1>1, <1>3, <1>4, <2>1 DEF Booting
  <2> QED
    BY <2>1, <2>2, <2>3, <2>4, LookStep DEF Looking
<1> QED
  BY <1>5, <1>6

\* The loop of sync_io_sectors.
LEMMA SyncWaitStep ==
    ASSUME IInv, sync_wait
    PROVE  IInv'
<1> USE DEF sync_wait
<1>1. TypeOK /\ Linked /\ Polling /\ Booting /\ bus \in Buses
  BY DEF IInv, TypeOK
<1>2. Empty(bus) <=> Len(OnList(bus)) = 0
  BY <1>1, HeadMeans
<1>3. UNCHANGED <<next, prev, freeSlots, io, retry, pending, outcome, moved, failed, dev, errs, panic, raced, phase, bus, dma_data, nextReg, error, done>>
  BY DEF list, seen
<1>4. \A b : OnList(b)' = OnList(b)
  BY <1>3 DEF OnList
<1>5. kpc' \in {"idle", "check"} /\ (kpc' = "idle" => Empty(bus))
  OBVIOUS
<1>6. TypeOK'
  BY <1>1, <1>3, <1>5 DEF TypeOK
<1>7. Polling'
  BY <1>1, <1>3, <1>5 DEF Polling, Removing, Taken, Finishing
<1>8. Booting'
  BY <1>1, <1>2, <1>3, <1>4, <1>5 DEF Booting
<1> QED
  BY <1>3, <1>5, <1>6, <1>7, <1>8, LookStep DEF Looking

\* The boot code hands over to the scheduler.
LEMMA SchedulerStep ==
    ASSUME IInv, scheduler
    PROVE  IInv'
<1> USE DEF scheduler
<1>1. UNCHANGED <<next, prev, freeSlots, io, retry, pending, outcome, moved, failed, dev, errs, panic, raced, kpc, bus, dma_data, nextReg, error, done>>
  BY DEF list, seen
<1>2. TypeOK'
  BY <1>1 DEF IInv, TypeOK
<1>3. Polling'
  BY <1>1 DEF IInv, Polling, Removing, Taken, Finishing
<1>4. Booting'
  BY <1>1 DEF IInv, Booting
<1> QED
  BY <1>1, <1>2, <1>3, <1>4, LookStep DEF Looking

-----------------------------------------------------------------------------
(* The device, and the steps that read or start it.                        *)

\* The facts about the polled request that check_error and check_done use.
LEMMA PolledFacts ==
    ASSUME IInv, kpc = "status"
    PROVE  /\ bus \in Buses /\ Len(OnList(bus)) > 0 /\ 1 \in 1..Len(OnList(bus))
           /\ dma_data = OnList(bus)[1] /\ dma_data \in Slots
           /\ io[dma_data] \in pending /\ io[dma_data] \in Reqs
           /\ done = NULL
           /\ dev[bus] \in [cmd : Reqs \cup {NULL}, active : BOOLEAN, err : BOOLEAN]
           /\ dev[bus].cmd = io[dma_data]
           /\ ~dev[bus].active /\ ~dev[bus].err => moved[io[dma_data]]
           /\ dev[bus].err => failed[io[dma_data]] > retry[dma_data]
<1>1. bus \in Buses /\ dev[bus] \in [cmd : Reqs \cup {NULL}, active : BOOLEAN, err : BOOLEAN]
      /\ pending \subseteq Reqs
  BY DEF IInv, TypeOK
<1>2. Len(OnList(bus)) > 0 /\ dma_data = OnList(bus)[1] /\ done = NULL
  BY DEF IInv, Polling, Removing, Finishing
<1>3. 1 \in 1..Len(OnList(bus)) /\ dma_data \in Slots
  BY <1>1, <1>2, ListFacts DEF IInv
<1>4. io[dma_data] \in pending
  BY <1>1, <1>2, <1>3 DEF IInv, Owned
<1>5. ~Between(bus) /\ ~Starting(bus) /\ DeviceAt(bus)
  BY <1>1, <1>2 DEF IInv, DeviceFollows, Between, Starting
<1> QED
  BY <1>1, <1>2, <1>3, <1>4, <1>5 DEF DeviceAt, WorksOnFirst

\* The status shows a transfer that goes on, or one that is over.
LEMMA CheckDoneStep ==
    ASSUME IInv, check_done
    PROVE  IInv'
<1> USE DEF check_done
<1>1. TypeOK /\ Linked /\ Polling /\ Booting /\ Verdicts
  BY DEF IInv
<1>2. /\ bus \in Buses /\ Len(OnList(bus)) > 0 /\ dma_data = OnList(bus)[1]
      /\ io[dma_data] \in Reqs /\ done = NULL
      /\ ~dev[bus].active /\ ~dev[bus].err => moved[io[dma_data]]
  BY PolledFacts
<1>3. UNCHANGED <<next, prev, freeSlots, io, retry, pending, outcome, moved, failed, dev, errs, panic, raced, phase, dma_data, nextReg, done>>
  BY DEF list, seen
<1>4. \A b : OnList(b)' = OnList(b)
  BY <1>3 DEF OnList
<1>5. CASE dev[bus].active
  <2>1. /\ bus' \in Buses /\ kpc' \in {"wait", "check", "idle"} /\ error' = error
        /\ phase = "boot" => kpc' = "wait" /\ bus' = bus
        /\ phase = "run" => kpc' # "wait"
    BY <1>1, <1>5, NextBusFacts
  <2>2. TypeOK'
    BY <1>1, <1>3, <2>1 DEF TypeOK
  <2>3. Polling'
    BY <1>1, <1>3, <2>1 DEF Polling, Removing, Taken, Finishing
  <2>4. Booting'
    BY <1>1, <1>3, <1>4, <2>1 DEF Booting
  <2> QED
    BY <1>3, <2>1, <2>2, <2>3, <2>4, LookStep DEF Looking
<1>6. CASE ~dev[bus].active
  <2>1. error' = FALSE /\ kpc' = "unlink" /\ bus' = bus
    BY <1>6
  <2>2. ~Taken /\ ~Taken'
    BY <2>1 DEF Taken
  <2>3. Linked' /\ BackLinked' /\ SlotsAccounted' /\ Owned' /\ Queued'
    BY <1>3, <2>2, Frame
  <2>4. TypeOK'
    BY <1>1, <1>3, <2>1 DEF TypeOK
  <2>5. Polling'
    BY <1>1, <1>3, <1>4, <2>1 DEF Polling, Removing, Taken, Finishing
  <2>6. Booting'
    BY <1>1, <1>3, <1>4, <2>1 DEF Booting
  <2>7. DeviceFollows'
    <3> SUFFICES ASSUME NEW b \in Buses PROVE DeviceAt(b)'
      BY DEF DeviceFollows
    <3>1. CASE b = bus
      <4>1. Between(b)'
        BY <2>1, <3>1 DEF Between, Starting
      <4>2. ~dev'[b].active /\ ~dev'[b].err
        BY <1>3, <1>6, <3>1
      <4> QED
        BY <4>1, <4>2 DEF DeviceAt, Quiet, WorksOnFirst, Starting
    <3>2. CASE b # bus
      <4>1. (Between(b)' <=> Between(b)) /\ (Starting(b) => Starting(b)' \/ Between(b))
        BY <1>4, <2>1, <3>2 DEF Between, Starting
      <4> QED
        BY <1>3, <1>4, <4>1, DeviceKept
    <3> QED
      BY <3>1, <3>2
  <2>8. Verdicts'
    BY <1>1, <1>2, <1>3, <1>4, <1>6, <2>1 DEF Verdicts, Removing
  <2>9. Succeeded' /\ Erred'
    BY <1>3 DEF IInv, Succeeded, Erred
  <2> QED
    BY <2>3, <2>4, <2>5, <2>6, <2>7, <2>8, <2>9 DEF IInv
<1> QED
  BY <1>5, <1>6

\* An error: the first time the request is started again, the second time it
\* is given up.
LEMMA CheckErrorStep ==
    ASSUME IInv, check_error
    PROVE  IInv'
<1> DEFINE r == io[dma_data]
<1>1. TypeOK /\ Linked /\ Polling /\ Booting /\ Verdicts /\ Owned
  BY DEF IInv
<1>0. kpc = "status" /\ dev[bus].err
  BY DEF check_error
<1>2. /\ bus \in Buses /\ Len(OnList(bus)) > 0 /\ 1 \in 1..Len(OnList(bus))
      /\ dma_data = OnList(bus)[1] /\ dma_data \in Slots
      /\ io[dma_data] \in Reqs /\ done = NULL
      /\ failed[io[dma_data]] > retry[dma_data]
  BY <1>0, PolledFacts
<1>3. UNCHANGED <<next, prev, freeSlots, io, pending, outcome, moved, failed, errs, panic, raced, phase, dma_data, nextReg, done>>
  BY DEF check_error, seen
<1>4. \A b : OnList(b)' = OnList(b)
  BY <1>3 DEF OnList
<1>5. /\ retry[dma_data] \in 0..1 /\ retry \in [Slots -> 0..1] /\ failed[r] \in Nat
      /\ dev \in [Buses -> [cmd : Reqs \cup {NULL}, active : BOOLEAN, err : BOOLEAN]]
  BY <1>1, <1>2, ErrorsAssumption DEF TypeOK
<1>6. CASE retry[dma_data] = 0
  <2>1. /\ retry' = [retry EXCEPT ![dma_data] = 1] /\ NextBus /\ error' = error
        /\ dev' = [dev EXCEPT ![bus] = [cmd |-> r, active |-> TRUE, err |-> FALSE]]
    BY <1>6 DEF check_error
  <2>2. /\ bus' \in Buses /\ kpc' \in {"wait", "check", "idle"}
        /\ phase = "boot" => kpc' = "wait" /\ bus' = bus
        /\ phase = "run" => kpc' # "wait"
    BY <1>1, <2>1, NextBusFacts
  <2>3. ~Taken /\ ~Taken'
    BY <1>0, <2>2 DEF Taken
  <2>4. Linked' /\ BackLinked' /\ SlotsAccounted' /\ Owned' /\ Queued'
    BY <1>3, <2>3, Frame
  <2>5. TypeOK'
    <3>1. retry' \in [Slots -> 0..1]
      BY <1>2, <1>5, <2>1
    <3>2. dev' \in [Buses -> [cmd : Reqs \cup {NULL}, active : BOOLEAN, err : BOOLEAN]]
      BY <1>2, <1>5, <2>1
    <3> QED
      BY <1>1, <1>3, <2>1, <2>2, <3>1, <3>2 DEF TypeOK
  <2>6. Polling'
    BY <1>1, <1>0, <1>3, <2>2 DEF Polling, Removing, Taken, Finishing
  <2>7. Booting'
    BY <1>1, <1>0, <1>3, <1>4, <2>2 DEF Booting
  <2>8. \A b \in Buses : \A i \in 1..Len(OnList(b)) :
            OnList(b)[i] # dma_data => retry'[OnList(b)[i]] = retry[OnList(b)[i]]
    BY <1>1, <1>5, <2>1, ListFacts
  <2>9. retry'[dma_data] = 1
    BY <1>2, <1>5, <2>1
  <2>10. DeviceFollows'
    <3> SUFFICES ASSUME NEW b \in Buses PROVE DeviceAt(b)'
      BY DEF DeviceFollows
    <3>1. CASE b = bus
      <4>1. ~Between(b)'
        BY <1>2, <1>4, <2>2, <3>1 DEF Between, Starting
      <4>2. dev'[b] = [cmd |-> r, active |-> TRUE, err |-> FALSE]
        BY <1>5, <2>1, <3>1
      <4>3. io'[OnList(b)'[1]] = r
        BY <1>2, <1>3, <1>4, <3>1
      <4> QED
        BY <4>1, <4>2, <4>3 DEF DeviceAt, Quiet, WorksOnFirst, Starting
    <3>2. CASE b # bus
      <4>1. (Between(b)' <=> Between(b)) /\ (Starting(b) => Starting(b)' \/ Between(b))
        BY <1>0, <1>4, <2>2, <3>2 DEF Between, Starting
      <4>2. dev'[b] = dev[b]
        BY <1>5, <2>1, <3>2
      <4>3. DeviceAt(b)
        BY DEF IInv, DeviceFollows
      <4>4. CASE Between(b)
        BY <4>1, <4>2, <4>3, <4>4 DEF DeviceAt, Quiet, WorksOnFirst, Starting
      <4>5. CASE ~Between(b)
        <5>1. Len(OnList(b)) \in Nat /\ Len(OnList(b)) # 0
          BY <1>1, <4>5, ListFacts DEF Between, Starting
        <5>2. 1 \in 1..Len(OnList(b))
          BY <5>1
        <5>3. OnList(b)[1] # dma_data
          BY <1>1, <1>2, <3>2, <5>2 DEF Owned
        <5>4. retry'[OnList(b)[1]] = retry[OnList(b)[1]]
          BY <2>8, <5>2, <5>3
        <5> QED
          BY <1>3, <1>4, <4>1, <4>2, <4>3, <4>5, <5>4 DEF DeviceAt, Quiet, WorksOnFirst, Starting
      <4> QED
        BY <4>4, <4>5
    <3> QED
      BY <3>1, <3>2
  <2>11. Verdicts'
    <3>1. ASSUME NEW b \in Buses, NEW i \in 1..Len(OnList(b))
          PROVE  failed[io[OnList(b)[i]]] >= retry'[OnList(b)[i]]
      <4>1. CASE OnList(b)[i] = dma_data
        BY <1>2, <1>5, <1>6, <2>9, <4>1
      <4>2. CASE OnList(b)[i] # dma_data
        BY <1>1, <2>8, <4>2 DEF Verdicts, Removing
      <4> QED
        BY <4>1, <4>2
    <3> QED
      BY <1>1, <1>2, <1>3, <1>4, <2>2, <3>1 DEF Verdicts, Removing
  <2>12. Succeeded' /\ Erred'
    BY <1>3 DEF IInv, Succeeded, Erred
  <2> QED
    BY <2>4, <2>5, <2>6, <2>7, <2>10, <2>11, <2>12 DEF IInv
<1>7. CASE retry[dma_data] # 0
  <2>1. /\ dev' = [dev EXCEPT ![bus] = Idle]
        /\ error' = TRUE /\ kpc' = "unlink" /\ bus' = bus /\ retry' = retry
    BY <1>7 DEF check_error
  <2>2. ~Taken /\ ~Taken'
    BY <1>0, <2>1 DEF Taken
  <2>3. Linked' /\ BackLinked' /\ SlotsAccounted' /\ Owned' /\ Queued'
    BY <1>3, <2>2, Frame
  <2>4. TypeOK'
    <3>1. dev' \in [Buses -> [cmd : Reqs \cup {NULL}, active : BOOLEAN, err : BOOLEAN]]
      BY <1>2, <1>5, <2>1 DEF Idle
    <3> QED
      BY <1>1, <1>3, <2>1, <3>1 DEF TypeOK
  <2>5. Polling'
    BY <1>0, <1>1, <1>2, <1>3, <1>4, <2>1 DEF Polling, Removing, Taken, Finishing
  <2>6. Booting'
    BY <1>0, <1>1, <1>3, <1>4, <2>1 DEF Booting
  <2>7. DeviceFollows'
    <3> SUFFICES ASSUME NEW b \in Buses PROVE DeviceAt(b)'
      BY DEF DeviceFollows
    <3>1. CASE b = bus
      <4>1. Between(b)'
        BY <2>1, <3>1 DEF Between, Starting
      <4>2. ~dev'[b].active /\ ~dev'[b].err
        BY <1>5, <2>1, <3>1 DEF Idle
      <4> QED
        BY <4>1, <4>2 DEF DeviceAt, Quiet, WorksOnFirst, Starting
    <3>2. CASE b # bus
      <4>1. (Between(b)' <=> Between(b)) /\ (Starting(b) => Starting(b)' \/ Between(b))
        BY <1>4, <2>1, <3>2 DEF Between, Starting
      <4>2. dev'[b] = dev[b]
        BY <1>5, <2>1, <3>2
      <4> QED
        BY <1>3, <1>4, <2>1, <4>1, <4>2, DeviceKept
    <3> QED
      BY <3>1, <3>2
  <2>8. Verdicts'
    <3>1. failed[r] >= 2
      BY <1>2, <1>5, <1>7
    <3> QED
      BY <1>1, <1>2, <1>3, <1>4, <2>1, <3>1 DEF Verdicts, Removing
  <2>9. Succeeded' /\ Erred'
    BY <1>3 DEF IInv, Succeeded, Erred
  <2> QED
    BY <2>3, <2>4, <2>5, <2>6, <2>7, <2>8, <2>9 DEF IInv
<1> QED
  BY <1>6, <1>7

\* complete_io_operation starts the request that is first now.
LEMMA StartNextStep ==
    ASSUME IInv, start_next
    PROVE  IInv'
<1> USE DEF start_next
<1>1. TypeOK /\ Linked /\ Polling /\ Booting /\ Verdicts /\ bus \in Buses
  BY DEF IInv, TypeOK
<1>2. UNCHANGED <<next, prev, freeSlots, io, retry, pending, outcome, moved, failed, errs, panic, raced, phase, bus, dma_data, nextReg, error, done>>
  BY DEF list, seen
<1>3. \A b : OnList(b)' = OnList(b)
  BY <1>2 DEF OnList
<1>4. kpc = "start" /\ kpc' = "call" /\ ~Taken /\ ~Taken'
  BY DEF Taken
<1>5. Linked' /\ BackLinked' /\ SlotsAccounted' /\ Owned' /\ Queued'
  BY <1>2, <1>4, Frame
<1>6. Polling'
  BY <1>1, <1>2, <1>4 DEF Polling, Removing, Taken, Finishing
<1>7. Booting'
  BY <1>1, <1>2, <1>3, <1>4 DEF Booting
<1>8. Verdicts'
  BY <1>1, <1>2, <1>3, <1>4 DEF Verdicts, Removing
<1>9. Succeeded' /\ Erred'
  BY <1>2 DEF IInv, Succeeded, Erred
<1>10. DeviceAt(bus) /\ Starting(bus)
  BY <1>1, <1>4 DEF IInv, DeviceFollows, Starting
<1>11. /\ Empty(bus) <=> Len(OnList(bus)) = 0
       /\ ~Empty(bus) => next[bus] = OnList(bus)[1]
       /\ Len(OnList(bus)) \in Nat
  BY <1>1, HeadMeans, ListFacts
<1>12. dev \in [Buses -> [cmd : Reqs \cup {NULL}, active : BOOLEAN, err : BOOLEAN]]
  BY <1>1 DEF TypeOK
<1>13. CASE Empty(bus)
  <2>1. dev' = dev
    BY <1>13
  <2>2. TypeOK'
    BY <1>1, <1>2, <1>4, <2>1 DEF TypeOK
  <2>3. \A b \in Buses : (Between(b)' <=> Between(b)) /\ (Starting(b) => Starting(b)' \/ Between(b))
    BY <1>2, <1>3, <1>4, <1>11, <1>13 DEF Between, Starting
  <2>4. DeviceFollows'
    BY <1>2, <1>3, <2>1, <2>3, DeviceKept DEF DeviceFollows
  <2> QED
    BY <1>5, <1>6, <1>7, <1>8, <1>9, <2>2, <2>4 DEF IInv
<1>14. CASE ~Empty(bus)
  <2> DEFINE r == io[OnList(bus)[1]]
  <2>1. dev' = [dev EXCEPT ![bus] = [@ EXCEPT !.cmd = r, !.active = TRUE]]
    BY <1>11, <1>14 DEF start_io_operation
  <2>2. 1 \in 1..Len(OnList(bus))
    BY <1>11, <1>14
  <2>3. r \in Reqs
    BY <1>1, <2>2 DEF IInv, Owned, TypeOK
  <2>4. /\ dev'[bus].cmd = r /\ dev'[bus].active /\ dev'[bus].err = dev[bus].err
        /\ \A b \in Buses : b # bus => dev'[b] = dev[b]
        /\ dev' \in [Buses -> [cmd : Reqs \cup {NULL}, active : BOOLEAN, err : BOOLEAN]]
    BY <1>1, <1>12, <2>1, <2>3
  <2>e. dev[bus].err => failed[r] > retry[OnList(bus)[1]]
    <3>1. ~Between(bus)
      BY <1>4, <1>11, <1>14 DEF Between
    <3> QED
      BY <1>10, <3>1 DEF DeviceAt, WorksOnFirst, Quiet
  <2>5. TypeOK'
    BY <1>1, <1>2, <1>4, <2>4 DEF TypeOK
  <2>6. DeviceFollows'
    <3> SUFFICES ASSUME NEW b \in Buses PROVE DeviceAt(b)'
      BY DEF DeviceFollows
    <3>1. CASE b = bus
      <4>1. ~Between(b)'
        BY <1>3, <1>4, <1>11, <1>14, <3>1 DEF Between, Starting
      <4>2. io'[OnList(b)'[1]] = r
        BY <1>2, <1>3, <3>1
      <4> QED
        BY <1>2, <1>3, <2>4, <2>e, <3>1, <4>1, <4>2 DEF DeviceAt, WorksOnFirst
    <3>2. CASE b # bus
      <4>1. (Between(b)' <=> Between(b)) /\ (Starting(b) => Starting(b)' \/ Between(b))
        BY <1>2, <1>3, <3>2 DEF Between, Starting
      <4> QED
        BY <1>2, <1>3, <2>4, <3>2, <4>1, DeviceKept
    <3> QED
      BY <3>1, <3>2
  <2> QED
    BY <1>5, <1>6, <1>7, <1>8, <1>9, <2>5, <2>6 DEF IInv
<1> QED
  BY <1>13, <1>14

\* The request an active bus works on.
LEMMA ActiveFacts ==
    ASSUME IInv, NEW b \in Buses, dev[b].active
    PROVE  /\ ~Between(b) /\ WorksOnFirst(b) /\ 1 \in 1..Len(OnList(b))
           /\ dev[b].cmd = io[OnList(b)[1]] /\ dev[b].cmd \in Reqs /\ dev[b].cmd \in pending
           /\ dev[b].cmd # done /\ BusOf(dev[b].cmd) = b
<1>1. DeviceAt(b) /\ Linked /\ Owned /\ pending \subseteq Reqs
  BY DEF IInv, DeviceFollows, TypeOK
<1>2. ~Between(b) /\ WorksOnFirst(b) /\ dev[b].cmd = io[OnList(b)[1]]
  BY <1>1 DEF DeviceAt, Quiet, WorksOnFirst
<1>3. 1 \in 1..Len(OnList(b))
  BY <1>1, <1>2, ListFacts DEF Between, Starting
<1> QED
  BY <1>1, <1>2, <1>3 DEF Owned

\* A transfer succeeds.
LEMMA TransferStep ==
    ASSUME IInv, NEW c \in Buses, transfer(c)
    PROVE  IInv'
<1> DEFINE r == dev[c].cmd
<1>1. TypeOK /\ Linked /\ Polling /\ Booting /\ Verdicts /\ Owned
  BY DEF IInv
<1>2. /\ dev[c].active /\ dev' = [dev EXCEPT ![c].active = FALSE]
      /\ moved' = [moved EXCEPT ![r] = TRUE]
      /\ UNCHANGED <<next, prev, freeSlots, io, retry, phase, kpc, bus, dma_data, nextReg, error, done, pending, outcome, failed, errs, panic, raced>>
  BY DEF transfer, list, task
<1>3. /\ ~Between(c) /\ WorksOnFirst(c) /\ 1 \in 1..Len(OnList(c))
      /\ r = io[OnList(c)[1]] /\ r \in Reqs
  BY <1>2, ActiveFacts
<1>4. \A b : OnList(b)' = OnList(b)
  BY <1>2 DEF OnList
<1>5. Linked' /\ BackLinked' /\ SlotsAccounted' /\ Owned' /\ Queued'
  BY <1>2, Frame
<1>6. dev \in [Buses -> [cmd : Reqs \cup {NULL}, active : BOOLEAN, err : BOOLEAN]]
      /\ moved \in [Reqs -> BOOLEAN]
  BY <1>1 DEF TypeOK
<1> HIDE DEF r
<1>7. /\ dev' \in [Buses -> [cmd : Reqs \cup {NULL}, active : BOOLEAN, err : BOOLEAN]]
      /\ dev'[c].cmd = r /\ ~dev'[c].active /\ dev'[c].err = dev[c].err
      /\ \A b \in Buses : b # c => dev'[b] = dev[b]
  BY <1>2, <1>3, <1>6 DEF r
<1>8. /\ moved' \in [Reqs -> BOOLEAN] /\ moved'[r]
      /\ \A x \in Reqs : moved[x] => moved'[x]
  BY <1>2, <1>3, <1>6
<1>9. TypeOK'
  BY <1>1, <1>2, <1>7, <1>8 DEF TypeOK
<1>10. Polling'
  BY <1>1, <1>2, <1>4 DEF Polling, Removing, Taken, Finishing, Listed, Node
<1>11. Booting'
  BY <1>1, <1>2, <1>4 DEF Booting
<1>12. DeviceFollows'
  <2> SUFFICES ASSUME NEW b \in Buses PROVE DeviceAt(b)'
    BY DEF DeviceFollows
  <2>1. (Between(b)' <=> Between(b)) /\ (Starting(b) => Starting(b)' \/ Between(b))
    BY <1>2, <1>4 DEF Between, Starting
  <2>2. DeviceAt(b)
    BY DEF IInv, DeviceFollows
  <2>3. CASE b = c
    BY <1>2, <1>3, <1>4, <1>7, <1>8, <2>1, <2>3 DEF DeviceAt, Quiet, WorksOnFirst, Starting
  <2>4. CASE b # c /\ Between(b)
    BY <1>7, <2>1, <2>2, <2>4 DEF DeviceAt, Quiet, WorksOnFirst, Starting
  <2>5. CASE b # c /\ ~Between(b)
    <3>1. 1 \in 1..Len(OnList(b))
      BY <1>1, <2>5, ListFacts DEF Between, Starting
    <3>2. io[OnList(b)[1]] \in Reqs
      BY <1>1, <3>1 DEF Owned, TypeOK
    <3> QED
      BY <1>2, <1>4, <1>7, <1>8, <2>1, <2>2, <2>5, <3>2 DEF DeviceAt, Quiet, WorksOnFirst, Starting
  <2> QED
    BY <2>3, <2>4, <2>5
<1>13. Verdicts'
  <2>1. /\ \A b \in Buses : \A i \in 1..Len(OnList(b)) :
              failed[io[OnList(b)[i]]] >= retry[OnList(b)[i]]
        /\ \A x \in Reqs : failed[x] <= errs
    BY <1>1 DEF Verdicts, Removing
  <2>2. Removing => IF error THEN failed[io[dma_data]] >= 2 ELSE moved'[io[dma_data]]
    <3>1. Removing => io[dma_data] \in Reqs
      BY <1>1, ListFacts DEF Polling, Owned, TypeOK
    <3> QED
      BY <1>1, <1>8, <3>1 DEF Verdicts, Removing
  <2>3. done # NULL => IF error THEN failed[done] >= 2 ELSE moved'[done]
    BY <1>1, <1>8 DEF Verdicts, TypeOK
  <2> QED
    BY <1>2, <1>4, <2>1, <2>2, <2>3 DEF Verdicts, Removing
<1>14. Succeeded' /\ Erred'
  BY <1>2, <1>8 DEF IInv, Succeeded, Erred
<1> QED
  BY <1>5, <1>9, <1>10, <1>11, <1>12, <1>13, <1>14 DEF IInv

\* A transfer fails.
LEMMA TransferFailsStep ==
    ASSUME IInv, NEW c \in Buses, transfer_fails(c)
    PROVE  IInv'
<1> DEFINE r == dev[c].cmd
<1>1. TypeOK /\ Linked /\ Polling /\ Booting /\ Verdicts /\ Owned
  BY DEF IInv
<1>2. /\ dev[c].active /\ dev' = [dev EXCEPT ![c].active = FALSE, ![c].err = TRUE]
      /\ failed' = [failed EXCEPT ![r] = @ + 1] /\ errs < MaxErrors /\ errs' = errs + 1
      /\ UNCHANGED <<next, prev, freeSlots, io, retry, phase, kpc, bus, dma_data, nextReg, error, done, pending, outcome, moved, panic, raced>>
  BY DEF transfer_fails, list, task
<1>3. /\ ~Between(c) /\ 1 \in 1..Len(OnList(c))
      /\ r = io[OnList(c)[1]] /\ r \in Reqs
  BY <1>2, ActiveFacts
<1>4. \A b : OnList(b)' = OnList(b)
  BY <1>2 DEF OnList
<1>5. Linked' /\ BackLinked' /\ SlotsAccounted' /\ Owned' /\ Queued'
  BY <1>2, Frame
<1>6. /\ dev \in [Buses -> [cmd : Reqs \cup {NULL}, active : BOOLEAN, err : BOOLEAN]]
      /\ failed \in [Reqs -> 0..MaxErrors] /\ errs \in 0..MaxErrors
  BY <1>1 DEF TypeOK
<1> HIDE DEF r
<1>7. /\ dev' \in [Buses -> [cmd : Reqs \cup {NULL}, active : BOOLEAN, err : BOOLEAN]]
      /\ dev'[c].cmd = r /\ ~dev'[c].active /\ dev'[c].err
      /\ \A b \in Buses : b # c => dev'[b] = dev[b]
  BY <1>2, <1>3, <1>6 DEF r
<1>8. /\ failed'[r] = failed[r] + 1
      /\ \A x \in Reqs : x # r => failed'[x] = failed[x]
      /\ \A x \in Reqs : failed[x] \in Nat /\ failed'[x] \in Nat /\ failed'[x] >= failed[x]
      /\ \A x \in Reqs : failed'[x] <= errs'
  <2>1. failed' = [x \in Reqs |-> IF x = r THEN failed[r] + 1 ELSE failed[x]]
    BY <1>2, <1>6
  <2>2. \A x \in Reqs : failed[x] \in Nat
    BY <1>6, ErrorsAssumption
  <2>3. \A x \in Reqs : failed[x] <= errs
    BY <1>1 DEF Verdicts, Removing
  <2>4. errs \in Nat /\ errs' = errs + 1
    BY <1>2, <1>6, ErrorsAssumption
  <2> QED
    BY <1>3, <2>1, <2>2, <2>3, <2>4
<1>9. TypeOK'
  <2>1. errs' \in 0..MaxErrors
    BY <1>2, <1>6, ErrorsAssumption
  <2>2. failed' \in [Reqs -> 0..MaxErrors]
    <3>1. failed' = [x \in Reqs |-> failed'[x]]
      BY <1>2, <1>6
    <3>2. \A x \in Reqs : failed'[x] \in 0..MaxErrors
      BY <1>8, <2>1, ErrorsAssumption
    <3> QED
      BY <3>1, <3>2
  <2> QED
    BY <1>1, <1>2, <1>7, <2>1, <2>2 DEF TypeOK
<1>10. Polling'
  BY <1>1, <1>2, <1>4 DEF Polling, Removing, Taken, Finishing, Listed, Node
<1>11. Booting'
  BY <1>1, <1>2, <1>4 DEF Booting
<1>v. \A b \in Buses : \A i \in 1..Len(OnList(b)) :
        /\ io[OnList(b)[i]] \in Reqs
        /\ failed[io[OnList(b)[i]]] >= retry[OnList(b)[i]]
        /\ retry[OnList(b)[i]] \in Nat
  <2>1. \A b \in Buses : \A i \in 1..Len(OnList(b)) : OnList(b)[i] \in Slots
    BY <1>1, ListFacts
  <2>2. \A s \in Slots : retry[s] \in Nat
    <3>1. retry \in [Slots -> 0..1]
      BY <1>1 DEF TypeOK
    <3> QED
      BY <3>1
  <2>3. pending \subseteq Reqs
    BY <1>1 DEF TypeOK
  <2> QED
    BY <1>1, <2>1, <2>2, <2>3 DEF Verdicts, Owned
<1>12. DeviceFollows'
  <2> SUFFICES ASSUME NEW b \in Buses PROVE DeviceAt(b)'
    BY DEF DeviceFollows
  <2>1. (Between(b)' <=> Between(b)) /\ (Starting(b) => Starting(b)' \/ Between(b))
    BY <1>2, <1>4 DEF Between, Starting
  <2>2. DeviceAt(b)
    BY DEF IInv, DeviceFollows
  <2>3. CASE b = c
    <3>1. failed'[r] > retry[OnList(b)[1]]
      BY <1>3, <1>8, <1>v, <2>3
    <3> QED
      BY <1>2, <1>3, <1>4, <1>7, <2>1, <2>3, <3>1 DEF DeviceAt, Quiet, WorksOnFirst, Starting
  <2>4. CASE b # c /\ Between(b)
    BY <1>7, <2>1, <2>2, <2>4 DEF DeviceAt, Quiet, WorksOnFirst, Starting
  <2>5. CASE b # c /\ ~Between(b)
    <3>1. 1 \in 1..Len(OnList(b))
      BY <1>1, <2>5, ListFacts DEF Between, Starting
    <3>2. io[OnList(b)[1]] \in Reqs /\ BusOf(io[OnList(b)[1]]) = b /\ BusOf(r) = c
      BY <1>1, <1>3, <1>v, <3>1 DEF Owned
    <3>4. io[OnList(b)[1]] # r
      BY <2>5, <3>2
    <3>3. failed'[io[OnList(b)[1]]] = failed[io[OnList(b)[1]]]
      BY <1>8, <3>2, <3>4
    <3> QED
      BY <1>2, <1>4, <1>7, <2>1, <2>2, <2>5, <3>3 DEF DeviceAt, Quiet, WorksOnFirst, Starting
  <2> QED
    BY <2>3, <2>4, <2>5
<1>13. Verdicts'
  <2>1. \A b \in Buses : \A i \in 1..Len(OnList(b)) :
              failed'[io[OnList(b)[i]]] >= retry[OnList(b)[i]]
    <3> SUFFICES ASSUME NEW b \in Buses, NEW i \in 1..Len(OnList(b))
                 PROVE  failed'[io[OnList(b)[i]]] >= retry[OnList(b)[i]]
      OBVIOUS
    <3>1. /\ failed[io[OnList(b)[i]]] >= retry[OnList(b)[i]] /\ retry[OnList(b)[i]] \in Nat
          /\ io[OnList(b)[i]] \in Reqs
      BY <1>v
    <3> QED
      BY <1>8, <3>1
  <2>2. Removing => IF error THEN failed'[io[dma_data]] >= 2 ELSE moved[io[dma_data]]
    <3>0. bus \in Buses /\ Len(OnList(bus)) \in Nat
      BY <1>1, ListFacts DEF TypeOK
    <3>1. Removing => io[dma_data] \in Reqs
      BY <1>1, <1>v, <3>0 DEF Polling
    <3> QED
      BY <1>1, <1>8, <3>1 DEF Verdicts, Removing
  <2>3. done # NULL => IF error THEN failed'[done] >= 2 ELSE moved[done]
    <3>1. done # NULL => done \in Reqs
      BY <1>1 DEF TypeOK
    <3> QED
      BY <1>1, <1>8, <3>1 DEF Verdicts, Removing
  <2> QED
    BY <1>2, <1>4, <1>8, <2>1, <2>2, <2>3 DEF Verdicts, Removing
<1>14. Succeeded' /\ Erred'
  <2>1. Succeeded /\ Erred
    BY DEF IInv
  <2>2. Erred'
    BY <1>2, <1>8, <2>1 DEF Erred
  <2> QED
    BY <1>2, <2>1, <2>2 DEF Succeeded
<1> QED
  BY <1>5, <1>9, <1>10, <1>11, <1>12, <1>13, <1>14 DEF IInv

\* The completion function is called.
LEMMA CompleteFuncStep ==
    ASSUME IInv, complete_func
    PROVE  IInv'
<1>1. TypeOK /\ Linked /\ BackLinked /\ SlotsAccounted /\ Polling /\ Booting /\ Verdicts /\ Owned
      /\ Queued
  BY DEF IInv
<1>2. /\ kpc = "call" /\ pending' = pending \ {done} /\ done' = NULL /\ NextBus
      /\ outcome' = [outcome EXCEPT ![done] = IF error THEN "error" ELSE "ok"]
      /\ UNCHANGED <<next, prev, freeSlots, io, retry, moved, failed, dev, errs, panic, raced, phase, dma_data, nextReg, error>>
  BY DEF complete_func, list
<1>3. done # NULL /\ done \in pending /\ done \in Reqs
  BY <1>1, <1>2 DEF Polling, Removing, Finishing, TypeOK
<1>4. \A b : OnList(b)' = OnList(b)
  BY <1>2 DEF OnList
<1>5. /\ bus' \in Buses /\ kpc' \in {"wait", "check", "idle"}
      /\ phase = "boot" => kpc' = "wait" /\ bus' = bus
      /\ phase = "run" => kpc' # "wait"
  BY <1>1, <1>2, NextBusFacts
<1>6. ~Taken /\ ~Taken' /\ kpc # "unlink2" /\ kpc' # "unlink2"
  BY <1>2, <1>5 DEF Taken
<1>7. Linked'
  <2>1. next' = next
    BY <1>2
  <2> QED
    BY <1>1, <1>4, <2>1 DEF Linked, IsChain, Node
<1>8. BackLinked'
  BY <1>1, <1>2, <1>4, <1>6 DEF BackLinked, Node
<1>9. SlotsAccounted'
  BY <1>1, <1>2, <1>4, <1>6 DEF SlotsAccounted, IsFree, Listed
<1>10. Owned'
  <2>1. NULL \notin Reqs /\ pending \subseteq Reqs
    BY <1>1, ConstFacts DEF TypeOK
  <2>2. ASSUME NEW b \in Buses, NEW i \in 1..Len(OnList(b))
        PROVE  LET r == io[OnList(b)[i]] IN r \in pending' /\ BusOf(r) = b /\ r # done'
    BY <1>1, <1>2, <2>1 DEF Owned
  <2> QED
    BY <1>1, <1>2, <1>4, <2>2 DEF Owned
<1>11. Queued'
  BY <1>1, <1>2, <1>4 DEF Queued
<1>12. TypeOK'
  <2>1. outcome' \in [Reqs -> {"none", "ok", "error"}] /\ pending' \subseteq Reqs
    BY <1>1, <1>2 DEF TypeOK
  <2> QED
    BY <1>1, <1>2, <1>5, <2>1 DEF TypeOK
<1>13. Polling'
  BY <1>2, <1>5 DEF Polling, Removing, Taken, Finishing
<1>14. Booting'
  BY <1>1, <1>2, <1>4, <1>5 DEF Booting
<1>15. DeviceFollows'
  <2>1. \A b \in Buses : (Between(b)' <=> Between(b)) /\ (Starting(b) => Starting(b)' \/ Between(b))
    BY <1>2, <1>4, <1>5 DEF Between, Starting
  <2> QED
    BY <1>2, <1>4, <2>1, DeviceKept DEF DeviceFollows
<1>16. Verdicts'
  BY <1>1, <1>2, <1>4, <1>5 DEF Verdicts, Removing
<1>17. Succeeded' /\ Erred'
  <2>1. \A r \in Reqs : outcome'[r] = IF r = done THEN (IF error THEN "error" ELSE "ok") ELSE outcome[r]
    BY <1>1, <1>2, <1>3 DEF TypeOK
  <2>2. IF error THEN failed[done] >= 2 ELSE moved[done]
    BY <1>1, <1>3 DEF Verdicts, Removing
  <2> QED
    BY <1>2, <2>1, <2>2 DEF IInv, Succeeded, Erred
<1> QED
  BY <1>7, <1>8, <1>9, <1>10, <1>11, <1>12, <1>13, <1>14, <1>15, <1>16, <1>17 DEF IInv

-----------------------------------------------------------------------------
(* Taking the first object off its list.                                   *)

\* What complete_io_operation starts from.
LEMMA UnlinkFacts ==
    ASSUME IInv, kpc = "unlink1"
    PROVE  /\ bus \in Buses /\ OnList(bus) \in Seq(Slots)
           /\ Len(OnList(bus)) \in Nat /\ Len(OnList(bus)) > 0
           /\ dma_data = OnList(bus)[1] /\ dma_data \in Slots
           /\ io[dma_data] \in pending /\ io[dma_data] \in Reqs
           /\ BusOf(io[dma_data]) = bus /\ done = NULL
           /\ next[dma_data] = Node(OnList(bus), bus, 2) /\ prev[dma_data] = bus
           /\ nextReg = next[dma_data]
<1> DEFINE s == OnList(bus)
<1>1. bus \in Buses /\ Linked /\ Owned /\ BackLinked /\ pending \subseteq Reqs
  BY DEF IInv, TypeOK
<1>2. Len(s) > 0 /\ dma_data = s[1] /\ done = NULL /\ nextReg = next[dma_data]
  BY DEF IInv, Polling, Removing, Finishing
<1>3. s \in Seq(Slots) /\ Len(s) \in Nat /\ \A i \in 1..Len(s) : s[i] \in Slots
  BY <1>1, ListFacts
<1>4. 1 \in 1..Len(s) /\ 0 \in 0..Len(s) /\ 1 \in 0..Len(s)
  BY <1>2, <1>3
<1>5. io[s[1]] \in pending /\ BusOf(io[s[1]]) = bus
  BY <1>1, <1>4 DEF Owned
<1>6. next[Node(s, bus, 1)] = Node(s, bus, 1 + 1)
  BY <1>1, <1>4 DEF Linked, IsChain
<1>7. prev[Node(s, bus, 0 + 1)] = Node(s, bus, 0)
  BY <1>1, <1>4 DEF BackLinked
<1> HIDE DEF s
<1>8. Node(s, bus, 1) = s[1] /\ Node(s, bus, 0) = bus
  BY <1>3, <1>4 DEF Node
<1> QED
  BY <1>1, <1>2, <1>3, <1>4, <1>5, <1>6, <1>7, <1>8 DEF s

\* The ring without its first object.
LEMMA NodeTail ==
    ASSUME NEW s \in Seq(Slots), s # <<>>, NEW b
    PROVE  /\ Tail(s) \in Seq(Slots) /\ Len(s) \in Nat /\ Len(s) > 0 /\ Len(Tail(s)) = Len(s) - 1
           /\ \A i \in 1..Len(s) - 1 : Tail(s)[i] = s[i + 1]
           /\ Node(Tail(s), b, 0) = b
           /\ \A i \in Nat : i >= 1 => Node(Tail(s), b, i) = Node(s, b, i + 1)
<1>1. Tail(s) \in Seq(Slots) /\ Len(Tail(s)) = Len(s) - 1 /\ \A i \in 1..Len(s) - 1 : Tail(s)[i] = s[i + 1]
  <2>1. Tail(s) \in Seq(Slots) /\ Len(Tail(s)) = Len(s) - 1 /\ \A i \in 1..Len(Tail(s)) : Tail(s)[i] = s[i + 1]
    BY HeadTailProperties
  <2> QED
    BY <2>1
<1>2. Len(s) \in Nat /\ Len(s) # 0
  BY EmptySeq, LenProperties
<1>3. Node(Tail(s), b, 0) = b
  BY <1>1, <1>2 DEF Node
<1>4. ASSUME NEW i \in Nat, i >= 1 PROVE Node(Tail(s), b, i) = Node(s, b, i + 1)
  <2>1. CASE i \in 1..Len(s) - 1
    BY <1>1, <1>2, <2>1 DEF Node
  <2>2. CASE i \notin 1..Len(s) - 1
    <3>1. i \notin 1..Len(Tail(s)) /\ i + 1 \notin 1..Len(s)
      BY <1>1, <1>2, <1>4, <2>2
    <3> QED
      BY <3>1 DEF Node
  <2> QED
    BY <2>1, <2>2
<1> QED
  BY <1>1, <1>2, <1>3, <1>4

\* The store dma_data->prev->next = dma_data->next makes the rest the list.
LEMMA UnlinkLists ==
    ASSUME IInv, unlink_next
    PROVE  /\ Linked'
           /\ OnList(bus)' = Tail(OnList(bus))
           /\ \A b \in Buses : b # bus => OnList(b)' = OnList(b)
           /\ OnList(bus) # <<>>
           /\ next' = [next EXCEPT ![bus] = next[dma_data]]
<1> DEFINE s == OnList(bus)
           t == Tail(s)
<1>1. /\ kpc = "unlink1" /\ next' = [next EXCEPT ![prev[dma_data]] = next[dma_data]]
      /\ bus' = bus
  BY UnlinkFacts DEF unlink_next
<1>2. /\ bus \in Buses /\ s \in Seq(Slots) /\ Len(s) \in Nat /\ Len(s) > 0
      /\ dma_data = s[1] /\ dma_data \in Slots
      /\ next[dma_data] = Node(s, bus, 2) /\ prev[dma_data] = bus
  BY <1>1, UnlinkFacts
<1>3. next \in Links /\ Linked /\ Owned
  BY DEF IInv, TypeOK, Links
<1>4. s # <<>>
  BY <1>2, EmptySeq
<1>5. next' = [next EXCEPT ![bus] = next[dma_data]]
  BY <1>1, <1>2
<1>6. next' \in Links
  BY <1>2, <1>3, <1>5, ConstFacts DEF Links
<1>7. /\ t \in Seq(Slots) /\ Len(t) = Len(s) - 1
      /\ \A i \in 1..Len(s) - 1 : t[i] = s[i + 1]
      /\ Node(t, bus, 0) = bus
      /\ \A i \in Nat : i >= 1 => Node(t, bus, i) = Node(s, bus, i + 1)
  BY <1>2, <1>4, NodeTail
<1>8. \A i, j \in 1..Len(s) : s[i] = s[j] => i = j
  BY <1>2, <1>3 DEF Linked, IsChain
<1>9. \A i \in 0..Len(s) : next[Node(s, bus, i)] = Node(s, bus, i + 1)
  BY <1>2, <1>3 DEF Linked, IsChain
<1>10. \A i \in 1..Len(s) : s[i] \in Slots
  BY <1>2, ElementOfSeq
<1>11. bus \notin Slots /\ bus \in Nodes /\ \A x \in Slots : x \in Nodes
  BY <1>2, ConstFacts
<1>12. IsChain(next', t, bus)
  <2> HIDE DEF s, t
  <2>1. \A i, j \in 1..Len(t) : t[i] = t[j] => i = j
    <3> SUFFICES ASSUME NEW i \in 1..Len(t), NEW j \in 1..Len(t), t[i] = t[j] PROVE i = j
      OBVIOUS
    <3>1. i \in 1..Len(s) - 1 /\ j \in 1..Len(s) - 1 /\ i + 1 \in 1..Len(s) /\ j + 1 \in 1..Len(s)
      BY <1>2, <1>7
    <3>2. s[i + 1] = s[j + 1]
      BY <1>7, <3>1
    <3>3. i + 1 = j + 1
      BY <1>8, <3>1, <3>2
    <3> QED
      BY <3>3
  <2>2. ASSUME NEW i \in 0..Len(t) PROVE next'[Node(t, bus, i)] = Node(t, bus, i + 1)
    <3>1. CASE i = 0
      <4>1. next'[bus] = next[dma_data]
        BY <1>3, <1>5, <1>11 DEF Links
      <4>2. Node(t, bus, 1) = Node(s, bus, 2)
        <5>1. 1 \in Nat /\ 1 >= 1 /\ 1 + 1 = 2
          OBVIOUS
        <5>2. Node(t, bus, 1) = Node(s, bus, 1 + 1)
          BY <1>7, <5>1
        <5> QED
          BY <5>1, <5>2
      <4>3. 0 + 1 = 1
        OBVIOUS
      <4> QED
        BY <1>2, <1>7, <3>1, <4>1, <4>2, <4>3
    <3>2. CASE i # 0
      <4>0. Len(t) = Len(s) - 1 /\ Len(s) \in Nat
        BY <1>2, <1>7
      <4>1. i \in Nat /\ i >= 1 /\ i + 1 \in Nat /\ i + 1 >= 1 /\ i + 1 \in 0..Len(s) /\ i + 1 \in 1..Len(s)
        BY <3>2, <4>0
      <4>2. Node(t, bus, i) = Node(s, bus, i + 1) /\ Node(t, bus, i + 1) = Node(s, bus, (i + 1) + 1)
        BY <1>7, <4>1
      <4>3. Node(s, bus, i + 1) = s[i + 1] /\ s[i + 1] \in Slots
        BY <1>10, <4>1 DEF Node
      <4>4. next'[s[i + 1]] = next[s[i + 1]]
        BY <1>3, <1>5, <1>11, <4>3 DEF Links
      <4>5. next[Node(s, bus, i + 1)] = Node(s, bus, (i + 1) + 1)
        BY <1>9, <4>1
      <4> QED
        BY <4>2, <4>3, <4>4, <4>5
    <3> QED
      BY <3>1, <3>2
  <2> QED
    BY <1>7, <2>1, <2>2 DEF IsChain
<1>13. ListFrom(next', bus) = t
  BY <1>2, <1>6, <1>12, ChainIsList
<1>14. ASSUME NEW b \in Buses, b # bus
       PROVE  IsChain(next', OnList(b), b) /\ ListFrom(next', b) = OnList(b)
  <2>1. ASSUME NEW i \in 0..Len(OnList(b))
        PROVE  next'[Node(OnList(b), b, i)] = next[Node(OnList(b), b, i)]
    <3>1. Node(OnList(b), b, i) \in Nodes
      BY <1>3, ListFacts
    <3>2. Node(OnList(b), b, i) # bus
      <4>1. 0 \in 0..Len(OnList(bus)) /\ Node(OnList(bus), bus, 0) = bus
        BY <1>2 DEF Node
      <4> QED
        BY <1>2, <1>3, <1>14, <4>1, NodesApart
    <3> QED
      BY <1>3, <1>5, <3>1, <3>2 DEF Links
  <2>2. IsChain(next', OnList(b), b)
    BY <1>3, <2>1 DEF Linked, IsChain
  <2> QED
    BY <1>6, <2>2, ChainIsList
<1>15. OnList(bus)' = t /\ \A b \in Buses : b # bus => OnList(b)' = OnList(b)
  BY <1>1, <1>13, <1>14 DEF OnList
<1>16. Linked'
  <2>1. ASSUME NEW b \in Buses PROVE IsChain(next', ListFrom(next', b), b)
    BY <1>12, <1>13, <1>14
  <2> QED
    BY <2>1 DEF Linked, OnList, IsChain, Node
<1> QED
  BY <1>4, <1>5, <1>15, <1>16

\* dma_data->prev->next = dma_data->next: the load
LEMMA LoadNextStep ==
    ASSUME IInv, load_next
    PROVE  IInv'
<1>1. TypeOK /\ Linked /\ Polling /\ Booting /\ Verdicts /\ bus \in Buses
  BY DEF IInv, TypeOK
<1>2. /\ kpc = "unlink" /\ kpc' = "unlink1" /\ nextReg' = next[dma_data]
      /\ UNCHANGED <<next, prev, freeSlots, io, retry, pending, outcome, moved, failed, dev, errs, panic, raced, phase, bus, dma_data, error, done>>
  BY DEF load_next, list, seen
<1>3. \A b : OnList(b)' = OnList(b)
  BY <1>2 DEF OnList
<1>4. ~Taken /\ ~Taken' /\ Removing /\ Removing'
  BY <1>2 DEF Taken, Removing
<1>5. Linked' /\ BackLinked' /\ SlotsAccounted' /\ Owned' /\ Queued'
  BY <1>2, <1>4, Frame
<1>6. dma_data \in Nodes
  <2>1. Len(OnList(bus)) > 0 /\ dma_data = OnList(bus)[1]
    BY <1>1, <1>4 DEF Polling
  <2>2. OnList(bus)[1] \in Slots
    BY <1>1, <2>1, ListFacts
  <2> QED
    BY <2>1, <2>2, ConstFacts
<1>7. TypeOK'
  <2>1. next[dma_data] \in Nodes \cup {NULL}
    BY <1>1, <1>6 DEF TypeOK
  <2> QED
    BY <1>1, <1>2, <2>1 DEF TypeOK
<1>8. Polling'
  BY <1>1, <1>2, <1>3, <1>4 DEF Polling, Taken, Finishing
<1>9. Booting'
  BY <1>1, <1>2, <1>3 DEF Booting
<1>10. DeviceFollows'
  <2>1. \A b \in Buses : (Between(b)' <=> Between(b)) /\ ~Starting(b)
    BY <1>2, <1>3 DEF Between, Starting
  <2> QED
    BY <1>2, <1>3, <2>1, DeviceKept DEF DeviceFollows
<1>11. Verdicts'
  BY <1>1, <1>2, <1>3, <1>4 DEF Verdicts
<1>12. Succeeded' /\ Erred'
  BY <1>2 DEF IInv, Succeeded, Erred
<1> QED
  BY <1>5, <1>7, <1>8, <1>9, <1>10, <1>11, <1>12 DEF IInv

\* ... and the store
LEMMA UnlinkNextStep ==
    ASSUME IInv, unlink_next
    PROVE  IInv'
<1> DEFINE s == OnList(bus)
           t == Tail(s)
           from(b, i) == IF b = bus THEN i + 1 ELSE i
<1>1. TypeOK /\ Linked /\ BackLinked /\ SlotsAccounted /\ Polling /\ Booting /\ Verdicts /\ Owned
      /\ Queued
  BY DEF IInv
<1>2. /\ kpc = "unlink1" /\ kpc' = "unlink2" /\ done' = io[dma_data] /\ nextReg' = next[dma_data]
      /\ UNCHANGED <<prev, freeSlots, io, retry, pending, outcome, moved, failed, dev, errs, panic, raced, phase, bus, dma_data, error>>
  BY UnlinkFacts DEF unlink_next, seen
<1>3. /\ bus \in Buses /\ s \in Seq(Slots) /\ Len(s) \in Nat /\ Len(s) > 0
      /\ dma_data = s[1] /\ dma_data \in Slots
      /\ io[dma_data] \in pending /\ io[dma_data] \in Reqs
      /\ BusOf(io[dma_data]) = bus /\ done = NULL
      /\ next[dma_data] = Node(s, bus, 2) /\ prev[dma_data] = bus
  BY <1>2, UnlinkFacts
<1>4. /\ Linked' /\ OnList(bus)' = t /\ s # <<>>
      /\ \A b \in Buses : b # bus => OnList(b)' = OnList(b)
      /\ next' = [next EXCEPT ![bus] = next[dma_data]]
  BY UnlinkLists
<1>b. \A b \in Buses : b = bus => OnList(b)' = t
  BY <1>2, <1>4
<1>5. /\ t \in Seq(Slots) /\ Len(t) = Len(s) - 1
      /\ \A i \in 1..Len(s) - 1 : t[i] = s[i + 1]
      /\ \A i \in Nat : i >= 1 => Node(t, bus, i) = Node(s, bus, i + 1)
  BY <1>3, <1>4, NodeTail
<1>6. ASSUME NEW b \in Buses, NEW i \in 1..Len(OnList(b)')
      PROVE  /\ from(b, i) \in 1..Len(OnList(b)) /\ OnList(b)'[i] = OnList(b)[from(b, i)]
             /\ b = bus => from(b, i) # 1
  <2>1. CASE b # bus
    BY <1>4, <2>1
  <2>2. CASE b = bus
    <3>1. i \in 1..Len(s) - 1
      BY <1>b, <1>5, <2>2
    <3>2. i + 1 \in 1..Len(s) /\ i + 1 # 1 /\ t[i] = s[i + 1]
      BY <1>3, <1>5, <3>1
    <3>3. from(b, i) = i + 1 /\ OnList(b) = s /\ OnList(b)' = t
      BY <1>b, <2>2
    <3> HIDE DEF s, t, from
    <3> QED
      BY <2>2, <3>2, <3>3
  <2> QED
    BY <2>1, <2>2
<1>7. \A i, j \in 1..Len(s) : s[i] = s[j] => i = j
  BY <1>1, <1>3 DEF Linked, IsChain
<1>8. \A b \in Buses : b # bus => ~Listed(dma_data, b)
  BY <1>1, <1>3 DEF Owned, Listed
<1>9. \A b \in Buses : b = bus => \A x : Listed(x, b)' <=> Listed(x, b) /\ x # dma_data
  <2>1. \A b \in Buses : b = bus => \A x : Listed(x, b)' <=> \E i \in 1..Len(t) : t[i] = x
    BY <1>b DEF Listed
  <2>2. \A x : Listed(x, bus) <=> \E i \in 1..Len(s) : s[i] = x
    BY DEF Listed
  <2> HIDE DEF s, t
  <2>3. \A i \in 1..Len(t) : i + 1 \in 1..Len(s) /\ i + 1 # 1 /\ t[i] = s[i + 1]
    <3>1. Len(t) = Len(s) - 1 /\ Len(s) \in Nat
      BY <1>3, <1>5
    <3> SUFFICES ASSUME NEW i \in 1..Len(t) PROVE i + 1 \in 1..Len(s) /\ i + 1 # 1 /\ t[i] = s[i + 1]
      OBVIOUS
    <3>2. i \in 1..Len(s) - 1
      BY <3>1
    <3>3. t[i] = s[i + 1]
      BY <1>5, <3>2
    <3>4. i + 1 \in 1..Len(s) /\ i + 1 # 1
      BY <3>1
    <3> QED
      BY <3>3, <3>4
  <2>4. \A i \in 1..Len(s) : i # 1 => i - 1 \in 1..Len(t) /\ t[i - 1] = s[i]
    <3> SUFFICES ASSUME NEW i \in 1..Len(s), i # 1 PROVE i - 1 \in 1..Len(t) /\ t[i - 1] = s[i]
      OBVIOUS
    <3>1. i - 1 \in 1..Len(s) - 1 /\ (i - 1) + 1 = i
      BY <1>3
    <3> QED
      BY <1>5, <3>1
  <2>5. 1 \in 1..Len(s)
    BY <1>3
  <2>6. ASSUME NEW x PROVE (\E i \in 1..Len(t) : t[i] = x) <=> (\E i \in 1..Len(s) : s[i] = x) /\ x # s[1]
    <3>1. ASSUME NEW i \in 1..Len(t), t[i] = x
          PROVE  (\E k \in 1..Len(s) : s[k] = x) /\ x # s[1]
      <4>1. i + 1 \in 1..Len(s) /\ i + 1 # 1 /\ s[i + 1] = x
        BY <2>3, <3>1
      <4>2. x # s[1]
        BY <1>7, <2>5, <4>1
      <4> QED
        BY <4>1, <4>2
    <3>2. ASSUME NEW k \in 1..Len(s), s[k] = x, x # s[1]
          PROVE  \E i \in 1..Len(t) : t[i] = x
      <4>1. k # 1
        BY <3>2
      <4>2. k - 1 \in 1..Len(t) /\ t[k - 1] = x
        BY <2>4, <3>2, <4>1
      <4> QED
        BY <4>2
    <3> QED
      BY <3>1, <3>2
  <2> QED
    BY <1>3, <2>1, <2>2, <2>6
<1>10. \A b \in Buses : b # bus => \A x : Listed(x, b)' <=> Listed(x, b)
  BY <1>4 DEF Listed
<1>11. BackLinked'
  <2> SUFFICES ASSUME NEW b \in Buses, NEW i \in 0..Len(OnList(b)')
               PROVE  prev[Node(OnList(b)', b, i + 1)] =
                        IF i = 0 /\ b = bus THEN dma_data ELSE Node(OnList(b)', b, i)
    BY <1>2 DEF BackLinked, Node
  <2>1. CASE b # bus
    <3>1. OnList(b)' = OnList(b)
      BY <1>4, <2>1
    <3> QED
      BY <1>1, <1>2, <2>1, <3>1 DEF BackLinked
  <2>2. CASE b = bus
    <3>1. OnList(b)' = t /\ i \in 0..Len(t)
      BY <1>b, <2>2
    <3>2. \A k \in 0..Len(s) : prev[Node(s, bus, k + 1)] = Node(s, bus, k)
      BY <1>1, <1>2, <1>3 DEF BackLinked
    <3> HIDE DEF s, t
    <3>3. i \in Nat /\ i + 1 \in 0..Len(s) /\ i + 1 \in Nat /\ i + 1 >= 1
      <4>1. Len(t) = Len(s) - 1 /\ Len(s) \in Nat
        BY <1>3, <1>5
      <4> QED
        BY <3>1, <4>1
    <3>4. prev[Node(s, bus, (i + 1) + 1)] = Node(s, bus, i + 1)
      BY <3>2, <3>3
    <3>5. Node(t, bus, i + 1) = Node(s, bus, (i + 1) + 1)
      BY <1>5, <3>3
    <3>6. CASE i = 0
      <4>1. 1 \in 1..Len(s) /\ i + 1 = 1
        BY <1>3, <3>6
      <4>2. Node(s, bus, i + 1) = s[1]
        BY <4>1 DEF Node
      <4> QED
        BY <1>3, <2>2, <3>1, <3>4, <3>5, <3>6, <4>2
    <3>7. CASE i # 0
      <4>1. i >= 1
        BY <3>3, <3>7
      <4>2. Node(t, bus, i) = Node(s, bus, i + 1)
        BY <1>5, <3>3, <4>1
      <4> QED
        BY <2>2, <3>1, <3>4, <3>5, <3>7, <4>2
    <3> QED
      BY <3>6, <3>7
  <2> QED
    BY <2>1, <2>2
<1>12. SlotsAccounted'
  <2>1. Taken' /\ dma_data' = dma_data /\ ~Taken
    BY <1>2 DEF Taken
  <2>2. Listed(dma_data, bus)
    BY <1>3 DEF Listed
  <2>3. \A x : IsFree(x)' <=> IsFree(x)
    BY <1>2 DEF IsFree
  <2>4. ASSUME NEW x \in Slots
        PROVE  IsFree(x) \/ x = dma_data \/ \E b \in Buses : Listed(x, b)'
    BY <1>1, <1>3, <1>9, <1>10, <2>1 DEF SlotsAccounted
  <2>5. ASSUME NEW x \in Slots, IsFree(x)
        PROVE  x # dma_data /\ \A b \in Buses : ~Listed(x, b)'
    BY <1>1, <1>3, <1>9, <1>10, <2>2, <2>5 DEF SlotsAccounted
  <2> QED
    BY <1>1, <1>2, <2>1, <2>3, <2>4, <2>5 DEF SlotsAccounted
<1>13. Owned'
  <2>1. ASSUME NEW b \in Buses, NEW i \in 1..Len(OnList(b)')
        PROVE  LET r == io[OnList(b)'[i]] IN r \in pending /\ BusOf(r) = b /\ r # io[dma_data]
    <3> DEFINE k == from(b, i)
    <3>1. k \in 1..Len(OnList(b)) /\ OnList(b)'[i] = OnList(b)[k] /\ (b = bus => k # 1)
      BY <1>6
    <3>2. io[OnList(b)[k]] \in pending /\ BusOf(io[OnList(b)[k]]) = b
      BY <1>1, <3>1 DEF Owned
    <3>3. io[OnList(b)[k]] # io[dma_data]
      <4>1. CASE b # bus
        BY <1>3, <3>2, <4>1
      <4>2. CASE b = bus
        <5>1. 1 \in 1..Len(s)
          BY <1>3
        <5> QED
          BY <1>1, <1>3, <3>1, <4>2, <5>1 DEF Owned
      <4> QED
        BY <4>1, <4>2
    <3> QED
      BY <3>1, <3>2, <3>3
  <2>2. ASSUME NEW b \in Buses, NEW i \in 1..Len(OnList(b)'), NEW j \in 1..Len(OnList(b)'),
               io[OnList(b)'[i]] = io[OnList(b)'[j]]
        PROVE  i = j
    <3>1. from(b, i) \in 1..Len(OnList(b)) /\ OnList(b)'[i] = OnList(b)[from(b, i)]
      BY <1>6
    <3>2. from(b, j) \in 1..Len(OnList(b)) /\ OnList(b)'[j] = OnList(b)[from(b, j)]
      BY <1>6
    <3>3. from(b, i) = from(b, j)
      <4> HIDE DEF from
      <4> QED
        BY <1>1, <2>2, <3>1, <3>2 DEF Owned
    <3>4. i \in Int /\ j \in Int
      OBVIOUS
    <3> QED
      BY <3>3, <3>4
  <2> QED
    BY <1>2, <2>1, <2>2 DEF Owned
<1>14. Queued'
  <2> SUFFICES ASSUME NEW r \in pending
               PROVE  io[dma_data] = r \/ \E i \in 1..Len(OnList(BusOf(r))') : io[OnList(BusOf(r))'[i]] = r
    BY <1>2 DEF Queued
  <2> DEFINE b == BusOf(r)
  <2>1. b \in Buses /\ r # NULL
    BY <1>1, ConstFacts DEF TypeOK
  <2>2. PICK k \in 1..Len(OnList(b)) : io[OnList(b)[k]] = r
    BY <1>1, <1>3, <2>1 DEF Queued
  <2>3. CASE b # bus
    BY <1>4, <2>1, <2>2, <2>3
  <2>4. CASE b = bus /\ k = 1
    BY <1>3, <2>2, <2>4
  <2>5. CASE b = bus /\ k # 1
    <3>1. k \in 1..Len(s) /\ io[s[k]] = r /\ OnList(b)' = t
      BY <1>b, <2>1, <2>2, <2>5
    <3> HIDE DEF s, t
    <3>2. k - 1 \in 1..Len(s) - 1 /\ (k - 1) + 1 = k
      BY <1>3, <2>5, <3>1
    <3>3. k - 1 \in 1..Len(t) /\ t[k - 1] = s[k]
      BY <1>5, <3>2
    <3> QED
      BY <3>1, <3>3
  <2> QED
    BY <2>3, <2>4, <2>5
<1>15. TypeOK'
  <2>1. next' \in [Nodes -> Nodes \cup {NULL}] /\ next[dma_data] \in Nodes \cup {NULL}
    BY <1>1, <1>3, <1>4, ConstFacts DEF TypeOK
  <2> QED
    BY <1>1, <1>2, <1>3, <2>1 DEF TypeOK
<1>16. Polling'
  <2>1. \A b \in Buses : ~Listed(dma_data, b)'
    BY <1>2, <1>8, <1>9, <1>10
  <2>2. next'[dma_data] = next[dma_data]
    BY <1>1, <1>3, <1>4, ConstFacts DEF TypeOK
  <2>3. Node(t, bus, 1) = Node(s, bus, 2)
    <3>1. 1 \in Nat /\ 1 >= 1 /\ 1 + 1 = 2
      OBVIOUS
    <3>2. Node(t, bus, 1) = Node(s, bus, 1 + 1)
      BY <1>5, <3>1
    <3> QED
      BY <3>1, <3>2
  <2>4. Node(OnList(bus), bus, 1)' = Node(t, bus, 1)
    BY <1>2, <1>4 DEF Node
  <2>5. io[dma_data] # NULL
    BY <1>3, ConstFacts
  <2>6. kpc' = "unlink2" => /\ prev'[dma_data'] = bus'
                            /\ next'[dma_data'] = Node(OnList(bus), bus, 1)'
                            /\ nextReg' = next'[dma_data']
    BY <1>2, <1>3, <2>2, <2>3, <2>4
  <2> QED
    BY <1>2, <1>3, <2>1, <2>5, <2>6 DEF Polling, Removing, Taken, Finishing, Listed
<1>17. Booting'
  BY <1>1, <1>2, <1>4 DEF Booting
<1>18. DeviceFollows'
  <2> SUFFICES ASSUME NEW b \in Buses PROVE DeviceAt(b)'
    BY DEF DeviceFollows
  <2>1. CASE b = bus
    <3>1. Between(b) /\ Between(b)' /\ DeviceAt(b)
      BY <1>2, <2>1 DEF IInv, DeviceFollows, Between
    <3> QED
      BY <1>2, <3>1 DEF DeviceAt, Quiet, WorksOnFirst, Starting
  <2>2. CASE b # bus
    <3>1. OnList(b)' = OnList(b)
      BY <1>4, <2>2
    <3>2. (Between(b)' <=> Between(b)) /\ (Starting(b) => Starting(b)' \/ Between(b))
      BY <1>2, <2>2, <3>1 DEF Between, Starting
    <3> QED
      BY <1>2, <3>1, <3>2, DeviceKept
  <2> QED
    BY <2>1, <2>2
<1>19. Verdicts'
  <2>1. ASSUME NEW b \in Buses, NEW i \in 1..Len(OnList(b)')
        PROVE  failed[io[OnList(b)'[i]]] >= retry[OnList(b)'[i]]
    <3>1. from(b, i) \in 1..Len(OnList(b)) /\ OnList(b)'[i] = OnList(b)[from(b, i)]
      BY <1>6
    <3> HIDE DEF from
    <3> QED
      BY <1>1, <3>1 DEF Verdicts, Removing
  <2>2. IF error THEN failed[io[dma_data]] >= 2 ELSE moved[io[dma_data]]
    BY <1>1, <1>2 DEF Verdicts, Removing
  <2> QED
    BY <1>1, <1>2, <2>1, <2>2 DEF Verdicts, Removing
<1>20. Succeeded' /\ Erred'
  BY <1>2 DEF IInv, Succeeded, Erred
<1> QED
  BY <1>4, <1>11, <1>12, <1>13, <1>14, <1>15, <1>16, <1>17, <1>18, <1>19, <1>20 DEF IInv

\* dma_data->next->prev = dma_data->prev
LEMMA UnlinkPrevStep ==
    ASSUME IInv, unlink_prev
    PROVE  IInv'
<1> DEFINE n == Node(OnList(bus), bus, 1)
<1>1. TypeOK /\ Linked /\ BackLinked /\ SlotsAccounted /\ Polling /\ Booting /\ Verdicts /\ Owned
      /\ Queued /\ bus \in Buses
  BY DEF IInv, TypeOK
<1>2. /\ kpc = "unlink2" /\ kpc' = "free"
      /\ UNCHANGED <<next, freeSlots, io, retry, pending, outcome, moved, failed, dev, errs, panic, raced, phase, bus, dma_data, nextReg, error, done>>
  BY DEF unlink_prev, seen
<1>3. prev[dma_data] = bus /\ next[dma_data] = n /\ nextReg = n
  BY <1>1, <1>2 DEF Polling
<1>4. prev' = [prev EXCEPT ![n] = bus]
  BY <1>3 DEF unlink_prev
<1>5. \A b : OnList(b)' = OnList(b)
  BY <1>2 DEF OnList
<1>6. Taken /\ Taken'
  BY <1>2 DEF Taken
<1>7. Linked'
  BY <1>1, <1>2, <1>5 DEF Linked, IsChain, Node
<1>8. prev \in [Nodes -> Nodes \cup {NULL}]
  BY <1>1 DEF TypeOK
<1>9. BackLinked'
  <2> SUFFICES ASSUME NEW b \in Buses, NEW i \in 0..Len(OnList(b))
               PROVE  prev'[Node(OnList(b), b, i + 1)] = Node(OnList(b), b, i)
    BY <1>2, <1>5 DEF BackLinked, Node
  <2>1. Node(OnList(b), b, i + 1) \in Nodes
    BY <1>1, ListFacts
  <2>2. CASE b = bus /\ i = 0
    <3>1. 0 + 1 = 1 /\ 0 \notin 1..Len(OnList(bus))
      OBVIOUS
    <3>2. Node(OnList(b), b, i + 1) = n /\ Node(OnList(b), b, i) = bus
      BY <2>2, <3>1 DEF Node
    <3> QED
      BY <1>4, <1>8, <2>1, <3>2
  <2>3. CASE ~(b = bus /\ i = 0)
    <3>1. Node(OnList(b), b, i + 1) # n
      <4>1. Len(OnList(bus)) \in Nat
        BY <1>1, ListFacts
      <4>2. 0 \in 0..Len(OnList(bus)) /\ 0 + 1 = 1
        BY <4>1
      <4>3. Node(OnList(b), b, i + 1) = Node(OnList(bus), bus, 0 + 1) => b = bus /\ i = 0
        BY <1>1, <4>2, NodesApartBack
      <4> QED
        BY <2>3, <4>2, <4>3
    <3>2. prev[Node(OnList(b), b, i + 1)] = Node(OnList(b), b, i)
      BY <1>1, <2>3 DEF BackLinked
    <3> QED
      BY <1>4, <1>8, <2>1, <3>1, <3>2
  <2> QED
    BY <2>2, <2>3
<1>10. SlotsAccounted'
  BY <1>1, <1>2, <1>5, <1>6 DEF SlotsAccounted, IsFree, Listed
<1>11. Owned'
  BY <1>1, <1>2, <1>5 DEF Owned
<1>12. Queued'
  BY <1>1, <1>2, <1>5 DEF Queued
<1>13. TypeOK'
  <2>1. prev' \in [Nodes -> Nodes \cup {NULL}]
    BY <1>1, <1>4, <1>8, ConstFacts
  <2> QED
    BY <1>1, <1>2, <2>1 DEF TypeOK
<1>14. Polling'
  BY <1>1, <1>2, <1>5, <1>6 DEF Polling, Removing, Finishing, Listed
<1>15. Booting'
  BY <1>1, <1>2, <1>5 DEF Booting
<1>16. DeviceFollows'
  <2> SUFFICES ASSUME NEW b \in Buses PROVE DeviceAt(b)'
    BY DEF DeviceFollows
  <2>1. CASE b = bus
    <3>1. Between(b) /\ Starting(b)' /\ DeviceAt(b)
      BY <1>2, <2>1 DEF IInv, DeviceFollows, Between, Starting
    <3> QED
      BY <1>2, <3>1 DEF DeviceAt, Quiet
  <2>2. CASE b # bus
    <3>1. (Between(b)' <=> Between(b)) /\ ~Starting(b)
      BY <1>2, <1>5, <2>2 DEF Between, Starting
    <3> QED
      BY <1>2, <1>5, <3>1, DeviceKept
  <2> QED
    BY <2>1, <2>2
<1>17. Verdicts'
  BY <1>1, <1>2, <1>5 DEF Verdicts, Removing
<1>18. Succeeded' /\ Erred'
  BY <1>2 DEF IInv, Succeeded, Erred
<1> QED
  BY <1>7, <1>9, <1>10, <1>11, <1>12, <1>13, <1>14, <1>15, <1>16, <1>17, <1>18 DEF IInv

\* What a push on the free array does.
LEMMA PushFacts ==
    ASSUME NEW f \in Seq(Slots), NEW x \in Slots
    PROVE  /\ <<x>> \o f \in Seq(Slots) /\ Len(<<x>> \o f) = Len(f) + 1 /\ Len(f) \in Nat
           /\ (<<x>> \o f)[1] = x
           /\ \A i \in 1..Len(f) : (<<x>> \o f)[i + 1] = f[i]
<1>1. <<x>> \in Seq(Slots) /\ Len(<<x>>) = 1 /\ <<x>>[1] = x
  OBVIOUS
<1>2. /\ <<x>> \o f \in Seq(Slots)
      /\ Len(<<x>> \o f) = Len(<<x>>) + Len(f)
      /\ \A i \in 1..Len(<<x>>) + Len(f) :
            (<<x>> \o f)[i] = IF i <= Len(<<x>>) THEN <<x>>[i] ELSE f[i - Len(<<x>>)]
  BY <1>1, ConcatProperties
<1>3. Len(f) \in Nat
  BY LenProperties
<1> DEFINE g == <<x>> \o f
<1>4. \A i \in 1..1 + Len(f) : g[i] = IF i <= 1 THEN <<x>>[i] ELSE f[i - 1]
  BY <1>1, <1>2
<1> HIDE DEF g
<1>5. g[1] = x
  BY <1>1, <1>3, <1>4
<1>6. ASSUME NEW i \in 1..Len(f) PROVE g[i + 1] = f[i]
  <2>1. i + 1 \in 1..1 + Len(f) /\ ~(i + 1 <= 1) /\ (i + 1) - 1 = i
    BY <1>3
  <2> QED
    BY <1>4, <2>1
<1> QED
  BY <1>1, <1>2, <1>3, <1>5, <1>6 DEF g

\* The object goes back to its cache.
LEMMA FreeStep ==
    ASSUME IInv, free_io_data
    PROVE  IInv'
<1>1. TypeOK /\ Linked /\ BackLinked /\ SlotsAccounted /\ Polling /\ Booting /\ Verdicts /\ Owned
      /\ Queued
  BY DEF IInv
<1>2. /\ kpc = "free" /\ kpc' = "start"
      /\ next' = [next EXCEPT ![dma_data] = NULL] /\ prev' = [prev EXCEPT ![dma_data] = NULL]
      /\ io' = [io EXCEPT ![dma_data] = NULL] /\ retry' = [retry EXCEPT ![dma_data] = 0]
      /\ freeSlots' = <<dma_data>> \o freeSlots /\ dma_data' = NULL /\ nextReg' = NULL
      /\ UNCHANGED <<pending, outcome, moved, failed, dev, errs, panic, raced, phase, bus, error, done>>
  BY DEF free_io_data, seen
<1>3. Taken /\ ~Taken'
  BY <1>2 DEF Taken
<1>4. dma_data \in Slots /\ \A b \in Buses : ~Listed(dma_data, b)
  BY <1>1, <1>3 DEF Polling
<1>5. /\ next \in [Nodes -> Nodes \cup {NULL}] /\ prev \in [Nodes -> Nodes \cup {NULL}]
      /\ freeSlots \in Seq(Slots) /\ io \in [Slots -> Reqs \cup {NULL}] /\ retry \in [Slots -> 0..1]
  BY <1>1 DEF TypeOK
<1>6. ASSUME NEW b \in Buses
      PROVE  \A i : Node(OnList(b), b, i) \in Nodes /\ Node(OnList(b), b, i) # dma_data
  BY <1>1, <1>4, ListFacts, ConstFacts DEF Node, Listed
<1>7. Linked' /\ \A b \in Buses : OnList(b)' = OnList(b)
  <2>1. next' \in Links
    BY <1>2, <1>5 DEF Links
  <2>2. \A b \in Buses : \A i \in 0..Len(OnList(b)) :
                next'[Node(OnList(b), b, i)] = next[Node(OnList(b), b, i)]
    BY <1>2, <1>5, <1>6
  <2> QED
    BY <1>1, <2>1, <2>2, KeepLists
<1>8. \A b \in Buses : \A i \in 1..Len(OnList(b)) :
         /\ OnList(b)[i] \in Slots /\ OnList(b)[i] # dma_data
         /\ io'[OnList(b)[i]] = io[OnList(b)[i]] /\ retry'[OnList(b)[i]] = retry[OnList(b)[i]]
  <2>1. \A b \in Buses : \A i \in 1..Len(OnList(b)) : OnList(b)[i] \in Slots /\ OnList(b)[i] # dma_data
    BY <1>1, <1>4, ListFacts DEF Listed
  <2> QED
    BY <1>2, <1>5, <2>1
<1>9. BackLinked'
  <2> SUFFICES ASSUME NEW b \in Buses, NEW i \in 0..Len(OnList(b))
               PROVE  prev'[Node(OnList(b), b, i + 1)] = Node(OnList(b), b, i)
    BY <1>2, <1>7 DEF BackLinked, Node
  <2>1. prev[Node(OnList(b), b, i + 1)] = Node(OnList(b), b, i)
    BY <1>1, <1>2 DEF BackLinked
  <2> QED
    BY <1>2, <1>5, <1>6, <2>1
<1>10. /\ freeSlots' \in Seq(Slots) /\ Len(freeSlots') = Len(freeSlots) + 1 /\ Len(freeSlots) \in Nat
       /\ freeSlots'[1] = dma_data
       /\ \A i \in 1..Len(freeSlots) : freeSlots'[i + 1] = freeSlots[i]
  BY <1>2, <1>4, <1>5, PushFacts
<1>11. ASSUME NEW i \in 1..Len(freeSlots'), i # 1
       PROVE  i - 1 \in 1..Len(freeSlots) /\ freeSlots'[i] = freeSlots[i - 1]
  <2>1. i - 1 \in 1..Len(freeSlots) /\ (i - 1) + 1 = i
    BY <1>10, <1>11
  <2> QED
    BY <1>10, <2>1
<1>12. SlotsAccounted'
  <2>0. ~IsFree(dma_data)
    BY <1>1, <1>3, <1>4 DEF SlotsAccounted
  <2>1. \A x : IsFree(x)' <=> IsFree(x) \/ x = dma_data
    <3>1. ASSUME NEW x, IsFree(x)' PROVE IsFree(x) \/ x = dma_data
      BY <1>10, <1>11, <3>1 DEF IsFree
    <3>2. ASSUME NEW x, IsFree(x) PROVE IsFree(x)'
      <4>1. PICK i \in 1..Len(freeSlots) : freeSlots[i] = x
        BY <3>2 DEF IsFree
      <4>2. i + 1 \in 1..Len(freeSlots') /\ freeSlots'[i + 1] = x
        BY <1>10, <4>1
      <4> QED
        BY <4>2 DEF IsFree
    <3>3. 1 \in 1..Len(freeSlots') /\ freeSlots'[1] = dma_data
      BY <1>10
    <3> QED
      BY <3>1, <3>2, <3>3 DEF IsFree
  <2>2. \A x : \A b \in Buses : Listed(x, b)' <=> Listed(x, b)
    BY <1>7 DEF Listed
  <2>3. ASSUME NEW i \in 1..Len(freeSlots'), NEW j \in 1..Len(freeSlots'), freeSlots'[i] = freeSlots'[j]
        PROVE  i = j
    <3>1. \A k \in 1..Len(freeSlots) : freeSlots[k] # dma_data
      BY <2>0 DEF IsFree
    <3>2. \A k, l \in 1..Len(freeSlots) : freeSlots[k] = freeSlots[l] => k = l
      BY <1>1 DEF SlotsAccounted
    <3>3. CASE i = 1 \/ j = 1
      BY <1>10, <1>11, <2>3, <3>1, <3>3
    <3>4. CASE i # 1 /\ j # 1
      <4>1. i - 1 = j - 1
        BY <1>11, <2>3, <3>2, <3>4
      <4> QED
        BY <4>1
    <3> QED
      BY <3>3, <3>4
  <2> QED
    BY <1>1, <1>3, <1>4, <2>1, <2>2, <2>3 DEF SlotsAccounted
<1>13. Owned'
  BY <1>1, <1>2, <1>7, <1>8 DEF Owned
<1>14. Queued'
  <2>1. \A r \in pending : BusOf(r) \in Buses
    BY <1>1, ConstFacts DEF TypeOK
  <2> QED
    BY <1>1, <1>2, <1>7, <1>8, <2>1 DEF Queued
<1>15. TypeOK'
  <2>1. next' \in [Nodes -> Nodes \cup {NULL}] /\ prev' \in [Nodes -> Nodes \cup {NULL}]
    BY <1>2, <1>5
  <2>2. io' \in [Slots -> Reqs \cup {NULL}]
    BY <1>2, <1>5
  <2>3. retry' \in [Slots -> 0..1]
    <3>1. retry \in [Slots -> 0..1] /\ retry' = [retry EXCEPT ![dma_data] = 0]
      BY <1>2, <1>5
    <3>2. retry' = [y \in Slots |-> IF y = dma_data THEN 0 ELSE retry[y]]
      BY <3>1
    <3>3. \A y \in Slots : retry'[y] \in 0..1
      BY <3>1, <3>2
    <3> QED
      BY <3>2, <3>3
  <2> QED
    BY <1>1, <1>2, <1>10, <2>1, <2>2, <2>3 DEF TypeOK
<1>16. Polling'
  BY <1>1, <1>2, <1>3 DEF Polling, Removing, Finishing
<1>17. Booting'
  BY <1>1, <1>2, <1>7 DEF Booting
<1>18. DeviceFollows'
  <2> SUFFICES ASSUME NEW b \in Buses PROVE DeviceAt(b)'
    BY DEF DeviceFollows
  <2>1. (Between(b)' <=> Between(b)) /\ (Starting(b) => Starting(b)' \/ Between(b))
    BY <1>2, <1>7 DEF Between, Starting
  <2>2. DeviceAt(b)
    BY DEF IInv, DeviceFollows
  <2>3. CASE Between(b)
    BY <1>2, <2>1, <2>2, <2>3 DEF DeviceAt, Quiet, WorksOnFirst, Starting
  <2>4. CASE ~Between(b)
    <3>1. 1 \in 1..Len(OnList(b))
      BY <1>1, <2>4, ListFacts DEF Between, Starting
    <3>2. /\ io'[OnList(b)[1]] = io[OnList(b)[1]] /\ retry'[OnList(b)[1]] = retry[OnList(b)[1]]
          /\ OnList(b)' = OnList(b)
      BY <1>7, <1>8, <3>1
    <3> QED
      BY <1>2, <2>1, <2>2, <2>4, <3>2 DEF DeviceAt, Quiet, WorksOnFirst, Starting
  <2> QED
    BY <2>3, <2>4
<1>19. Verdicts'
  BY <1>1, <1>2, <1>7, <1>8 DEF Verdicts, Removing
<1>20. Succeeded' /\ Erred'
  BY <1>2 DEF IInv, Succeeded, Erred
<1> QED
  BY <1>7, <1>9, <1>12, <1>13, <1>14, <1>15, <1>16, <1>17, <1>18, <1>19, <1>20 DEF IInv

\* Nothing the invariant speaks of changes.
LEMMA SameStep ==
    ASSUME IInv, panic' \in BOOLEAN, raced' \in BOOLEAN,
           UNCHANGED <<next, prev, freeSlots, io, retry, phase, kpc, bus, dma_data, nextReg, error, done, pending, outcome, moved, failed, dev, errs>>
    PROVE  IInv'
<1>1. /\ \A b \in Buses : OnList(b)' = OnList(b)
      /\ Linked' /\ BackLinked' /\ SlotsAccounted' /\ Owned' /\ Queued'
  BY Frame
<1>2. TypeOK'
  BY DEF IInv, TypeOK
<1>3. Polling'
  <2>1. bus \in Buses /\ \A b : OnList(b)' = OnList(b)
    BY DEF IInv, TypeOK, OnList
  <2> QED
    BY <2>1 DEF IInv, Polling, Removing, Taken, Finishing, Listed, Node
<1>4. DeviceFollows'
  <2>1. \A b \in Buses : (Between(b)' <=> Between(b)) /\ (Starting(b) => Starting(b)')
    BY <1>1 DEF Between, Starting
  <2> QED
    BY <1>1, <2>1, DeviceKept DEF DeviceFollows
<1>5. Verdicts'
  BY <1>1 DEF IInv, Verdicts, Removing
<1>6. Booting'
  BY <1>1 DEF IInv, Booting
<1>7. Succeeded' /\ Erred'
  BY DEF IInv, Succeeded, Erred
<1> QED
  BY <1>1, <1>2, <1>3, <1>4, <1>5, <1>6, <1>7 DEF IInv

-----------------------------------------------------------------------------
(* Putting an object at the end of a list.                                 *)

\* slab_alloc has an object: every other one is for a different request.
LEMMA ObjectLeft ==
    ASSUME IInv
    PROVE  freeSlots # <<>>
<1> SUFFICES ASSUME freeSlots = <<>> PROVE FALSE
  OBVIOUS
<1>1. Linked /\ Owned /\ SlotsAccounted /\ pending \subseteq Reqs
  BY DEF IInv, TypeOK
<1> DEFINE Gone(x) == Taken /\ x = dma_data
           for(x) == IF Gone(x) THEN done ELSE io[x]
           f == [x \in Slots |-> for(x)]
<1>2. ASSUME NEW x \in Slots, ~Gone(x) PROVE \E b \in Buses : Listed(x, b)
  <2>1. ~IsFree(x)
    BY DEF IsFree
  <2> QED
    BY <1>1, <1>2, <2>1 DEF SlotsAccounted
<1>g. Taken => done \in Reqs
  BY <1>1 DEF IInv, Polling, Taken, Finishing
<1> HIDE DEF Gone
<1>3. \A x \in Slots : for(x) \in Reqs
  <2>1. \A x \in Slots : Gone(x) => done \in Reqs
    BY <1>g DEF Gone
  <2>2. \A x \in Slots : ~Gone(x) => io[x] \in Reqs
    BY <1>1, <1>2 DEF Owned, Listed
  <2> QED
    BY <2>1, <2>2
<1>n. \A x \in Slots : ~Gone(x) => io[x] # done
  BY <1>1, <1>2 DEF Owned, Listed
<1>4. ASSUME NEW x \in Slots, NEW y \in Slots, for(x) = for(y) PROVE x = y
  <2>g. CASE Gone(x) \/ Gone(y)
    <3>1. Gone(x) /\ Gone(y)
      BY <1>4, <1>n, <2>g
    <3> QED
      BY <3>1 DEF Gone
  <2>n. CASE ~Gone(x) /\ ~Gone(y)
    <3>0. io[x] = io[y]
      BY <1>4, <2>n
    <3>1. PICK b \in Buses : \E i \in 1..Len(OnList(b)) : OnList(b)[i] = x
      BY <1>2, <2>n DEF Listed
    <3>2. PICK i \in 1..Len(OnList(b)) : OnList(b)[i] = x
      BY <3>1
    <3>3. PICK c \in Buses : \E j \in 1..Len(OnList(c)) : OnList(c)[j] = y
      BY <1>2, <2>n DEF Listed
    <3>4. PICK j \in 1..Len(OnList(c)) : OnList(c)[j] = y
      BY <3>3
    <3>5. b = c
      BY <1>1, <3>0, <3>2, <3>4 DEF Owned
    <3>6. i = j
      BY <1>1, <3>0, <3>2, <3>4, <3>5 DEF Owned
    <3> QED
      BY <3>2, <3>4, <3>5, <3>6
  <2> QED
    BY <2>g, <2>n
<1>5. f \in Injection(Slots, Reqs)
  <2> HIDE DEF for
  <2>1. f \in [Slots -> Reqs]
    BY <1>3
  <2>2. \A x, y \in Slots : f[x] = f[y] => x = y
    BY <1>4
  <2> HIDE DEF f
  <2> QED
    BY <2>1, <2>2, Fun_IsInj
<1>6. IsFiniteSet(Slots) /\ Cardinality(Slots) = SlotCount
  <2>1. BusCount \in Int /\ BusCount + SlotCount - 1 \in Int /\ SlotCount \in Nat
    BY BusAssumption, SlotsAssumption
  <2>2. /\ IsFiniteSet(BusCount..BusCount + SlotCount - 1)
        /\ Cardinality(BusCount..BusCount + SlotCount - 1) =
              IF BusCount > BusCount + SlotCount - 1 THEN 0
              ELSE (BusCount + SlotCount - 1) - BusCount + 1
    BY <2>1, FS_Interval
  <2> QED
    BY <2>1, <2>2, BusAssumption DEF Slots
<1>7. IsFiniteSet(Reqs) /\ Cardinality(Reqs) = Len(Io) /\ Len(Io) \in Nat
  <2>1. Reqs = 1..Len(Io) /\ Len(Io) \in Nat
    BY ConstFacts
  <2>2. IsFiniteSet(1..Len(Io)) /\ Cardinality(1..Len(Io)) = IF 1 > Len(Io) THEN 0 ELSE Len(Io) - 1 + 1
    BY <2>1, FS_Interval
  <2> QED
    BY <2>1, <2>2
<1>8. Cardinality(Slots) <= Cardinality(Reqs)
  BY <1>5, <1>6, <1>7, FS_Injection
<1> QED
  BY <1>6, <1>7, <1>8, SlotsAssumption

\* The ring with an object more.
LEMMA NodeAppend ==
    ASSUME NEW s \in Seq(Slots), NEW x \in Slots, NEW b \in Buses
    PROVE  /\ Append(s, x) \in Seq(Slots) /\ Len(s) \in Nat /\ Len(Append(s, x)) = Len(s) + 1
           /\ \A i \in 1..Len(s) : Append(s, x)[i] = s[i]
           /\ Append(s, x)[Len(s) + 1] = x
           /\ \A i \in 0..Len(s) : Node(Append(s, x), b, i) = Node(s, b, i)
           /\ Node(Append(s, x), b, Len(s) + 1) = x
           /\ Node(Append(s, x), b, (Len(s) + 1) + 1) = b
<1> DEFINE t == Append(s, x)
<1>1. /\ t \in Seq(Slots) /\ Len(t) = Len(s) + 1
      /\ \A i \in 1..Len(s) : t[i] = s[i]
      /\ t[Len(s) + 1] = x
  BY AppendProperties
<1>2. Len(s) \in Nat
  BY LenProperties
<1> HIDE DEF t
<1>3. ASSUME NEW i \in 0..Len(s) PROVE Node(t, b, i) = Node(s, b, i)
  <2>1. CASE i = 0
    BY <2>1 DEF Node
  <2>2. CASE i # 0
    <3>1. i \in 1..Len(s) /\ i \in 1..Len(t)
      BY <1>1, <1>2, <2>2
    <3> QED
      BY <1>1, <3>1 DEF Node
  <2> QED
    BY <2>1, <2>2
<1>4. Len(s) + 1 \in 1..Len(t) /\ (Len(s) + 1) + 1 \notin 1..Len(t)
  BY <1>1, <1>2
<1>5. Node(t, b, Len(s) + 1) = x /\ Node(t, b, (Len(s) + 1) + 1) = b
  BY <1>1, <1>4 DEF Node
<1> QED
  BY <1>1, <1>2, <1>3, <1>5 DEF t

\* The last object of bus b is not the one complete_io_operation is removing.
Safe(b) == ~(b = bus /\ kpc \in {"unlink1", "unlink2"} /\ prev[bus] = dma_data)

\* The object dma_io_sectors takes, and the end of the list it goes to.
LEMMA EnqueueFacts ==
    ASSUME IInv, NEW b \in Buses, Safe(b)
    PROVE  /\ Head(freeSlots) \in Slots /\ IsFree(Head(freeSlots))
           /\ Tail(freeSlots) \in Seq(Slots) /\ Len(freeSlots) \in Nat
           /\ Len(Tail(freeSlots)) = Len(freeSlots) - 1 /\ Len(freeSlots) > 0
           /\ freeSlots[1] = Head(freeSlots)
           /\ \A i \in 1..Len(freeSlots) - 1 : Tail(freeSlots)[i] = freeSlots[i + 1]
           /\ \A c \in Buses : ~Listed(Head(freeSlots), c)
           /\ \A c \in Buses : \A i : Node(OnList(c), c, i) # Head(freeSlots)
           /\ ~(Taken /\ dma_data = Head(freeSlots))
           /\ prev[b] = Node(OnList(b), b, Len(OnList(b)))
           /\ b = bus /\ kpc = "unlink2" => Len(OnList(b)) # 0
           /\ b = bus /\ kpc = "unlink1" => Len(OnList(b)) # 1
<1>1. Linked /\ BackLinked /\ SlotsAccounted /\ Polling /\ freeSlots \in Seq(Slots)
  BY DEF IInv, TypeOK
<1>2. freeSlots # <<>>
  BY ObjectLeft
<1>3. /\ Tail(freeSlots) \in Seq(Slots) /\ Len(freeSlots) \in Nat
      /\ Len(Tail(freeSlots)) = Len(freeSlots) - 1 /\ Len(freeSlots) > 0
      /\ \A i \in 1..Len(freeSlots) - 1 : Tail(freeSlots)[i] = freeSlots[i + 1]
  BY <1>1, <1>2, NodeTail
<1>4. 1 \in 1..Len(freeSlots) /\ freeSlots[1] = Head(freeSlots)
  BY <1>1, <1>3
<1>5. Head(freeSlots) \in Slots /\ IsFree(Head(freeSlots))
  BY <1>1, <1>4, ElementOfSeq DEF IsFree
<1>6. /\ \A c \in Buses : ~Listed(Head(freeSlots), c)
      /\ ~(Taken /\ dma_data = Head(freeSlots))
  BY <1>1, <1>5 DEF SlotsAccounted
<1>7. \A c \in Buses : \A i : Node(OnList(c), c, i) # Head(freeSlots)
  BY <1>5, <1>6, ConstFacts DEF Node, Listed
<1>8. /\ prev[b] = Node(OnList(b), b, Len(OnList(b)))
      /\ b = bus /\ kpc = "unlink2" => Len(OnList(b)) # 0
      /\ b = bus /\ kpc = "unlink1" => Len(OnList(b)) # 1
  <2> DEFINE n == Len(OnList(b))
  <2>1. n \in Nat
    BY <1>1, ListFacts
  <2>2. n + 1 \notin 1..n
    BY <2>1
  <2>3. Node(OnList(b), b, n + 1) = b
    BY <2>2 DEF Node
  <2>4. n \in 0..n
    BY <2>1
  <2>5. prev[b] = IF n = 0 /\ b = bus /\ kpc = "unlink2" THEN dma_data
                  ELSE Node(OnList(b), b, n)
    BY <1>1, <2>3, <2>4 DEF BackLinked
  <2>6. b = bus /\ kpc = "unlink2" => n # 0
    BY <2>5 DEF Safe
  <2>7. b = bus /\ kpc = "unlink1" => n # 1
    <3> SUFFICES ASSUME b = bus, kpc = "unlink1", n = 1 PROVE FALSE
      OBVIOUS
    <3>1. dma_data = OnList(b)[1]
      BY <1>1 DEF Polling, Removing
    <3>2. Node(OnList(b), b, 1) = OnList(b)[1]
      BY DEF Node
    <3> QED
      BY <2>5, <3>1, <3>2 DEF Safe
  <2> QED
    BY <2>5, <2>6, <2>7
<1> QED
  BY <1>3, <1>4, <1>5, <1>6, <1>7, <1>8

\* The stores of dma_io_sectors make the object the last of its list.
LEMMA EnqueueLists ==
    ASSUME IInv, NEW r \in Reqs, Safe(BusOf(r)), dma_io_sectors(r)
    PROVE  /\ Linked'
           /\ OnList(BusOf(r))' = Append(OnList(BusOf(r)), Head(freeSlots))
           /\ \A b \in Buses : b # BusOf(r) => OnList(b)' = OnList(b)
           /\ LET b == BusOf(r)
                  x == Head(freeSlots)
                  s == OnList(b)
              IN /\ Len(OnList(b)') = Len(s) + 1
                 /\ \A i \in 1..Len(s) : OnList(b)'[i] = s[i]
                 /\ OnList(b)'[Len(s) + 1] = x
                 /\ \A i \in 0..Len(s) : Node(OnList(b)', b, i) = Node(s, b, i)
                 /\ Node(OnList(b)', b, Len(s) + 1) = x
                 /\ Node(OnList(b)', b, (Len(s) + 1) + 1) = b
<1> DEFINE c == BusOf(r)
           x == Head(freeSlots)
           s == OnList(c)
           t == Append(s, x)
<1>1. c \in Buses
  BY ConstFacts
<1>2. next' = [next EXCEPT ![x] = c, ![prev[c]] = x]
  BY DEF dma_io_sectors
<1>3. next \in Links /\ Linked /\ Owned
  BY DEF IInv, TypeOK, Links
<1>4. /\ x \in Slots
      /\ \A b \in Buses : \A i : Node(OnList(b), b, i) # x
      /\ prev[c] = Node(s, c, Len(s))
  BY <1>1, EnqueueFacts
<1>5. s \in Seq(Slots) /\ Len(s) \in Nat /\ \A i \in 1..Len(s) : s[i] \in Slots
  BY <1>1, <1>3, ListFacts
<1>6. /\ t \in Seq(Slots) /\ Len(t) = Len(s) + 1
      /\ \A i \in 1..Len(s) : t[i] = s[i]
      /\ t[Len(s) + 1] = x
      /\ \A i \in 0..Len(s) : Node(t, c, i) = Node(s, c, i)
      /\ Node(t, c, Len(s) + 1) = x
      /\ Node(t, c, (Len(s) + 1) + 1) = c
  <2>1. s \in Seq(Slots) /\ x \in Slots /\ c \in Buses
    BY <1>1, <1>4, <1>5
  <2> HIDE DEF c, x, s
  <2> QED
    BY <2>1, NodeAppend
<1>7. c \in Nodes /\ x \in Nodes /\ prev[c] \in Nodes /\ prev[c] # x
  BY <1>1, <1>3, <1>4, ListFacts, ConstFacts
<1>8. /\ next' \in Links /\ next'[x] = c /\ next'[prev[c]] = x
      /\ \A y \in Nodes : y # x /\ y # prev[c] => next'[y] = next[y]
  <2> HIDE DEF c, x, s, t
  <2> QED
    BY <1>2, <1>3, <1>7 DEF Links
<1>9. \A i, j \in 1..Len(s) : s[i] = s[j] => i = j
  BY <1>1, <1>3 DEF Linked, IsChain
<1>10. \A i \in 0..Len(s) : next[Node(s, c, i)] = Node(s, c, i + 1)
  BY <1>1, <1>3 DEF Linked, IsChain
<1>11. \A i \in 1..Len(s) : s[i] # x
  <2>1. \A i \in 1..Len(s) : Node(s, c, i) = s[i]
    BY DEF Node
  <2> QED
    BY <1>1, <1>4, <2>1
<1>12. ASSUME NEW b \in Buses, NEW i \in 0..Len(OnList(b)), ~(b = c /\ i = Len(s))
       PROVE  next'[Node(OnList(b), b, i)] = next[Node(OnList(b), b, i)]
  <2>1. Node(OnList(b), b, i) \in Nodes /\ Node(OnList(b), b, i) # x
    BY <1>3, <1>4, ListFacts
  <2>2. Node(OnList(b), b, i) # prev[c]
    <3>1. Len(s) \in 0..Len(s)
      BY <1>5
    <3>2. Node(OnList(b), b, i) = Node(OnList(c), c, Len(s)) => b = c /\ i = Len(s)
      BY <1>1, <1>3, <3>1, NodesApart
    <3> QED
      BY <1>4, <1>12, <3>2
  <2> QED
    BY <1>8, <2>1, <2>2
<1>13. IsChain(next', t, c)
  <2>1. \A i \in 0..Len(s) : i # Len(s) => next'[Node(s, c, i)] = next[Node(s, c, i)]
    BY <1>1, <1>12
  <2> HIDE DEF c, x, s, t
  <2>2. \A i, j \in 1..Len(t) : t[i] = t[j] => i = j
    <3> SUFFICES ASSUME NEW i \in 1..Len(t), NEW j \in 1..Len(t), t[i] = t[j] PROVE i = j
      OBVIOUS
    <3>1. (i \in 1..Len(s) \/ i = Len(s) + 1) /\ (j \in 1..Len(s) \/ j = Len(s) + 1)
      BY <1>5, <1>6
    <3> QED
      BY <1>6, <1>9, <1>11, <3>1
  <2>3. ASSUME NEW i \in 0..Len(t) PROVE next'[Node(t, c, i)] = Node(t, c, i + 1)
    <3>1. CASE i = Len(s) + 1
      BY <1>6, <1>8, <3>1
    <3>2. CASE i = Len(s)
      <4>1. i \in 0..Len(s)
        BY <1>5, <3>2
      <4>2. Node(t, c, i) = prev[c]
        BY <1>4, <1>6, <3>2, <4>1
      <4> QED
        BY <1>6, <1>8, <3>2, <4>2
    <3>3. CASE i # Len(s) + 1 /\ i # Len(s)
      <4>1. i \in 0..Len(s) /\ i + 1 \in 0..Len(s)
        BY <1>5, <1>6, <3>3
      <4>2. Node(t, c, i) = Node(s, c, i) /\ Node(t, c, i + 1) = Node(s, c, i + 1)
        BY <1>6, <4>1
      <4> QED
        BY <1>10, <2>1, <3>3, <4>1, <4>2
    <3> QED
      BY <3>1, <3>2, <3>3
  <2> QED
    BY <1>6, <2>2, <2>3 DEF IsChain
<1>14. ListFrom(next', c) = t
  BY <1>1, <1>8, <1>13, ChainIsList
<1>15. ASSUME NEW b \in Buses, b # c
       PROVE  IsChain(next', OnList(b), b) /\ ListFrom(next', b) = OnList(b)
  <2>1. \A i \in 0..Len(OnList(b)) : next'[Node(OnList(b), b, i)] = next[Node(OnList(b), b, i)]
    BY <1>12, <1>15
  <2>2. IsChain(next', OnList(b), b)
    BY <1>3, <2>1 DEF Linked, IsChain
  <2> QED
    BY <1>8, <2>2, ChainIsList
<1>16. OnList(c)' = t /\ \A b \in Buses : b # c => OnList(b)' = OnList(b)
  BY <1>14, <1>15 DEF OnList
<1>17. Linked'
  <2>1. ASSUME NEW b \in Buses PROVE IsChain(next', ListFrom(next', b), b)
    BY <1>13, <1>14, <1>15
  <2> QED
    BY <2>1 DEF Linked, OnList, IsChain, Node
<1>18. /\ Len(OnList(c)') = Len(s) + 1
       /\ \A i \in 1..Len(s) : OnList(c)'[i] = s[i]
       /\ OnList(c)'[Len(s) + 1] = x
       /\ \A i \in 0..Len(s) : Node(OnList(c)', c, i) = Node(s, c, i)
       /\ Node(OnList(c)', c, Len(s) + 1) = x
       /\ Node(OnList(c)', c, (Len(s) + 1) + 1) = c
  <2> HIDE DEF t
  <2> QED
    BY <1>6, <1>16
<1> QED
  BY <1>16, <1>17, <1>18

\* A request is submitted, at boot or by a system call, or check_drive panics.
LEMMA EnqueueStep ==
    ASSUME IInv, NEW r \in Reqs, Safe(BusOf(r)), ide_dma_sectors(r),
           UNCHANGED <<phase, dma_data, nextReg, error, done>>, raced' \in BOOLEAN,
           IF phase = "run" THEN UNCHANGED <<kpc, bus>>
           ELSE kpc = "idle" /\ kpc' = "wait" /\ bus' = BusOf(r)
    PROVE  IInv'
<1> DEFINE c == BusOf(r)
           x == Head(freeSlots)
<1>1. TypeOK /\ Linked /\ BackLinked /\ SlotsAccounted /\ Polling /\ Booting /\ Verdicts /\ Owned
      /\ Queued /\ DeviceFollows
  BY DEF IInv
<1>2. c \in Buses /\ r # NULL
  BY ConstFacts
<1>3. /\ bus' \in Buses /\ phase \in {"boot", "run"} /\ bus \in Buses
      /\ (kpc' = kpc /\ bus' = bus) \/ (kpc = "idle" /\ kpc' = "wait")
      /\ done' = done /\ dma_data' = dma_data /\ kpc' \in {kpc, "wait"}
      /\ phase = "run" => kpc' = kpc /\ bus' = bus
  BY <1>1, <1>2 DEF TypeOK
<1>4. /\ Taken' <=> Taken
      /\ Removing' <=> Removing
      /\ r \notin pending => r # done
  BY <1>1, <1>2, <1>3 DEF Taken, Removing, Polling
<1>5. CASE ~check_drive(r)
  <2>1. /\ UNCHANGED <<next, prev, freeSlots, io, retry, pending, outcome, moved, failed, dev, errs>>
        /\ panic' = TRUE
    BY <1>5 DEF ide_dma_sectors, list, seen
  <2>2. CASE phase = "run"
    <3>1. kpc' = kpc /\ bus' = bus
      BY <2>2
    <3> QED
      BY <2>1, <3>1, SameStep
  <2>3. CASE phase # "run"
    <3>1. kpc = "idle" /\ kpc' = "wait"
      BY <2>3
    <3>2. \A b : OnList(b)' = OnList(b)
      BY <2>1 DEF OnList
    <3>3. TypeOK'
      BY <1>1, <1>3, <2>1, <3>1 DEF TypeOK
    <3>4. Booting'
      BY <1>1, <1>3, <3>1, <3>2 DEF Booting
    <3>5. Polling'
      BY <1>1, <1>3, <2>1, <3>1 DEF Polling, Removing, Taken, Finishing
    <3> QED
      BY <2>1, <3>1, <3>3, <3>4, <3>5, LookStep DEF Looking, list, seen
  <2> QED
    BY <2>2, <2>3
<1>6. CASE check_drive(r)
  <2>1. /\ dma_io_sectors(r) /\ r \notin pending /\ pending' = pending \cup {r}
        /\ outcome' = [outcome EXCEPT ![r] = "none"] /\ moved' = [moved EXCEPT ![r] = FALSE]
        /\ failed' = [failed EXCEPT ![r] = 0] /\ UNCHANGED <<panic, errs>>
    BY <1>6 DEF ide_dma_sectors
  <2>2. /\ freeSlots' = Tail(freeSlots) /\ io' = [io EXCEPT ![x] = r]
        /\ retry' = [retry EXCEPT ![x] = 0]
        /\ next' = [next EXCEPT ![x] = c, ![prev[c]] = x]
        /\ prev' = [prev EXCEPT ![x] = prev[c], ![c] = x]
        /\ IF Empty(c) THEN start_io_operation(c, r) ELSE UNCHANGED dev
    BY <2>1 DEF dma_io_sectors
  <2>3. /\ x \in Slots /\ IsFree(x)
        /\ Tail(freeSlots) \in Seq(Slots) /\ Len(freeSlots) \in Nat
        /\ Len(Tail(freeSlots)) = Len(freeSlots) - 1 /\ Len(freeSlots) > 0
        /\ freeSlots[1] = x
        /\ \A i \in 1..Len(freeSlots) - 1 : Tail(freeSlots)[i] = freeSlots[i + 1]
        /\ \A b \in Buses : ~Listed(x, b)
        /\ \A b \in Buses : \A i : Node(OnList(b), b, i) # x
        /\ ~(Taken /\ dma_data = x)
        /\ prev[c] = Node(OnList(c), c, Len(OnList(c)))
        /\ c = bus /\ kpc = "unlink2" => Len(OnList(c)) # 0
        /\ c = bus /\ kpc = "unlink1" => Len(OnList(c)) # 1
    BY <1>2, EnqueueFacts
  <2>4. /\ Linked' /\ OnList(c)' = Append(OnList(c), x)
        /\ \A b \in Buses : b # c => OnList(b)' = OnList(b)
    BY <2>1, EnqueueLists
  <2>5. \A b \in Buses : OnList(b) \in Seq(Slots) /\ Len(OnList(b)) \in Nat
                         /\ \A i \in 1..Len(OnList(b)) : OnList(b)[i] \in Slots
    BY <1>1, ListFacts
  <2>6. LET s == OnList(c) IN
        /\ Len(OnList(c)') = Len(s) + 1
        /\ \A i \in 1..Len(s) : OnList(c)'[i] = s[i]
        /\ OnList(c)'[Len(s) + 1] = x
        /\ \A i \in 0..Len(s) : Node(OnList(c)', c, i) = Node(s, c, i)
        /\ Node(OnList(c)', c, Len(s) + 1) = x
        /\ Node(OnList(c)', c, (Len(s) + 1) + 1) = c
    BY <2>1, EnqueueLists
  <2> DEFINE n == Len(OnList(c))
  <2>7. ASSUME NEW b \in Buses, NEW i \in 1..Len(OnList(b)')
        PROVE  \/ b = c /\ i = n + 1 /\ OnList(b)'[i] = x
               \/ i \in 1..Len(OnList(b)) /\ OnList(b)'[i] = OnList(b)[i]
    <3>1. CASE b # c
      BY <2>4, <3>1
    <3>2. CASE b = c
      <4>1. i \in 1..n + 1 /\ n \in Nat
        BY <1>2, <2>5, <2>6, <3>2
      <4>2. CASE i = n + 1
        BY <2>6, <3>2, <4>2
      <4>3. CASE i # n + 1
        <5>1. i \in 1..n
          BY <4>1, <4>3
        <5> QED
          BY <2>6, <3>2, <5>1
      <4> QED
        BY <4>2, <4>3
    <3> QED
      BY <3>1, <3>2
  <2>8. ASSUME NEW b \in Buses, NEW i \in 1..Len(OnList(b))
        PROVE  /\ i \in 1..Len(OnList(b)') /\ OnList(b)'[i] = OnList(b)[i]
               /\ OnList(b)[i] # x /\ io'[OnList(b)[i]] = io[OnList(b)[i]]
               /\ retry'[OnList(b)[i]] = retry[OnList(b)[i]]
               /\ io[OnList(b)[i]] \in Reqs /\ io[OnList(b)[i]] \in pending /\ io[OnList(b)[i]] # r
               /\ BusOf(io[OnList(b)[i]]) = b
    <3>1. i \in 1..Len(OnList(b)') /\ OnList(b)'[i] = OnList(b)[i]
      <4>1. CASE b # c
        BY <2>4, <4>1
      <4>2. CASE b = c
        <5>1. i \in 1..n /\ n \in Nat
          BY <2>5, <4>2
        <5>2. i \in 1..n + 1
          BY <5>1
        <5> QED
          BY <2>6, <4>2, <5>1, <5>2
      <4> QED
        BY <4>1, <4>2
    <3>2. OnList(b)[i] # x
      BY <2>3 DEF Listed
    <3>3. OnList(b)[i] \in Slots
      BY <2>5
    <3>4. io'[OnList(b)[i]] = io[OnList(b)[i]] /\ retry'[OnList(b)[i]] = retry[OnList(b)[i]]
      BY <1>1, <2>2, <3>2, <3>3 DEF TypeOK
    <3>5. io[OnList(b)[i]] \in pending /\ BusOf(io[OnList(b)[i]]) = b
      BY <1>1 DEF Owned
    <3> QED
      BY <1>1, <2>1, <3>1, <3>2, <3>4, <3>5 DEF TypeOK
  <2>9. io'[x] = r /\ retry'[x] = 0
    BY <1>1, <2>2, <2>3 DEF TypeOK
  <2>10. n \in Nat /\ n + 1 \in 1..Len(OnList(c)') /\ OnList(c)'[n + 1] = x
    BY <1>2, <2>5, <2>6
  <2>11. /\ \A y \in Reqs : y # r => moved'[y] = moved[y] /\ failed'[y] = failed[y]
                                     /\ outcome'[y] = outcome[y]
         /\ outcome'[r] = "none" /\ failed'[r] = 0
         /\ moved' \in [Reqs -> BOOLEAN] /\ failed' \in [Reqs -> 0..MaxErrors]
         /\ outcome' \in [Reqs -> {"none", "ok", "error"}]
    <3>1. /\ moved \in [Reqs -> BOOLEAN] /\ failed \in [Reqs -> 0..MaxErrors]
          /\ outcome \in [Reqs -> {"none", "ok", "error"}] /\ 0 \in 0..MaxErrors
      BY <1>1, ErrorsAssumption DEF TypeOK
    <3>2. failed' \in [Reqs -> 0..MaxErrors] /\ failed'[r] = 0
      BY <2>1, <3>1
    <3>3. moved' \in [Reqs -> BOOLEAN]
      BY <2>1, <3>1
    <3>4. outcome' \in [Reqs -> {"none", "ok", "error"}] /\ outcome'[r] = "none"
      BY <2>1, <3>1
    <3>5. \A y \in Reqs : y # r => moved'[y] = moved[y] /\ failed'[y] = failed[y]
                                     /\ outcome'[y] = outcome[y]
      BY <2>1, <3>1
    <3> QED
      BY <3>2, <3>3, <3>4, <3>5
  <2>12. /\ dev \in [Buses -> [cmd : Reqs \cup {NULL}, active : BOOLEAN, err : BOOLEAN]]
         /\ Empty(c) <=> n = 0
    BY <1>1, <1>2, HeadMeans DEF TypeOK
  <2>13. /\ dev' \in [Buses -> [cmd : Reqs \cup {NULL}, active : BOOLEAN, err : BOOLEAN]]
         /\ \A b \in Buses : b # c => dev'[b] = dev[b]
         /\ n # 0 => dev' = dev
         /\ n = 0 => dev'[c].cmd = r /\ dev'[c].active /\ dev'[c].err = dev[c].err
    BY <1>2, <2>2, <2>12, ZenonT(30) DEF start_io_operation
  <2>14. BackLinked'
    <3> DEFINE Back(b, i) == i = 0 /\ b = bus /\ kpc = "unlink2"
    <3>1. \A b, i : (i = 0 /\ b = bus' /\ kpc' = "unlink2") <=> Back(b, i)
      BY <1>3
    <3>2. prev \in [Nodes -> Nodes \cup {NULL}] /\ c \in Nodes /\ x \in Nodes /\ x # c
      BY <1>1, <1>2, <2>3, ConstFacts DEF TypeOK
    <3>3. /\ prev'[c] = x /\ prev'[x] = prev[c]
          /\ \A y \in Nodes : y # c /\ y # x => prev'[y] = prev[y]
      BY <2>2, <3>2
    <3> SUFFICES ASSUME NEW b \in Buses, NEW i \in 0..Len(OnList(b)')
                 PROVE  prev'[Node(OnList(b)', b, i + 1)] =
                            IF Back(b, i) THEN dma_data ELSE Node(OnList(b)', b, i)
      <4> HIDE DEF Back
      <4> QED
        BY <1>3, <3>1 DEF BackLinked, Node
    <3>4. ASSUME i \in 0..Len(OnList(b)), ~(b = c /\ i = n)
          PROVE  prev'[Node(OnList(b), b, i + 1)] =
                    IF Back(b, i) THEN dma_data ELSE Node(OnList(b), b, i)
      <4>1. prev[Node(OnList(b), b, i + 1)] =
                IF Back(b, i) THEN dma_data ELSE Node(OnList(b), b, i)
        BY <1>1, <3>4 DEF BackLinked
      <4>2. Node(OnList(b), b, i + 1) \in Nodes /\ Node(OnList(b), b, i + 1) # x
        BY <1>1, <2>3, ListFacts
      <4>3. Node(OnList(b), b, i + 1) # c
        <5>1. n \in 0..n /\ n + 1 \notin 1..n
          BY <2>10
        <5>2. Node(OnList(c), c, n + 1) = c
          BY <5>1 DEF Node
        <5>3. Node(OnList(b), b, i + 1) = Node(OnList(c), c, n + 1) => b = c /\ i = n
          BY <1>1, <1>2, <3>4, <5>1, NodesApartBack
        <5> QED
          BY <3>4, <5>2, <5>3
      <4> QED
        BY <3>3, <4>1, <4>2, <4>3
    <3>5. CASE b # c
      BY <2>4, <3>4, <3>5
    <3>6. CASE b = c
      <4> DEFINE s == OnList(c)
                 t == OnList(c)'
      <4>1. /\ Len(t) = n + 1 /\ i \in 0..n + 1
            /\ \A k \in 0..n : Node(t, c, k) = Node(s, c, k)
            /\ Node(t, c, n + 1) = x /\ Node(t, c, (n + 1) + 1) = c
        BY <2>6, <3>6
      <4>2. i \in 0..n /\ i # n =>
                prev'[Node(s, c, i + 1)] = IF Back(c, i) THEN dma_data ELSE Node(s, c, i)
        BY <3>4, <3>6
      <4>b. i = n \/ i = n + 1 => ~Back(c, i)
        BY <2>3, <2>10
      <4>3. prev[c] = Node(s, c, n)
        BY <2>3
      <4>4. prev'[Node(t, c, i + 1)] = IF Back(c, i) THEN dma_data ELSE Node(t, c, i)
        <5> HIDE DEF s, t, n, c, x, Back
        <5>1. CASE i = n + 1
          BY <3>3, <4>1, <4>b, <5>1
        <5>2. CASE i = n
          <6>1. n \in 0..n
            BY <2>10
          <6> QED
            BY <3>3, <4>1, <4>3, <4>b, <5>2, <6>1
        <5>3. CASE i # n /\ i # n + 1
          <6>1. i \in 0..n /\ i + 1 \in 0..n
            BY <2>10, <4>1, <5>3
          <6> QED
            BY <4>1, <4>2, <5>3, <6>1
        <5> QED
          BY <5>1, <5>2, <5>3
      <4> QED
        BY <3>6, <4>4
    <3> QED
      BY <3>5, <3>6
  <2>15. SlotsAccounted'
    <3>1. \A i \in 1..Len(freeSlots') : i + 1 \in 1..Len(freeSlots) /\ i + 1 # 1
                                        /\ freeSlots'[i] = freeSlots[i + 1]
      <4> SUFFICES ASSUME NEW i \in 1..Len(freeSlots')
                   PROVE  i + 1 \in 1..Len(freeSlots) /\ i + 1 # 1 /\ freeSlots'[i] = freeSlots[i + 1]
        OBVIOUS
      <4>1. Len(freeSlots') = Len(freeSlots) - 1 /\ Len(freeSlots) \in Nat
        BY <2>2, <2>3
      <4>2. i \in 1..Len(freeSlots) - 1
        BY <4>1
      <4>3. freeSlots'[i] = freeSlots[i + 1]
        BY <2>2, <2>3, <4>2
      <4>4. i + 1 \in 1..Len(freeSlots) /\ i + 1 # 1
        BY <4>1
      <4> QED
        BY <4>3, <4>4
    <3>2. \A i \in 1..Len(freeSlots) : i # 1 => i - 1 \in 1..Len(freeSlots') /\ freeSlots'[i - 1] = freeSlots[i]
      <4> SUFFICES ASSUME NEW i \in 1..Len(freeSlots), i # 1
                   PROVE  i - 1 \in 1..Len(freeSlots') /\ freeSlots'[i - 1] = freeSlots[i]
        OBVIOUS
      <4>1. Len(freeSlots') = Len(freeSlots) - 1 /\ Len(freeSlots) \in Nat
        BY <2>2, <2>3
      <4>2. i - 1 \in 1..Len(freeSlots) - 1 /\ (i - 1) + 1 = i
        BY <4>1
      <4>3. freeSlots'[i - 1] = freeSlots[i]
        BY <2>2, <2>3, <4>2
      <4> QED
        BY <4>1, <4>2, <4>3
    <3>3. \A i, j \in 1..Len(freeSlots) : freeSlots[i] = freeSlots[j] => i = j
      BY <1>1 DEF SlotsAccounted
    <3>4. 1 \in 1..Len(freeSlots)
      BY <2>3
    <3>5. \A y : IsFree(y)' <=> IsFree(y) /\ y # x
      <4> SUFFICES ASSUME NEW y
                   PROVE  (\E i \in 1..Len(freeSlots') : freeSlots'[i] = y)
                            <=> (\E i \in 1..Len(freeSlots) : freeSlots[i] = y) /\ y # freeSlots[1]
        BY <2>3 DEF IsFree
      <4>1. ASSUME NEW i \in 1..Len(freeSlots'), freeSlots'[i] = y
            PROVE  (\E k \in 1..Len(freeSlots) : freeSlots[k] = y) /\ y # freeSlots[1]
        <5>1. i + 1 \in 1..Len(freeSlots) /\ i + 1 # 1 /\ freeSlots[i + 1] = y
          BY <3>1, <4>1
        <5>2. y # freeSlots[1]
          BY <3>3, <3>4, <5>1
        <5> QED
          BY <5>1, <5>2
      <4>2. ASSUME NEW k \in 1..Len(freeSlots), freeSlots[k] = y, y # freeSlots[1]
            PROVE  \E i \in 1..Len(freeSlots') : freeSlots'[i] = y
        <5>1. k - 1 \in 1..Len(freeSlots') /\ freeSlots'[k - 1] = y
          BY <3>2, <4>2
        <5> QED
          BY <5>1
      <4> QED
        BY <4>1, <4>2
    <3>6. \A b \in Buses : \A y : Listed(y, b)' <=> Listed(y, b) \/ (b = c /\ y = x)
      BY <1>2, <2>7, <2>8, <2>10 DEF Listed
    <3>7. \A i, j \in 1..Len(freeSlots') : freeSlots'[i] = freeSlots'[j] => i = j
      <4> SUFFICES ASSUME NEW i \in 1..Len(freeSlots'), NEW j \in 1..Len(freeSlots'), freeSlots'[i] = freeSlots'[j]
                   PROVE  i = j
        OBVIOUS
      <4>1. i + 1 = j + 1
        BY <3>1, <3>3
      <4> QED
        BY <4>1
    <3> QED
      BY <1>1, <1>2, <1>3, <1>4, <2>3, <3>5, <3>6, <3>7 DEF SlotsAccounted
  <2>16. Owned'
    <3>1. ASSUME NEW b \in Buses, NEW i \in 1..Len(OnList(b)')
          PROVE  LET y == io'[OnList(b)'[i]] IN y \in pending' /\ BusOf(y) = b /\ y # done'
      <4>1. CASE b = c /\ i = n + 1 /\ OnList(b)'[i] = x
        BY <1>2, <1>3, <1>4, <2>1, <2>9, <4>1
      <4>2. CASE i \in 1..Len(OnList(b)) /\ OnList(b)'[i] = OnList(b)[i]
        <5>1. /\ io'[OnList(b)'[i]] = io[OnList(b)[i]] /\ io[OnList(b)[i]] \in pending
              /\ BusOf(io[OnList(b)[i]]) = b
          BY <2>8, <4>2
        <5>2. io[OnList(b)[i]] # done
          BY <1>1, <4>2 DEF Owned
        <5> QED
          BY <1>3, <2>1, <5>1, <5>2
      <4> QED
        BY <2>7, <4>1, <4>2
    <3>2. ASSUME NEW b \in Buses, NEW i \in 1..Len(OnList(b)'), NEW j \in 1..Len(OnList(b)'),
                 io'[OnList(b)'[i]] = io'[OnList(b)'[j]]
          PROVE  i = j
      <4>1. ASSUME NEW k \in 1..Len(OnList(b)') 
            PROVE  \/ k = n + 1 /\ io'[OnList(b)'[k]] = r
                   \/ /\ k \in 1..Len(OnList(b)) /\ io'[OnList(b)'[k]] = io[OnList(b)[k]]
                      /\ io[OnList(b)[k]] # r
        BY <2>7, <2>8, <2>9
      <4> QED
        BY <1>1, <3>2, <4>1 DEF Owned
    <3> QED
      BY <3>1, <3>2 DEF Owned
  <2>17. Queued'
    <3> SUFFICES ASSUME NEW y \in pending', y # done
                 PROVE  \E i \in 1..Len(OnList(BusOf(y))') : io'[OnList(BusOf(y))'[i]] = y
      BY <1>3 DEF Queued
    <3>1. CASE y = r
      BY <2>9, <2>10, <3>1
    <3>2. CASE y # r
      <4>1. y \in pending /\ BusOf(y) \in Buses /\ y # NULL
        BY <1>1, <2>1, <3>2, ConstFacts DEF TypeOK
      <4>2. PICK i \in 1..Len(OnList(BusOf(y))) : io[OnList(BusOf(y))[i]] = y
        BY <1>1, <1>3, <4>1 DEF Queued
      <4> QED
        BY <2>8, <4>1, <4>2
    <3> QED
      BY <3>1, <3>2
  <2>18. TypeOK'
    <3>1. next' \in [Nodes -> Nodes \cup {NULL}] /\ prev' \in [Nodes -> Nodes \cup {NULL}]
      <4>1. x \in Nodes /\ c \in Nodes /\ prev[c] \in Nodes \cup {NULL}
            /\ next \in [Nodes -> Nodes \cup {NULL}] /\ prev \in [Nodes -> Nodes \cup {NULL}]
        BY <1>1, <1>2, <2>3, ConstFacts DEF TypeOK
      <4> HIDE DEF x, c
      <4> QED
        BY <2>2, <4>1
    <3>2. io' \in [Slots -> Reqs \cup {NULL}]
      BY <1>1, <2>2, <2>3 DEF TypeOK
    <3>3. retry' \in [Slots -> 0..1]
      <4>1. retry \in [Slots -> 0..1] /\ retry' = [retry EXCEPT ![x] = 0]
        BY <1>1, <2>2 DEF TypeOK
      <4>2. retry' = [y \in Slots |-> IF y = x THEN 0 ELSE retry[y]]
        BY <4>1
      <4>3. \A y \in Slots : retry'[y] \in 0..1
        BY <4>1, <4>2
      <4> QED
        BY <4>2, <4>3
    <3>4. pending' \subseteq Reqs /\ freeSlots' \in Seq(Slots)
      BY <1>1, <2>1, <2>2, <2>3 DEF TypeOK
    <3> QED
      BY <1>1, <1>3, <2>1, <2>11, <2>13, <3>1, <3>2, <3>3, <3>4 DEF TypeOK
  <2>19. Booting'
    BY <1>1, <1>3, <2>4 DEF Booting
  <2>p. Polling'
    <3>0. TypeOK /\ Polling /\ SlotsAccounted /\ bus \in Buses /\ (kpc' # kpc => kpc = "idle" /\ kpc' = "wait")
      BY <1>1, <1>3
    <3>1. CASE kpc' # kpc
      BY <1>3, <2>1, <3>0, <3>1 DEF Polling, Removing, Taken, Finishing
    <3>2. CASE kpc' = kpc
      <4>0. kpc' = kpc /\ (bus' = bus \/ kpc = "idle")
        BY <1>3, <3>2
      <4>1. kpc = "status" \/ Removing => Len(OnList(bus)') > 0 /\ dma_data = OnList(bus)'[1]
        <5> SUFFICES ASSUME kpc = "status" \/ Removing
                     PROVE  Len(OnList(bus)') > 0 /\ dma_data = OnList(bus)'[1]
          OBVIOUS
        <5>1. Len(OnList(bus)) > 0 /\ dma_data = OnList(bus)[1]
          BY <3>0 DEF Polling
        <5>2. 1 \in 1..Len(OnList(bus))
          BY <2>5, <3>0, <5>1
        <5>3. 1 \in 1..Len(OnList(bus)') /\ OnList(bus)'[1] = OnList(bus)[1]
          <6> DEFINE i == 1
          <6>1. i \in 1..Len(OnList(bus))
            BY <5>2
          <6> HIDE DEF i
          <6>2. bus' = bus
            BY <4>0 DEF Removing
          <6>4. ASSUME NEW b \in Buses, b = bus
                PROVE  i \in 1..Len(OnList(bus)') /\ OnList(bus)'[i] = OnList(bus)[i]
            <7>1. i \in 1..Len(OnList(b))
              BY <6>1, <6>4
            <7>2. i \in 1..Len(OnList(b)') /\ OnList(b)'[i] = OnList(b)[i]
              BY <2>8, <7>1
            <7> QED
              BY <6>2, <6>4, <7>2 DEF OnList
          <6>5. i \in 1..Len(OnList(bus)') /\ OnList(bus)'[i] = OnList(bus)[i]
            BY <3>0, <6>4
          <6> QED
            BY <6>5 DEF i
        <5> QED
          BY <5>1, <5>3
      <4>2. Taken => dma_data \in Slots /\ \A b \in Buses : ~Listed(dma_data, b)'
        <5> SUFFICES ASSUME Taken, NEW b \in Buses, NEW i \in 1..Len(OnList(b)')
                     PROVE  dma_data \in Slots /\ OnList(b)'[i] # dma_data
          BY <3>0 DEF Listed, Polling
        <5>1. dma_data \in Slots /\ ~Listed(dma_data, b)
          BY <3>0 DEF Polling
        <5> QED
          BY <2>3, <2>7, <5>1 DEF Listed
      <4>3. next \in [Nodes -> Nodes \cup {NULL}] /\ prev \in [Nodes -> Nodes \cup {NULL}]
            /\ c \in Nodes /\ x \in Nodes /\ c \notin Slots
        BY <1>1, <1>2, <2>3, ConstFacts DEF TypeOK
      <4>4. \A y \in Nodes : y # x /\ y # prev[c] => next'[y] = next[y]
        <5> HIDE DEF c, x
        <5> QED
          BY <2>2, <4>3
      <4>5. \A y \in Nodes : y # x /\ y # c => prev'[y] = prev[y]
        <5> HIDE DEF c, x
        <5> QED
          BY <2>2, <4>3
      <4>6. kpc = "unlink1" => next'[dma_data] = next[dma_data]
        <5> SUFFICES ASSUME kpc = "unlink1" PROVE next'[dma_data] = next[dma_data]
          OBVIOUS
        <5>1. Len(OnList(bus)) > 0 /\ dma_data = OnList(bus)[1]
          BY <3>0 DEF Polling, Removing
        <5>2. 1 \in 1..Len(OnList(bus)) /\ 1 \in 0..Len(OnList(bus)) /\ n \in 0..n
          BY <2>5, <2>10, <3>0, <5>1
        <5>3. dma_data \in Slots /\ dma_data \in Nodes /\ dma_data # x
          BY <2>5, <2>8, <3>0, <5>1, <5>2, ConstFacts
        <5>4. Node(OnList(bus), bus, 1) = dma_data
          BY <5>1, <5>2 DEF Node
        <5>5. Node(OnList(bus), bus, 1) = Node(OnList(c), c, n) => bus = c /\ 1 = n
          <6> DEFINE i == 1
          <6>1. i \in 0..Len(OnList(bus)) /\ n \in 0..Len(OnList(c))
            BY <5>2
          <6>2. Linked /\ Owned /\ bus \in Buses /\ c \in Buses
            BY <1>1, <1>2, <3>0
          <6> HIDE DEF i, n, c
          <6>3. Node(OnList(bus), bus, i) = Node(OnList(c), c, n) => bus = c /\ i = n
            BY <6>1, <6>2, NodesApart
          <6> QED
            BY <6>3 DEF i
        <5>6. dma_data # prev[c]
          BY <2>3, <5>4, <5>5
        <5> QED
          BY <4>4, <5>3, <5>6
      <4>7. kpc = "unlink2" => /\ prev'[dma_data] = bus
                               /\ next'[dma_data] = next[dma_data]
                               /\ Node(OnList(bus)', bus, 1) = Node(OnList(bus), bus, 1)
        <5> SUFFICES ASSUME kpc = "unlink2"
                     PROVE  /\ prev'[dma_data] = bus /\ next'[dma_data] = next[dma_data]
                            /\ Node(OnList(bus)', bus, 1) = Node(OnList(bus), bus, 1)
          OBVIOUS
        <5>1. Taken /\ dma_data \in Slots /\ prev[dma_data] = bus /\ \A b \in Buses : ~Listed(dma_data, b)
          BY <3>0 DEF Polling, Taken
        <5>2. dma_data \in Nodes /\ dma_data # x /\ dma_data # c
          BY <2>3, <4>3, <5>1, ConstFacts
        <5>3. dma_data # prev[c]
          BY <1>2, <2>3, <5>1, <5>2 DEF Node, Listed
        <5>4. Node(OnList(bus)', bus, 1) = Node(OnList(bus), bus, 1)
          <6>1. CASE c # bus
            BY <2>4, <3>0, <6>1
          <6>2. CASE c = bus
            <7>1. 1 \in 0..n
              BY <2>3, <2>10, <6>2
            <7> QED
              BY <2>6, <6>2, <7>1
          <6> QED
            BY <6>1, <6>2
        <5> QED
          BY <4>4, <4>5, <5>1, <5>2, <5>3, <5>4
      <4>8. kpc = "unlink2" => /\ prev'[dma_data'] = bus'
                               /\ next'[dma_data'] = Node(OnList(bus), bus, 1)'
                               /\ nextReg' = next'[dma_data']
        <5> SUFFICES ASSUME kpc = "unlink2"
                     PROVE  /\ prev'[dma_data'] = bus'
                            /\ next'[dma_data'] = Node(OnList(bus), bus, 1)'
                            /\ nextReg' = next'[dma_data']
          OBVIOUS
        <5>1. bus' = bus
          BY <4>0
        <5>2. Node(OnList(bus), bus, 1)' = Node(OnList(bus)', bus, 1)
          BY <5>1 DEF Node
        <5>3. next[dma_data] = Node(OnList(bus), bus, 1) /\ nextReg = next[dma_data]
          BY <3>0 DEF Polling
        <5> QED
          BY <1>3, <4>7, <5>1, <5>2, <5>3
      <4>9. Finishing' <=> Finishing
        BY <4>0 DEF Finishing
      <4>10. done # NULL => done \in pending'
        BY <2>1, <3>0 DEF Polling
      <4>11. (kpc = "status" \/ Removing)' => Len(OnList(bus))' > 0 /\ dma_data' = OnList(bus)'[1]
        BY <1>3, <1>4, <4>0, <4>1 DEF Removing
      <4>12. Taken' => dma_data' \in Slots /\ \A b \in Buses : ~Listed(dma_data, b)'
        BY <1>3, <1>4, <4>2
      <4>13. kpc' = "unlink1" => nextReg' = next'[dma_data']
        BY <1>3, <3>0, <4>0, <4>6 DEF Polling
      <4>14. Finishing' <=> done' # NULL
        BY <1>3, <3>0, <4>9 DEF Polling
      <4> QED
        BY <1>3, <4>0, <4>8, <4>10, <4>11, <4>12, <4>13, <4>14 DEF Polling
    <3> QED
      BY <3>1, <3>2
  <2>20. DeviceFollows'
    <3> SUFFICES ASSUME NEW b \in Buses PROVE DeviceAt(b)'
      BY DEF DeviceFollows
    <3>0. DeviceAt(b)
      BY <1>1 DEF DeviceFollows
    <3>1. CASE b = c /\ n = 0
      <4>1. Between(b)
        BY <3>1 DEF Between, Starting
      <4>2. ~dev'[c].err /\ dev'[c].active /\ dev'[c].cmd = r
        BY <2>13, <3>0, <3>1, <4>1 DEF DeviceAt, Quiet, WorksOnFirst, Starting
      <4>3. OnList(c)'[1] = x /\ io'[OnList(c)'[1]] = r
        BY <2>9, <2>10, <3>1
      <4>4. ~Between(b)'
        <5>1. Len(OnList(b)') = n + 1 /\ n + 1 # 0
          BY <2>6, <2>10, <3>1
        <5>2. b = bus => kpc \notin {"unlink", "unlink1", "unlink2"}
          BY <1>1, <2>3, <3>1 DEF Polling, Removing
        <5> QED
          BY <1>3, <5>1, <5>2 DEF Between
      <4> QED
        BY <3>1, <4>2, <4>3, <4>4 DEF DeviceAt, WorksOnFirst
    <3>2. CASE ~(b = c /\ n = 0)
      <4>1. dev'[b] = dev[b]
        BY <2>13, <3>2
      <4>2. CASE Len(OnList(b)) = 0
        <5>1. b # c
          BY <3>2, <4>2
        <5>2. Between(b) /\ Between(b)'
          BY <2>4, <4>2, <5>1 DEF Between, Starting
        <5> QED
          BY <3>0, <4>1, <5>2 DEF DeviceAt, Quiet, WorksOnFirst, Starting
      <4>3. CASE Len(OnList(b)) # 0
        <5>1. 1 \in 1..Len(OnList(b)) /\ Len(OnList(b)) \in Nat
          BY <2>5, <4>3
        <5>2. /\ 1 \in 1..Len(OnList(b)') /\ OnList(b)'[1] = OnList(b)[1]
              /\ io'[OnList(b)[1]] = io[OnList(b)[1]] /\ retry'[OnList(b)[1]] = retry[OnList(b)[1]]
              /\ io[OnList(b)[1]] \in Reqs /\ io[OnList(b)[1]] # r
          BY <2>8, <5>1
        <5>3. Len(OnList(b)') # 0
          BY <5>2
        <5>4. (Between(b)' <=> Between(b)) /\ (Starting(b) => Starting(b)')
          BY <1>3, <4>3, <5>3 DEF Between, Starting
        <5>5. moved'[io[OnList(b)[1]]] = moved[io[OnList(b)[1]]] /\ failed'[io[OnList(b)[1]]] = failed[io[OnList(b)[1]]]
          BY <2>11, <5>2
        <5> QED
          BY <3>0, <4>1, <5>2, <5>4, <5>5 DEF DeviceAt, Quiet, WorksOnFirst, Starting
      <4> QED
        BY <4>2, <4>3
    <3> QED
      BY <3>1, <3>2
  <2>21. Verdicts'
    <3>1. ASSUME NEW b \in Buses, NEW i \in 1..Len(OnList(b)')
          PROVE  failed'[io'[OnList(b)'[i]]] >= retry'[OnList(b)'[i]]
      <4>1. CASE b = c /\ i = n + 1 /\ OnList(b)'[i] = x
        BY <2>9, <2>11, <4>1
      <4>2. CASE i \in 1..Len(OnList(b)) /\ OnList(b)'[i] = OnList(b)[i]
        <5>1. /\ io'[OnList(b)'[i]] = io[OnList(b)[i]] /\ retry'[OnList(b)'[i]] = retry[OnList(b)[i]]
              /\ io[OnList(b)[i]] \in Reqs /\ io[OnList(b)[i]] # r
          BY <2>8, <4>2
        <5>2. failed[io[OnList(b)[i]]] >= retry[OnList(b)[i]]
          BY <1>1, <4>2 DEF Verdicts, Removing
        <5> QED
          BY <2>11, <5>1, <5>2
      <4> QED
        BY <2>7, <4>1, <4>2
    <3>2. \A y \in Reqs : failed'[y] <= errs'
      <4>1. errs' = errs /\ errs \in Nat /\ \A y \in Reqs : failed[y] <= errs
        BY <1>1, <2>1, ErrorsAssumption DEF Verdicts, TypeOK
      <4> QED
        BY <2>11, <4>1
    <3>3. Removing => IF error THEN failed'[io'[dma_data]] >= 2 ELSE moved'[io'[dma_data]]
      <4> SUFFICES ASSUME Removing
                   PROVE  IF error THEN failed'[io'[dma_data]] >= 2 ELSE moved'[io'[dma_data]]
        OBVIOUS
      <4>1. bus \in Buses /\ Len(OnList(bus)) > 0 /\ dma_data = OnList(bus)[1]
        BY <1>1, <1>3 DEF Polling
      <4>2. 1 \in 1..Len(OnList(bus))
        BY <2>5, <4>1
      <4>3. /\ io'[dma_data] = io[dma_data] /\ io[dma_data] \in Reqs /\ io[dma_data] # r
        BY <2>8, <4>1, <4>2
      <4>4. IF error THEN failed[io[dma_data]] >= 2 ELSE moved[io[dma_data]]
        BY <1>1 DEF Verdicts
      <4> QED
        BY <2>11, <4>3, <4>4
    <3>4. done # NULL => IF error THEN failed'[done] >= 2 ELSE moved'[done]
      <4>1. done # NULL => done \in Reqs /\ done # r
        BY <1>1, <1>4, <2>1 DEF TypeOK
      <4> QED
        BY <1>1, <2>11, <4>1 DEF Verdicts
    <3> QED
      BY <1>3, <1>4, <3>1, <3>2, <3>3, <3>4 DEF Verdicts
  <2>22. Succeeded' /\ Erred'
    <3>1. Succeeded /\ Erred
      BY DEF IInv
    <3>2. Succeeded'
      BY <2>11, <3>1 DEF Succeeded
    <3>3. Erred'
      BY <2>11, <3>1 DEF Erred
    <3> QED
      BY <3>2, <3>3
  <2> QED
    BY <2>p, <2>4, <2>14, <2>15, <2>16, <2>17, <2>18, <2>19, <2>20, <2>21, <2>22 DEF IInv
<1> QED
  BY <1>5, <1>6

-----------------------------------------------------------------------------
(* Every step, and the start.                                              *)

\* The boot code's request.
LEMMA SyncIoStep ==
    ASSUME IInv, NEW r \in Reqs, sync_io_sectors(r)
    PROVE  IInv'
<1>1. phase = "boot" /\ kpc = "idle" /\ raced' \in BOOLEAN
  BY DEF sync_io_sectors, IInv, TypeOK
<1>2. Safe(BusOf(r))
  BY <1>1 DEF Safe
<1> QED
  BY <1>1, <1>2, EnqueueStep DEF sync_io_sectors

\* A system call's request, anywhere in the code of the kernel task.
LEMMA SubmitStep ==
    ASSUME IInv, NEW r \in Reqs, submit(r), ~raced'
    PROVE  IInv'
<1>1. phase = "run" /\ raced' \in BOOLEAN /\ ~(check_drive(r) /\ BehindRemoved(r))
  BY DEF submit
<1>2. ide_dma_sectors(r) /\ UNCHANGED <<phase, kpc, bus, dma_data, nextReg, error, done>>
  BY DEF submit, task
<1>3. CASE check_drive(r)
  <2>1. Safe(BusOf(r))
    BY <1>1, <1>3 DEF Safe, BehindRemoved
  <2> QED
    BY <1>1, <1>2, <2>1, EnqueueStep
<1>4. CASE ~check_drive(r)
  <2>1. /\ UNCHANGED <<next, prev, freeSlots, io, retry, pending, outcome, moved, failed, dev, errs>>
        /\ panic' = TRUE
    BY <1>2, <1>4 DEF ide_dma_sectors, list, seen
  <2> QED
    BY <1>1, <1>2, <2>1, SameStep
<1> QED
  BY <1>3, <1>4

\* Every step keeps the inductive invariant.
LEMMA StepIInv ==
    ASSUME IInv, [Next]_vars, ~raced'
    PROVE  IInv'
<1>1. CASE UNCHANGED vars
  <2>1. UNCHANGED <<next, prev, freeSlots, io, retry, phase, kpc, bus, dma_data, nextReg, error, done, pending, outcome, moved, failed, dev, errs, panic, raced>>
    BY <1>1 DEF vars, list, task, seen
  <2>2. panic' \in BOOLEAN /\ raced' \in BOOLEAN
    BY <2>1 DEF IInv, TypeOK
  <2> QED
    BY <2>1, <2>2, SameStep
<1>2. CASE \E r \in Reqs : submit(r)
  BY <1>2, SubmitStep
<1>3. CASE \E r \in Reqs : sync_io_sectors(r)
  BY <1>3, SyncIoStep
<1>4. CASE \E b \in Buses : transfer(b)
  BY <1>4, TransferStep
<1>5. CASE \E b \in Buses : transfer_fails(b)
  BY <1>5, TransferFailsStep
<1>6. CASE task_function
  BY <1>6, TaskFunctionStep
<1>7. CASE check_list
  BY <1>7, CheckListStep
<1>8. CASE check_error
  BY <1>8, CheckErrorStep
<1>9. CASE check_done
  BY <1>9, CheckDoneStep
<1>10. CASE unlink_next
  BY <1>10, UnlinkNextStep
<1>17. CASE load_next
  BY <1>17, LoadNextStep
<1>11. CASE unlink_prev
  BY <1>11, UnlinkPrevStep
<1>12. CASE free_io_data
  BY <1>12, FreeStep
<1>13. CASE start_next
  BY <1>13, StartNextStep
<1>14. CASE complete_func
  BY <1>14, CompleteFuncStep
<1>15. CASE sync_wait
  BY <1>15, SyncWaitStep
<1>16. CASE scheduler
  BY <1>16, SchedulerStep
<1> QED
  BY <1>1, <1>2, <1>3, <1>4, <1>5, <1>6, <1>7, <1>8, <1>9, <1>10, <1>11, <1>12, <1>13, <1>14, <1>15,
     <1>16, <1>17 DEF Next, ktask

\* initialize_io_data establishes it.
LEMMA InitIInv ==
    ASSUME Init
    PROVE  IInv
<1> USE DEF Init
<1>1. TypeOK
  <2>1. next \in [Nodes -> Nodes \cup {NULL}] /\ prev \in [Nodes -> Nodes \cup {NULL}]
    BY DEF Nodes
  <2>2. freeSlots \in Seq(Slots)
    <3>1. \A i \in 1..SlotCount : BusCount + i - 1 \in Slots
      BY BusAssumption, SlotsAssumption DEF Slots
    <3>2. freeSlots \in [1..SlotCount -> Slots] /\ SlotCount \in Nat
      BY <3>1, SlotsAssumption
    <3> QED
      BY <3>2
  <2>3. 0 \in Buses /\ 0 \in 0..MaxErrors
    BY BusAssumption, ErrorsAssumption DEF Buses
  <2>4. retry \in [Slots -> 0..1] /\ failed \in [Reqs -> 0..MaxErrors]
    BY <2>3
  <2>5. dev \in [Buses -> [cmd : Reqs \cup {NULL}, active : BOOLEAN, err : BOOLEAN]]
    BY DEF Idle
  <2>6. io \in [Slots -> Reqs \cup {NULL}]
    OBVIOUS
  <2> QED
    BY <2>1, <2>2, <2>3, <2>4, <2>5, <2>6 DEF TypeOK
<1>2. ASSUME NEW b \in Buses PROVE IsChain(next, <<>>, b) /\ OnList(b) = <<>>
  <2>1. b \in Nodes /\ next[b] = b
    BY ConstFacts
  <2>2. next \in Links
    BY <1>1 DEF TypeOK, Links
  <2>3. IsChain(next, <<>>, b)
    BY <2>1 DEF IsChain, Node
  <2> QED
    BY <2>2, <2>3, ChainIsList DEF OnList
<1>3. Linked
  BY <1>2 DEF Linked
<1>4. \A b \in Buses : Len(OnList(b)) = 0
  <2>1. Len(<<>>) = 0
    OBVIOUS
  <2> QED
    BY <1>2, <2>1, Zenon
<1>5. BackLinked
  <2> SUFFICES ASSUME NEW b \in Buses, NEW i \in 0..Len(OnList(b))
               PROVE  prev[Node(OnList(b), b, i + 1)] = Node(OnList(b), b, i)
    BY DEF BackLinked
  <2>1. i = 0 /\ Len(OnList(b)) = 0
    BY <1>4
  <2>2. Node(OnList(b), b, i + 1) = b /\ Node(OnList(b), b, i) = b
    BY <2>1 DEF Node
  <2>3. prev[b] = b
    BY ConstFacts
  <2> QED
    BY <2>2, <2>3
<1>6. SlotsAccounted
  <2>1. Len(freeSlots) = SlotCount /\ SlotCount \in Nat
    BY SlotsAssumption
  <2>2. ASSUME NEW s \in Slots PROVE IsFree(s)
    <3>1. s - BusCount + 1 \in 1..SlotCount /\ BusCount + (s - BusCount + 1) - 1 = s
      BY BusAssumption, SlotsAssumption DEF Slots
    <3>2. freeSlots[s - BusCount + 1] = s
      BY <3>1
    <3> QED
      BY <2>1, <3>1, <3>2 DEF IsFree
  <2>3. \A i, j \in 1..Len(freeSlots) : freeSlots[i] = freeSlots[j] => i = j
    BY <2>1, BusAssumption
  <2>4. \A s : \A b \in Buses : ~Listed(s, b)
    BY <1>4 DEF Listed
  <2>5. ~Taken
    BY DEF Taken
  <2> QED
    BY <2>2, <2>3, <2>4, <2>5 DEF SlotsAccounted
<1>7. Owned /\ Queued
  BY <1>4 DEF Owned, Queued
<1>8. Polling
  BY DEF Polling, Removing, Taken, Finishing
<1>9. DeviceFollows
  BY <1>4 DEF DeviceFollows, DeviceAt, Between, Quiet, Idle
<1>10. Verdicts
  BY <1>4 DEF Verdicts, Removing
<1>11. Booting
  BY <1>4 DEF Booting
<1>12. Succeeded /\ Erred
  BY DEF Succeeded, Erred
<1> QED
  BY <1>1, <1>3, <1>5, <1>6, <1>7, <1>8, <1>9, <1>10, <1>11, <1>12 DEF IInv

\* What was linked behind an object being removed stays so: until then the
\* inductive invariant holds, wherever ticks interrupt the kernel task.  Before
\* scheduler() is called nothing can be.
Guarded == (~raced => IInv) /\ (phase = "boot" => ~raced)

\* `raced' is never reset.
LEMMA RacedStays ==
    ASSUME [Next]_vars, ~raced'
    PROVE  ~raced
<1>1. CASE \E r \in Reqs : submit(r)
  BY <1>1, Zenon DEF submit
<1>2. CASE UNCHANGED raced
  BY <1>2
<1> QED
  BY <1>1, <1>2 DEF Next, ktask, vars, sync_io_sectors, transfer, transfer_fails, task_function,
     check_list, check_error, check_done, load_next, unlink_next, unlink_prev, free_io_data,
     start_next, complete_func, sync_wait, scheduler

\* Nothing is linked behind an object being removed before scheduler().
LEMMA BootIsAlone ==
    ASSUME Guarded, [Next]_vars
    PROVE  phase' = "boot" => ~raced'
<1>1. CASE \E r \in Reqs : submit(r)
  BY <1>1 DEF submit, task
<1>2. CASE scheduler
  BY <1>2 DEF scheduler
<1>3. CASE UNCHANGED <<raced, phase>>
  BY <1>3 DEF Guarded
<1> QED
  BY <1>1, <1>2, <1>3 DEF Next, ktask, vars, task, sync_io_sectors, transfer, transfer_fails,
     task_function, check_list, check_error, check_done, load_next, unlink_next, unlink_prev,
     free_io_data, start_next, complete_func, sync_wait

\* What the other theorems rest on: until a request has been linked behind an object
\* that is being removed, the lists, the objects, the tasks and the registers agree,
\* in every state of the driver.
THEOREM Invariance == Spec => []Guarded
<1>1. Init => Guarded
  BY InitIInv DEF Guarded, Init
<1>2. Guarded /\ [Next]_vars => Guarded'
  <2> SUFFICES ASSUME Guarded, [Next]_vars PROVE Guarded'
    OBVIOUS
  <2>1. ASSUME ~raced' PROVE IInv'
    BY <2>1, RacedStays, StepIInv DEF Guarded
  <2> QED
    BY <2>1, BootIsAlone DEF Guarded
<1> QED
  BY <1>1, <1>2, PTL DEF Spec

-----------------------------------------------------------------------------
(* What follows.                                                           *)

\* Every variable keeps its type until a request is linked behind an object
\* being removed.
THEOREM TypeCorrect == Spec => [](~raced => TypeOK)
<1>1. Guarded => (~raced => TypeOK)
  BY DEF Guarded, IInv
<1> QED
  BY <1>1, Invariance, PTL

\* No request is lost between the list and its completion, but behind an
\* object being removed.
THEOREM NoneIsLost == Spec => []LostOnlyBehindRemoved
<1>1. ASSUME IInv PROVE QueuedOnList
  <2>1. Linked /\ Queued /\ pending \subseteq Reqs
    BY <1>1 DEF IInv, TypeOK
  <2> SUFFICES ASSUME NEW r \in pending, done # r
               PROVE  \E i \in DOMAIN ListReqs(BusOf(r)) : ListReqs(BusOf(r))[i] = r
    BY DEF QueuedOnList
  <2> DEFINE s == OnList(BusOf(r))
  <2>2. DOMAIN s = 1..Len(s)
    BY <2>1, ListFacts, ConstFacts
  <2>3. PICK i \in 1..Len(s) : io[s[i]] = r
    BY <2>1 DEF Queued
  <2> HIDE DEF s
  <2>4. ListReqs(BusOf(r)) = [k \in DOMAIN s |-> io[s[k]]]
    BY DEF ListReqs, s
  <2> QED
    BY <2>2, <2>3, <2>4
<1>2. Guarded => LostOnlyBehindRemoved
  BY <1>1 DEF Guarded, LostOnlyBehindRemoved
<1> QED
  BY <1>2, Invariance, PTL

\* A completion that reports success is for a request the device transferred.
THEOREM SuccessIsTrue == Spec => []SuccessIsTransfer
<1>1. Guarded => SuccessIsTransfer
  BY DEF Guarded, IInv, Succeeded, SuccessIsTransfer
<1> QED
  BY <1>1, Invariance, PTL

\* A completion reports an error only after the second failure.
THEOREM ErrorsAreRetried == Spec => []ErrorAfterRetry
<1>1. Guarded => ErrorAfterRetry
  BY DEF Guarded, IInv, Erred, ErrorAfterRetry
<1> QED
  BY <1>1, Invariance, PTL

\* sync_io_sectors returns when its request is over.
THEOREM SyncReturns == Spec => []SyncReturnsOutcome
<1>1. ASSUME IInv PROVE SyncReturnsOutcome
  <2> SUFFICES ASSUME phase = "boot", kpc = "idle", NEW r \in pending PROVE FALSE
    BY DEF SyncReturnsOutcome
  <2>1. Queued /\ Booting /\ pending \subseteq Reqs
    BY <1>1 DEF IInv, TypeOK
  <2>2. done = NULL
    BY <1>1 DEF IInv, Polling, Removing, Finishing
  <2>3. BusOf(r) \in Buses /\ r # NULL
    BY <2>1, ConstFacts
  <2>4. Len(OnList(BusOf(r))) = 0
    BY <2>1, <2>3 DEF Booting
  <2>5. \E i \in 1..Len(OnList(BusOf(r))) : io[OnList(BusOf(r))[i]] = r
    BY <2>1, <2>2, <2>3 DEF Queued
  <2> QED
    BY <2>4, <2>5
<1>2. Guarded => SyncReturnsOutcome
  BY <1>1 DEF Guarded, SyncReturnsOutcome
<1> QED
  BY <1>2, Invariance, PTL

\* A bus that is transferring is not taken away from its request.
THEOREM CommandsOneByOne == Spec => OneCommandAtATime
<1> DEFINE kept == \A b \in Buses : dev[b].active /\ dev'[b].active => dev'[b].cmd = dev[b].cmd
<1>1. ASSUME IInv, [Next]_vars PROVE kept
  <2>1. TypeOK /\ Linked /\ DeviceFollows /\ bus \in Buses
        /\ dev \in [Buses -> [cmd : Reqs \cup {NULL}, active : BOOLEAN, err : BOOLEAN]]
    BY <1>1 DEF IInv, TypeOK
  <2>2. ASSUME NEW r \in Reqs, ide_dma_sectors(r) PROVE kept
    <3>1. BusOf(r) \in Buses
      BY ConstFacts
    <3>2. CASE dev' = dev
      BY <3>2
    <3>3. CASE dev' # dev
      <4>1. dma_io_sectors(r)
        BY <2>2, <3>3 DEF ide_dma_sectors
      <4>2. Empty(BusOf(r)) /\ start_io_operation(BusOf(r), r)
        BY <3>3, <4>1 DEF dma_io_sectors
      <4>3. Len(OnList(BusOf(r))) = 0
        BY <2>1, <3>1, <4>2, HeadMeans
      <4>4. ~dev[BusOf(r)].active
        BY <2>1, <3>1, <4>3 DEF DeviceFollows, DeviceAt, Between, Quiet
      <4> QED
        BY <2>1, <3>1, <4>2, <4>4 DEF start_io_operation
    <3> QED
      BY <3>2, <3>3
  <2>3. CASE check_error
    <3>1. kpc = "status" /\ dev[bus].err
      BY <2>3 DEF check_error
    <3>2. dev[bus].cmd = io[dma_data]
      BY <1>1, <3>1, PolledFacts
    <3>3. \A b \in Buses : b # bus => dev'[b] = dev[b]
      BY <2>1, <2>3 DEF check_error
    <3>4. dev'[bus].active => dev'[bus].cmd = io[dma_data]
      BY <2>1, <2>3 DEF check_error, Idle
    <3> QED
      BY <3>2, <3>3, <3>4
  <2>4. CASE start_next
    <3>1. dev[bus].active => ~Empty(bus) /\ dev[bus].cmd = io[next[bus]]
      <4>1. dev[bus].active => dev[bus].cmd = io[OnList(bus)[1]] /\ 1 \in 1..Len(OnList(bus))
        BY <1>1, <2>1, ActiveFacts
      <4> QED
        BY <2>1, <4>1, HeadMeans
    <3>2. ~Empty(bus) => dev'[bus].cmd = io[next[bus]]
      BY <2>1, <2>4 DEF start_next, start_io_operation
    <3>3. \A b \in Buses : b # bus => dev'[b] = dev[b]
      BY <2>1, <2>4 DEF start_next, start_io_operation
    <3> QED
      BY <3>1, <3>2, <3>3
  <2>5. ASSUME NEW c \in Buses, transfer(c) \/ transfer_fails(c) PROVE kept
    BY <2>1, <2>5 DEF transfer, transfer_fails
  <2>6. CASE UNCHANGED dev
    BY <2>6
  <2>7. \/ \E r \in Reqs : ide_dma_sectors(r)
        \/ check_error \/ start_next \/ UNCHANGED dev
        \/ \E c \in Buses : transfer(c) \/ transfer_fails(c)
    BY <1>1 DEF Next, ktask, vars, submit, sync_io_sectors, task_function, check_list, check_done,
       load_next, unlink_next, unlink_prev, free_io_data, complete_func, sync_wait, scheduler
  <2> QED
    BY <2>2, <2>3, <2>4, <2>5, <2>6, <2>7
<1>2. Guarded /\ [Next]_vars => [raced' \/ kept]_vars
  BY <1>1, RacedStays DEF Guarded
<1> QED
  BY <1>2, Invariance, PTL DEF Spec, OneCommandAtATime

-----------------------------------------------------------------------------
(* The lists are the queues of IoQueue.                                    *)

\* The requests of the objects s.
ReqsOf(s, iof) == [i \in DOMAIN s |-> iof[s[i]]]

\* They are a sequence as long as s.
LEMMA ReqsOfSeq ==
    ASSUME NEW s \in Seq(Slots), NEW iof, \A i \in 1..Len(s) : iof[s[i]] \in Reqs
    PROVE  /\ ReqsOf(s, iof) \in Seq(Reqs) /\ Len(ReqsOf(s, iof)) = Len(s) /\ Len(s) \in Nat
           /\ DOMAIN ReqsOf(s, iof) = 1..Len(s)
           /\ \A i \in 1..Len(s) : ReqsOf(s, iof)[i] = iof[s[i]]
<1>1. Len(s) \in Nat /\ DOMAIN s = 1..Len(s)
  BY LenProperties
<1>2. ReqsOf(s, iof) = [i \in 1..Len(s) |-> iof[s[i]]]
  BY <1>1, Zenon DEF ReqsOf
<1>3. ReqsOf(s, iof) \in [1..Len(s) -> Reqs]
  BY <1>2
<1>4. ReqsOf(s, iof) \in Seq(Reqs)
  BY <1>1, <1>3
<1>5. \A i \in 1..Len(s) : ReqsOf(s, iof)[i] = iof[s[i]]
  BY <1>2
<1>6. DOMAIN ReqsOf(s, iof) = 1..Len(s)
  BY <1>2
<1>7. Len(ReqsOf(s, iof)) \in Nat /\ DOMAIN ReqsOf(s, iof) = 1..Len(ReqsOf(s, iof))
  BY <1>4, LenProperties
<1>8. Len(ReqsOf(s, iof)) = Len(s)
  <2> DEFINE m == Len(ReqsOf(s, iof))
  <2>1. m \in Nat /\ 1..m = 1..Len(s)
    BY <1>6, <1>7
  <2> HIDE DEF m
  <2>2. m = Len(s)
    <3>1. ASSUME NEW i \in Nat, NEW j \in Nat, 1..i = 1..j PROVE i <= j
      <4>1. CASE i = 0
        BY <4>1
      <4>2. CASE i # 0
        <5>1. i \in 1..i
          BY <4>2
        <5>2. i \in 1..j
          BY <3>1, <5>1
        <5> QED
          BY <5>2
      <4> QED
        BY <4>1, <4>2
    <3>2. m <= Len(s) /\ Len(s) <= m
      BY <1>1, <2>1, <3>1
    <3>3. m \in Nat /\ Len(s) \in Nat
      BY <1>1, <2>1
    <3> QED
      BY <3>2, <3>3
  <2> QED
    BY <2>2 DEF m
<1> QED
  BY <1>1, <1>4, <1>5, <1>6, <1>8

\* The queue of a bus.
LEMMA QueueFacts ==
    ASSUME IInv, NEW b \in Buses
    PROVE  /\ ListReqs(b) = ReqsOf(OnList(b), io) /\ OnList(b) \in Seq(Slots)
           /\ ListReqs(b) \in Seq(Reqs) /\ Len(ListReqs(b)) = Len(OnList(b)) /\ Len(OnList(b)) \in Nat
           /\ DOMAIN ListReqs(b) = 1..Len(OnList(b))
           /\ \A i \in 1..Len(OnList(b)) : /\ ListReqs(b)[i] = io[OnList(b)[i]]
                                           /\ ListReqs(b)[i] \in pending
                                           /\ ListReqs(b)[i] \in Reqs
<1>1. OnList(b) \in Seq(Slots) /\ Len(OnList(b)) \in Nat
  BY ListFacts DEF IInv
<1>2. \A i \in 1..Len(OnList(b)) : io[OnList(b)[i]] \in pending /\ io[OnList(b)[i]] \in Reqs
  BY DEF IInv, Owned, TypeOK
<1>3. ListReqs(b) = ReqsOf(OnList(b), io)
  BY DEF ListReqs, ReqsOf
<1> DEFINE s == OnList(b)
           l == ReqsOf(s, io)
<1>4. /\ l \in Seq(Reqs) /\ Len(l) = Len(s) /\ DOMAIN l = 1..Len(s)
      /\ \A i \in 1..Len(s) : l[i] = io[s[i]]
  BY <1>1, <1>2, ReqsOfSeq
<1> HIDE DEF l
<1>5. ListReqs(b) = l
  BY <1>3 DEF l
<1> QED
  BY <1>1, <1>2, <1>3, <1>4, <1>5

\* The same lists with the same requests are the same queue.
LEMMA QueueKept ==
    ASSUME IInv, NEW b \in Buses, OnList(b)' = OnList(b),
           \A i \in 1..Len(OnList(b)) : io'[OnList(b)[i]] = io[OnList(b)[i]]
    PROVE  ListReqs(b)' = ListReqs(b)
<1> DEFINE s == OnList(b)
<1>1. s \in Seq(Slots) /\ DOMAIN s = 1..Len(s)
  BY ListFacts DEF IInv
<1>2. ListReqs(b)' = [i \in DOMAIN s |-> io'[s[i]]]
  BY DEF ListReqs
<1>3. ListReqs(b) = [i \in DOMAIN s |-> io[s[i]]]
  BY DEF ListReqs
<1>4. \A i \in DOMAIN s : io'[s[i]] = io[s[i]]
  BY <1>1
<1> HIDE DEF s
<1> QED
  BY <1>2, <1>3, <1>4

\* A submission is a Submit of the queue.
LEMMA SubmitRefines ==
    ASSUME IInv, IInv', NEW r \in Reqs, check_drive(r) => Safe(BusOf(r)), ide_dma_sectors(r), done' = done
    PROVE  [Queue!Next]_(Queue!vars)
<1> DEFINE c == BusOf(r)
           x == Head(freeSlots)
           q == [b \in Buses |-> ListReqs(b)]
<1>1. CASE UNCHANGED list
  <2>1. next' = next /\ io' = io
    BY <1>1 DEF list
  <2>2. \A b \in Buses : OnList(b)' = OnList(b)
    BY <2>1 DEF OnList
  <2>3. \A b \in Buses : ListReqs(b)' = ListReqs(b)
    BY <2>1, <2>2, QueueKept
  <2>4. [b \in Buses |-> ListReqs(b)]' = [b \in Buses |-> ListReqs(b)]
    BY <2>3
  <2> QED
    BY <2>4 DEF Queue!vars
<1>2. CASE ~UNCHANGED list
  <2>1. dma_io_sectors(r) /\ r \notin pending /\ Safe(c)
    BY <1>2 DEF ide_dma_sectors
  <2>2. c \in Buses /\ r # done /\ Linked
    BY <2>1, ConstFacts DEF IInv, Polling
  <2>3. /\ OnList(c)' = Append(OnList(c), x)
        /\ \A b \in Buses : b # c => OnList(b)' = OnList(b)
        /\ Len(OnList(c)') = Len(OnList(c)) + 1
        /\ \A i \in 1..Len(OnList(c)) : OnList(c)'[i] = OnList(c)[i]
        /\ OnList(c)'[Len(OnList(c)) + 1] = x
    BY <2>1, <2>2, EnqueueLists
  <2>4. x \in Slots /\ \A b \in Buses : ~Listed(x, b)
    BY <2>1, <2>2, EnqueueFacts
  <2>5. io' = [io EXCEPT ![x] = r] /\ io \in [Slots -> Reqs \cup {NULL}]
    BY <2>1 DEF dma_io_sectors, IInv, TypeOK
  <2>6. \A b \in Buses : \A i \in 1..Len(OnList(b)) : io'[OnList(b)[i]] = io[OnList(b)[i]]
    <3> SUFFICES ASSUME NEW b \in Buses, NEW i \in 1..Len(OnList(b))
                 PROVE  io'[OnList(b)[i]] = io[OnList(b)[i]]
      OBVIOUS
    <3>1. OnList(b)[i] \in Slots
      BY <2>2, ListFacts
    <3>2. OnList(b)[i] # x
      BY <2>4 DEF Listed
    <3> QED
      BY <2>5, <3>1, <3>2
  <2>7. io'[x] = r
    BY <2>4, <2>5
  <2>8. \A b \in Buses : b # c => ListReqs(b)' = ListReqs(b)
    BY <2>3, <2>6, QueueKept
  <2>9. ListReqs(c)' = Append(ListReqs(c), r)
    <3> DEFINE l == ListReqs(c)
               m == ListReqs(c)'
               n == Len(OnList(c))
    <3>1. /\ l \in Seq(Reqs) /\ Len(l) = n /\ n \in Nat
          /\ \A i \in 1..n : l[i] = io[OnList(c)[i]]
      BY <2>2, QueueFacts
    <3>2. m = ReqsOf(OnList(c)', io')
      BY DEF ListReqs, ReqsOf
    <3>3. OnList(c)' \in Seq(Slots)
      <4>1. OnList(c) \in Seq(Slots)
        BY <2>2, QueueFacts
      <4> QED
        BY <2>3, <2>4, <4>1, AppendProperties
    <3>4. \A i \in 1..n : io'[OnList(c)'[i]] = l[i] /\ l[i] \in Reqs
      <4>1. \A i \in 1..n : io[OnList(c)[i]] \in Reqs
        BY <2>2, QueueFacts
      <4> QED
        BY <2>2, <2>3, <2>6, <3>1, <4>1
    <3>5. io'[OnList(c)'[n + 1]] = r
      BY <2>3, <2>7
    <3>6. \A i \in 1..Len(OnList(c)') : io'[OnList(c)'[i]] \in Reqs
      <4>1. \A i \in 1..n + 1 : i \in 1..n \/ i = n + 1
        BY <3>1
      <4> QED
        BY <2>3, <3>4, <3>5, <4>1
    <3>7. m \in Seq(Reqs) /\ Len(m) = n + 1 /\ \A i \in 1..n + 1 : m[i] = io'[OnList(c)'[i]]
      <4> DEFINE u == OnList(c)'
      <4>1. /\ ReqsOf(u, io') \in Seq(Reqs) /\ Len(ReqsOf(u, io')) = Len(u)
            /\ \A i \in 1..Len(u) : ReqsOf(u, io')[i] = io'[u[i]]
        <5> HIDE DEF u
        <5>1. u \in Seq(Slots) /\ \A i \in 1..Len(u) : io'[u[i]] \in Reqs
          BY <3>3, <3>6 DEF u
        <5> QED
          BY <5>1, ReqsOfSeq
      <4> HIDE DEF m
      <4> QED
        BY <2>3, <3>2, <4>1
    <3> HIDE DEF l, m, n
    <3>8. /\ Append(l, r) \in Seq(Reqs) /\ Len(Append(l, r)) = n + 1
          /\ \A i \in 1..n : Append(l, r)[i] = l[i]
          /\ Append(l, r)[n + 1] = r
      BY <3>1, AppendProperties
    <3>9. \A i \in 1..n + 1 : m[i] = Append(l, r)[i]
      <4>1. \A i \in 1..n + 1 : i \in 1..n \/ i = n + 1
        BY <3>1
      <4>2. \A i \in 1..n : m[i] = l[i]
        <5>1. \A i \in 1..n : i \in 1..n + 1
          BY <3>1
        <5> QED
          BY <3>4, <3>7, <5>1 DEF l
      <4>3. m[n + 1] = r
        <5>1. n + 1 \in 1..n + 1
          BY <3>1
        <5> QED
          BY <3>5, <3>7, <5>1
      <4> QED
        BY <3>8, <4>1, <4>2, <4>3
    <3>10. m = Append(l, r)
      BY <3>7, <3>8, <3>9, SeqEqual
    <3> QED
      BY <3>10 DEF l, m
  <2>10. ~(\E i \in DOMAIN q[c] : q[c][i] = r)
    <3>1. q[c] = ListReqs(c)
      BY <2>2
    <3>2. DOMAIN ListReqs(c) = 1..Len(OnList(c)) /\ \A i \in 1..Len(OnList(c)) : ListReqs(c)[i] \in pending
      BY <2>2, QueueFacts
    <3> HIDE DEF q
    <3> QED
      BY <2>1, <3>1, <3>2
  <2>11. [b \in Buses |-> ListReqs(b)]' = [q EXCEPT ![c] = Append(@, r)]
    <3>1. [b \in Buses |-> ListReqs(b)]' = [b \in Buses |-> ListReqs(b)']
      OBVIOUS
    <3>2. \A b \in Buses : ListReqs(b)' = [q EXCEPT ![c] = Append(@, r)][b]
      BY <2>2, <2>8, <2>9
    <3> QED
      BY <3>1, <3>2
  <2>12. Queue!Submit(r)
    <3> HIDE DEF q
    <3> QED
      BY <2>2, <2>10, <2>11 DEF Queue!Submit, Queue!Pending, q
  <2> QED
    BY <2>12 DEF Queue!Next
<1> QED
  BY <1>1, <1>2

\* Taking the first object off its list is a Finish of the queue.
LEMMA FinishRefines ==
    ASSUME IInv, unlink_next
    PROVE  [Queue!Next]_(Queue!vars)
<1> DEFINE l == ListReqs(bus)
           s == OnList(bus)
           q == [b \in Buses |-> ListReqs(b)]
<1>1. kpc = "unlink1" /\ done' = io[dma_data] /\ io' = io /\ bus' = bus
  BY DEF unlink_next
<1>2. /\ bus \in Buses /\ s \in Seq(Slots) /\ Len(s) \in Nat /\ Len(s) > 0 /\ dma_data = s[1]
      /\ io[dma_data] \in Reqs /\ done = NULL
  BY <1>1, UnlinkFacts
<1>3. OnList(bus)' = Tail(s) /\ s # <<>> /\ \A b \in Buses : b # bus => OnList(b)' = OnList(b)
  BY UnlinkLists
<1>4. /\ l \in Seq(Reqs) /\ Len(l) = Len(s)
      /\ \A i \in 1..Len(s) : l[i] = io[s[i]] /\ l[i] \in Reqs
  BY <1>2, QueueFacts
<1>5. l # <<>> /\ l[1] = io[dma_data] /\ Head(l) = l[1]
  <2>1. 1 \in 1..Len(s)
    BY <1>2
  <2>2. l # <<>>
    BY <1>2, <1>4, EmptySeq
  <2>3. l[1] = io[dma_data]
    BY <1>2, <1>4, <2>1
  <2> HIDE DEF l
  <2>4. Head(l) = l[1]
    BY <1>4, <2>2, HeadTailProperties
  <2> QED
    BY <2>2, <2>3, <2>4
<1>6. ListReqs(bus)' = Tail(l)
  <2> DEFINE t == Tail(s)
             m == ReqsOf(t, io)
  <2>1. t \in Seq(Slots) /\ Len(t) = Len(s) - 1 /\ \A i \in 1..Len(s) - 1 : t[i] = s[i + 1]
    BY <1>2, <1>3, NodeTail
  <2>2. ListReqs(bus)' = m
    BY <1>1, <1>3 DEF ListReqs, ReqsOf
  <2> HIDE DEF s, l
  <2>3. \A i \in 1..Len(s) - 1 : i + 1 \in 1..Len(s)
    BY <1>2
  <2>4. \A i \in 1..Len(s) - 1 : io[t[i]] = l[i + 1] /\ io[t[i]] \in Reqs
    BY <1>4, <2>1, <2>3
  <2> HIDE DEF t
  <2>5. m \in Seq(Reqs) /\ Len(m) = Len(t) /\ \A i \in 1..Len(t) : m[i] = io[t[i]]
    BY <2>1, <2>4, ReqsOfSeq
  <2> HIDE DEF m
  <2>6. Tail(l) \in Seq(Reqs) /\ Len(Tail(l)) = Len(l) - 1 /\ \A i \in 1..Len(Tail(l)) : Tail(l)[i] = l[i + 1]
    BY <1>4, <1>5, HeadTailProperties
  <2>7. Len(m) = Len(Tail(l)) /\ \A i \in 1..Len(m) : m[i] = Tail(l)[i]
    BY <1>4, <2>1, <2>4, <2>5, <2>6
  <2>8. m = Tail(l)
    BY <2>5, <2>6, <2>7, SeqEqual
  <2> QED
    BY <2>2, <2>8
<1>7. \A b \in Buses : b # bus => ListReqs(b)' = ListReqs(b)
  BY <1>1, <1>3, QueueKept
<1>8. \A b \in Buses : b = bus => ListReqs(b)' = Tail(l)
  BY <1>1, <1>6
<1>9. [b \in Buses |-> ListReqs(b)]' = [q EXCEPT ![bus] = Tail(@)]
  <2>1. [b \in Buses |-> ListReqs(b)]' = [b \in Buses |-> ListReqs(b)']
    OBVIOUS
  <2>2. \A b \in Buses : ListReqs(b)' = [q EXCEPT ![bus] = Tail(@)][b]
    BY <1>2, <1>7, <1>8
  <2> QED
    BY <2>1, <2>2
<1>10. q[bus] = l
  BY <1>2
<1>11. io[dma_data] # NULL
  BY <1>2, ConstFacts
<1>12. Queue!Finish(bus)
  <2>1. (IF done' = NULL THEN {} ELSE {done'}) = (IF done = NULL THEN {} ELSE {done}) \cup {Head(l)}
    BY <1>1, <1>2, <1>5, <1>11
  <2> HIDE DEF l
  <2> QED
    BY <1>5, <1>9, <1>10, <2>1 DEF Queue!Finish
<1> QED
  BY <1>2, <1>12 DEF Queue!Next

\* The completion call is a Notify.
LEMMA NotifyRefines ==
    ASSUME IInv, complete_func
    PROVE  [Queue!Next]_(Queue!vars)
<1>1. done \in Reqs /\ done # NULL /\ done' = NULL /\ io' = io /\ next' = next
  <2>1. kpc = "call" /\ done' = NULL /\ io' = io /\ next' = next
    BY DEF complete_func, list
  <2> QED
    BY <2>1 DEF IInv, TypeOK, Polling, Finishing
<1>2. \A b \in Buses : OnList(b)' = OnList(b)
  BY <1>1 DEF OnList
<1>3. \A b \in Buses : ListReqs(b)' = ListReqs(b)
  BY <1>1, <1>2, QueueKept
<1>4. [b \in Buses |-> ListReqs(b)]' = [b \in Buses |-> ListReqs(b)]
  BY <1>3
<1>5. Queue!Notify(done)
  BY <1>1, <1>4 DEF Queue!Notify
<1> QED
  BY <1>1, <1>5 DEF Queue!Next

\* Every other step leaves the queues alone.
LEMMA QuietRefines ==
    ASSUME IInv, done' = done, \A b \in Buses : OnList(b)' = OnList(b),
           \A b \in Buses : \A i \in 1..Len(OnList(b)) : io'[OnList(b)[i]] = io[OnList(b)[i]]
    PROVE  [Queue!Next]_(Queue!vars)
<1>1. \A b \in Buses : ListReqs(b)' = ListReqs(b)
  BY QueueKept
<1>2. [b \in Buses |-> ListReqs(b)]' = [b \in Buses |-> ListReqs(b)]
  BY <1>1
<1> QED
  BY <1>2 DEF Queue!vars

\* Every step of the driver is a step of the queue or leaves it alone.
LEMMA StepRefines ==
    ASSUME IInv, [Next]_vars, ~raced'
    PROVE  [Queue!Next]_(Queue!vars)
<1>1. IInv'
  BY StepIInv
<1>2. ASSUME NEW r \in Reqs, submit(r) PROVE [Queue!Next]_(Queue!vars)
  <2>1. ide_dma_sectors(r) /\ done' = done /\ ~(check_drive(r) /\ BehindRemoved(r))
    BY <1>2 DEF submit, task
  <2>2. check_drive(r) => Safe(BusOf(r))
    BY <2>1 DEF Safe, BehindRemoved
  <2> QED
    BY <1>1, <2>1, <2>2, SubmitRefines
<1>3. ASSUME NEW r \in Reqs, sync_io_sectors(r) PROVE [Queue!Next]_(Queue!vars)
  <2>1. kpc = "idle" /\ ide_dma_sectors(r) /\ done' = done
    BY <1>3 DEF sync_io_sectors
  <2>2. Safe(BusOf(r))
    BY <2>1 DEF Safe
  <2> QED
    BY <1>1, <2>1, <2>2, SubmitRefines
<1>4. CASE unlink_next
  BY <1>4, FinishRefines
<1>5. CASE complete_func
  BY <1>5, NotifyRefines
<1>6. CASE free_io_data
  <2>1. /\ kpc = "free" /\ done' = done
        /\ next' = [next EXCEPT ![dma_data] = NULL] /\ io' = [io EXCEPT ![dma_data] = NULL]
    BY <1>6 DEF free_io_data
  <2>2. dma_data \in Slots /\ (\A b \in Buses : ~Listed(dma_data, b)) /\ Linked
    BY <2>1 DEF IInv, Polling, Removing, Taken
  <2>3. next \in [Nodes -> Nodes \cup {NULL}] /\ io \in [Slots -> Reqs \cup {NULL}]
    BY DEF IInv, TypeOK
  <2>4. \A b \in Buses : \A i : Node(OnList(b), b, i) \in Nodes /\ Node(OnList(b), b, i) # dma_data
    BY <2>2, ListFacts, ConstFacts DEF Node, Listed
  <2>5. next' \in Links
    BY <2>1, <2>3 DEF Links
  <2>6. \A b \in Buses : \A i \in 0..Len(OnList(b)) :
            next'[Node(OnList(b), b, i)] = next[Node(OnList(b), b, i)]
    BY <2>1, <2>3, <2>4
  <2>7. \A b \in Buses : OnList(b)' = OnList(b)
    BY <2>2, <2>5, <2>6, KeepLists
  <2>8. \A b \in Buses : \A i \in 1..Len(OnList(b)) : OnList(b)[i] \in Slots /\ OnList(b)[i] # dma_data
    BY <2>2, ListFacts DEF Listed
  <2>9. \A b \in Buses : \A i \in 1..Len(OnList(b)) : io'[OnList(b)[i]] = io[OnList(b)[i]]
    BY <2>1, <2>3, <2>8
  <2> QED
    BY <2>1, <2>7, <2>9, QuietRefines
<1>7. CASE UNCHANGED <<next, io, done>>
  <2>1. \A b \in Buses : OnList(b)' = OnList(b)
    BY <1>7 DEF OnList
  <2> QED
    BY <1>7, <2>1, QuietRefines
<1>8. \/ \E r \in Reqs : submit(r) \/ sync_io_sectors(r)
      \/ unlink_next \/ complete_func \/ free_io_data
      \/ UNCHANGED <<next, io, done>>
  BY DEF Next, ktask, vars, list, task, transfer, transfer_fails, task_function, check_list,
     check_error, check_done, load_next, unlink_prev, start_next, sync_wait, scheduler
<1> QED
  BY <1>2, <1>3, <1>4, <1>5, <1>6, <1>7, <1>8

\* The linked lists and the code that polls them implement the queues that the
\* block cache is written against.
THEOREM QueueIsImplemented == Spec => ImplementsQueue
<1>1. ASSUME Init PROVE Queue!Init
  <2>1. IInv /\ done = NULL
    BY <1>1, InitIInv DEF Init
  <2>2. ASSUME NEW b \in Buses PROVE ListReqs(b) = <<>>
    <3>1. next \in Links
      BY <2>1 DEF IInv, TypeOK, Links
    <3>2. b \in Nodes /\ next[b] = b
      BY <1>1, ConstFacts DEF Init
    <3>3. IsChain(next, <<>>, b)
      BY <3>2 DEF IsChain, Node
    <3>4. OnList(b) = <<>>
      BY <3>1, <3>3, ChainIsList DEF OnList
    <3>5. ListReqs(b) \in Seq(Reqs) /\ Len(ListReqs(b)) = Len(OnList(b))
      BY <2>1, QueueFacts
    <3>6. Len(ListReqs(b)) = 0
      BY <3>4, <3>5
    <3> QED
      BY <3>5, <3>6, EmptySeq
  <2>3. [b \in Buses |-> ListReqs(b)] = [b \in Buses |-> <<>>]
    BY <2>2
  <2> QED
    BY <2>1, <2>3 DEF Queue!Init
<1>2. Guarded /\ [Next]_vars => [raced' \/ Queue!Next]_(Queue!vars)
  BY RacedStays, StepRefines DEF Guarded
<1> QED
  BY <1>1, <1>2, Invariance, PTL DEF Spec, ImplementsQueue
=============================================================================
