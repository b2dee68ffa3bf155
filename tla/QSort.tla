------------------------------- MODULE QSort -------------------------------
(***************************************************************************)
(* lib/qsort.c: a quicksort that partitions in place around its first      *)
(* element, in three parts, and sorts short arrays by insertion.  Arrays   *)
(* are sequences; i, l and g keep their values, which count from 0.        *)
(***************************************************************************)
EXTENDS Integers, SequencesExt

CONSTANT INSERT_SORT_MAX     \* arrays up to this length are not partitioned, 10 in the code

\* compare[x][y] is below, at or above 0.

swap(s, i, j) == [s EXCEPT ![i + 1] = s[j + 1], ![j + 1] = s[i + 1]]

\* Element x moves down past those of a that are greater.
insert(a, x, compare) ==
    LET j == Max({0} \cup {k \in DOMAIN a : compare[x][a[k]] >= 0})
    IN SubSeq(a, 1, j) \o <<x>> \o SubSeq(a, j + 1, Len(a))

insert_sort(s, compare) ==
    LET sorted[k \in 0..Len(s)] == IF k = 0 THEN <<>> ELSE insert(sorted[k - 1], s[k], compare)
    IN sorted[Len(s)]

\* An element equal to the pivot that is counted and not moved (mutant).
partition_step_no_swap(p, pivot, compare) ==
    LET result == compare[p.a[p.i + 1]][pivot] IN
    CASE result < 0 -> [p EXCEPT !.a = swap(p.a, p.l, p.i), !.l = p.l + 1]
      [] result = 0 -> [p EXCEPT !.g = p.g + 1, !.i = p.i + 1]
      [] OTHER      -> [p EXCEPT !.i = p.i + 1]

\* One round of the loop.  A smaller element changes places with the first of
\* those equal to the pivot, which the next round finds at i.
partition_step(p, pivot, compare) ==
    LET result == compare[p.a[p.i + 1]][pivot] IN
    CASE result < 0 -> [p EXCEPT !.a = swap(p.a, p.l, p.i), !.l = p.l + 1]
      [] result = 0 -> [p EXCEPT !.a = swap(p.a, p.g, p.i), !.g = p.g + 1, !.i = p.i + 1]
      [] OTHER      -> [p EXCEPT !.i = p.i + 1]

\* [0, l) < pivot, [l, g) == pivot, [g, n) > pivot.  Each round moves i or l
\* on by one, so 2n of them are enough for i to come to n, which ends the loop.
partition(s, compare) ==
    LET n == Len(s)
        round[k \in 0..2 * n] ==
            IF k = 0 THEN [a |-> s, i |-> 1, l |-> 0, g |-> 1]
            ELSE LET p == round[k - 1] IN IF p.i = n THEN p ELSE partition_step(p, s[1], compare)
    IN round[2 * n]

qsort(base, compare) ==
    LET sort[s \in Seq(Range(base))] ==
            IF Len(s) <= INSERT_SORT_MAX THEN insert_sort(s, compare)
            ELSE LET p == partition(s, compare)
                 IN sort[SubSeq(p.a, 1, p.l)] \o SubSeq(p.a, p.l + 1, p.g)
                       \o sort[SubSeq(p.a, p.g + 1, Len(s))]
    IN sort[base]
=============================================================================
