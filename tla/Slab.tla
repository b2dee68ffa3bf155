-------------------------------- MODULE Slab --------------------------------
(***************************************************************************)
(* One cache of mm/slab.c, as a value: the pages on its three lists, the    *)
(* head of a list first, and of every page avail and the array free, of     *)
(* which only the first avail elements mean anything.  An object is a page  *)
(* and its index in the page.                                               *)
(***************************************************************************)
EXTENDS Naturals, SequencesExt

CONSTANT Limit      \* slab->limit, the objects of a page

ASSUME LimitAssumption == Limit \in Nat \ {0}

\* The function f with x mapped to v.
Extend(f, x, v) == [y \in DOMAIN f \cup {x} |-> IF y = x THEN v ELSE f[y]]

\* slab_create_kmem_cache
EmptyCache == [full_slab |-> <<>>, partial_slab |-> <<>>, free_slab |-> <<>>,
               free |-> <<>>, avail |-> <<>>]

\* slab_list_remove, from whichever list the page is on.
slab_list_remove(cache, page) ==
    [cache EXCEPT !.full_slab = RemoveFirst(@, page), !.partial_slab = RemoveFirst(@, page),
                  !.free_slab = RemoveFirst(@, page)]

\* alloc_slab_page with the page it got, and init_slab_page.
init_slab_page(cache, page) ==
    [cache EXCEPT !.free_slab = <<page>> \o @,
                  !.free = Extend(@, page, [i \in 1..Limit |-> i]),
                  !.avail = Extend(@, page, Limit)]

\* alloc_object finds no page on the partial and the free list.
needs_page(cache) == cache.partial_slab = <<>> /\ cache.free_slab = <<>>

\* The page alloc_object takes from, and the object it returns.
slab_list_first(cache) ==
    IF cache.partial_slab # <<>> THEN Head(cache.partial_slab) ELSE Head(cache.free_slab)
next_object(cache) ==
    LET page == slab_list_first(cache) IN <<page, cache.free[page][cache.avail[page]]>>

\* alloc_object_from_slab stops the kernel: the page has no object.
slab_is_full(cache) == cache.avail[slab_list_first(cache)] = 0

\* alloc_object and alloc_object_from_slab
alloc_object(cache) ==
    LET page == slab_list_first(cache)
        c == [cache EXCEPT !.avail[page] = @ - 1]
        avail == c.avail[page]
        moved == slab_list_remove(c, page)
    IN  CASE avail = 0 -> [moved EXCEPT !.full_slab = <<page>> \o @]
          [] avail # 0 /\ avail + 1 = Limit -> [moved EXCEPT !.partial_slab = <<page>> \o @]
          [] OTHER -> c

\* free_object in two halves.  slab->free[slab->avail++] = object, for the value
\* of avail that was loaded:
free_store(cache, object, avail) ==
    [cache EXCEPT !.free[object[1]][avail + 1] = object[2], !.avail[object[1]] = avail + 1]

\* The second half leaving a page with nothing in use where it is (mutant).
free_move_stays_partial(cache, page, avail) ==
    LET moved == slab_list_remove(cache, page)
    IN  IF avail = 1 THEN [moved EXCEPT !.partial_slab = <<page>> \o @] ELSE cache

\* and the move to the list that the new value asks for.
free_move(cache, page, avail) ==
    LET moved == slab_list_remove(cache, page)
    IN  CASE avail = 1 /\ avail < Limit -> [moved EXCEPT !.partial_slab = <<page>> \o @]
          [] avail = Limit -> [moved EXCEPT !.free_slab = <<page>> \o @]
          [] OTHER -> cache

free_object(cache, object) ==
    LET avail == cache.avail[object[1]]
    IN free_move(free_store(cache, object, avail), object[1], avail + 1)

-----------------------------------------------------------------------------

PagesOf(cache) == DOMAIN cache.free
Available(cache, page) == {cache.free[page][i] : i \in 1..cache.avail[page]}

CacheOK(cache) ==
    /\ \A page \in PagesOf(cache) :
        /\ cache.avail[page] \in 0..Limit
        /\ \A i \in 1..Limit : cache.free[page][i] \in 1..Limit
    /\ \A list \in {cache.full_slab, cache.partial_slab, cache.free_slab} :
        ToSet(list) \subseteq PagesOf(cache)

\* The objects in use, and nothing else, are missing from the free arrays, which
\* hold no object twice; and every page is on one list, the one that the number
\* of its free objects asks for.
CacheExact(cache, inUse) ==
    LET lists == cache.full_slab \o cache.partial_slab \o cache.free_slab
    IN  /\ IsInjective(lists) /\ ToSet(lists) = PagesOf(cache)
        /\ ToSet(cache.full_slab) = {page \in PagesOf(cache) : cache.avail[page] = 0}
        /\ ToSet(cache.free_slab) = {page \in PagesOf(cache) : cache.avail[page] = Limit}
        /\ \A page \in PagesOf(cache) :
            /\ Cardinality(Available(cache, page)) = cache.avail[page]
            /\ Available(cache, page) = {i \in 1..Limit : <<page, i>> \notin inUse}
=============================================================================
