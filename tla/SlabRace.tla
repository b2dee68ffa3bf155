----------------------------- MODULE SlabRace -----------------------------
(***************************************************************************)
(* io_data_cache of kernel/ide.c, the one slab cache that two actors use    *)
(* with no lock.  A system call takes a struct dma_io_data for its request, *)
(* with interrupts off and therefore in one step.  The kernel task gives    *)
(* the object of a finished request back with interrupts on: a timer tick   *)
(* can put a system call between any two of its accesses to the slab page.  *)
(* The accesses are free_object's load of avail, its stores, and the move   *)
(* to another list; ticks inside of the move would add more behaviours.     *)
(***************************************************************************)
EXTENDS Slab

CONSTANT Pages      \* what pmm_alloc_page can give

VARIABLES
    io_data_cache,
    pending,        \* objects of requests, oldest first (one bus)
    kpc,            \* where the kernel task is, "idle" outside of slab_free
    object,         \* what it frees, <<>> outside of slab_free
    avail,          \* slab->avail in a register
    panic

vars == <<io_data_cache, pending, kpc, object, avail, panic>>

Init ==
    /\ io_data_cache = EmptyCache
    /\ pending = <<>>
    /\ kpc = "idle" /\ object = <<>> /\ avail = 0
    /\ panic = FALSE

Unused == Pages \ PagesOf(io_data_cache)

\* dma_io_sectors: slab_alloc.  Without a page, or with a page on the wrong
\* list, it does not return.
slab_alloc ==
    /\ ~panic
    /\ \E cache \in IF needs_page(io_data_cache)
                    THEN {init_slab_page(io_data_cache, page) : page \in Unused}
                    ELSE {io_data_cache} :
         /\ ~slab_is_full(cache)
         /\ io_data_cache' = alloc_object(cache)
         /\ pending' = Append(pending, next_object(cache))
    /\ UNCHANGED <<kpc, object, avail, panic>>

slab_alloc_panic ==
    /\ ~panic
    /\ IF needs_page(io_data_cache) THEN Unused = {} ELSE slab_is_full(io_data_cache)
    /\ panic' = TRUE
    /\ UNCHANGED <<io_data_cache, pending, kpc, object, avail>>

\* complete_io_operation: the first request is over and off the list; slab_free
\* loads slab->avail.
slab_free ==
    /\ ~panic /\ kpc = "idle" /\ pending # <<>>
    /\ object' = Head(pending)
    /\ pending' = Tail(pending)
    /\ avail' = io_data_cache.avail[Head(pending)[1]]
    /\ kpc' = "store"
    /\ UNCHANGED <<io_data_cache, panic>>

\* (A store past the end of the array is left out.)
slab_free_store ==
    /\ ~panic /\ kpc = "store"
    /\ avail < Limit
    /\ io_data_cache' = free_store(io_data_cache, object, avail)
    /\ avail' = avail + 1
    /\ kpc' = "move"
    /\ UNCHANGED <<pending, object, panic>>

\* The tests may use the register or load slab->avail again.
slab_free_move ==
    /\ ~panic /\ kpc = "move"
    /\ \E a \in {avail, io_data_cache.avail[object[1]]} :
         io_data_cache' = free_move(io_data_cache, object[1], a)
    /\ kpc' = "idle" /\ object' = <<>> /\ avail' = 0
    /\ UNCHANGED <<pending, panic>>

Next == \/ slab_alloc \/ slab_alloc_panic
        \/ slab_free \/ slab_free_store \/ slab_free_move
        \/ panic /\ UNCHANGED vars

Spec == Init /\ [][Next]_vars

-----------------------------------------------------------------------------

InUse(page) == {i \in DOMAIN pending : pending[i][1] = page}

\* What slab.c:33-35 says of the three lists, whenever the kernel task is not
\* inside of slab_free: "No available object in this list", "Some available
\* objects in this list", "All objects are available in this list".
ListsTell ==
    kpc = "idle" =>
        /\ \A page \in ToSet(io_data_cache.full_slab) : Cardinality(InUse(page)) = Limit
        /\ \A page \in ToSet(io_data_cache.partial_slab) : Cardinality(InUse(page)) \in 1..Limit - 1
        /\ \A page \in ToSet(io_data_cache.free_slab) : InUse(page) = {}
=============================================================================
