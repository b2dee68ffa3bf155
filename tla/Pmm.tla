-------------------------------- MODULE Pmm --------------------------------
(***************************************************************************)
(* The physical page allocator of mm/pmm.c: a binary buddy allocator whose *)
(* only record of what is free is the free lists and one two-field header  *)
(* per page.  The headers of the pages inside a block are never cleaned:   *)
(* pmm_free_pages tells whether a buddy is free by reading a header that   *)
(* may be left over from an earlier block.                                 *)
(*                                                                         *)
(* The allocator runs with interrupts off, so each call is one action.     *)
(* Which block heads a free list is left open: an area is a set of blocks. *)
(***************************************************************************)
EXTENDS Integers, Sequences, SequencesExt, QSort

CONSTANTS
    BUDDY_MAX_ORDER,    \* 11 in the code
    PAGE_SIZE,          \* 4096 in the code
    Entries,            \* the memory map of the BIOS, regions [base, length, usable]
    BootEnd,            \* page after the boot information (lock_boot_pages)
    StackEnd,           \* page after the kernel stack (lock_kernel_stack)
    KernelStart, KernelEnd      \* pages of the kernel (lock_kernel_pages)

ASSUME OrderAssumption == BUDDY_MAX_ORDER \in Nat \ {0}
ASSUME SizeAssumption == PAGE_SIZE \in Nat \ {0} /\ INSERT_SORT_MAX \in Nat \ {0}
\* The BIOS gives regions that do not overlap, in any order, and calls no empty
\* one usable (get_max_physical_address would take the end of such a region).
ASSUME EntriesAssumption ==
    /\ IsFiniteSet(Entries)
    /\ Entries \subseteq [base : Nat, length : Nat, usable : BOOLEAN]
    /\ \A e \in Entries : e.usable => e.length > 0
    /\ \A e, f \in Entries :
         e # f => e.base + e.length <= f.base \/ f.base + f.length <= e.base

ASSUME LockAssumption == {BootEnd, StackEnd, KernelStart, KernelEnd} \subseteq Nat

Orders == 0..BUDDY_MAX_ORDER - 1
USED == "USED"
LOCK == "LOCK"

\* ALIGN_PAGE rounding down (mutant).
ALIGN_PAGE_down(a) == (a \div PAGE_SIZE) * PAGE_SIZE

ALIGN_PAGE(a) == ((a + PAGE_SIZE - 1) \div PAGE_SIZE) * PAGE_SIZE

VARIABLES
    mmap,               \* the memory map, sorted by qsort
    flags, order,       \* pages[]: the header of each page
    free_area,          \* for each order, the blocks on its free list
    num_blocks,         \* for each order, the length counted by the code
    num_pages,          \* the free pages counted by the code
    entry, start,       \* locals of init_free_pages, entry 0 when it is done
    owned,              \* blocks <<page, order>> that callers have
    ret                 \* what the last pmm_alloc_pages returned

headers == <<flags, order>>
areas == <<free_area, num_blocks, num_pages>>
scan == <<entry, start>>
vars == <<mmap, headers, areas, scan, owned, ret>>

mmap_entry_compare ==
    [l \in Entries |-> [r \in Entries |->
        IF l.base < r.base THEN -1 ELSE IF l.base = r.base THEN 0 ELSE 1]]

\* get_max_physical_address and calculate_total_pages: the end of the last
\* usable entry, wherever it stands in the map.
total_pages ==
    LET usable == {i \in DOMAIN mmap : mmap[i].usable}
    IN IF usable = {} THEN 0
       ELSE (mmap[Max(usable)].base + mmap[Max(usable)].length) \div PAGE_SIZE

Pages == 0..total_pages - 1

Locked == {p \in Pages : p < BootEnd \/ p < StackEnd \/ p \in KernelStart..KernelEnd - 1}

\* pmm_initialize up to init_free_pages: the map is sorted; by init_pages_data,
\* init_free_blocks and the lock functions every page is used, some are also
\* locked, every list is empty.
Init ==
    /\ \E entries \in SetToSeqs(Entries) : mmap = qsort(entries, mmap_entry_compare)
    /\ flags = [p \in Pages |-> IF p \in Locked THEN {USED, LOCK} ELSE {USED}]
    /\ order = [p \in Pages |-> 0]
    /\ free_area = [o \in Orders |-> {}]
    /\ num_blocks = [o \in Orders |-> 0]
    /\ num_pages = 0
    /\ entry = IF mmap = <<>> THEN 0 ELSE 1
    /\ start = IF mmap = <<>> THEN 0 ELSE ALIGN_PAGE(mmap[1].base)
    /\ owned = {}
    /\ ret = 0

-----------------------------------------------------------------------------
(* Freeing.                                                                *)

\* get_buddy choosing the side by the block's own size (mutant).
get_buddy_same_order(b, o) ==
    LET buddy == IF b % 2^o = 0 THEN b + 2^o ELSE b - 2^o
    IN IF o + 1 < BUDDY_MAX_ORDER THEN {buddy} \cap Pages ELSE {}

\* The buddy of block b of order o, as a set: empty for the largest order and
\* outside of memory.
get_buddy(b, o) ==
    LET buddy == IF b % 2^(o + 1) = 0 THEN b + 2^o ELSE b - 2^o
    IN IF o + 1 < BUDDY_MAX_ORDER THEN {buddy} \cap Pages ELSE {}

\* The header of the buddy says it is the start of a free block of order o.
buddy_is_free(b, o) == \E d \in get_buddy(b, o) : flags[d] = {} /\ order[d] = o

\* merge_buddy keeps the lower of the two, so after merging through order
\* o - 1 the block that holds page p starts at:
merged(p, o) == (p \div 2^o) * 2^o

\* The order at which the loop of pmm_free_pages stops merging, never merging
\* (mutant).
final_order_no_merge(p, o) == o

\* The order at which the loop of pmm_free_pages stops merging.
final_order(p, o) ==
    CHOOSE m \in o..BUDDY_MAX_ORDER - 1 :
        /\ \A j \in o..m - 1 : buddy_is_free(merged(p, j), j)
        /\ m < BUDDY_MAX_ORDER - 1 => ~buddy_is_free(merged(p, m), m)

\* pmm_free_pages: buddies that are free leave their areas (split_block_from_
\* area), the merged block enters its own (insert_block_into_area).
free_block(p, o) ==
    LET m == final_order(p, o)
        b == merged(p, m)
        taken(j) == IF j \in o..m - 1 THEN get_buddy(merged(p, j), j) ELSE {}
        put(j) == IF j = m THEN {b} ELSE {}
    IN  /\ flags' = [flags EXCEPT ![p] = {}, ![b] = {}]
        /\ order' = [order EXCEPT ![b] = m]
        /\ free_area' = [j \in Orders |-> (free_area[j] \ taken(j)) \cup put(j)]
        /\ num_blocks' = [j \in Orders |->
               num_blocks[j] + (IF j = m THEN 1 ELSE 0) - (IF j \in o..m - 1 THEN 1 ELSE 0)]
        /\ num_pages' = num_pages + 2^o

\* The caller gives back what it has; giving back 0 does nothing.
pmm_free_pages(p, o) ==
    /\ entry = 0
    /\ <<p, o>> \in owned
    /\ free_block(p, o)
    /\ owned' = owned \ {<<p, o>>}
    /\ UNCHANGED <<mmap, scan, ret>>

-----------------------------------------------------------------------------
(* Booting: init_free_pages frees the pages of usable entries one by one.  *)

\* The loop condition: the page lies in the entry as a whole.
in_entry == start + PAGE_SIZE <= mmap[entry].base + mmap[entry].length

init_free_page ==
    LET p == start \div PAGE_SIZE IN
    /\ entry # 0
    /\ mmap[entry].usable /\ in_entry
    /\ IF LOCK \in flags[p] \/ p = 0 THEN UNCHANGED <<headers, areas>> ELSE free_block(p, 0)
    /\ start' = start + PAGE_SIZE
    /\ UNCHANGED <<mmap, entry, owned, ret>>

init_next_entry ==
    /\ entry # 0
    /\ mmap[entry].usable => ~in_entry
    /\ IF entry < Len(mmap)
       THEN entry' = entry + 1 /\ start' = ALIGN_PAGE(mmap[entry + 1].base)
       ELSE entry' = 0 /\ start' = 0
    /\ UNCHANGED <<mmap, headers, areas, owned, ret>>

-----------------------------------------------------------------------------
(* Allocating.                                                             *)

\* alloc_block: block b of order c leaves its area and is split down to order
\* o, the upper half going to the area below each time.
alloc_block(b, c, o) ==
    LET halves(j) == IF j \in o..c - 1 THEN {b + 2^j} ELSE {}
        half(p) == {j \in o..c - 1 : p = b + 2^j}
    IN  /\ free_area' = [j \in Orders |->
               (IF j = c THEN free_area[j] \ {b} ELSE free_area[j]) \cup halves(j)]
        /\ num_blocks' = [j \in Orders |->
               num_blocks[j] + (IF j \in o..c - 1 THEN 1 ELSE 0) - (IF j = c THEN 1 ELSE 0)]
        /\ flags' = [p \in Pages |->
               IF p = b THEN {USED} ELSE IF half(p) # {} THEN {} ELSE flags[p]]
        /\ order' = [p \in Pages |->
               IF p = b THEN o ELSE IF half(p) # {} THEN Max(half(p)) ELSE order[p]]

\* Looking for a block of the very order only (mutant).
check_orders_exact(o) == {c \in {o} : num_blocks[c] > 0}

\* The orders pmm_alloc_pages can split a block of; it takes the first.
check_orders(o) == {c \in o..BUDDY_MAX_ORDER - 1 : num_blocks[c] > 0}

\* pmm_alloc_pages counting one page whatever the order (mutant).
pmm_alloc_pages_uncounted(o) ==
    /\ entry = 0
    /\ check_orders(o) # {}
    /\ \E b \in free_area[Min(check_orders(o))] :
         /\ alloc_block(b, Min(check_orders(o)), o)
         /\ owned' = owned \cup {<<b, o>>}
         /\ ret' = b
    /\ num_pages' = num_pages - 1
    /\ UNCHANGED <<mmap, scan>>

\* pmm_alloc_pages with a block to give.
pmm_alloc_pages(o) ==
    /\ entry = 0
    /\ check_orders(o) # {}
    /\ \E b \in free_area[Min(check_orders(o))] :
         /\ alloc_block(b, Min(check_orders(o)), o)
         /\ owned' = owned \cup {<<b, o>>}
         /\ ret' = b
    /\ num_pages' = num_pages - 2^o
    /\ UNCHANGED <<mmap, scan>>

\* pmm_alloc_pages without one.
pmm_alloc_pages_fail(o) ==
    /\ entry = 0
    /\ check_orders(o) = {}
    /\ ret' = 0
    /\ UNCHANGED <<mmap, headers, areas, scan, owned>>

Next ==
    \/ init_free_page \/ init_next_entry
    \/ \E o \in Orders : pmm_alloc_pages(o) \/ pmm_alloc_pages_fail(o)
    \/ \E b \in owned : pmm_free_pages(b[1], b[2])

Spec == Init /\ [][Next]_vars

-----------------------------------------------------------------------------
(* Properties.                                                             *)

Block(p, o) == p..p + 2^o - 1

Free == UNION {{<<p, o>> : p \in free_area[o]} : o \in Orders}
PagesOf(blocks) == UNION {Block(b[1], b[2]) : b \in blocks}

TypeOK ==
    /\ mmap \in Seq(Entries)
    /\ flags \in [Pages -> SUBSET {USED, LOCK}] /\ order \in [Pages -> Orders]
    /\ free_area \in [Orders -> SUBSET Pages]
    /\ num_blocks \in [Orders -> Nat] /\ num_pages \in Nat
    /\ entry \in 0..Len(mmap) /\ start \in Nat
    /\ owned \subseteq Pages \X Orders /\ ret \in Pages \cup {0}

\* The pages that lie as a whole in a usable region and are not locked.
PagesIn(e) == {p \in e.base \div PAGE_SIZE..(e.base + e.length) \div PAGE_SIZE - 1 :
                   e.base <= p * PAGE_SIZE}
Memory ==
    (UNION {PagesIn(e) : e \in {f \in Entries : f.usable}})
        \ ({0} \cup 0..BootEnd - 1 \cup 0..StackEnd - 1 \cup KernelStart..KernelEnd - 1)

\* "Require memory map entries have been sorted" (pmm.c:112), whatever order the
\* BIOS gave them in: qsort loses no region and puts none before a lower one.
MmapSorted ==
    /\ Len(mmap) = Cardinality(Entries) /\ Range(mmap) = Entries
    /\ \A i, j \in DOMAIN mmap : i < j => mmap[i].base <= mmap[j].base

\* No page is in two blocks, free or given to a caller: a stale header never
\* makes pmm_free_pages merge with pages somebody uses.
NoOverlap ==
    \A b, c \in Free \cup owned :
        b # c => Block(b[1], b[2]) \cap Block(c[1], c[2]) = {}

\* Once booted, the blocks are exactly the memory: locked, reserved and partial
\* pages are never handed out, and no page is ever lost.
MemoryConserved == entry = 0 => PagesOf(Free \cup owned) = Memory

\* Two free buddies never stay apart: freeing in any order restores the blocks.
Coalesced ==
    \A o \in Orders : \A b \in free_area[o] :
        o + 1 < BUDDY_MAX_ORDER => get_buddy(b, o) \cap free_area[o] = {}

\* num_blocks, which alone decides where to look for a block, and num_pages
\* agree with the lists.
CountsAgree ==
    /\ \A o \in Orders : num_blocks[o] = Cardinality(free_area[o])
    /\ num_pages = Cardinality(PagesOf(Free))

\* pmm.h:48: pmm_alloc_pages hands out any aligned run of free pages and
\* returns 0 only when there is none of the size asked for.
Promise == INSTANCE PageAlloc WITH
              MaxOrder <- BUDDY_MAX_ORDER, freePages <- PagesOf(Free)
ImplementsPageAlloc == Promise!Spec
=============================================================================
