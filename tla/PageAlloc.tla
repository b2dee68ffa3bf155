----------------------------- MODULE PageAlloc -----------------------------
(***************************************************************************)
(* What mm/pmm.h promises: pmm_alloc_pages hands out 2^order pages that    *)
(* nobody has, starting at a multiple of 2^order, and returns 0 only when  *)
(* there are none; pmm_free_pages takes them back.                         *)
(***************************************************************************)
EXTENDS Integers

CONSTANTS MaxOrder, Memory      \* Memory: the pages the allocator may hand out

VARIABLES
    freePages,      \* pages that nobody has
    owned,          \* blocks <<start page, order>> that callers have
    ret             \* what the last pmm_alloc_pages returned

vars == <<freePages, owned, ret>>

Block(p, o) == p..p + 2^o - 1

Init == freePages = {} /\ owned = {} /\ ret = 0

\* During boot the allocator is given its pages, one at a time.
Give(p) ==
    /\ p \notin freePages
    /\ freePages' = freePages \cup {p}
    /\ UNCHANGED <<owned, ret>>

Available(o) == {p \in freePages : p % 2^o = 0 /\ Block(p, o) \subseteq freePages}

Alloc(o) ==
    \/ \E p \in Available(o) :
         /\ freePages' = freePages \ Block(p, o)
         /\ owned' = owned \cup {<<p, o>>}
         /\ ret' = p
    \/ /\ Available(o) = {}
       /\ ret' = 0
       /\ UNCHANGED <<freePages, owned>>

Free(p, o) ==
    /\ <<p, o>> \in owned
    /\ freePages' = freePages \cup Block(p, o)
    /\ owned' = owned \ {<<p, o>>}
    /\ UNCHANGED ret

Next == \/ \E p \in Memory : Give(p)
        \/ \E o \in 0..MaxOrder - 1 : Alloc(o)
        \/ \E b \in owned : Free(b[1], b[2])

Spec == Init /\ [][Next]_vars
=============================================================================
