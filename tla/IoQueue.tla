------------------------------ MODULE IoQueue ------------------------------
(***************************************************************************)
(* What the block cache relies on below it (kernel/ide.h): each bus serves *)
(* the requests given to it one at a time, in the order they were given,   *)
(* and calls the completion function of each exactly once.                 *)
(***************************************************************************)
EXTENDS Sequences

CONSTANTS Reqs, Buses, BusOf(_)

VARIABLES
    q,          \* for each bus, the requests waiting or being transferred
    calling     \* requests taken off the queue, completion not yet called

vars == <<q, calling>>

Init == q = [b \in Buses |-> <<>>] /\ calling = {}

Pending(r) == r \in calling \/ \E i \in DOMAIN q[BusOf(r)] : q[BusOf(r)][i] = r

Submit(r) ==
    /\ ~Pending(r)
    /\ q' = [q EXCEPT ![BusOf(r)] = Append(@, r)]
    /\ UNCHANGED calling

Finish(b) ==
    /\ q[b] # <<>>
    /\ q' = [q EXCEPT ![b] = Tail(@)]
    /\ calling' = calling \cup {Head(q[b])}

Notify(r) ==
    /\ r \in calling
    /\ calling' = calling \ {r}
    /\ UNCHANGED q

Next == (\E r \in Reqs : Submit(r) \/ Notify(r)) \/ (\E b \in Buses : Finish(b))

Spec == Init /\ [][Next]_vars
=============================================================================
