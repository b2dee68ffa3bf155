------------------------------- MODULE MCPmm -------------------------------
(* An instance of Pmm for TLC.  Pages are 4 bytes; the allocator gets page  *)
(* 2 (0 and 1 are locked, 3 ends outside of its region) and 8 to 16         *)
(* (7 begins before its region, 17 ends after it), so that there is a block *)
(* of the largest order and page 16 has its buddy outside of memory.  The   *)
(* map has enough regions, one of them empty and at the base of another,    *)
(* for qsort to partition twice.                                            *)
EXTENDS Pmm

MCEntries ==
    {[base |-> 0, length |-> 14, usable |-> TRUE], [base |-> 14, length |-> 0, usable |-> FALSE],
     [base |-> 14, length |-> 16, usable |-> FALSE], [base |-> 31, length |-> 39, usable |-> TRUE],
     [base |-> 70, length |-> 6, usable |-> FALSE]}
=============================================================================
