----------------------------- MODULE MCProcMem -----------------------------
(* An instance of ProcMem for TLC: pages of 4 bytes, 2 of them per table.  *)
EXTENDS ProcMem

Ph(load, vaddr, memsz, filesz, offset) ==
    [load |-> load, vaddr |-> vaddr, memsz |-> memsz, filesz |-> filesz, offset |-> offset]

Elf(pht) == [header |-> TRUE, size |-> 20, pht |-> pht]

\* A segment that crosses a page boundary and an entry of another type; an empty
\* segment before one in the table of the user stack; a segment where the user
\* stack goes; a damaged header; segments outside of the file and too large.
MCPrograms ==
    {Elf(<<Ph(TRUE, 2, 4, 3, 4), Ph(FALSE, 0, 4, 4, 4)>>),
     Elf(<<Ph(TRUE, 0, 0, 0, 4), Ph(TRUE, 8, 4, 0, 4)>>),
     Elf(<<Ph(TRUE, 8, 8, 8, 4)>>),
     [Elf(<<>>) EXCEPT !.header = FALSE],
     Elf(<<Ph(TRUE, 0, 4, 4, 4), Ph(TRUE, 4, 4, 4, 18)>>),
     Elf(<<Ph(TRUE, 0, 4, 8, 4)>>)}
=============================================================================
