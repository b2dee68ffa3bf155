------------------------------- MODULE ProcMem -------------------------------
(***************************************************************************)
(* The memory of processes: kernel/process.c, mm/vmm.c and kernel/elf.c on  *)
(* the process cache of mm/slab.c, with pmm_alloc_page running dry at any   *)
(* point.                                                                   *)
(*                                                                         *)
(* Processes are made and released by test_exec and by the scheduler, which *)
(* nothing interrupts, so one job at a time is under way.  A step of it is  *)
(* one page mapped or copied, with what the code does before it needs       *)
(* another one.  A virtual address is a page number; page 0 is NULL.        *)
(***************************************************************************)
EXTENDS Integers, FiniteSetsExt, Slab

CONSTANTS
    MemoryPages,        \* how many pages pmm has
    TakenPages,         \* how many of them the rest of the kernel may have at first
    OtherPages,         \* bound on the pages it has after other slab caches took more
    PROC_MAX_NUM,       \* 1024 in the code
    PAGE_SIZE,
    NUM_PTE,            \* 1024 in the code
    USER_PDES,          \* KERNEL_BASE / (NUM_PTE * PAGE_SIZE)
    STACK_GAP,          \* 16 in the code
    Programs            \* ELF files: [header, size, pht]

ASSUME LayoutAssumption ==
    /\ MemoryPages \in Nat /\ TakenPages \subseteq 0..MemoryPages
    /\ PAGE_SIZE \in Nat \ {0} /\ NUM_PTE \in Nat \ {0}
    /\ STACK_GAP \in 0..NUM_PTE - 1 /\ USER_PDES \in Nat /\ USER_PDES > 1

\* Programs are linked for the addresses below KERNEL_BASE; the loader does not
\* look.
Segment ==
    {ph \in [load : BOOLEAN, vaddr : Nat, memsz : Nat, filesz : Nat, offset : Nat] :
        ph.load => ph.vaddr + ph.memsz <= USER_PDES * NUM_PTE * PAGE_SIZE}

ASSUME ProgramsAssumption == \A p \in Programs : p.pht \in Seq(Segment)

Memory == 1..MemoryPages
PROC_KERNEL_STACK == USER_PDES * NUM_PTE - STACK_GAP
PROC_USER_STACK == USER_PDES * NUM_PTE - NUM_PTE
VMM_PDE_INDEX(vaddr) == vaddr \div NUM_PTE

VARIABLES
    free,       \* the pages pmm can hand out
    other,      \* pages of the rest of the kernel, the kernel task's stack too
    proc_cache,
    proc,       \* process objects in use:
                \* [state, page_dir, tabs, pages, mem_pages]
    ktask,      \* the kernel task's object
    job,        \* the process being made: [stage, proc, parent, pht, todo, program]
    panic       \* why the kernel stopped

vars == <<free, other, proc_cache, proc, ktask, job, panic>>

NoJob == [stage |-> "none", proc |-> <<>>, parent |-> <<>>, pht |-> <<>>, todo |-> <<>>,
          program |-> <<>>]

\* No process is being made; the program stays the one there is.
JobDone == [NoJob EXCEPT !.program = job.program]

Init ==
    /\ \E n \in TakenPages : other = 1..n /\ free = Memory \ (1..n)
    /\ proc_cache = EmptyCache
    /\ proc = <<>> /\ ktask = <<>>
    /\ \E p \in Programs : job = [NoJob EXCEPT !.stage = "boot", !.program = p]
    /\ panic = ""

Panic(why) ==
    /\ panic' = why
    /\ UNCHANGED <<free, other, proc_cache, proc, ktask, job>>

Step(stage) == panic = "" /\ job.stage = stage

-----------------------------------------------------------------------------
(* Making and releasing processes.                                         *)

\* What memset leaves in a new process.
NewProc == [state |-> "new", page_dir |-> 0, tabs |-> <<>>, pages |-> <<>>, mem_pages |-> 0]

\* slab_alloc can give an object: it panics instead of returning NULL.
can_alloc == ~needs_page(proc_cache) \/ free # {}

\* The cache slab_alloc takes the object from, and the pages left after that.
cache_of_alloc ==
    IF needs_page(proc_cache) THEN init_slab_page(proc_cache, Min(free)) ELSE proc_cache
free_after_alloc == IF needs_page(proc_cache) THEN free \ {Min(free)} ELSE free

\* alloc_pid finds one.  (Every process in use has a pid.)
pid_avail == Cardinality(DOMAIN proc) < PROC_MAX_NUM

\* proc_alloc for a job that goes on with `stage'.  Without a pid, proc_free
\* releases the object and the job is over.
proc_alloc(parent, stage) ==
    /\ can_alloc
    /\ free' = free_after_alloc
    /\ LET new == next_object(cache_of_alloc)
           cache == alloc_object(cache_of_alloc)
       IN IF pid_avail
          THEN /\ proc_cache' = cache
               /\ proc' = Extend(proc, new, NewProc)
               /\ job' = [job EXCEPT !.stage = stage, !.proc = new, !.parent = parent]
          ELSE /\ proc_cache' = free_object(cache, new)
               /\ job' = JobDone
               /\ UNCHANGED proc
    /\ UNCHANGED <<other, ktask, panic>>

\* The pages an address space consists of, one by one.
PagesIn(p) == (IF p.page_dir # 0 THEN 1 ELSE 0) + Cardinality(DOMAIN p.tabs)
                  + Cardinality(DOMAIN p.pages)

AddressSpace(p) ==
    ({p.page_dir} \ {0}) \cup {p.tabs[d].page : d \in DOMAIN p.tabs}
        \cup {p.pages[v].page : v \in DOMAIN p.pages}

\* proc_free: the pages, tables and directory go back, then the object, unless
\* mem_pages says that there should have been more or fewer.
proc_free(o) ==
    IF proc[o].mem_pages # PagesIn(proc[o]) THEN Panic("leak")
    ELSE /\ free' = free \cup AddressSpace(proc[o])
         /\ proc_cache' = free_object(proc_cache, o)
         /\ proc' = [q \in DOMAIN proc \ {o} |-> proc[q]]
         /\ job' = JobDone
         /\ UNCHANGED <<other, ktask, panic>>

\* vmm_alloc_vaddr_space for the process being made.
alloc_page_dir(o, stage) ==
    /\ free # {}
    /\ free' = free \ {Min(free)}
    /\ proc' = [proc EXCEPT ![o].page_dir = Min(free), ![o].mem_pages = @ + 1]
    /\ job' = [job EXCEPT !.stage = stage]
    /\ UNCHANGED <<other, proc_cache, ktask, panic>>

\* ktask_initialize; the pages of the kernel task are not counted.
ktask_initialize ==
    /\ Step("boot")
    /\ IF Cardinality(free) < 3 THEN Panic("ktask")
       ELSE LET cache == init_slab_page(proc_cache, Min(free))
                stack == Min(free \ {Min(free)})
                page_dir == Min(free \ {Min(free), stack})
            IN  /\ ktask' = next_object(cache)
                /\ proc_cache' = alloc_object(cache)
                /\ proc' = Extend(proc, ktask', [NewProc EXCEPT !.state = "RUNNING",
                                                             !.page_dir = page_dir])
                /\ free' = free \ {Min(free), stack, page_dir}
                /\ other' = other \cup {stack}
                /\ job' = [job EXCEPT !.stage = "exec"]
                /\ UNCHANGED panic

-----------------------------------------------------------------------------
(* proc_exec.                                                              *)

proc_exec ==
    /\ Step("exec")
    /\ \/ proc_alloc(<<>>, "exec_dir")
       \/ ~can_alloc /\ Panic("slab")

init_proc_from_elf ==
    /\ Step("exec_dir")
    /\ \/ alloc_page_dir(job.proc, "elf")
       \/ free = {} /\ proc_free(job.proc)

\* elf_load_program: the checks of the header and of where the table lies.
elf_load_program ==
    /\ Step("elf")
    /\ IF ~job.program.header THEN proc_free(job.proc)
       ELSE /\ job' = [job EXCEPT !.stage = "pht", !.pht = job.program.pht]
            /\ UNCHANGED <<free, other, proc_cache, proc, ktask, panic>>

\* The pages of a segment when the loop stops memsz after the first page
\* boundary (mutant).
load_from_prog_header_short(ph) ==
    LET first == ph.vaddr \div PAGE_SIZE
        n == (ph.memsz + PAGE_SIZE - 1) \div PAGE_SIZE
    IN [i \in 1..n |-> [vaddr |-> first + i - 1, user |-> TRUE]]

\* load_from_prog_header: the pages its loop maps, in order.
load_from_prog_header(ph) ==
    LET first == ph.vaddr \div PAGE_SIZE
        vaddr_end == ph.vaddr + ph.memsz
        n == IF ph.memsz = 0 THEN 0 ELSE (vaddr_end + PAGE_SIZE - 1) \div PAGE_SIZE - first
    IN [i \in 1..n |-> [vaddr |-> first + i - 1, user |-> TRUE]]

\* load_from_pht: the next segment to be loaded; one that is larger in the file
\* than in memory or not inside of the file is refused.
load_from_pht ==
    /\ Step("pht") /\ job.todo = <<>> /\ job.pht # <<>>
    /\ LET ph == Head(job.pht)
           next == [job EXCEPT !.pht = Tail(@)]
       IN IF /\ ph.load
             /\ ph.memsz < ph.filesz \/ ph.offset >= job.program.size
                    \/ ph.offset + ph.filesz > job.program.size
          THEN proc_free(job.proc)
          ELSE /\ job' = [next EXCEPT !.todo = IF ph.load THEN load_from_prog_header(ph) ELSE <<>>]
               /\ UNCHANGED <<free, other, proc_cache, proc, ktask, panic>>

\* alloc_proc_stacks: the pages of the kernel's and the user's stack are next.
alloc_proc_stacks ==
    /\ Step("pht") /\ job.todo = <<>> /\ job.pht = <<>>
    /\ job' = [job EXCEPT !.stage = "stacks",
                          !.todo = <<[vaddr |-> PROC_KERNEL_STACK - 1, user |-> FALSE],
                                     [vaddr |-> PROC_USER_STACK - 1, user |-> TRUE]>>]
    /\ UNCHANGED <<free, other, proc_cache, proc, ktask, panic>>

\* vmm_map not giving the page back when there is none for the table (mutant).
map_page_keeps_page ==
    /\ panic = "" /\ job.todo # <<>> /\ free # {}
    /\ LET m == Head(job.todo)
           d == VMM_PDE_INDEX(m.vaddr)
           p == proc[job.proc]
           page == Min(free)
           extra == IF d \in DOMAIN p.tabs THEN {} ELSE {Min(free \ {page})}
           tabs == IF d \in DOMAIN p.tabs THEN p.tabs
                   ELSE Extend(p.tabs, d, [page |-> Min(free \ {page}), user |-> m.user])
       IN IF d \notin DOMAIN p.tabs /\ free = {page}
          THEN free' = {} /\ job' = [job EXCEPT !.todo = <<>>, !.stage = "fail"]
               /\ UNCHANGED <<other, proc_cache, proc, ktask, panic>>
          ELSE IF m.vaddr \in DOMAIN p.pages THEN Panic("remap")
          ELSE /\ free' = (free \ {page}) \ extra
               /\ proc' = [proc EXCEPT ![job.proc].tabs = tabs,
                              ![job.proc].pages = Extend(@, m.vaddr, [page |-> page, user |-> m.user]),
                              ![job.proc].mem_pages = @ + 1 + Cardinality(extra)]
               /\ job' = [job EXCEPT !.todo = Tail(@)]
               /\ UNCHANGED <<other, proc_cache, ktask, panic>>

\* One page of load_from_prog_header or alloc_proc_stacks, with vmm_map.  The
\* first page of a table decides about the table's flag.
map_page ==
    /\ panic = "" /\ job.todo # <<>> /\ free # {}
    /\ LET m == Head(job.todo)
           d == VMM_PDE_INDEX(m.vaddr)
           p == proc[job.proc]
           page == Min(free)
           extra == IF d \in DOMAIN p.tabs THEN {} ELSE {Min(free \ {page})}
           tabs == IF d \in DOMAIN p.tabs THEN p.tabs
                   ELSE Extend(p.tabs, d, [page |-> Min(free \ {page}), user |-> m.user])
       IN IF d \notin DOMAIN p.tabs /\ free = {page} THEN proc_free(job.proc)
          ELSE IF m.vaddr \in DOMAIN p.pages THEN Panic("remap")
          ELSE /\ free' = (free \ {page}) \ extra
               /\ proc' = [proc EXCEPT ![job.proc].tabs = tabs,
                              ![job.proc].pages = Extend(@, m.vaddr, [page |-> page, user |-> m.user]),
                              ![job.proc].mem_pages = @ + 1 + Cardinality(extra)]
               /\ job' = [job EXCEPT !.todo = Tail(@)]
               /\ UNCHANGED <<other, proc_cache, ktask, panic>>

map_page_fails == panic = "" /\ job.todo # <<>> /\ free = {} /\ proc_free(job.proc)

\* sched_add, for proc_exec
exec_done ==
    /\ Step("stacks") /\ job.todo = <<>>
    /\ proc' = [proc EXCEPT ![job.proc].state = "RUNNING"]
    /\ job' = JobDone
    /\ UNCHANGED <<free, other, proc_cache, ktask, panic>>

-----------------------------------------------------------------------------
(* proc_clone and proc_exit.                                               *)

UserProcs == {o \in DOMAIN proc \ {ktask} : proc[o].state = "RUNNING"}

\* sched_task_fork calling proc_clone
proc_clone(parent) ==
    /\ Step("none")
    /\ \/ proc_alloc(parent, "clone_dir")
       \/ ~can_alloc /\ Panic("slab")

init_proc_from_proc ==
    /\ Step("clone_dir")
    /\ \/ alloc_page_dir(job.proc, "copy")
       \/ free = {} /\ proc_free(job.proc)

\* The page tables that the clone does not have yet, and the pages that it does
\* not have in the tables it has.
TablesLeft == DOMAIN proc[job.parent].tabs \ DOMAIN proc[job.proc].tabs
PagesLeft ==
    LET o == job.proc
        left == DOMAIN proc[job.parent].pages \ DOMAIN proc[o].pages
    IN {v \in left : VMM_PDE_INDEX(v) \in DOMAIN proc[o].tabs}

\* The loops of init_proc_from_proc: a table, then the pages in it.
copy_table ==
    /\ Step("copy") /\ PagesLeft = {} /\ TablesLeft # {} /\ free # {}
    /\ LET o == job.proc
           d == Min(TablesLeft)
           tab == [page |-> Min(free), user |-> proc[job.parent].tabs[d].user]
       IN proc' = [proc EXCEPT ![o].tabs = Extend(@, d, tab), ![o].mem_pages = @ + 1]
    /\ free' = free \ {Min(free)}
    /\ UNCHANGED <<other, proc_cache, ktask, job, panic>>

copy_page ==
    /\ Step("copy") /\ PagesLeft # {} /\ free # {}
    /\ LET o == job.proc
           v == Min(PagesLeft)
           page == [page |-> Min(free), user |-> proc[job.parent].pages[v].user]
       IN proc' = [proc EXCEPT ![o].pages = Extend(@, v, page), ![o].mem_pages = @ + 1]
    /\ free' = free \ {Min(free)}
    /\ UNCHANGED <<other, proc_cache, ktask, job, panic>>

copy_fails ==
    /\ Step("copy") /\ PagesLeft \cup TablesLeft # {} /\ free = {}
    /\ proc_free(job.proc)

\* proc_clone after init_proc_from_proc
clone_done ==
    /\ Step("copy") /\ PagesLeft \cup TablesLeft = {}
    /\ IF proc[job.proc].mem_pages # proc[job.parent].mem_pages THEN Panic("clone")
       ELSE /\ proc' = [proc EXCEPT ![job.proc].state = "RUNNING"]
            /\ job' = JobDone
            /\ UNCHANGED <<free, other, proc_cache, ktask, panic>>

\* proc_exit; the scheduler releases the dead process when another one runs.
proc_exit(o) ==
    /\ Step("none")
    /\ proc_free(o)

\* Another cache (bio.c, fs.c, ide.c) needs a page; slab.c never gives one back.
other_cache_grows ==
    /\ Step("none")
    /\ free # {} /\ Cardinality(other) < OtherPages
    /\ free' = free \ {Min(free)}
    /\ other' = other \cup {Min(free)}
    /\ UNCHANGED <<proc_cache, proc, ktask, job, panic>>

\* The kernel has panicked, or only its own task is left.
Stopped ==
    /\ panic # "" \/ (job.stage = "none" /\ UserProcs = {})
    /\ UNCHANGED vars

Next ==
    \/ ktask_initialize \/ proc_exec \/ init_proc_from_elf \/ elf_load_program
    \/ load_from_pht \/ alloc_proc_stacks \/ map_page \/ map_page_fails \/ exec_done
    \/ \E o \in UserProcs : proc_clone(o) \/ proc_exit(o)
    \/ init_proc_from_proc \/ copy_table \/ copy_page \/ copy_fails \/ clone_done
    \/ other_cache_grows
    \/ Stopped

Spec == Init /\ [][Next]_vars

-----------------------------------------------------------------------------
(* Properties.                                                             *)

Users == DOMAIN proc \ {ktask}

\* Every variable has a value of its kind.
TypeOK ==
    /\ free \subseteq Memory /\ other \subseteq Memory
    /\ CacheOK(proc_cache)
    /\ \A o \in DOMAIN proc :
        /\ proc[o].state \in {"new", "RUNNING"} /\ proc[o].page_dir \in Memory \cup {0}
        /\ DOMAIN proc[o].tabs \subseteq 0..USER_PDES - 1
        /\ \A v \in DOMAIN proc[o].pages : VMM_PDE_INDEX(v) \in DOMAIN proc[o].tabs
        /\ proc[o].mem_pages \in 0..MemoryPages
    /\ job.stage \in {"boot", "exec", "exec_dir", "elf", "pht", "stacks", "clone_dir", "copy",
                      "none"}
    /\ panic \in {"", "slab", "ktask", "remap", "leak", "clone"}

\* Every page of the memory has one home, at every step of making a process and
\* after every way in which that can fail: it is free, it holds objects, or it is
\* in one address space, once.  mem_pages counts the pages of an address space
\* exactly, so proc_free never reports a leak ("Free proc(%d) leaks %u memory
\* pages") and a clone never differs from its parent ("Cloned proc mem pages").
PagesExact ==
    /\ free \cup other \cup PagesOf(proc_cache) \cup
            UNION {AddressSpace(proc[o]) : o \in DOMAIN proc} = Memory
    /\ free \cap other = {} /\ PagesOf(proc_cache) \cap (free \cup other) = {}
    /\ \A o \in DOMAIN proc :
        /\ AddressSpace(proc[o]) \cap (free \cup other \cup PagesOf(proc_cache)) = {}
        /\ Cardinality(AddressSpace(proc[o])) = PagesIn(proc[o])
        /\ \A q \in DOMAIN proc \ {o} : AddressSpace(proc[o]) \cap AddressSpace(proc[q]) = {}
    /\ \A o \in Users : proc[o].mem_pages = PagesIn(proc[o])
    /\ panic \notin {"leak", "clone"}

\* The process cache is exact: no two processes share an object, an object that
\* is in use is not handed out again, and a page is on the list its free objects
\* ask for, also after a process that could not be made was released.
SlabExact == CacheExact(proc_cache, DOMAIN proc)

\* The pages of user space that a segment touches, and that a program touches.
TouchedPages(ph) ==
    {v \in 0..USER_PDES * NUM_PTE - 1 : ph.load /\ ph.memsz > 0
        /\ v * PAGE_SIZE < ph.vaddr + ph.memsz /\ (v + 1) * PAGE_SIZE > ph.vaddr}
ProgramPages(pht) == UNION {TouchedPages(pht[i]) : i \in DOMAIN pht}

\* A process that runs, loaded or cloned, over any number of generations, has
\* exactly the pages its program's segments touch and the two stacks; user mode
\* reaches all of them but the kernel stack, through table and page ("Kernel stack
\* address and user stack address should not be in the same page directory entry",
\* process.c:16).
SpaceIsProgram ==
    LET user == ProgramPages(job.program.pht) \cup {PROC_USER_STACK - 1}
    IN \A o \in UserProcs :
        /\ DOMAIN proc[o].pages = user \cup {PROC_KERNEL_STACK - 1}
        /\ {v \in DOMAIN proc[o].pages :
                proc[o].pages[v].user /\ proc[o].tabs[VMM_PDE_INDEX(v)].user} = user
=============================================================================
