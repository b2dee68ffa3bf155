# airix: a verification project

airix is a small x86 kernel in C: a boot loader, a buddy and a slab allocator,
processes with `fork` and `exec`, a round-robin scheduler, a polled IDE DMA
driver, a block cache, a read-only file system with a tool that makes its
images, and a keyboard and a text screen. This directory holds TLA+ modules of
its parts, the TLC configurations that check them, and TLAPS proofs about the
block cache, the IDE driver, the page allocator, the scheduler, the memory of
processes, the file system and its tool, and the keyboard and the screen. Every
safety property that a run checks and finds to hold is also a theorem.

    tlc -workers 2 -config MCBio_tight.cfg MCBio     # a run, see PROJECT.json
    tlapm IdeProofs.tla                              # the proofs of a module

## 1. How the kernel runs

All interleavings follow from a few facts of the code.

* System calls and interrupts enter through interrupt gates (`kernel/idt.c`), so
  their handlers run with interrupts off. A system call leaves the CPU only where
  it calls `sched()`: in `bio.c` when it sleeps, in `fork`, in `exit`. What lies
  between two such points is one action.
* The timer (50 Hz, `start.c`) preempts user code and the **kernel task** (pid 0,
  `ktask.c`). The kernel task runs in ring 0 with interrupts *on*, so a tick can
  let a whole system call run between any two of its accesses to memory. Its code
  is cut into one action per access to shared data.
* The disk raises no interrupt the kernel uses: the kernel task polls the bus
  master status in a loop. Completion callbacks therefore run in the kernel task;
  those of `bio.c` turn interrupts off for part of their work.
* Before `scheduler()` is called at the end of `kernel_entry` there is one thread
  of control, which polls for its own disk request (`sync_io_sectors`).

## 2. Inventory

| Part | State | Operations | Interaction | What is hard |
|---|---|---|---|---|
| block cache `kernel/bio.c` | LRU list of one-page bios; flag, dev, sector, iter of each; a chain of sleeping processes per bio and one for the list head | `bio_get`, `bio_read`, `bio_data`, `bio_advance_iter`, `bio_write`, `bio_release`, the two completions | called by axfs; queues requests on `ide.c`; changes `process->state` | values kept across a sleep, lost or misdirected wake-ups, reuse while a DMA is pending, failed reads |
| IDE driver `kernel/ide.c` | a doubly linked request list per bus, a retry count per request | submit, poll, retry once, complete, synchronous I/O | called by `bio.c` and at boot; polled by the kernel task; calls back | the kernel task changes the lists with interrupts on; stale status; the end of a drive |
| page allocator `mm/pmm.c` | a header per page, a free list and a counter per order | boot scan of the memory map, `pmm_alloc_pages`, `pmm_free_pages` | used by everything | headers inside blocks are stale; boundaries of regions; the largest order |
| scheduler `kernel/scheduler.c` | process list, `current_proc`, a deferred fork | `sched`, `sched_fork`, `scheduler`, timer | switches stacks; releases the dead | the dead process's stack and page directory are in use while it is being left |
| processes `kernel/process.c` | pid map, process objects, address spaces | exec, clone, exit, free | `pmm`, `vmm`, `slab` | failure half way through a clone, pid reuse |
| kernel task `kernel/ktask.c` | a list of task functions | the polling loop | runs the IDE poller | the only preemptible kernel code |
| slab allocator `mm/slab.c` | three page lists per cache, a free array per page | alloc, free, create, destroy, `kmalloc` | on top of `pmm`; used from system calls *and* the kernel task | no lock against the kernel task |
| paging `mm/vmm.c`, `mm/paging.c` | page directories and tables | map, unmap | `process.c`, `elf.c` | failure half way |
| ELF loader `kernel/elf.c` | none | map and copy segments | `proc_exec` | page counts at segment boundaries |
| file layer `fs/fs.c`, `kernel/syscall.c` | file objects, the file table of a process | open, close, read, write | axfs | fork and exit do nothing with the table |
| axfs `fs/axfs.c` | none beyond the file's position | path lookup, reading through direct blocks | block cache | block boundaries, failed reads, some of which nobody looks at |
| mkfs `tools/mkfs.c` | the image: bitmaps, inodes, blocks | make, add a file | its output is what axfs reads | allocation bitmaps, limits |
| keyboard `kernel/keyboard.c`, console `kernel/console.c` | the modifiers held and the locks that are on | decode scan codes, light the LEDs, make characters | IRQ1 through `kernel/pic.c`; shows what is typed with `put_char_at` | keys of one to six bytes, typed while the handler is behind; answers of the device in between; EOI |
| output `kernel/printk.c`, `kernel/panic.c` | the screen and the cursor | `printk`, `panic`, `put_char_at` | every part prints | the last column, the last row, text that does not fit |
| library `lib/` | none | `qsort`, `vsnprintf`, strings | `pmm` sorts the memory map, `printk` formats | a partition in place; the end of the buffer |
| machine setup, boot loader | CPU tables, the interrupt controller | once, at boot | | |

What makes each of the modelled parts correct:

* **block cache**: a process that gets a bio has the block it asked for, alone;
  a sleeper is woken in the end; a buffer with a DMA on its way does not change
  hands; a failed read is not taken for data.
* **IDE driver**: no request is lost, each is completed once and in order, with
  the outcome of its own transfer; an error is reported after one retry.
* **page allocator**: the memory map is sorted before it is used; blocks never overlap, no page is lost or invented, free
  buddies coalesce, and an allocation fails only if there is no aligned run.
* **processes and scheduler**: pids are unique, given back and reused; nobody who
  can run starves, however much others fork; the dead are released, but never the
  one whose address space is loaded; fork tells parent and child apart, and the parent
  the pid of the process it made.
* **memory of processes** (`process.c`, `vmm.c`, `elf.c`, `slab.c`): wherever
  making a process runs out of memory, every page still has one home and the
  counters by which pages are released are exact; a process that runs has the
  pages of its program and its stacks, and user mode reaches all but the kernel
  stack; objects of the slab cache are handed out once.
* **files** (`mkfs.c`, `axfs.c`, `fs.c`, `syscall.c`): an image is consistent also
  after copies that failed; what mkfs copied is found under its path with its
  data; a process reads the bytes of the file it opened, in order.

* **keyboard and screen** (`keyboard.c`, `console.c`, `pic.c`, `vsnprintf.c`,
  `printk.c`): modifiers, locks and LEDs follow the keys, however long the handler
  takes; what is shown is what was typed; the interrupt always comes again; text
  is formatted and cut as `stdio.h` says, and scrolls without losing a row.

`PROJECT.json` lists the hazards behind these, with the line where each bites.

## 3. Modules

| Module | Models | Kind |
|---|---|---|
| `Bio` | `kernel/bio.c`, with the parts of `ide.c`, `ktask.c` and process states it meets | component |
| `BioProofs` | theorems about `Bio` | proofs |
| `IoQueue` | what `kernel/ide.h` promises: a FIFO per bus, one call back per request | abstract |
| `Ide` | the request lists of `kernel/ide.c`, pointer by pointer | component, implements `IoQueue` |
| `IdeProofs` | theorems about `Ide`, and that it implements `IoQueue` | proofs |
| `PageAlloc` | what `mm/pmm.h` promises | abstract |
| `QSort` | `lib/qsort.c`, as operators | helper of `Pmm` |
| `Pmm` | the buddy allocator of `mm/pmm.c` | component, implements `PageAlloc` |
| `PmmProofs` | that `qsort` sorts, theorems about `Pmm`, and that it implements `PageAlloc` | proofs |
| `Sched` | `scheduler.c`, `process.c` without memory, fork and exit | component |
| `SchedProofs` | theorems about `Sched` | proofs |
| `NatFacts` | least elements, induction, recursion, division and powers of two, for the proofs | proofs |
| `Slab` | one cache of `mm/slab.c`, as operators on a value | helper of `ProcMem` and `SlabRace` |
| `SlabRace` | the cache of disk requests, used by system calls and by the interruptible kernel task | composes `Slab` with a piece of `ide.c` |
| `ProcMem` | the memory of processes: `process.c`, `vmm.c`, `elf.c` | component, uses `Slab` |
| `ProcMemProofs` | theorems about `ProcMem` and the operations of `Slab` | proofs |
| `Mkfs` | `tools/mkfs.c`: making an image, copying files into it | component |
| `Fs` | the file calls of `syscall.c`, `fs.c` and `axfs.c` on such an image | composes with `Mkfs` |
| `FsProofs` | theorems about `Mkfs` and `Fs` | proofs |
| `Keyboard`, `Console` | `kernel/keyboard.c` and `kernel/console.c`, as operators | helpers of `Terminal` |
| `Vsnprintf`, `Printk` | `lib/vsnprintf.c` and `kernel/printk.c`, as operators, each with a reference definition of its result | helpers of `Terminal` |
| `Terminal` | the interrupt controller, the keyboard handler, `printk` and `panic`, with somebody who types | composes the four |
| `TerminalProofs` | theorems about `Terminal` and its four helpers | proofs |
| `MCBio`, `MCIde`, `MCPmm`, `MCSched`, `MCProcMem`, `MCFs`, `MCTerminal` | instances | TLC |

Operators keep the names of the functions they model. An operator whose comment
says *mutant* is a variant with a plausible bug; it is not part of any
specification, and `PROJECT.json` names the property that rejects it.

### Bio

A bio is a number, in the order `slab_alloc_bio` makes them (they are never
freed); 0 stands for `bio_cache_head`, on whose chain processes sleep when every
bio is in use. `lru` is the list, `sleep` the chains (the C code links
them through `process->next`), `buffer` says which block's data a page holds, so
that "the right data" can be stated. `cpu` is the process inside the kernel;
`pc` tells at which `sched()` a process sleeps. `bio_get` is the lookup and its
two loops; `bio_get_resume` and `alloc_bio_resume` are the loops after `sched()`
returned, with the locals the code kept, and that is where it matters that
the block is not looked up again. A completion is two actions (`io_complete`, then
`ide_read_complete` or `ide_write_complete`), since `bio->sleep` is loaded before
`close_int()`. `bio_write` never sets `io.data`; the request carries any old
pointer. `iter` is a `uint8_t`, so it is computed modulo 256. Nothing in the tree
calls `bio_write` and `bio_advance_iter`; `ExtraOps` switches them on.

The queue below the cache is the FIFO that `IoQueue` describes. It is what
`Ide` implements until a request is linked behind an object being removed (section 5).
That `slab_alloc` panics when there is no page for the bio's own structure is left out
here; `ProcMem` has the same panic.

### Ide

Nodes are the list heads (one per bus) and a fixed number of request objects;
`freeSlots` is the slab's free array, a stack. System calls submit in one step
(`submit`), the poller's `check_if_io_complete` and `complete_io_operation` are
ten steps, in which `kpc` is the program counter; a system call may come between any
two of them, as a tick may in the kernel. Of the statement that takes an object off
the `next` chain the load and the store are two steps (`load_next`, `unlink_next`),
and after the store the compiler may or may not reload `dma_data->next`; both are
allowed (`unlink_prev`). `dev` is the bus: which request it was last told to do, and
the two status bits. Starting a request does not clear the error bit, as in the code.
`moved`, `failed` and `raced` are bookkeeping. `raced` becomes true when a request is
linked behind the object that is being removed, which loses it (finding 2 of
section 5): from then on the lists are broken, and the properties of the driver,
`QueuedOnList` apart, say what holds until then. `slab_alloc` and `slab_free` are one
step each here; what a tick inside of `slab_free` does is in `SlabRace`.

### Pmm

A page is a number with a header (flags, order); an area is the *set* of blocks
on a free list, because which block heads the list does not matter to any
property. `Init` has the regions of the BIOS in any order and sorts them with
`qsort`, step by step as the code partitions; `total_pages` then trusts the last
usable one, as the code does. `init_free_page` and `init_next_entry` are the iterations of
`init_free_pages`; an allocation or a free is one step. The loop of
`pmm_free_pages` is `final_order`: the first order at which the header of the
buddy does not say "free block of this order". Headers of pages inside a block are
left as they are, so the test may read stale ones.

### Sched

A process object is a number; `current_proc`, the list and `pid_gen` are the
code's. `cpu` tells whether the scheduler's stack or the process's own is in use.
Fork is two halves, as in the code: `sched_fork` leaves a task, the scheduler
clones, and parent and child both return through `sched_fork_return`. The search
of `scheduler()` is one step, as it cannot be interrupted: it starts after
`current_proc`, releases the dead it meets, and stops at the first that can run.
Whether memory for a clone can be copied is left open; `ProcMem` has that part.

### ProcMem and Slab

Processes are made at boot and by the scheduler, on stacks nothing interrupts, so
at most one `job` is under way. Its steps are the places where a page is needed:
the object, the directory, a page table, a page of a segment or of a stack, and,
in a clone, each table and each page. `free` is what `pmm_alloc_page` can give,
and it may be empty at each of them; `map_page_fails` and `copy_fails` are the error paths,
`proc_free` counts what it releases as the code does, and a count that differs from
`mem_pages` is the code's panic. The code panics, too, when `slab_alloc` finds no
page, when a program has a segment where the user stack goes, and when the kernel
task cannot be made; `panic` says why the model stopped. Which page is taken
does not matter, so it is the lowest. `other_cache_grows` stands for the other
users of `pmm`. A program is an ELF header that is accepted or not, and a program
header table. The file contents that are copied into pages are left out.

`Slab` keeps the order of the three page lists and of a page's free array, because
the code's choice of the next object depends on them. `free_object` is two
operators, the store and the move to another list, because `SlabRace` puts a system
call between them. There the cache is `io_data_cache`: a system call takes an
object in one step, the kernel task gives one back in three (load `avail`, store,
move), and whether the compiler reloads `avail` for the tests is left open.

### Mkfs and Fs

The pointers of an inode and of its indirect blocks are one map from paths in the
pointer tree to blocks (`tree`); a step is one block taken from the bitmap, with
all the code does until it takes the next. A directory block is its sequence of
entries with their `rec_len`s, the padding included; a data block names its file
and its position there. `bg_num` is 1, as the C precedence of `?:` has it, and
`has_enough_space` counts the indirect blocks as the code does, that is, too few.
`create_file_inode` is `path_found`, `write_entry_alloc` and `write_entry` with the
position in the path that the code really has: `next_name` repeats the rest of the
path for ever, because `sep` is never moved. The states `exit_...` are its exits.

`Fs` extends `Mkfs`: after `cpfs_end` the kernel runs on that image.
`get_bg_inode_table` and `inode_read` compute the positions of a descriptor and of an
inode as `axfs.c` does, in sectors; what is read there is what `mkfs.c` put at that
position (`seek_desc`, `seek_inode`). Calls are one step each: nothing they share
changes while they sleep. `bad` are the blocks whose transfer fails during a call, any
of the image. A data block that cannot be read ends the read with -1, a directory block
is passed over, as in the code. The super block, a descriptor or an inode that cannot
be read is not noticed (`looked_at` says which of them an open needs): `sys_open_stale`
goes on with what the buffer held. What that is depends on what the page was used for
before, so the open gets any inode of the image or of `StaleInodes`, comes back
without a file, or panics (a division by 0 inodes per group, a sector the drive does
not have); the file is then marked `stale`, and a read of it may panic in `check_drive`.
`out` and `stale` are bookkeeping.

A name has at most 255 characters (`NamesAssumption`). `mkfs.c` keeps the length in a
`uint8_t`, so a longer name would be stored under its length modulo 256, and `axfs.c`,
which compares whole lengths, would not find it.

### Terminal

`key_states` is a set of keys, one for each `KEY_STATE_` bit; scan codes are the
real bytes, and of keys that the code treats alike one or two are there.
`keyboard_handler` is one round of the code's loop: `scan_to_key_code` tells how
many bytes it reads, `update_key_states` and `set_leds` what follows, and
`console_key_code_handler` with the consumer of `start.c` what is shown. Keys are
pressed, repeated and released between any two rounds. `pic_interrupt` is the
end of the loop, EOI and the return. Interrupts are off until `scheduler()` is
called, so the answers to the first LED command wait in the buffer until then.

The keyboard is external (`MakeCode`, `BreakCode`, `press`, `release`), and two
things are assumed of it. It has the bytes of a key ready together: the handler
reads those after `E0` and `E1` without looking whether they are there. And it sends
`E0 2A` for Print Screen only; keyboards also send it around the grey keys when Num
Lock is on, and the handler would then drop the two bytes that follow. `down`,
`locks` and `typed` are what the typist did; a lock key that is held repeats and
flips its lock each time, in the code and in `locks`.

A format is a sequence of items, a character or a directive with its flags, width and
argument; `vsnprintf` and `put_char` work on characters, since the properties are
about where they end up. `IsFormat` says that arguments have the types of their
directives, which the code cannot check. A `%c` stores its `int` as a `char`, modulo
256; an argument that becomes 0, which would end the text for `print_string`, is not one
of these formats, and nothing in the tree uses `%c`. The row below the visible ones, which scrolling
copies, is blank as the BIOS leaves it.

## 4. Runs

| Run | Instance | Shows |
|---|---|---|
| `bio_roomy` | 3 processes, 2 bios, sectors 1 and 2 of 2 blocks, 1 failed transfer, fair | `HeldIsRequested`, `DataIsRequested`, `OneBioPerBlock`; every sleeper is `Served` |
| `bio_tight` | 4 processes, 1 bio, 2 blocks, pages may run out, 1 failed transfer, with `bio_write` and `bio_advance_iter` | `MutualExclusion`, `SleepChains`, `NoStall`, `ReaderFirst`, `PendingReadPinned` |
| `bio_stale` | 3 processes, 2 bios, 3 blocks | **violates** `HeldIsRequested` |
| `ide_queue` | 2 buses, 3 requests for one, 1 for the other and 1 past the end of its drive, 2 failed transfers, ticks anywhere, fair | `LostOnlyBehindRemoved`, `ImplementsQueue`, `OneCommandAtATime`, `ErrorAfterRetry`, `SuccessIsTransfer`, `SyncReturnsOutcome`, `Completes` |
| `ide_race` | 3 requests for one bus, 3 failures, ticks anywhere | **violates** `QueuedOnList` |
| `slab_race` | 2 pages of 2 objects | **violates** `ListsTell` |
| `pmm` | 17 pages, orders 0 to 3, five regions with ragged ends in any order, sorted by insertion up to length 2 | `MmapSorted`, `NoOverlap`, `MemoryConserved`, `Coalesced`, `CountsAgree`, `ImplementsPageAlloc` |
| `sched` | 4 pids, 5 objects, fair | `PidsMatch`, `ListIsLive`, `ForkReturnsPid`, `CurrentNotReleased`, `NoStarvation`, `DeadReleased` |
| `memory` | 23 pages of which 0 to 21 are taken at first, 4 pids, 2 objects per slab page, 6 programs | `PagesExact`, `SlabExact`, `SpaceIsProgram` |
| `files` | images of 5, 9, 14 and 30 blocks, groups of 16 blocks and 4 inodes, 6 possible copies of which 4 are made; on that of 14 blocks with up to 2 files, 2 processes with 1 descriptor each and 2 file objects, any one block failing during a call | `Fsck`, `CopiedIsFound`, `StreamIsFile` |
| `mkfs_path` | one copy into a directory | **violates** `InodePerName` |
| `console` | 9 keys of which 2 are held at a time, 2 bytes waiting when a key is added, 3 columns and 2 lines, 7 characters per `printk`, 2 calls, fair | `StatesMatch`, `EchoIsTyped`, `PressNoticed`, `Formatted`, `ScreenIsPaper` |

**Bounds.** The bugs of such code need a holder, a sleeper and a third process
that comes in between: three processes. `bio_tight` has four for a single bio, so
that sleepers queue on the bio's chain and on the list head's while it is reused,
also by writers; larger caches with writes are beyond TLC, and all the
properties of that run are proved for every size (section 6). `bio_roomy` and
`bio_stale` have a cache of two bios that is partly and wholly occupied.
`SECTORS_PER_BIO = 2` gives sectors of either parity and a wrap of `iter`.
`MaxErrors` bounds failed transfers; two are needed on one request for a reported
error. A list of three requests has a first, a middle and a last, and lets a system
call append behind one that waits while another is removed. `ide_queue` does not follow
a behaviour any further once `raced` is true, when its properties ask for nothing
more, nor one that uses the third request of a bus together with the other bus or with
failed transfers (`Followed`): each of them meets two requests of a bus. Sixteen-odd
pages with four orders have a block of the largest order, a page whose buddy lies
outside of memory, locked pages and a free page that stays alone; five regions,
two of them with the same base, make `qsort` partition twice with an element equal
to the pivot. Four pids let
the pid generator wrap and the map fill up while the kernel task, a parent and two
children are alive. In `memory` the number of pages taken at boot puts the end of
memory at each page of loading a program and of its first clones; tables
of two pages make a program cross from one to the next and share one with a
stack. In `files` a block of 24 bytes holds two pointers and two sectors, and
an inode has two direct blocks, so that files and the root directory reach into indirect blocks;
the names fill a block, leave too little for padding, or leave room; the image of 5
blocks is too small, that of 9 runs out of blocks in a directory, and that of 30 has
two groups. Programs run on images of 14 blocks (`ReadImages`); the super block, the descriptors, the inode table, the
directory or a data block fails them, one at a time, which is what tells the error paths
apart; a stale inode has one block that is on the drive and one that is not. In `console` the keys have one, two, four and six bytes, with a
modifier, two locks and a key whose character depends on each; two keys down and a
key behind another in the buffer are enough for a modifier that changes before the
handler gets to the key it was for. Two calls of `printk` fill a screen of six
characters, cut a number and a padding, and begin and end in different columns.

**Deadlock** is checked except in `bio_tight` and `console`. There the system may
really stop: `panic` halts it; when no page can be had while the cache is empty, `alloc_bio`
sleeps although nobody will ever wake it; with `bio_write`, a bio whose dirty flag
is never cleared is never free again.

**Fairness.** `Bio`: a process that was woken and the kernel task get the CPU
again and again while others use it too: strong fairness, which is what the
round-robin search gives (`NoStarvation` of `Sched` is that statement about the
code); a process inside the kernel goes on to `bio_release`; the disk ends
transfers. `Terminal`: boot goes on, the CPU takes an interrupt that is requested,
not masked and not in service, and the handler goes on; nothing is assumed of the
typist, who may press keys for ever. `Ide`: weak fairness of the poller and of each bus,
which the round-robin search and the device give, until a panic: then nothing runs any
more, and `Completes` allows for it. `Sched`: the timer
interrupts what runs, and the scheduler itself is not interrupted.

## 5. Where the code does not do what it says

Each is a run that TLC refutes; `PROJECT.json` quotes the lines.

1. **A stale bio** (`bio_stale`). `bio_get` sleeps on the bio that `find_bio`
   returned and goes on with it after the sleep. In a full cache the bio may
   have been reused for another block by then; the caller gets another block's
   data, with an iterator that wraps below 0.
2. **A lost request** (`ide_race`). The kernel task unlinks a completed request in
   two stores with interrupts on. A tick between them lets a system call append
   behind the object being removed; the new request is not on the list any more
   and its process sleeps for ever.
3. **A slab page on the wrong list** (`slab_race`). The kernel task gives the
   request's object back with interrupts on, too. A system call that takes an object
   from the same page between two accesses of `free_object` has its change of
   `avail` overwritten, or sees the page moved to a list for what `avail` was before.
4. **Directories inside of each other** (`mkfs_path`). `create_file_inode` never
   moves past the first `/` of a path. `mkfs -c f:/d/b` makes `d`, in it a directory
   `b`, in that another `b`, until inodes or blocks run out and it exits.

Other facts are visible in the models without a run of their own:

* a request can be started twice: after the removal of the last request, and before
  `complete_io_operation` looks whether there is another one (`ide.c:191`), a tick lets
  a system call find the list empty and start its request at once;
  `complete_io_operation` then finds it on the list and programs the bus and the drive
  again in the middle of the transfer (`start_next` of `Ide`, with an active device). It
  is the same request both times, so no transfer is taken for another's, which is what
  `OneCommandAtATime` says;
* `open` can succeed without having read: `get_super_block`, `get_bg_inode_table` and
  `inode_read` do not look at what `bio_read` returns, and after a failed transfer go on
  with what the buffer held (`sys_open_stale` of `Fs`). The descriptor, which
  `lib/airix.h:31` promises for success only, is then of another file or of one that does
  not exist;
* two processes that miss on the same block while the cache is full end with two
  bios for it (`OneBioPerBlock` is therefore checked in the roomy instance only);
* `bio_write` does not assign `io.data`, so the completion clears the flag of some
  other bio and the one that was written stays dirty for ever (the stop described
  under *Deadlock*);
* mkfs uses the first block group only (`mkfs.c:83`, `mkfs.c:353`) and counts too
  few indirect blocks (`mkfs.c:1000`), so it can exit half way through a file for which it
  found enough space;
* `slab_alloc` panics when there is no page, so that a fork at low memory stops the
  kernel where its callers test for `NULL`;
* a child starts with an empty file table, and the file objects of a process that
  exits are never released;
* Num Lock, Caps Lock and Scroll Lock flip with every repeat while they are held;
* a file larger than the direct blocks can be copied but not read to its end.

## 6. Proofs

The theorems hold for every value of the constants that satisfies the named
`ASSUME`s of the component's module. These are typing of the constants and facts
that the code fixes (in `Ide`, that each drive is on one of the buses and that there
are more request objects than requests, since the slab grows); TLC evaluates them in
the runs.

### Block cache

`BioProofs`, for any set of processes, any `MAX_CACHE_COUNT` and `SECTORS_PER_BIO`
above 0, any behaviour of the page allocator and the disk, with `bio_write` and `bio_advance_iter`:

| Theorem | States |
|---|---|
| `TypeCorrect` | `Spec => []TypeOK` |
| `ExclusiveUse` | `Spec => []MutualExclusion` |
| `NoLostSleeper` | `Spec => []SleepChains` |
| `ReaderStaysFirst` | `Spec => []ReaderFirst` |
| `ReadsArePinned` | `Spec => PendingReadPinned` |
| `WakeUpPassedOn` | `Spec => []NoStall` |

All follow from the invariant `IInv`. `MutualExclusion` alone is not inductive:
that the process resumed in `bio_read` still owns its bio needs `SleepChains` and
`ReaderFirst`, which say that a completion wakes the reader and not a process that
waits for the bio. `ReaderFirst` in turn needs that a bio has at most one read
under way (`OneReadPerBio`), which holds because only the holder reads and it then
sleeps. `Allocated` ties the bios that are listed or held to
`bio_cache_count`, so that a new bio is nobody's; `OneInKernel` and
`AwakeInKernel` say that between two `sched()` one process is inside the
kernel and it is awake. The proof has one lemma per kind of step (`TakeStep`,
`SleepStep`, `WakeStep`, `ReadStep`, ...), put together in `StepIInv`.
`NoStall` is inductive relative to `IInv`: whoever makes the last bio free wakes a
process that will try again (`WakePassedOn`). It is a statement about the chain of
`alloc_bio` only, while there are bios, and a bio that stays dirty counts as in use; that
sleepers of one bio are served is the liveness property `Served`, which TLC checks.

That a process gets the block it asked for is false in general: `bio_stale` refutes
it. `BioProofs` proves it under the hypothesis `Roomy`, that the blocks anybody
asks for fit into the cache, that its pages can be allocated, that a block has
no more sectors than `iter` can count (it has 8), and that nobody uses `bio_write`, as
nobody in the tree does. The instance of `bio_roomy` satisfies it.

| Theorem, under `Roomy` | States |
|---|---|
| `RightBio` | `Spec => []HeldIsRequested` |
| `RightData` | `Spec => []DataIsRequested` |
| `BlocksCachedOnce` | `Spec => []OneBioPerBlock` |

The invariant `RInv` says that every bio there is is on the list (`AllListed`) and
that no two have the same block (`OwnBlocks`); then a block that is missed leaves a
bio to be made, by counting, so `alloc_bio` never reuses one, and a process that
sleeps on a bio finds in it after the sleep the block it had looked up (`Wanted`).
`PendingReads`, `Content` and `Returned` follow the data from the request to the flag
and to what `bio_read` returned.

### IDE driver

`IdeProofs`, for any number of buses, drives, requests, request objects and failed
transfers, with ticks anywhere in the poller:

| Theorem | States |
|---|---|
| `TypeCorrect` | `Spec => [](~raced => TypeOK)` |
| `NoneIsLost` | `Spec => []LostOnlyBehindRemoved` |
| `SuccessIsTrue` | `Spec => []SuccessIsTransfer` |
| `ErrorsAreRetried` | `Spec => []ErrorAfterRetry` |
| `SyncReturns` | `Spec => []SyncReturnsOutcome` |
| `CommandsOneByOne` | `Spec => OneCommandAtATime` |
| `QueueIsImplemented` | `Spec => ImplementsQueue` |

The properties carry `raced` themselves: they are claimed until a request is linked behind
an object being removed, which only `submit` can do and only in two of the poller's ten
steps. So `NoneIsLost` says that the window `ide_race` shows is the only one in which a
request can be lost, and the others hold with ticks everywhere else, the window of
the second start of a request (section 5) included. The invariant is `Guarded`, `~raced => IInv`; at boot nothing
races.

The list of a bus is what a walk along `next` meets, a recursive function; that the
walk over a chain is the chain is `ChainIsList`, by induction over its steps. `Linked`
says that the `next` links of each bus are such a chain, and `BackLinked` that the `prev`
links are its reverse, but for the one link that is stale between the two stores of the
unlinking. `SlotsAccounted` and `Owned` say that an object is free, on one list, or the
one the poller has taken off; counting then gives that `slab_alloc` never runs out
(`ObjectLeft`). `DeviceFollows` ties the
status bits and the last command of a bus to the first request of its list: the bus works
on it, or is at rest because `complete_io_operation` has still to start it; after a tick in
between, a system call may have started it already, and then it is the same request. And
`Verdicts` says what the poller's locals still mean at each of its steps: without it
a request could be completed on the status of its predecessor. Each step of the
poller is a lemma. For the refinement a submission is `Submit`, the store that takes the
object off the `next` chain is `Finish`, the call of `complete_func` is `Notify`, and
all other steps stutter.

### Page allocator

`PmmProofs`, for any memory map whose regions do not overlap, in any order, any
`PAGE_SIZE` and `BUDDY_MAX_ORDER` above 0 and any locked pages:

| Theorem | States |
|---|---|
| `TypeCorrect` | `Spec => []TypeOK` |
| `MapSorted` | `Spec => []MmapSorted` |
| `BlocksApart` | `Spec => []NoOverlap` |
| `NothingLost` | `Spec => []MemoryConserved` |
| `BuddiesMerge` | `Spec => []Coalesced` |
| `CountersExact` | `Spec => []CountsAgree` |
| `Refinement` | `Spec => ImplementsPageAlloc` |

`NoOverlap` is not inductive, because a free merges when a header says so and the
headers of pages inside a block are never cleaned. The invariant is `Heap`: blocks
are aligned and apart, the header of a block's first page tells whether it is free and
its order (`HeadersTell`), no two free blocks are buddies (`NoBuddies`), and a header
that says "free", stale or not, is on a page where a block of its order could start
and that lies in some block (`StaleHeaders`). With that the test of `pmm_free_pages` is
exact (`BuddyTest`): the buddy's page, if its header says "free, of order o", lies in
a block; a larger block that is not aligned there would hold the block being freed too,
and any other block starts at that page, so the header is its own. `FreeHeap` and `AllocHeap` are the two
operations on such a heap, `FreeRounds` relates the loop of `pmm_free_pages` to
the buddies it takes, and `Booting` says how far `init_free_pages` has come: what it
has passed is free, and the headers of the rest are untouched. That an allocation fails
only when it must is `RunInBlock`: the smallest free block inside an aligned run of
free pages would have its buddy in the run, hence free.

`total_pages` is the end of the *last* usable region of the sorted map; that it is the
highest end needs that no usable region is empty, which `EntriesAssumption` states.

`PmmProofs` first proves of `qsort`, for any array and any `compare` that orders its elements,
that it returns the same elements in order (`QSortSorts`). `Parts` is the invariant of
the loop: below, equal to and above the pivot, and when the middle part is empty
the next element is the one that just left it. Each round moves `i` or `l` on, so the
loop ends; both ends are shorter than the array since the middle part then has an
element, so the recursion ends (`DivideAndConquer`). "The same elements" is the same
length and the same set, which for the distinct regions of a memory map is a permutation.

### Scheduler

`SchedProofs`, for any `PROC_MAX_NUM` and number of process objects:

| Theorem | States |
|---|---|
| `TypeCorrect` | `Spec => []TypeOK` |
| `PidsAreRight` | `Spec => []PidsMatch` |
| `ListIsRight` | `Spec => []ListIsLive` |
| `ForkTellsApart` | `Spec => []ForkTells` |
| `ForkTellsPid` | `Spec => ForkReturnsPid` |
| `CurrentIsKept` | `Spec => CurrentNotReleased` |

`ForkTells`, that fork returns 0 in the child and neither 0 nor its own pid in the
parent, is proved only. It is not inductive, as it looks away while a parent is asking: `ForkIsServed`
ties the deferred task to `current_proc`, and `ForkAnswered` covers the other parents.
`ForkReturnsPid` says which value the parent gets, and that it keeps it until it has read
it. `CurrentIsLive` and `KtaskRuns` give the search of `scheduler()` a process to stop at
and keep it from releasing the one it came from.

### Memory of processes

`ProcMemProofs`, for any number of pages, of page table entries and of objects in a
slab page, any set of programs, and any moment at which memory runs out:

| Theorem | States |
|---|---|
| `TypeCorrect` | `Spec => []TypeOK` |
| `SlabIsExact` | `Spec => []SlabExact` |
| `PagesAreExact` | `Spec => []PagesExact` |
| `SpacesAreProgram` | `Spec => []SpaceIsProgram` |

The programs are linked below `KERNEL_BASE` (`ProgramsAssumption`): the loader does
not look, and a segment above would be mapped over the kernel's tables.

The invariant `IInv` (`Invariance`) has four parts. `Well` is the process cache: the
three lists hold, each page once, the pages whose number of free objects says so, and the
free part of a page's array is the stack of exactly the objects not in use;
`AllocWell` and `FreeWell` prove that of `slab_alloc` and `slab_free`, so that they are
facts about `Slab` alone. `Homes` gives each page of memory exactly one home: the free
pages, the rest of the kernel, the cache, or one address space. `ProcsOK` says of each
process that its directory, tables and pages are distinct, that every page has its table, and
that `mem_pages` counts them; the kernel task has none of its own. `JobOK` says
that the process under construction is nobody's and that a clone has no
table and no page its parent lacks. `PagesExact` alone is not inductive: that
`proc_free` gives back what `map_page` took needs the count of distinct pages, and that the
next page for a process was nobody's needs `Homes`. Every way out of the
making of a process is `FreeProc`, whatever has been mapped by then.

`SpaceIsProgram` speaks of the processes that run, so its invariant `SInv` says how far
the one being made has come (`Progress`): what is mapped, what is queued and what the
rest of the program header table touches are together the pages of the program, as
`load_from_prog_header` and `map_range` never drop or repeat a page at the border of two
segments; the user flag of a table is that of the first page mapped in it, and the stacks
come last; a copy has the flags of the original. When the stacks are mapped this is `Complete`,
which a clone of a complete process has again.

### File system

`FsProofs`, for any sizes of images, blocks, groups, entries and inodes that fit each other,
any files and paths to copy, any processes, descriptors and file objects, any sizes
read and any blocks that cannot be read:

| Theorem | States |
|---|---|
| `ImageInvariant` | `Spec => []ImageInv` |
| `FsckInvariant` | `Spec => []Fsck` |
| `RootInvariant` | `Spec => []RootInv` |
| `CopiedInvariant` | `Spec => []CopiedIsFound` |
| `FilesInvariant` | `Spec => []FilesOK` |
| `StreamInvariant` | `Spec => []StreamIsFile` |
| `TypeCorrect` | `Spec => []TypeOK` |

"Fit each other" is what the code's numbers do: an inode has pointers for at least as many
blocks as a group has (`GroupAssumption`; otherwise a directory could run out of
pointers), a name fits into an empty directory block and its length into `name_len`
(`NamesAssumption`), and a sector holds whole inodes
and a block whole sectors (`SectorAssumption`), without which `inode_read` of the kernel would
not find what `seek_inode` of the tool wrote.

`Fsck` asks that a block is taken exactly when something points to it. It is not
inductive: it speaks of the moments between two copies, and the blocks of a file that is
being written hang on no inode yet. `ImageInv` names what is true at each step. `Layout`
says that blocks and inodes are taken from the first group, from the lowest on, while
the other groups keep their metadata only: `bg_num` is 1 whatever the size, because of
how `alloc_block` computes it. `Sums` is the super block's counters. `AllOwned` says
that each block above the metadata has exactly one pointer, in the tree of an inode or
in that of the copy under way, which counts as one more tree. `DiskOK` says that what
the trees lead to was written, and that the entries of a directory name inodes in use
with their types; `JobOK` and `DataOK` say how far the copy has come: its inode is
empty, its blocks 0 to `k - 1` are on the disk and there is no other. Adding a node to a
tree is one lemma for the three kinds of indirect blocks (`Grown`), which rests on
`Path` being injective. That a directory finds a block with room or one to add is
counted: the group has no more blocks than a tree has places.

`CopiedIsFound` needs more of the directories. `RootInv` says that the root is the
only one, that no name is in it twice and no file has two names, that its blocks were added
in order, and that each file copied is there with its size and data, and apart
from the file that is being written. A path with a directory in it makes mkfs descend
into directories it has just made, which are empty, until it exits (finding 5 of section 5);
until then such a copy is `Lost` and `RootInv` claims nothing but that. From this follows
what `namex` finds, and that `get_bg_inode_table` and `inode_read` compute the places
that `seek_desc` and `seek_inode` wrote to.

`StreamIsFile` speaks of what was read, so `FilesOK` says what a file object means: it
was opened for the inode that its path leads to, no two descriptors share it, and the
bytes given out are those of its direct blocks up to `f_pos`. A directory block that cannot be
read hides names but shows no other ones, so an open that could read its metadata and
succeeds has the right inode. Of a file that was opened without (`stale`), `FilesOK` says
only that it is an object of its own; reads of it do not disturb the others.
`TypeCorrect` is more than types here: the counters, unsigned in the code, never fall
below 0, and no block outside of the image is written.

### Keyboard and screen

`TerminalProofs`, for any keys of `KeyCodes` (all that `MakeCode` knows, one or two of
each kind the code tells apart), any number of them held, any number of bytes
waiting, any formats with arguments of their types, any `PRINTK_SIZE` and any size of
the screen:

| Theorem | States |
|---|---|
| `Decoding` | `Spec => []DInv` |
| `StatesAreTyped` | `Spec => []StatesMatch` |
| `EchoTyped` | `Spec => EchoIsTyped` |
| `PrintsFit` | `Spec => []SInv` |
| `PrintsFormatted` | `Spec => []Formatted` |
| `PrintsAreShown` | `Spec => ScreenIsPaper` |

`StatesMatch` speaks of an empty buffer only, so it says nothing of the steps on the
way there. `DInv` says what a buffer with bytes in it means: `Behind(b, s, t, f)`, that
the bytes `b` fall into whole make codes, break codes and answers, which lead from the
states `s`, one by one, to the states `f`, and for which the characters `t` are to be
shown. With `key_states` for `s`, `typed` for `t`, and the modifiers held and the
locks that are on for `f`, this is kept because a key typed adds a code at the back
(`BehindAdd`), a round of the handler takes one from the front (`BehindRest`), and the
answers to `set_leds` may be put at either end, since they change nothing (`Answers`).
That the handler takes exactly the bytes of the first code, and does with them what the
typist meant, is `EventHandled`: it rests on `SendsKey`, which follows each code through
`scan_to_key_code` whatever comes behind it, and on `EchoMake`, which follows each
key with each set of modifiers through `apply_modify_keys` and the consumer. An answer,
and the break code of Home, are scanned as keys that are none, and change nothing.

`SInv` is that the screen is whole, with a cursor on it and a blank hidden row, and
that `vsnprintf` stayed in the buffer: it wrote at most `size` bytes, and the text it left
is shorter than that (`VsnprintfFits`, from `ItemRoom` and `PaddedRoom`; panic passes text of
one call to the next); and that the text is the one asked for. The hidden row has to stay blank because `scroll_up` copies it to the
last visible one. `ScreenIsPaper` is proved by running both side by side: `Agree(s, p)` says
that the screen `s` shows the end of the paper `p`, and `CharShown` that `put_char` and
writing on the paper keep it so, with scrolling exactly when the paper gets a new row
(`RowAdded`).

That the text is right is `VsnprintfFormats`. The reference writes a number with the powers of
the base, the code divides and turns the digits round; `UtoaNumeral` shows by induction
over the number that the digits so far are those below a power (`LowFirst`), and `PowGrows`
that there is one number of digits only. The largest negative `int` needs no
exception: its absolute value is below `UINT_MOD`. Padding and cutting are compared through
`IsCut(t, s, n)`, that `t` is as much of `s` as `n` bytes hold: `PaddedCut` for a field,
`PutCut` for one text behind another, and induction over the items for the rest.

### Induction

`NatFacts` has the induction these proofs use: it is stated for a *set* of numbers
and follows from the well-foundedness of the subset ordering of finite sets, because
theorems with an operator parameter cannot be applied here. That a function defined by
recursion exists, as the proofs about `vsnprintf`, `print_string` and `namex` need, is
`Recursion`, for a step that is itself a function.

### Only model-checked

All liveness (`Served`, `Completes`, `NoStarvation`, `DeadReleased`, `PressNoticed`),
which is outside of the prover's reach: each needs fairness. What the theorems about
`Ide` exclude, the lists after a request was linked behind an object being removed, is
in `ide_race`, and a tick inside of `slab_free` in `slab_race`.

## 7. Not modelled

The page table format, the registers of the IDE, PCI and PIT chips, descriptor
tables, stack frames and register save areas, colours on the screen and string
functions.
They are programmed once or have no state of the kernel's own; their effect on the
order of events is in section 1. In `Ide` an object is taken from the slab or given
back in one step; the steps between are in `SlabRace`. There a tick inside of the
move from list to list is left out: it would add behaviours to those that already
break the lists. In `Terminal` a byte that comes late, and the `E0 2A` that keyboards
send with Num Lock on, are left out (section 3); so are the memory regions
above 4 GB of a machine larger than that of `.bochsrc`.
Of the slab allocator, destroying a cache and the choice of a cache by `kmalloc` are
left out: nothing calls the first, and the second keeps no state. In `Fs` the drive is
the image, as in `.bochsrc`. `mkfs.c` on host files that cannot be opened or read is left
out, and so are names of more than 255 characters and a directory whose triple indirect
blocks are full.

## 8. Plan

What is left: runs of their own for what section 5 lists without one, the space that
mkfs promises and does not have, and the file table after fork and exit.
