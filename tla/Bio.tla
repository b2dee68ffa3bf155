-------------------------------- MODULE Bio --------------------------------
(***************************************************************************)
(* The block cache of kernel/bio.c: an LRU list of one-page buffers that   *)
(* processes acquire with bio_get, fill with bio_read, look at with        *)
(* bio_data and give back with bio_release, together with what the cache   *)
(* needs of its surroundings: the request queue of kernel/ide.c seen from  *)
(* above, the kernel task that completes requests, and the state of the    *)
(* processes that sleep in it.                                             *)
(*                                                                         *)
(* A system call runs with interrupts off and leaves the CPU only where it *)
(* calls sched(), so one action is the code between two such points, and   *)
(* `cpu' names the process that is inside the kernel.  The kernel task     *)
(* runs with interrupts on: a completion is two actions, because a timer   *)
(* tick can fall between the load of bio->sleep and close_int().           *)
(***************************************************************************)
EXTENDS Integers, Sequences

CONSTANTS
    Procs,              \* user processes
    NoProc,             \* a NULL struct process *
    Devs,               \* drive numbers
    Sectors,            \* the sectors processes ask for
    SECTORS_PER_BIO,    \* 8 in the code
    MAX_CACHE_COUNT,    \* 4096 in the code
    PageOutcomes,       \* what pmm_alloc_page_address may do: TRUE is success
    ExtraOps,           \* interface functions nothing in the tree calls:
                        \* subset of {"write", "advance"}
    MaxErrors           \* bound on the requests the disk fails

ASSUME ProcsAssumption == NoProc \notin Procs
ASSUME DevsAssumption == Devs \subseteq 0..255
ASSUME SectorsAssumption == Sectors \subseteq Nat
ASSUME SpbAssumption == SECTORS_PER_BIO \in Nat \ {0}
ASSUME CacheAssumption == MAX_CACHE_COUNT \in Nat \ {0}
ASSUME OutcomesAssumption == PageOutcomes \subseteq BOOLEAN
ASSUME ErrorsAssumption == MaxErrors \in Nat

\* struct bio objects, numbered in the order slab_alloc_bio makes them (they
\* are never freed).  0 is bio_cache_head, whose only used field is sleep;
\* as the value of a pointer that should name a bio, 0 is "no bio".
Bios == 1..MAX_CACHE_COUNT
Head0 == 0

UPDATED == "UPDATED"
DIRTY == "DIRTY"
REFFED == "REFFED"
Flags == {UPDATED, DIRTY, REFFED}

Blocks == Nat \X Nat    \* <<drive, sector>>
NoBlock == <<>>         \* nothing looked at yet
Garbage == <<0>>        \* the content of a buffer no read has filled

BASE_SECTOR(s) == (s \div SECTORS_PER_BIO) * SECTORS_PER_BIO

VARIABLES
    lru,                \* the bio list from bio_cache_head.next on
    bio_cache_count,
    flag, dev, sector, iter,    \* the fields of each bio
    buffer,             \* the block whose data each buffer holds
    sleep,              \* the chain of processes sleeping on a bio or on Head0
    state,              \* process->state
    pc, mybio, req,     \* where a process is in bio.c, its bio and its request
    res, data,          \* what bio_read and bio_data returned to it
    cpu,                \* the process inside the kernel, or NoProc
    ioq,                \* requests queued on the bus, oldest first
    done,               \* the completion the kernel task is in the middle of
    errs,               \* requests failed so far
    panic

cacheVars == <<lru, bio_cache_count, flag, dev, sector, iter, buffer>>
procVars == <<pc, mybio, req, res, data, cpu>>
ioVars == <<ioq, done, errs>>
vars == <<cacheVars, sleep, state, procVars, ioVars, panic>>

NoIo == [kind |-> "none", data |-> 0, bio |-> 0, proc |-> NoProc, error |-> FALSE]

\* bio_initialize: an empty list; no process is inside the cache.
Init ==
    /\ lru = <<>>
    /\ bio_cache_count = 0
    /\ flag = [b \in Bios |-> {}]
    /\ dev = [b \in Bios |-> 0]
    /\ sector = [b \in Bios |-> 0]
    /\ iter = [b \in Bios |-> 0]
    /\ buffer = [b \in Bios |-> Garbage]
    /\ sleep = [b \in Bios \cup {Head0} |-> <<>>]
    /\ state = [p \in Procs |-> "RUNNING"]
    /\ pc = [p \in Procs |-> "idle"]
    /\ mybio = [p \in Procs |-> 0]
    /\ req = [p \in Procs |-> <<0, 0>>]
    /\ res = [p \in Procs |-> "none"]
    /\ data = [p \in Procs |-> NoBlock]
    /\ cpu = NoProc
    /\ ioq = <<>>
    /\ done = NoIo
    /\ errs = 0
    /\ panic = FALSE

-----------------------------------------------------------------------------
(* Looking a bio up.  Both searches return a set with at most one bio.     *)

Busy(b) == flag[b] \cap {REFFED, DIRTY} # {}

Matches(b, d, s) == dev[b] = d /\ sector[b] = s

\* Mutant: busy bios are passed over.
find_bio_skips_busy(d, s) ==
    {lru[i] : i \in {k \in DOMAIN lru : Matches(lru[k], d, s) /\ ~Busy(lru[k])}}

\* The bio nearest the head of the list that caches the block.
find_bio(d, s) ==
    {lru[i] : i \in {k \in DOMAIN lru :
                        /\ Matches(lru[k], d, s)
                        /\ \A j \in 1..(k - 1) : ~Matches(lru[j], d, s)}}

\* Mutant: the tail of the list, whatever its flags.
find_unused_bio_any == {lru[i] : i \in {k \in DOMAIN lru : k = Len(lru)}}

\* The bio nearest the tail that is neither referenced nor being written.
find_unused_bio ==
    {lru[i] : i \in {k \in DOMAIN lru :
                        /\ ~Busy(lru[k])
                        /\ \A j \in (k + 1)..Len(lru) : Busy(lru[j])}}

-----------------------------------------------------------------------------
(* Sleeping and waking.                                                    *)

\* Mutant: the new sleeper replaces the chain.
sleep_wait_bio_overwrite(p, b, where) ==
    /\ sleep' = [sleep EXCEPT ![b] = <<p>>]
    /\ state' = [state EXCEPT ![p] = "IO"]
    /\ pc' = [pc EXCEPT ![p] = where]
    /\ mybio' = [mybio EXCEPT ![p] = b]
    /\ cpu' = NoProc

\* Append the running process to the chain of b and give up the CPU.
sleep_wait_bio(p, b, where) ==
    /\ sleep' = [sleep EXCEPT ![b] = Append(@, p)]
    /\ state' = [state EXCEPT ![p] = "IO"]
    /\ pc' = [pc EXCEPT ![p] = where]
    /\ mybio' = [mybio EXCEPT ![p] = b]
    /\ cpu' = NoProc

\* Mutant: the reader queues up behind the processes waiting for the bio.
sleep_wait_bio_complete_at_end(p, b) ==
    /\ sleep' = [sleep EXCEPT ![b] = Append(@, p)]
    /\ state' = [state EXCEPT ![p] = "IO"]
    /\ pc' = [pc EXCEPT ![p] = "waitIO"]
    /\ cpu' = NoProc

\* The reader of b goes to the front of the chain.
sleep_wait_bio_complete(p, b) ==
    /\ sleep' = [sleep EXCEPT ![b] = <<p>> \o @]
    /\ state' = [state EXCEPT ![p] = "IO"]
    /\ pc' = [pc EXCEPT ![p] = "waitIO"]
    /\ cpu' = NoProc

\* Mutant: the processes waiting on the list head are forgotten.
wake_up_own_chain_only(b) ==
    IF sleep[b] # <<>>
    THEN /\ sleep' = [sleep EXCEPT ![b] = Tail(@)]
         /\ state' = [state EXCEPT ![Head(sleep[b])] = "RUNNING"]
    ELSE UNCHANGED <<sleep, state>>

\* Wake the first process on b's chain, or else the first that waits for
\* any bio at all.
wake_up_sleep_process(b) ==
    LET c == IF sleep[b] # <<>> THEN b ELSE Head0
    IN  IF sleep[c] # <<>>
        THEN /\ sleep' = [sleep EXCEPT ![c] = Tail(@)]
             /\ state' = [state EXCEPT ![Head(sleep[c])] = "RUNNING"]
        ELSE UNCHANGED <<sleep, state>>

-----------------------------------------------------------------------------
(* bio_get.                                                                *)

\* Mutant: the iterator of a reused bio is not set.
Take_keeps_iter(p, b, f, d, base, s) ==
    /\ lru' = <<b>> \o SelectSeq(lru, LAMBDA x : x # b)
    /\ flag' = [flag EXCEPT ![b] = f \cup {REFFED}]
    /\ dev' = [dev EXCEPT ![b] = d]
    /\ sector' = [sector EXCEPT ![b] = base]
    /\ pc' = [pc EXCEPT ![p] = "held"]
    /\ mybio' = [mybio EXCEPT ![p] = b]
    /\ cpu' = p
    /\ UNCHANGED <<iter, sleep, state>>

\* The end of bio_get: b, free and with the given fields, moves to the front
\* of the list and is referenced.  iter is a uint8_t.
Take(p, b, f, d, base, s) ==
    /\ \/ /\ \A i \in DOMAIN lru : lru[i] # b
          /\ lru' = <<b>> \o lru
       \/ \E i \in DOMAIN lru :
            /\ lru[i] = b
            /\ lru' = <<b>> \o SubSeq(lru, 1, i - 1)
                         \o SubSeq(lru, i + 1, Len(lru))
    /\ flag' = [flag EXCEPT ![b] = f \cup {REFFED}]
    /\ dev' = [dev EXCEPT ![b] = d]
    /\ sector' = [sector EXCEPT ![b] = base]
    /\ iter' = [iter EXCEPT ![b] = (s - base) % 256]
    /\ pc' = [pc EXCEPT ![p] = "held"]
    /\ mybio' = [mybio EXCEPT ![p] = b]
    /\ cpu' = p
    /\ UNCHANGED <<sleep, state>>

\* Mutant: <= for < in the test of the limit.
alloc_bio_off_by_one(p, r) ==
    \/ /\ bio_cache_count <= MAX_CACHE_COUNT /\ TRUE \in PageOutcomes
       /\ bio_cache_count' = bio_cache_count + 1
       /\ Take(p, bio_cache_count + 1, {}, r[1], BASE_SECTOR(r[2]), r[2])
    \/ /\ find_unused_bio = {}
       /\ sleep_wait_bio(p, Head0, "waitHead")
       /\ UNCHANGED <<lru, bio_cache_count, flag, dev, sector, iter>>

\* The loop of alloc_bio from its top, for a request that found no bio: a
\* new bio, else an unused one, else sleep on the list head.
alloc_bio(p, r) ==
    LET full == bio_cache_count = MAX_CACHE_COUNT
    IN  \/ /\ ~full /\ TRUE \in PageOutcomes
           /\ bio_cache_count' = bio_cache_count + 1
           /\ Take(p, bio_cache_count + 1, {}, r[1], BASE_SECTOR(r[2]), r[2])
        \/ /\ full \/ FALSE \in PageOutcomes
           /\ \E b \in find_unused_bio :
                Take(p, b, {}, r[1], BASE_SECTOR(r[2]), r[2])
           /\ UNCHANGED bio_cache_count
        \/ /\ full \/ FALSE \in PageOutcomes
           /\ find_unused_bio = {}
           /\ sleep_wait_bio(p, Head0, "waitHead")
           /\ UNCHANGED <<lru, bio_cache_count, flag, dev, sector, iter>>

\* The loop of bio_get that waits for the bio it found.
get_loop(p, b, r) ==
    \/ /\ Busy(b)
       /\ sleep_wait_bio(p, b, "waitBio")
       /\ UNCHANGED <<lru, bio_cache_count, flag, dev, sector, iter>>
    \/ /\ ~Busy(b)
       /\ Take(p, b, flag[b], dev[b], sector[b], r[2])
       /\ UNCHANGED bio_cache_count

\* The CPU is free for p and p is runnable.
CanRun(p) == ~panic /\ cpu = NoProc /\ state[p] = "RUNNING"

\* A process asks for a sector.
bio_get(p) ==
    /\ CanRun(p)
    /\ pc[p] = "idle"
    /\ \E r \in Devs \X Sectors :
        /\ req' = [req EXCEPT ![p] = r]
        /\ \/ \E b \in find_bio(r[1], BASE_SECTOR(r[2])) : get_loop(p, b, r)
           \/ /\ find_bio(r[1], BASE_SECTOR(r[2])) = {}
              /\ alloc_bio(p, r)
    /\ UNCHANGED <<buffer, res, data, ioVars, panic>>

\* sched() returns inside alloc_bio: the loop goes round again, without
\* looking for the block a second time.
alloc_bio_resume(p) ==
    /\ CanRun(p)
    /\ pc[p] = "waitHead"
    /\ alloc_bio(p, req[p])
    /\ UNCHANGED <<buffer, req, res, data, ioVars, panic>>

\* Mutant: `if' for `while', the flags are not tested again.
bio_get_resume_no_recheck(p) ==
    /\ CanRun(p)
    /\ pc[p] = "waitBio"
    /\ Take(p, mybio[p], flag[mybio[p]], dev[mybio[p]], sector[mybio[p]], req[p][2])
    /\ UNCHANGED <<bio_cache_count, buffer, req, res, data, ioVars, panic>>

\* sched() returns inside bio_get: the flags are tested again on the bio
\* found before the sleep.
bio_get_resume(p) ==
    /\ CanRun(p)
    /\ pc[p] = "waitBio"
    /\ get_loop(p, mybio[p], req[p])
    /\ UNCHANGED <<buffer, req, res, data, ioVars, panic>>

-----------------------------------------------------------------------------
(* What the holder of a bio does with it.                                  *)

InKernel(p) == ~panic /\ cpu = p /\ pc[p] = "held"

\* The queue of the bus as the cache uses it: dma_io_sectors appends.
Request(kind, dst, bio) ==
    [kind |-> kind, data |-> dst, bio |-> bio,
     block |-> <<dev[bio], sector[bio]>>]

\* A bio that is up to date is returned as it is.
bio_read_cached(p) ==
    /\ InKernel(p)
    /\ res[p] = "none"
    /\ UPDATED \in flag[mybio[p]]
    /\ res' = [res EXCEPT ![p] = "ok"]
    /\ UNCHANGED <<cacheVars, sleep, state, pc, mybio, req, data, cpu, ioVars, panic>>

\* Otherwise the reader queues a request and sleeps until it completes.
bio_read(p) ==
    LET b == mybio[p]
    IN  /\ InKernel(p)
        /\ res[p] = "none"
        /\ UPDATED \notin flag[b]
        /\ ioq' = Append(ioq, Request("read", b, b))
        /\ sleep_wait_bio_complete(p, b)
        /\ UNCHANGED <<cacheVars, mybio, req, res, data, done, errs, panic>>

\* sched() returns inside bio_read.
bio_read_resume(p) ==
    /\ CanRun(p)
    /\ pc[p] = "waitIO"
    /\ pc' = [pc EXCEPT ![p] = "held"]
    /\ cpu' = p
    /\ res' = [res EXCEPT ![p] = IF UPDATED \in flag[mybio[p]] THEN "ok" ELSE "fail"]
    /\ UNCHANGED <<cacheVars, sleep, state, mybio, req, data, ioVars, panic>>

\* The sector the iterator points to, or a panic past the end of the buffer.
bio_data(p) ==
    LET b == mybio[p]
    IN  /\ InKernel(p)
        /\ res[p] # "none"
        /\ IF iter[b] < SECTORS_PER_BIO
           THEN /\ data' = [data EXCEPT ![p] =
                               IF buffer[b] = Garbage THEN Garbage
                               ELSE <<buffer[b][1], buffer[b][2] + iter[b]>>]
                /\ UNCHANGED panic
           ELSE panic' = TRUE /\ UNCHANGED data
        /\ UNCHANGED <<cacheVars, sleep, state, pc, mybio, req, res, cpu, ioVars>>

\* The holder asks for the sector after the one it had.
bio_advance_iter(p) ==
    LET b == mybio[p]
    IN  /\ "advance" \in ExtraOps
        /\ InKernel(p)
        /\ iter[b] < SECTORS_PER_BIO
        /\ iter' = [iter EXCEPT ![b] = (@ + 1) % 256]
        /\ req' = [req EXCEPT ![p] = <<@[1], @[2] + 1>>]
        /\ data' = [data EXCEPT ![p] = NoBlock]
        /\ UNCHANGED <<lru, bio_cache_count, flag, dev, sector, buffer, sleep,
                       state, pc, mybio, res, cpu, ioVars, panic>>

\* The io.data of bio_write is never assigned: the request carries whatever
\* the stack slot held, an older bio pointer or something else (0).
bio_write(p) ==
    LET b == mybio[p]
    IN  /\ "write" \in ExtraOps
        /\ InKernel(p)
        /\ res[p] # "written"
        /\ flag' = [flag EXCEPT ![b] = (@ \cup {DIRTY}) \ {UPDATED}]
        /\ \E g \in 0..bio_cache_count :
            ioq' = Append(ioq, Request("write", g, b))
        /\ res' = [res EXCEPT ![p] = "written"]
        /\ UNCHANGED <<lru, bio_cache_count, dev, sector, iter, buffer, sleep,
                       state, pc, mybio, req, data, cpu, done, errs, panic>>

\* Mutant: a release wakes nobody.
bio_release_no_wake(p) ==
    /\ InKernel(p)
    /\ flag' = [flag EXCEPT ![mybio[p]] = @ \ {REFFED}]
    /\ pc' = [pc EXCEPT ![p] = "idle"]
    /\ mybio' = [mybio EXCEPT ![p] = 0]
    /\ req' = [req EXCEPT ![p] = <<0, 0>>]
    /\ res' = [res EXCEPT ![p] = "none"]
    /\ data' = [data EXCEPT ![p] = NoBlock]
    /\ cpu' = NoProc
    /\ UNCHANGED <<lru, bio_cache_count, dev, sector, iter, buffer, sleep, state,
                   ioVars, panic>>

\* Give the bio back.
bio_release(p) ==
    LET b == mybio[p]
    IN  /\ InKernel(p)
        /\ flag' = [flag EXCEPT ![b] = @ \ {REFFED}]
        /\ IF DIRTY \in flag[b] THEN UNCHANGED <<sleep, state>>
                                ELSE wake_up_sleep_process(b)
        /\ pc' = [pc EXCEPT ![p] = "idle"]
        /\ mybio' = [mybio EXCEPT ![p] = 0]
        /\ req' = [req EXCEPT ![p] = <<0, 0>>]
        /\ res' = [res EXCEPT ![p] = "none"]
        /\ data' = [data EXCEPT ![p] = NoBlock]
        /\ cpu' = NoProc
        /\ UNCHANGED <<lru, bio_cache_count, dev, sector, iter, buffer, ioVars,
                       panic>>

-----------------------------------------------------------------------------
(* Completion, in the kernel task.                                         *)

\* The kernel task finds the oldest request finished, takes it off the queue
\* and enters its complete_func, which loads bio->sleep with interrupts on.
io_complete(error) ==
    LET io == Head(ioq)
    IN  /\ ~panic /\ cpu = NoProc
        /\ done = NoIo
        /\ ioq # <<>>
        /\ error => errs < MaxErrors
        /\ errs' = IF error THEN errs + 1 ELSE errs
        /\ ioq' = Tail(ioq)
        /\ done' = [kind |-> io.kind, data |-> io.data, bio |-> io.bio, error |-> error,
                    proc |-> IF io.kind = "read" /\ sleep[io.data] # <<>>
                             THEN Head(sleep[io.data]) ELSE NoProc]
        /\ buffer' = IF io.kind = "read"
                     THEN [buffer EXCEPT ![io.bio] =
                             IF error THEN Garbage ELSE io.block]
                     ELSE buffer
        /\ UNCHANGED <<lru, bio_cache_count, flag, dev, sector, iter, sleep,
                       state, procVars, panic>>

\* Mutant: a failed read leaves the bio marked up to date.
ide_read_complete_ignores_error ==
    LET b == done.data
    IN  /\ ~panic /\ cpu = NoProc
        /\ done.kind = "read"
        /\ done' = NoIo
        /\ flag' = [flag EXCEPT ![b] = @ \cup {UPDATED}]
        /\ sleep' = [sleep EXCEPT ![b] = Tail(@)]
        /\ state' = [state EXCEPT ![done.proc] = "RUNNING"]
        /\ UNCHANGED <<lru, bio_cache_count, dev, sector, iter, buffer,
                       procVars, ioq, errs, panic>>

\* The rest of ide_read_complete, under close_int: bio->sleep becomes what
\* follows the process loaded before.
ide_read_complete ==
    LET b == done.data
    IN  /\ ~panic /\ cpu = NoProc
        /\ done.kind = "read"
        /\ done' = NoIo
        /\ flag' = IF done.error THEN flag
                   ELSE [flag EXCEPT ![b] = @ \cup {UPDATED}]
        /\ \/ \E i \in DOMAIN sleep[b] :
                /\ sleep[b][i] = done.proc
                /\ sleep' = [sleep EXCEPT ![b] = SubSeq(@, i + 1, Len(@))]
                /\ state' = [state EXCEPT ![done.proc] = "RUNNING"]
                /\ UNCHANGED panic
           \/ /\ \A i \in DOMAIN sleep[b] : sleep[b][i] # done.proc
              /\ panic' = TRUE
              /\ UNCHANGED <<sleep, state>>
        /\ UNCHANGED <<lru, bio_cache_count, dev, sector, iter, buffer,
                       procVars, ioq, errs>>

\* ide_write_complete, under close_int, on the bio that io.data points to.
\* Through any other pointer it touches memory outside the cache.
ide_write_complete ==
    LET b == done.data
    IN  /\ ~panic /\ cpu = NoProc
        /\ done.kind = "write"
        /\ done' = NoIo
        /\ IF b = 0
           THEN UNCHANGED <<flag, sleep, state>>
           ELSE /\ flag' = [flag EXCEPT ![b] =
                              (IF done.error THEN @ ELSE @ \cup {UPDATED}) \ {DIRTY}]
                /\ IF REFFED \in flag[b] THEN UNCHANGED <<sleep, state>>
                                         ELSE wake_up_sleep_process(b)
        /\ UNCHANGED <<lru, bio_cache_count, dev, sector, iter, buffer,
                       procVars, ioq, errs, panic>>

\* After panic() nothing runs.
Halted == panic /\ UNCHANGED vars

-----------------------------------------------------------------------------
resume(p) == alloc_bio_resume(p) \/ bio_get_resume(p) \/ bio_read_resume(p)

ktask ==
    \/ \E error \in BOOLEAN : io_complete(error)
    \/ ide_read_complete
    \/ ide_write_complete

Next ==
    \/ \E p \in Procs :
        \/ resume(p)
        \/ bio_get(p) \/ bio_read_cached(p) \/ bio_read(p)
        \/ bio_data(p) \/ bio_advance_iter(p) \/ bio_write(p)
        \/ bio_release(p)
    \/ ktask
    \/ Halted

Spec == Init /\ [][Next]_vars

\* The scheduler is round robin and the kernel task never sleeps, so every
\* runnable process and the kernel task get the CPU again and again, however
\* often others have it (strong fairness); a process inside the kernel runs
\* on and gives its bio back (weak fairness); the disk finishes a request.
Fairness ==
    /\ \A p \in Procs :
        /\ SF_vars(resume(p))
        /\ WF_vars(bio_release(p))
    /\ SF_vars(ktask)

FairSpec == Spec /\ Fairness

-----------------------------------------------------------------------------
(* Properties.                                                             *)

Requests == [kind : {"read", "write"}, data : 0..MAX_CACHE_COUNT, bio : Bios,
             block : Blocks]

\* The types of the variables: a bio's fields, the chains of sleepers, the
\* queue of requests of kernel/ide.c.
TypeOK ==
    /\ lru \in Seq(Bios)
    /\ bio_cache_count \in 0..MAX_CACHE_COUNT
    /\ flag \in [Bios -> SUBSET Flags]
    /\ dev \in [Bios -> Nat]
    /\ sector \in [Bios -> Nat]
    /\ iter \in [Bios -> 0..255]
    /\ buffer \in [Bios -> Blocks \cup {Garbage}]
    /\ sleep \in [Bios \cup {Head0} -> Seq(Procs)]
    /\ state \in [Procs -> {"RUNNING", "IO"}]
    /\ pc \in [Procs -> {"idle", "waitHead", "waitBio", "held", "waitIO"}]
    /\ mybio \in [Procs -> 0..MAX_CACHE_COUNT]
    /\ req \in [Procs -> Nat \X Nat]
    /\ res \in [Procs -> {"none", "ok", "fail", "written"}]
    /\ data \in [Procs -> Blocks \cup {NoBlock, Garbage}]
    /\ cpu \in Procs \cup {NoProc}
    /\ ioq \in Seq(Requests)
    /\ done \in [kind : {"none", "read", "write"}, data : 0..MAX_CACHE_COUNT,
                 bio : 0..MAX_CACHE_COUNT, proc : Procs \cup {NoProc},
                 error : BOOLEAN]
    /\ errs \in 0..MaxErrors
    /\ panic \in BOOLEAN

\* p is between the return of bio_get and bio_release.
Holds(p, b) == pc[p] \in {"held", "waitIO"} /\ mybio[p] = b

\* bio_get hands a bio to one process at a time, BIO_FLAG_REFFED is set exactly
\* while some process has it, and no reference is leaked: whatever the order
\* of the sleeps, wake-ups and reuses in between.
MutualExclusion ==
    /\ \A b \in Bios : REFFED \in flag[b] <=> \E p \in Procs : Holds(p, b)
    /\ \A b \in Bios : \A p, q \in Procs : Holds(p, b) /\ Holds(q, b) => p = q

\* A process is asleep exactly when it is on the chain of the bio (or of the
\* list head) it waits for; it is there once, and on no other chain.  A process
\* that is asleep but on no chain can never be woken.
SleepChains ==
    /\ \A p \in Procs : state[p] = "IO" =>
        /\ pc[p] \in {"waitHead", "waitBio", "waitIO"}
        /\ \E i \in DOMAIN sleep[mybio[p]] : sleep[mybio[p]][i] = p
    /\ \A b \in Bios \cup {Head0} : \A i \in DOMAIN sleep[b] :
        /\ state[sleep[b][i]] = "IO"
        /\ mybio[sleep[b][i]] = b
        /\ \A j \in DOMAIN sleep[b] : i # j => sleep[b][i] # sleep[b][j]

IsReader(p, b) == pc[p] = "waitIO" /\ mybio[p] = b

\* While a read into a bio is pending its reader stays at the front of the
\* bio's chain, ahead of every process that came to wait for the bio, and the
\* process that ide_read_complete loaded before close_int is still the one to
\* wake when it goes on.
ReaderFirst ==
    /\ \A i \in DOMAIN ioq : ioq[i].kind = "read" =>
        /\ sleep[ioq[i].data] # <<>>
        /\ IsReader(Head(sleep[ioq[i].data]), ioq[i].data)
    /\ done.kind = "read" =>
        /\ sleep[done.data] # <<>>
        /\ IsReader(done.proc, done.data)
        /\ done.proc = Head(sleep[done.data])

ReadPending(b) ==
    \/ \E i \in DOMAIN ioq : ioq[i].kind = "read" /\ ioq[i].data = b
    \/ done.kind = "read" /\ done.data = b

\* From the moment a read is queued until its completion has run, the bio is
\* not given away, reused for another block or moved to another sector: the
\* DMA never lands in a buffer that has changed hands.
PendingReadPinned ==
    [][\A b \in Bios : ReadPending(b) =>
        /\ REFFED \in flag'[b]
        /\ dev'[b] = dev[b] /\ sector'[b] = sector[b] /\ iter'[b] = iter[b]]_vars

\* The bio a process has from bio_get is the one of the block it asked for,
\* and its iterator points to the sector it asked for.
HeldIsRequested ==
    \A p \in Procs : pc[p] = "held" =>
        /\ dev[mybio[p]] = req[p][1]
        /\ sector[mybio[p]] + iter[mybio[p]] = req[p][2]

\* What bio_data shows after a bio_read that returned true is the sector the
\* process asked for.
DataIsRequested ==
    \A p \in Procs : res[p] = "ok" /\ data[p] # NoBlock => data[p] = req[p]

\* A block is cached by at most one bio.
OneBioPerBlock ==
    \A i, j \in DOMAIN lru : i # j =>
        ~Matches(lru[i], dev[lru[j]], sector[lru[j]])

\* Processes never wait for any bio at all (alloc_bio) while the whole cache
\* lies unused and nobody is on the way to use it: the single wake-up that
\* bio_release and ide_write_complete give is passed on.
NoStall ==
    sleep[Head0] # <<>> =>
        \/ lru = <<>>
        \/ \E b \in Bios : Busy(b)
        \/ \E p \in Procs : pc[p] \in {"waitHead", "waitBio"} /\ state[p] = "RUNNING"

\* A process that sleeps in bio_get or bio_read gets its bio in the end.
Served ==
    \A p \in Procs : pc[p] \in {"waitHead", "waitBio", "waitIO"} ~> pc[p] = "held"
=============================================================================
