-------------------------------- MODULE Ide --------------------------------
(***************************************************************************)
(* The DMA request queues of kernel/ide.c, one per bus, at the level of    *)
(* the pointers of struct dma_io_data.                                     *)
(*                                                                         *)
(* A system call submits a request with interrupts off, in one step.  The  *)
(* kernel task polls the buses with interrupts on; a timer tick can put a  *)
(* system call between any two of its accesses to the lists, so its code   *)
(* is one action per such access.  Before scheduler() is called the boot   *)
(* code submits one request at a time and polls for it itself              *)
(* (sync_io_sectors), with the same code and nobody to interleave with.    *)
(*                                                                         *)
(* In one window a tick does harm: a request that is linked behind the     *)
(* object the kernel task is removing is lost.  `raced' records that this  *)
(* has happened; QueuedOnList states that it does not, which TLC refutes,  *)
(* and the other properties say what holds as long as it has not.          *)
(***************************************************************************)
EXTENDS Integers, Sequences, FiniteSets

CONSTANTS
    BusCount,       \* IDE_ATA_BUS_COUNT, 2 in the code
    Drives,         \* drives[]: drive number -> [exist, bus, sectors]
    Io,             \* the requests callers can make, a sequence of the fields
                    \* [drive, start, sector_count, size] of struct ide_dma_io
    SlotCount,      \* struct dma_io_data objects of io_data_cache
    SECTOR_SIZE,    \* 512 in the code
    MaxErrors       \* bound on the transfers that fail

ASSUME BusAssumption == BusCount \in Nat \ {0}
ASSUME ErrorsAssumption == MaxErrors \in Nat
ASSUME IoAssumption ==
    Io \in Seq([drive : Nat, start : Nat, sector_count : Nat, size : Nat])
\* ide_initialize sets the drives up bus by bus.
ASSUME DrivesAssumption == \A d \in DOMAIN Drives : Drives[d].bus \in 0..BusCount - 1
\* slab_alloc does not run out: an object for every request, and one that the
\* kernel task has not freed yet.
ASSUME SlotsAssumption == SlotCount \in Nat /\ SlotCount > Len(Io)

Reqs == DOMAIN Io
Buses == 0..BusCount - 1        \* the list head of bus b is b itself
Slots == BusCount..BusCount + SlotCount - 1
Nodes == Buses \cup Slots
NULL == -1
DriveBus(d) == Drives[d].bus
BusOf(r) == IF Io[r].drive \in DOMAIN Drives THEN DriveBus(Io[r].drive) ELSE 0

VARIABLES
    next, prev,     \* the links of the heads and the objects
    freeSlots,      \* the free array of io_data_cache's slab page, a stack
    io, retry,      \* the other fields of the objects
    dev,            \* each bus: its command and bus master status bits
    errs,           \* failed transfers so far
    phase,          \* "boot" before scheduler(), then "run"
    kpc,            \* where the code that polls is, "idle" in sched()
    bus,            \* locals: bus of check_if_io_complete,
    dma_data,       \*   its request object,
    nextReg,        \*   dma_data->next kept in a register,
    error, done,    \*   the arguments of the completion function
    pending,        \* requests submitted whose completion was not called
    outcome,        \* what the last completion call of a request said
    moved, failed,  \* since r was submitted: did the device transfer it, how
                    \* often did it fail (bookkeeping for the properties)
    panic,
    raced           \* a request was linked behind an object being removed
                    \* (bookkeeping for the properties)

list == <<next, prev, freeSlots, io, retry>>
task == <<phase, kpc, bus, dma_data, nextReg, error, done>>
seen == <<pending, outcome, moved, failed>>
vars == <<list, task, seen, dev, errs, panic, raced>>

Idle == [cmd |-> NULL, active |-> FALSE, err |-> FALSE]

\* initialize_io_data: every list is empty.
Init ==
    /\ next = [n \in Nodes |-> IF n \in Buses THEN n ELSE NULL]
    /\ prev = [n \in Nodes |-> IF n \in Buses THEN n ELSE NULL]
    /\ freeSlots = [i \in 1..SlotCount |-> BusCount + i - 1]
    /\ io = [s \in Slots |-> NULL]
    /\ retry = [s \in Slots |-> 0]
    /\ dev = [b \in Buses |-> Idle]
    /\ errs = 0
    /\ phase = "boot" /\ kpc = "idle" /\ bus = 0 /\ dma_data = NULL
    /\ nextReg = NULL /\ error = FALSE /\ done = NULL
    /\ pending = {}
    /\ outcome = [r \in Reqs |-> "none"]
    /\ moved = [r \in Reqs |-> FALSE]
    /\ failed = [r \in Reqs |-> 0]
    /\ panic = FALSE /\ raced = FALSE

-----------------------------------------------------------------------------
(* The device.  External: the code sees only the bus master status.        *)

\* start_io_operation: the command replaces whatever the bus was doing.  It
\* does not write the status register, so an error bit that is set stays set.
start_io_operation(b, r) ==
    dev' = [dev EXCEPT ![b] = [@ EXCEPT !.cmd = r, !.active = TRUE]]

transfer(b) ==
    /\ dev[b].active
    /\ dev' = [dev EXCEPT ![b].active = FALSE]
    /\ moved' = [moved EXCEPT ![dev[b].cmd] = TRUE]
    /\ UNCHANGED <<list, task, pending, outcome, failed, errs, panic, raced>>

transfer_fails(b) ==
    /\ dev[b].active
    /\ errs < MaxErrors
    /\ errs' = errs + 1
    /\ dev' = [dev EXCEPT ![b].active = FALSE, ![b].err = TRUE]
    /\ failed' = [failed EXCEPT ![dev[b].cmd] = @ + 1]
    /\ UNCHANGED <<list, task, pending, outcome, moved, panic, raced>>

-----------------------------------------------------------------------------
(* Submitting a request.                                                   *)

\* check_drive: the request stays on its drive.
check_drive(r) ==
    /\ Io[r].drive \in DOMAIN Drives
    /\ Drives[Io[r].drive].exist
    /\ Io[r].start < Drives[Io[r].drive].sectors
    /\ Drives[Io[r].drive].sectors - Io[r].start >= Io[r].sector_count
    /\ Io[r].size = Io[r].sector_count * SECTOR_SIZE

Empty(b) == next[b] = b

\* dma_io_sectors putting the object at the front (mutant).
dma_io_sectors_front(r) ==
    LET b == BusOf(r)
        s == Head(freeSlots)
    IN  /\ freeSlots' = Tail(freeSlots)
        /\ io' = [io EXCEPT ![s] = r]
        /\ retry' = [retry EXCEPT ![s] = 0]
        /\ IF Empty(b) THEN start_io_operation(b, r) ELSE UNCHANGED dev
        /\ next' = [next EXCEPT ![s] = next[b], ![b] = s]
        /\ prev' = [prev EXCEPT ![s] = b, ![next[b]] = s]

\* dma_io_sectors storing head->prev before head->prev->next (mutant).
dma_io_sectors_swapped(r) ==
    LET b == BusOf(r)
        s == Head(freeSlots)
    IN  /\ freeSlots' = Tail(freeSlots)
        /\ io' = [io EXCEPT ![s] = r]
        /\ retry' = [retry EXCEPT ![s] = 0]
        /\ IF Empty(b) THEN start_io_operation(b, r) ELSE UNCHANGED dev
        /\ next' = [next EXCEPT ![s] = s]
        /\ prev' = [prev EXCEPT ![s] = prev[b], ![b] = s]

\* dma_io_sectors starting every request at once (mutant).
dma_io_sectors_start(r) ==
    LET b == BusOf(r)
        s == Head(freeSlots)
    IN  /\ freeSlots' = Tail(freeSlots)
        /\ io' = [io EXCEPT ![s] = r]
        /\ retry' = [retry EXCEPT ![s] = 0]
        /\ start_io_operation(b, r)
        /\ next' = [next EXCEPT ![s] = b, ![prev[b]] = s]
        /\ prev' = [prev EXCEPT ![s] = prev[b], ![b] = s]

\* The object is started if the list is empty and then put at its end.
dma_io_sectors(r) ==
    LET b == BusOf(r)
        s == Head(freeSlots)
    IN  /\ freeSlots' = Tail(freeSlots)
        /\ io' = [io EXCEPT ![s] = r]
        /\ retry' = [retry EXCEPT ![s] = 0]
        /\ IF Empty(b) THEN start_io_operation(b, r) ELSE UNCHANGED dev
        /\ next' = [next EXCEPT ![s] = b, ![prev[b]] = s]
        /\ prev' = [prev EXCEPT ![s] = prev[b], ![b] = s]

\* ide_dma_read_sectors and ide_dma_write_sectors.
ide_dma_sectors(r) ==
    /\ r \notin pending
    /\ IF check_drive(r)
       THEN /\ dma_io_sectors(r)
            /\ pending' = pending \cup {r}
            /\ outcome' = [outcome EXCEPT ![r] = "none"]
            /\ moved' = [moved EXCEPT ![r] = FALSE]
            /\ failed' = [failed EXCEPT ![r] = 0]
            /\ UNCHANGED panic
       ELSE /\ panic' = TRUE
            /\ UNCHANGED <<list, seen, dev>>
    /\ UNCHANGED errs

\* The kernel task has loaded dma_data->next and not yet stored head->prev, and
\* the object it removes is the last one: dma_io_sectors links r behind it.
BehindRemoved(r) ==
    /\ kpc \in {"unlink1", "unlink2"}
    /\ BusOf(r) = bus /\ prev[bus] = dma_data

\* A system call submits a request: from user mode, which runs while the
\* kernel task is in sched() or was interrupted by a tick.
submit(r) ==
    /\ phase = "run"
    /\ ide_dma_sectors(r)
    /\ raced' = (raced \/ (check_drive(r) /\ BehindRemoved(r)))
    /\ UNCHANGED task

-----------------------------------------------------------------------------
(* The code that polls.                                                    *)

\* The loop of task_function stopping one bus early (mutant).
NextBus_early ==
    IF phase = "boot" THEN kpc' = "wait" /\ UNCHANGED bus
    ELSE IF bus + 2 < BusCount THEN kpc' = "check" /\ bus' = bus + 1
    ELSE kpc' = "idle" /\ UNCHANGED bus

\* task_function: to the next bus, back to ktask_main's sched() after the
\* last one.  The boot code goes back to the test of its waiting loop.
NextBus ==
    IF phase = "boot" THEN kpc' = "wait" /\ UNCHANGED bus
    ELSE IF bus + 1 < BusCount THEN kpc' = "check" /\ bus' = bus + 1
    ELSE kpc' = "idle" /\ UNCHANGED bus

task_function ==
    /\ phase = "run" /\ kpc = "idle"
    /\ kpc' = "check" /\ bus' = 0
    /\ UNCHANGED <<list, seen, dev, errs, panic, raced, phase, dma_data, nextReg, error, done>>

\* check_if_io_complete, the test for an empty list.
check_list ==
    /\ kpc = "check"
    /\ dma_data' = next[bus]
    /\ IF Empty(bus) THEN NextBus ELSE kpc' = "status" /\ UNCHANGED bus
    /\ UNCHANGED <<list, seen, dev, errs, panic, raced, phase, nextReg, error, done>>

\* check_if_io_complete not trying again (mutant).
check_error_no_retry ==
    /\ kpc = "status" /\ dev[bus].err
    /\ dev' = [dev EXCEPT ![bus] = Idle]
    /\ error' = TRUE
    /\ kpc' = "unlink"
    /\ UNCHANGED <<list, seen, errs, panic, raced, phase, bus, dma_data, nextReg, done>>

\* The status has the error bit: clear it, reset the drives, and try again
\* once.
check_error ==
    LET r == io[dma_data] IN
    /\ kpc = "status" /\ dev[bus].err
    /\ IF retry[dma_data] = 0
       THEN /\ retry' = [retry EXCEPT ![dma_data] = 1]
            /\ dev' = [dev EXCEPT ![bus] = [cmd |-> r, active |-> TRUE, err |-> FALSE]]
            /\ NextBus
            /\ UNCHANGED error
       ELSE /\ dev' = [dev EXCEPT ![bus] = Idle]
            /\ error' = TRUE
            /\ kpc' = "unlink" /\ UNCHANGED <<bus, retry>>
    /\ UNCHANGED <<next, prev, freeSlots, io, seen, errs, panic, raced, phase, dma_data,
                   nextReg, done>>

\* Neither the error bit nor the active bit: the transfer is over.
check_done ==
    /\ kpc = "status" /\ ~dev[bus].err
    /\ IF dev[bus].active THEN NextBus /\ UNCHANGED error
       ELSE error' = FALSE /\ kpc' = "unlink" /\ UNCHANGED bus
    /\ UNCHANGED <<list, seen, dev, errs, panic, raced, phase, dma_data, nextReg, done>>

\* complete_io_operation, one access to the list at a time.
\* dma_data->prev->next = dma_data->next: the load ...
load_next ==
    /\ kpc = "unlink"
    /\ nextReg' = next[dma_data]
    /\ kpc' = "unlink1"
    /\ UNCHANGED <<list, seen, dev, errs, panic, raced, phase, bus, dma_data, error,
                   done>>

\* ... and the store.  `done' stands for the copy of dma_data->io, which
\* nobody else writes.
unlink_next ==
    /\ kpc = "unlink1"
    /\ done' = io[dma_data]
    /\ next' = [next EXCEPT ![prev[dma_data]] = nextReg]
    /\ kpc' = "unlink2"
    /\ UNCHANGED <<prev, freeSlots, io, retry, seen, dev, errs, panic, raced, phase, bus,
                   dma_data, nextReg, error>>

\* dma_data->next->prev = dma_data->prev, where the compiler may load
\* dma_data->next again or use the value it loaded for the store before.
unlink_prev ==
    /\ kpc = "unlink2"
    /\ \E n \in {next[dma_data], nextReg} :
         prev' = [prev EXCEPT ![n] = prev[dma_data]]
    /\ kpc' = "free"
    /\ UNCHANGED <<next, freeSlots, io, retry, seen, dev, errs, panic, raced, phase, bus,
                   dma_data, nextReg, error, done>>

\* The links are set to NULL and the object goes back to its cache.
free_io_data ==
    /\ kpc = "free"
    /\ next' = [next EXCEPT ![dma_data] = NULL]
    /\ prev' = [prev EXCEPT ![dma_data] = NULL]
    /\ io' = [io EXCEPT ![dma_data] = NULL]
    /\ retry' = [retry EXCEPT ![dma_data] = 0]
    /\ freeSlots' = <<dma_data>> \o freeSlots
    /\ dma_data' = NULL /\ nextReg' = NULL
    /\ kpc' = "start"
    /\ UNCHANGED <<seen, dev, errs, panic, raced, phase, bus, error, done>>

\* complete_io_operation not starting the next request (mutant).
start_next_never ==
    /\ kpc = "start"
    /\ kpc' = "call"
    /\ UNCHANGED <<list, seen, dev, errs, panic, raced, phase, bus, dma_data, nextReg, error, done>>

\* The next request, if there is one, is started before the completion call.
start_next ==
    /\ kpc = "start"
    /\ IF Empty(bus) THEN UNCHANGED dev ELSE start_io_operation(bus, io[next[bus]])
    /\ kpc' = "call"
    /\ UNCHANGED <<list, seen, errs, panic, raced, phase, bus, dma_data, nextReg, error, done>>

\* io.complete_func(&io, error)
complete_func ==
    /\ kpc = "call"
    /\ pending' = pending \ {done}
    /\ outcome' = [outcome EXCEPT ![done] = IF error THEN "error" ELSE "ok"]
    /\ done' = NULL
    /\ NextBus
    /\ UNCHANGED <<list, moved, failed, dev, errs, panic, raced, phase, dma_data, nextReg, error>>

ktask == \/ task_function \/ check_list \/ check_error \/ check_done \/ load_next
         \/ unlink_next \/ unlink_prev \/ free_io_data \/ start_next \/ complete_func

-----------------------------------------------------------------------------
(* Booting: sync_io_sectors, then scheduler().                             *)

sync_io_sectors(r) ==
    /\ phase = "boot" /\ kpc = "idle"
    /\ ide_dma_sectors(r)
    /\ bus' = BusOf(r)
    /\ kpc' = "wait"
    /\ UNCHANGED <<raced, phase, dma_data, nextReg, error, done>>

\* The waiting loop ending when the device is quiet (mutant).
sync_wait_device ==
    /\ kpc = "wait"
    /\ kpc' = IF Empty(bus) \/ ~dev[bus].active THEN "idle" ELSE "check"
    /\ UNCHANGED <<list, seen, dev, errs, panic, raced, phase, bus, dma_data, nextReg, error, done>>

\* The waiting loop of sync_io_sectors polls until the list is empty.
sync_wait ==
    /\ kpc = "wait"
    /\ kpc' = IF Empty(bus) THEN "idle" ELSE "check"
    /\ UNCHANGED <<list, seen, dev, errs, panic, raced, phase, bus, dma_data, nextReg, error, done>>

scheduler ==
    /\ phase = "boot" /\ kpc = "idle"
    /\ phase' = "run"
    /\ UNCHANGED <<list, seen, dev, errs, panic, raced, kpc, bus, dma_data, nextReg, error, done>>

Next ==
    \/ /\ ~panic
       /\ \/ \E r \in Reqs : submit(r) \/ sync_io_sectors(r)
          \/ \E b \in Buses : transfer(b) \/ transfer_fails(b)
          \/ ktask \/ sync_wait \/ scheduler
    \/ panic /\ UNCHANGED vars

Spec == Init /\ [][Next]_vars

\* The scheduler always comes back to the kernel task, whose loop runs while
\* it is scheduled; a bus ends every transfer, with success or not.  After
\* panic() nothing runs.
FairSpec == /\ Spec
            /\ WF_vars(~panic /\ ktask) /\ WF_vars(~panic /\ sync_wait)
            /\ \A b \in Buses : WF_vars(~panic /\ (transfer(b) \/ transfer_fails(b)))

-----------------------------------------------------------------------------
(* Properties.                                                             *)

\* The objects on the list with head b, from the head on, following the links
\* nx; cut off after as many steps as there are objects.
ListFrom(nx, b) ==
    LET after == [n \in Nodes \cup {NULL} |-> IF n \in Slots THEN nx[n] ELSE NULL]
        node[n \in Nat] == IF n = 0 THEN nx[b] ELSE after[node[n - 1]]
        length == Cardinality({n \in 0..SlotCount - 1 : node[n] \in Slots})
    IN [i \in 1..length |-> node[i - 1]]

\* The objects on the list of bus b.
OnList(b) == ListFrom(next, b)

ListReqs(b) == LET objects == OnList(b) IN [i \in DOMAIN objects |-> io[objects[i]]]

\* Every link, request and device register has a value of its kind, and an
\* object is either in the cache or in use.
TypeOK ==
    /\ next \in [Nodes -> Nodes \cup {NULL}] /\ prev \in [Nodes -> Nodes \cup {NULL}]
    /\ freeSlots \in Seq(Slots)
    /\ io \in [Slots -> Reqs \cup {NULL}] /\ retry \in [Slots -> 0..1]
    /\ dev \in [Buses -> [cmd : Reqs \cup {NULL}, active : BOOLEAN, err : BOOLEAN]]
    /\ errs \in 0..MaxErrors
    /\ phase \in {"boot", "run"}
    /\ kpc \in {"idle", "check", "status", "unlink", "unlink1", "unlink2", "free", "start",
             "call", "wait"}
    /\ bus \in Buses /\ dma_data \in Nodes \cup {NULL} /\ nextReg \in Nodes \cup {NULL}
    /\ error \in BOOLEAN /\ done \in Reqs \cup {NULL}
    /\ pending \subseteq Reqs
    /\ outcome \in [Reqs -> {"none", "ok", "error"}]
    /\ moved \in [Reqs -> BOOLEAN] /\ failed \in [Reqs -> 0..MaxErrors]
    /\ panic \in BOOLEAN /\ raced \in BOOLEAN

\* A request whose completion is still to be called is on the list of its bus
\* ("Insert into io data list.", ide.c:382) or in the hands of the code that
\* removed it: no request is lost between the two.
QueuedOnList ==
    \A r \in pending :
        done = r \/ \E i \in DOMAIN ListReqs(BusOf(r)) : ListReqs(BusOf(r))[i] = r

\* The only way to lose one is to link it behind the object being removed: with
\* ticks at every other place of the kernel task's code no request is lost.
LostOnlyBehindRemoved == ~raced => QueuedOnList

\* A completion that reports success is for a request the device transferred
\* after it was submitted: no completion reads the status of another request's
\* transfer, or of none.
SuccessIsTransfer == ~raced => \A r \in Reqs : outcome[r] = "ok" => moved[r]

\* A completion reports an error only when the request failed twice, the
\* second time after the drives were reset (ide.c:217).
ErrorAfterRetry == ~raced => \A r \in Reqs : outcome[r] = "error" => failed[r] >= 2

\* sync_io_sectors returns only when its request is over, whatever the number
\* of polls and retries: its `error' is the one the completion wrote.
SyncReturnsOutcome ==
    phase = "boot" /\ kpc = "idle" /\ ~panic => pending = {}

\* A bus that is transferring is not taken away from its request: a command it
\* is given while it transfers is for the same request, wherever ticks fall in
\* the code that ends one request and starts the next.
OneCommandAtATime ==
    [][raced' \/ \A b \in Buses :
         dev[b].active /\ dev'[b].active => dev'[b].cmd = dev[b].cmd]_vars

\* Each bus is a first-in first-out queue of requests whose completions are
\* called once each: the interface kernel/bio.c is written against.
Queue == INSTANCE IoQueue WITH
            q <- [b \in Buses |-> ListReqs(b)],
            calling <- IF done = NULL THEN {} ELSE {done}
ImplementsQueue == Queue!Init /\ [][raced' \/ Queue!Next]_(Queue!vars)

\* Every request that is submitted completes, unless the kernel panics or a
\* request is linked behind an object being removed.
Completes == \A r \in Reqs : r \in pending ~> r \notin pending \/ panic \/ raced
=============================================================================
