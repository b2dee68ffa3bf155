------------------------------- MODULE Sched -------------------------------
(***************************************************************************)
(* Processes and the scheduler: kernel/process.c and kernel/scheduler.c    *)
(* with the system calls that reach them.  The kernel switches between the *)
(* scheduler's own stack and the processes: `cpu' tells whose code runs.   *)
(* Both run with interrupts off, except the user processes and the kernel  *)
(* task, which a timer tick can send to the scheduler at any point.        *)
(*                                                                         *)
(* The memory of a process is left out: cloning it may succeed or fail.    *)
(***************************************************************************)
EXTENDS Integers, Sequences, FiniteSetsExt

CONSTANTS
    PROC_MAX_NUM,       \* 1024 in the code
    StructCount         \* struct process objects of proc_cache

ASSUME NumAssumption == PROC_MAX_NUM \in Nat /\ PROC_MAX_NUM >= 2
\* slab_alloc does not run out: one object more than there are pids.
ASSUME StructsAssumption == StructCount \in Nat /\ StructCount > PROC_MAX_NUM

Procs == 1..StructCount
NULL == 0
Pids == 0..PROC_MAX_NUM - 1

\* The objects the two processes made at boot have: the kernel task, whose pid
\* is 0, and the program that test_exec loads.
Ktask == 1
First == 2

VARIABLES
    list,           \* the process list from list_head.next on
    state,          \* state of each object, "none" outside of a process
    pid,
    retvalue,       \* syscall_retvalue, 0 when fork has read it
    pid_map,        \* pids in use
    pid_gen,
    current_proc,
    sched_task,     \* "fork" between sched_fork and the scheduler's call
    cpu,            \* "scheduler" or "process" (the one current_proc names)
    at              \* where each process goes on: in user mode, or in fork,
                    \* as the "parent" or as the "child"

objects == <<state, pid, retvalue>>
pids == <<pid_map, pid_gen>>
vars == <<list, objects, pids, current_proc, sched_task, cpu, at>>

\* kernel_entry, just before it calls scheduler(): ktask_initialize and then
\* proc_exec have each put a process at the front of the list.
Init ==
    /\ list = <<First, Ktask>>
    /\ state = [p \in Procs |-> IF p \in {Ktask, First} THEN "RUNNING" ELSE "none"]
    /\ pid = [p \in Procs |-> IF p = First THEN 1 ELSE IF p = Ktask THEN 0 ELSE -1]
    /\ retvalue = [p \in Procs |-> 0]
    /\ pid_map = {0, 1}
    /\ pid_gen = 2 % PROC_MAX_NUM
    /\ current_proc = NULL
    /\ sched_task = "none"
    /\ cpu = "scheduler"
    /\ at = [p \in Procs |-> "user"]

Running(p) == cpu = "process" /\ current_proc = p
UserRuns(p) == Running(p) /\ p # Ktask /\ at[p] = "user"

-----------------------------------------------------------------------------
(* What a running process can do.                                          *)

\* sched_timer while the process runs; for the kernel task also the sched()
\* of its main loop, which has the same effect.
sched_timer ==
    /\ cpu = "process"
    /\ current_proc # Ktask => at[current_proc] = "user"
    /\ cpu' = "scheduler"
    /\ UNCHANGED <<list, objects, pids, current_proc, sched_task, at>>

\* sys_fork: sched_fork leaves the work to the scheduler.
sched_fork(p) ==
    /\ UserRuns(p)
    /\ sched_task' = "fork"
    /\ at' = [at EXCEPT ![p] = "parent"]
    /\ cpu' = "scheduler"
    /\ UNCHANGED <<list, objects, pids, current_proc>>

\* sched_fork after its sched() has returned, in the parent or in the child.
sched_fork_return(p) ==
    /\ Running(p) /\ at[p] # "user"
    /\ retvalue' = [retvalue EXCEPT ![p] = 0]
    /\ at' = [at EXCEPT ![p] = "user"]
    /\ UNCHANGED <<list, state, pid, pids, current_proc, sched_task, cpu>>

\* sys_exit and proc_exit.
proc_exit(p) ==
    /\ UserRuns(p)
    /\ state' = [state EXCEPT ![p] = "DEAD"]
    /\ cpu' = "scheduler"
    /\ UNCHANGED <<list, pid, retvalue, pids, current_proc, sched_task, at>>

\* A system call goes to sleep in bio.c (sleep_wait_bio and the like) ...
sleep_io(p) ==
    /\ UserRuns(p)
    /\ state' = [state EXCEPT ![p] = "IO"]
    /\ cpu' = "scheduler"
    /\ UNCHANGED <<list, pid, retvalue, pids, current_proc, sched_task, at>>

\* ... and is woken from the kernel task or from another system call.
wake_up(q) ==
    /\ cpu = "process"
    /\ state[q] = "IO"
    /\ state' = [state EXCEPT ![q] = "RUNNING"]
    /\ UNCHANGED <<list, pid, retvalue, pids, current_proc, sched_task, cpu, at>>

-----------------------------------------------------------------------------
(* What the scheduler does on its own stack.                               *)

\* What alloc_pid leaves in pid_gen when it returns n.
next_pid(n) == (n + 1) % PROC_MAX_NUM

\* alloc_pid: the first free pid from pid_gen on, as a set; empty for -1.
alloc_pid ==
    LET nth(i) == (pid_gen + i) % PROC_MAX_NUM
    IN {nth(i) : i \in {k \in Pids : /\ nth(k) \notin pid_map
                                     /\ \A j \in 0..k - 1 : nth(j) \in pid_map}}

\* proc_clone leaving the pid of a clone that failed in the map (mutant).
proc_clone_fails_leak ==
    /\ retvalue' = [retvalue EXCEPT ![current_proc] = -1]
    /\ \/ alloc_pid = {} /\ UNCHANGED pids
       \/ \E n \in alloc_pid : pid_gen' = next_pid(n) /\ pid_map' = pid_map \cup {n}
    /\ UNCHANGED <<list, state, pid, at>>

\* proc_clone returning NULL: there is no pid left, or its memory cannot be
\* copied and proc_free takes the pid and the object back.
proc_clone_fails ==
    /\ retvalue' = [retvalue EXCEPT ![current_proc] = -1]
    /\ \/ alloc_pid = {} /\ UNCHANGED pid_gen
       \/ \E n \in alloc_pid : pid_gen' = next_pid(n)
    /\ UNCHANGED <<list, state, pid, pid_map, at>>

\* proc_clone returning the pid of the next clone (mutant).
proc_clone_next_pid ==
    \E n \in alloc_pid :
        LET c == Min({p \in Procs : state[p] = "none"}) IN
        /\ pid_gen' = next_pid(n)
        /\ pid_map' = pid_map \cup {n}
        /\ pid' = [pid EXCEPT ![c] = n]
        /\ state' = [state EXCEPT ![c] = "RUNNING"]
        /\ retvalue' = [retvalue EXCEPT ![current_proc] = next_pid(n), ![c] = 0]
        /\ at' = [at EXCEPT ![c] = "child"]
        /\ list' = <<c>> \o list

\* proc_clone: the clone has the parent's stack, so it too goes on in fork.
proc_clone ==
    \E n \in alloc_pid :
        LET c == Min({p \in Procs : state[p] = "none"}) IN    \* slab_alloc
        /\ pid_gen' = next_pid(n)
        /\ pid_map' = pid_map \cup {n}
        /\ pid' = [pid EXCEPT ![c] = n]
        /\ state' = [state EXCEPT ![c] = "RUNNING"]
        /\ retvalue' = [retvalue EXCEPT ![current_proc] = n, ![c] = 0]
        /\ at' = [at EXCEPT ![c] = "child"]
        /\ list' = <<c>> \o list

\* The scheduler calls sched_task_fork when the process has switched to it.
sched_task_fork ==
    /\ cpu = "scheduler" /\ sched_task = "fork"
    /\ proc_clone \/ proc_clone_fails
    /\ sched_task' = "none"
    /\ UNCHANGED <<current_proc, cpu>>

\* The search beginning at the head of the list each time (mutant).
search_order_from_head == list

\* The search beginning at the process that ran last (mutant).
search_order_from_current ==
    LET i == IF current_proc = NULL THEN 1
             ELSE CHOOSE k \in DOMAIN list : list[k] = current_proc
    IN SubSeq(list, i, Len(list)) \o SubSeq(list, 1, i - 1)

\* The processes in the order the scheduler's search meets them: from the one
\* after current_proc, around the list.
search_order ==
    LET i == IF current_proc = NULL THEN 0
             ELSE CHOOSE k \in DOMAIN list : list[k] = current_proc
    IN SubSeq(list, i + 1, Len(list)) \o SubSeq(list, 1, i)

\* The list s when sched_remove has unlinked the dead ones, one at a time.
sched_remove(s, dead) ==
    LET kept[n \in 0..Len(s)] ==
            IF n = 0 THEN <<>>
            ELSE IF s[n] \in dead THEN kept[n - 1] ELSE Append(kept[n - 1], s[n])
    IN kept[Len(s)]

\* Dead processes released without sched_remove (mutant).
release_stays_listed(dead) ==
    /\ state' = [p \in Procs |-> IF p \in dead THEN "none" ELSE state[p]]
    /\ pid' = [p \in Procs |-> IF p \in dead THEN -1 ELSE pid[p]]
    /\ retvalue' = [p \in Procs |-> IF p \in dead THEN 0 ELSE retvalue[p]]
    /\ at' = [p \in Procs |-> IF p \in dead THEN "user" ELSE at[p]]
    /\ pid_map' = pid_map \ {pid[p] : p \in dead}
    /\ UNCHANGED list

\* sched_remove and proc_free of dead processes: pids and objects go back.
release(dead) ==
    /\ list' = sched_remove(list, dead)
    /\ state' = [p \in Procs |-> IF p \in dead THEN "none" ELSE state[p]]
    /\ pid' = [p \in Procs |-> IF p \in dead THEN -1 ELSE pid[p]]
    /\ retvalue' = [p \in Procs |-> IF p \in dead THEN 0 ELSE retvalue[p]]
    /\ at' = [p \in Procs |-> IF p \in dead THEN "user" ELSE at[p]]
    /\ pid_map' = pid_map \ {pid[p] : p \in dead}

\* The search never releasing anything (mutant).
scheduler_no_release ==
    LET order == search_order
        k == CHOOSE i \in DOMAIN order : /\ state[order[i]] = "RUNNING"
                                         /\ \A j \in 1..i - 1 : state[order[j]] # "RUNNING"
    IN  /\ cpu = "scheduler" /\ sched_task = "none"
        /\ current_proc' = order[k]
        /\ cpu' = "process"
        /\ UNCHANGED <<list, objects, pids, sched_task, at>>

\* scheduler: search for a runnable process from the one after the last that
\* ran, release the dead ones met on the way, and switch to it.
scheduler ==
    LET order == search_order
        k == CHOOSE i \in DOMAIN order : /\ state[order[i]] = "RUNNING"
                                         /\ \A j \in 1..i - 1 : state[order[j]] # "RUNNING"
    IN  /\ cpu = "scheduler" /\ sched_task = "none"
        /\ release({order[j] : j \in {m \in 1..k - 1 : state[order[m]] = "DEAD"}})
        /\ current_proc' = order[k]
        /\ cpu' = "process"
        /\ UNCHANGED <<pid_gen, sched_task>>

Next ==
    \/ sched_timer
    \/ \E p \in Procs : \/ sched_fork(p) \/ sched_fork_return(p) \/ proc_exit(p)
                        \/ sleep_io(p) \/ wake_up(p)
    \/ sched_task_fork
    \/ scheduler

Spec == Init /\ [][Next]_vars

\* The timer interrupts whatever runs (pit_initialize(50)), a fork that was
\* resumed returns, and the scheduler is not interrupted.
FairSpec == /\ Spec
            /\ WF_vars(sched_timer)
            /\ \A p \in Procs : WF_vars(sched_fork_return(p))
            /\ WF_vars(sched_task_fork)
            /\ WF_vars(scheduler)

-----------------------------------------------------------------------------
(* Properties.                                                             *)

Live == {p \in Procs : state[p] # "none"}

\* Every variable has a value of its kind.
TypeOK ==
    /\ list \in Seq(Procs)
    /\ state \in [Procs -> {"none", "RUNNING", "IO", "DEAD"}]
    /\ pid \in [Procs -> Pids \cup {-1}]
    /\ retvalue \in [Procs -> Pids \cup {-1}]
    /\ pid_map \subseteq Pids /\ pid_gen \in Pids
    /\ current_proc \in Procs \cup {NULL}
    /\ sched_task \in {"none", "fork"}
    /\ cpu \in {"scheduler", "process"}
    /\ at \in [Procs -> {"user", "parent", "child"}]

\* The process current_proc names is not released, not even by the search that
\* leaves it after it has died: scheduler() reads current_proc->next and runs
\* with the address space of that process loaded until it has found another.
CurrentNotReleased == [][current_proc # NULL => state'[current_proc] # "none"]_vars

\* The processes have different pids, and pid_map holds exactly these: forks
\* that fail half way and processes that die give theirs back.
PidsMatch ==
    /\ \A p, q \in Live : p # q => pid[p] # pid[q]
    /\ pid_map = {pid[p] : p \in Live}

\* The process list holds every process once and nothing that was released.
ListIsLive ==
    /\ {list[i] : i \in DOMAIN list} = Live
    /\ \A i, j \in DOMAIN list : i # j => list[i] # list[j]

\* The value fork is about to return tells the two processes apart (airix.h:15):
\* 0 in the child, and in the parent -1 or a pid that is not 0 and not its own.
ForkTells ==
    \A p \in Live :
        /\ at[p] = "child" => retvalue[p] = 0
        /\ at[p] = "parent" /\ sched_task = "none" => retvalue[p] \notin {0, pid[p]}

\* What fork returns in the parent is the pid of the process it has made, or -1 if
\* it has made none (airix.h:14): so it is when the scheduler has served the fork,
\* and until the parent has read it, whoever else forks, dies, is released or gets
\* the object or the pid of the child meanwhile.
ForkReturnsPid ==
    [][/\ sched_task = "fork" /\ sched_task' = "none" =>
            \/ retvalue'[current_proc] = -1 /\ Live' = Live
            \/ \E c \in Procs \ Live : /\ Live' = Live \cup {c} /\ at'[c] = "child"
                                       /\ retvalue'[current_proc] = pid'[c]
       /\ \A p \in Procs :
            at[p] = "parent" /\ at'[p] = "parent" /\ ~(sched_task = "fork" /\ p = current_proc)
                => retvalue'[p] = retvalue[p]]_vars

\* A process that can run does, whatever the others fork, and however often.
NoStarvation ==
    \A p \in Procs : state[p] = "RUNNING" ~> (Running(p) \/ state[p] # "RUNNING")

\* A dead process is released, so that its pid and object are used again.
DeadReleased == \A p \in Procs : state[p] = "DEAD" ~> state[p] = "none"
=============================================================================
