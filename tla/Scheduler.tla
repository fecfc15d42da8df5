------------------------------ MODULE Scheduler ------------------------------
(***************************************************************************)
(* The process list and round-robin scheduler of kernel/process/scheduler.c*)
(* (bundled in kernel/core/syscall.c), driven by the timer IRQ of          *)
(* kernel/core/interrupt.c and by the sys_exit system call.                *)
(*                                                                         *)
(* Process control blocks live in heap memory.  They are modelled as a     *)
(* fixed set of Slots; `alloc' holds the slots kmalloc has handed out.     *)
(* kfree does not touch a block's payload, so a freed slot keeps its pid,  *)
(* state and next fields until create_process reuses it: a pointer that    *)
(* still refers to a freed slot reads and writes that stale memory.        *)
(*                                                                         *)
(* create_thread and destroy_thread (kernel/process/thread.c, bundled in  *)
(* the same file) keep a second list in blocks of the same heap.  Thread   *)
(* and Process have tid/pid, state and next at the same offsets            *)
(* (kernel.h), so those three fields of a slot are read alike through a    *)
(* Process* or a Thread*.                                                  *)
(*                                                                         *)
(* schedule() runs atomically inside the timer interrupt (an interrupt     *)
(* gate clears IF).  Nothing runs it in the foreground: yield() has no     *)
(* caller, and the schedule_processes() call in kernel_main's loop is      *)
(* never reached because start_desktop_environment() does not return.     *)
(***************************************************************************)
EXTENDS Integers, FiniteSets, Sequences

CONSTANTS
  Slots,            \* the heap blocks a Process can occupy
  NULL,             \* the null pointer
  MaxPid,           \* bound on next_pid: create_process runs MaxPid - 1 times
  MaxTid,           \* bound on next_tid: create_thread runs MaxTid - 1 times
  TicksPerSchedule  \* timer_handler calls the scheduler every 10th tick

ASSUME NULL \notin Slots /\ MaxPid \in Nat /\ MaxTid \in Nat /\ TicksPerSchedule \in Nat \ {0}

\* process.h state codes
PROC_RUNNING == 1
PROC_READY   == 2
PROC_BLOCKED == 3

VARIABLES
  alloc,          \* slots kmalloc has handed out, to a Process or a Thread
  threads,        \* those of them create_thread allocated
  pid, state, nxt,\* pid/tid, state and next of every slot, stale ones included
  thread_list,    \* head of the thread list
  next_tid,
  process_list,   \* head of the process list
  current_process,
  next_pid,
  timer_ticks,    \* interrupt.c's counter, modulo TicksPerSchedule
  hung            \* schedule()'s search loop never exits

vars == <<alloc, threads, pid, state, nxt, thread_list, next_tid,
          process_list, current_process, next_pid, timer_ticks, hung>>

thread_vars == <<threads, thread_list, next_tid>>

Ptr == Slots \cup {NULL}

\* The slots reached by following next from s.
RECURSIVE Chain(_, _)
Chain(s, seen) ==
  IF s = NULL \/ s \in seen THEN seen ELSE Chain(nxt[s], seen \cup {s})

ListSlots == Chain(process_list, {})

\* next = next->next; if(!next) next = process_list;
Succ(s) == IF nxt[s] = NULL THEN process_list ELSE nxt[s]

\* Faulty variant: the loop does not stop on coming back to current_process.
RECURSIVE ScanFromNoStop(_, _, _, _)
ScanFromNoStop(st, s, cur, k) ==
  IF st[s] = PROC_READY THEN s
  ELSE IF k = 0 THEN NULL
  ELSE ScanFromNoStop(st, Succ(s), cur, k - 1)

\* The while loop of schedule() over the states st: from s, stop at a
\* READY process or at current_process.  Every step moves along a fixed
\* successor function over finitely many slots, so a loop that has not
\* stopped after |Slots| steps never stops: it then yields NULL.
RECURSIVE ScanFrom(_, _, _, _)
ScanFrom(st, s, cur, k) ==
  IF st[s] = PROC_READY \/ s = cur THEN s
  ELSE IF k = 0 THEN NULL
  ELSE ScanFrom(st, Succ(s), cur, k - 1)

\* Faulty variant: the search starts at current_process itself.
PickFromCur(st, cur) == ScanFrom(st, cur, cur, Cardinality(Slots))

\* The process schedule() switches to from `cur' (cur itself: no switch;
\* NULL: the loop spins forever).
Pick(st, cur) == ScanFrom(st, Succ(cur), cur, Cardinality(Slots))

\* Faulty variant: the preempted process is set BLOCKED, not READY.
SwitchedBlocks(st, cur, n) == [st EXCEPT ![cur] = PROC_BLOCKED, ![n] = PROC_RUNNING]

\* Faulty variant: the process switched away from is not made READY.
SwitchedNoDemote(st, cur, n) == [st EXCEPT ![n] = PROC_RUNNING]

\* current_process->state = PROC_READY; next->state = PROC_RUNNING.
Switched(st, cur, n) == [st EXCEPT ![cur] = PROC_READY, ![n] = PROC_RUNNING]

\* schedule() from states st and current process cur: the states and the
\* current process it leaves, and whether its loop never exits.
ScheduleFrom(st, cur) ==
  IF cur = NULL \/ process_list = NULL THEN [st |-> st, cur |-> cur, hung |-> FALSE]
  ELSE LET n == Pick(st, cur) IN
       IF n = NULL THEN [st |-> st, cur |-> cur, hung |-> TRUE]
       ELSE IF n = cur THEN [st |-> st, cur |-> cur, hung |-> FALSE]
       ELSE [st |-> Switched(st, cur, n), cur |-> n, hung |-> FALSE]

\* schedule() as one atomic step.
Schedule ==
  LET r == ScheduleFrom(state, current_process)
  IN  /\ state' = r.st
      /\ current_process' = r.cur
      /\ hung' = r.hung

-----------------------------------------------------------------------------
\* After init_scheduler(): the "kernel" process, pid 1, is running.
Init ==
  \E k \in Slots :
    /\ alloc = {k} /\ threads = {}
    /\ thread_list = NULL /\ next_tid = 1
    /\ pid = [s \in Slots |-> IF s = k THEN 1 ELSE 0]
    /\ state = [s \in Slots |-> IF s = k THEN PROC_RUNNING ELSE 0]
    /\ nxt = [s \in Slots |-> NULL]
    /\ process_list = k
    /\ current_process = k
    /\ next_pid = 2
    /\ timer_ticks = 0
    /\ hung = FALSE

\* create_process(): kmalloc a block (any free one: first fit depends on the
\* rest of the heap), fill it in, push it at the head of the list.  A
\* failed kmalloc returns NULL and changes nothing.
CreateProcess ==
  /\ ~hung
  /\ next_pid < MaxPid
  /\ \E s \in Slots \ alloc :
       /\ alloc' = alloc \cup {s}
       /\ pid' = [pid EXCEPT ![s] = next_pid]
       /\ state' = [state EXCEPT ![s] = PROC_READY]
       /\ nxt' = [nxt EXCEPT ![s] = process_list]
       /\ process_list' = s
  /\ next_pid' = next_pid + 1
  /\ UNCHANGED <<current_process, timer_ticks, hung, thread_vars>>

\* Faulty variant: a process behind the head is freed but not unlinked.
DestroyProcessNoRelink(p) ==
  LET found == {s \in ListSlots : pid[s] = p} IN
  IF found = {} THEN UNCHANGED <<alloc, nxt, process_list>>
  ELSE LET s == CHOOSE x \in found : TRUE IN
       /\ IF process_list = s
          THEN process_list' = nxt[s] /\ UNCHANGED nxt
          ELSE UNCHANGED <<nxt, process_list>>
       /\ alloc' = alloc \ {s}

\* destroy_process(p): unlink the first listed process with pid p and kfree
\* it; no such process, no change.
DestroyProcess(p) ==
  LET found == {s \in ListSlots : pid[s] = p} IN
  IF found = {} THEN UNCHANGED <<alloc, nxt, process_list>>
  ELSE LET s == CHOOSE x \in found : TRUE IN
       /\ IF process_list = s
          THEN process_list' = nxt[s] /\ UNCHANGED nxt
          ELSE \E prev \in ListSlots :
                 /\ nxt[prev] = s
                 /\ nxt' = [nxt EXCEPT ![prev] = nxt[s]]
                 /\ UNCHANGED process_list
       /\ alloc' = alloc \ {s}

\* sys_exit(): destroy_process(current->pid), in the int 0x80 handler with
\* interrupts off.  current_process is left as it is.
SysExit ==
  /\ ~hung
  /\ current_process # NULL
  /\ DestroyProcess(pid[current_process])
  /\ UNCHANGED <<pid, state, current_process, next_pid, timer_ticks, hung, thread_vars>>

\* create_thread(proc, entry): kmalloc a block, fill in tid, state and
\* next (the process back-pointer is not read here), push it at the head
\* of the thread list.
CreateThread ==
  /\ ~hung
  /\ next_tid < MaxTid
  /\ \E s \in Slots \ alloc :
       /\ alloc' = alloc \cup {s}
       /\ threads' = threads \cup {s}
       /\ pid' = [pid EXCEPT ![s] = next_tid]
       /\ state' = [state EXCEPT ![s] = PROC_READY]
       /\ nxt' = [nxt EXCEPT ![s] = thread_list]
       /\ thread_list' = s
  /\ next_tid' = next_tid + 1
  /\ UNCHANGED <<process_list, current_process, next_pid, timer_ticks, hung>>

\* destroy_thread(t): unlink the first listed thread with tid t and kfree it.
DestroyThread(t) ==
  LET found == {s \in Chain(thread_list, {}) : pid[s] = t} IN
  /\ ~hung
  /\ found # {}
  /\ LET s == CHOOSE x \in found : TRUE IN
       /\ IF thread_list = s
          THEN thread_list' = nxt[s] /\ UNCHANGED nxt
          ELSE \E prev \in Chain(thread_list, {}) :
                 /\ nxt[prev] = s
                 /\ nxt' = [nxt EXCEPT ![prev] = nxt[s]]
                 /\ UNCHANGED thread_list
       /\ alloc' = alloc \ {s}
       /\ threads' = threads \ {s}
  /\ UNCHANGED <<pid, state, next_tid, process_list, current_process, next_pid,
                 timer_ticks, hung>>

\* IRQ0: timer_handler() counts the tick and every TicksPerSchedule-th
\* tick runs schedule_processes() -> schedule().
TimerIRQ ==
  /\ ~hung
  /\ timer_ticks' = (timer_ticks + 1) % TicksPerSchedule
  /\ IF timer_ticks' = 0 THEN Schedule ELSE UNCHANGED <<state, current_process, hung>>
  /\ UNCHANGED <<alloc, pid, nxt, process_list, next_pid, thread_vars>>

Next ==
  \/ CreateProcess
  \/ SysExit
  \/ TimerIRQ
  \/ CreateThread
  \/ \E t \in 1..MaxTid : DestroyThread(t)

\* The timer keeps interrupting.
Fairness == WF_vars(TimerIRQ)

Spec == Init /\ [][Next]_vars /\ Fairness

-----------------------------------------------------------------------------
\* Live processes: allocated control blocks that are not threads.
Live == alloc \ threads

(* Types, and the states the code uses: create_process, create_thread   *)
(* and schedule() only ever store PROC_READY or PROC_RUNNING, so no block  *)
(* is BLOCKED or TERMINATED, which nothing would ever make READY again.    *)
TypeOK ==
  /\ alloc \subseteq Slots /\ threads \subseteq alloc
  /\ pid \in [Slots -> 0..MaxPid \cup 0..MaxTid]
  /\ thread_list \in Ptr /\ next_tid \in 1..MaxTid
  /\ state \in [Slots -> {0, PROC_RUNNING, PROC_READY}]
  /\ nxt \in [Slots -> Ptr]
  /\ process_list \in Ptr /\ current_process \in Ptr
  /\ next_pid \in 2..MaxPid
  /\ timer_ticks \in 0..(TicksPerSchedule - 1)
  /\ hung \in BOOLEAN

(* The process list links exactly the live control blocks and the thread  *)
(* list exactly the live threads, each without a cycle and neither         *)
(* reaching into the other, although both are pushed, unlinked and freed   *)
(* in the same heap and a freed block of one kind is reused by the other.  *)
ListWellFormed ==
  /\ ListSlots = Live
  /\ \A s \in Live : nxt[s] \in Live \cup {NULL}
  /\ Chain(thread_list, {}) = threads
  /\ \A s \in threads : nxt[s] \in threads \cup {NULL}

(* schedule()'s search loop always exits: it reaches a READY process or    *)
(* comes back round to current_process.                                    *)
ScheduleTerminates == ~hung

(* At most one live process is marked RUNNING, whatever the order of      *)
(* process creation, sys_exit and the timer's schedule(), including after *)
(* sys_exit leaves current_process pointing at a freed block.              *)
AtMostOneRunning ==
  \A s, t \in Live : state[s] = PROC_RUNNING /\ state[t] = PROC_RUNNING => s = t

\* The live processes with pid p in state st.
HasPid(p, st) == \E s \in Live : pid[s] = p /\ state[s] \in st

(* Round robin: a live READY process is eventually made RUNNING by the     *)
(* timer's schedule() unless it exits first.                               *)
ReadyEventuallyRuns ==
  \A p \in 1..MaxPid :
    HasPid(p, {PROC_READY}) ~> (HasPid(p, {PROC_RUNNING}) \/ ~HasPid(p, {PROC_READY, PROC_RUNNING}))

\* The current process after each of k schedule() calls from st and cur.
RECURSIVE Visits(_, _, _)
Visits(st, cur, k) ==
  IF k = 0 THEN <<>>
  ELSE LET r == ScheduleFrom(st, cur) IN <<r.cur>> \o Visits(r.st, r.cur, k - 1)

\* The k processes after s in list order, wrapping at the end of the list.
RECURSIVE ListAfter(_, _)
ListAfter(s, k) == IF k = 0 THEN <<>> ELSE <<Succ(s)>> \o ListAfter(Succ(s), k - 1)

(* Spec 8, round-robin fairness: whenever current_process is a live       *)
(* process and the others are READY, the next K = |live| schedule() calls  *)
(* run each live process exactly once, in list order from the one after    *)
(* current_process and wrapping to the list head, ending back at it; so   *)
(* the processes create_process pushes at the head and the ones sys_exit   *)
(* unlinks never make the scan skip or repeat a process.                   *)
RoundRobin ==
  LET K == Cardinality(Live) IN
  (/\ current_process \in Live /\ ~hung
   /\ \A s \in Live \ {current_process} : state[s] = PROC_READY)
    => Visits(state, current_process, K) = ListAfter(current_process, K)


=============================================================================
