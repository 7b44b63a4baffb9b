------------------------------- MODULE Sched -------------------------------
(***************************************************************************)
(* The scheduler of the kernel: kernel/sched/{sched,task,thread,fork}.c,   *)
(* the context switch of kernel/asm/task.s and the timer interrupt that    *)
(* drives it (kernel/kernel/timer.c).                                      *)
(*                                                                         *)
(* One processor executes the current thread.  While interrupts are        *)
(* enabled the timer may strike between any two memory accesses of that    *)
(* thread; the handler runs schedule() with interrupts disabled.           *)
(* schedule() itself is modelled one loop branch per step (at = "loop",    *)
(* "pick", "choose", "switch"), so that "it returns" is a property and     *)
(* not an assumption.  preempt() and sleep(), which nothing in src/ calls  *)
(* and which do not disable interrupts themselves, are taken as called     *)
(* with interrupts disabled.  Otherwise the timer could interrupt every    *)
(* access of every list operation of schedule().                           *)
(*                                                                         *)
(* exec_elf() runs with interrupts disabled and is one step.  exec_thread()*)
(* does not disable them, and its push on the thread list is the three     *)
(* accesses that list.c makes.                                             *)
(*                                                                         *)
(* The interrupt flag needs no variable: it is off while schedule() runs.  *)
(* switch_context() restores the flags a thread was suspended with (Irq),  *)
(* those of a new thread (0x200), of a handler about to iret, or of a      *)
(* preempt() that is about to enable them again.                           *)
(***************************************************************************)
EXTENDS List

CONSTANTS
  Thread,         \* thread_t structures
  Task,           \* task_t structures
  kernel_thread,  \* the thread that runs kmain
  kernel_task,    \* the task it belongs to
  Calls           \* which threads call which service of the scheduler

Service == {"exec_thread", "exec_elf", "kill", "preempt", "sleep", "wakeup"}

ASSUME SchedAssumption ==
  /\ kernel_thread \in Thread
  /\ kernel_task \in Task
  /\ NULL \notin Thread \cup Task
  /\ Junk \notin Thread \cup Task \cup {NULL}
  /\ Calls \in [Service -> SUBSET Thread]

VARIABLES
  tstate,          \* thread_t.state, "free" for a structure not allocated
  owner,           \* the task whose address space holds the thread's stack
  spawn,           \* how far the thread's exec_thread() or thread_exit() is
  live,            \* task_t structures that are allocated
  lists,           \* task_t.threads
  tasks,           \* the list of tasks
  threads,         \* the task whose thread list the pointer `threads' names
  current_thread,
  current_task,
  frame,           \* the schedule() call being executed, if any
  boot,            \* how far init_scheduler() has come
  fault            \* "none", or why the kernel no longer runs

runq == <<live, lists, tasks, threads>>
cpu  == <<current_thread, current_task>>
thr  == <<tstate, owner, spawn>>
vars == <<runq, cpu, thr, frame, boot, fault>>

ThreadState == {"free", "RUNNING", "WAITING", "DYING"}

Frame == [at : {"idle", "loop", "pick", "choose", "switch"},
          new_task : Task \cup {NULL}, new_thread : Thread \cup {NULL}]

Idle == [at |-> "idle", new_task |-> NULL, new_thread |-> NULL]

\* The locals of a fresh call of schedule().
Enter == [at |-> "loop", new_task |-> NULL, new_thread |-> NULL]

\* "exit" marks a thread that spins in thread_exit() for good.
Spawn == [at : {"none", "size", "store", "exit"}, new : Thread \cup {NULL},
          into : Task \cup {NULL}, n : Nat]

NoSpawn == [at |-> "none", new |-> NULL, into |-> NULL, n |-> 0]

TypeOK ==
  /\ tstate \in [Thread -> ThreadState]
  /\ owner \in [Thread -> Task \cup {NULL}]
  /\ spawn \in [Thread -> Spawn]
  /\ live \in SUBSET Task
  /\ lists \in [Task -> list_t(Thread)]
  /\ tasks \in list_t(Task)
  /\ threads \in Task \cup {NULL}
  /\ current_thread \in Thread
  /\ current_task \in Task
  /\ frame \in Frame
  /\ boot \in {"alloc", "push", "threads", "next", "done"}
  /\ fault \in {"none", "null", "junk", "overflow", "panic"}

-----------------------------------------------------------------------------

\* The thread list of a task that create_task() makes for the thread x.
create_task(x) == list_push_back(list_new, x)

(* init_threading() and init_tasking() have run: the thread executing      *)
(* kmain is the only one, interrupts are on, and init_scheduler() follows. *)

Init ==
  /\ tstate = [t \in Thread |-> IF t = kernel_thread THEN "RUNNING" ELSE "free"]
  /\ owner = [t \in Thread |-> IF t = kernel_thread THEN kernel_task ELSE NULL]
  /\ spawn = [t \in Thread |-> NoSpawn]
  /\ live = {kernel_task}
  /\ lists = [k \in Task |-> IF k = kernel_task
                             THEN create_task(kernel_thread)
                             ELSE list_new]
  /\ tasks = list_new
  /\ threads = NULL
  /\ current_thread = kernel_thread
  /\ current_task = kernel_task
  /\ frame = Idle
  /\ boot = "alloc"
  /\ fault = "none"

\* The kernel stops: panic() halts with interrupts off, and a use of a wild
\* pointer or a write outside an array leaves nothing to reason about.
Crash(why) == fault' = why /\ UNCHANGED <<runq, cpu, thr, frame, boot>>

-----------------------------------------------------------------------------
(* The thread being executed, between two schedule() calls.                *)

Executing == fault = "none" /\ frame = Idle /\ tstate[current_thread] = "RUNNING"

Calling(service) ==
  /\ Executing
  /\ boot = "done"
  /\ spawn[current_thread] = NoSpawn
  /\ current_thread \in Calls[service]

\* No exec_thread() in progress still owns the structure t.
Published(t) == tstate[t] # "free" /\ \A s \in Thread : spawn[s].new # t

(* init_scheduler(), four assignments with interrupts enabled.  schedule() *)
(* returns at once while `tasks' is null, so a tick before the first of    *)
(* them changes nothing.                                                   *)
InitSchedulerTasks ==
  /\ Executing /\ boot = "alloc"
  /\ tasks' = list_new
  /\ boot' = "push"
  /\ UNCHANGED <<live, lists, threads, cpu, thr, frame, fault>>

InitSchedulerPush ==
  /\ Executing /\ boot = "push"
  /\ tasks' = list_push_back(tasks, kernel_task)
  /\ boot' = "threads"
  /\ UNCHANGED <<live, lists, threads, cpu, thr, frame, fault>>

InitSchedulerThreads ==
  /\ Executing /\ boot = "threads"
  /\ threads' = kernel_task
  /\ boot' = "next"
  /\ UNCHANGED <<live, lists, tasks, cpu, thr, frame, fault>>

InitSchedulerNext ==
  /\ Executing /\ boot = "next"
  /\ lists' = [lists EXCEPT ![threads] = list_next(@)]
  /\ boot' = "done"
  /\ UNCHANGED <<live, tasks, threads, cpu, thr, frame, fault>>

init_scheduler ==
  InitSchedulerTasks \/ InitSchedulerPush \/ InitSchedulerThreads \/ InitSchedulerNext

(* exec_thread(): create_thread() allocates and fills the structure and    *)
(* task_add_thread() pushes it, all with interrupts enabled.               *)
ExecThreadCreate(x) ==
  /\ Calling("exec_thread")
  /\ tstate[x] = "free"
  /\ tstate' = [tstate EXCEPT ![x] = "RUNNING"]
  /\ owner' = [owner EXCEPT ![x] = current_task]
  /\ spawn' = [spawn EXCEPT ![current_thread] =
                 [at |-> "size", new |-> x, into |-> current_task,
                  n |-> lists[current_task].size]]
  /\ UNCHANGED <<runq, cpu, frame, boot, fault>>

ExecThreadSize ==
  LET s == spawn[current_thread] IN
  /\ Executing /\ s.at = "size"
  /\ lists' = [lists EXCEPT ![s.into] = list_push_size(@, s.n)]
  /\ spawn' = [spawn EXCEPT ![current_thread].at = "store"]
  /\ UNCHANGED <<live, tasks, threads, cpu, tstate, owner, frame, boot, fault>>

ExecThreadStore ==
  LET s == spawn[current_thread] IN
  /\ Executing /\ s.at = "store"
  /\ IF s.n \in Slot
     THEN /\ lists' = [lists EXCEPT ![s.into] = list_push_elem(@, s.n, s.new)]
          /\ spawn' = [spawn EXCEPT ![current_thread] = NoSpawn]
          /\ UNCHANGED <<live, tasks, threads, cpu, tstate, owner, frame, boot, fault>>
     ELSE Crash("overflow")

(* exec_elf(), between its cli and its sti: a cloned address space, a      *)
(* thread, a task holding it, and a place in the list of tasks.  Only the  *)
(* kernel task calls it, whose page tables clone_directory() links.        *)
exec_elf(x, u) ==
  /\ Calling("exec_elf")
  /\ current_task = kernel_task
  /\ tstate[x] = "free"
  /\ u \notin live
  /\ IF tasks.size \in Slot
     THEN /\ tstate' = [tstate EXCEPT ![x] = "RUNNING"]
          /\ owner' = [owner EXCEPT ![x] = u]
          /\ live' = live \cup {u}
          /\ lists' = [lists EXCEPT ![u] = create_task(x)]
          /\ tasks' = list_push_back(tasks, u)
          /\ UNCHANGED <<spawn, threads, cpu, frame, boot, fault>>
     ELSE Crash("overflow")

\* kmain never returns, so the kernel thread never gets here.  The thread then
\* spins, whatever becomes of its state.
thread_exit ==
  /\ Executing /\ boot = "done"
  /\ spawn[current_thread] = NoSpawn
  /\ current_thread # kernel_thread
  /\ tstate' = [tstate EXCEPT ![current_thread] = "DYING"]
  /\ spawn' = [spawn EXCEPT ![current_thread].at = "exit"]
  /\ UNCHANGED <<runq, cpu, owner, frame, boot, fault>>

kill(x) ==
  /\ Calling("kill")
  /\ Published(x) /\ x # current_thread
  /\ x # kernel_thread    \* no caller kills the thread that runs kmain
  /\ tstate' = [tstate EXCEPT ![x] = "DYING"]
  /\ UNCHANGED <<runq, cpu, owner, spawn, frame, boot, fault>>

wakeup(x) ==
  /\ Calling("wakeup")
  /\ Published(x)
  /\ tstate' = [tstate EXCEPT ![x] = "RUNNING"]
  /\ UNCHANGED <<runq, cpu, owner, spawn, frame, boot, fault>>

preempt ==
  /\ Calling("preempt")
  /\ frame' = Enter
  /\ UNCHANGED <<runq, cpu, thr, boot, fault>>

sleep ==
  /\ Calling("sleep")
  /\ current_thread # kernel_thread    \* kmain echoes keys and does not sleep
  /\ tstate' = [tstate EXCEPT ![current_thread] = "WAITING"]
  /\ frame' = Enter
  /\ UNCHANGED <<runq, cpu, owner, spawn, boot, fault>>

-----------------------------------------------------------------------------
(* schedule()                                                              *)

\* timer_callback(), entered through an interrupt gate.
Timer ==
  /\ fault = "none" /\ frame = Idle /\ boot # "alloc"
  /\ frame' = Enter
  /\ UNCHANGED <<runq, cpu, thr, boot, fault>>

In(where) == fault = "none" /\ frame.at = where

\* Mutant: at the end of its list, the same task starts over.
LoopSameTask ==
  /\ In("loop")
  /\ IF threads = NULL
     THEN Crash("null")
     ELSE /\ lists' = IF list_is_end(lists[threads])
                      THEN [lists EXCEPT ![threads] = list_rewind(@)] ELSE lists
          /\ frame' = [frame EXCEPT !.at = "choose"]
          /\ UNCHANGED <<live, tasks, threads, cpu, thr, boot, fault>>

\* if (list_is_end(threads)) list_rewind(threads);
Loop ==
  /\ In("loop")
  /\ IF threads = NULL
     THEN Crash("null")
     ELSE /\ IF list_is_end(lists[threads])
             THEN /\ lists' = [lists EXCEPT ![threads] = list_rewind(@)]
                  /\ frame' = [frame EXCEPT !.at = "pick"]
             ELSE frame' = [frame EXCEPT !.at = "choose"] /\ UNCHANGED lists
          /\ UNCHANGED <<live, tasks, threads, cpu, thr, boot, fault>>

\* Mutant: the list of tasks is never rewound.
TasksNotWrapped == tasks

\* The list of tasks with its cursor wrapped to the start when at the end.
TasksWrapped == IF list_is_end(tasks) THEN list_rewind(tasks) ELSE tasks

\* Mutant: new_task is not reset when the current task is chosen again.
PickTaskKeeps(u) ==
  /\ tasks' = list_next(TasksWrapped)
  /\ threads' = u
  /\ lists' = [lists EXCEPT ![u] = list_rewind(@)]
  /\ frame' = [frame EXCEPT !.at = "choose", !.new_task = u]
  /\ UNCHANGED <<live, cpu, thr, boot, fault>>

\* One turn of the inner loop that ends with a task: it becomes `threads'.
PickTask(u) ==
  /\ tasks' = list_next(TasksWrapped)
  /\ threads' = u
  /\ lists' = [lists EXCEPT ![u] = list_rewind(@)]
  /\ frame' = [frame EXCEPT !.at = "choose",
                            !.new_task = IF u = current_task THEN NULL ELSE u]
  /\ UNCHANGED <<live, cpu, thr, boot, fault>>

\* Mutant: an empty task is destroyed but stays in the list.
RemoveTaskForgets(u) ==
  IF u = kernel_task
  THEN Crash("panic")
  ELSE /\ tasks' = TasksWrapped
       /\ live' = live \ {u}
       /\ lists' = [lists EXCEPT ![u] = list_new]
       /\ UNCHANGED <<threads, cpu, thr, frame, boot, fault>>

\* One turn that meets a task without threads: list_remove, destroy_task.
\* destroy_directory() panics on the directory of the kernel task.
RemoveTask(u) ==
  IF u = kernel_task
  THEN Crash("panic")
  ELSE /\ tasks' = list_remove(TasksWrapped)
       /\ live' = live \ {u}
       /\ lists' = [lists EXCEPT ![u] = list_new]
       /\ frame' = [frame EXCEPT !.new_task = NULL]
       /\ UNCHANGED <<threads, cpu, thr, boot, fault>>

Pick ==
  LET u == list_current(TasksWrapped) IN
  /\ In("pick")
  /\ IF u \notin Task
     THEN Crash(IF u = NULL THEN "null" ELSE "junk")
     ELSE IF list_is_empty(lists[u]) THEN RemoveTask(u) ELSE PickTask(u)

Candidate == list_current(lists[threads])

\* The cursor stands on a slot that holds no thread.
ChooseWild ==
  /\ In("choose") /\ Candidate \notin Thread
  /\ Crash(IF Candidate = NULL THEN "null" ELSE "junk")

\* Mutant: a dying thread is passed over instead of being removed.
ChooseDyingSkips ==
  /\ In("choose") /\ Candidate \in Thread
  /\ tstate[Candidate] = "DYING"
  /\ lists' = [lists EXCEPT ![threads] = list_next(@)]
  /\ frame' = [frame EXCEPT !.at = "loop"]
  /\ UNCHANGED <<live, tasks, threads, cpu, thr, boot, fault>>

\* Mutant: the turn that destroys a thread also forgets the chosen task.
ChooseDyingForgets ==
  LET x == Candidate IN
  /\ In("choose") /\ x \in Thread
  /\ tstate[x] = "DYING"
  /\ lists' = [lists EXCEPT ![threads] = list_remove(@)]
  /\ tstate' = [tstate EXCEPT ![x] = "free"]
  /\ owner' = [owner EXCEPT ![x] = NULL]
  /\ spawn' = [spawn EXCEPT ![x] = NoSpawn]
  /\ frame' = Enter
  /\ UNCHANGED <<live, tasks, threads, cpu, boot, fault>>

\* case THREAD_DYING: list_remove(threads); destroy_thread(new_thread);
ChooseDying ==
  LET x == Candidate IN
  /\ In("choose") /\ x \in Thread
  /\ tstate[x] = "DYING"
  /\ lists' = [lists EXCEPT ![threads] = list_remove(@)]
  /\ tstate' = [tstate EXCEPT ![x] = "free"]
  /\ owner' = [owner EXCEPT ![x] = NULL]
  /\ spawn' = [spawn EXCEPT ![x] = NoSpawn]
  /\ frame' = [frame EXCEPT !.at = "loop"]
  /\ UNCHANGED <<live, tasks, threads, cpu, boot, fault>>

\* case THREAD_WAITING: the cursor stays where it is.
ChooseWaiting ==
  /\ In("choose") /\ Candidate \in Thread
  /\ tstate[Candidate] = "WAITING"
  /\ frame' = [frame EXCEPT !.at = "loop"]
  /\ UNCHANGED <<runq, cpu, thr, boot, fault>>

\* Mutant: the cursor stays on the thread that is chosen.
ChooseRunningStays ==
  /\ In("choose") /\ Candidate \in Thread
  /\ tstate[Candidate] \notin {"DYING", "WAITING"}
  /\ frame' = [frame EXCEPT !.at = "switch", !.new_thread = Candidate]
  /\ UNCHANGED <<runq, cpu, thr, boot, fault>>

\* case THREAD_RUNNING, default: list_next(threads);
ChooseRunning ==
  /\ In("choose") /\ Candidate \in Thread
  /\ tstate[Candidate] \notin {"DYING", "WAITING"}
  /\ lists' = [lists EXCEPT ![threads] = list_next(@)]
  /\ frame' = [frame EXCEPT !.at = "switch", !.new_thread = Candidate]
  /\ UNCHANGED <<live, tasks, threads, cpu, thr, boot, fault>>

\* Mutant: the thread to run is read from the list again, after list_next().
SwitchRereads ==
  /\ In("switch")
  /\ current_thread' = Candidate
  /\ current_task' = IF frame.new_task = NULL THEN current_task ELSE frame.new_task
  /\ frame' = Idle
  /\ UNCHANGED <<runq, thr, boot, fault>>

\* switch_context(), and the return of the call in which the new thread was
\* suspended.
Switch ==
  LET x == frame.new_thread IN
  /\ In("switch")
  /\ current_thread' = x
  /\ current_task' = IF x = current_thread \/ frame.new_task = NULL
                     THEN current_task ELSE frame.new_task
  /\ frame' = Idle
  /\ UNCHANGED <<runq, thr, boot, fault>>

schedule ==
  Loop \/ Pick \/ ChooseWild \/ ChooseDying \/ ChooseWaiting \/ ChooseRunning \/ Switch

\* The processor is halted, or runs away; nothing in the kernel moves it on.
Halted == fault # "none" /\ UNCHANGED vars

-----------------------------------------------------------------------------

Next ==
  \/ init_scheduler
  \/ \E x \in Thread : ExecThreadCreate(x)
  \/ ExecThreadSize
  \/ ExecThreadStore
  \/ \E x \in Thread, u \in Task : exec_elf(x, u)
  \/ thread_exit
  \/ \E x \in Thread : kill(x)
  \/ \E x \in Thread : wakeup(x)
  \/ preempt
  \/ sleep
  \/ Timer
  \/ schedule
  \/ Halted

Spec == Init /\ [][Next]_vars

(* The timer is periodic, so a processor that keeps interrupts enabled     *)
(* takes a tick; and it goes on executing the handler it has entered.      *)
FairSpec == Spec /\ WF_vars(Timer) /\ WF_vars(schedule)

-----------------------------------------------------------------------------
(* Properties                                                              *)

\* schedule() frees terminated threads and empty tasks while the kernel still
\* runs on one of them: switch_context() stores registers through
\* current_thread, cr3 holds the directory of current_task, and the next tick
\* reads the list behind `threads'.  None of the three is ever freed memory.
NoUseAfterFree ==
  /\ tstate[current_thread] # "free"
  /\ current_task \in live
  /\ threads # NULL => threads \in live

\* switch_context() loads a new address space only when new_task is not null.
\* "new_task is NULL iff we didn't choose other task" (sched.c:58) must hold
\* through every turn of the loops, or the thread resumes on a stack that its
\* address space does not map.
AddressSpaceMatches == owner[current_thread] = current_task

\* The NOTE of sched.c:58, at every state in which the code relies on it.
NewTaskIffOther ==
  frame.at \in {"choose", "switch"} =>
    (frame.new_task = NULL <=> threads = current_task)

\* Once init_scheduler() has set `threads', schedule() follows no null pointer
\* (an empty list of tasks, a list_current() past the end); before that a
\* tick does.
NullOnlyAtBoot == fault = "null" => boot \in {"push", "threads"}

\* No thread is in two slots of the run queues, whatever exec_thread() and
\* list_remove() race on: a second slot would outlive destroy_thread().
InOneSlot ==
  \A k1, k2 \in Task : \A i, j \in Slot :
    /\ lists[k1].elems[i] \in Thread
    /\ lists[k1].elems[i] = lists[k2].elems[j]
    => k1 = k2 /\ i = j

Scheduled(t) == \E k \in live : \E i \in Slot :
                  i < lists[k].size /\ lists[k].elems[i] = t

\* Every thread that is allocated and published is in the visible part of a
\* run queue: none can be forgotten without being destroyed.
NoLostThread ==
  fault = "none" => \A t \in Thread : Published(t) => Scheduled(t)

\* schedule() comes back to a thread (sched.c:23 calls it O(1) amortized).
ScheduleReturns == frame.at # "idle" ~> frame.at = "idle" \/ fault # "none"

\* A runnable thread in a run queue gets the processor: "very unfair"
\* (sched.c:23) does not mean starvation.
NoStarvation ==
  \A t \in Thread :
    (tstate[t] = "RUNNING" /\ Scheduled(t))
      ~> (current_thread = t \/ tstate[t] # "RUNNING" \/ fault # "none")

\* What thread_exit() or kill() has marked is destroyed.
DyingIsReaped ==
  \A t \in Thread :
    tstate[t] = "DYING" ~> (tstate[t] = "free" \/ fault # "none")

\* A task whose threads are gone is destroyed, its address space with it.
EmptyTaskIsReaped ==
  \A u \in Task :
    (u \in live /\ lists[u].size = 0) ~> (u \notin live \/ fault # "none")

\* Nothing that has died stays: its thread_t, its slot, and at last its task_t and
\* address space are given back by some later tick.
Reaped == DyingIsReaped /\ EmptyTaskIsReaped

-----------------------------------------------------------------------------
(* The inductive invariant behind the safety properties.                   *)

\* What the locals of exec_thread() and schedule() hold where they are used.
LocalsOK ==
  /\ \A t \in Thread : IF spawn[t].at \in {"size", "store"}
                       THEN spawn[t].new \in Thread /\ spawn[t].into \in Task
                       ELSE spawn[t].new = NULL
  /\ frame.at = "switch" => frame.new_thread \in Thread

\* The locals of schedule() are there only while it runs.
IdleFrame == frame.at = "idle" => frame = Idle

\* A thread in a slot belongs to that task, and is not freed memory.
SlotsOwned ==
  \A k \in Task : \A i \in Slot :
    lists[k].elems[i] \in Thread =>
      owner[lists[k].elems[i]] = k /\ tstate[lists[k].elems[i]] # "free"

\* A thread under construction is private to the exec_thread() that makes it.
PendingPrivate ==
  /\ \A s \in Thread : spawn[s].new # NULL =>
       /\ tstate[spawn[s].new] # "free"
       /\ owner[spawn[s].new] = spawn[s].into
       /\ spawn[spawn[s].new] = NoSpawn
       /\ \A k \in Task : \A i \in Slot : lists[k].elems[i] # spawn[s].new
  /\ \A s1, s2 \in Thread :
       spawn[s1].new # NULL /\ spawn[s1].new = spawn[s2].new => s1 = s2
  /\ \A t \in Thread : tstate[t] = "free" => spawn[t] = NoSpawn

\* A pusher that is still in a run queue stands before the slot it will fill,
\* however stale the size it has read.
PusherBeforeSlot ==
  \A t \in Thread, k \in Task : \A i \in Slot :
    spawn[t].at \in {"size", "store"} /\ lists[k].elems[i] = t
      => k = spawn[t].into /\ i < spawn[t].n

KernelThreadFirst ==
  /\ lists[kernel_task].size > 0
  /\ lists[kernel_task].elems[0] = kernel_thread
  /\ tstate[kernel_thread] = "RUNNING"

\* Until init_scheduler() sets `threads', ticks get no further than the loop.
Booting ==
  /\ threads = NULL
  /\ frame.at \in {"idle", "loop"}
  /\ boot = "alloc" => frame = Idle
  /\ tasks.curr = 0
  /\ lists[kernel_task].curr = 0
  /\ boot \in {"alloc", "push"} => tasks = list_new
  /\ boot = "threads" => tasks.size = 1 /\ tasks.elems[0] = kernel_task

BootAlone ==
  /\ current_thread = kernel_thread
  /\ spawn[kernel_thread] = NoSpawn
  /\ live = {kernel_task}
  /\ \A t \in Thread \ {kernel_thread} : tstate[t] = "free"

\* The list of tasks: the kernel task first, every entry live, none twice.
TasksListed ==
  /\ tasks.size \in 1 .. Slots
  /\ tasks.curr <= tasks.size
  /\ tasks.elems[0] = kernel_task
  /\ \A i \in Slot : i < tasks.size => tasks.elems[i] \in live
  /\ \A i, j \in Slot :
       i < tasks.size /\ j < tasks.size /\ tasks.elems[i] = tasks.elems[j] => i = j

\* The cursor has passed u, or stands on the kernel task, which stays.
Behind(u) == tasks.curr = 0 \/ \E i \in Slot : i < tasks.curr /\ tasks.elems[i] = u

\* The thread t of the list behind `threads' is before the cursor.
Passed(t) == \E i \in Slot :
               /\ i < lists[threads].curr /\ i < lists[threads].size
               /\ lists[threads].elems[i] = t

\* The cursor stands on the kernel thread, which is runnable.
AtKernelThread ==
  /\ threads = kernel_task /\ lists[kernel_task].curr = 0
  /\ frame.at = "choose" \/ boot = "next"

\* Where the cursors are relative to the task and the thread being executed.
Cursors ==
  /\ threads \in live /\ current_task \in live
  /\ Behind(threads)
  /\ frame.at \in {"idle", "loop", "pick"} => Behind(current_task)
  /\ frame.at = "choose" => Behind(current_task) \/ AtKernelThread
  /\ frame.at = "idle" => threads = current_task
  /\ frame.at \in {"loop", "choose", "switch"} =>
       frame.new_task = IF threads = current_task THEN NULL ELSE threads
  /\ frame.at \in {"idle", "loop", "choose"} /\ threads = current_task =>
       Passed(current_thread) \/ AtKernelThread
  /\ frame.at \in {"loop", "choose"} /\ threads = kernel_task =>
       current_task = kernel_task \/ AtKernelThread
  /\ frame.at = "choose" => lists[threads].curr < lists[threads].size
  /\ frame.at = "switch" => Passed(frame.new_thread)

\* What the run queues and the threads being made satisfy at every step.
QueueInv ==
  /\ SlotsOwned
  /\ InOneSlot
  /\ PendingPrivate
  /\ PusherBeforeSlot
  /\ KernelThreadFirst

\* What the processor's registers and locals satisfy at every step.
CpuInv ==
  /\ IdleFrame
  /\ tstate[current_thread] # "free"
  /\ owner[current_thread] = current_task
  /\ boot # "done" => BootAlone
  /\ IF boot \in {"next", "done"} THEN TasksListed /\ Cursors ELSE Booting
  /\ NullOnlyAtBoot

\* The inductive invariant, from which the safety properties follow.
SchedInv == QueueInv /\ CpuInv

-----------------------------------------------------------------------------
(* The invariant behind NoLostThread, for kernels whose threads are all    *)
(* started by kmain.                                                       *)

KmainSpawns == Calls["exec_thread"] \subseteq {kernel_thread}

\* Only the kernel thread is ever inside of exec_thread().
KmainPushes ==
  \A t \in Thread : spawn[t].at \in {"size", "store"} =>
    t = kernel_thread /\ spawn[t].into = kernel_task

\* Past the size there are no threads.
TailIsJunk ==
  \A k \in Task : \A i \in Slot : i >= lists[k].size => lists[k].elems[i] = Junk

\* list_remove() has moved the slot that exec_thread() has not filled yet under
\* the cursor: the call of schedule() in progress follows the wild pointer.
Doomed ==
  /\ frame.at \in {"loop", "choose"}
  /\ threads = kernel_task
  /\ lists[kernel_task].curr < lists[kernel_task].size
  /\ ElemAt(lists[kernel_task], lists[kernel_task].curr) = Junk

\* The size that kmain has read may be too large by the time it is written, never
\* too small; once written, the slot stays the last one, or the kernel is doomed.
PushInProgress ==
  LET s == spawn[kernel_thread]
      l == lists[kernel_task]
  IN /\ s.at = "size" => l.size <= s.n
     /\ s.at = "store" => (l.size = s.n + 1 /\ ElemAt(l, s.n) = Junk) \/ Doomed

AllScheduled == \A t \in Thread : Published(t) => Scheduled(t)

\* Inductive together with SchedInv.
PushInv == KmainPushes /\ TailIsJunk /\ PushInProgress /\ AllScheduled

=============================================================================
