---------------------------- MODULE SchedProofs ----------------------------
(***************************************************************************)
(* Proofs about Sched for any number of threads, tasks and slots.          *)
(***************************************************************************)
EXTENDS Sched, TLAPS

-----------------------------------------------------------------------------
(* The operations of list.c.                                               *)

\* What each operation of list.c does to the three fields.
LEMMA ListFields ==
  ASSUME NEW E, NEW l \in list_t(E)
  PROVE  /\ list_next(l) = [elems |-> l.elems, size |-> l.size, curr |-> l.curr + 1]
         /\ list_rewind(l) = [elems |-> l.elems, size |-> l.size, curr |-> 0]
         /\ \A n : list_push_size(l, n) =
                    [elems |-> l.elems, size |-> n + 1, curr |-> l.curr]
         /\ \A n, p : list_push_elem(l, n, p) =
                    [elems |-> [l.elems EXCEPT ![n] = p], size |-> l.size, curr |-> l.curr]
         /\ \A p : list_push_back(l, p) =
                    [elems |-> [l.elems EXCEPT ![l.size] = p], size |-> l.size + 1,
                     curr |-> l.curr]
<1>1. l = [elems |-> l.elems, size |-> l.size, curr |-> l.curr]
  BY DEF list_t
<1>2. ASSUME NEW n PROVE list_push_size(l, n) =
                           [elems |-> l.elems, size |-> n + 1, curr |-> l.curr]
  BY <1>1 DEF list_push_size
<1>3. ASSUME NEW p PROVE list_push_back(l, p) =
                           [elems |-> [l.elems EXCEPT ![l.size] = p],
                            size |-> l.size + 1, curr |-> l.curr]
  BY <1>2 DEF list_push_back, list_push_elem
<1> QED
  BY <1>1, <1>2, <1>3 DEF list_next, list_rewind, list_push_elem

\* Every operation of list.c gives back a list of the same elements.
LEMMA ListTypes ==
  ASSUME NEW E, NEW l \in list_t(E)
  PROVE  /\ list_new \in list_t(E)
         /\ list_next(l) \in list_t(E)
         /\ list_rewind(l) \in list_t(E)
         /\ list_remove(l) \in list_t(E)
         /\ \A n \in Nat : list_push_size(l, n) \in list_t(E)
         /\ \A n \in Nat, p \in E : list_push_elem(l, n, p) \in list_t(E)
         /\ \A p \in E : list_push_back(l, p) \in list_t(E)
         /\ list_current(l) \in E \cup {Junk, NULL}
<1>1. /\ l = [elems |-> l.elems, size |-> l.size, curr |-> l.curr]
      /\ l.elems \in [Slot -> E \cup {Junk}]
      /\ l.size \in Nat /\ l.curr \in Nat
  BY DEF list_t
<1>2. list_new \in list_t(E)
  BY DEF list_new, list_t
<1>3. list_next(l) \in list_t(E) /\ list_rewind(l) \in list_t(E)
  BY <1>1 DEF list_next, list_rewind, list_t
<1>4. list_remove(l) \in list_t(E)
  <2>1. \A i \in Nat : ElemAt(l, i) \in E \cup {Junk}
    BY <1>1 DEF ElemAt
  <2>2. ASSUME ~ list_is_end(l)
        PROVE  list_remove(l) \in list_t(E)
    <3>1. l.size - 1 \in Nat
      BY <1>1, <2>2 DEF list_is_end
    <3>2. [i \in Slot |-> IF i = l.size - 1 THEN Junk
                          ELSE IF i = l.curr THEN ElemAt(l, l.size - 1)
                          ELSE l.elems[i]] \in [Slot -> E \cup {Junk}]
      BY <1>1, <2>1, <3>1
    <3>3. list_remove(l) =
            [elems |-> [i \in Slot |-> IF i = l.size - 1 THEN Junk
                          ELSE IF i = l.curr THEN ElemAt(l, l.size - 1)
                          ELSE l.elems[i]],
             size |-> l.size - 1, curr |-> l.curr]
      BY <1>1, <2>2 DEF list_remove
    <3> QED
      BY <1>1, <3>1, <3>2, <3>3 DEF list_t
  <2> QED
    BY <2>2 DEF list_remove
<1>5. \A n \in Nat : list_push_size(l, n) \in list_t(E)
  BY <1>1 DEF list_push_size, list_t
<1>6. \A n \in Nat, p \in E : list_push_elem(l, n, p) \in list_t(E)
  BY <1>1 DEF list_push_elem, list_t
<1>7. \A p \in E : list_push_back(l, p) \in list_t(E)
  <2> TAKE p \in E
  <2>1. list_push_back(l, p) = [elems |-> [l.elems EXCEPT ![l.size] = p],
                                size |-> l.size + 1, curr |-> l.curr]
    BY ListFields
  <2>2. [l.elems EXCEPT ![l.size] = p] \in [Slot -> E \cup {Junk}]
    BY <1>1
  <2> QED
    BY <1>1, <2>1, <2>2 DEF list_t
<1>8. list_current(l) \in E \cup {Junk, NULL}
  BY <1>1 DEF list_current, ElemAt
<1> QED
  BY <1>2, <1>3, <1>4, <1>5, <1>6, <1>7, <1>8

-----------------------------------------------------------------------------
(* Type correctness, for every choice of Calls.                            *)

TypeInv == TypeOK /\ LocalsOK

\* The initial state is typed, and no local is in use.
LEMMA TypeInit == Init => TypeInv
<1> SUFFICES ASSUME Init PROVE TypeInv
  OBVIOUS
<1>1. list_new \in list_t(Task)
  BY DEF list_new, list_t
<1>2. list_new \in list_t(Thread) /\ list_push_back(list_new, kernel_thread) \in list_t(Thread)
  <2>1. list_new \in list_t(Thread)
    BY DEF list_new, list_t
  <2> QED
    BY <2>1, ListTypes, SchedAssumption
<1>3. NoSpawn \in Spawn /\ Idle \in Frame
  BY DEF NoSpawn, Spawn, Idle, Frame
<1>4. TypeOK
  BY <1>1, <1>2, <1>3, SchedAssumption DEF create_task, Init, TypeOK, ThreadState
<1>5. LocalsOK
  BY DEF create_task, Init, LocalsOK, NoSpawn, Idle
<1> QED
  BY <1>4, <1>5 DEF TypeInv

\* The records that reset exec_thread() and schedule() are typed.
LEMMA SpawnFrameTypes ==
  /\ NoSpawn \in Spawn /\ NoSpawn.at = "none" /\ NoSpawn.new = NULL
  /\ Idle \in Frame /\ Idle.at = "idle"
  /\ Enter \in Frame /\ Enter.at = "loop"
BY DEF NoSpawn, Spawn, Idle, Frame, Enter

\* Every action keeps the types, one step per action of Next.
LEMMA TypeStep == TypeInv /\ [Next]_vars => TypeInv'
<1> SUFFICES ASSUME TypeOK, LocalsOK, [Next]_vars
             PROVE  TypeOK' /\ LocalsOK'
  BY DEF TypeInv
<1> USE SchedAssumption, SpawnFrameTypes
<1>t. /\ tstate \in [Thread -> ThreadState]
      /\ owner \in [Thread -> Task \cup {NULL}]
      /\ spawn \in [Thread -> Spawn]
      /\ lists \in [Task -> list_t(Thread)]
      /\ tasks \in list_t(Task)
      /\ frame \in Frame
      /\ current_thread \in Thread
      /\ current_task \in Task
      /\ threads \in Task \cup {NULL}
  BY DEF TypeOK
<1>c. ASSUME NEW why \in {"null", "junk", "overflow", "panic"}, Crash(why)
      PROVE  TypeOK' /\ LocalsOK'
  BY <1>c DEF Crash, TypeOK, LocalsOK, runq, cpu, thr
<1>1. CASE init_scheduler
  <2>1. CASE InitSchedulerTasks
    BY <2>1, ListTypes DEF InitSchedulerTasks, TypeOK, LocalsOK, cpu, thr
  <2>2. CASE InitSchedulerPush
    BY <2>2, ListTypes DEF InitSchedulerPush, TypeOK, LocalsOK, cpu, thr
  <2>3. CASE InitSchedulerThreads
    BY <2>3 DEF InitSchedulerThreads, TypeOK, LocalsOK, cpu, thr
  <2>4. CASE InitSchedulerNext
    BY <2>4, ListTypes DEF InitSchedulerNext, TypeOK, LocalsOK, cpu, thr
  <2> QED
    BY <1>1, <2>1, <2>2, <2>3, <2>4 DEF init_scheduler
<1>2. ASSUME NEW x \in Thread, ExecThreadCreate(x)
      PROVE  TypeOK' /\ LocalsOK'
  <2> DEFINE new == [at |-> "size", new |-> x, into |-> current_task,
                     n |-> lists[current_task].size]
  <2>1. new \in Spawn
    BY <1>t DEF Spawn, list_t
  <2>2. TypeOK'
    BY <1>2, <2>1 DEF ExecThreadCreate, TypeOK, ThreadState, runq, cpu
  <2>3. LocalsOK'
    BY <1>2, <1>t DEF ExecThreadCreate, LocalsOK
  <2> QED
    BY <2>2, <2>3
<1>3. CASE ExecThreadSize
  <2>1. spawn[current_thread] \in Spawn /\ spawn[current_thread].n \in Nat
    BY <1>t DEF Spawn
  <2>2. [spawn EXCEPT ![current_thread].at = "store"] \in [Thread -> Spawn]
    BY <1>t, <2>1 DEF Spawn
  <2>3. lists' \in [Task -> list_t(Thread)]
    BY <1>3, <1>t, <2>1, ListTypes DEF ExecThreadSize
  <2>4. TypeOK'
    BY <1>3, <2>2, <2>3 DEF ExecThreadSize, TypeOK, cpu
  <2>5. LocalsOK'
    BY <1>3, <1>t DEF ExecThreadSize, LocalsOK, Spawn
  <2> QED
    BY <2>4, <2>5
<1>4. CASE ExecThreadStore
  <2>1. CASE spawn[current_thread].n \in Slot
    <3>1. spawn[current_thread].new \in Thread /\ spawn[current_thread].n \in Nat
      BY <1>4, <1>t DEF ExecThreadStore, LocalsOK, Spawn
    <3>2. \A k \in Task : list_push_elem(lists[k], spawn[current_thread].n,
                                         spawn[current_thread].new) \in list_t(Thread)
      BY <3>1, <1>t, ListTypes
    <3>3. lists' \in [Task -> list_t(Thread)]
      BY <1>4, <2>1, <3>2, <1>t DEF ExecThreadStore
    <3> QED
      BY <1>4, <2>1, <3>3 DEF ExecThreadStore, TypeOK, LocalsOK, cpu
  <2> QED
    BY <1>4, <1>c, <2>1 DEF ExecThreadStore
<1>5. ASSUME NEW x \in Thread, NEW u \in Task, exec_elf(x, u)
      PROVE  TypeOK' /\ LocalsOK'
  <2>1. CASE tasks.size \in Slot
    <3>1. /\ list_push_back(tasks, u) \in list_t(Task)
          /\ list_push_back(list_new, x) \in list_t(Thread)
      BY <1>t, ListTypes
    <3>2. TypeOK'
      BY <1>5, <2>1, <3>1, <1>t DEF create_task, exec_elf, TypeOK, ThreadState, cpu
    <3>3. LocalsOK'
      BY <1>5, <2>1 DEF create_task, exec_elf, LocalsOK
    <3> QED
      BY <3>2, <3>3
  <2> QED
    BY <1>5, <1>c, <2>1 DEF create_task, exec_elf
<1>6. CASE thread_exit
  <2>1. [spawn EXCEPT ![current_thread].at = "exit"] \in [Thread -> Spawn]
    BY <1>t DEF Spawn
  <2>2. TypeOK'
    BY <1>6, <2>1 DEF thread_exit, TypeOK, ThreadState, runq, cpu
  <2>3. LocalsOK'
    BY <1>6, <1>t DEF thread_exit, LocalsOK, NoSpawn
  <2> QED
    BY <2>2, <2>3
<1>7. ASSUME NEW x \in Thread, kill(x) \/ wakeup(x)
      PROVE  TypeOK' /\ LocalsOK'
  BY <1>7 DEF kill, wakeup, TypeOK, LocalsOK, ThreadState, runq, cpu
<1>8. CASE preempt \/ sleep
  BY <1>8 DEF preempt, sleep, TypeOK, LocalsOK, ThreadState, runq, cpu, thr
<1>9. CASE Timer
  <2>1. TypeOK'
    BY <1>9 DEF Timer, TypeOK, runq, cpu, thr
  <2>2. LocalsOK'
    BY <1>9, <1>t DEF Timer, LocalsOK, thr
  <2> QED
    BY <2>1, <2>2
<1>10. CASE schedule
  <2>1. CASE Loop
    <3>1. CASE threads = NULL
      BY <2>1, <3>1, <1>c DEF Loop
    <3>2. CASE threads # NULL
      <4>1. lists' \in [Task -> list_t(Thread)]
        BY <2>1, <3>2, <1>t, ListTypes DEF Loop
      <4>2. frame' \in Frame /\ frame'.at \in {"pick", "choose"}
        BY <2>1, <3>2, <1>t DEF Loop, Frame
      <4> QED
        BY <2>1, <3>2, <4>1, <4>2 DEF Loop, TypeOK, LocalsOK, cpu, thr
    <3> QED
      BY <3>1, <3>2
  <2>2. CASE Pick
    <3> DEFINE u == list_current(TasksWrapped)
    <3>1. TasksWrapped \in list_t(Task)
      BY <1>t, ListTypes DEF TasksWrapped
    <3>2. ASSUME u \in Task, PickTask(u)
          PROVE  TypeOK' /\ LocalsOK'
      <4>1. tasks' \in list_t(Task) /\ lists' \in [Task -> list_t(Thread)]
        BY <3>1, <3>2, <1>t, ListTypes DEF PickTask
      <4>2. frame' \in Frame /\ frame'.at = "choose"
        BY <3>2, <1>t DEF PickTask, Frame
      <4> QED
        BY <3>2, <4>1, <4>2 DEF PickTask, TypeOK, LocalsOK, cpu, thr
    <3>3. ASSUME u \in Task, RemoveTask(u)
          PROVE  TypeOK' /\ LocalsOK'
      <4>1. CASE u = kernel_task
        BY <3>3, <4>1, <1>c DEF RemoveTask
      <4>2. CASE u # kernel_task
        <5>1. tasks' \in list_t(Task) /\ lists' \in [Task -> list_t(Thread)]
          <6>1. list_remove(TasksWrapped) \in list_t(Task) /\ list_new \in list_t(Thread)
            BY <3>1, ListTypes DEF list_new, list_t
          <6> QED
            BY <3>3, <4>2, <6>1, <1>t DEF RemoveTask
        <5>2. /\ frame' \in Frame /\ frame'.at = frame.at
              /\ frame'.new_thread = frame.new_thread
          BY <3>3, <4>2, <1>t DEF RemoveTask, Frame
        <5>3. TypeOK'
          BY <3>3, <4>2, <5>1, <5>2 DEF RemoveTask, TypeOK, cpu, thr
        <5>4. LocalsOK'
          BY <3>3, <4>2, <5>2 DEF RemoveTask, LocalsOK, thr
        <5> QED
          BY <5>3, <5>4
      <4> QED
        BY <4>1, <4>2
    <3> QED
      BY <2>2, <1>c, <3>2, <3>3 DEF Pick
  <2>3. CASE ChooseWild
    BY <2>3, <1>c DEF ChooseWild
  <2>4. CASE ChooseDying
    <3>1. /\ Candidate \in Thread
          /\ lists' = [lists EXCEPT ![threads] = list_remove(@)]
          /\ tstate' = [tstate EXCEPT ![Candidate] = "free"]
          /\ owner' = [owner EXCEPT ![Candidate] = NULL]
          /\ spawn' = [spawn EXCEPT ![Candidate] = NoSpawn]
          /\ frame' = [frame EXCEPT !.at = "loop"]
          /\ UNCHANGED <<live, tasks, threads, cpu, boot, fault>>
      BY <2>4 DEF ChooseDying
    <3>2. lists' \in [Task -> list_t(Thread)]
      BY <3>1, <1>t, ListTypes
    <3>3. frame' \in Frame /\ frame'.at = "loop"
      BY <3>1, <1>t DEF Frame
    <3>4. TypeOK'
      BY <3>1, <3>2, <3>3 DEF TypeOK, ThreadState, cpu
    <3>5. LocalsOK'
      BY <3>1, <3>3, <1>t DEF LocalsOK
    <3> QED
      BY <3>4, <3>5
  <2>5. CASE ChooseWaiting
    <3>1. frame' \in Frame /\ frame'.at = "loop"
      BY <2>5, <1>t DEF ChooseWaiting, Frame
    <3> QED
      BY <2>5, <3>1 DEF ChooseWaiting, TypeOK, LocalsOK, runq, cpu, thr
  <2>6. CASE ChooseRunning
    <3>1. frame' \in Frame /\ frame'.new_thread = Candidate
      BY <2>6, <1>t DEF ChooseRunning, Frame
    <3>2. lists' \in [Task -> list_t(Thread)]
      BY <2>6, <1>t, ListTypes DEF ChooseRunning
    <3> QED
      BY <2>6, <3>1, <3>2 DEF ChooseRunning, TypeOK, LocalsOK, cpu, thr
  <2>7. CASE Switch
    <3>1. frame.new_thread \in Thread /\ frame.new_task \in Task \cup {NULL}
      BY <2>7, <1>t DEF Switch, In, LocalsOK, Frame
    <3>2. TypeOK'
      BY <2>7, <3>1, <1>t DEF Switch, TypeOK, runq, thr
    <3>3. LocalsOK'
      BY <2>7, <3>1, <1>t DEF Switch, LocalsOK, thr
    <3> QED
      BY <3>2, <3>3
  <2> QED
    BY <1>10, <2>1, <2>2, <2>3, <2>4, <2>5, <2>6, <2>7 DEF schedule
<1>11. CASE Halted \/ UNCHANGED vars
  BY <1>11 DEF Halted, vars, TypeOK, LocalsOK, runq, cpu, thr
<1> QED
  BY <1>1, <1>2, <1>3, <1>4, <1>5, <1>6, <1>7, <1>8, <1>9, <1>10, <1>11 DEF Next

\* Type correctness of the scheduler, whatever services its threads call:
\* the cursors stay natural numbers, the locals are set where they are used,
\* and switch_context() is always given a thread.
THEOREM TypeCorrect == Spec => []TypeOK
<1>1. TypeInv => TypeOK
  BY DEF TypeInv
<1> QED
  BY TypeInit, TypeStep, <1>1, PTL DEF Spec

-----------------------------------------------------------------------------
(* The run queues.                                                         *)

\* The types of the three fields of a run queue.
LEMMA ListFieldTypes ==
  ASSUME TypeOK
  PROVE  /\ \A k \in Task : /\ lists[k] \in list_t(Thread)
                            /\ lists[k].elems \in [Slot -> Thread \cup {Junk}]
                            /\ lists[k].size \in Nat
                            /\ lists[k].curr \in Nat
         /\ tasks.elems \in [Slot -> Task \cup {Junk}]
         /\ tasks.size \in Nat
         /\ tasks.curr \in Nat
         /\ 0 \in Slot
         /\ \A t \in Thread : spawn[t].n \in Nat /\ spawn[t].new \in Thread \cup {NULL}
BY SlotsAssumption DEF TypeOK, list_t, Spawn, Slot

\* Steps that move no pointer, free nothing and touch no exec_thread() keep
\* what is known of the run queues.
LEMMA QueueKept ==
  ASSUME TypeOK, QueueInv,
         \A k \in Task : lists'[k].elems = lists[k].elems,
         lists'[kernel_task].size > 0,
         tstate'[kernel_thread] = "RUNNING",
         \A t \in Thread : tstate'[t] = "free" <=> tstate[t] = "free",
         owner' = owner,
         spawn' = spawn
  PROVE  QueueInv'
<1>1. SlotsOwned' /\ InOneSlot'
  BY DEF QueueInv, SlotsOwned, InOneSlot
<1>2. PendingPrivate' /\ PusherBeforeSlot'
  BY ListFieldTypes DEF QueueInv, PendingPrivate, PusherBeforeSlot
<1>3. KernelThreadFirst'
  BY SchedAssumption DEF QueueInv, KernelThreadFirst
<1> QED
  BY <1>1, <1>2, <1>3 DEF QueueInv

\* At boot the kernel thread is alone in the only run queue.
LEMMA QueueInit == Init => QueueInv
<1> SUFFICES ASSUME Init PROVE QueueInv
  OBVIOUS
<1> USE SchedAssumption, SlotsAssumption
<1>1. /\ 0 \in Slot
      /\ \A k \in Task : lists[k].elems =
           IF k = kernel_task THEN [list_new.elems EXCEPT ![0] = kernel_thread]
           ELSE list_new.elems
      /\ lists[kernel_task].size = 1
      /\ list_new.elems = [i \in Slot |-> Junk]
  <2>1. list_new \in list_t(Thread) /\ list_new.size = 0
        /\ list_new.elems = [i \in Slot |-> Junk]
    BY DEF list_new, list_t
  <2>2. list_push_back(list_new, kernel_thread) =
          [elems |-> [list_new.elems EXCEPT ![0] = kernel_thread], size |-> 1,
           curr |-> list_new.curr]
    BY <2>1, ListFields
  <2>3. 0 \in Slot
    BY DEF Slot
  <2>4. \A k \in Task : lists[k] = IF k = kernel_task
                                   THEN list_push_back(list_new, kernel_thread)
                                   ELSE list_new
    BY DEF create_task, Init
  <2> QED
    BY <2>1, <2>2, <2>3, <2>4
<1>2. \A k \in Task : \A i \in Slot : lists[k].elems[i] =
        IF k = kernel_task /\ i = 0 THEN kernel_thread ELSE Junk
  BY <1>1
<1>3. SlotsOwned /\ InOneSlot /\ KernelThreadFirst
  BY <1>1, <1>2 DEF create_task, Init, SlotsOwned, InOneSlot, KernelThreadFirst
<1>4. PendingPrivate /\ PusherBeforeSlot
  BY DEF create_task, Init, PendingPrivate, PusherBeforeSlot, NoSpawn
<1> QED
  BY <1>3, <1>4 DEF QueueInv

\* exec_thread() makes a thread out of a structure nobody points to.
LEMMA QueueCreate ==
  ASSUME TypeOK, LocalsOK, QueueInv, CpuInv, NEW x \in Thread, ExecThreadCreate(x)
  PROVE  QueueInv'
<1> USE SchedAssumption, ListFieldTypes
<1>1. /\ tstate[x] = "free" /\ x # current_thread /\ x # kernel_thread
      /\ tstate' = [tstate EXCEPT ![x] = "RUNNING"]
      /\ owner' = [owner EXCEPT ![x] = current_task]
      /\ spawn' = [spawn EXCEPT ![current_thread] =
                     [at |-> "size", new |-> x, into |-> current_task,
                      n |-> lists[current_task].size]]
      /\ lists' = lists
      /\ spawn[current_thread] = NoSpawn
      /\ boot = "done" /\ frame = Idle
      /\ current_thread \in Thread /\ current_task \in Task
  BY DEF ExecThreadCreate, Calling, Executing, CpuInv, runq, QueueInv, KernelThreadFirst,
         TypeOK
<1>2. \A k \in Task : \A i \in Slot : lists[k].elems[i] # x
  BY <1>1 DEF QueueInv, SlotsOwned
<1>3. SlotsOwned' /\ InOneSlot' /\ KernelThreadFirst'
  BY <1>1, <1>2 DEF TypeOK, QueueInv, SlotsOwned, InOneSlot, KernelThreadFirst
<1>4. threads = current_task /\ Passed(current_thread)
  BY <1>1 DEF CpuInv, Cursors, Idle, AtKernelThread
<1>5. PendingPrivate'
  <2>1. \A s \in Thread : spawn[s].new # current_thread
    BY <1>1, <1>4 DEF QueueInv, PendingPrivate, Passed
  <2>2. ASSUME NEW s \in Thread, spawn'[s].new # NULL
        PROVE  /\ tstate'[spawn'[s].new] # "free"
               /\ owner'[spawn'[s].new] = spawn'[s].into
               /\ spawn'[spawn'[s].new] = NoSpawn
               /\ \A k \in Task : \A i \in Slot : lists'[k].elems[i] # spawn'[s].new
    <3>1. CASE s = current_thread
      <4>1. spawn'[s].new = x /\ spawn'[s].into = current_task
        BY <1>1, <3>1 DEF TypeOK
      <4> QED
        BY <1>1, <1>2, <4>1 DEF TypeOK, QueueInv, PendingPrivate
    <3>2. CASE s # current_thread
      <4>1. /\ spawn'[s] = spawn[s] /\ spawn[s].new \in Thread
            /\ spawn[s].new # x /\ spawn[s].new # current_thread
        BY <1>1, <2>1, <2>2, <3>2 DEF TypeOK, QueueInv, PendingPrivate
      <4> QED
        BY <1>1, <2>2, <4>1 DEF TypeOK, QueueInv, PendingPrivate
    <3> QED
      BY <3>1, <3>2
  <2>3. \A s1, s2 \in Thread :
          spawn'[s1].new # NULL /\ spawn'[s1].new = spawn'[s2].new => s1 = s2
    BY <1>1 DEF TypeOK, QueueInv, PendingPrivate
  <2>4. \A t \in Thread : tstate'[t] = "free" => spawn'[t] = NoSpawn
    BY <1>1 DEF TypeOK, QueueInv, PendingPrivate, CpuInv
  <2> QED
    BY <2>2, <2>3, <2>4 DEF PendingPrivate
<1>6. \A k \in Task : \A i \in Slot :
        lists[k].elems[i] = current_thread =>
          k = current_task /\ i < lists[current_task].size
  BY <1>1, <1>4 DEF QueueInv, InOneSlot, Passed
<1>7. PusherBeforeSlot'
  BY <1>1, <1>2, <1>6 DEF TypeOK, QueueInv, PusherBeforeSlot
<1> QED
  BY <1>3, <1>5, <1>7 DEF QueueInv

\* The new size is written: no pointer moves.
LEMMA QueueSize ==
  ASSUME TypeOK, LocalsOK, QueueInv, ExecThreadSize
  PROVE  QueueInv'
<1> USE SchedAssumption, ListFieldTypes
<1> DEFINE s == spawn[current_thread]
<1>1. /\ s.at = "size" /\ s.into \in Task /\ s.n \in Nat /\ s.new \in Thread
      /\ lists' = [lists EXCEPT ![s.into] = list_push_size(lists[s.into], s.n)]
      /\ spawn' = [spawn EXCEPT ![current_thread].at = "store"]
      /\ UNCHANGED <<tstate, owner>>
      /\ current_thread \in Thread
  BY DEF ExecThreadSize, LocalsOK, TypeOK
<1>2. /\ \A k \in Task : lists'[k].elems = lists[k].elems
      /\ lists'[kernel_task].size > 0
  BY <1>1, ListFields DEF TypeOK, QueueInv, KernelThreadFirst
<1>3. \A t \in Thread : /\ spawn'[t].new = spawn[t].new
                        /\ spawn'[t].into = spawn[t].into
                        /\ spawn'[t].n = spawn[t].n
                        /\ spawn'[t].at \in {"size", "store"} <=>
                             spawn[t].at \in {"size", "store"}
                        /\ t # current_thread => spawn'[t] = spawn[t]
  BY <1>1 DEF TypeOK, Spawn
<1>4. SlotsOwned' /\ InOneSlot' /\ KernelThreadFirst'
  <2>1. SlotsOwned'
    BY <1>1, <1>2 DEF QueueInv, SlotsOwned
  <2>2. InOneSlot'
    BY <1>2 DEF QueueInv, InOneSlot
  <2>3. KernelThreadFirst'
    BY <1>1, <1>2 DEF QueueInv, KernelThreadFirst
  <2> QED
    BY <2>1, <2>2, <2>3
<1>5. PendingPrivate'
  <2>1. tstate[current_thread] # "free" /\ \A t \in Thread : spawn[t].new # current_thread
    BY <1>1 DEF QueueInv, PendingPrivate, NoSpawn
  <2> QED
    BY <1>1, <1>2, <1>3, <2>1 DEF QueueInv, PendingPrivate
<1>6. PusherBeforeSlot'
  BY <1>2, <1>3 DEF QueueInv, PusherBeforeSlot
<1> QED
  BY <1>4, <1>5, <1>6 DEF QueueInv

\* The pointer is stored: the slot comes after those of the pusher and of the
\* kernel thread.
LEMMA QueueStore ==
  ASSUME TypeOK, LocalsOK, QueueInv, CpuInv, ExecThreadStore
  PROVE  QueueInv'
<1> USE SchedAssumption, ListFieldTypes
<1> DEFINE s == spawn[current_thread]
<1>0. CASE s.n \notin Slot
  BY <1>0, QueueKept DEF ExecThreadStore, Crash, runq, thr, QueueInv, KernelThreadFirst
<1>1. CASE s.n \in Slot
  <2>1. /\ s.at = "store" /\ s.into \in Task /\ s.n \in Nat /\ s.new \in Thread
        /\ lists' = [lists EXCEPT ![s.into] = list_push_elem(lists[s.into], s.n, s.new)]
        /\ spawn' = [spawn EXCEPT ![current_thread] = NoSpawn]
        /\ UNCHANGED <<tstate, owner>>
        /\ current_thread \in Thread
        /\ frame = Idle
    BY <1>1 DEF ExecThreadStore, Executing, LocalsOK, TypeOK
  <2>2. \A k \in Task : \A i \in Slot :
          lists'[k].elems[i] = IF k = s.into /\ i = s.n THEN s.new ELSE lists[k].elems[i]
    BY <1>1, <2>1, ListFields DEF TypeOK
  <2>3. \A k \in Task : lists'[k].size = lists[k].size
    BY <2>1, ListFields DEF TypeOK
  <2>4. \E k \in Task : \E i \in Slot : lists[k].elems[i] = current_thread
    BY <2>1 DEF CpuInv, Cursors, Booting, BootAlone, AtKernelThread, Idle, Passed,
                TypeOK, QueueInv, KernelThreadFirst
  <2>5. s.n > 0
    BY <2>1, <2>4 DEF QueueInv, PusherBeforeSlot, Slot
  <2>6. /\ tstate[s.new] # "free" /\ owner[s.new] = s.into /\ spawn[s.new] = NoSpawn
        /\ \A k \in Task : \A i \in Slot : lists[k].elems[i] # s.new
        /\ \A t \in Thread : t # current_thread => spawn[t].new # s.new
        /\ \A t \in Thread : spawn[t].new # current_thread
    BY <2>1, <2>4 DEF QueueInv, PendingPrivate
  <2>7. SlotsOwned'
    BY <2>1, <2>2, <2>6 DEF QueueInv, SlotsOwned
  <2>8. InOneSlot'
    BY <2>1, <2>2, <2>6 DEF QueueInv, InOneSlot
  <2>9. KernelThreadFirst'
    BY <2>1, <2>2, <2>3, <2>5 DEF QueueInv, KernelThreadFirst
  <2>10. PendingPrivate'
    <3>1. \A t \in Thread : /\ spawn'[t] = IF t = current_thread THEN NoSpawn ELSE spawn[t]
                            /\ NoSpawn.new = NULL
      BY <2>1 DEF TypeOK, NoSpawn
    <3>2. ASSUME NEW t \in Thread, spawn'[t].new # NULL
          PROVE  /\ t # current_thread
                 /\ spawn'[t] = spawn[t]
                 /\ spawn[t].new \in Thread \ {s.new, current_thread}
      BY <2>6, <3>1, <3>2
    <3>3. ASSUME NEW t \in Thread, spawn'[t].new # NULL
          PROVE  /\ tstate'[spawn'[t].new] # "free"
                 /\ owner'[spawn'[t].new] = spawn'[t].into
                 /\ spawn'[spawn'[t].new] = NoSpawn
                 /\ \A k \in Task : \A i \in Slot : lists'[k].elems[i] # spawn'[t].new
      BY <2>1, <2>2, <3>1, <3>2, <3>3 DEF QueueInv, PendingPrivate
    <3>4. \A s1, s2 \in Thread :
            spawn'[s1].new # NULL /\ spawn'[s1].new = spawn'[s2].new => s1 = s2
      BY <3>1 DEF QueueInv, PendingPrivate
    <3>5. \A t \in Thread : tstate'[t] = "free" => spawn'[t] = NoSpawn
      BY <2>1, <3>1 DEF QueueInv, PendingPrivate
    <3> QED
      BY <3>3, <3>4, <3>5 DEF PendingPrivate
  <2>11. PusherBeforeSlot'
    BY <2>1, <2>2, <2>6 DEF TypeOK, QueueInv, PusherBeforeSlot, NoSpawn
  <2> QED
    BY <2>7, <2>8, <2>9, <2>10, <2>11 DEF QueueInv
<1> QED
  BY <1>0, <1>1

\* A new task comes with a list that holds its thread alone.
LEMMA QueueExecElf ==
  ASSUME TypeOK, QueueInv, CpuInv, NEW x \in Thread, NEW u \in Task, exec_elf(x, u)
  PROVE  QueueInv'
<1> USE SchedAssumption, ListFieldTypes
<1>0. CASE tasks.size \notin Slot
  BY <1>0, QueueKept DEF create_task, exec_elf, Crash, runq, thr, QueueInv, KernelThreadFirst
<1>1. CASE tasks.size \in Slot
  <2>1. /\ tstate[x] = "free" /\ x # kernel_thread
        /\ u # kernel_task
        /\ tstate' = [tstate EXCEPT ![x] = "RUNNING"]
        /\ owner' = [owner EXCEPT ![x] = u]
        /\ lists' = [lists EXCEPT ![u] = list_push_back(list_new, x)]
        /\ spawn' = spawn
    BY <1>1 DEF create_task, exec_elf, Calling, CpuInv, Cursors, QueueInv, KernelThreadFirst
  <2>2. \A k \in Task : \A i \in Slot :
          lists'[k].elems[i] = IF k = u THEN (IF i = 0 THEN x ELSE Junk)
                               ELSE lists[k].elems[i]
    <3>1. list_new \in list_t(Thread) /\ list_new.size = 0
          /\ list_new.elems = [i \in Slot |-> Junk]
      BY DEF list_new, list_t
    <3>2. list_push_back(list_new, x).elems = [list_new.elems EXCEPT ![0] = x]
      BY <3>1, ListFields
    <3> QED
      BY <2>1, <3>1, <3>2 DEF TypeOK
  <2>3. lists'[kernel_task] = lists[kernel_task]
    BY <2>1 DEF TypeOK
  <2>4. \A k \in Task : \A i \in Slot : lists[k].elems[i] # x
    BY <2>1 DEF QueueInv, SlotsOwned
  <2>5. \A t \in Thread : spawn[t].new # x
    BY <2>1 DEF QueueInv, PendingPrivate
  <2>6. SlotsOwned'
    BY <2>1, <2>2, <2>4 DEF TypeOK, QueueInv, SlotsOwned
  <2>7. InOneSlot'
    BY <2>1, <2>2, <2>4 DEF QueueInv, InOneSlot
  <2>8. KernelThreadFirst'
    BY <2>1, <2>3 DEF TypeOK, QueueInv, KernelThreadFirst
  <2>9. PendingPrivate'
    BY <2>1, <2>2, <2>5 DEF TypeOK, QueueInv, PendingPrivate
  <2>10. spawn[x].at = "none"
    BY <2>1 DEF QueueInv, PendingPrivate, NoSpawn
  <2>11. PusherBeforeSlot'
    BY <2>1, <2>2, <2>10 DEF QueueInv, PusherBeforeSlot
  <2> QED
    BY <2>6, <2>7, <2>8, <2>9, <2>11 DEF QueueInv
<1> QED
  BY <1>0, <1>1

\* A thread that exits changes neither queues nor pending threads.
LEMMA QueueExit ==
  ASSUME TypeOK, QueueInv, CpuInv, thread_exit
  PROVE  QueueInv'
<1> USE SchedAssumption, ListFieldTypes
<1>1. /\ current_thread \in Thread /\ current_thread # kernel_thread
      /\ tstate[current_thread] # "free" /\ tstate'[current_thread] # "free"
      /\ tstate' = [tstate EXCEPT ![current_thread] = "DYING"]
      /\ spawn[current_thread] = NoSpawn
      /\ spawn' = [spawn EXCEPT ![current_thread].at = "exit"]
      /\ lists' = lists /\ owner' = owner
      /\ boot = "done" /\ frame = Idle
  BY DEF thread_exit, Executing, CpuInv, runq, TypeOK
<1>2. \A t \in Thread : /\ spawn'[t].new = spawn[t].new
                        /\ spawn'[t].into = spawn[t].into
                        /\ spawn'[t].n = spawn[t].n
                        /\ spawn'[t].at \in {"size", "store"} <=>
                             spawn[t].at \in {"size", "store"}
                        /\ t # current_thread => spawn'[t] = spawn[t]
  BY <1>1 DEF TypeOK, Spawn, NoSpawn
<1>3. SlotsOwned' /\ InOneSlot' /\ KernelThreadFirst'
  BY <1>1 DEF TypeOK, QueueInv, SlotsOwned, InOneSlot, KernelThreadFirst
<1>4. PendingPrivate'
  <2>1. Passed(current_thread) /\ threads \in Task
    BY <1>1 DEF TypeOK, CpuInv, Cursors, Idle, AtKernelThread
  <2>2. \A t \in Thread : spawn[t].new # current_thread
    BY <1>1, <2>1 DEF QueueInv, PendingPrivate, Passed
  <2> QED
    BY <1>1, <1>2, <2>2 DEF TypeOK, QueueInv, PendingPrivate
<1>5. PusherBeforeSlot'
  BY <1>1, <1>2 DEF QueueInv, PusherBeforeSlot
<1> QED
  BY <1>3, <1>4, <1>5 DEF QueueInv

\* A task is destroyed with a list that shows no thread.
LEMMA QueueRemoveTask ==
  ASSUME TypeOK, QueueInv, NEW u \in Task, RemoveTask(u)
  PROVE  QueueInv'
<1> USE SchedAssumption, ListFieldTypes
<1>0. CASE u = kernel_task
  BY <1>0, QueueKept DEF RemoveTask, Crash, runq, thr, QueueInv, KernelThreadFirst
<1>1. CASE u # kernel_task
  <2>1. /\ lists' = [lists EXCEPT ![u] = list_new]
        /\ UNCHANGED <<tstate, owner, spawn>>
    BY <1>1 DEF RemoveTask, thr
  <2>2. \A k \in Task : \A i \in Slot :
          lists'[k].elems[i] = IF k = u THEN Junk ELSE lists[k].elems[i]
    BY <2>1 DEF TypeOK, list_new
  <2>3. lists'[kernel_task] = lists[kernel_task]
    BY <1>1, <2>1 DEF TypeOK
  <2>4. SlotsOwned' /\ InOneSlot' /\ KernelThreadFirst'
    BY <2>1, <2>2, <2>3 DEF QueueInv, SlotsOwned, InOneSlot, KernelThreadFirst
  <2>5. PendingPrivate' /\ PusherBeforeSlot'
    BY <2>1, <2>2 DEF QueueInv, PendingPrivate, PusherBeforeSlot
  <2> QED
    BY <2>4, <2>5 DEF QueueInv
<1> QED
  BY <1>0, <1>1

\* What list_remove() leaves behind.
LEMMA RemoveFields ==
  ASSUME NEW E, NEW l \in list_t(E), l.curr < l.size
  PROVE  /\ list_remove(l).curr = l.curr
         /\ list_remove(l).size = l.size - 1
         /\ \A i \in Slot : list_remove(l).elems[i] =
              IF i = l.size - 1 THEN Junk
              ELSE IF i = l.curr THEN ElemAt(l, l.size - 1)
              ELSE l.elems[i]
<1>1. l = [elems |-> l.elems, size |-> l.size, curr |-> l.curr] /\ ~ list_is_end(l)
  BY DEF list_t, list_is_end
<1>2. list_remove(l) = [elems |-> [i \in Slot |->
                              IF i = l.size - 1 THEN Junk
                              ELSE IF i = l.curr THEN ElemAt(l, l.size - 1)
                              ELSE l.elems[i]],
                        size |-> l.size - 1, curr |-> l.curr]
  BY <1>1 DEF list_remove
<1> QED
  BY <1>2

\* The timer handler got past the null check only once `threads' is set.
LEMMA InSchedule ==
  ASSUME TypeOK, CpuInv, frame.at \in {"choose", "pick", "switch"}
  PROVE  boot \in {"next", "done"} /\ threads \in Task /\ TasksListed /\ Cursors
BY SchedAssumption DEF TypeOK, CpuInv, Cursors, Booting

\* The thread schedule() destroys is neither the kernel thread nor the one
\* the handler interrupted.
LEMMA DyingFacts ==
  ASSUME TypeOK, QueueInv, CpuInv, ChooseDying
  PROVE  /\ lists[threads].curr \in Slot
         /\ lists[threads].curr < lists[threads].size
         /\ Candidate \in Thread
         /\ Candidate = lists[threads].elems[lists[threads].curr]
         /\ Candidate # kernel_thread
         /\ Candidate # current_thread
         /\ threads = kernel_task => lists[threads].curr # 0
         /\ ~ AtKernelThread
<1> USE SchedAssumption, ListFieldTypes
<1>1. boot \in {"next", "done"} /\ threads \in Task /\ Cursors /\ frame.at = "choose"
  BY InSchedule DEF ChooseDying, In
<1>2. lists[threads].curr < lists[threads].size
  BY <1>1 DEF Cursors
<1>3. /\ lists[threads].curr \in Slot
      /\ Candidate \in Thread
      /\ Candidate = lists[threads].elems[lists[threads].curr]
  BY <1>1, <1>2 DEF ChooseDying, Candidate, list_current, ElemAt
<1>4. Candidate # kernel_thread
  BY DEF ChooseDying, QueueInv, KernelThreadFirst
<1>5. /\ threads = kernel_task => lists[threads].curr # 0
      /\ ~ AtKernelThread
  BY <1>3, <1>4 DEF QueueInv, KernelThreadFirst, AtKernelThread
<1>6. Candidate # current_thread
  <2>1. CASE threads = current_task
    <3>1. Passed(current_thread)
      BY <1>1, <1>5, <2>1 DEF Cursors
    <3>2. PICK i \in Slot : i < lists[threads].curr /\ lists[threads].elems[i] = current_thread
      BY <3>1 DEF Passed
    <3> QED
      BY <1>1, <1>3, <3>2 DEF QueueInv, InOneSlot
  <2>2. CASE threads # current_task
    BY <1>1, <1>3, <2>2 DEF QueueInv, SlotsOwned, CpuInv
  <2> QED
    BY <2>1, <2>2
<1> QED
  BY <1>2, <1>3, <1>4, <1>5, <1>6

\* list_remove() takes the destroyed thread out of the queues, and what it
\* moves into the hole only comes closer to the start of the list.
LEMMA QueueDying ==
  ASSUME TypeOK, QueueInv, CpuInv, ChooseDying
  PROVE  QueueInv'
<1> USE SchedAssumption, ListFieldTypes
<1> DEFINE x == Candidate
           l == lists[threads]
<1>1. /\ lists' = [lists EXCEPT ![threads] = list_remove(l)]
      /\ tstate' = [tstate EXCEPT ![x] = "free"]
      /\ owner' = [owner EXCEPT ![x] = NULL]
      /\ spawn' = [spawn EXCEPT ![x] = NoSpawn]
  BY DEF ChooseDying
<1>2. /\ l.curr \in Slot /\ l.curr < l.size
      /\ x \in Thread /\ x = l.elems[l.curr]
      /\ x # kernel_thread /\ x # current_thread
      /\ threads = kernel_task => l.curr # 0
  BY DyingFacts
<1>3. threads \in Task /\ l \in list_t(Thread) /\ l.size \in Nat /\ l.curr \in Nat
  BY InSchedule DEF ChooseDying, In
<1>4. /\ list_remove(l).curr = l.curr
      /\ list_remove(l).size = l.size - 1
      /\ \A i \in Slot : list_remove(l).elems[i] =
              IF i = l.size - 1 THEN Junk
              ELSE IF i = l.curr THEN ElemAt(l, l.size - 1)
              ELSE l.elems[i]
  BY <1>2, <1>3, RemoveFields
<1> HIDE DEF x, l
<1>5. \A k \in Task : lists'[k] = IF k = threads THEN list_remove(l) ELSE lists[k]
  BY <1>1, <1>3 DEF TypeOK
<1> DEFINE from(k, i) == IF k = threads /\ i = l.curr THEN l.size - 1 ELSE i
<1>6. \A k \in Task : \A i \in Slot : lists'[k].elems[i] \in Thread =>
         /\ from(k, i) \in Slot /\ i <= from(k, i)
         /\ lists'[k].elems[i] = lists[k].elems[from(k, i)]
         /\ ~ (k = threads /\ i = l.size - 1)
  BY <1>2, <1>3, <1>4, <1>5 DEF ElemAt, l, Slot
<1>7. \A k \in Task : \A i \in Slot : lists'[k].elems[i] # x
  BY <1>2, <1>3, <1>6 DEF QueueInv, InOneSlot, l
<1>8. SlotsOwned'
  BY <1>1, <1>2, <1>6, <1>7 DEF TypeOK, QueueInv, SlotsOwned
<1>9. InOneSlot'
  <2> SUFFICES ASSUME NEW k1 \in Task, NEW k2 \in Task, NEW i \in Slot, NEW j \in Slot,
                      lists'[k1].elems[i] \in Thread,
                      lists'[k1].elems[i] = lists'[k2].elems[j]
               PROVE  k1 = k2 /\ i = j
    BY DEF InOneSlot
  <2>1. /\ from(k1, i) \in Slot /\ from(k2, j) \in Slot
        /\ lists[k1].elems[from(k1, i)] \in Thread
        /\ lists[k1].elems[from(k1, i)] = lists[k2].elems[from(k2, j)]
        /\ ~ (k1 = threads /\ i = l.size - 1)
        /\ ~ (k2 = threads /\ j = l.size - 1)
    BY <1>6
  <2>2. k1 = k2 /\ from(k1, i) = from(k2, j)
    BY <2>1 DEF QueueInv, InOneSlot
  <2> QED
    BY <2>1, <2>2
<1>10. KernelThreadFirst'
  <2>1. lists'[kernel_task].size > 0 /\ lists'[kernel_task].elems[0] = kernel_thread
    <3>1. CASE threads = kernel_task
      <4>1. l.curr > 0 /\ l.size - 1 > 0
        <5>1. l.curr # 0
          BY <1>2, <3>1
        <5>2. l.curr \in Nat /\ l.size \in Nat /\ l.curr < l.size
          BY <1>2, <1>3
        <5> HIDE SchedAssumption, ListFieldTypes
        <5> QED
          BY <5>1, <5>2
      <4>2. l.elems[0] = kernel_thread
        BY <3>1 DEF QueueInv, KernelThreadFirst, l
      <4>3. list_remove(l).elems[0] = kernel_thread
        BY <1>4, <4>1, <4>2
      <4> QED
        BY <1>4, <1>5, <3>1, <4>1, <4>3
    <3>2. CASE threads # kernel_task
      BY <1>5, <3>2 DEF QueueInv, KernelThreadFirst
    <3> QED
      BY <3>1, <3>2
  <2> QED
    BY <1>1, <1>2, <2>1 DEF TypeOK, QueueInv, KernelThreadFirst
<1>11. PendingPrivate'
  <2>1. \A s \in Thread : spawn'[s] = IF s = x THEN NoSpawn ELSE spawn[s]
    BY <1>1, <1>2 DEF TypeOK
  <2>2. NoSpawn.new = NULL
    BY DEF NoSpawn
  <2>3. \A s \in Thread : spawn[s].new # x
    BY <1>2, <1>3 DEF QueueInv, PendingPrivate, l
  <2>4. ASSUME NEW s \in Thread, spawn'[s].new # NULL
        PROVE  /\ tstate'[spawn'[s].new] # "free"
               /\ owner'[spawn'[s].new] = spawn'[s].into
               /\ spawn'[spawn'[s].new] = NoSpawn
               /\ \A k \in Task : \A i \in Slot : lists'[k].elems[i] # spawn'[s].new
    <3>1. spawn'[s] = spawn[s] /\ spawn[s].new \in Thread \ {x} /\ spawn[s].new # NULL
      BY <2>1, <2>2, <2>3, <2>4
    <3>2. /\ tstate[spawn[s].new] # "free"
          /\ owner[spawn[s].new] = spawn[s].into
          /\ spawn[spawn[s].new] = NoSpawn
          /\ \A k \in Task : \A i \in Slot : lists[k].elems[i] # spawn[s].new
      BY <3>1 DEF QueueInv, PendingPrivate
    <3>3. \A k \in Task : \A i \in Slot : lists'[k].elems[i] # spawn[s].new
      <4> TAKE k \in Task
      <4> TAKE i \in Slot
      <4> QED
        BY <1>6, <3>1, <3>2
    <3> QED
      BY <1>1, <1>2, <2>1, <3>1, <3>2, <3>3 DEF TypeOK
  <2>5. \A s1, s2 \in Thread :
          spawn'[s1].new # NULL /\ spawn'[s1].new = spawn'[s2].new => s1 = s2
    BY <2>1, <2>2 DEF QueueInv, PendingPrivate
  <2>6. \A t \in Thread : tstate'[t] = "free" => spawn'[t] = NoSpawn
    BY <1>1, <1>2, <2>1 DEF TypeOK, QueueInv, PendingPrivate
  <2> QED
    BY <2>4, <2>5, <2>6 DEF PendingPrivate
<1>12. PusherBeforeSlot'
  <2>1. \A s \in Thread : spawn'[s] = IF s = x THEN NoSpawn ELSE spawn[s]
    BY <1>1, <1>2 DEF TypeOK
  <2> QED
    BY <1>6, <1>7, <2>1 DEF QueueInv, PusherBeforeSlot, Slot
<1> QED
  BY <1>8, <1>9, <1>10, <1>11, <1>12 DEF QueueInv
-----------------------------------------------------------------------------
(* The processor.                                                          *)

\* At boot no tick has reached schedule().
LEMMA CpuInit == Init => CpuInv
<1> SUFFICES ASSUME Init PROVE CpuInv
  OBVIOUS
<1> USE SchedAssumption
<1>1. lists[kernel_task].curr = 0
  BY DEF create_task, Init, list_push_back, list_push_elem, list_push_size, list_new
<1>2. Booting
  BY <1>1 DEF create_task, Init, Booting, Idle, list_new
<1>3. BootAlone
  BY DEF create_task, Init, BootAlone
<1>4. IdleFrame /\ NullOnlyAtBoot
  BY DEF create_task, Init, IdleFrame, NullOnlyAtBoot
<1> QED
  BY <1>2, <1>3, <1>4 DEF create_task, Init, CpuInv

\* A crash freezes everything but `fault'.
LEMMA CpuCrash ==
  ASSUME TypeOK, CpuInv, NEW why, Crash(why), why = "null" => boot \in {"push", "threads"}
  PROVE  CpuInv'
<1>1. UNCHANGED <<runq, cpu, thr, frame, boot>> /\ fault' = why
  BY DEF Crash
<1> QED
  BY <1>1 DEF runq, cpu, thr, CpuInv, IdleFrame, BootAlone, TasksListed, Cursors,
     Booting, NullOnlyAtBoot, Behind, Passed, AtKernelThread

\* Each of the four assignments of init_scheduler() keeps the invariant.
LEMMA CpuBoot ==
  ASSUME TypeOK, QueueInv, CpuInv, init_scheduler
  PROVE  CpuInv'
<1> USE SchedAssumption, ListFieldTypes
<1>0. /\ fault = "none" /\ frame = Idle
      /\ boot \in {"alloc", "push", "threads", "next"}
      /\ UNCHANGED <<live, cpu, thr, frame, fault>>
  BY DEF init_scheduler, InitSchedulerTasks, InitSchedulerPush, InitSchedulerThreads,
         InitSchedulerNext, Executing
<1>1. /\ IdleFrame' /\ NullOnlyAtBoot' /\ BootAlone /\ BootAlone'
      /\ tstate'[current_thread'] # "free" /\ owner'[current_thread'] = current_task'
  BY <1>0 DEF CpuInv, IdleFrame, NullOnlyAtBoot, BootAlone, cpu, thr
<1>2. CASE InitSchedulerTasks
  <2>1. Booting'
    BY <1>0, <1>2 DEF InitSchedulerTasks, CpuInv, Booting, cpu, list_new
  <2> QED
    BY <1>1, <1>2, <2>1 DEF InitSchedulerTasks, CpuInv
<1>3. CASE InitSchedulerPush
  <2>1. tasks = list_new /\ Booting
    BY <1>3 DEF InitSchedulerPush, CpuInv, Booting
  <2>2. /\ tasks \in list_t(Task) /\ tasks.size = 0 /\ tasks.curr = 0
        /\ tasks.elems = [i \in Slot |-> Junk]
    BY <2>1 DEF TypeOK, list_new
  <2>3. tasks' = [elems |-> [tasks.elems EXCEPT ![0] = kernel_task], size |-> 1, curr |-> 0]
    BY <1>3, <2>2, ListFields DEF InitSchedulerPush
  <2>4. tasks'.curr = 0 /\ tasks'.size = 1 /\ tasks'.elems[0] = kernel_task
    BY <2>2, <2>3
  <2>5. Booting'
    BY <1>0, <1>3, <2>1, <2>4 DEF InitSchedulerPush, Booting, cpu
  <2> QED
    BY <1>1, <1>3, <2>5 DEF InitSchedulerPush, CpuInv
<1>4. CASE InitSchedulerThreads
  <2>1. /\ Booting /\ boot = "threads" /\ boot' = "next" /\ threads' = kernel_task
        /\ UNCHANGED <<live, lists, tasks, cpu, thr, frame, fault>>
    BY <1>4 DEF InitSchedulerThreads, CpuInv
  <2>2. TasksListed'
    BY <1>1, <2>1, SlotsAssumption DEF Booting, BootAlone, TasksListed, Slot
  <2>3. current_task = kernel_task /\ current_task \in live
    BY <1>1 DEF CpuInv, BootAlone, QueueInv, KernelThreadFirst, SlotsOwned
  <2>4. Cursors'
    BY <1>0, <1>1, <2>1, <2>3 DEF Cursors, Booting, Behind, Passed, AtKernelThread, Idle,
       cpu
  <2> QED
    BY <1>1, <2>1, <2>2, <2>4 DEF CpuInv
<1>5. CASE InitSchedulerNext
  <2>1. /\ boot = "next" /\ boot' = "done" /\ TasksListed /\ Cursors
        /\ lists' = [lists EXCEPT ![threads] = list_next(lists[threads])]
        /\ UNCHANGED <<live, tasks, threads, cpu, thr, frame, fault>>
    BY <1>5 DEF InitSchedulerNext, CpuInv
  <2>2. TasksListed'
    BY <2>1 DEF TasksListed
  <2>3. /\ current_thread = kernel_thread /\ threads = kernel_task
        /\ current_task = kernel_task
    BY <1>0, <1>1, <2>1 DEF BootAlone, Cursors, Idle, QueueInv, KernelThreadFirst, SlotsOwned,
                            CpuInv
  <2>4. /\ lists'[threads].curr > 0
        /\ lists'[threads].size > 0 /\ lists'[threads].elems[0] = kernel_thread
    BY <2>1, <2>3, ListFields DEF TypeOK, QueueInv, KernelThreadFirst
  <2>5. Passed(current_thread)'
    BY <2>1, <2>3, <2>4 DEF Passed, cpu
  <2>6. Cursors'
    BY <1>0, <2>1, <2>3, <2>5 DEF Cursors, Behind, Idle, cpu
  <2> QED
    BY <1>1, <2>1, <2>2, <2>6 DEF CpuInv
<1> QED
  BY <1>2, <1>3, <1>4, <1>5 DEF init_scheduler

\* Steps of the thread being executed, which stays where the cursors left it.
LEMMA CpuThread ==
  ASSUME TypeOK, CpuInv, frame = Idle, boot = "done",
         UNCHANGED <<threads, cpu, frame, boot, fault>>,
         TasksListed', live \subseteq live',
         tasks'.curr = tasks.curr,
         \A i \in Slot : i < tasks.curr => tasks'.elems[i] = tasks.elems[i],
         tstate'[current_thread] # "free",
         owner'[current_thread] = owner[current_thread],
         Passed(current_thread) => Passed(current_thread)'
  PROVE  CpuInv'
<1>1. Cursors /\ threads = current_task /\ Passed(current_thread)
  BY DEF CpuInv, Cursors, Idle, AtKernelThread
<1>2. \A u : Behind(u) => Behind(u)'
  BY DEF Behind
<1>3. Cursors'
  BY <1>1, <1>2 DEF Cursors, Idle, cpu
<1> QED
  BY <1>3 DEF CpuInv, IdleFrame, NullOnlyAtBoot, cpu

\* create_thread() touches no run queue and no cursor.
LEMMA CpuCreate ==
  ASSUME TypeOK, CpuInv, NEW x \in Thread, ExecThreadCreate(x)
  PROVE  CpuInv'
<1>1. /\ frame = Idle /\ boot = "done" /\ tstate[x] = "free" /\ current_thread # x
      /\ tstate' = [tstate EXCEPT ![x] = "RUNNING"]
      /\ owner' = [owner EXCEPT ![x] = current_task]
      /\ UNCHANGED <<runq, cpu, frame, boot, fault>>
  BY DEF ExecThreadCreate, Calling, Executing, CpuInv
<1>2. TasksListed' /\ (Passed(current_thread) => Passed(current_thread)')
  BY <1>1 DEF CpuInv, TasksListed, Passed, runq, cpu
<1>3. tstate'[current_thread] # "free" /\ owner'[current_thread] = owner[current_thread]
  BY <1>1 DEF TypeOK, CpuInv
<1> QED
  BY <1>1, <1>2, <1>3, CpuThread DEF runq

\* An exec_thread() in progress means that init_scheduler() is over.
LEMMA PushAfterBoot ==
  ASSUME CpuInv, LocalsOK, spawn[current_thread].at \in {"size", "store"}
  PROVE  boot = "done"
BY DEF CpuInv, BootAlone, NoSpawn

\* The size that exec_thread() writes, stale or not, leaves the current
\* thread before the cursor.
LEMMA CpuSize ==
  ASSUME TypeOK, LocalsOK, QueueInv, CpuInv, ExecThreadSize
  PROVE  CpuInv'
<1> USE ListFieldTypes
<1> DEFINE s == spawn[current_thread]
<1>1. /\ frame = Idle /\ boot = "done" /\ s.at = "size"
      /\ s.into \in Task /\ s.n \in Nat
      /\ lists' = [lists EXCEPT ![s.into] = list_push_size(lists[s.into], s.n)]
      /\ UNCHANGED <<live, tasks, threads, cpu, tstate, owner, frame, boot, fault>>
      /\ current_thread \in Thread
  BY PushAfterBoot DEF ExecThreadSize, Executing, LocalsOK, TypeOK
<1>2. TasksListed'
  BY <1>1 DEF CpuInv, TasksListed
<1>3. ASSUME Passed(current_thread)
      PROVE  Passed(current_thread)'
  <2>1. threads \in Task
    BY <1>1 DEF TypeOK, CpuInv, Cursors
  <2>2. PICK i \in Slot : /\ i < lists[threads].curr /\ i < lists[threads].size
                          /\ lists[threads].elems[i] = current_thread
    BY <1>3 DEF Passed
  <2>3. threads = s.into /\ i < s.n /\ i \in Nat
    BY <1>1, <2>1, <2>2 DEF QueueInv, PusherBeforeSlot, Slot
  <2>4. /\ lists'[threads].curr = lists[threads].curr
        /\ lists'[threads].elems = lists[threads].elems
        /\ lists'[threads].size = s.n + 1
    BY <1>1, <2>1, <2>3, ListFields DEF TypeOK
  <2>5. i < lists'[threads].size
    BY <1>1, <2>3, <2>4
  <2> QED
    BY <1>1, <2>2, <2>4, <2>5 DEF Passed, cpu
<1> QED
  BY <1>1, <1>2, <1>3, CpuThread DEF CpuInv

\* The slot that exec_thread() fills is not the one of the current thread.
LEMMA CpuStore ==
  ASSUME TypeOK, LocalsOK, QueueInv, CpuInv, ExecThreadStore
  PROVE  CpuInv'
<1> USE ListFieldTypes
<1> DEFINE s == spawn[current_thread]
<1>0. CASE s.n \notin Slot
  BY <1>0, CpuCrash DEF ExecThreadStore
<1>1. CASE s.n \in Slot
  <2>1. /\ frame = Idle /\ boot = "done" /\ s.at = "store"
        /\ s.into \in Task /\ s.n \in Nat
        /\ lists' = [lists EXCEPT ![s.into] = list_push_elem(lists[s.into], s.n, s.new)]
        /\ UNCHANGED <<live, tasks, threads, cpu, tstate, owner, frame, boot, fault>>
        /\ current_thread \in Thread
    BY <1>1, PushAfterBoot DEF ExecThreadStore, Executing, LocalsOK, TypeOK
  <2>2. TasksListed'
    BY <2>1 DEF CpuInv, TasksListed
  <2>3. ASSUME Passed(current_thread)
        PROVE  Passed(current_thread)'
    <3>1. threads \in Task
      BY <2>1 DEF TypeOK, CpuInv, Cursors
    <3>2. PICK i \in Slot : /\ i < lists[threads].curr /\ i < lists[threads].size
                            /\ lists[threads].elems[i] = current_thread
      BY <2>3 DEF Passed
    <3>3. threads = s.into /\ i < s.n /\ i \in Nat
      BY <2>1, <3>1, <3>2 DEF QueueInv, PusherBeforeSlot, Slot
    <3>4. /\ lists'[threads].curr = lists[threads].curr
          /\ lists'[threads].elems = [lists[threads].elems EXCEPT ![s.n] = s.new]
          /\ lists'[threads].size = lists[threads].size
      <4>1. lists'[threads] = list_push_elem(lists[threads], s.n, s.new)
        BY <2>1, <3>1, <3>3 DEF TypeOK
      <4>2. list_push_elem(lists[threads], s.n, s.new) =
              [elems |-> [lists[threads].elems EXCEPT ![s.n] = s.new],
               size |-> lists[threads].size, curr |-> lists[threads].curr]
        BY <3>1, ListFields
      <4> QED
        BY <4>1, <4>2
    <3>5. lists'[threads].elems[i] = current_thread
      BY <3>1, <3>2, <3>3, <3>4, <2>1
    <3> QED
      BY <2>1, <3>2, <3>4, <3>5 DEF Passed, cpu
  <2> QED
    BY <2>1, <2>2, <2>3, CpuThread DEF CpuInv
<1> QED
  BY <1>0, <1>1

\* exec_elf() appends a task behind the cursor of the list of tasks.
LEMMA CpuExecElf ==
  ASSUME TypeOK, QueueInv, CpuInv, NEW x \in Thread, NEW u \in Task, exec_elf(x, u)
  PROVE  CpuInv'
<1> USE ListFieldTypes, SchedAssumption
<1>0. CASE tasks.size \notin Slot
  BY <1>0, CpuCrash DEF create_task, exec_elf
<1>1. CASE tasks.size \in Slot
  <2>1. /\ frame = Idle /\ boot = "done" /\ tstate[x] = "free" /\ current_thread # x
        /\ u \notin live
        /\ tstate' = [tstate EXCEPT ![x] = "RUNNING"]
        /\ owner' = [owner EXCEPT ![x] = u]
        /\ live' = live \cup {u}
        /\ lists' = [lists EXCEPT ![u] = list_push_back(list_new, x)]
        /\ tasks' = list_push_back(tasks, u)
        /\ UNCHANGED <<threads, cpu, frame, boot, fault>>
        /\ TasksListed /\ threads \in live
    BY <1>1 DEF create_task, exec_elf, Calling, Executing, CpuInv, Cursors
  <2>2. tasks' = [elems |-> [tasks.elems EXCEPT ![tasks.size] = u],
                  size |-> tasks.size + 1, curr |-> tasks.curr]
    BY <2>1, ListFields DEF TypeOK
  <2>3. /\ tasks'.size = tasks.size + 1 /\ tasks'.curr = tasks.curr
        /\ \A i \in Slot : tasks'.elems[i] = IF i = tasks.size THEN u ELSE tasks.elems[i]
    BY <2>2
  <2>4. TasksListed'
    <3>1. /\ tasks'.size \in 1 .. Slots /\ tasks'.curr <= tasks'.size
          /\ tasks'.elems[0] = kernel_task
      BY <1>1, <2>1, <2>3, SlotsAssumption DEF TasksListed, Slot
    <3>2. \A i \in Slot : i < tasks'.size =>
            (i = tasks.size /\ tasks'.elems[i] = u) \/
            (i < tasks.size /\ tasks'.elems[i] = tasks.elems[i] /\ tasks.elems[i] \in live)
      BY <1>1, <2>1, <2>3 DEF TasksListed, Slot
    <3> QED
      BY <2>1, <3>1, <3>2 DEF TasksListed
  <2>5. \A i \in Slot : i < tasks.curr => tasks'.elems[i] = tasks.elems[i]
    BY <2>1, <2>3 DEF TasksListed, Slot
  <2>6. tstate'[current_thread] # "free" /\ owner'[current_thread] = owner[current_thread]
    BY <2>1 DEF TypeOK, CpuInv
  <2>7. Passed(current_thread) => Passed(current_thread)'
    <3>1. lists'[threads] = lists[threads] /\ threads' = threads
          /\ current_thread' = current_thread
      BY <2>1 DEF TypeOK, cpu
    <3> QED
      BY <3>1 DEF Passed
  <2> QED
    BY <2>1, <2>3, <2>4, <2>5, <2>6, <2>7, CpuThread
<1> QED
  BY <1>0, <1>1

\* thread_exit(), kill() and wakeup() move no cursor.
LEMMA CpuStates ==
  ASSUME TypeOK, CpuInv, thread_exit \/ \E x \in Thread : kill(x) \/ wakeup(x)
  PROVE  CpuInv'
<1>1. /\ frame = Idle /\ boot = "done"
      /\ tstate'[current_thread] # "free"
      /\ UNCHANGED <<runq, cpu, owner, frame, boot, fault>>
  BY DEF thread_exit, kill, wakeup, Calling, Executing, TypeOK
<1>2. TasksListed' /\ (Passed(current_thread) => Passed(current_thread)')
  BY <1>1 DEF CpuInv, TasksListed, Passed, runq, cpu
<1> QED
  BY <1>1, <1>2, CpuThread DEF runq

\* A tick, preempt() and sleep() enter schedule() with fresh locals.
LEMMA CpuEnter ==
  ASSUME TypeOK, CpuInv, Timer \/ preempt \/ sleep
  PROVE  CpuInv'
<1>1. /\ frame = Idle /\ fault = "none" /\ boot # "alloc"
      /\ frame' = Enter
      /\ tstate'[current_thread] # "free"
      /\ boot # "done" => UNCHANGED thr
      /\ UNCHANGED <<runq, cpu, owner, boot, fault>>
  BY DEF Timer, preempt, sleep, Calling, Executing, CpuInv, TypeOK, thr
<1>2. /\ frame.at = "idle" /\ frame'.at = "loop"
      /\ frame'.new_task = NULL
  BY <1>1 DEF Idle, Enter
<1>3. IdleFrame' /\ NullOnlyAtBoot' /\ (boot # "done" => BootAlone')
  BY <1>1, <1>2 DEF CpuInv, IdleFrame, NullOnlyAtBoot, BootAlone, runq, cpu, thr
<1>4. CASE boot \in {"next", "done"}
  <2>1. TasksListed /\ Cursors
    BY <1>4 DEF CpuInv
  <2>2. TasksListed' /\ \A u : Behind(u)' <=> Behind(u)
    BY <1>1, <2>1 DEF TasksListed, Behind, runq
  <2>3. Passed(current_thread)' <=> Passed(current_thread)
    BY <1>1 DEF Passed, runq, cpu
  <2>4. AtKernelThread => AtKernelThread'
    BY <1>1, <1>2 DEF AtKernelThread, runq
  <2>5. Cursors'
    BY <1>1, <1>2, <2>1, <2>2, <2>3, <2>4 DEF Cursors, runq, cpu
  <2> QED
    BY <1>1, <1>3, <1>4, <2>2, <2>5 DEF CpuInv, cpu
<1>5. CASE boot \notin {"next", "done"}
  <2>1. Booting'
    BY <1>1, <1>2, <1>5 DEF CpuInv, Booting, runq, cpu
  <2> QED
    BY <1>1, <1>3, <1>5, <2>1 DEF CpuInv, cpu
<1> QED
  BY <1>4, <1>5

\* A step of schedule(), once `threads' is set, keeps the
\* part of the invariant that does not speak of the cursors.
LEMMA CpuSchedule ==
  ASSUME TypeOK, CpuInv, boot \in {"next", "done"},
         UNCHANGED <<boot, fault>>,
         frame'.at # "idle" \/ frame' = Idle,
         tstate'[current_thread'] # "free",
         owner'[current_thread'] = current_task',
         boot # "done" => BootAlone',
         TasksListed', Cursors'
  PROVE  CpuInv'
BY DEF CpuInv, IdleFrame, NullOnlyAtBoot

\* The head of the loop: at the end of its list the cursor is rewound.
LEMMA CpuLoop ==
  ASSUME TypeOK, QueueInv, CpuInv, Loop
  PROVE  CpuInv'
<1> USE ListFieldTypes, SchedAssumption
<1>0. In("loop")
  BY DEF Loop
<1>1. CASE threads = NULL
  <2>1. boot \in {"push", "threads"}
    BY <1>0, <1>1 DEF CpuInv, Cursors, Booting, In, Idle, TypeOK
  <2> QED
    BY <1>1, <2>1, CpuCrash DEF Loop
<1>2. CASE threads # NULL
  <2>1. /\ boot \in {"next", "done"} /\ TasksListed /\ Cursors /\ threads \in Task
        /\ UNCHANGED <<live, tasks, threads, cpu, thr, boot, fault>>
        /\ frame.at = "loop"
    BY <1>0, <1>2 DEF Loop, CpuInv, Booting, IdleFrame, In, Idle, TypeOK
  <2>2. TasksListed'
    BY <2>1 DEF TasksListed
  <2>3. \A u : Behind(u)' <=> Behind(u)
    BY <2>1 DEF Behind
  <2>4. boot # "done" => BootAlone'
    BY <2>1 DEF CpuInv, BootAlone, cpu, thr
  <2>5. CASE list_is_end(lists[threads])
    <3>1. frame' = [frame EXCEPT !.at = "pick"]
      BY <1>2, <2>5 DEF Loop
    <3>2. frame'.at = "pick"
      BY <2>1, <3>1 DEF TypeOK, Frame
    <3>3. Cursors'
      BY <2>1, <2>3, <3>2 DEF Cursors, cpu
    <3> QED
      BY <2>1, <2>2, <2>4, <3>2, <3>3, CpuSchedule DEF CpuInv, cpu, thr
  <2>6. CASE ~ list_is_end(lists[threads])
    <3>1. frame' = [frame EXCEPT !.at = "choose"] /\ lists' = lists
      BY <1>2, <2>6 DEF Loop
    <3>2. frame'.at = "choose" /\ frame'.new_task = frame.new_task
      BY <2>1, <3>1 DEF TypeOK, Frame
    <3>3. /\ Passed(current_thread)' <=> Passed(current_thread)
          /\ AtKernelThread => AtKernelThread'
          /\ lists'[threads].curr < lists'[threads].size
      BY <2>1, <2>6, <3>1, <3>2 DEF Passed, AtKernelThread, list_is_end, cpu
    <3>4. Cursors'
      BY <2>1, <2>3, <3>2, <3>3 DEF Cursors, cpu
    <3> QED
      BY <2>1, <2>2, <2>4, <3>2, <3>4, CpuSchedule DEF CpuInv, cpu, thr
  <2> QED
    BY <2>5, <2>6
<1> QED
  BY <1>1, <1>2

\* The task that follows the cursor is not the one being left, unless the
\* list has been rewound to the kernel task.
LEMMA PickFacts ==
  ASSUME TypeOK, QueueInv, CpuInv, In("pick")
  PROVE  /\ TasksWrapped \in list_t(Task)
         /\ TasksWrapped.elems = tasks.elems /\ TasksWrapped.size = tasks.size
         /\ TasksWrapped.curr \in Slot /\ TasksWrapped.curr < tasks.size
         /\ list_current(TasksWrapped) = tasks.elems[TasksWrapped.curr]
         /\ list_current(TasksWrapped) \in live
         /\ TasksWrapped.curr = 0 \/ (/\ TasksWrapped.curr = tasks.curr
                                      /\ list_current(TasksWrapped) # current_task
                                      /\ list_current(TasksWrapped) # threads)
         /\ list_current(TasksWrapped) = kernel_task <=> TasksWrapped.curr = 0
<1> USE ListFieldTypes, SchedAssumption, SlotsAssumption
<1>1. boot \in {"next", "done"} /\ TasksListed /\ Cursors /\ frame.at = "pick"
  BY InSchedule DEF In
<1>2. /\ TasksWrapped \in list_t(Task)
      /\ TasksWrapped.elems = tasks.elems /\ TasksWrapped.size = tasks.size
      /\ TasksWrapped.curr = IF tasks.curr >= tasks.size THEN 0 ELSE tasks.curr
  <2>1. tasks \in list_t(Task)
    BY DEF TypeOK
  <2>2. list_rewind(tasks) = [elems |-> tasks.elems, size |-> tasks.size, curr |-> 0]
    BY <2>1, ListFields
  <2>3. list_rewind(tasks) \in list_t(Task)
    BY <2>1, ListTypes
  <2> QED
    BY <2>1, <2>2, <2>3 DEF TasksWrapped, list_is_end
<1>3. TasksWrapped.curr \in Slot /\ TasksWrapped.curr < tasks.size
  BY <1>1, <1>2 DEF TasksListed, Slot
<1>4. list_current(TasksWrapped) = tasks.elems[TasksWrapped.curr]
  BY <1>2, <1>3 DEF list_current, ElemAt
<1>5. list_current(TasksWrapped) \in live
  BY <1>1, <1>3, <1>4 DEF TasksListed
<1>6. ASSUME TasksWrapped.curr # 0
      PROVE  /\ TasksWrapped.curr = tasks.curr
             /\ list_current(TasksWrapped) # current_task
             /\ list_current(TasksWrapped) # threads
  <2>1. TasksWrapped.curr = tasks.curr /\ tasks.curr < tasks.size /\ tasks.curr # 0
    BY <1>2, <1>6
  <2>2. \A i \in Slot : i < tasks.curr => tasks.elems[i] # tasks.elems[tasks.curr]
    BY <1>1, <1>3, <2>1 DEF TasksListed, Slot
  <2>3. Behind(current_task) /\ Behind(threads)
    BY <1>1 DEF Cursors
  <2> QED
    BY <1>4, <2>1, <2>2, <2>3 DEF Behind
<1>7. list_current(TasksWrapped) = kernel_task <=> TasksWrapped.curr = 0
  BY <1>1, <1>3, <1>4 DEF TasksListed, Slot
<1> QED
  BY <1>2, <1>3, <1>4, <1>5, <1>6, <1>7

\* A task with threads becomes the one behind `threads'.
LEMMA CpuPickTask ==
  ASSUME TypeOK, QueueInv, CpuInv, In("pick"),
         PickTask(list_current(TasksWrapped)),
         ~ list_is_empty(lists[list_current(TasksWrapped)])
  PROVE  CpuInv'
<1> USE ListFieldTypes, SchedAssumption
<1> DEFINE u == list_current(TasksWrapped)
           c == TasksWrapped.curr
<1>1. /\ TasksWrapped \in list_t(Task)
      /\ TasksWrapped.elems = tasks.elems /\ TasksWrapped.size = tasks.size
      /\ c \in Slot /\ c < tasks.size /\ u = tasks.elems[c] /\ u \in live
      /\ c = 0 \/ (c = tasks.curr /\ u # current_task /\ u # threads)
      /\ u = kernel_task <=> c = 0
  BY PickFacts
<1>2. /\ boot \in {"next", "done"} /\ TasksListed /\ Cursors /\ frame.at = "pick"
     
  BY InSchedule DEF In, CpuInv, IdleFrame, Idle
<1>3. /\ tasks' = list_next(TasksWrapped)
      /\ threads' = u
      /\ lists' = [lists EXCEPT ![u] = list_rewind(lists[u])]
      /\ frame' = [frame EXCEPT !.at = "choose",
                            !.new_task = IF u = current_task THEN NULL ELSE u]
      /\ UNCHANGED <<live, cpu, thr, boot, fault>>
  BY DEF PickTask
<1>4. u \in Task
  BY <1>1 DEF TypeOK
<1> HIDE DEF u, c
<1>5. /\ tasks'.elems = tasks.elems /\ tasks'.size = tasks.size /\ tasks'.curr = c + 1
      /\ c \in Nat
  BY <1>1, <1>3, ListFields DEF Slot, c
<1>6. TasksListed'
  BY <1>1, <1>2, <1>3, <1>5 DEF TasksListed
<1>7. /\ lists'[u].curr = 0 /\ lists'[u].size = lists[u].size
      /\ lists'[u].elems = lists[u].elems /\ lists[u].size > 0
  <2>1. lists'[u] = list_rewind(lists[u]) /\ lists[u] \in list_t(Thread)
    BY <1>3, <1>4 DEF TypeOK
  <2>2. lists[u].size > 0
    BY <1>4 DEF list_is_empty, u
  <2> QED
    BY <2>1, <2>2, ListFields
<1>8. /\ frame'.at = "choose"
      /\ frame'.new_task = IF u = current_task THEN NULL ELSE u
  BY <1>2, <1>3 DEF TypeOK, Frame
<1>9. Behind(threads)'
  BY <1>1, <1>3, <1>5 DEF Behind
<1>10. AtKernelThread' \/ (u # kernel_task /\ u # current_task /\ Behind(current_task)')
  <2>1. CASE c = 0
    BY <1>1, <1>3, <1>7, <1>8, <2>1 DEF AtKernelThread
  <2>2. CASE c # 0
    <3>1. c = tasks.curr /\ u # current_task /\ u # kernel_task
      BY <1>1, <2>2
    <3>2. Behind(current_task)
      BY <1>2 DEF Cursors
    <3>3. Behind(current_task)'
      BY <1>3, <1>5, <2>2, <3>1, <3>2 DEF Behind, cpu, Slot
    <3> QED
      BY <3>1, <3>3
  <2> QED
    BY <2>1, <2>2
<1>11. Cursors'
  BY <1>1, <1>2, <1>3, <1>7, <1>8, <1>9, <1>10 DEF Cursors, cpu
<1>12. boot # "done" => BootAlone'
  BY <1>3 DEF CpuInv, BootAlone, cpu, thr
<1> QED
  BY <1>2, <1>3, <1>6, <1>8, <1>11, <1>12, CpuSchedule DEF CpuInv, cpu, thr

\* A task without threads is destroyed, and it is not the current one.
LEMMA CpuRemoveTask ==
  ASSUME TypeOK, QueueInv, CpuInv, In("pick"),
         RemoveTask(list_current(TasksWrapped)),
         list_is_empty(lists[list_current(TasksWrapped)])
  PROVE  CpuInv'
<1> USE ListFieldTypes, SchedAssumption
<1> DEFINE u == list_current(TasksWrapped)
           c == TasksWrapped.curr
<1>1. /\ TasksWrapped \in list_t(Task)
      /\ TasksWrapped.elems = tasks.elems /\ TasksWrapped.size = tasks.size
      /\ c \in Slot /\ c < tasks.size /\ u = tasks.elems[c] /\ u \in live
      /\ u # kernel_task /\ c # 0
      /\ c = tasks.curr /\ u # current_task /\ u # threads
  BY PickFacts DEF QueueInv, KernelThreadFirst, list_is_empty
<1>2. /\ boot \in {"next", "done"} /\ TasksListed /\ Cursors /\ frame.at = "pick"
     
  BY InSchedule DEF In, CpuInv, IdleFrame, Idle
<1>3. /\ tasks' = list_remove(TasksWrapped)
      /\ live' = live \ {u}
      /\ frame' = [frame EXCEPT !.new_task = NULL]
      /\ UNCHANGED <<threads, cpu, thr, boot, fault>>
  BY <1>1 DEF RemoveTask
<1> HIDE DEF u, c
<1>4. /\ tasks'.curr = c /\ tasks'.size = tasks.size - 1
      /\ \A i \in Slot : tasks'.elems[i] =
           IF i = tasks.size - 1 THEN Junk
           ELSE IF i = c THEN ElemAt(TasksWrapped, tasks.size - 1)
           ELSE tasks.elems[i]
  BY <1>1, <1>3, RemoveFields DEF c
<1>5. /\ tasks.size \in Nat /\ tasks.size - 1 \in Slot /\ c \in Nat /\ c > 0
      /\ c <= tasks.size - 1
      /\ ElemAt(TasksWrapped, tasks.size - 1) = tasks.elems[tasks.size - 1]
  <2>1. tasks.size \in 1 .. Slots /\ tasks.size \in Nat
    BY <1>2 DEF TasksListed
  <2>2. tasks.size - 1 \in Slot /\ c \in Nat /\ c > 0 /\ c <= tasks.size - 1
    BY <1>1, <2>1, SlotsAssumption DEF Slot
  <2> QED
    BY <1>1, <2>1, <2>2 DEF ElemAt
<1>6. TasksListed'
  <2>1. /\ tasks'.size \in 1 .. Slots /\ tasks'.curr <= tasks'.size
        /\ tasks'.elems[0] = kernel_task
    BY <1>2, <1>4, <1>5, SlotsAssumption DEF TasksListed
  <2> DEFINE from(i) == IF i = c THEN tasks.size - 1 ELSE i
  <2>2. \A i \in Slot : i < tasks'.size =>
          /\ from(i) \in Slot /\ from(i) < tasks.size /\ from(i) # c
          /\ tasks'.elems[i] = tasks.elems[from(i)]
    BY <1>4, <1>5 DEF Slot
  <2>3. \A i \in Slot : i < tasks'.size => tasks'.elems[i] \in live \ {u}
    BY <1>1, <1>2, <2>2 DEF TasksListed
  <2>4. \A i, j \in Slot :
          i < tasks'.size /\ j < tasks'.size /\ from(i) = from(j) => i = j
    BY <1>4, <1>5 DEF Slot
  <2>5. \A i, j \in Slot :
          i < tasks'.size /\ j < tasks'.size /\ tasks'.elems[i] = tasks'.elems[j] => i = j
    BY <1>2, <2>2, <2>4 DEF TasksListed
  <2> QED
    BY <1>3, <2>1, <2>3, <2>5 DEF TasksListed
<1>7. \A v : Behind(v) => Behind(v)'
  <2>1. \A i \in Slot : i < c => tasks'.elems[i] = tasks.elems[i]
    BY <1>4, <1>5 DEF Slot
  <2>2. tasks'.curr = tasks.curr /\ tasks.curr = c
    BY <1>1, <1>4
  <2> QED
    BY <2>1, <2>2 DEF Behind
<1>8. frame'.at = "pick"
  BY <1>2, <1>3 DEF TypeOK, Frame
<1>9. Cursors'
  BY <1>1, <1>2, <1>3, <1>7, <1>8 DEF Cursors, cpu
<1>10. boot # "done" => BootAlone'
  <2>1. boot # "done" => u = kernel_task
    BY <1>1 DEF CpuInv, BootAlone
  <2> QED
    BY <1>1, <2>1
<1> QED
  BY <1>2, <1>3, <1>6, <1>8, <1>9, <1>10, CpuSchedule DEF CpuInv, cpu, thr

\* The turn that picks a task, in both of its branches.
LEMMA CpuPick ==
  ASSUME TypeOK, QueueInv, CpuInv, Pick
  PROVE  CpuInv'
<1>1. In("pick") /\ list_current(TasksWrapped) \in Task
  BY PickFacts DEF Pick, TypeOK
<1> QED
  BY <1>1, CpuPickTask, CpuRemoveTask DEF Pick

\* The cursor never stands on a null pointer.
LEMMA CpuWild ==
  ASSUME TypeOK, QueueInv, CpuInv, ChooseWild
  PROVE  CpuInv'
<1> USE ListFieldTypes, SchedAssumption
<1>1. threads \in Task /\ lists[threads].curr < lists[threads].size
  BY InSchedule DEF ChooseWild, In, Cursors
<1>2. Candidate # NULL
  BY <1>1 DEF Candidate, list_current, ElemAt
<1> QED
  BY <1>2, CpuCrash DEF ChooseWild

\* A dying thread is destroyed, and it is not the current one.
LEMMA CpuDying ==
  ASSUME TypeOK, QueueInv, CpuInv, ChooseDying
  PROVE  CpuInv'
<1> USE ListFieldTypes, SchedAssumption
<1> DEFINE x == Candidate
           l == lists[threads]
<1>1. /\ lists' = [lists EXCEPT ![threads] = list_remove(l)]
      /\ tstate' = [tstate EXCEPT ![x] = "free"]
      /\ owner' = [owner EXCEPT ![x] = NULL]
      /\ spawn' = [spawn EXCEPT ![x] = NoSpawn]
      /\ frame' = [frame EXCEPT !.at = "loop"]
      /\ UNCHANGED <<live, tasks, threads, cpu, boot, fault>>
  BY DEF ChooseDying
<1>2. /\ l.curr \in Slot /\ l.curr < l.size
      /\ x \in Thread /\ x = l.elems[l.curr]
      /\ x # kernel_thread /\ x # current_thread
      /\ ~ AtKernelThread
  BY DyingFacts
<1>3. /\ threads \in Task /\ l \in list_t(Thread) /\ l.size \in Nat /\ l.curr \in Nat
      /\ boot \in {"next", "done"} /\ TasksListed /\ Cursors
      /\ frame.at = "choose"
  BY InSchedule DEF ChooseDying, In, CpuInv, IdleFrame, Idle
<1>4. /\ list_remove(l).curr = l.curr
      /\ list_remove(l).size = l.size - 1
      /\ \A i \in Slot : list_remove(l).elems[i] =
              IF i = l.size - 1 THEN Junk
              ELSE IF i = l.curr THEN ElemAt(l, l.size - 1)
              ELSE l.elems[i]
  BY <1>2, <1>3, RemoveFields
<1>5. lists'[threads] = list_remove(l)
  BY <1>1, <1>3 DEF TypeOK
<1>6. Passed(current_thread) => Passed(current_thread)'
  <2> SUFFICES ASSUME Passed(current_thread) PROVE Passed(current_thread)'
    OBVIOUS
  <2>1. PICK i \in Slot : i < l.curr /\ i < l.size /\ l.elems[i] = current_thread
    BY DEF Passed
  <2>2. i < l.size - 1
    BY <1>2, <1>3, <2>1 DEF Slot
  <2>3. list_remove(l).elems[i] = current_thread
    BY <1>3, <1>4, <2>1, <2>2
  <2> QED
    BY <1>1, <1>4, <1>5, <2>1, <2>2, <2>3 DEF Passed, cpu
<1>7. /\ frame'.at = "loop" /\ frame'.new_task = frame.new_task
  BY <1>1, <1>3 DEF TypeOK, Frame
<1>8. TasksListed' /\ \A u : Behind(u)' <=> Behind(u)
  BY <1>1, <1>3 DEF TasksListed, Behind
<1>9. Cursors'
  BY <1>1, <1>2, <1>3, <1>6, <1>7, <1>8 DEF Cursors, cpu
<1>10. boot # "done" => BootAlone'
  <2>1. boot # "done" => x = kernel_thread
    BY <1>2, <1>3 DEF CpuInv, BootAlone, QueueInv, SlotsOwned
  <2> QED
    BY <1>2, <2>1
<1>11. tstate'[current_thread] # "free" /\ owner'[current_thread] = current_task
  BY <1>1, <1>2 DEF TypeOK, CpuInv
<1> QED
  BY <1>1, <1>3, <1>7, <1>8, <1>9, <1>10, <1>11, CpuSchedule DEF cpu

\* A waiting thread leaves the cursor where it is.
LEMMA CpuWaiting ==
  ASSUME TypeOK, QueueInv, CpuInv, ChooseWaiting
  PROVE  CpuInv'
<1> USE ListFieldTypes, SchedAssumption
<1>1. /\ frame' = [frame EXCEPT !.at = "loop"]
      /\ UNCHANGED <<runq, cpu, thr, boot, fault>>
  BY DEF ChooseWaiting
<1>2. /\ threads \in Task /\ boot \in {"next", "done"} /\ TasksListed /\ Cursors
      /\ frame.at = "choose"
  BY InSchedule DEF ChooseWaiting, In, CpuInv, IdleFrame, Idle
<1>3. ~ AtKernelThread
  BY <1>2 DEF ChooseWaiting, Candidate, list_current, ElemAt, Cursors, AtKernelThread,
              QueueInv, KernelThreadFirst
<1>4. frame'.at = "loop" /\ frame'.new_task = frame.new_task
  BY <1>1, <1>2 DEF TypeOK, Frame
<1>5. /\ TasksListed' /\ \A u : Behind(u)' <=> Behind(u)
      /\ Passed(current_thread)' <=> Passed(current_thread)
      /\ boot # "done" => BootAlone'
  BY <1>1, <1>2 DEF CpuInv, TasksListed, Behind, Passed, BootAlone, runq, cpu, thr
<1>6. Cursors'
  BY <1>1, <1>2, <1>3, <1>4, <1>5 DEF Cursors, runq, cpu
<1> QED
  BY <1>1, <1>2, <1>4, <1>5, <1>6, CpuSchedule DEF CpuInv, cpu, thr

\* A runnable thread is chosen and passed by the cursor.
LEMMA CpuRunning ==
  ASSUME TypeOK, QueueInv, CpuInv, ChooseRunning
  PROVE  CpuInv'
<1> USE ListFieldTypes, SchedAssumption
<1> DEFINE l == lists[threads]
<1>1. /\ Candidate \in Thread
      /\ lists' = [lists EXCEPT ![threads] = list_next(l)]
      /\ frame' = [frame EXCEPT !.at = "switch", !.new_thread = Candidate]
      /\ UNCHANGED <<live, tasks, threads, cpu, thr, boot, fault>>
  BY DEF ChooseRunning
<1>2. /\ threads \in Task /\ boot \in {"next", "done"} /\ TasksListed /\ Cursors
      /\ frame.at = "choose"
  BY InSchedule DEF ChooseRunning, In, CpuInv, IdleFrame, Idle
<1>3. l.curr \in Slot /\ l.curr < l.size /\ Candidate = l.elems[l.curr]
  BY <1>1, <1>2 DEF Candidate, list_current, ElemAt, Cursors
<1>4. /\ frame'.at = "switch" /\ frame'.new_task = frame.new_task
      /\ frame'.new_thread = Candidate
  BY <1>1, <1>2 DEF TypeOK, Frame
<1>5. /\ lists'[threads].elems = l.elems /\ lists'[threads].size = l.size
      /\ lists'[threads].curr = l.curr + 1 /\ l.curr \in Nat
  BY <1>1, <1>2, ListFields DEF TypeOK
<1>6. Passed(frame.new_thread)'
  BY <1>1, <1>3, <1>4, <1>5 DEF Passed
<1>7. /\ TasksListed' /\ \A u : Behind(u)' <=> Behind(u)
      /\ boot # "done" => BootAlone'
  BY <1>1, <1>2 DEF CpuInv, TasksListed, Behind, BootAlone, cpu, thr
<1>8. Cursors'
  BY <1>1, <1>2, <1>4, <1>6, <1>7 DEF Cursors, cpu
<1> QED
  BY <1>1, <1>2, <1>4, <1>7, <1>8, CpuSchedule DEF CpuInv, cpu, thr

\* switch_context() makes the chosen thread and task current.
LEMMA CpuSwitch ==
  ASSUME TypeOK, LocalsOK, QueueInv, CpuInv, Switch
  PROVE  CpuInv'
<1> USE ListFieldTypes, SchedAssumption
<1> DEFINE x == frame.new_thread
<1>1. /\ threads \in Task /\ boot \in {"next", "done"} /\ TasksListed /\ Cursors
      /\ frame.at = "switch" /\ x \in Thread
  BY InSchedule DEF Switch, In, LocalsOK
<1>2. /\ current_thread' = x
      /\ current_task' = IF x = current_thread \/ frame.new_task = NULL
                         THEN current_task ELSE frame.new_task
      /\ frame' = Idle
      /\ UNCHANGED <<runq, thr, boot, fault>>
  BY DEF Switch
<1>3. frame' = Idle /\ frame'.at = "idle"
  BY <1>1, <1>2 DEF CpuInv, IdleFrame, Idle
<1>4. owner[x] = threads /\ tstate[x] # "free"
  BY <1>1 DEF Cursors, Passed, QueueInv, SlotsOwned
<1>5. current_task' = threads
  <2>1. frame.new_task = IF threads = current_task THEN NULL ELSE threads
    BY <1>1 DEF Cursors
  <2>2. CASE x = current_thread
    BY <1>2, <1>4, <2>2 DEF CpuInv
  <2>3. CASE x # current_thread
    BY <1>1, <1>2, <2>1, <2>3
  <2> QED
    BY <2>2, <2>3
<1>6. /\ TasksListed' /\ \A u : Behind(u)' <=> Behind(u)
      /\ Passed(current_thread)'
  BY <1>1, <1>2 DEF TasksListed, Behind, Passed, Cursors, runq
<1>7. boot # "done" => BootAlone'
  <2>1. boot # "done" => x = kernel_thread /\ BootAlone
    BY <1>1, <1>4 DEF CpuInv, BootAlone
  <2> QED
    BY <1>2, <2>1 DEF BootAlone, runq, thr
<1>8. Cursors'
  <2>1. threads' = threads /\ live' = live /\ threads \in live /\ Behind(threads)
    BY <1>1, <1>2 DEF Cursors, runq
  <2> QED
    BY <1>3, <1>5, <1>6, <2>1 DEF Cursors
<1> QED
  BY <1>1, <1>2, <1>3, <1>4, <1>5, <1>6, <1>7, <1>8, CpuSchedule DEF runq, thr
-----------------------------------------------------------------------------
(* Safety                                                                  *)

\* Every action keeps the run queues as the invariant has them.
LEMMA QueueStep ==
  ASSUME TypeInv, SchedInv, [Next]_vars
  PROVE  QueueInv'
<1> USE DEF TypeInv, SchedInv
<1>k. ASSUME \A k \in Task : lists'[k].elems = lists[k].elems,
             lists'[kernel_task].size = lists[kernel_task].size,
             UNCHANGED thr
      PROVE  QueueInv'
  BY <1>k, QueueKept DEF QueueInv, KernelThreadFirst, thr
<1>u. ASSUME UNCHANGED <<lists, thr>> PROVE QueueInv'
  BY <1>u, <1>k
<1>c. ASSUME NEW why, Crash(why) PROVE QueueInv'
  BY <1>c, <1>u DEF Crash, runq
<1>1. CASE init_scheduler
  <2>1. CASE InitSchedulerNext
    <3>1. /\ \A k \in Task : lists'[k].elems = lists[k].elems
          /\ lists'[kernel_task].size = lists[kernel_task].size
      BY <2>1, ListFields, SchedAssumption DEF InitSchedulerNext, TypeOK
    <3> QED
      BY <2>1, <3>1, <1>k DEF InitSchedulerNext
  <2> QED
    BY <1>1, <2>1, <1>u DEF init_scheduler, InitSchedulerTasks, InitSchedulerPush,
                            InitSchedulerThreads
<1>2. ASSUME NEW x \in Thread, kill(x) \/ wakeup(x)
      PROVE  QueueInv'
  <2>1. /\ \A t \in Thread : tstate'[t] = "free" <=> tstate[t] = "free"
        /\ tstate'[kernel_thread] = "RUNNING"
        /\ UNCHANGED <<lists, owner, spawn>>
    BY <1>2, SchedAssumption
       DEF kill, wakeup, Published, QueueInv, KernelThreadFirst, TypeOK, runq
  <2> QED
    BY <2>1, QueueKept DEF QueueInv, KernelThreadFirst
<1>3. CASE sleep
  <2>1. /\ \A t \in Thread : tstate'[t] = "free" <=> tstate[t] = "free"
        /\ tstate'[kernel_thread] = "RUNNING"
        /\ UNCHANGED <<lists, owner, spawn>>
    BY <1>3, SchedAssumption
       DEF sleep, Calling, Executing, QueueInv, KernelThreadFirst, TypeOK, runq
  <2> QED
    BY <2>1, QueueKept DEF QueueInv, KernelThreadFirst
<1>4. CASE preempt \/ Timer \/ Switch \/ ChooseWaiting
  BY <1>4, <1>u DEF preempt, Timer, Switch, ChooseWaiting, runq
<1>5. CASE Loop
  <2>1. CASE threads = NULL
    BY <1>5, <2>1, <1>c DEF Loop
  <2>2. CASE threads # NULL
    <3>1. /\ \A k \in Task : lists'[k].elems = lists[k].elems
          /\ lists'[kernel_task].size = lists[kernel_task].size
      <4>1. ASSUME NEW k \in Task
            PROVE  /\ list_rewind(lists[k]).elems = lists[k].elems
                   /\ list_rewind(lists[k]).size = lists[k].size
        BY ListFields DEF TypeOK
      <4>2. ASSUME NEW k \in Task
            PROVE  lists'[k] = lists[k] \/ lists'[k] = list_rewind(lists[k])
        BY <1>5, <2>2 DEF Loop, TypeOK
      <4> QED
        BY <4>1, <4>2, SchedAssumption
    <3> QED
      BY <1>5, <2>2, <3>1, <1>k DEF Loop
  <2> QED
    BY <2>1, <2>2
<1>6. CASE Pick
  <2>1. ASSUME NEW u \in Task, PickTask(u)
        PROVE  QueueInv'
    <3>1. /\ \A k \in Task : lists'[k].elems = lists[k].elems
          /\ lists'[kernel_task].size = lists[kernel_task].size
      BY <2>1, ListFields, SchedAssumption DEF PickTask, TypeOK
    <3> QED
      BY <2>1, <3>1, <1>k DEF PickTask
  <2> QED
    BY <1>6, <2>1, <1>c, QueueRemoveTask DEF Pick
<1>7. CASE ChooseWild
  BY <1>7, <1>c DEF ChooseWild
<1>8. CASE ChooseRunning
  <2>1. /\ \A k \in Task : lists'[k].elems = lists[k].elems
        /\ lists'[kernel_task].size = lists[kernel_task].size
    BY <1>8, ListFields, SchedAssumption DEF ChooseRunning, TypeOK
  <2> QED
    BY <1>8, <2>1, <1>k DEF ChooseRunning
<1>9. CASE Halted \/ UNCHANGED vars
  BY <1>9, <1>u DEF Halted, vars, runq
<1> QED
  BY <1>1, <1>2, <1>3, <1>4, <1>5, <1>6, <1>7, <1>8, <1>9, QueueCreate, QueueSize,
     QueueStore, QueueExecElf, QueueExit, QueueDying DEF Next, schedule

\* Every action keeps the cursors and the registers as the invariant has them.
LEMMA CpuStep ==
  ASSUME TypeInv, SchedInv, [Next]_vars
  PROVE  CpuInv'
<1> USE DEF TypeInv, SchedInv
<1>2. CASE Halted \/ UNCHANGED vars
  BY <1>2 DEF Halted, vars, runq, cpu, thr, CpuInv, IdleFrame, BootAlone,
     TasksListed, Cursors, Booting, NullOnlyAtBoot, Behind, Passed, AtKernelThread
<1> QED
  BY <1>2, CpuBoot, CpuCreate, CpuSize, CpuStore, CpuExecElf, CpuStates, CpuEnter,
     CpuLoop, CpuPick, CpuWild, CpuDying, CpuWaiting, CpuRunning, CpuSwitch
     DEF Next, schedule

\* The invariant implies the properties.
LEMMA SchedInvImplies ==
  ASSUME TypeInv, SchedInv
  PROVE  NoUseAfterFree /\ AddressSpaceMatches /\ NewTaskIffOther /\ NullOnlyAtBoot
         /\ InOneSlot
<1> USE SchedAssumption DEF TypeInv, SchedInv
<1>1. NoUseAfterFree
  <2>1. current_task \in live
    <3>1. boot = "done" => current_task \in live
      BY DEF CpuInv, Cursors
    <3>2. boot # "done" => owner[kernel_thread] = current_task /\ live = {kernel_task}
      BY DEF CpuInv, BootAlone
    <3>3. owner[kernel_thread] = kernel_task
      BY ListFieldTypes DEF QueueInv, KernelThreadFirst, SlotsOwned
    <3> QED
      BY <3>1, <3>2, <3>3
  <2>2. threads # NULL => threads \in live
    BY DEF CpuInv, Cursors, Booting
  <2> QED
    BY <2>1, <2>2 DEF NoUseAfterFree, CpuInv
<1>2. NewTaskIffOther
  BY InSchedule DEF NewTaskIffOther, Cursors
<1> QED
  BY <1>1, <1>2 DEF AddressSpaceMatches, CpuInv, QueueInv

\* However many threads and tasks there are and whatever kmain and the threads
\* spawn, kill, wake, preempt and put to sleep: schedule() never frees the thread
\* it interrupted, the task whose address space is loaded or the list it walks,
\* the chosen thread always runs in its own address space, no null pointer is
\* followed once init_scheduler() has set `threads', and no thread is in two
\* slots.
THEOREM ScheduleSafe ==
  Spec => [](/\ NoUseAfterFree
             /\ AddressSpaceMatches
             /\ NewTaskIffOther
             /\ NullOnlyAtBoot
             /\ InOneSlot)
<1>1. Init => TypeInv /\ SchedInv
  BY TypeInit, QueueInit, CpuInit DEF SchedInv
<1>2. TypeInv /\ SchedInv /\ [Next]_vars => (TypeInv /\ SchedInv)'
  BY TypeStep, QueueStep, CpuStep DEF SchedInv
<1>3. TypeInv /\ SchedInv => /\ NoUseAfterFree
                             /\ AddressSpaceMatches
                             /\ NewTaskIffOther
                             /\ NullOnlyAtBoot
                             /\ InOneSlot
  BY SchedInvImplies
<1> QED
  BY <1>1, <1>2, <1>3, PTL DEF Spec

\* However many threads and tasks there are: when schedule() has
\* returned, the address space that switch_context() loaded is the one in which
\* the stack of the current thread lies.
COROLLARY SpaceOfCurrentThread ==
  Spec => []AddressSpaceMatches
BY ScheduleSafe, PTL

\* However many turns schedule() has taken and whatever they destroyed, new_task
\* is null exactly if the chosen thread is of the task that was interrupted.
COROLLARY NewTaskIsExact ==
  Spec => []NewTaskIffOther
BY ScheduleSafe, PTL

\* However many threads and tasks there are, a tick follows a null pointer only
\* inside of init_scheduler(), after the store to tasks and before threads.
COROLLARY NullPointerOnlyAtBoot ==
  Spec => []NullOnlyAtBoot
BY ScheduleSafe, PTL

\* However the pushes of exec_thread() race with list_remove() in the tick, no
\* thread gets into two slots of the run queues.
COROLLARY ThreadInOneSlot ==
  Spec => []InOneSlot
BY ScheduleSafe, PTL

-----------------------------------------------------------------------------
(* No thread is lost.                                                      *)

\* At boot the kernel thread is the only one, and it is in its queue.
LEMMA PushInit == Init => PushInv
<1> SUFFICES ASSUME Init PROVE PushInv
  OBVIOUS
<1> USE SchedAssumption, SlotsAssumption
<1>1. /\ list_new \in list_t(Thread) /\ list_new.size = 0
      /\ list_new.elems = [i \in Slot |-> Junk] /\ 0 \in Slot
  BY DEF list_new, list_t, Slot
<1>2. /\ create_task(kernel_thread).elems = [list_new.elems EXCEPT ![0] = kernel_thread]
      /\ create_task(kernel_thread).size = 1
  BY <1>1, ListFields DEF create_task
<1>3. /\ \A k \in Task : \A i \in Slot :
           lists[k].elems[i] = IF k = kernel_task /\ i = 0 THEN kernel_thread ELSE Junk
      /\ \A k \in Task : lists[k].size = IF k = kernel_task THEN 1 ELSE 0
  BY <1>1, <1>2 DEF Init
<1>4. \A t \in Thread : spawn[t].at = "none"
  BY DEF Init, NoSpawn
<1>5. TailIsJunk
  BY <1>3 DEF TailIsJunk, Slot
<1>6. Scheduled(kernel_thread)
  BY <1>1, <1>3 DEF Scheduled, Init
<1>7. AllScheduled
  BY <1>6 DEF AllScheduled, Published, Init
<1> QED
  BY <1>4, <1>5, <1>7 DEF PushInv, KmainPushes, PushInProgress

\* Steps that move no pointer and change no size keep what is known of a push.
LEMMA PushKept ==
  ASSUME TypeOK, PushInv,
         \A k \in Task : lists'[k].elems = lists[k].elems /\ lists'[k].size = lists[k].size,
         spawn' = spawn, live' = live,
         \A t \in Thread : tstate'[t] = "free" <=> tstate[t] = "free",
         Doomed => Doomed'
  PROVE  PushInv'
<1>1. KmainPushes' /\ TailIsJunk'
  BY DEF PushInv, KmainPushes, TailIsJunk
<1>2. PushInProgress'
  BY SchedAssumption DEF PushInv, PushInProgress, ElemAt
<1>3. \A t \in Thread : Scheduled(t) => Scheduled(t)'
  BY DEF Scheduled, TypeOK
<1>4. AllScheduled'
  BY <1>3 DEF PushInv, AllScheduled, Published
<1> QED
  BY <1>1, <1>2, <1>4 DEF PushInv

\* kmain reads the size and has a thread of its own to push.
LEMMA PushCreate ==
  ASSUME TypeOK, LocalsOK, QueueInv, CpuInv, KmainSpawns, PushInv,
         NEW x \in Thread, ExecThreadCreate(x)
  PROVE  PushInv'
<1> USE SchedAssumption, ListFieldTypes
<1>1. /\ current_thread = kernel_thread
      /\ tstate[x] = "free"
      /\ tstate' = [tstate EXCEPT ![x] = "RUNNING"]
      /\ spawn' = [spawn EXCEPT ![kernel_thread] =
                     [at |-> "size", new |-> x, into |-> current_task,
                      n |-> lists[current_task].size]]
      /\ lists' = lists /\ live' = live
  BY DEF ExecThreadCreate, Calling, KmainSpawns, runq
<1>2. current_task = kernel_task
  BY <1>1 DEF CpuInv, QueueInv, KernelThreadFirst, SlotsOwned
<1>3. \A t \in Thread :
        spawn'[t] = IF t = kernel_thread
                    THEN [at |-> "size", new |-> x, into |-> kernel_task,
                          n |-> lists[kernel_task].size]
                    ELSE spawn[t]
  BY <1>1, <1>2 DEF TypeOK
<1>4. KmainPushes'
  BY <1>3 DEF PushInv, KmainPushes
<1>5. TailIsJunk'
  BY <1>1 DEF PushInv, TailIsJunk
<1>6. PushInProgress'
  BY <1>1, <1>3 DEF PushInProgress
<1>7. AllScheduled'
  <2>1. spawn[kernel_thread].new = NULL
    BY <1>1 DEF ExecThreadCreate, Calling, NoSpawn
  <2>2. ASSUME NEW t \in Thread, Published(t)'
        PROVE  Published(t)
    <3>1. t # x
      BY <1>3, <2>2 DEF Published
    <3>2. tstate[t] # "free"
      BY <1>1, <2>2, <3>1 DEF Published, TypeOK
    <3> QED
      BY <1>3, <2>1, <2>2, <3>2 DEF Published
  <2> QED
    BY <1>1, <2>2 DEF PushInv, AllScheduled, Scheduled
<1> QED
  BY <1>4, <1>5, <1>6, <1>7 DEF PushInv

\* kmain writes the size: the list grows, and its last slot is not filled yet.
LEMMA PushSize ==
  ASSUME TypeOK, LocalsOK, QueueInv, CpuInv, PushInv, ExecThreadSize
  PROVE  PushInv'
<1> USE SchedAssumption, ListFieldTypes
<1>1. current_thread = kernel_thread /\ spawn[kernel_thread].at = "size"
      /\ spawn[kernel_thread].into = kernel_task
  BY DEF ExecThreadSize, PushInv, KmainPushes, TypeOK
<1> PICK n \in Nat : n = spawn[kernel_thread].n
  OBVIOUS
<1>2. /\ lists' = [lists EXCEPT ![kernel_task] = list_push_size(lists[kernel_task], n)]
      /\ spawn' = [spawn EXCEPT ![kernel_thread].at = "store"]
      /\ tstate' = tstate /\ live' = live
  BY <1>1 DEF ExecThreadSize
<1>3. /\ \A k \in Task : lists'[k].elems = lists[k].elems
      /\ \A k \in Task : lists'[k].size = IF k = kernel_task THEN n + 1 ELSE lists[k].size
  BY <1>2, ListFields DEF TypeOK
<1>4. \A t \in Thread : /\ spawn'[t].new = spawn[t].new
                        /\ spawn'[t].into = spawn[t].into
                        /\ spawn'[t].n = spawn[t].n
                        /\ spawn'[t].at = IF t = kernel_thread THEN "store" ELSE spawn[t].at
  BY <1>2 DEF TypeOK, Spawn
<1>5. lists[kernel_task].size <= n
  BY <1>1 DEF PushInv, PushInProgress
<1>6. KmainPushes'
  BY <1>1, <1>4 DEF PushInv, KmainPushes
<1>7. TailIsJunk'
  BY <1>3, <1>5 DEF PushInv, TailIsJunk, Slot
<1>8. PushInProgress'
  <2>1. ElemAt(lists[kernel_task], n) = Junk
    BY <1>5 DEF PushInv, TailIsJunk, ElemAt
  <2>2. lists'[kernel_task].size = n + 1 /\ ElemAt(lists'[kernel_task], n) = Junk
    BY <1>3, <2>1 DEF ElemAt
  <2> QED
    BY <1>4, <2>2 DEF PushInProgress
<1>9. AllScheduled'
  <2>1. \A t \in Thread : Published(t)' => Published(t)
    BY <1>2, <1>4 DEF Published
  <2>2. \A k \in Task : lists[k].size <= lists'[k].size
    BY <1>3, <1>5
  <2>3. \A t \in Thread : Scheduled(t) => Scheduled(t)'
    <3> SUFFICES ASSUME NEW t \in Thread, NEW k \in live, NEW i \in Slot,
                        i < lists[k].size, lists[k].elems[i] = t
                 PROVE  Scheduled(t)'
      BY DEF Scheduled
    <3>1. k \in Task
      BY DEF TypeOK
    <3>2. i < lists'[k].size
      BY <1>3, <1>5, <3>1 DEF Slot
    <3> QED
      BY <1>2, <1>3, <3>1, <3>2 DEF Scheduled
  <2> QED
    BY <2>1, <2>3 DEF PushInv, AllScheduled
<1> QED
  BY <1>6, <1>7, <1>8, <1>9 DEF PushInv

\* kmain stores the pointer in the last slot that schedule() looks at.
LEMMA PushStore ==
  ASSUME TypeOK, LocalsOK, QueueInv, CpuInv, PushInv, ExecThreadStore
  PROVE  PushInv'
<1> USE SchedAssumption, ListFieldTypes
<1>1. /\ current_thread = kernel_thread /\ spawn[kernel_thread].at = "store"
      /\ spawn[kernel_thread].into = kernel_task
      /\ frame = Idle
  BY DEF ExecThreadStore, Executing, PushInv, KmainPushes, TypeOK
<1> PICK n \in Nat : n = spawn[kernel_thread].n
  OBVIOUS
<1> PICK x \in Thread : x = spawn[kernel_thread].new
  BY <1>1 DEF LocalsOK
<1>2. ~ Doomed /\ ~ Doomed'
  BY <1>1 DEF Doomed, Idle, ExecThreadStore, Crash
<1>3. lists[kernel_task].size = n + 1
  BY <1>1, <1>2 DEF PushInv, PushInProgress
<1>4. CASE n \notin Slot
  BY <1>1, <1>2, <1>4, PushKept DEF ExecThreadStore, Crash, runq, thr
<1>5. CASE n \in Slot
  <2>1. /\ lists' = [lists EXCEPT ![kernel_task] = list_push_elem(lists[kernel_task], n, x)]
        /\ spawn' = [spawn EXCEPT ![kernel_thread] = NoSpawn]
        /\ tstate' = tstate /\ live' = live
    BY <1>1, <1>5 DEF ExecThreadStore
  <2>2. /\ \A k \in Task : \A i \in Slot :
             lists'[k].elems[i] = IF k = kernel_task /\ i = n THEN x ELSE lists[k].elems[i]
        /\ \A k \in Task : lists'[k].size = lists[k].size
    BY <1>5, <2>1, ListFields DEF TypeOK
  <2>3. /\ spawn'[kernel_thread].at = "none" /\ spawn'[kernel_thread].new = NULL
        /\ \A t \in Thread \ {kernel_thread} : spawn'[t] = spawn[t]
    BY <2>1 DEF TypeOK, NoSpawn
  <2>4. KmainPushes' /\ PushInProgress'
    BY <2>3 DEF PushInv, KmainPushes, PushInProgress
  <2>5. TailIsJunk'
    BY <1>3, <2>2 DEF PushInv, TailIsJunk
  <2>6. AllScheduled'
    <3>1. kernel_task \in live
      BY <1>1 DEF CpuInv, BootAlone, Cursors, QueueInv, KernelThreadFirst, SlotsOwned
    <3>2. Scheduled(x)'
      BY <1>3, <1>5, <2>1, <2>2, <3>1 DEF Scheduled
    <3>3. ASSUME NEW t \in Thread, t # x, Published(t)'
          PROVE  Published(t)
      <4>1. tstate[t] # "free"
        BY <2>1, <3>3 DEF Published
      <4> QED
        BY <2>3, <3>3, <4>1 DEF Published
    <3>4. ASSUME NEW t \in Thread, Scheduled(t)
          PROVE  Scheduled(t)'
      <4>1. PICK k \in live, i \in Slot : i < lists[k].size /\ lists[k].elems[i] = t
        BY <3>4 DEF Scheduled
      <4>2. k \in Task
        BY DEF TypeOK
      <4>3. ~ (k = kernel_task /\ i = n)
        BY <1>1, <1>2, <4>1, <1>5 DEF PushInv, PushInProgress, ElemAt
      <4> QED
        BY <2>1, <2>2, <4>1, <4>2, <4>3 DEF Scheduled
    <3> QED
      BY <3>2, <3>3, <3>4 DEF PushInv, AllScheduled
  <2> QED
    BY <2>4, <2>5, <2>6 DEF PushInv
<1> QED
  BY <1>4, <1>5

\* A new task is listed with its thread, in a list of its own.
LEMMA PushExecElf ==
  ASSUME TypeOK, QueueInv, CpuInv, PushInv, NEW x \in Thread, NEW u \in Task, exec_elf(x, u)
  PROVE  PushInv'
<1> USE SchedAssumption, ListFieldTypes
<1>1. ~ Doomed
  BY DEF exec_elf, Calling, Executing, Doomed, Idle
<1>2. CASE tasks.size \notin Slot
  BY <1>1, <1>2, PushKept DEF exec_elf, Crash, runq, thr
<1>3. CASE tasks.size \in Slot
  <2>1. /\ tstate[x] = "free" /\ u \notin live /\ u # kernel_task
        /\ tstate' = [tstate EXCEPT ![x] = "RUNNING"]
        /\ live' = live \cup {u}
        /\ lists' = [lists EXCEPT ![u] = list_push_back(list_new, x)]
        /\ spawn' = spawn
    BY <1>3 DEF create_task, exec_elf, Calling, CpuInv, Cursors, QueueInv
  <2>2. /\ list_new \in list_t(Thread) /\ list_new.size = 0
        /\ list_new.elems = [i \in Slot |-> Junk]
    BY DEF list_new, list_t
  <2>3. /\ list_push_back(list_new, x).elems = [list_new.elems EXCEPT ![0] = x]
        /\ list_push_back(list_new, x).size = 1
    BY <2>2, ListFields
  <2>4. /\ lists'[u].size = 1 /\ lists'[u].elems[0] = x
        /\ \A i \in Slot \ {0} : lists'[u].elems[i] = Junk
        /\ \A k \in Task \ {u} : lists'[k] = lists[k]
    BY <2>1, <2>2, <2>3 DEF TypeOK
  <2>5. KmainPushes' /\ PushInProgress'
    BY <1>1, <2>1, <2>4 DEF PushInv, KmainPushes, PushInProgress
  <2>6. TailIsJunk'
    <3> SUFFICES ASSUME NEW k \in Task, NEW i \in Slot, i >= lists'[k].size
                 PROVE  lists'[k].elems[i] = Junk
      BY DEF TailIsJunk
    <3>1. CASE k = u
      BY <2>4, <3>1
    <3>2. CASE k # u
      BY <2>4, <3>2 DEF PushInv, TailIsJunk
    <3> QED
      BY <3>1, <3>2
  <2>7. AllScheduled'
    <3>1. Scheduled(x)'
      BY <2>1, <2>4 DEF Scheduled
    <3>2. ASSUME NEW t \in Thread, t # x, Published(t)'
          PROVE  Published(t)
      BY <2>1, <3>2 DEF Published, TypeOK
    <3>3. ASSUME NEW t \in Thread, Scheduled(t)
          PROVE  Scheduled(t)'
      <4>1. PICK k \in live, i \in Slot : i < lists[k].size /\ lists[k].elems[i] = t
        BY <3>3 DEF Scheduled
      <4>2. k \in Task \ {u} /\ k \in live'
        BY <2>1 DEF TypeOK
      <4> QED
        BY <2>4, <4>1, <4>2 DEF Scheduled
    <3> QED
      BY <3>1, <3>2, <3>3 DEF PushInv, AllScheduled
  <2> QED
    BY <2>5, <2>6, <2>7 DEF PushInv
<1> QED
  BY <1>2, <1>3

\* A thread that exits stays in its slot until schedule() destroys it.
LEMMA PushExit ==
  ASSUME TypeOK, QueueInv, CpuInv, PushInv, thread_exit
  PROVE  PushInv'
<1> USE SchedAssumption, ListFieldTypes
<1>1. /\ current_thread \in Thread /\ current_thread # kernel_thread
      /\ tstate[current_thread] # "free"
      /\ tstate' = [tstate EXCEPT ![current_thread] = "DYING"]
      /\ spawn' = [spawn EXCEPT ![current_thread].at = "exit"]
      /\ lists' = lists /\ live' = live
      /\ frame = Idle
  BY DEF thread_exit, Executing, CpuInv, runq, TypeOK
<1>2. /\ \A t \in Thread : /\ spawn'[t].new = spawn[t].new
                           /\ t # current_thread => spawn'[t] = spawn[t]
      /\ spawn'[current_thread].at = "exit"
  BY <1>1 DEF TypeOK, Spawn
<1>3. ~ Doomed
  BY <1>1 DEF Doomed, Idle
<1>4. KmainPushes' /\ TailIsJunk'
  BY <1>1, <1>2 DEF PushInv, KmainPushes, TailIsJunk
<1>5. PushInProgress'
  BY <1>1, <1>2, <1>3 DEF PushInv, PushInProgress
<1>6. AllScheduled'
  <2>1. \A t \in Thread : Published(t)' => Published(t)
    BY <1>1, <1>2 DEF Published, TypeOK
  <2> QED
    BY <1>1, <2>1 DEF PushInv, AllScheduled, Scheduled
<1> QED
  BY <1>4, <1>5, <1>6 DEF PushInv

\* The task that schedule() destroys has no thread left.
LEMMA PushRemoveTask ==
  ASSUME TypeOK, QueueInv, PushInv, NEW u \in Task, In("pick"), list_is_empty(lists[u]),
         RemoveTask(u)
  PROVE  PushInv'
<1> USE SchedAssumption, ListFieldTypes
<1>1. ~ Doomed
  BY DEF In, Doomed
<1>2. CASE u = kernel_task
  BY <1>1, <1>2, PushKept DEF RemoveTask, Crash, runq, thr
<1>3. CASE u # kernel_task
  <2>1. /\ lists' = [lists EXCEPT ![u] = list_new]
        /\ live' = live \ {u}
        /\ UNCHANGED <<tstate, spawn>>
    BY <1>3 DEF RemoveTask, thr
  <2>2. /\ \A i \in Slot : lists'[u].elems[i] = Junk
        /\ \A k \in Task \ {u} : lists'[k] = lists[k]
    BY <2>1 DEF TypeOK, list_new
  <2>3. KmainPushes' /\ PushInProgress'
    BY <1>1, <1>3, <2>1, <2>2 DEF PushInv, KmainPushes, PushInProgress
  <2>4. TailIsJunk'
    BY <2>2 DEF PushInv, TailIsJunk
  <2>5. AllScheduled'
    <3>1. ASSUME NEW t \in Thread, Scheduled(t)
          PROVE  Scheduled(t)'
      <4>1. PICK k \in live, i \in Slot : i < lists[k].size /\ lists[k].elems[i] = t
        BY <3>1 DEF Scheduled
      <4>2. k # u
        BY <4>1 DEF list_is_empty, Slot
      <4>3. k \in Task \ {u} /\ k \in live'
        BY <2>1, <4>2 DEF TypeOK
      <4> QED
        BY <2>2, <4>1, <4>3 DEF Scheduled
    <3> QED
      BY <2>1, <3>1 DEF PushInv, AllScheduled, Published
  <2> QED
    BY <2>3, <2>4, <2>5 DEF PushInv
<1> QED
  BY <1>2, <1>3

\* list_remove() takes only the destroyed thread out of sight.  A slot that kmain
\* has still to fill comes under the cursor, where this call looks next.
LEMMA PushDying ==
  ASSUME TypeOK, LocalsOK, QueueInv, CpuInv, PushInv, ChooseDying
  PROVE  PushInv'
<1>a. \A a, b \in Nat : a + 1 = b + 1 => a = b
  OBVIOUS
<1> USE SchedAssumption, ListFieldTypes
<1> PICK x \in Thread : x = Candidate
  BY DyingFacts
<1>0. threads \in Task /\ frame \in Frame /\ frame.at = "choose"
  BY InSchedule DEF ChooseDying, In, TypeOK
<1> PICK c \in Slot : c = lists[threads].curr
  BY DyingFacts
<1> PICK m \in Nat : m + 1 = lists[threads].size /\ c <= m
  <2>1. \A s \in Nat : c < s => s - 1 \in Nat /\ (s - 1) + 1 = s /\ c <= s - 1
    BY DEF Slot
  <2> QED
    BY <1>0, <2>1, DyingFacts
<1>1. /\ lists' = [lists EXCEPT ![threads] = list_remove(lists[threads])]
      /\ tstate' = [tstate EXCEPT ![x] = "free"]
      /\ spawn' = [spawn EXCEPT ![x] = NoSpawn]
      /\ frame' = [frame EXCEPT !.at = "loop"]
      /\ UNCHANGED <<live, threads>>
  BY DEF ChooseDying
<1>2. x = lists[threads].elems[c] /\ x # kernel_thread
  BY DyingFacts
<1>3. /\ lists'[threads].curr = c
      /\ lists'[threads].size = m
      /\ \A i \in Slot : lists'[threads].elems[i] =
           IF i = m THEN Junk
           ELSE IF i = c THEN ElemAt(lists[threads], m) ELSE lists[threads].elems[i]
      /\ \A k \in Task \ {threads} : lists'[k] = lists[k]
  <2>1. lists[threads].curr < lists[threads].size /\ lists[threads].size - 1 = m
    BY <1>0 DEF Slot
  <2>2. lists'[threads] = list_remove(lists[threads])
    BY <1>0, <1>1 DEF TypeOK
  <2> QED
    BY <1>0, <1>1, <2>1, <2>2, RemoveFields DEF TypeOK
<1>4. /\ spawn'[kernel_thread] = spawn[kernel_thread]
      /\ \A t \in Thread : spawn'[t].at = "none" \/ spawn'[t] = spawn[t]
  BY <1>1, <1>2 DEF TypeOK, NoSpawn
<1>5. KmainPushes'
  BY <1>4 DEF PushInv, KmainPushes
<1>6. TailIsJunk'
  <2> SUFFICES ASSUME NEW k \in Task, NEW i \in Slot, i >= lists'[k].size
               PROVE  lists'[k].elems[i] = Junk
    BY DEF TailIsJunk
  <2>1. CASE k # threads
    BY <1>3, <2>1 DEF PushInv, TailIsJunk
  <2>2. CASE k = threads /\ i = m
    BY <1>3, <2>2
  <2>3. CASE k = threads /\ i # m
    <3>1. i >= lists[threads].size /\ i # c
      BY <1>0, <1>3, <2>3 DEF Slot
    <3> QED
      BY <1>0, <1>3, <2>3, <3>1 DEF PushInv, TailIsJunk
  <2> QED
    BY <2>1, <2>2, <2>3
<1>7. PushInProgress'
  <2>1. CASE threads # kernel_task
    <3>1. ~ Doomed /\ lists'[kernel_task] = lists[kernel_task]
      BY <1>3, <2>1 DEF Doomed
    <3> QED
      BY <1>4, <3>1 DEF PushInv, PushInProgress
  <2>2. CASE threads = kernel_task
    <3>1. spawn'[kernel_thread].at = "size" =>
            lists'[kernel_task].size <= spawn'[kernel_thread].n
      <4>1. \A n \in Nat : m + 1 <= n => m <= n
        OBVIOUS
      <4> QED
        BY <1>3, <1>4, <2>2, <4>1 DEF PushInv, PushInProgress
    <3>2. ASSUME spawn'[kernel_thread].at = "store" PROVE Doomed'
      <4>1. ElemAt(lists[kernel_task], c) = x /\ x # Junk
        BY <1>2, <2>2 DEF ElemAt
      <4>2. ~ Doomed
        BY <2>2, <4>1 DEF Doomed
      <4>3. spawn[kernel_thread].n = m /\ ElemAt(lists[kernel_task], m) = Junk
        BY <1>4, <1>a, <2>2, <3>2, <4>2 DEF PushInv, PushInProgress
      <4>4. c < m
        BY <4>1, <4>3 DEF Slot
      <4>5. lists'[kernel_task].elems[c] = Junk
        BY <1>3, <2>2, <4>3, <4>4 DEF Slot
      <4>6. ElemAt(lists'[kernel_task], c) = Junk
        BY <4>5 DEF ElemAt
      <4>7. frame'.at = "loop"
        BY <1>0, <1>1 DEF Frame
      <4> QED
        BY <1>1, <1>3, <2>2, <4>4, <4>6, <4>7 DEF Doomed
    <3> QED
      BY <3>1, <3>2 DEF PushInProgress
  <2> QED
    BY <2>1, <2>2
<1>8. AllScheduled'
  <2>1. ASSUME NEW t \in Thread, Published(t)'
        PROVE  Published(t) /\ t # x
    <3>1. t # x /\ tstate[t] # "free"
      BY <1>1, <2>1 DEF Published, TypeOK
    <3>2. \A s \in Thread : spawn[s].new # t
      <4> SUFFICES ASSUME NEW s \in Thread, spawn[s].new = t PROVE FALSE
        OBVIOUS
      <4>1. s = x
        BY <1>1, <2>1 DEF Published, TypeOK
      <4>2. spawn[x].at \in {"size", "store"}
        BY <4>1 DEF LocalsOK
      <4> QED
        BY <1>2, <4>2 DEF PushInv, KmainPushes
    <3> QED
      BY <3>1, <3>2 DEF Published
  <2>2. ASSUME NEW t \in Thread, t # x, Scheduled(t)
        PROVE  Scheduled(t)'
    <3>1. PICK k \in live, i \in Slot : i < lists[k].size /\ lists[k].elems[i] = t
      BY <2>2 DEF Scheduled
    <3>2. k \in Task /\ k \in live'
      BY <1>1 DEF TypeOK
    <3>3. CASE k # threads
      BY <1>3, <3>1, <3>2, <3>3 DEF Scheduled
    <3>4. CASE k = threads /\ i = m
      <4>1. c < m
        BY <1>2, <2>2, <3>1, <3>4 DEF Slot
      <4>2. lists'[threads].elems[c] = t
        BY <1>3, <3>1, <3>4, <4>1 DEF ElemAt, Slot
      <4> QED
        BY <1>3, <3>2, <3>4, <4>1, <4>2 DEF Scheduled
    <3>5. CASE k = threads /\ i # m
      <4>1. i < m /\ i # c
        BY <1>2, <2>2, <3>1, <3>5 DEF Slot
      <4>2. lists'[threads].elems[i] = t
        BY <1>3, <3>1, <3>5, <4>1
      <4> QED
        BY <1>3, <3>2, <3>5, <4>1, <4>2 DEF Scheduled
    <3> QED
      BY <3>3, <3>4, <3>5
  <2> QED
    BY <2>1, <2>2 DEF PushInv, AllScheduled
<1> QED
  BY <1>5, <1>6, <1>7, <1>8 DEF PushInv

\* Every action keeps every thread in sight.
LEMMA PushStep ==
  ASSUME TypeInv, SchedInv, KmainSpawns, PushInv, [Next]_vars
  PROVE  PushInv'
<1> USE DEF TypeInv, SchedInv
<1>k. ASSUME \A k \in Task : /\ lists'[k].elems = lists[k].elems
                             /\ lists'[k].size = lists[k].size,
             UNCHANGED <<thr, live>>, Doomed => Doomed'
      PROVE  PushInv'
  BY <1>k, PushKept DEF thr
<1>u. ASSUME UNCHANGED <<lists, thr, live>>, Doomed => Doomed' PROVE PushInv'
  BY <1>u, <1>k
<1>c. ASSUME NEW why, Crash(why) PROVE PushInv'
  <2>1. Doomed => Doomed'
    BY <1>c DEF Crash, Doomed, runq
  <2> QED
    BY <1>c, <2>1, <1>u DEF Crash, runq
<1>1. CASE init_scheduler
  <2>1. ~ Doomed
    BY <1>1 DEF init_scheduler, InitSchedulerTasks, InitSchedulerPush,
                InitSchedulerThreads, InitSchedulerNext, Executing, Doomed, Idle
  <2>2. CASE InitSchedulerNext
    <3>1. \A k \in Task : /\ lists'[k].elems = lists[k].elems
                          /\ lists'[k].size = lists[k].size
      BY <2>2, ListFields DEF InitSchedulerNext, TypeOK
    <3> QED
      BY <2>1, <2>2, <3>1, <1>k DEF InitSchedulerNext
  <2> QED
    BY <1>1, <2>1, <2>2, <1>u DEF init_scheduler, InitSchedulerTasks, InitSchedulerPush,
                                  InitSchedulerThreads
<1>2. ASSUME NEW x \in Thread, kill(x) \/ wakeup(x)
      PROVE  PushInv'
  <2>1. /\ \A t \in Thread : tstate'[t] = "free" <=> tstate[t] = "free"
        /\ UNCHANGED <<lists, live, spawn>>
        /\ ~ Doomed
    BY <1>2 DEF kill, wakeup, Calling, Executing, Published, TypeOK, runq, Doomed, Idle
  <2> QED
    BY <2>1, PushKept
<1>3. CASE sleep
  <2>1. /\ \A t \in Thread : tstate'[t] = "free" <=> tstate[t] = "free"
        /\ UNCHANGED <<lists, live, spawn>>
        /\ ~ Doomed
    BY <1>3 DEF sleep, Calling, Executing, TypeOK, runq, Doomed, Idle
  <2> QED
    BY <2>1, PushKept
<1>4. CASE preempt \/ Timer
  <2>1. ~ Doomed
    BY <1>4 DEF preempt, Calling, Executing, Timer, Doomed, Idle
  <2> QED
    BY <1>4, <2>1, <1>u DEF preempt, Timer, runq
<1>5. CASE Switch \/ ChooseWaiting
  <2>1. ~ Doomed
    BY <1>5, SchedAssumption DEF Switch, ChooseWaiting, In, Doomed, Candidate, list_current
  <2>2. CASE Switch
    BY <2>1, <2>2, <1>u DEF Switch, runq
  <2>3. CASE ChooseWaiting
    <3>1. \A k \in Task : /\ lists'[k].elems = lists[k].elems
                          /\ lists'[k].size = lists[k].size
      BY <2>3, ListFields DEF ChooseWaiting, TypeOK, runq
    <3> QED
      BY <2>1, <2>3, <3>1, <1>k DEF ChooseWaiting, runq
  <2> QED
    BY <1>5, <2>2, <2>3
<1>6. CASE Loop
  <2>1. CASE threads = NULL
    BY <1>6, <2>1, <1>c DEF Loop
  <2>2. CASE threads # NULL
    <3>1. \A k \in Task : /\ lists'[k].elems = lists[k].elems
                          /\ lists'[k].size = lists[k].size
      <4>1. ASSUME NEW k \in Task
            PROVE  /\ list_rewind(lists[k]).elems = lists[k].elems
                   /\ list_rewind(lists[k]).size = lists[k].size
        BY ListFields DEF TypeOK
      <4>2. ASSUME NEW k \in Task
            PROVE  lists'[k] = lists[k] \/ lists'[k] = list_rewind(lists[k])
        BY <1>6, <2>2 DEF Loop, TypeOK
      <4> QED
        BY <4>1, <4>2
    <3>2. Doomed => Doomed'
      <4> SUFFICES ASSUME Doomed PROVE Doomed'
        OBVIOUS
      <4>1. ~ list_is_end(lists[threads])
        BY ListFieldTypes, SchedAssumption DEF Doomed, list_is_end
      <4>2. lists' = lists /\ frame'.at = "choose" /\ threads' = threads
        BY <1>6, <2>2, <4>1 DEF Loop, TypeOK, Frame
      <4> QED
        BY <4>2 DEF Doomed
    <3> QED
      BY <1>6, <2>2, <3>1, <3>2, <1>k DEF Loop
  <2> QED
    BY <2>1, <2>2
<1>7. CASE Pick
  <2>1. ~ Doomed /\ In("pick")
    BY <1>7 DEF Pick, In, Doomed
  <2>2. ASSUME NEW u \in Task, PickTask(u)
        PROVE  PushInv'
    <3>1. \A k \in Task : /\ lists'[k].elems = lists[k].elems
                          /\ lists'[k].size = lists[k].size
      BY <2>2, ListFields DEF PickTask, TypeOK
    <3> QED
      BY <2>1, <2>2, <3>1, <1>k DEF PickTask
  <2> QED
    BY <1>7, <2>1, <2>2, <1>c, PushRemoveTask DEF Pick
<1>8. CASE ChooseWild
  BY <1>8, <1>c DEF ChooseWild
<1>9. CASE ChooseRunning
  <2>1. \A k \in Task : /\ lists'[k].elems = lists[k].elems
                        /\ lists'[k].size = lists[k].size
    BY <1>9, ListFields DEF ChooseRunning, TypeOK
  <2>2. ~ Doomed
    BY <1>9, SchedAssumption DEF ChooseRunning, In, Doomed, Candidate, list_current
  <2> QED
    BY <1>9, <2>1, <2>2, <1>k DEF ChooseRunning
<1>10. CASE Halted \/ UNCHANGED vars
  <2>1. Doomed => Doomed'
    BY <1>10 DEF Halted, vars, runq, Doomed
  <2> QED
    BY <1>10, <2>1, <1>u DEF Halted, vars, runq
<1> QED
  BY <1>1, <1>2, <1>3, <1>4, <1>5, <1>6, <1>7, <1>8, <1>9, <1>10, PushCreate, PushSize,
     PushStore, PushExecElf, PushExit, PushDying DEF Next, schedule

\* However many threads and tasks there are: as long as kmain starts the threads,
\* a thread that exec_thread() or exec_elf() has finished making is in the visible
\* part of a run queue until schedule() destroys it.  A tick inside of the push
\* cannot hide a thread for good: it either leaves the unfilled slot the last one,
\* or follows it and crashes.
THEOREM NoThreadIsLost ==
  ASSUME KmainSpawns
  PROVE  Spec => []NoLostThread
<1>1. Init => TypeInv /\ SchedInv /\ PushInv
  BY TypeInit, QueueInit, CpuInit, PushInit DEF SchedInv
<1>2. TypeInv /\ SchedInv /\ PushInv /\ [Next]_vars => (TypeInv /\ SchedInv /\ PushInv)'
  BY KmainSpawns, TypeStep, QueueStep, CpuStep, PushStep DEF SchedInv
<1>3. PushInv => NoLostThread
  BY DEF PushInv, AllScheduled, NoLostThread
<1> QED
  BY <1>1, <1>2, <1>3, PTL DEF Spec

=============================================================================
