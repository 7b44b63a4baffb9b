------------------------------ MODULE VirtMem ------------------------------
(***************************************************************************)
(* Address spaces, kernel/mm/vmm.c: page directories in physical memory,   *)
(* made by clone_directory() for exec_elf(), extended by map(), released   *)
(* by destroy_directory().                                                 *)
(*                                                                         *)
(* A page frame is a function from word numbers to words, read as a        *)
(* directory, a table or data by whoever holds it; a freed frame keeps its *)
(* contents.  A word is 0, a frame number (flags are left out) or Junk,    *)
(* which stands for data.  Frames come from a stack, as in pmm.c; the      *)
(* growth of that stack is in PhysMem.                                     *)
(*                                                                         *)
(* The code reaches a directory at virtual addresses, through entries that *)
(* lead from the directory to itself or through a mount point.  Here it is *)
(* the frame; SelfMounted says that those addresses lead there.  The       *)
(* identity mapping of low memory is left out.                             *)
(*                                                                         *)
(* exec_elf() and destroy_directory() run with interrupts disabled.  So    *)
(* clone, load and return of exec_elf() are steps between which nothing    *)
(* but the heap moves.  kmalloc() and kfree() may take or return a page    *)
(* before and after any of them.                                           *)
(*                                                                         *)
(* Two calls of clone_directory() are not followed further: one that       *)
(* copies, and one whose new table is a frame with old contents, after     *)
(* which wild words are used as frames ("copied", "stale").                *)
(***************************************************************************)
EXTENDS Naturals, FiniteSets, SequencesExt

CONSTANTS
  Frames,     \* page frames, numbered from 1
  Mounts,     \* mount points for tables
  UserPages,  \* words of the user table in use
  HeapPages,  \* words of the heap's table in use
  MaxExecs,   \* bound on the calls of exec_elf()
  AnyOrder,   \* whether exec_elf() may follow an exec_thread() of the kernel
  Junk        \* a word that is data

\* The directory, in the order of mm/layout.h.
LOWMEM        == 0            \* identity mapping
USER          == 1            \* USER_TEXT_START, USER_STACKS_START
USER_DIR      == 2            \* USER_DIR_VIRTUAL
USER_TABLES   == 3            \* USER_TABLES_VIRTUAL
KHEAP         == 4            \* KERNEL_ADDRESS_SPACE, KHEAP_START
MOUNT_TABS    == 5 .. 4 + Mounts
MOUNT_DIR     == 5 + Mounts   \* MOUNT_DIR_START, KERNEL_DIR_VIRTUAL
KERNEL_TABLES == 6 + Mounts   \* KERNEL_TABLES_VIRTUAL

LAST  == KERNEL_TABLES        \* a directory is the last page of its table
Entry == 0 .. LAST
Frame == 1 .. Frames
Zero  == [k \in Entry |-> 0]
Data  == [k \in Entry |-> Junk]

\* The frames that init_vmm() takes.
kernel_directory == 1
LowTable         == 2
MountTable       == 3
HeapTable        == 4

ASSUME VirtMemAssumption ==
  /\ Frames \in Nat /\ Frames > HeapTable
  /\ Mounts \in Nat /\ Mounts > 3
  /\ UserPages \subseteq Entry /\ HeapPages \subseteq Entry
  /\ MaxExecs \in Nat /\ AnyOrder \in BOOLEAN
  /\ Junk \notin Nat

VARIABLES
  mem,                \* contents of the frames
  free,               \* the stack of free frames
  dirs,               \* directories that exist, by their frame
  current_directory,
  old_dir,            \* local of the exec_elf() being executed, 0 if none
  execs,              \* calls of exec_elf() so far
  fault               \* why the kernel is not followed any further, or "no"

vars == <<mem, free, dirs, current_directory, old_dir, execs, fault>>

TypeOK ==
  /\ mem \in [Frame -> [Entry -> Frame \cup {0, Junk}]]
  /\ free \in Seq(Frame)
  /\ dirs \subseteq Frame /\ kernel_directory \in dirs
  /\ current_directory \in dirs
  /\ old_dir \in dirs \cup {0}
  /\ execs \in 0 .. MaxExecs
  /\ fault \in {"no", "memory", "mount", "copied", "stale"}

-----------------------------------------------------------------------------
(* init_vmm()                                                              *)

\* Mutant: the tables of the heap are left to be made by map().
BootTablesLazy ==
  [Zero EXCEPT ![LOWMEM] = LowTable, ![MOUNT_DIR] = MountTable,
               ![KERNEL_TABLES] = kernel_directory]

\* All tables of the kernel exist before the first directory is cloned.
BootTables ==
  [Zero EXCEPT ![LOWMEM] = LowTable, ![MOUNT_DIR] = MountTable,
               ![KHEAP] = HeapTable, ![KERNEL_TABLES] = kernel_directory]

init_vmm ==
  [f \in Frame |-> CASE f = kernel_directory -> BootTables
                     [] f = MountTable -> [Zero EXCEPT ![LAST] = kernel_directory]
                     [] OTHER -> Zero]

Init ==
  /\ mem = init_vmm
  /\ free = [k \in 1 .. Frames - HeapTable |-> HeapTable + k]
  /\ dirs = {kernel_directory}
  /\ current_directory = kernel_directory
  /\ old_dir = 0
  /\ execs = 0
  /\ fault = "no"

panic(why) ==
  fault' = why /\ UNCHANGED <<mem, free, dirs, current_directory, old_dir, execs>>

Top(n) == free[Len(free) - n]

Popped(n) == SubSeq(free, 1, Len(free) - n)

-----------------------------------------------------------------------------
(* map(), unmap(), get_mapping(), allocate_range()                         *)

HasTable(d, i) == mem[d][i] # 0

get_mapping(i, j) ==
  HasTable(current_directory, i) /\ mem[mem[current_directory][i]][j] # 0

\* Mutant: a new table is entered in the kernel's directory as well.
MapNewEverywhere(f, t, i, j) ==
  mem' = [mem EXCEPT ![current_directory][i] = t,
                     ![kernel_directory][i] = t,
                     ![t] = [Zero EXCEPT ![j] = f], ![f] = Data]

\* map() where there is no table: t becomes the table, cleared.
MapNew(f, t, i, j) ==
  mem' = [mem EXCEPT ![current_directory][i] = t,
                     ![t] = [Zero EXCEPT ![j] = f], ![f] = Data]

MapOld(f, i, j) ==
  mem' = [mem EXCEPT ![mem[current_directory][i]][j] = f, ![f] = Data]

\* allocate_range() for a page that is not mapped: the page is taken before
\* the table.
AllocatePage(i, j) ==
  /\ fault = "no" /\ ~get_mapping(i, j)
  /\ LET n == IF HasTable(current_directory, i) THEN 1 ELSE 2
     IN  IF Len(free) < n
         THEN panic("memory")
         ELSE /\ IF n = 1 THEN MapOld(Top(0), i, j) ELSE MapNew(Top(0), Top(1), i, j)
              /\ free' = Popped(n)
              /\ UNCHANGED <<dirs, current_directory, old_dir, execs, fault>>

\* load_elf_binary() and the first stack of exec_elf(), and allocate_stack()
\* of exec_thread() in any task.
allocate_range == \E j \in UserPages : AllocatePage(USER, j)

\* alloc_chunk() and free_chunk() of the heap.
HeapGrow == \E j \in HeapPages : AllocatePage(KHEAP, j)

HeapShrink ==
  /\ fault = "no"
  /\ \E j \in HeapPages :
       /\ get_mapping(KHEAP, j)
       /\ LET t == mem[current_directory][KHEAP]
          IN  /\ free' = Append(free, mem[t][j])
              /\ mem' = [mem EXCEPT ![t][j] = 0]
  /\ UNCHANGED <<dirs, current_directory, old_dir, execs, fault>>

-----------------------------------------------------------------------------
(* Mount points                                                            *)

FreeMounts(d) == {s \in MOUNT_TABS : ~HasTable(d, s)}

\* The first one of the current directory, apart from those in S.
find_mount_point(S) == Min(FreeMounts(current_directory) \ S)

\* The directory w with f mounted at s.
mount_directory(w, s, f) == [w EXCEPT ![s] = f]

\* Mutant: only the page of the directory is unmapped.
umount_directory_half(w, s) == w

umount_directory(w, s) == [w EXCEPT ![s] = 0]

-----------------------------------------------------------------------------
(* clone_directory(), called by exec_elf()                                 *)

\* Mutant: the entry for the tables is forgotten.
SelfMapHalf(w, f, t) == [w EXCEPT ![USER_DIR] = t]

\* The entries that lead to the new directory f itself: its table t, which is
\* not cleared, and its tables.
SelfMap(w, f, t) == [w EXCEPT ![USER_DIR] = t, ![USER_TABLES] = f]

\* Besides the directory, the table t maps what its frame last held.
Stale(t) == \E k \in Entry \ {LAST} : mem[t][k] # 0

\* Of the kernel's directory all entries are linked, the two mount points
\* included.  A table of another directory is copied: copy_page_physical()
\* takes its arguments in the other order and writes the new pages over those
\* of the running task, its directory among them.
clone_directory ==
  LET f  == Top(0)
      t  == Top(1)
      s1 == find_mount_point({})
      s2 == find_mount_point({s1})
      w  == mount_directory(mount_directory(mem[current_directory],
                                            s1, current_directory), s2, f)
  IN  IF free = << >> THEN panic("memory")
      ELSE IF Cardinality(FreeMounts(current_directory)) < 2 THEN panic("mount")
      ELSE IF current_directory # kernel_directory
           THEN panic(IF Len(free) < 3 THEN "memory" ELSE "copied")
      ELSE IF Len(free) < 2 THEN panic("memory")
      ELSE /\ mem' = [mem EXCEPT
                        ![f] = SelfMap(w, f, t),
                        ![t][LAST] = f,
                        ![current_directory] =
                           umount_directory(umount_directory(w, s1), s2)]
           /\ free' = Popped(2)
           /\ dirs' = dirs \cup {f}
           /\ current_directory' = f
           /\ old_dir' = current_directory
           /\ execs' = execs + 1
           /\ fault' = IF Stale(t) THEN "stale" ELSE "no"

\* kmain starts its program before its thread.
ExecElf ==
  /\ fault = "no" /\ old_dir = 0 /\ execs < MaxExecs
  /\ AnyOrder \/ ~HasTable(kernel_directory, USER)
  /\ clone_directory

ExecElfReturn ==
  /\ fault = "no" /\ old_dir # 0
  /\ current_directory' = old_dir
  /\ old_dir' = 0
  /\ UNCHANGED <<mem, free, dirs, execs, fault>>

-----------------------------------------------------------------------------
(* switch_page_directory() of the scheduler, and destroy_directory()       *)

switch_page_directory ==
  /\ fault = "no" /\ old_dir = 0
  /\ current_directory' \in dirs
  /\ UNCHANGED <<mem, free, dirs, old_dir, execs, fault>>

\* Mutant: every table is freed.
LinkedNever(d, i) == FALSE

Linked(d, i) == mem[d][i] = mem[kernel_directory][i]

\* Of a table that is freed, whether the page in entry j is.
PageFreed(i, j, w) == w # 0 /\ <<i, j>> # <<USER_DIR, LAST>>

TableFreed(d, i) == HasTable(d, i) /\ ~Linked(d, i) /\ i # USER_TABLES

\* The numbers of S in ascending order; there is one such sequence.
Ascending(S) ==
  {s \in [1 .. Cardinality(S) -> S] :
     ToSet(s) = S /\ \A a, b \in DOMAIN s : a < b => s[a] < s[b]}

\* What is freed below KERNEL_ADDRESS_SPACE, a table after its pages; a set of
\* one sequence.
FreedOf(d, i) ==
  LET t == mem[d][i]
  IN  IF TableFreed(d, i)
      THEN {Append([k \in DOMAIN js |-> mem[t][js[k]]], t) :
              js \in Ascending({j \in Entry : PageFreed(i, j, mem[t][j])})}
      ELSE {<< >>}

\* schedule() destroys the directory of a task that is not the current one.
destroy_directory(d) ==
  /\ fault = "no" /\ old_dir = 0
  /\ IF FreeMounts(current_directory) = {}
     THEN panic("mount")
     ELSE /\ \E low \in FreedOf(d, LOWMEM), user \in FreedOf(d, USER),
                self \in FreedOf(d, USER_DIR), tables \in FreedOf(d, USER_TABLES) :
               free' = Append(free \o low \o user \o self \o tables, d)
          /\ dirs' = dirs \ {d}
          /\ UNCHANGED <<mem, current_directory, old_dir, execs, fault>>

Halted == fault # "no" /\ UNCHANGED vars

Next ==
  \/ allocate_range
  \/ HeapGrow
  \/ HeapShrink
  \/ ExecElf
  \/ ExecElfReturn
  \/ switch_page_directory
  \/ \E d \in dirs \ {kernel_directory, current_directory} : destroy_directory(d)
  \/ Halted

Spec == Init /\ [][Next]_vars

-----------------------------------------------------------------------------
(* Properties                                                              *)

\* The tables of d, other than directories mounted as tables.
TablesOf(d) ==
  {mem[d][i] : i \in {LOWMEM, USER, USER_DIR, KHEAP, MOUNT_DIR}} \ {0}

\* All frames that can be reached in the address space d.
Reach(d) ==
  ({d} \cup {mem[d][i] : i \in Entry} \cup {mem[t][j] : t \in TablesOf(d), j \in Entry})
    \ {0}

\* The frames that only d should reach.
Private(d) ==
  LET ts == {mem[d][i] : i \in {USER, USER_DIR}} \ {0}
  IN  ({d} \cup ts \cup {mem[t][j] : t \in ts, j \in Entry}) \ {0}

\* No clone_directory() has yet copied a table or been given one that is not
\* clear; what holds afterwards is not known.
Followed == fault \notin {"stale", "copied"}

\* destroy_directory() and the heap never give back a frame that some address
\* space still maps, nor one that is free: not a table linked from the kernel,
\* not what a mount point left in a clone leads to.
FreeNotMapped ==
  /\ IsInjective(free)
  /\ \A d \in dirs : Reach(d) \cap ToSet(free) = {}

\* include/mm/vmm.h:70, "freeing occupied memory": what exec_elf() and map()
\* have taken for a directory comes back when it is destroyed, its tables and
\* the table made to mount it in itself included.
NothingLost == Frame = ToSet(free) \cup UNION {Reach(d) : d \in dirs}

\* Every frame is either free, once, or mapped, whatever order programs and heap
\* pages come and go in, up to the first table of clone_directory() that is not
\* clear.
FramesAccounted == Followed => TypeOK /\ FreeNotMapped /\ NothingLost

\* A task's pages, tables and directory are reached in no other address space,
\* although clone_directory() links whatever the kernel's directory holds: up to
\* the first table that is not clear.
Isolation ==
  Followed => \A d \in dirs \ {kernel_directory} : \A e \in dirs \ {d} :
                Private(d) \cap Reach(e) = {}

\* vmm.c:66, "to avoid faults on switching to kernel in long ago copied
\* directories": a page the heap has mapped in one address space is mapped in
\* all, because no directory gets a table of the kernel after it was cloned, up
\* to the first table that is not clear.
KernelShared ==
  Followed => \A d \in dirs : \A i \in {LOWMEM, KHEAP, MOUNT_DIR, KERNEL_TABLES} :
                mem[d][i] = mem[kernel_directory][i]

\* The addresses in page_directory_t lead to the directory in its own address
\* space, and those of the kernel's directory in every one (vmm.c:15), up to the
\* first table that is not clear.
SelfMounted ==
  Followed => \A d \in dirs :
    /\ mem[mem[d][MOUNT_DIR]][LAST] = kernel_directory
    /\ mem[d][KERNEL_TABLES] = kernel_directory
    /\ d # kernel_directory =>
         mem[d][USER_TABLES] = d /\ mem[mem[d][USER_DIR]][LAST] = d

\* "there's no free mount points" (vmm.c:229) is never reached: the two mount
\* points of clone_directory() stay in the clone, and no more are ever taken, up
\* to the first table that is not clear.
MountPointLeft ==
  Followed => /\ fault # "mount"
              /\ \A d \in dirs : Cardinality(FreeMounts(d)) >= Mounts - 2

\* include/mm/vmm.h:70, "Deletes page directory freeing occupied memory": no page
\* that destroy_directory(d) would free is free already.
OnlyOccupiedFreed ==
  \A d \in dirs \ {kernel_directory} : \A i \in LOWMEM .. USER_TABLES :
    TableFreed(d, i) =>
      \A j \in Entry : LET w == mem[mem[d][i]][j]
                       IN  PageFreed(i, j, w) => w \notin ToSet(free)

=============================================================================
