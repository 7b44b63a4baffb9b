------------------------------ MODULE PhysMem ------------------------------
(***************************************************************************)
(* The physical page allocator, kernel/mm/pmm.c.  Until paging is on,      *)
(* pages are taken one after the other behind the kernel image; then from  *)
(* a stack of free pages, which pmm_collect_pages() fills from the memory  *)
(* map of the boot loader and which is itself kept in pages it was given.  *)
(*                                                                         *)
(* The stack lives at PMM_STACK_START, where init_vmm() has made the page  *)
(* tables: map() there only enters the page.  So the stack is a sequence   *)
(* of pages and the sequence of the pages that hold it.                    *)
(*                                                                         *)
(* pmm_collect_pages() is one step per page; interrupts are off, and no    *)
(* page is asked for while it runs.  Afterwards pages are taken and given  *)
(* back in any order, by callers that give back only what they have.       *)
(*                                                                         *)
(* exec_thread() takes pages with interrupts enabled, and schedule() gives *)
(* pages back in the timer handler: pmm_free_page(), one step, may come    *)
(* between the steps of pmm_alloc_page().  Where it pushes there, the pop  *)
(* goes wrong, and what follows is not modelled (torn).                    *)
(***************************************************************************)
EXTENDS Naturals, FiniteSets, SequencesExt

CONSTANTS
  PAGE_SIZE,
  Word,        \* values of an uint32_t
  PerPage,     \* pointers in a page
  StackPages,  \* pages between PMM_STACK_START and PMM_STACK_END
  pmm_start,   \* end of the kernel image and the initial ramdisk
  BootPages,   \* pages that init_vmm() takes
  Maps         \* the memory maps a boot loader may pass

ASSUME PmmAssumption ==
  /\ {PAGE_SIZE, Word, PerPage, StackPages, BootPages} \subseteq Nat \ {0}
  /\ Word % PAGE_SIZE = 0
  /\ pmm_start \in Nat /\ pmm_start + (BootPages + 1) * PAGE_SIZE < Word
  /\ Maps \subseteq Seq([type : Nat, base : Nat, length : Nat])

VARIABLES
  mmap,               \* the memory map, a sequence of entries
  pmm_location,
  pmm_paging_active,
  stack,              \* the free pages between PMM_STACK_START and pmm_stack_loc
  backing,            \* the pages mapped from PMM_STACK_START to pmm_stack_max
  used,               \* pages that callers have
  popped,             \* the page that pmm_alloc_page() is about to return
  torn,               \* whether a push has come between the accesses of a pop
  entry, j,           \* where pmm_collect_pages() is; entry 0 before it
  fault               \* whether panic() has been called

table   == <<pmm_location, pmm_paging_active>>
collect == <<entry, j>>
pop     == <<popped, torn>>
vars    == <<mmap, table, stack, backing, used, pop, collect, fault>>

RoundDown(a) == a - (a % PAGE_SIZE)

Page == {a \in 0 .. Word - 1 : a % PAGE_SIZE = 0}

TypeOK ==
  /\ mmap \in Maps
  /\ pmm_location \in Page
  /\ pmm_paging_active \in BOOLEAN
  /\ stack \in Seq(Page) /\ backing \in Seq(Page)
  /\ used \subseteq Page
  /\ popped \subseteq 0 .. Word - 1 /\ torn \in BOOLEAN
  /\ entry \in 0 .. Len(mmap) + 1
  /\ j \in 0 .. Word - 1
  /\ fault \in BOOLEAN

\* The first page behind the image, or the one after it.
init_pmm == RoundDown(pmm_start + PAGE_SIZE)

Init ==
  /\ mmap \in Maps
  /\ pmm_location = init_pmm
  /\ pmm_paging_active = FALSE
  /\ stack = << >> /\ backing = << >> /\ used = {}
  /\ popped = {} /\ torn = FALSE
  /\ entry = 0 /\ j = 0
  /\ fault = FALSE

panic == fault' = TRUE /\ UNCHANGED <<mmap, table, stack, backing, used, pop, collect>>

Running == ~fault /\ ~torn

-----------------------------------------------------------------------------

\* pmm_alloc_page() as init_vmm() calls it.
BootAlloc ==
  /\ Running /\ ~pmm_paging_active /\ Cardinality(used) < BootPages
  /\ used' = used \cup {pmm_location}
  /\ pmm_location' = pmm_location + PAGE_SIZE
  /\ UNCHANGED <<mmap, pmm_paging_active, stack, backing, pop, collect, fault>>

\* The end of init_vmm().
PagingActive ==
  /\ Running /\ ~pmm_paging_active /\ Cardinality(used) = BootPages
  /\ pmm_paging_active' = TRUE
  /\ UNCHANGED <<mmap, pmm_location, stack, backing, used, pop, collect, fault>>

\* pmm_alloc_page() from then on: pmm_stack_loc moves down ...
pmm_alloc_page ==
  /\ Running /\ entry > Len(mmap) /\ popped = {}
  /\ IF stack = << >>
     THEN panic
     ELSE /\ popped' = {Last(stack)}
          /\ stack' = Front(stack)
          /\ UNCHANGED <<mmap, table, backing, used, torn, collect, fault>>

\* ... and the word above it is read.
ReturnPopped ==
  /\ Running /\ popped # {}
  /\ used' = used \cup popped
  /\ popped' = {}
  /\ UNCHANGED <<mmap, table, stack, backing, torn, collect, fault>>

\* Mutant: the stack may have one pointer too many for its pages.
NoRoomLate == Len(backing) * PerPage < Len(stack)

\* pmm_stack_max <= pmm_stack_loc
NoRoom == Len(backing) * PerPage <= Len(stack)

Reserved(p) == p < pmm_location

\* Mutant: the page that now holds the stack is pushed on it as well.
GrowAndPush(p) ==
  /\ backing' = Append(backing, p)
  /\ stack' = Append(stack, p)

\* A page that finds no room on the stack becomes part of the stack.
Grow(p) ==
  /\ backing' = Append(backing, p)
  /\ UNCHANGED stack

Push(p) ==
  /\ stack' = Append(stack, p)
  /\ UNCHANGED backing

StackFull == NoRoom /\ Len(backing) >= StackPages

\* The rest of pmm_free_page(), for an address in the page p.
Free(p) ==
  IF Reserved(p) THEN UNCHANGED <<stack, backing>>
  ELSE IF NoRoom THEN Grow(p)
  ELSE Push(p)

\* Inside of pmm_alloc_page() too, as long as nothing is pushed.
pmm_free_page(p) ==
  /\ Running /\ entry > Len(mmap)
  /\ popped = {} \/ Reserved(p) \/ NoRoom
  /\ IF ~Reserved(p) /\ StackFull
     THEN panic
     ELSE /\ Free(p)
          /\ used' = used \ {p}
          /\ UNCHANGED <<mmap, table, pop, collect, fault>>

\* A push inside of pmm_alloc_page().  If pmm_stack_loc had been read and not
\* yet written, the pushed page ends up above the top.  If it had been
\* written, the page is pushed over the one to be returned, and the caller gets
\* the same page or the word above it, whatever that is.
PushInPop(p) ==
  /\ Running /\ popped # {} /\ ~Reserved(p) /\ ~NoRoom
  /\ \/ UNCHANGED <<stack, backing, popped>>
     \/ Push(p) /\ \E w \in 0 .. Word - 1 : popped' = {w}
  /\ torn' = TRUE
  /\ used' = used \ {p}
  /\ UNCHANGED <<mmap, table, collect, fault>>

-----------------------------------------------------------------------------
(* pmm_collect_pages()                                                     *)

\* Of a 64-bit address and length the code reads the low words.
Low(a) == a % Word

Limit(e) == (Low(e.base) + Low(e.length)) % Word

InEntry(e) == e.type = 1 /\ j < Limit(e)

\* The next entry, from its first page on.
EnterEntry(i) ==
  /\ entry' = i
  /\ j' = IF i <= Len(mmap) THEN Low(mmap[i].base) ELSE 0

CollectStart ==
  /\ Running /\ pmm_paging_active /\ entry = 0
  /\ EnterEntry(1)
  /\ UNCHANGED <<mmap, table, stack, backing, used, pop, fault>>

CollectPage ==
  /\ Running /\ entry \in 1 .. Len(mmap)
  /\ InEntry(mmap[entry])
  /\ IF ~Reserved(RoundDown(j)) /\ StackFull
     THEN panic
     ELSE /\ Free(RoundDown(j))
          /\ j' = (j + PAGE_SIZE) % Word
          /\ UNCHANGED <<mmap, table, used, pop, entry, fault>>

CollectNext ==
  /\ Running /\ entry \in 1 .. Len(mmap)
  /\ ~InEntry(mmap[entry])
  /\ EnterEntry(entry + 1)
  /\ UNCHANGED <<mmap, table, stack, backing, used, pop, fault>>

pmm_collect_pages == CollectStart \/ CollectPage \/ CollectNext

Halted == ~Running /\ UNCHANGED vars

Next ==
  \/ BootAlloc
  \/ PagingActive
  \/ pmm_collect_pages
  \/ pmm_alloc_page
  \/ ReturnPopped
  \/ \E p \in used : pmm_free_page(p)
  \/ \E p \in used : PushInPop(p)
  \/ Halted

Spec == Init /\ [][Next]_vars

-----------------------------------------------------------------------------
(* Properties                                                              *)

\* Maps that the code reads as they are meant: usable memory in whole pages,
\* except below the kernel, where the BIOS keeps the end of a page for itself;
\* below 4 GiB, and listed once.  Without it PagesAccounted is not promised.
WholePages ==
  \A m \in Maps : \A i \in DOMAIN m : m[i].type = 1 =>
    /\ m[i].base % PAGE_SIZE = 0
    /\ m[i].length % PAGE_SIZE = 0 \/ m[i].base + m[i].length <= pmm_start
    /\ m[i].base + m[i].length < Word
    /\ \A k \in DOMAIN m \ {i} : m[k].type = 1 =>
         \/ m[i].base + m[i].length <= m[k].base
         \/ m[k].base + m[k].length <= m[i].base

\* The whole page p is memory.
Usable(p) == \E i \in DOMAIN mmap :
               LET e == mmap[i]
               IN  e.type = 1 /\ e.base <= p /\ p + PAGE_SIZE <= e.base + e.length

\* A page has one owner: no page is twice on the stack, and none on it is in
\* use or holds a part of the stack, however allocation, release and the
\* growth of the stack by a released page alternate.
PagesOnce ==
  ~torn =>
    /\ IsInjective(stack) /\ IsInjective(backing)
    /\ ToSet(stack) \cap ToSet(backing) = {}
    /\ (used \cup popped) \cap (ToSet(stack) \cup ToSet(backing)) = {}
    /\ used \cap popped = {}

\* No page is lost: once the map has been read, every usable page behind the
\* kernel is in use, on the stack, or holds a part of the stack.
PagesConserved ==
  entry > Len(mmap) /\ Running =>
    {p \in Page : Usable(p) /\ p >= pmm_location}
      = ToSet(stack) \cup ToSet(backing)
        \cup {p \in used \cup popped : p >= pmm_location}

\* The words between PMM_STACK_START and pmm_stack_loc are in pages that are
\* mapped, so pushing and popping never fault.
StackMapped == Len(stack) <= Len(backing) * PerPage

\* "it contains some important crap" (pmm.c:39): the kernel, the ramdisk and
\* the page tables made at boot are never on the stack and never hold it.
KernelKept ==
  \A p \in ToSet(stack) \cup ToSet(backing) : p >= init_pmm + BootPages * PAGE_SIZE

\* Every usable page has exactly one owner, and the stack of free pages never
\* takes one of the kernel, from the reading of the memory map through every
\* sequence of pmm_alloc_page() and pmm_free_page(), up to the first push that
\* comes between the accesses of a pop.
PagesAccounted == TypeOK /\ PagesOnce /\ PagesConserved /\ KernelKept

=============================================================================
