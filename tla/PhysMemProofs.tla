--------------------------- MODULE PhysMemProofs ---------------------------
(***************************************************************************)
(* Proofs about the page allocator, for pages of any size, stacks of any   *)
(* number of pages and any memory map of the boot loader.                  *)
(***************************************************************************)
EXTENDS PhysMem, FiniteSetTheorems, TLAPS

(* Arithmetic of pages                                                     *)

\* A number and its quotient and remainder.
LEMMA Quotient ==
  ASSUME NEW a \in Nat, NEW n \in Nat \ {0}
  PROVE  /\ a \div n \in Nat
         /\ a = (a \div n) * n + (a % n)
         /\ a % n \in 0 .. n - 1
<1>1. a \div n \in Nat
  BY SMT
<1>2. a = (a \div n) * n + (a % n)
  BY SMT
<1>3. a % n \in 0 .. n - 1
  BY SMT
<1> QED
  BY <1>1, <1>2, <1>3

\* Division with a remainder.
LEMMA Remainder ==
  ASSUME NEW n \in Nat \ {0}, NEW k \in Int, NEW r \in 0 .. n - 1
  PROVE  (k * n + r) % n = r
BY SMT

\* A multiple has no remainder.
LEMMA Multiple ==
  ASSUME NEW n \in Nat \ {0}, NEW k \in Int
  PROVE  (k * n) % n = 0
BY SMT

\* A number below the divisor is its own remainder.
LEMMA SmallMod ==
  ASSUME NEW n \in Nat \ {0}, NEW a \in 0 .. n - 1
  PROVE  a % n = a
BY SMT

\* Aligned addresses add up to aligned ones.
LEMMA AddAligned ==
  ASSUME NEW n \in Nat \ {0}, NEW a \in Nat, NEW b \in Nat, a % n = 0, b % n = 0
  PROVE  (a + b) % n = 0
<1> DEFINE k == a \div n
           l == b \div n
<1>1. k \in Nat /\ a = k * n /\ l \in Nat /\ b = l * n
  BY Quotient
<1> HIDE DEF k, l
<1>2. a + b = (k + l) * n
  BY <1>1, SMT
<1>3. ((k + l) * n) % n = 0
  BY <1>1, Multiple
<1> QED
  BY <1>2, <1>3

\* Between two aligned addresses there is a page.
LEMMA NextAligned ==
  ASSUME NEW n \in Nat \ {0}, NEW a \in Nat, NEW b \in Nat,
         a % n = 0, b % n = 0, a < b
  PROVE  a + n <= b
<1> DEFINE k == a \div n
           l == b \div n
<1>1. k \in Nat /\ a = k * n /\ l \in Nat /\ b = l * n
  BY Quotient
<1> HIDE DEF k, l
<1>2. k + 1 <= l
  BY <1>1, SMT
<1>3. (k + 1) * n <= l * n
  BY <1>1, <1>2, SMT
<1>4. (k + 1) * n = k * n + n
  BY <1>1, SMT
<1> QED
  BY <1>1, <1>3, <1>4

\* What RoundDown returns.
LEMMA Rounded ==
  ASSUME NEW n \in Nat \ {0}, NEW a \in Nat
  PROVE  /\ a - (a % n) \in Nat
         /\ (a - (a % n)) % n = 0
         /\ a - (a % n) <= a
         /\ a < a - (a % n) + n
<1> DEFINE k == a \div n
           r == a % n
<1>1. k \in Nat /\ a = k * n + r /\ r \in 0 .. n - 1
  BY Quotient
<1> HIDE DEF k, r
<1>2. a - r = k * n /\ k * n \in Nat
  BY <1>1, SMT
<1>3. (k * n) % n = 0
  BY <1>1, Multiple
<1>4. a - r \in Nat /\ (a - r) % n = 0 /\ a - r <= a /\ a < a - r + n
  BY <1>1, <1>2, <1>3
<1> QED
  BY <1>4 DEF r

-----------------------------------------------------------------------------
(* Stacks                                                                  *)

\* The pages of a stack after a push.
LEMMA SetOfPushed ==
  ASSUME NEW S, NEW s \in Seq(S), NEW p \in S
  PROVE  /\ Append(s, p) \in Seq(S)
         /\ Len(Append(s, p)) = Len(s) + 1
         /\ ToSet(Append(s, p)) = ToSet(s) \cup {p}
         /\ IsInjective(s) /\ p \notin ToSet(s) => IsInjective(Append(s, p))
<1> DEFINE t == Append(s, p)
<1>1. /\ t \in Seq(S) /\ Len(t) = Len(s) + 1
      /\ DOMAIN s = 1 .. Len(s) /\ DOMAIN t = 1 .. Len(s) + 1 /\ Len(s) \in Nat
      /\ \A i \in 1 .. Len(s) : t[i] = s[i]
      /\ t[Len(s) + 1] = p
  OBVIOUS
<1> HIDE DEF t
<1>2. ToSet(t) = ToSet(s) \cup {p}
  BY <1>1 DEF ToSet
<1>3. IsInjective(s) /\ p \notin ToSet(s) => IsInjective(t)
  BY <1>1 DEF IsInjective, ToSet
<1> QED
  BY <1>1, <1>2, <1>3 DEF t

\* The pages of a stack after a pop.
LEMMA SetOfPopped ==
  ASSUME NEW S, NEW s \in Seq(S), s # << >>
  PROVE  /\ Front(s) \in Seq(S)
         /\ Len(Front(s)) = Len(s) - 1
         /\ Last(s) \in S
         /\ ToSet(s) = ToSet(Front(s)) \cup {Last(s)}
         /\ IsInjective(s) => IsInjective(Front(s)) /\ Last(s) \notin ToSet(Front(s))
<1> DEFINE t == Front(s)
<1>1. /\ t \in Seq(S) /\ Len(t) = Len(s) - 1
      /\ DOMAIN s = 1 .. Len(s) /\ DOMAIN t = 1 .. Len(s) - 1 /\ Len(s) \in Nat \ {0}
      /\ \A i \in 1 .. Len(s) - 1 : t[i] = s[i]
      /\ Last(s) = s[Len(s)]
  <2>1. Len(s) \in Nat \ {0} /\ DOMAIN s = 1 .. Len(s)
    OBVIOUS
  <2>2. /\ t \in Seq(S) /\ Len(t) = Len(s) - 1
        /\ \A i \in 1 .. Len(s) - 1 : t[i] = s[i]
    BY <2>1 DEF Front
  <2>3. DOMAIN t = 1 .. Len(s) - 1
    BY <2>1, <2>2
  <2> QED
    BY <2>1, <2>2, <2>3 DEF Last
<1> HIDE DEF t
<1>2. ToSet(s) = ToSet(t) \cup {Last(s)}
  BY <1>1 DEF ToSet
<1>3. IsInjective(s) => IsInjective(t) /\ Last(s) \notin ToSet(t)
  BY <1>1 DEF IsInjective, ToSet
<1> QED
  BY <1>1, <1>2, <1>3 DEF t

\* An empty stack holds none.
LEMMA SetOfEmpty == ToSet(<< >>) = {} /\ IsInjective(<< >>)
BY DEF ToSet, IsInjective

\* A stack of pages holds pages.
LEMMA SetOfSeq ==
  ASSUME NEW S, NEW s \in Seq(S)
  PROVE  ToSet(s) \subseteq S
BY DEF ToSet

-----------------------------------------------------------------------------
(* The stack and the kernel, whatever the memory map                       *)

\* What PmmAssumption says, in the form the steps use.
LEMMA Constants ==
  /\ PAGE_SIZE \in Nat \ {0} /\ Word \in Nat \ {0} /\ PerPage \in Nat \ {0}
  /\ StackPages \in Nat \ {0} /\ BootPages \in Nat \ {0} /\ pmm_start \in Nat
  /\ Word % PAGE_SIZE = 0
  /\ \A m \in Maps : m \in Seq([type : Nat, base : Nat, length : Nat])
BY PmmAssumption

\* The address of the k-th page that init_vmm() takes.
BootPage(k) == init_pmm + k * PAGE_SIZE

\* What is allocated before paging is a page.
LEMMA BootPageIsPage ==
  ASSUME NEW k \in 0 .. BootPages
  PROVE  /\ BootPage(k) \in Page
         /\ k < BootPages => BootPage(k) + PAGE_SIZE = BootPage(k + 1)
         /\ BootPage(k) > pmm_start
<1> USE Constants
<1> DEFINE n == PAGE_SIZE
           a == pmm_start + n
           b == init_pmm
           c == k * n
           d == BootPages * n
<1>1. n \in Nat \ {0} /\ a \in Nat /\ k \in Nat /\ k <= BootPages
  OBVIOUS
<1>2. b \in Nat /\ b % n = 0 /\ b <= a /\ a < b + n
  BY <1>1, Rounded DEF init_pmm, RoundDown
<1>3. c \in Nat /\ c % n = 0 /\ d \in Nat /\ c <= d
  <2>1. c \in Nat /\ d \in Nat /\ c <= d
    BY <1>1, SMT
  <2>2. c % n = 0
    BY <1>1, Multiple
  <2> QED
    BY <2>1, <2>2
<1>4. (BootPages + 1) * n = d + n
  BY SMT
<1>5. a + d < Word
  BY <1>1, <1>3, <1>4, PmmAssumption
<1>6. (k + 1) * n = c + n
  BY SMT
<1>7. (b + c) % n = 0
  BY <1>1, <1>2, <1>3, AddAligned
<1>8. BootPage(k) = b + c /\ BootPage(k + 1) = b + (k + 1) * n
  BY DEF BootPage
<1> HIDE DEF a, b, c, d
<1>9. b + c \in 0 .. Word - 1 /\ b + c + n = b + (k + 1) * n
  BY <1>1, <1>2, <1>3, <1>5, <1>6
<1>10. b + c \in Page
  BY <1>7, <1>9 DEF Page
<1> QED
  BY <1>1, <1>2, <1>3, <1>8, <1>9, <1>10 DEF a

\* What holds whatever the memory map says.  The pages of the boot are taken
\* one after the other, the stack is empty until the map is read, and nobody
\* asks for a page before it has been: so what pmm_free_page() puts on the
\* stack, or under it, lies behind all pages of the boot.
PmmInv ==
  /\ TypeOK /\ StackMapped
  /\ ~pmm_paging_active =>
       /\ entry = 0
       /\ IsFiniteSet(used) /\ Cardinality(used) \in 0 .. BootPages
       /\ pmm_location = BootPage(Cardinality(used))
  /\ pmm_paging_active => pmm_location = BootPage(BootPages)
  /\ entry = 0 => stack = << >> /\ backing = << >>
  /\ entry <= Len(mmap) => popped = {} /\ \A p \in used : p < pmm_location
  /\ ~torn => popped \subseteq Page
  /\ \A p \in ToSet(stack) \cup ToSet(backing) : p >= pmm_location

\* The multiplication is by a number of the instance: the room for pointers
\* grows by a page's worth.
LEMMA Room ==
  ASSUME NEW b \in Nat, NEW s \in Nat
  PROVE  /\ ~(b * PerPage <= s) => s + 1 <= b * PerPage
         /\ s <= b * PerPage => s <= (b + 1) * PerPage
         /\ s <= b * PerPage => s - 1 <= b * PerPage
<1> DEFINE m == b * PerPage
<1>1. m \in Nat /\ (b + 1) * PerPage = m + PerPage /\ PerPage \in Nat
  BY Constants, SMT
<1> HIDE DEF m
<1>2. /\ ~(m <= s) => s + 1 <= m
      /\ s <= m => s <= m + PerPage
      /\ s <= m => s - 1 <= m
  BY <1>1
<1> QED
  BY <1>1, <1>2 DEF m

\* What pmm_free_page() does to the stack.
LEMMA Freed ==
  ASSUME stack \in Seq(Page), backing \in Seq(Page), StackMapped,
         pmm_location \in Page, NEW p \in Page, Free(p)
  PROVE  /\ stack' \in Seq(Page) /\ backing' \in Seq(Page) /\ StackMapped'
         /\ \/ p < pmm_location /\ stack' = stack /\ backing' = backing
            \/ /\ p >= pmm_location /\ stack' = Append(stack, p) /\ backing' = backing
               /\ ToSet(stack') = ToSet(stack) \cup {p}
            \/ /\ p >= pmm_location /\ backing' = Append(backing, p) /\ stack' = stack
               /\ ToSet(backing') = ToSet(backing) \cup {p}
<1> DEFINE b == Len(backing)
           s == Len(stack)
<1>1. b \in Nat /\ s \in Nat /\ (~(p < pmm_location) => p >= pmm_location)
  BY DEF Page
<1>2. CASE p < pmm_location
  BY <1>2 DEF Free, Reserved, StackMapped
<1>3. CASE ~(p < pmm_location) /\ ~(b * PerPage <= s)
  <2>1. stack' = Append(stack, p) /\ backing' = backing
    BY <1>3 DEF Free, Reserved, NoRoom, Push
  <2>2. stack' \in Seq(Page) /\ Len(stack') = s + 1 /\ ToSet(stack') = ToSet(stack) \cup {p}
    BY <2>1, SetOfPushed
  <2>3. Len(stack') <= Len(backing') * PerPage
    BY <1>1, <1>3, <2>1, <2>2, Room
  <2> QED
    BY <1>1, <1>3, <2>1, <2>2, <2>3 DEF StackMapped
<1>4. CASE ~(p < pmm_location) /\ b * PerPage <= s
  <2>1. backing' = Append(backing, p) /\ stack' = stack
    BY <1>4 DEF Free, Reserved, NoRoom, Grow
  <2>2. /\ backing' \in Seq(Page) /\ Len(backing') = b + 1
        /\ ToSet(backing') = ToSet(backing) \cup {p}
    BY <2>1, SetOfPushed
  <2>3. Len(stack') <= Len(backing') * PerPage
    BY <1>1, <2>1, <2>2, Room DEF StackMapped
  <2> QED
    BY <1>1, <1>4, <2>1, <2>2, <2>3 DEF StackMapped
<1> QED
  BY <1>2, <1>3, <1>4

\* Nothing is allocated and the stack is empty.
LEMMA PmmInit == Init => PmmInv
<1> SUFFICES ASSUME Init PROVE PmmInv
  OBVIOUS
<1> USE Constants
<1>1. /\ used = {} /\ stack = << >> /\ backing = << >> /\ entry = 0 /\ j = 0
      /\ mmap \in Maps /\ fault = FALSE /\ pmm_paging_active = FALSE
      /\ pmm_location = init_pmm /\ popped = {} /\ torn = FALSE
  BY DEF Init
<1>2. IsFiniteSet(used) /\ Cardinality(used) = 0
  BY <1>1, FS_EmptySet
<1>3. BootPage(0) = init_pmm /\ BootPage(0) \in Page
  <2>1. BootPage(0) \in Page
    BY BootPageIsPage
  <2>2. init_pmm \in Nat
    <3>1. pmm_start + PAGE_SIZE \in Nat
      OBVIOUS
    <3> QED
      BY <3>1, Rounded DEF init_pmm, RoundDown
  <2> QED
    BY <2>1, <2>2 DEF BootPage
<1>4. TypeOK
  <2>1. Len(mmap) \in Nat /\ stack \in Seq(Page) /\ backing \in Seq(Page)
    BY <1>1
  <2>2. entry \in 0 .. Len(mmap) + 1 /\ j \in 0 .. Word - 1
    BY <1>1, <2>1
  <2> QED
    BY <1>1, <1>3, <2>1, <2>2 DEF TypeOK
<1>5. StackMapped
  BY <1>1 DEF StackMapped
<1> QED
  BY <1>1, <1>2, <1>3, <1>4, <1>5, SetOfEmpty DEF PmmInv

\* What TypeOK says of the stack.
LEMMA Types ==
  ASSUME TypeOK
  PROVE  /\ mmap \in Seq([type : Nat, base : Nat, length : Nat]) /\ Len(mmap) \in Nat
         /\ entry \in Nat /\ j \in Nat /\ j < Word
         /\ pmm_location \in Nat
         /\ \A p \in Page : p \in Nat /\ p % PAGE_SIZE = 0 /\ p < Word
BY Constants DEF TypeOK, Page

\* An item of a sequence is of its type.
LEMMA ElementOf ==
  ASSUME NEW S, NEW s \in Seq(S), NEW i \in 1 .. Len(s)
  PROVE  s[i] \in S
OBVIOUS

\* What the assumption says of one entry of the map.
LEMMA EntryTypes ==
  ASSUME TypeOK, NEW i \in 1 .. Len(mmap)
  PROVE  /\ i \in DOMAIN mmap
         /\ mmap[i].type \in Nat /\ mmap[i].base \in Nat /\ mmap[i].length \in Nat
<1> DEFINE E == [type : Nat, base : Nat, length : Nat]
<1>1. mmap \in Seq(E)
  BY Types
<1>2. mmap[i] \in E /\ i \in DOMAIN mmap
  <2> HIDE DEF E
  <2> QED
    BY <1>1, ElementOf
<1> QED
  BY <1>2

\* Rounded down, an address of the map is a page.
LEMMA RoundDownIsPage ==
  ASSUME NEW a \in Nat, a < Word
  PROVE  RoundDown(a) \in Page
<1> USE Constants
<1> DEFINE r == a - (a % PAGE_SIZE)
<1>1. r \in Nat /\ r % PAGE_SIZE = 0 /\ r <= a
  BY Rounded
<1> HIDE DEF r
<1>2. r \in 0 .. Word - 1
  BY <1>1
<1>3. r \in Page
  BY <1>1, <1>2 DEF Page
<1> QED
  BY <1>3 DEF r, RoundDown

\* pmm_alloc_page() before paging.
LEMMA BootAllocStep ==
  ASSUME PmmInv, BootAlloc
  PROVE  PmmInv'
<1> USE Constants
<1> DEFINE n == Cardinality(used)
<1>1. /\ TypeOK /\ StackMapped /\ ~pmm_paging_active /\ entry = 0
      /\ IsFiniteSet(used) /\ n \in 0 .. BootPages /\ n < BootPages
      /\ pmm_location = BootPage(n)
      /\ stack = << >> /\ backing = << >>
  BY DEF PmmInv, BootAlloc
<1>2. /\ used' = used \cup {pmm_location} /\ pmm_location' = pmm_location + PAGE_SIZE
      /\ UNCHANGED <<mmap, pmm_paging_active, stack, backing, popped, torn, entry, j, fault>>
  BY DEF BootAlloc, collect, pop
<1>3. Len(mmap) \in Nat /\ pmm_location \in Nat /\ \A p \in used : p \in Nat
  BY <1>1, Types DEF TypeOK
<1>4. \A p \in used : p < pmm_location
  BY <1>1, <1>3 DEF PmmInv
<1>5. IsFiniteSet(used') /\ Cardinality(used') = n + 1
  <2>1. pmm_location \notin used
    BY <1>3, <1>4
  <2> QED
    BY <1>1, <1>2, <2>1, FS_AddElement
<1>6. pmm_location' = BootPage(n + 1) /\ pmm_location' \in Page /\ n + 1 \in 0 .. BootPages
  <2>1. n + 1 \in 0 .. BootPages
    BY <1>1
  <2> HIDE DEF n
  <2> QED
    BY <1>1, <1>2, <2>1, BootPageIsPage
<1>7. TypeOK'
  BY <1>1, <1>2, <1>6 DEF TypeOK
<1>8. \A p \in used' : p < pmm_location'
  BY <1>2, <1>3, <1>4
<1>9. StackMapped'
  BY <1>1, <1>2 DEF StackMapped
<1>10. ToSet(stack') \cup ToSet(backing') = {}
  BY <1>1, <1>2, SetOfEmpty
<1> HIDE DEF n
<1> QED
  BY <1>1, <1>2, <1>5, <1>6, <1>7, <1>8, <1>9, <1>10 DEF PmmInv

\* Paging is switched on.
LEMMA PagingActiveStep ==
  ASSUME PmmInv, PagingActive
  PROVE  PmmInv'
<1>1. /\ TypeOK /\ StackMapped /\ ~pmm_paging_active /\ entry = 0
      /\ Cardinality(used) = BootPages /\ pmm_location = BootPage(Cardinality(used))
  BY DEF PmmInv, PagingActive
<1>2. /\ pmm_paging_active' = TRUE
      /\ UNCHANGED <<mmap, pmm_location, stack, backing, used, popped, torn, entry, j, fault>>
  BY DEF PagingActive, collect, pop
<1>3. TypeOK' /\ StackMapped'
  BY <1>1, <1>2 DEF TypeOK, StackMapped
<1> QED
  BY <1>1, <1>2, <1>3 DEF PmmInv

\* pmm_alloc_page() from the stack.
LEMMA AllocStep ==
  ASSUME PmmInv, pmm_alloc_page, ~panic
  PROVE  PmmInv'
<1>1. TypeOK /\ StackMapped /\ entry > Len(mmap) /\ stack # << >>
  BY DEF PmmInv, pmm_alloc_page
<1>2. /\ popped' = {Last(stack)} /\ stack' = Front(stack)
      /\ UNCHANGED <<mmap, pmm_location, pmm_paging_active, backing, used, torn,
                     entry, j, fault>>
  BY <1>1 DEF pmm_alloc_page, table, collect
<1>3. Len(mmap) \in Nat /\ entry \in Nat /\ stack \in Seq(Page) /\ backing \in Seq(Page)
  BY <1>1, Types DEF TypeOK
<1>4. /\ stack' \in Seq(Page) /\ Len(stack') = Len(stack) - 1 /\ popped' \subseteq Page
      /\ ToSet(stack) = ToSet(stack') \cup {Last(stack)}
  BY <1>1, <1>2, <1>3, SetOfPopped
<1>5. popped' \subseteq 0 .. Word - 1
  BY <1>4 DEF Page
<1>6. TypeOK'
  BY <1>1, <1>2, <1>4, <1>5 DEF TypeOK
<1>7. StackMapped'
  <2>1. Len(backing) \in Nat /\ Len(stack) \in Nat
    BY <1>3
  <2> QED
    BY <1>1, <1>2, <1>4, <2>1, Room DEF StackMapped
<1>8. entry # 0 /\ ~(entry <= Len(mmap))
  BY <1>1, <1>3
<1> QED
  BY <1>2, <1>4, <1>6, <1>7, <1>8 DEF PmmInv

\* Its end: nothing was pushed meanwhile, so what it returns is a page.
LEMMA ReturnStep ==
  ASSUME PmmInv, ReturnPopped
  PROVE  PmmInv'
<1>1. TypeOK /\ StackMapped /\ popped # {} /\ popped \subseteq Page
  BY DEF PmmInv, ReturnPopped, Running
<1>2. /\ used' = used \cup popped /\ popped' = {}
      /\ UNCHANGED <<mmap, pmm_location, pmm_paging_active, stack, backing, torn,
                     entry, j, fault>>
  BY DEF ReturnPopped, table, collect
<1>3. ~(entry <= Len(mmap))
  BY <1>1 DEF PmmInv
<1>4. entry # 0
  BY <1>1, <1>3, Types
<1>5. TypeOK' /\ StackMapped'
  BY <1>1, <1>2 DEF TypeOK, StackMapped
<1> QED
  BY <1>2, <1>3, <1>4, <1>5 DEF PmmInv

\* pmm_free_page(), wherever it comes: of what it leaves on the stack, all is
\* behind the kernel.
LEMMA FreeStep ==
  ASSUME PmmInv, NEW p \in used, Running, entry > Len(mmap),
         Free(p) \/ UNCHANGED <<stack, backing>>,
         used' = used \ {p}, popped' \subseteq 0 .. Word - 1, torn' \in BOOLEAN,
         torn' \/ popped' = popped,
         UNCHANGED <<mmap, pmm_location, pmm_paging_active, entry, j, fault>>
  PROVE  PmmInv'
<1>1. TypeOK /\ StackMapped /\ p \in Page
  BY DEF PmmInv, TypeOK
<1>2. Len(mmap) \in Nat /\ entry \in Nat
  BY <1>1, Types
<1>3. stack \in Seq(Page) /\ backing \in Seq(Page) /\ pmm_location \in Page
  BY <1>1 DEF TypeOK
<1>4. /\ stack' \in Seq(Page) /\ backing' \in Seq(Page) /\ StackMapped'
      /\ \A q \in ToSet(stack') \cup ToSet(backing') :
           q \in ToSet(stack) \cup ToSet(backing) \/ (q = p /\ p >= pmm_location)
  <2>1. CASE Free(p)
    BY <1>1, <1>3, <2>1, Freed
  <2>2. CASE UNCHANGED <<stack, backing>>
    BY <1>1, <1>3, <2>2 DEF StackMapped
  <2> QED
    BY <2>1, <2>2
<1>5. TypeOK'
  BY <1>1, <1>4 DEF TypeOK
<1>6. entry # 0 /\ ~(entry <= Len(mmap))
  BY <1>2
<1>7. \A q \in ToSet(stack') \cup ToSet(backing') : q >= pmm_location'
  BY <1>4 DEF PmmInv
<1>8. ~torn' => popped' \subseteq Page
  BY DEF PmmInv, Running
<1> QED
  BY <1>4, <1>5, <1>6, <1>7, <1>8 DEF PmmInv

\* What a release inside of pmm_alloc_page() changes.
LEMMA PushInPopFacts ==
  ASSUME PmmInv, NEW p \in used, PushInPop(p)
  PROVE  /\ Running /\ entry > Len(mmap) /\ (Free(p) \/ UNCHANGED <<stack, backing>>)
         /\ used' = used \ {p} /\ popped' \subseteq 0 .. Word - 1 /\ torn' = TRUE
         /\ UNCHANGED <<mmap, pmm_location, pmm_paging_active, entry, j, fault>>
<1>1. popped \subseteq 0 .. Word - 1 /\ Len(mmap) \in Nat /\ entry \in Nat
  BY Types DEF PmmInv, TypeOK
<1>2. entry > Len(mmap)
  <2>1. popped # {}
    BY DEF PushInPop
  <2>2. ~(entry <= Len(mmap))
    BY <2>1 DEF PmmInv
  <2> QED
    BY <1>1, <2>2
<1>3. Free(p) \/ UNCHANGED <<stack, backing>>
  BY DEF PushInPop, Free
<1> QED
  BY <1>1, <1>2, <1>3 DEF PushInPop, table, collect

\* One page of an entry of the map.
LEMMA CollectPageStep ==
  ASSUME PmmInv, CollectPage, ~panic
  PROVE  PmmInv'
<1> DEFINE p == RoundDown(j)
<1>1. TypeOK /\ StackMapped /\ entry \in 1 .. Len(mmap)
  BY DEF PmmInv, CollectPage
<1>2. /\ Free(p) /\ j' = (j + PAGE_SIZE) % Word
      /\ UNCHANGED <<mmap, pmm_location, pmm_paging_active, used, popped, torn, entry, fault>>
  BY DEF CollectPage, table, pop
<1>3. j \in Nat /\ j < Word /\ Len(mmap) \in Nat /\ entry \in Nat
  BY <1>1, Types
<1>4. stack \in Seq(Page) /\ backing \in Seq(Page) /\ pmm_location \in Page /\ p \in Page
  BY <1>1, <1>3, RoundDownIsPage DEF TypeOK
<1> HIDE DEF p
<1>5. /\ stack' \in Seq(Page) /\ backing' \in Seq(Page) /\ StackMapped'
      /\ \A q \in ToSet(stack') \cup ToSet(backing') :
           q \in ToSet(stack) \cup ToSet(backing) \/ (q = p /\ p >= pmm_location)
  BY <1>1, <1>2, <1>4, Freed
<1>6. j' \in 0 .. Word - 1
  <2>1. j + PAGE_SIZE \in Nat /\ Word \in Nat \ {0}
    BY <1>3, Constants
  <2> QED
    BY <1>2, <2>1, Quotient
<1>7. TypeOK'
  BY <1>1, <1>2, <1>5, <1>6 DEF TypeOK
<1>8. entry # 0
  BY <1>1, <1>3
<1>9. \A q \in ToSet(stack') \cup ToSet(backing') : q >= pmm_location'
  BY <1>2, <1>5 DEF PmmInv
<1> QED
  BY <1>2, <1>5, <1>7, <1>8, <1>9 DEF PmmInv

\* The next entry of the map.
LEMMA EnterEntryStep ==
  ASSUME PmmInv, pmm_paging_active, NEW i \in 1 .. Len(mmap) + 1, EnterEntry(i),
         i - 1 = entry,
         UNCHANGED <<mmap, pmm_location, pmm_paging_active, stack, backing, used,
                     popped, torn, fault>>
  PROVE  PmmInv'
<1>1. TypeOK /\ StackMapped /\ entry \in Nat /\ Len(mmap) \in Nat
  BY Types DEF PmmInv
<1>2. j' \in 0 .. Word - 1
  <2>1. CASE i <= Len(mmap)
    <3>1. mmap[i].base \in Nat
      BY <1>1, <2>1, EntryTypes
    <3>2. mmap[i].base % Word \in 0 .. Word - 1
      BY <3>1, Quotient, Constants
    <3> QED
      BY <2>1, <3>2 DEF EnterEntry, Low
  <2>2. CASE ~(i <= Len(mmap))
    BY <2>2, Constants DEF EnterEntry
  <2> QED
    BY <2>1, <2>2
<1>3. entry' = i
  BY DEF EnterEntry
<1>4. TypeOK'
  BY <1>1, <1>2, <1>3 DEF TypeOK
<1>5. StackMapped'
  BY <1>1 DEF StackMapped
<1>6. entry' # 0 /\ (entry' <= Len(mmap) => entry <= Len(mmap))
  BY <1>1, <1>3
<1> QED
  BY <1>3, <1>4, <1>5, <1>6 DEF PmmInv

\* Steps that leave the variables alone.
LEMMA PmmUnchanged ==
  ASSUME PmmInv,
         UNCHANGED <<mmap, pmm_location, pmm_paging_active, stack, backing, used,
                     popped, torn, entry, j>>,
         fault' \in BOOLEAN
  PROVE  PmmInv'
<1>1. TypeOK' /\ StackMapped'
  BY DEF PmmInv, TypeOK, StackMapped
<1> QED
  BY <1>1 DEF PmmInv

\* Every step keeps the invariant.
LEMMA PmmStep == PmmInv /\ [Next]_vars => PmmInv'
<1> SUFFICES ASSUME PmmInv, [Next]_vars PROVE PmmInv'
  OBVIOUS
<1>1. CASE panic
  BY <1>1, PmmUnchanged DEF panic, table, collect, pop
<1>2. CASE UNCHANGED vars
  <2>1. fault' \in BOOLEAN
    BY <1>2 DEF PmmInv, TypeOK, vars
  <2> QED
    BY <1>2, <2>1, PmmUnchanged DEF vars, table, collect, pop
<1>3. CASE CollectStart
  <2>1. /\ entry = 0 /\ EnterEntry(1) /\ pmm_paging_active
        /\ UNCHANGED <<mmap, pmm_location, pmm_paging_active, stack, backing, used,
                       popped, torn, fault>>
    BY <1>3 DEF CollectStart, table, pop
  <2>2. Len(mmap) \in Nat
    BY Types DEF PmmInv
  <2>3. 1 \in 1 .. Len(mmap) + 1 /\ 1 - 1 = entry
    BY <2>1, <2>2
  <2> QED
    BY <2>1, <2>3, EnterEntryStep
<1>4. CASE CollectNext
  <2>1. /\ entry \in 1 .. Len(mmap) /\ EnterEntry(entry + 1)
        /\ UNCHANGED <<mmap, pmm_location, pmm_paging_active, stack, backing, used,
                       popped, torn, fault>>
    BY <1>4 DEF CollectNext, table, pop
  <2>2. Len(mmap) \in Nat /\ entry \in Nat
    BY Types DEF PmmInv
  <2>3. entry + 1 \in 1 .. Len(mmap) + 1 /\ (entry + 1) - 1 = entry /\ entry # 0
    BY <2>1, <2>2
  <2>4. pmm_paging_active
    BY <2>3 DEF PmmInv
  <2> QED
    BY <2>1, <2>3, <2>4, EnterEntryStep
<1>5. CASE ~panic /\ (BootAlloc \/ PagingActive \/ CollectPage \/ pmm_alloc_page
                       \/ ReturnPopped)
  BY <1>5, BootAllocStep, PagingActiveStep, CollectPageStep, AllocStep, ReturnStep
<1>6. ASSUME NEW p \in used, pmm_free_page(p), ~panic
      PROVE  PmmInv'
  <2>1. /\ Running /\ entry > Len(mmap) /\ Free(p) /\ used' = used \ {p}
        /\ UNCHANGED <<mmap, pmm_location, pmm_paging_active, popped, torn, entry, j, fault>>
    BY <1>6 DEF pmm_free_page, table, collect, pop
  <2>2. popped' \subseteq 0 .. Word - 1 /\ torn' \in BOOLEAN
    BY <2>1 DEF PmmInv, TypeOK
  <2> QED
    BY <2>1, <2>2, FreeStep
<1>7. ASSUME NEW p \in used, PushInPop(p)
      PROVE  PmmInv'
  BY <1>7, PushInPopFacts, FreeStep
<1> QED
  BY <1>1, <1>2, <1>3, <1>4, <1>5, <1>6, <1>7 DEF Next, pmm_collect_pages, Halted

\* So it always holds.
LEMMA PmmSafe == Spec => []PmmInv
BY PmmInit, PmmStep, PTL DEF Spec

\* The words below pmm_stack_loc are always in mapped pages, whatever the
\* memory map and however the stack grows by the pages that are given back.
THEOREM StackIsMapped == Spec => []StackMapped
<1>1. PmmInv => StackMapped
  BY DEF PmmInv
<1> QED
  BY <1>1, PmmSafe, PTL

\* Everything on the stack lies behind the kernel.
LEMMA KeptByInv == PmmInv => KernelKept
<1> SUFFICES ASSUME PmmInv, NEW p \in ToSet(stack) \cup ToSet(backing)
             PROVE  p >= BootPage(BootPages)
  BY DEF KernelKept, BootPage
<1>1. entry # 0
  BY SetOfEmpty DEF PmmInv
<1>2. pmm_location = BootPage(BootPages)
  BY <1>1 DEF PmmInv
<1> QED
  BY <1>2 DEF PmmInv

\* pmm.c:39: no page of the kernel, the ramdisk or the boot is ever on the
\* stack of free pages or holds it, whatever the memory map says.
THEOREM KernelIsKept == Spec => []KernelKept
BY PmmSafe, KeptByInv, PTL

-----------------------------------------------------------------------------
(* One owner for every page                                                *)

Covers(i, p) ==
  mmap[i].type = 1 /\ mmap[i].base <= p /\ p < mmap[i].base + mmap[i].length

\* pmm_collect_pages() has passed the page p.
Read(p) ==
  \E i \in 1 .. Len(mmap) : Covers(i, p) /\ (i < entry \/ (i = entry /\ p < j))

Owned == ToSet(stack) \cup ToSet(backing) \cup used \cup popped

\* The pages behind the kernel that have an owner are those of the map that
\* pmm_collect_pages() has passed, each once.
OwnerInv ==
  /\ ~torn /\ PagesOnce
  /\ entry \in 1 .. Len(mmap) =>
       (mmap[entry].type = 1 => j % PAGE_SIZE = 0 /\ mmap[entry].base <= j)
  /\ \A p \in Page : p >= pmm_location => (p \in Owned <=> Read(p))

OwnerSafe == torn \/ OwnerInv

\* What a map of whole pages says of one entry: the code reads its bounds
\* without losing a bit.
LEMMA RamEntry ==
  ASSUME WholePages, TypeOK, NEW i \in 1 .. Len(mmap), mmap[i].type = 1
  PROVE  /\ mmap[i].base % PAGE_SIZE = 0
         /\ \/ (mmap[i].base + mmap[i].length) % PAGE_SIZE = 0
            \/ mmap[i].base + mmap[i].length <= pmm_start
         /\ mmap[i].base + mmap[i].length < Word
         /\ Low(mmap[i].base) = mmap[i].base
         /\ Limit(mmap[i]) = mmap[i].base + mmap[i].length
         /\ \A k \in 1 .. Len(mmap) : k # i /\ mmap[k].type = 1 =>
              \/ mmap[i].base + mmap[i].length <= mmap[k].base
              \/ mmap[k].base + mmap[k].length <= mmap[i].base
<1> USE Constants
<1> DEFINE b == mmap[i].base
           n == mmap[i].length
<1>1. i \in DOMAIN mmap /\ b \in Nat /\ n \in Nat
  BY EntryTypes
<1>2. mmap \in Maps
  BY DEF TypeOK
<1>3. /\ b % PAGE_SIZE = 0
      /\ n % PAGE_SIZE = 0 \/ b + n <= pmm_start
      /\ b + n < Word
      /\ \A k \in DOMAIN mmap \ {i} : mmap[k].type = 1 =>
           \/ b + n <= mmap[k].base
           \/ mmap[k].base + mmap[k].length <= b
  BY <1>1, <1>2, Zenon DEF WholePages
<1>4. \A k \in 1 .. Len(mmap) : k \in DOMAIN mmap
  BY EntryTypes
<1> HIDE DEF b, n
<1>5. b \in 0 .. Word - 1 /\ n \in 0 .. Word - 1 /\ b + n \in 0 .. Word - 1
  BY <1>1, <1>3
<1>6. b % Word = b /\ n % Word = n /\ (b + n) % Word = b + n
  BY <1>5, SmallMod
<1>7. (b + n) % PAGE_SIZE = 0 \/ b + n <= pmm_start
  BY <1>1, <1>3, AddAligned
<1>8. Low(b) = b /\ Low(n) = n
  BY <1>6 DEF Low
<1>9. Limit(mmap[i]) = b + n
  BY <1>6, <1>8 DEF Limit, b, n
<1>10. \A k \in 1 .. Len(mmap) : k # i /\ mmap[k].type = 1 =>
              \/ b + n <= mmap[k].base
              \/ mmap[k].base + mmap[k].length <= b
  BY <1>3, <1>4
<1> QED
  BY <1>3, <1>7, <1>8, <1>9, <1>10 DEF b, n

\* No page has been collected yet.
LEMMA OwnerInit == Init => OwnerInv
<1> SUFFICES ASSUME Init PROVE OwnerInv
  OBVIOUS
<1>1. /\ stack = << >> /\ backing = << >> /\ used = {} /\ popped = {} /\ entry = 0
      /\ Len(mmap) \in Nat /\ ~torn
  BY PmmInit, Types DEF Init, PmmInv
<1>2. PagesOnce /\ ~torn
  BY <1>1, SetOfEmpty DEF PagesOnce
<1>3. \A p : ~Read(p)
  BY <1>1 DEF Read
<1>4. Owned = {}
  BY <1>1, SetOfEmpty DEF Owned
<1>5. entry \notin 1 .. Len(mmap)
  BY <1>1
<1> QED
  BY <1>2, <1>3, <1>4, <1>5 DEF OwnerInv

\* Steps that move no page.
LEMMA OwnerUnchanged ==
  ASSUME OwnerInv,
         UNCHANGED <<mmap, pmm_location, stack, backing, used, popped, torn, entry, j>>
  PROVE  OwnerInv'
<1>1. \A p : Read(p)' <=> Read(p)
  BY DEF Read, Covers
<1>2. PagesOnce' /\ Owned' = Owned
  BY DEF OwnerInv, PagesOnce, Owned
<1> QED
  BY <1>1, <1>2 DEF OwnerInv

\* Boot: the pages taken lie before pmm_location.
LEMMA OwnerBoot ==
  ASSUME PmmInv, OwnerInv, BootAlloc
  PROVE  OwnerInv'
<1>1. PmmInv'
  BY PmmStep DEF Next
<1>2. /\ stack = << >> /\ backing = << >> /\ entry = 0 /\ Len(mmap) \in Nat
      /\ popped = {} /\ ~torn
      /\ UNCHANGED <<mmap, stack, backing, popped, torn, entry, j>>
  BY Types DEF PmmInv, BootAlloc, Running, collect, pop
<1>3. \A p \in used' : p < pmm_location' /\ p \in Nat /\ pmm_location' \in Nat
  <2>1. \A p \in used' : p < pmm_location'
    BY <1>1, <1>2 DEF PmmInv
  <2>2. used' \subseteq Page /\ pmm_location' \in Page
    BY <1>1 DEF PmmInv, TypeOK
  <2> QED
    BY <2>1, <2>2 DEF Page
<1>4. ToSet(stack') = {} /\ ToSet(backing') = {} /\ PagesOnce' /\ ~torn'
  BY <1>2, SetOfEmpty DEF PagesOnce
<1>5. \A p : ~Read(p)'
  BY <1>2 DEF Read
<1>6. \A p \in Page : p >= pmm_location' => p \notin Owned'
  BY <1>2, <1>3, <1>4 DEF Owned
<1>7. entry' \notin 1 .. Len(mmap')
  BY <1>2
<1> QED
  BY <1>4, <1>5, <1>6, <1>7 DEF OwnerInv

\* A page comes off the stack.
LEMMA OwnerAlloc ==
  ASSUME PmmInv, OwnerInv, pmm_alloc_page, ~panic
  PROVE  OwnerInv'
<1>1. stack # << >> /\ stack \in Seq(Page)
  BY DEF pmm_alloc_page, PmmInv, TypeOK
<1>2. /\ popped = {} /\ popped' = {Last(stack)} /\ stack' = Front(stack)
      /\ UNCHANGED <<mmap, pmm_location, backing, used, torn, entry, j>>
  BY <1>1 DEF pmm_alloc_page, table, collect
<1>3. /\ ToSet(stack) = ToSet(stack') \cup {Last(stack)}
      /\ IsInjective(stack') /\ Last(stack) \notin ToSet(stack')
  BY <1>1, <1>2, SetOfPopped DEF OwnerInv, PagesOnce
<1>4. PagesOnce' /\ Owned' = Owned
  BY <1>2, <1>3 DEF OwnerInv, PagesOnce, Owned
<1>5. \A p : Read(p)' <=> Read(p)
  BY <1>2 DEF Read, Covers
<1> QED
  BY <1>2, <1>4, <1>5 DEF OwnerInv

\* It gets a holder.
LEMMA OwnerReturn ==
  ASSUME OwnerInv, ReturnPopped
  PROVE  OwnerInv'
<1>1. /\ used' = used \cup popped /\ popped' = {}
      /\ UNCHANGED <<mmap, pmm_location, stack, backing, torn, entry, j>>
  BY DEF ReturnPopped, table, collect
<1>2. PagesOnce' /\ Owned' = Owned
  BY <1>1 DEF OwnerInv, PagesOnce, Owned
<1>3. \A p : Read(p)' <=> Read(p)
  BY <1>1 DEF Read, Covers
<1> QED
  BY <1>1, <1>2, <1>3 DEF OwnerInv

\* A page that goes to the stack, or under it, and had no owner there.
LEMMA FreedOnce ==
  ASSUME PmmInv, PagesOnce, ~torn, NEW p \in Page, Free(p), used' \subseteq used,
         UNCHANGED <<popped, torn>>,
         p >= pmm_location =>
           p \notin ToSet(stack) \cup ToSet(backing) \cup used' \cup popped
  PROVE  /\ PagesOnce'
         /\ \A q : q \in ToSet(stack') \cup ToSet(backing') <=>
                     \/ q \in ToSet(stack) \cup ToSet(backing)
                     \/ q = p /\ p >= pmm_location
<1>1. stack \in Seq(Page) /\ backing \in Seq(Page) /\ pmm_location \in Page /\ StackMapped
  BY DEF PmmInv, TypeOK
<1>2. CASE p < pmm_location /\ stack' = stack /\ backing' = backing
  BY <1>1, <1>2 DEF PagesOnce, Page
<1>3. CASE /\ p >= pmm_location /\ stack' = Append(stack, p) /\ backing' = backing
           /\ ToSet(stack') = ToSet(stack) \cup {p}
  <2>1. IsInjective(stack')
    BY <1>1, <1>3, SetOfPushed DEF PagesOnce
  <2> QED
    BY <1>3, <2>1 DEF PagesOnce
<1>4. CASE /\ p >= pmm_location /\ backing' = Append(backing, p) /\ stack' = stack
           /\ ToSet(backing') = ToSet(backing) \cup {p}
  <2>1. IsInjective(backing')
    BY <1>1, <1>4, SetOfPushed DEF PagesOnce
  <2> QED
    BY <1>4, <2>1 DEF PagesOnce
<1> QED
  BY <1>1, <1>2, <1>3, <1>4, Freed

\* A page that comes back loses it.
LEMMA OwnerFree ==
  ASSUME PmmInv, OwnerInv, NEW p \in used, pmm_free_page(p), ~panic
  PROVE  OwnerInv'
<1>1. /\ Free(p) /\ used' = used \ {p}
      /\ UNCHANGED <<mmap, pmm_location, popped, torn, entry, j>>
  BY DEF pmm_free_page, table, collect, pop
<1>2. /\ p \in Page /\ PagesOnce /\ ~torn
      /\ p \notin ToSet(stack) \cup ToSet(backing) \cup popped
  BY DEF PmmInv, TypeOK, OwnerInv, PagesOnce
<1>3. /\ PagesOnce'
      /\ \A q : q \in ToSet(stack') \cup ToSet(backing') <=>
                  \/ q \in ToSet(stack) \cup ToSet(backing)
                  \/ q = p /\ p >= pmm_location
  <2>1. used' \subseteq used /\ p \notin used'
    BY <1>1
  <2> QED
    BY <1>1, <1>2, <2>1, FreedOnce
<1>4. \A q : q >= pmm_location => (q \in Owned' <=> q \in Owned)
  BY <1>1, <1>3 DEF Owned
<1>5. \A q : Read(q)' <=> Read(q)
  BY <1>1 DEF Read, Covers
<1> QED
  BY <1>1, <1>3, <1>4, <1>5 DEF OwnerInv

\* In a map of whole pages pmm_collect_pages() gives back the page at j, which
\* no entry before has covered.
LEMMA OwnerCollect ==
  ASSUME WholePages, PmmInv, OwnerInv, CollectPage, ~panic
  PROVE  OwnerInv'
<1> USE Constants
<1> DEFINE b == mmap[entry].base
           l == b + mmap[entry].length
<1>1. /\ TypeOK /\ entry \in 1 .. Len(mmap) /\ Len(mmap) \in Nat /\ entry \in Nat
      /\ j \in Nat /\ j < Word /\ pmm_location \in Nat
      /\ \A q \in Page : q \in Nat /\ q % PAGE_SIZE = 0
  BY Types DEF PmmInv, CollectPage
<1>2. b \in Nat /\ l \in Nat
  BY <1>1, EntryTypes
<1>3. mmap[entry].type = 1 /\ j < Limit(mmap[entry])
  BY DEF CollectPage, InEntry
<1>4. /\ b % PAGE_SIZE = 0 /\ (l % PAGE_SIZE = 0 \/ l <= pmm_start) /\ l < Word
      /\ j < l
      /\ \A k \in 1 .. Len(mmap) : k # entry /\ mmap[k].type = 1 =>
           l <= mmap[k].base \/ mmap[k].base + mmap[k].length <= b
  BY <1>1, <1>3, RamEntry
<1>5. b <= j /\ j % PAGE_SIZE = 0
  BY <1>1, <1>3 DEF OwnerInv
<1> HIDE DEF b, l
<1>6. RoundDown(j) = j
  BY <1>1, <1>5 DEF RoundDown
<1>7. j \in Page
  BY <1>1, <1>6, RoundDownIsPage
<1>8. j + PAGE_SIZE < Word
  <2>1. CASE l % PAGE_SIZE = 0
    <3>1. j + PAGE_SIZE <= l
      BY <1>1, <1>2, <1>4, <1>5, <2>1, NextAligned
    <3> QED
      BY <1>1, <1>2, <1>4, <3>1
  <2>2. CASE l <= pmm_start
    <3>1. BootPage(0) > pmm_start /\ BootPage(1) = BootPage(0) + PAGE_SIZE
          /\ BootPage(1) \in Page /\ BootPage(0) \in Page
      BY BootPageIsPage
    <3>2. BootPage(1) < Word /\ BootPage(0) \in Nat
      BY <3>1 DEF Page
    <3> HIDE DEF BootPage
    <3> QED
      BY <1>1, <1>2, <1>4, <2>2, <3>1, <3>2
  <2> QED
    BY <1>4, <2>1, <2>2
<1>9. /\ Free(j) /\ j' = j + PAGE_SIZE
      /\ UNCHANGED <<mmap, pmm_location, used, popped, torn, entry>>
  <2>1. /\ Free(j) /\ j' = (j + PAGE_SIZE) % Word
        /\ UNCHANGED <<mmap, pmm_location, used, popped, torn, entry>>
    BY <1>6 DEF CollectPage, table, pop
  <2>2. j + PAGE_SIZE \in 0 .. Word - 1
    BY <1>1, <1>8
  <2> QED
    BY <2>1, <2>2, SmallMod
<1>10. Covers(entry, j)
  BY <1>3, <1>4, <1>5 DEF Covers, b, l
<1>11. \A k \in 1 .. Len(mmap) : k # entry => ~Covers(k, j)
  <2> SUFFICES ASSUME NEW k \in 1 .. Len(mmap), k # entry, Covers(k, j)
               PROVE  FALSE
    OBVIOUS
  <2>1. mmap[k].type = 1 /\ mmap[k].base <= j /\ j < mmap[k].base + mmap[k].length
    BY DEF Covers
  <2>2. mmap[k].base \in Nat /\ mmap[k].length \in Nat
    BY <1>1, EntryTypes
  <2>3. l <= mmap[k].base \/ mmap[k].base + mmap[k].length <= b
    BY <1>4, <2>1
  <2> QED
    BY <1>1, <1>2, <1>4, <1>5, <2>1, <2>2, <2>3
<1>12. ~Read(j)
  <2>1. ~(j < j)
    BY <1>1
  <2>2. \A k \in 1 .. Len(mmap) : k = entry => ~(k < entry)
    BY <1>1
  <2> QED
    BY <1>11, <2>1, <2>2 DEF Read
<1>13. \A q \in Page : Read(q)' <=> (Read(q) \/ q = j)
  <2> SUFFICES ASSUME NEW q \in Page
               PROVE  Read(q)' <=> (Read(q) \/ q = j)
    OBVIOUS
  <2>1. q \in Nat /\ q % PAGE_SIZE = 0
    BY <1>1
  <2>2. q < j' <=> (q < j \/ q = j)
    <3>1. j < q => j + PAGE_SIZE <= q
      BY <1>1, <1>5, <2>1, NextAligned
    <3> QED
      BY <1>1, <1>9, <2>1, <3>1
  <2>3. \A i : Covers(i, q)' <=> Covers(i, q)
    BY <1>9 DEF Covers
  <2> QED
    BY <1>1, <1>9, <1>10, <2>2, <2>3 DEF Read
<1>14. j >= pmm_location => j \notin Owned
  BY <1>7, <1>12 DEF OwnerInv
<1>15. /\ PagesOnce'
       /\ \A q : q \in ToSet(stack') \cup ToSet(backing') <=>
                   \/ q \in ToSet(stack) \cup ToSet(backing)
                   \/ q = j /\ j >= pmm_location
  <2>1. PagesOnce /\ ~torn /\ used' = used
    BY <1>9 DEF OwnerInv
  <2>2. j >= pmm_location =>
          j \notin ToSet(stack) \cup ToSet(backing) \cup used' \cup popped
    BY <1>14, <2>1 DEF Owned
  <2> QED
    BY <1>7, <1>9, <2>1, <2>2, FreedOnce
<1>16. \A q \in Page : q >= pmm_location' => (q \in Owned' <=> Read(q)')
  BY <1>9, <1>13, <1>15 DEF Owned, OwnerInv
<1>17. j' % PAGE_SIZE = 0 /\ b <= j'
  <2>1. PAGE_SIZE % PAGE_SIZE = 0
    <3>1. PAGE_SIZE = 1 * PAGE_SIZE
      OBVIOUS
    <3> QED
      BY <3>1, Multiple
  <2>2. (j + PAGE_SIZE) % PAGE_SIZE = 0
    BY <1>1, <1>5, <2>1, AddAligned
  <2>3. b <= j + PAGE_SIZE
    BY <1>1, <1>2, <1>5
  <2> QED
    BY <1>9, <2>2, <2>3
<1> QED
  BY <1>9, <1>15, <1>16, <1>17 DEF OwnerInv, b

\* The pages of an entry begin where those of the entries before end.
LEMMA OwnerEnter ==
  ASSUME WholePages, PmmInv, OwnerInv, NEW i \in 1 .. Len(mmap) + 1, EnterEntry(i),
         i - 1 = entry, entry \in 1 .. Len(mmap) => ~InEntry(mmap[entry]),
         UNCHANGED <<mmap, pmm_location, stack, backing, used, popped, torn>>
  PROVE  OwnerInv'
<1> USE Constants
<1>1. TypeOK /\ Len(mmap) \in Nat /\ entry \in Nat /\ j \in Nat
  BY Types DEF PmmInv
<1>2. entry' = i /\ (i <= Len(mmap) => j' = Low(mmap[i].base))
  BY DEF EnterEntry
<1>3. PagesOnce' /\ Owned' = Owned
  BY DEF OwnerInv, PagesOnce, Owned
<1>4. ASSUME NEW p \in Page
      PROVE  Read(p)' <=> Read(p)
  <2>1. p \in Nat
    BY <1>1, Types
  <2>2. \A k : Covers(k, p)' <=> Covers(k, p)
    BY DEF Covers
  <2>3. ASSUME NEW k \in 1 .. Len(mmap), Covers(k, p), k = entry
        PROVE  p < j
    <3>1. mmap[k].type = 1 /\ p < mmap[k].base + mmap[k].length
      BY <2>3 DEF Covers
    <3>2. Limit(mmap[k]) = mmap[k].base + mmap[k].length
      BY <1>1, <3>1, RamEntry
    <3>3. ~(j < Limit(mmap[k]))
      BY <2>3, <3>1 DEF InEntry
    <3>4. mmap[k].base \in Nat /\ mmap[k].length \in Nat
      BY <1>1, EntryTypes
    <3> QED
      BY <1>1, <2>1, <3>1, <3>2, <3>3, <3>4
  <2>4. ASSUME NEW k \in 1 .. Len(mmap), Covers(k, p), k = i
        PROVE  ~(p < j')
    <3>1. mmap[k].type = 1 /\ mmap[k].base <= p
      BY <2>4 DEF Covers
    <3>2. Low(mmap[k].base) = mmap[k].base /\ mmap[k].base \in Nat
      BY <1>1, <3>1, RamEntry, EntryTypes
    <3>3. j' = mmap[k].base
      BY <1>1, <1>2, <2>4, <3>2
    <3> QED
      BY <2>1, <3>1, <3>2, <3>3
  <2>5. \A k \in 1 .. Len(mmap) : Covers(k, p) =>
          ((k < i \/ (k = i /\ p < j')) <=> (k < entry \/ (k = entry /\ p < j)))
    BY <1>1, <2>3, <2>4
  <2> QED
    BY <1>2, <2>2, <2>5 DEF Read
<1>5. entry' \in 1 .. Len(mmap) =>
        (mmap[entry'].type = 1 => j' % PAGE_SIZE = 0 /\ mmap[entry'].base <= j')
  <2> SUFFICES ASSUME i \in 1 .. Len(mmap), mmap[i].type = 1
               PROVE  j' % PAGE_SIZE = 0 /\ mmap[i].base <= j'
    BY <1>2
  <2>1. j' = mmap[i].base /\ mmap[i].base \in Nat /\ mmap[i].base % PAGE_SIZE = 0
    BY <1>1, <1>2, RamEntry, EntryTypes
  <2> QED
    BY <2>1
<1> QED
  BY <1>3, <1>4, <1>5 DEF OwnerInv

\* Every step keeps the owners.
LEMMA OwnerStep ==
  ASSUME WholePages
  PROVE  PmmInv /\ OwnerSafe /\ [Next]_vars => OwnerSafe'
<1>0. torn /\ [Next]_vars => torn'
  BY DEF Next, Running, Halted, BootAlloc, PagingActive, pmm_collect_pages, CollectStart,
     CollectPage, CollectNext, pmm_alloc_page, ReturnPopped, pmm_free_page, PushInPop,
     vars, pop
<1> SUFFICES ASSUME PmmInv, OwnerInv, [Next]_vars PROVE torn' \/ OwnerInv'
  BY <1>0 DEF OwnerSafe
<1>1. CASE panic \/ UNCHANGED vars \/ PagingActive
  BY <1>1, OwnerUnchanged DEF panic, vars, PagingActive, table, collect, pop
<1>2. CASE CollectStart
  <2>1. /\ entry = 0 /\ EnterEntry(1)
        /\ UNCHANGED <<mmap, pmm_location, stack, backing, used, popped, torn>>
    BY <1>2 DEF CollectStart, table, pop
  <2>2. Len(mmap) \in Nat
    BY Types DEF PmmInv
  <2>3. 1 \in 1 .. Len(mmap) + 1 /\ 1 - 1 = entry /\ entry \notin 1 .. Len(mmap)
    BY <2>1, <2>2
  <2> QED
    BY WholePages, <2>1, <2>3, OwnerEnter
<1>3. CASE CollectNext
  <2>1. /\ entry \in 1 .. Len(mmap) /\ EnterEntry(entry + 1) /\ ~InEntry(mmap[entry])
        /\ UNCHANGED <<mmap, pmm_location, stack, backing, used, popped, torn>>
    BY <1>3 DEF CollectNext, table, pop
  <2>2. Len(mmap) \in Nat /\ entry \in Nat
    BY Types DEF PmmInv
  <2>3. entry + 1 \in 1 .. Len(mmap) + 1 /\ (entry + 1) - 1 = entry
    BY <2>1, <2>2
  <2> QED
    BY WholePages, <2>1, <2>3, OwnerEnter
<1>4. CASE /\ ~panic
           /\ \/ BootAlloc \/ CollectPage \/ pmm_alloc_page \/ ReturnPopped
              \/ \E p \in used : pmm_free_page(p)
  BY WholePages, <1>4, OwnerBoot, OwnerCollect, OwnerAlloc, OwnerReturn, OwnerFree
<1>5. CASE \E p \in used : PushInPop(p)
  BY <1>5 DEF PushInPop
<1> QED
  BY <1>1, <1>2, <1>3, <1>4, <1>5 DEF Next, pmm_collect_pages, Halted

\* Behind the kernel, to lie in an entry is to be a whole page of it.
LEMMA CoveredIsUsable ==
  ASSUME WholePages, TypeOK, NEW p \in Page, p > pmm_start, NEW i \in 1 .. Len(mmap)
  PROVE  Covers(i, p) <=>
           /\ mmap[i].type = 1 /\ mmap[i].base <= p
           /\ p + PAGE_SIZE <= mmap[i].base + mmap[i].length
<1> USE Constants
<1> DEFINE b == mmap[i].base
           l == b + mmap[i].length
<1>1. b \in Nat /\ l \in Nat /\ p \in Nat /\ p % PAGE_SIZE = 0
  <2>1. b \in Nat /\ mmap[i].length \in Nat
    BY EntryTypes
  <2>2. p \in Nat /\ p % PAGE_SIZE = 0
    BY Types
  <2> QED
    BY <2>1, <2>2
<1> SUFFICES ASSUME mmap[i].type = 1
             PROVE  p < l <=> p + PAGE_SIZE <= l
  BY DEF Covers
<1>2. l % PAGE_SIZE = 0 \/ l <= pmm_start
  BY RamEntry
<1> HIDE DEF b, l
<1>3. CASE l % PAGE_SIZE = 0
  <2>1. p < l => p + PAGE_SIZE <= l
    BY <1>1, <1>3, NextAligned
  <2> QED
    BY <1>1, <2>1
<1>4. CASE l <= pmm_start
  BY <1>1, <1>4
<1> QED
  BY <1>2, <1>3, <1>4

\* The owners are those the property asks for.
LEMMA AccountedByInv ==
  ASSUME WholePages
  PROVE  PmmInv /\ OwnerSafe => PagesAccounted
<1> SUFFICES ASSUME PmmInv, OwnerSafe PROVE PagesAccounted
  OBVIOUS
<1>0. CASE torn
  BY <1>0, KeptByInv DEF PmmInv, PagesAccounted, PagesOnce, PagesConserved, Running
<1> SUFFICES ASSUME OwnerInv PROVE PagesAccounted
  BY <1>0 DEF OwnerSafe
<1>1. TypeOK /\ KernelKept /\ PagesOnce /\ popped \subseteq Page
  BY KeptByInv DEF PmmInv, OwnerInv
<1>2. ASSUME entry > Len(mmap)
      PROVE  {p \in Page : Usable(p) /\ p >= pmm_location}
               = ToSet(stack) \cup ToSet(backing)
                 \cup {p \in used \cup popped : p >= pmm_location}
  <2>1. Len(mmap) \in Nat /\ entry \in Nat /\ pmm_location \in Nat
    BY <1>1, Types
  <2>2. pmm_location > pmm_start
    <3>1. pmm_paging_active /\ pmm_location = BootPage(BootPages)
      BY <1>2, <2>1 DEF PmmInv
    <3>2. BootPages \in 0 .. BootPages
      BY Constants
    <3> QED
      BY <3>1, <3>2, BootPageIsPage
  <2>3. ASSUME NEW p \in Page, p >= pmm_location
        PROVE  Usable(p) <=> Read(p)
    <3>1. p \in Nat /\ p > pmm_start /\ DOMAIN mmap = 1 .. Len(mmap)
      <4>1. p \in Nat
        BY <1>1, Types
      <4>2. DOMAIN mmap = 1 .. Len(mmap)
        BY <1>1, Types
      <4> QED
        BY <2>1, <2>2, <2>3, <4>1, <4>2, Constants
    <3>2. \A i \in 1 .. Len(mmap) :
            Covers(i, p) <=>
              /\ mmap[i].type = 1 /\ mmap[i].base <= p
              /\ p + PAGE_SIZE <= mmap[i].base + mmap[i].length
      BY WholePages, <1>1, <3>1, CoveredIsUsable
    <3>3. \A i \in 1 .. Len(mmap) : i < entry
      BY <1>2, <2>1
    <3> QED
      BY <3>1, <3>2, <3>3 DEF Usable, Read
  <2>4. ToSet(stack) \cup ToSet(backing) \cup used \cup popped \subseteq Page
    BY <1>1, SetOfSeq DEF TypeOK
  <2>5. \A p \in ToSet(stack) \cup ToSet(backing) : p >= pmm_location
    BY DEF PmmInv
  <2>6. \A p \in Page : p >= pmm_location =>
          (Usable(p) <=> p \in ToSet(stack) \cup ToSet(backing) \cup used \cup popped)
    BY <2>3 DEF OwnerInv, Owned
  <2> QED
    BY <2>4, <2>5, <2>6
<1>3. PagesConserved
  BY <1>2 DEF PagesConserved
<1> QED
  BY <1>1, <1>3 DEF PagesAccounted

\* pmm_collect_pages(), pmm_alloc_page() and pmm_free_page(): whatever the map
\* of whole pages, every usable page behind the kernel has one owner, up to the
\* first push that comes between the accesses of a pop.
THEOREM PagesAreAccounted ==
  ASSUME WholePages
  PROVE  Spec => []PagesAccounted
<1>1. Init => OwnerSafe
  BY OwnerInit DEF OwnerSafe
<1>2. PmmInv /\ OwnerSafe /\ [Next]_vars => OwnerSafe'
  BY WholePages, OwnerStep
<1>3. PmmInv /\ OwnerSafe => PagesAccounted
  BY WholePages, AccountedByInv
<1> QED
  BY <1>1, <1>2, <1>3, PmmSafe, PTL DEF Spec
=============================================================================
