---------------------------- MODULE KHeapProofs ----------------------------
(***************************************************************************)
(* Proofs about the kernel heap, for headers and pages of any size and any *)
(* sizes that are asked for, with kfree() between any two steps of         *)
(* kmalloc().                                                              *)
(***************************************************************************)
EXTENDS KHeap, TLAPS

(* Rounding up to whole pages                                              *)

\* What KHeapAssumption says, in the form the steps use.
LEMMA Constants ==
  /\ KHEAP_START \in Nat \ {0} /\ KHEAP_END \in Nat \ {0} /\ KHEAP_START < KHEAP_END
  /\ PAGE_SIZE \in Nat \ {0} /\ H \in Nat \ {0} /\ Size \subseteq Nat
BY KHeapAssumption

\* Division with a remainder.
LEMMA Quotient ==
  ASSUME NEW a \in Nat, NEW n \in Nat \ {0}
  PROVE  /\ a \div n \in Nat
         /\ a = (a \div n) * n + (a % n)
         /\ a % n \in 0 .. n - 1
<1>1. a \div n \in Nat
  BY SMT
<1>2. a = (a \div n) * n + (a % n)
  BY SMT
<1>3. a % n \in 0 .. n - 1
  BY SMT
<1> QED
  BY <1>1, <1>2, <1>3

\* The multiple of the page size that RoundUp returns is the next one.
LEMMA RoundedUp ==
  ASSUME NEW a \in Nat
  PROVE  /\ RoundUp(a) \in Nat
         /\ a <= RoundUp(a) /\ RoundUp(a) < a + PAGE_SIZE
         /\ \E k \in Nat : RoundUp(a) = k * PAGE_SIZE
<1> USE Constants
<1> DEFINE n == PAGE_SIZE
           b == a + n - 1
           k == b \div n
           r == b % n
<1>1. b \in Nat /\ n \in Nat \ {0}
  OBVIOUS
<1>2. k \in Nat /\ b = k * n + r /\ r \in 0 .. n - 1
  BY <1>1, Quotient
<1>3. RoundUp(a) = k * n
  BY DEF RoundUp
<1> HIDE DEF k, r
<1>4. k * n \in Nat
  BY <1>1, <1>2
<1>5. a <= k * n /\ k * n < a + n
  <2> DEFINE m == k * n
  <2>1. m \in Nat /\ b = m + r
    BY <1>2, <1>4
  <2> HIDE DEF m
  <2>2. a <= m /\ m < a + n
    BY <1>1, <1>2, <2>1
  <2> QED
    BY <2>2 DEF m
<1> QED
  BY <1>2, <1>3, <1>4, <1>5

\* Between a number and its rounding there is no other multiple.
LEMMA RoundUpLeast ==
  ASSUME NEW a \in Nat, NEW k \in Nat, a <= k * PAGE_SIZE
  PROVE  RoundUp(a) <= k * PAGE_SIZE
<1> DEFINE n == PAGE_SIZE
<1>1. PICK l \in Nat : RoundUp(a) = l * n
  BY RoundedUp
<1>2. n \in Nat \ {0} /\ l * n < a + n /\ a \in Nat /\ l * n \in Nat /\ k * n \in Nat
  BY <1>1, RoundedUp, Constants
<1> HIDE DEF n
<1>3. l * n < k * n + n
  BY <1>2 DEF n
<1>4. l <= k
  BY <1>2, <1>3
<1>5. l * n <= k * n
  BY <1>2, <1>4
<1> QED
  BY <1>1, <1>5 DEF n

\* RoundUp keeps the order of addresses.
LEMMA RoundUpMonotone ==
  ASSUME NEW a \in Nat, NEW b \in Nat, a <= b
  PROVE  RoundUp(a) <= RoundUp(b)
<1>1. PICK k \in Nat : RoundUp(b) = k * PAGE_SIZE
  BY RoundedUp
<1>2. a <= k * PAGE_SIZE
  BY <1>1, RoundedUp
<1> QED
  BY <1>1, <1>2, RoundUpLeast

\* RoundUp does not pass a page boundary that is not below its argument.
LEMMA RoundUpAligned ==
  ASSUME NEW a \in Nat, NEW b \in Nat, a <= b, b % PAGE_SIZE = 0
  PROVE  RoundUp(a) <= b
<1> USE Constants
<1> DEFINE k == b \div PAGE_SIZE
<1>1. k \in Nat /\ b = k * PAGE_SIZE
  BY Quotient
<1> HIDE DEF k
<1> QED
  BY <1>1, RoundUpLeast

\* RoundUp does not pass a rounded address either.
LEMMA RoundUpTwice ==
  ASSUME NEW a \in Nat, NEW b \in Nat, a <= RoundUp(b)
  PROVE  RoundUp(a) <= RoundUp(b)
<1>1. PICK k \in Nat : RoundUp(b) = k * PAGE_SIZE
  BY RoundedUp
<1> QED
  BY <1>1, RoundUpLeast

\* The heap starts at a page boundary.
LEMMA RoundUpStart == RoundUp(KHEAP_START) = KHEAP_START
<1>1. KHEAP_START \in Nat /\ KHEAP_START % PAGE_SIZE = 0
  BY KHeapAssumption
<1>2. RoundUp(KHEAP_START) <= KHEAP_START
  BY <1>1, RoundUpAligned
<1>3. RoundUp(KHEAP_START) \in Nat /\ KHEAP_START <= RoundUp(KHEAP_START)
  BY <1>1, RoundedUp
<1> QED
  BY <1>1, <1>2, <1>3

-----------------------------------------------------------------------------
(* The invariant                                                           *)

\* The chunks by address: none overlaps another, and one without a next chunk
\* is behind all others.
Ordered ==
  /\ \A h \in DOMAIN mem : mem[h].length >= H
  /\ \A g, h \in DOMAIN mem : g < h => g + mem[g].length <= h
  /\ \A g, h \in DOMAIN mem : mem[g].next = 0 => h <= g

\* The first chunk is at KHEAP_START, the last in the last mapped page.
Ends ==
  IF DOMAIN mem = {}
  THEN kheap_first = 0 /\ kheap_max = KHEAP_START
  ELSE /\ kheap_first = KHEAP_START /\ KHEAP_START \in DOMAIN mem
       /\ \E h \in DOMAIN mem : mem[h].next = 0 /\ kheap_max = RoundUp(h + mem[h].length)

\* The end of the list: its last chunk, or null if there is none.
AtEnd(g) == IF g = 0 THEN DOMAIN mem = {} ELSE g \in DOMAIN mem /\ mem[g].next = 0

\* kmalloc() on its way through the list: what it holds is in the list, at the
\* end prev_header is the last chunk, and a chunk that fits still does.
Walk ==
  /\ pc # "idle" => len >= H /\ len - H \in Size
  /\ pc # "idle" /\ cur_header = 0 => AtEnd(prev_header)
  /\ pc # "idle" /\ cur_header # 0 => cur_header \in DOMAIN mem
  /\ pc = "extend" => cur_header = 0
  /\ pc \in {"next", "take", "mark"} => cur_header # 0
  /\ pc \in {"take", "mark"} => Fits(cur_header)

\* A sound list: what the properties say of the links, and Ordered, without
\* which a new chunk at the end might lie on another one.
ListInv == Tiled /\ Coalesced /\ LiveKept /\ Ordered /\ Ends

HeapInv ==
  /\ TypeOK
  /\ ~damaged => ListInv /\ Walk

\* What TypeOK says of one header.
LEMMA HeaderTypes ==
  ASSUME TypeOK, NEW h \in DOMAIN mem
  PROVE  /\ h \in Nat /\ h # 0 /\ KHEAP_START <= h /\ h < KHEAP_END
         /\ mem[h].length \in Nat
         /\ mem[h].prev \in Nat /\ mem[h].next \in Nat
         /\ mem[h].allocated \in BOOLEAN
         /\ mem[h] \in kheader_t
<1>1. h \in Address /\ mem[h] \in kheader_t
  BY DEF TypeOK
<1>2. h \in Nat /\ h # 0 /\ KHEAP_START <= h /\ h < KHEAP_END
  BY <1>1, Constants DEF Address
<1>3. /\ mem[h].length \in Nat /\ mem[h].allocated \in BOOLEAN
      /\ mem[h].prev \in Address \cup {0} /\ mem[h].next \in Address \cup {0}
  BY <1>1 DEF kheader_t
<1>4. Address \cup {0} \subseteq Nat
  BY Constants DEF Address
<1> QED
  BY <1>1, <1>2, <1>3, <1>4

\* The only function without arguments is the empty one.
LEMMA NoHeaders ==
  ASSUME NEW S, NEW f \in [{} -> S]
  PROVE  f = << >>
OBVIOUS

\* The empty heap.
LEMMA HeapInit == Init => HeapInv
<1> SUFFICES ASSUME Init PROVE HeapInv
  OBVIOUS
<1> USE Constants
<1>1. /\ DOMAIN mem = {} /\ DOMAIN live = {} /\ kheap_first = 0 /\ kheap_max = KHEAP_START
      /\ pc = "idle" /\ len = 0 /\ cur_header = 0 /\ prev_header = 0
      /\ damaged = FALSE /\ fault = FALSE
  BY DEF Init
<1>2. mem \in [DOMAIN mem -> kheader_t] /\ live \in [DOMAIN live -> Size]
  BY <1>1 DEF Init
<1>3. TypeOK
  <2>1. /\ kheap_first \in DOMAIN mem \cup {0} /\ kheap_max \in KHEAP_START .. KHEAP_END
        /\ DOMAIN mem \subseteq Address /\ DOMAIN live \subseteq Address \cup {KHEAP_END}
        /\ len \in Nat /\ {cur_header, prev_header} \subseteq Address \cup {0}
    BY <1>1
  <2> QED
    BY <1>1, <1>2, <2>1 DEF TypeOK
<1>4. ListInv
  BY <1>1 DEF ListInv, Tiled, Coalesced, LiveKept, Ordered, Ends
<1>5. Walk
  BY <1>1 DEF Walk
<1> QED
  BY <1>3, <1>4, <1>5 DEF HeapInv

-----------------------------------------------------------------------------
(* kmalloc()                                                               *)

\* panic() changes nothing but fault.
LEMMA PanicStep ==
  ASSUME HeapInv, UNCHANGED <<heap, locals>>, fault' \in BOOLEAN
  PROVE  HeapInv'
<1>1. UNCHANGED <<kheap_first, kheap_max, mem, live, damaged, pc, len, cur_header, prev_header>>
  BY DEF heap, locals
<1>2. TypeOK'
  BY <1>1 DEF HeapInv, TypeOK
<1>3. ~damaged => ListInv'
  BY <1>1 DEF HeapInv, ListInv, Tiled, Coalesced, LiveKept, Ordered, Ends
<1>4. ~damaged => Walk'
  BY <1>1 DEF HeapInv, Walk, AtEnd, Fits
<1> QED
  BY <1>1, <1>2, <1>3, <1>4 DEF HeapInv

\* The heap does not change.
LEMMA ListUnchanged ==
  ASSUME HeapInv, UNCHANGED heap
  PROVE  /\ ~damaged => ListInv'
         /\ UNCHANGED <<kheap_first, kheap_max, mem, live, damaged>>
BY DEF HeapInv, heap, ListInv, Tiled, Coalesced, LiveKept, Ordered, Ends

\* kmalloc() starts its search at the first chunk.
LEMMA KmallocStep ==
  ASSUME HeapInv, NEW n \in Size, kmalloc(n)
  PROVE  HeapInv'
<1> USE Constants
<1>1. /\ ~damaged /\ pc' = "search" /\ len' = n + H
      /\ cur_header' = kheap_first /\ prev_header' = 0 /\ UNCHANGED <<heap, fault>>
  BY DEF kmalloc, Running
<1>2. ListInv' /\ UNCHANGED <<kheap_first, kheap_max, mem, live, damaged>>
  BY <1>1, ListUnchanged
<1>3. len' \in Nat /\ len' >= H /\ len' - H \in Size
  <2>1. n \in Nat /\ n + H - H = n
    OBVIOUS
  <2> QED
    BY <1>1, <2>1
<1>4. TypeOK'
  <2>1. kheap_first \in Address \cup {0}
    BY DEF HeapInv, TypeOK
  <2> QED
    BY <1>1, <1>2, <1>3, <2>1 DEF HeapInv, TypeOK
<1>5. Walk'
  <2>1. kheap_first = 0 => DOMAIN mem = {}
    BY <1>1 DEF HeapInv, ListInv, Ends
  <2>2. kheap_first # 0 => kheap_first \in DOMAIN mem
    BY DEF HeapInv, TypeOK
  <2> QED
    BY <1>1, <1>2, <1>3, <2>1, <2>2 DEF Walk, AtEnd
<1> QED
  BY <1>2, <1>4, <1>5 DEF HeapInv

\* The test of the search loop.
LEMMA SearchStep ==
  ASSUME HeapInv, Search \/ TakeWhole
  PROVE  HeapInv'
<1>1. ~damaged /\ UNCHANGED <<heap, len, cur_header, prev_header, fault>>
  BY DEF Search, TakeWhole, Running
<1>2. ListInv' /\ UNCHANGED <<kheap_first, kheap_max, mem, live, damaged>>
  BY <1>1, ListUnchanged
<1>3. TypeOK /\ Walk /\ pc # "idle"
  BY <1>1 DEF HeapInv, Search, TakeWhole
<1>4. /\ pc' \in {"extend", "take", "next", "mark"}
      /\ pc' = "extend" <=> cur_header = 0
      /\ pc' \in {"take", "mark"} => Fits(cur_header)
  BY <1>3 DEF Search, TakeWhole, Walk
<1>5. TypeOK'
  BY <1>1, <1>2, <1>3, <1>4 DEF TypeOK
<1>6. Walk'
  BY <1>1, <1>2, <1>3, <1>4 DEF Walk, AtEnd, Fits
<1> QED
  BY <1>2, <1>5, <1>6 DEF HeapInv

\* On to the next chunk; behind the last one prev_header is at the end.
LEMMA AdvanceStep ==
  ASSUME HeapInv, Advance
  PROVE  HeapInv'
<1>1. /\ ~damaged /\ pc = "next" /\ UNCHANGED <<heap, len, fault>> /\ pc' = "search"
      /\ prev_header' = cur_header /\ cur_header' = mem[cur_header].next
  BY DEF Advance, Running
<1>2. ListInv' /\ UNCHANGED <<kheap_first, kheap_max, mem, live, damaged>>
  BY <1>1, ListUnchanged
<1>3. TypeOK /\ Walk /\ ListInv
  BY <1>1 DEF HeapInv
<1>4. /\ cur_header # 0 /\ cur_header \in DOMAIN mem
      /\ len >= H /\ len - H \in Size
  BY <1>1, <1>3 DEF Walk
<1>5. /\ cur_header' \in Address \cup {0} /\ cur_header \in Address \cup {0}
      /\ cur_header' # 0 => cur_header' \in DOMAIN mem
  BY <1>1, <1>3, <1>4 DEF TypeOK, kheader_t, ListInv, Tiled
<1>6. TypeOK'
  BY <1>1, <1>2, <1>3, <1>5 DEF TypeOK
<1>7. Walk'
  BY <1>1, <1>2, <1>4, <1>5 DEF Walk, AtEnd
<1> QED
  BY <1>2, <1>6, <1>7 DEF HeapInv

\* The block that Return() hands out.
LEMMA Returned ==
  ASSUME TypeOK, NEW h \in Nat, KHEAP_START <= h, h + H <= KHEAP_END,
         len >= H, len - H \in Size, Return(h)
  PROVE  /\ DOMAIN live' = DOMAIN live \cup {h + H}
         /\ live'[h + H] = len - H
         /\ \A p \in DOMAIN live : p # h + H => live'[p] = live[p]
         /\ DOMAIN live' \subseteq Address \cup {KHEAP_END}
         /\ live' \in [DOMAIN live' -> Size]
         /\ pc' = "idle" /\ len' = 0 /\ cur_header' = 0 /\ prev_header' = 0
<1> USE Constants
<1>1. live' = With(live, h + H, len - H)
  BY DEF Return
<1>2. /\ DOMAIN live' = DOMAIN live \cup {h + H}
      /\ live'[h + H] = len - H
      /\ \A p \in DOMAIN live : p # h + H => live'[p] = live[p]
  BY <1>1 DEF With
<1>3. h + H \in Address \cup {KHEAP_END}
  BY DEF Address
<1>4. DOMAIN live' \subseteq Address \cup {KHEAP_END}
  BY <1>2, <1>3 DEF TypeOK
<1>5. live' \in [DOMAIN live' -> Size]
  BY <1>1, <1>2 DEF TypeOK, With
<1> QED
  BY <1>2, <1>4, <1>5 DEF Return

\* A chunk ends in the heap.
LEMMA ChunkEnds ==
  ASSUME TypeOK, ListInv, ~damaged, NEW h \in DOMAIN mem
  PROVE  h + mem[h].length <= kheap_max /\ h + H <= KHEAP_END /\ h + mem[h].length \in Nat
<1> USE Constants
<1>1. PICK g \in DOMAIN mem : mem[g].next = 0 /\ kheap_max = RoundUp(g + mem[g].length)
  BY DEF ListInv, Ends
<1>2. /\ h \in Nat /\ mem[h].length \in Nat /\ g \in Nat /\ mem[g].length \in Nat
      /\ kheap_max \in Nat /\ kheap_max <= KHEAP_END
  BY HeaderTypes DEF TypeOK
<1>3. mem[h].length >= H /\ h <= g /\ (h < g => h + mem[h].length <= g)
  BY <1>1 DEF ListInv, Ordered
<1> DEFINE a == g + mem[g].length
<1>4. a \in Nat /\ h + mem[h].length <= a
  BY <1>2, <1>3
<1>5. a <= kheap_max
  BY <1>1, <1>4, RoundedUp
<1> HIDE DEF a
<1> QED
  BY <1>2, <1>3, <1>4, <1>5

\* What Mark and TakeSplit return is a chunk that fits.
LEMMA Taken ==
  ASSUME HeapInv, TakeSplit \/ Mark
  PROVE  /\ ~damaged /\ cur_header \in DOMAIN mem /\ ~mem[cur_header].allocated
         /\ mem[cur_header].length >= len /\ len >= H /\ len - H \in Size
         /\ TypeOK /\ ListInv
         /\ UNCHANGED <<kheap_first, kheap_max, fault>>
         /\ cur_header \in Nat /\ cur_header # 0 /\ KHEAP_START <= cur_header
         /\ cur_header + H <= KHEAP_END
         /\ mem[cur_header].length \in Nat /\ len \in Nat
         /\ DOMAIN live' = DOMAIN live \cup {cur_header + H}
         /\ live'[cur_header + H] = len - H
         /\ \A p \in DOMAIN live : p # cur_header + H => live'[p] = live[p]
         /\ DOMAIN live' \subseteq Address \cup {KHEAP_END}
         /\ live' \in [DOMAIN live' -> Size]
         /\ pc' = "idle" /\ len' = 0 /\ cur_header' = 0 /\ prev_header' = 0
<1> USE Constants
<1>1. /\ ~damaged /\ pc \in {"take", "mark"} /\ Return(cur_header)
      /\ UNCHANGED <<kheap_first, kheap_max, fault>>
  BY DEF TakeSplit, Mark, Take, Running
<1>2. /\ cur_header \in DOMAIN mem /\ ~mem[cur_header].allocated
      /\ mem[cur_header].length >= len /\ len >= H /\ len - H \in Size
      /\ TypeOK /\ ListInv
  BY <1>1 DEF HeapInv, Walk, Fits
<1>3. /\ cur_header \in Nat /\ cur_header # 0 /\ KHEAP_START <= cur_header
      /\ cur_header + H <= KHEAP_END
      /\ mem[cur_header].length \in Nat /\ len \in Nat
  BY <1>1, <1>2, HeaderTypes, ChunkEnds DEF TypeOK
<1>4. /\ DOMAIN live' = DOMAIN live \cup {cur_header + H}
      /\ live'[cur_header + H] = len - H
      /\ \A p \in DOMAIN live : p # cur_header + H => live'[p] = live[p]
      /\ DOMAIN live' \subseteq Address \cup {KHEAP_END}
      /\ live' \in [DOMAIN live' -> Size]
      /\ pc' = "idle" /\ len' = 0 /\ cur_header' = 0 /\ prev_header' = 0
  BY <1>1, <1>2, <1>3, Returned
<1> QED
  BY <1>1, <1>2, <1>3, <1>4

\* A split damages the heap.
LEMMA TakeSplitStep ==
  ASSUME HeapInv, TakeSplit
  PROVE  HeapInv'
<1> USE Constants
<1> DEFINE h == cur_header
<1>1. /\ ~damaged /\ h \in DOMAIN mem /\ ~mem[h].allocated
      /\ mem[h].length >= len /\ len >= H /\ len - H \in Size
      /\ TypeOK /\ ListInv
      /\ UNCHANGED <<kheap_first, kheap_max, fault>>
  BY Taken
<1>2. /\ h \in Nat /\ h # 0 /\ KHEAP_START <= h /\ h + H <= KHEAP_END
      /\ mem[h].length \in Nat /\ len \in Nat
  BY Taken
<1>3. /\ DOMAIN live' = DOMAIN live \cup {h + H}
      /\ live'[h + H] = len - H
      /\ \A p \in DOMAIN live : p # h + H => live'[p] = live[p]
      /\ DOMAIN live' \subseteq Address \cup {KHEAP_END}
      /\ live' \in [DOMAIN live' -> Size]
      /\ pc' = "idle" /\ len' = 0 /\ cur_header' = 0 /\ prev_header' = 0
  BY Taken
<1>4. ASSUME DOMAIN mem' = DOMAIN mem, mem' \in [DOMAIN mem -> kheader_t],
             damaged' \in BOOLEAN
      PROVE  TypeOK'
  BY <1>1, <1>3, <1>4 DEF TypeOK
<1>11. damaged' = TRUE
  BY DEF TakeSplit
<1> DEFINE n == h + mem[h].length
           r == [prev |-> h, next |-> mem[h].next, allocated |-> FALSE,
                 length |-> mem[h].length - len]
           m == With(mem, n, r)
           s == [m EXCEPT ![h].next = n, ![h].length = len]
<1>12. n \in DOMAIN mem /\ n = mem[h].next
  BY <1>1 DEF ListInv, Coalesced, Tiled
<1>13. mem' = [s EXCEPT ![h].allocated = TRUE]
  BY DEF TakeSplit, Take, split_chunk
<1>14. r \in kheader_t
  <2>1. mem[h].length - len \in Nat
    BY <1>1, <1>2
  <2>2. h \in Address \cup {0} /\ mem[h].next \in Address \cup {0}
    BY <1>1, <1>12 DEF TypeOK
  <2> QED
    BY <2>1, <2>2 DEF kheader_t
<1>15. m \in [DOMAIN mem -> kheader_t]
  <2> HIDE DEF r, n
  <2> QED
    BY <1>1, <1>12, <1>14 DEF With, TypeOK
<1>16. s \in [DOMAIN mem -> kheader_t]
  <2>1. n \in Address \cup {0}
    BY <1>1, <1>12 DEF TypeOK
  <2> HIDE DEF m, n
  <2> QED
    BY <1>1, <1>2, <1>15, <2>1 DEF kheader_t
<1>17. mem' \in [DOMAIN mem -> kheader_t] /\ DOMAIN mem' = DOMAIN mem
  <2> HIDE DEF s
  <2> QED
    BY <1>1, <1>13, <1>16 DEF kheader_t
<1> QED
  BY <1>3, <1>4, <1>11, <1>17 DEF HeapInv

\* The chunk that fits is in use.
LEMMA MarkStep ==
  ASSUME HeapInv, Mark
  PROVE  HeapInv'
<1> USE Constants
<1> DEFINE h == cur_header
<1>1. /\ ~damaged /\ h \in DOMAIN mem /\ ~mem[h].allocated
      /\ mem[h].length >= len /\ len >= H /\ len - H \in Size
      /\ TypeOK /\ ListInv
      /\ UNCHANGED <<kheap_first, kheap_max, fault>>
  BY Taken
<1>2. /\ h \in Nat /\ h # 0 /\ KHEAP_START <= h /\ h + H <= KHEAP_END
      /\ mem[h].length \in Nat /\ len \in Nat
  BY Taken
<1>3. /\ DOMAIN live' = DOMAIN live \cup {h + H}
      /\ live'[h + H] = len - H
      /\ \A p \in DOMAIN live : p # h + H => live'[p] = live[p]
      /\ DOMAIN live' \subseteq Address \cup {KHEAP_END}
      /\ live' \in [DOMAIN live' -> Size]
      /\ pc' = "idle" /\ len' = 0 /\ cur_header' = 0 /\ prev_header' = 0
  BY Taken
<1>4. ASSUME DOMAIN mem' = DOMAIN mem, mem' \in [DOMAIN mem -> kheader_t],
             damaged' \in BOOLEAN
      PROVE  TypeOK'
  BY <1>1, <1>3, <1>4 DEF TypeOK
<1>11. mem' = [mem EXCEPT ![h].allocated = TRUE] /\ damaged' = FALSE
  BY <1>1 DEF Mark, Take, TypeOK
<1>12. DOMAIN mem' = DOMAIN mem /\ mem' \in [DOMAIN mem -> kheader_t]
  BY <1>1, <1>11 DEF TypeOK, kheader_t
<1>13. \A a \in DOMAIN mem : /\ mem'[a].prev = mem[a].prev /\ mem'[a].next = mem[a].next
                             /\ mem'[a].length = mem[a].length
  BY <1>1, <1>11 DEF TypeOK, kheader_t
<1>14. /\ mem'[h].allocated = TRUE
      /\ \A a \in DOMAIN mem : a # h => mem'[a].allocated = mem[a].allocated
  BY <1>1, <1>11 DEF TypeOK, kheader_t
<1> HIDE DEF h
<1>15. TypeOK' /\ ~damaged'
  BY <1>4, <1>11, <1>12
<1>16. Ordered'
  BY <1>1, <1>12, <1>13 DEF ListInv, Ordered
<1>17. Ends'
  BY <1>1, <1>12, <1>13 DEF ListInv, Ends
<1>18. Tiled'
  <2> SUFFICES ASSUME NEW a \in DOMAIN mem
               PROVE  /\ mem[a].next # 0 =>
                           /\ mem[a].next \in DOMAIN mem
                           /\ mem[a].next = a + mem[a].length
                           /\ mem'[mem[a].next].prev = a
                      /\ IF mem[a].prev = 0 THEN a = KHEAP_START /\ a = kheap_first
                         ELSE mem[a].prev \in DOMAIN mem /\ mem'[mem[a].prev].next = a
    BY <1>1, <1>12, <1>13 DEF Tiled
  <2> QED
    BY <1>1, <1>13 DEF ListInv, Tiled
<1>19. Coalesced'
  <2> SUFFICES ASSUME NEW a \in DOMAIN mem, ~mem'[a].allocated
               PROVE  mem'[a].next # 0 /\ mem'[mem'[a].next].allocated
    BY <1>12 DEF Coalesced
  <2>1. a # h /\ ~mem[a].allocated
    BY <1>14
  <2>2. mem[a].next # 0 /\ mem[mem[a].next].allocated /\ mem[a].next \in DOMAIN mem
    BY <1>1, <2>1 DEF ListInv, Coalesced, Tiled
  <2> QED
    BY <1>13, <1>14, <2>2
<1>20. LiveKept'
  <2>1. DOMAIN live = {a + H : a \in {b \in DOMAIN mem : mem[b].allocated}}
        /\ \A p \in DOMAIN live : mem[p - H].length >= live[p] + H
    BY <1>1 DEF ListInv, LiveKept
  <2>2. {b \in DOMAIN mem' : mem'[b].allocated}
          = {b \in DOMAIN mem : mem[b].allocated} \cup {h}
    BY <1>1, <1>12, <1>14, Zenon
  <2>3. DOMAIN live' = {a + H : a \in {b \in DOMAIN mem' : mem'[b].allocated}}
    BY <1>3, <2>1, <2>2
  <2>4. ASSUME NEW p \in DOMAIN live'
        PROVE  mem'[p - H].length >= live'[p] + H
    <3>1. CASE p = h + H
      <4>1. p - H = h /\ live'[p] = len - H /\ (len - H) + H = len
        BY <1>2, <1>3, <3>1
      <4> QED
        BY <1>1, <1>13, <4>1
    <3>2. CASE p # h + H
      <4>1. p \in DOMAIN live /\ live'[p] = live[p]
        BY <1>3, <2>4, <3>2
      <4>2. PICK a \in DOMAIN mem : mem[a].allocated /\ p = a + H
        BY <2>1, <4>1
      <4>3. p - H = a
        BY <1>1, <4>2, HeaderTypes
      <4> QED
        BY <1>13, <2>1, <4>1, <4>3
    <3> QED
      BY <3>1, <3>2
  <2> QED
    BY <2>3, <2>4 DEF LiveKept
<1>21. Walk'
  BY <1>3 DEF Walk
<1> QED
  BY <1>3, <1>15, <1>16, <1>17, <1>18, <1>19, <1>20, <1>21 DEF HeapInv, ListInv

\* The place that Extend chooses: behind all chunks, in memory that is either
\* mapped or follows the mapped pages.
LEMMA Behind ==
  ASSUME TypeOK, ListInv, ~damaged, Walk, pc = "extend", NEW start,
         start = IF prev_header = 0 THEN KHEAP_START
                 ELSE prev_header + mem[prev_header].length
  PROVE  /\ start \in Nat /\ KHEAP_START <= start /\ start <= kheap_max
         /\ kheap_max = RoundUp(start)
         /\ \A h \in DOMAIN mem : h < start /\ h + mem[h].length <= start
         /\ prev_header = 0 => DOMAIN mem = {}
         /\ prev_header # 0 =>
              /\ prev_header \in DOMAIN mem /\ mem[prev_header].next = 0
              /\ \A h \in DOMAIN mem : mem[h].next = 0 => h = prev_header
<1> USE Constants
<1>1. CASE prev_header = 0
  <2>1. kheap_first = 0 /\ DOMAIN mem = {} /\ kheap_max = KHEAP_START
    BY <1>1 DEF Walk, AtEnd, ListInv, Ends
  <2> QED
    BY <1>1, <2>1, RoundUpStart
<1>2. CASE prev_header # 0
  <2> DEFINE g == prev_header
  <2>1. g \in DOMAIN mem /\ mem[g].next = 0 /\ start = g + mem[g].length
    BY <1>2 DEF Walk, AtEnd
  <2>2. \A h \in DOMAIN mem : h \in Nat /\ mem[h].length \in Nat /\ KHEAP_START <= h
    BY HeaderTypes
  <2> HIDE DEF g
  <2>3. \A h \in DOMAIN mem : h <= g /\ (mem[h].next = 0 => h = g)
    <3>1. \A h \in DOMAIN mem : h <= g /\ (mem[h].next = 0 => g <= h)
      BY <2>1 DEF ListInv, Ordered
    <3> QED
      BY <2>1, <2>2, <3>1
  <2>4. mem[g].length >= H /\ \A h \in DOMAIN mem : h < g => h + mem[h].length <= g
    BY <2>1 DEF ListInv, Ordered
  <2>5. start \in Nat /\ KHEAP_START <= start /\ g < start
    BY <2>1, <2>2, <2>4
  <2>6. \A h \in DOMAIN mem : h < start /\ h + mem[h].length <= start
    <3> SUFFICES ASSUME NEW h \in DOMAIN mem
                 PROVE  h < start /\ h + mem[h].length <= start
      OBVIOUS
    <3>1. CASE h = g
      BY <2>1, <2>5, <3>1
    <3>2. CASE h < g
      BY <2>1, <2>2, <2>4, <2>5, <3>2
    <3> QED
      BY <2>1, <2>2, <2>3, <3>1, <3>2
  <2>7. kheap_max = RoundUp(start)
    BY <2>1, <2>3 DEF ListInv, Ends
  <2>8. start <= kheap_max
    BY <2>5, <2>7, RoundedUp
  <2> QED
    BY <1>2, <2>1, <2>3, <2>5, <2>6, <2>7, <2>8 DEF g
<1> QED
  BY <1>1, <1>2

\* A new chunk behind the last one: no chunk lies there yet, and alloc_chunk()
\* maps the pages up to its end.
LEMMA ExtendStep ==
  ASSUME HeapInv, Extend, ~panic
  PROVE  HeapInv'
<1> USE Constants
<1> DEFINE start == IF prev_header = 0 THEN KHEAP_START
                    ELSE prev_header + mem[prev_header].length
           new   == [prev |-> prev_header, next |-> 0, allocated |-> TRUE, length |-> len]
           old   == SetNext(mem, prev_header, start)
<1>1. /\ ~damaged /\ pc = "extend" /\ TypeOK /\ ListInv /\ Walk
      /\ len >= H /\ len - H \in Size
  BY DEF Extend, Running, HeapInv, Walk
<1>2. /\ ~(KHEAP_END - start < len)
      /\ kheap_first' = (IF prev_header = 0 THEN KHEAP_START ELSE kheap_first)
      /\ kheap_max' = alloc_chunk(start, len)
      /\ mem' = With(old, start, new)
      /\ Return(start)
      /\ UNCHANGED <<damaged, fault>>
  BY DEF Extend, NoRoomFor
<1>3. start = IF prev_header = 0 THEN KHEAP_START
              ELSE prev_header + mem[prev_header].length
  OBVIOUS
<1> HIDE DEF start
<1>4. /\ start \in Nat /\ KHEAP_START <= start /\ start <= kheap_max
      /\ kheap_max = RoundUp(start)
      /\ \A h \in DOMAIN mem : h < start /\ h + mem[h].length <= start
      /\ prev_header = 0 => DOMAIN mem = {}
      /\ prev_header # 0 =>
           /\ prev_header \in DOMAIN mem /\ mem[prev_header].next = 0
           /\ \A h \in DOMAIN mem : mem[h].next = 0 => h = prev_header
  BY <1>1, <1>3, Behind
<1>5. /\ len \in Nat /\ len # 0 /\ start + len \in Nat /\ start + len <= KHEAP_END
      /\ start + H <= KHEAP_END /\ start \in Address /\ start # 0
  BY <1>1, <1>2, <1>4 DEF TypeOK, Address
<1>6. kheap_max' = RoundUp(start + len) /\ kheap_max' \in KHEAP_START .. KHEAP_END
  <2>1. /\ RoundUp(start) <= RoundUp(start + len) /\ RoundUp(start + len) <= KHEAP_END
        /\ RoundUp(start) \in Nat /\ RoundUp(start + len) \in Nat
        /\ start + len <= RoundUp(start + len)
    <3>1. start <= start + len
      BY <1>4, <1>5
    <3>2. KHEAP_END % PAGE_SIZE = 0
      BY KHeapAssumption
    <3> QED
      BY <1>4, <1>5, <3>1, <3>2, RoundedUp, RoundUpMonotone, RoundUpAligned
  <2>2. CASE start + len > kheap_max
    BY <1>2, <1>4, <1>5, <2>1, <2>2 DEF alloc_chunk
  <2>3. CASE ~(start + len > kheap_max)
    <3>1. kheap_max' = kheap_max
      BY <1>2, <2>3 DEF alloc_chunk
    <3>2. start + len <= RoundUp(start)
      BY <1>4, <1>5, <2>1, <2>3
    <3>3. RoundUp(start + len) <= RoundUp(start)
      BY <1>4, <1>5, <3>2, RoundUpTwice
    <3> QED
      BY <1>4, <1>5, <2>1, <3>1, <3>3
  <2> QED
    BY <2>2, <2>3
<1>7. /\ DOMAIN live' = DOMAIN live \cup {start + H}
      /\ live'[start + H] = len - H
      /\ \A p \in DOMAIN live : p # start + H => live'[p] = live[p]
      /\ DOMAIN live' \subseteq Address \cup {KHEAP_END}
      /\ live' \in [DOMAIN live' -> Size]
      /\ pc' = "idle" /\ len' = 0 /\ cur_header' = 0 /\ prev_header' = 0
  BY <1>1, <1>2, <1>4, <1>5, Returned
<1>8. start \notin DOMAIN mem
  BY <1>4
<1>9. /\ old \in [DOMAIN mem -> kheader_t] /\ DOMAIN old = DOMAIN mem
      /\ \A a \in DOMAIN mem : a # prev_header => old[a] = mem[a]
      /\ prev_header # 0 => old[prev_header] = [mem[prev_header] EXCEPT !.next = start]
  BY <1>1, <1>4, <1>5 DEF SetNext, TypeOK, kheader_t
<1> HIDE DEF old
<1>10. new \in kheader_t
  BY <1>1, <1>5 DEF kheader_t, TypeOK
<1>11. /\ DOMAIN mem' = DOMAIN mem \cup {start} /\ mem'[start] = new
       /\ \A a \in DOMAIN mem : mem'[a] = old[a]
       /\ mem' \in [DOMAIN mem' -> kheader_t]
  <2> HIDE DEF new
  <2> QED
    BY <1>2, <1>8, <1>9, <1>10 DEF With
<1>12. \A a \in DOMAIN mem : /\ mem'[a].prev = mem[a].prev
                              /\ mem'[a].length = mem[a].length
                              /\ mem'[a].allocated = mem[a].allocated
                              /\ mem'[a].next = IF a = prev_header THEN start ELSE mem[a].next
  <2> SUFFICES ASSUME NEW a \in DOMAIN mem
               PROVE  /\ mem'[a].prev = mem[a].prev
                      /\ mem'[a].length = mem[a].length
                      /\ mem'[a].allocated = mem[a].allocated
                      /\ mem'[a].next = IF a = prev_header THEN start ELSE mem[a].next
    OBVIOUS
  <2>1. a # 0
    BY <1>1, HeaderTypes
  <2>2. CASE a = prev_header
    <3>1. mem'[a] = [mem[a] EXCEPT !.next = start] /\ mem[a] \in kheader_t
      BY <1>1, <1>9, <1>11, <2>1, <2>2, HeaderTypes
    <3> QED
      BY <2>2, <3>1 DEF kheader_t
  <2>3. CASE a # prev_header
    <3>1. mem'[a] = mem[a]
      BY <1>9, <1>11, <2>3
    <3> QED
      BY <2>3, <3>1
  <2> QED
    BY <2>2, <2>3
<1>13. /\ mem'[start].prev = prev_header /\ mem'[start].next = 0
       /\ mem'[start].allocated = TRUE /\ mem'[start].length = len
  BY <1>11
<1> HIDE DEF new
<1>14. TypeOK' /\ ~damaged'
  <2>1. DOMAIN mem' \subseteq Address
    BY <1>1, <1>5, <1>11 DEF TypeOK
  <2>2. kheap_first' \in DOMAIN mem' \cup {0}
    <3>1. CASE prev_header = 0
      BY <1>2, <1>3, <1>11, <3>1
    <3>2. CASE prev_header # 0
      BY <1>1, <1>2, <1>11, <3>2 DEF TypeOK
    <3> QED
      BY <3>1, <3>2
  <2> QED
    BY <1>1, <1>2, <1>6, <1>7, <1>11, <2>1, <2>2 DEF TypeOK
<1>15. Ordered'
  <2>1. \A h \in DOMAIN mem : /\ h < start /\ h + mem'[h].length <= start
                               /\ mem'[h].length >= H /\ mem'[h].next # 0
    <3> SUFFICES ASSUME NEW h \in DOMAIN mem
                 PROVE  mem'[h].length >= H /\ mem'[h].next # 0
      BY <1>4, <1>12
    <3>1. mem[h].length >= H
      BY <1>1 DEF ListInv, Ordered
    <3>2. mem[h].next = 0 => h = prev_header
      BY <1>4
    <3> QED
      BY <1>5, <1>12, <3>1, <3>2
  <2>2. \A g, h \in DOMAIN mem : g < h => g + mem'[g].length <= h
    BY <1>1, <1>12 DEF ListInv, Ordered
  <2>3. \A h \in DOMAIN mem' : mem'[h].length >= H
    BY <1>1, <1>11, <1>13, <2>1
  <2>4. ASSUME NEW g \in DOMAIN mem', NEW h \in DOMAIN mem', g < h
        PROVE  g + mem'[g].length <= h
    <3>1. g \in DOMAIN mem
      <4> SUFFICES ASSUME g = start PROVE FALSE
        BY <1>11
      <4>1. h = start \/ (h < start /\ h \in Nat)
        BY <1>1, <1>4, <1>11, HeaderTypes
      <4> QED
        BY <1>4, <2>4, <4>1
    <3> QED
      BY <1>11, <2>1, <2>2, <2>4, <3>1
  <2>5. ASSUME NEW g \in DOMAIN mem', NEW h \in DOMAIN mem', mem'[g].next = 0
        PROVE  h <= g
    <3>1. g = start
      BY <1>11, <2>1, <2>5
    <3>2. h = start \/ (h < start /\ h \in Nat)
      BY <1>1, <1>4, <1>11, HeaderTypes
    <3> QED
      BY <1>4, <3>1, <3>2
  <2> QED
    BY <2>3, <2>4, <2>5 DEF Ordered
<1>16. Ends'
  <2>1. DOMAIN mem' # {} /\ start \in DOMAIN mem' /\ kheap_max' = RoundUp(start + mem'[start].length)
    BY <1>6, <1>11, <1>13
  <2>2. kheap_first' = KHEAP_START /\ KHEAP_START \in DOMAIN mem'
    <3>1. CASE prev_header = 0
      BY <1>2, <1>3, <1>11, <3>1
    <3>2. CASE prev_header # 0
      BY <1>1, <1>2, <1>4, <1>11, <3>2 DEF ListInv, Ends
    <3> QED
      BY <3>1, <3>2
  <2> QED
    BY <1>13, <2>1, <2>2 DEF Ends
<1>17. Coalesced'
  <2> SUFFICES ASSUME NEW a \in DOMAIN mem', ~mem'[a].allocated
               PROVE  mem'[a].next # 0 /\ mem'[mem'[a].next].allocated
    BY DEF Coalesced
  <2>1. a \in DOMAIN mem /\ ~mem[a].allocated
    BY <1>11, <1>12, <1>13
  <2>2. mem[a].next # 0 /\ mem[mem[a].next].allocated /\ mem[a].next \in DOMAIN mem
    BY <1>1, <2>1 DEF ListInv, Coalesced, Tiled
  <2>3. a # prev_header
    BY <1>1, <1>4, <2>1, <2>2, HeaderTypes
  <2> QED
    BY <1>12, <2>1, <2>2, <2>3
<1>18. Tiled'
  <2>1. ASSUME NEW a \in DOMAIN mem', mem'[a].next # 0
        PROVE  /\ mem'[a].next \in DOMAIN mem' /\ mem'[a].next = a + mem'[a].length
               /\ mem'[mem'[a].next].prev = a
    <3>1. a \in DOMAIN mem
      BY <1>11, <1>13, <2>1
    <3>2. CASE a = prev_header
      <4>1. mem'[a].next = start /\ mem'[a].length = mem[a].length /\ prev_header # 0
        BY <1>1, <1>12, <3>1, <3>2, HeaderTypes
      <4> QED
        BY <1>3, <1>11, <1>13, <3>2, <4>1
    <3>3. CASE a # prev_header
      <4>1. mem'[a].next = mem[a].next /\ mem'[a].length = mem[a].length
        BY <1>12, <3>1, <3>3
      <4>2. /\ mem[a].next \in DOMAIN mem /\ mem[a].next = a + mem[a].length
            /\ mem[mem[a].next].prev = a
        BY <1>1, <2>1, <3>1, <4>1 DEF ListInv, Tiled
      <4>3. mem'[mem[a].next].prev = mem[mem[a].next].prev
        BY <1>12, <4>2
      <4> QED
        BY <1>11, <4>1, <4>2, <4>3
    <3> QED
      BY <3>2, <3>3
  <2>2. ASSUME NEW a \in DOMAIN mem'
        PROVE  IF mem'[a].prev = 0 THEN a = KHEAP_START /\ a = kheap_first'
               ELSE mem'[a].prev \in DOMAIN mem' /\ mem'[mem'[a].prev].next = a
    <3>1. CASE a = start
      <4>1. mem'[a].prev = prev_header
        BY <1>13, <3>1
      <4>2. CASE prev_header = 0
        BY <1>2, <1>3, <3>1, <4>1, <4>2
      <4>3. CASE prev_header # 0
        BY <1>4, <1>11, <1>12, <3>1, <4>1, <4>3
      <4> QED
        BY <4>2, <4>3
    <3>2. CASE a # start
      <4>1. a \in DOMAIN mem /\ mem'[a].prev = mem[a].prev /\ prev_header # 0
        BY <1>4, <1>11, <1>12, <2>2, <3>2
      <4>2. CASE mem[a].prev = 0
        <5>1. a = KHEAP_START /\ a = kheap_first
          BY <1>1, <4>1, <4>2 DEF ListInv, Tiled
        <5> QED
          BY <1>2, <4>1, <4>2, <5>1
      <4>3. CASE mem[a].prev # 0
        <5>1. mem[a].prev \in DOMAIN mem /\ mem[mem[a].prev].next = a
          BY <1>1, <4>1, <4>3 DEF ListInv, Tiled
        <5>2. mem[a].prev # prev_header
          BY <1>1, <1>4, <4>1, <5>1, HeaderTypes
        <5> QED
          BY <1>11, <1>12, <4>1, <4>3, <5>1, <5>2
      <4> QED
        BY <4>2, <4>3
    <3> QED
      BY <3>1, <3>2
  <2> QED
    BY <2>1, <2>2 DEF Tiled
<1>19. LiveKept'
  <2>1. DOMAIN live = {a + H : a \in {b \in DOMAIN mem : mem[b].allocated}}
        /\ \A p \in DOMAIN live : mem[p - H].length >= live[p] + H
    BY <1>1 DEF ListInv, LiveKept
  <2>2. {b \in DOMAIN mem' : mem'[b].allocated}
          = {b \in DOMAIN mem : mem[b].allocated} \cup {start}
    BY <1>11, <1>12, <1>13, Zenon
  <2>3. DOMAIN live' = {a + H : a \in {b \in DOMAIN mem' : mem'[b].allocated}}
    BY <1>7, <2>1, <2>2
  <2>4. ASSUME NEW p \in DOMAIN live'
        PROVE  mem'[p - H].length >= live'[p] + H
    <3>1. CASE p = start + H
      <4>1. p - H = start /\ live'[p] = len - H /\ (len - H) + H = len
        BY <1>4, <1>5, <1>7, <3>1
      <4> QED
        BY <1>5, <1>13, <4>1
    <3>2. CASE p # start + H
      <4>1. p \in DOMAIN live /\ live'[p] = live[p]
        BY <1>7, <2>4, <3>2
      <4>2. PICK a \in DOMAIN mem : mem[a].allocated /\ p = a + H
        BY <2>1, <4>1
      <4>3. p - H = a
        BY <1>1, <4>2, HeaderTypes
      <4> QED
        BY <1>12, <2>1, <4>1, <4>3
    <3> QED
      BY <3>1, <3>2
  <2> QED
    BY <2>3, <2>4 DEF LiveKept
<1>20. Walk'
  BY <1>7 DEF Walk
<1> QED
  BY <1>7, <1>14, <1>15, <1>16, <1>17, <1>18, <1>19, <1>20 DEF HeapInv, ListInv

-----------------------------------------------------------------------------
(* kfree(): the chunk h is given back, the chunks from c to e are joined.  *)

\* What the links and the order say of the neighbours of a chunk.
LEMMA Neighbours ==
  ASSUME TypeOK, ListInv, ~damaged, NEW h \in DOMAIN mem
  PROVE  /\ mem[h].length \in Nat /\ mem[h].length >= H
         /\ mem[h].next # 0 =>
              /\ mem[h].next \in DOMAIN mem /\ mem[h].next = h + mem[h].length
              /\ mem[mem[h].next].prev = h /\ h < mem[h].next
         /\ mem[h].prev # 0 =>
              /\ mem[h].prev \in DOMAIN mem /\ mem[mem[h].prev].next = h
              /\ h = mem[h].prev + mem[mem[h].prev].length /\ mem[h].prev < h
         /\ mem[h].prev = 0 => h = KHEAP_START /\ h = kheap_first
<1> USE Constants
<1>1. \A a \in DOMAIN mem : a \in Nat /\ a # 0 /\ mem[a].length \in Nat /\ mem[a].length >= H
  BY HeaderTypes DEF ListInv, Ordered
<1>2. ASSUME NEW a \in DOMAIN mem, mem[a].next # 0
      PROVE  /\ mem[a].next \in DOMAIN mem /\ mem[a].next = a + mem[a].length
             /\ mem[mem[a].next].prev = a /\ a < mem[a].next
  <2>1. /\ mem[a].next \in DOMAIN mem /\ mem[a].next = a + mem[a].length
        /\ mem[mem[a].next].prev = a
    BY <1>2 DEF ListInv, Tiled
  <2>2. a < a + mem[a].length
    BY <1>1
  <2> QED
    BY <2>1, <2>2
<1>3. /\ mem[h].prev # 0 => mem[h].prev \in DOMAIN mem /\ mem[mem[h].prev].next = h
      /\ mem[h].prev = 0 => h = KHEAP_START /\ h = kheap_first
  BY DEF ListInv, Tiled
<1> QED
  BY <1>1, <1>2, <1>3

\* What live loses.
LEMMA LiveAfterFree ==
  ASSUME TypeOK, ListInv, ~damaged, NEW h \in DOMAIN mem, mem[h].allocated,
         live' = Without(live, {h + H}),
         \A a : (a \in DOMAIN mem' /\ mem'[a].allocated) <=>
                  (a \in DOMAIN mem /\ mem[a].allocated /\ a # h),
         \A a \in DOMAIN mem' : mem'[a].allocated => mem'[a].length = mem[a].length
  PROVE  /\ LiveKept'
         /\ DOMAIN live' \subseteq Address \cup {KHEAP_END}
         /\ live' \in [DOMAIN live' -> Size]
<1> USE Constants
<1>1. DOMAIN live = {a + H : a \in {b \in DOMAIN mem : mem[b].allocated}}
      /\ \A p \in DOMAIN live : mem[p - H].length >= live[p] + H
  BY DEF ListInv, LiveKept
<1>2. DOMAIN live' = DOMAIN live \ {h + H} /\ \A p \in DOMAIN live' : live'[p] = live[p]
  BY DEF Without
<1>3. /\ DOMAIN live' \subseteq Address \cup {KHEAP_END}
      /\ live' \in [DOMAIN live' -> Size]
  BY <1>2 DEF TypeOK, Without
<1>4. \A a \in DOMAIN mem : a \in Nat
  BY HeaderTypes
<1>5. ASSUME NEW p
      PROVE  p \in DOMAIN live' <=>
               \E a \in DOMAIN mem' : mem'[a].allocated /\ p = a + H
  <2>1. ASSUME p \in DOMAIN live'
        PROVE  \E a \in DOMAIN mem' : mem'[a].allocated /\ p = a + H
    <3>1. PICK a \in DOMAIN mem : mem[a].allocated /\ p = a + H
      BY <1>1, <1>2, <2>1
    <3>2. a # h
      BY <1>2, <2>1, <3>1
    <3> QED
      BY <3>1, <3>2
  <2>2. ASSUME NEW a \in DOMAIN mem', mem'[a].allocated, p = a + H
        PROVE  p \in DOMAIN live'
    <3>1. a \in DOMAIN mem /\ mem[a].allocated /\ a # h
      BY <2>2
    <3>2. p \in DOMAIN live
      BY <1>1, <2>2, <3>1
    <3>3. p # h + H
      BY <1>4, <2>2, <3>1
    <3> QED
      BY <1>2, <3>2, <3>3
  <2> QED
    BY <2>1, <2>2
<1>6. DOMAIN live' = {a + H : a \in {b \in DOMAIN mem' : mem'[b].allocated}}
  BY <1>5
<1>7. ASSUME NEW p \in DOMAIN live'
      PROVE  mem'[p - H].length >= live'[p] + H
  <2>1. PICK a \in DOMAIN mem' : mem'[a].allocated /\ p = a + H
    BY <1>5, <1>7
  <2>2. a \in Nat /\ p - H = a
    BY <1>4, <2>1
  <2>3. mem[a].length >= live[p] + H
    BY <1>1, <1>2, <2>2, <1>7
  <2> QED
    BY <1>2, <1>7, <2>1, <2>2, <2>3
<1> QED
  BY <1>3, <1>6, <1>7 DEF LiveKept

\* The step makes one free chunk of those from c up to the chunk e, of which
\* only h is in use.
Merges(h, c, e) ==
  /\ h \in DOMAIN mem /\ c \in DOMAIN mem /\ e \in DOMAIN mem /\ c <= h /\ h < e
  /\ mem[h].allocated /\ mem[e].allocated
  /\ \A a \in DOMAIN mem : c <= a /\ a < e => a = h \/ ~mem[a].allocated
  /\ mem[c].prev # 0 => mem[mem[c].prev].allocated
  /\ DOMAIN mem' = {a \in DOMAIN mem : a <= c \/ e <= a}
  /\ mem'[c].prev = mem[c].prev /\ mem'[c].next = e
  /\ mem'[c].allocated = FALSE /\ mem'[c].length = e - c
  /\ mem'[e].prev = c /\ mem'[e].next = mem[e].next
  /\ mem'[e].allocated = mem[e].allocated /\ mem'[e].length = mem[e].length
  /\ \A a \in DOMAIN mem' : a # c /\ a # e => mem'[a] = mem[a]
  /\ mem' \in [DOMAIN mem' -> kheader_t]
  /\ live' = Without(live, {h + H})
  /\ damaged' \in BOOLEAN /\ (~damaged' => Held \subseteq DOMAIN mem')
  /\ UNCHANGED <<kheap_first, kheap_max, locals, fault>>

\* Joined in the middle of the list, the chunks still tile the heap.
LEMMA JoinMiddle ==
  ASSUME TypeOK, ListInv, ~damaged, Walk,
         NEW h, NEW c, NEW e, Merges(h, c, e)
  PROVE  HeapInv'
<1> USE DEF Merges
<1> USE Constants
<1>1. \A a \in DOMAIN mem : a \in Nat /\ a # 0 /\ mem[a].length \in Nat /\ mem[a].length >= H
  BY HeaderTypes, Neighbours
<1>2. \A g, a \in DOMAIN mem : g < a => g + mem[g].length <= a
  BY DEF ListInv, Ordered
<1>3. /\ mem'[c].prev = mem[c].prev /\ mem'[c].next = e
      /\ mem'[c].allocated = FALSE /\ mem'[c].length = e - c
  OBVIOUS
<1>4. /\ mem'[e].prev = c /\ mem'[e].next = mem[e].next
      /\ mem'[e].allocated = mem[e].allocated /\ mem'[e].length = mem[e].length
  OBVIOUS
<1>5. c < e /\ c \in DOMAIN mem' /\ e \in DOMAIN mem'
  BY <1>1
<1>6. \A a \in DOMAIN mem' : a \in DOMAIN mem /\ (a <= c \/ e <= a)
  OBVIOUS
<1>7. TypeOK' /\ LiveKept'
  <2>1. \A a : (a \in DOMAIN mem' /\ mem'[a].allocated) <=>
                 (a \in DOMAIN mem /\ mem[a].allocated /\ a # h)
    <3> SUFFICES ASSUME NEW a \in DOMAIN mem
                 PROVE  (a \in DOMAIN mem' /\ mem'[a].allocated) <=>
                          (mem[a].allocated /\ a # h)
      BY <1>6
    <3>1. CASE a = c
      BY <1>1, <1>3, <1>5, <3>1
    <3>2. CASE a = e
      <4>1. e # h
        BY <1>1
      <4>2. mem'[e].allocated
        BY <1>4, Zenon
      <4> QED
        BY <1>5, <3>2, <4>1, <4>2
    <3>3. CASE a # c /\ a # e /\ a \in DOMAIN mem'
      <4>1. a < c \/ e < a
        BY <1>1, <1>6, <3>3
      <4>2. a # h
        BY <1>1, <4>1
      <4> QED
        BY <3>3, <4>2
    <3>4. CASE a \notin DOMAIN mem'
      BY <1>1, <3>4
    <3> QED
      BY <3>1, <3>2, <3>3, <3>4, Zenon
  <2>2. \A a \in DOMAIN mem' : mem'[a].allocated => mem'[a].length = mem[a].length
    BY <1>3, <1>4
  <2>4. LiveKept' /\ DOMAIN live' \subseteq Address \cup {KHEAP_END}
        /\ live' \in [DOMAIN live' -> Size]
    BY <2>1, <2>2, LiveAfterFree
  <2>5. kheap_first' \in DOMAIN mem' \cup {0}
    <3>1. kheap_first = KHEAP_START
      BY DEF ListInv, Ends
    <3>2. KHEAP_START <= c /\ KHEAP_START \in DOMAIN mem
      BY HeaderTypes DEF ListInv, Ends
    <3> QED
      BY <3>1, <3>2
  <2>6. DOMAIN mem' \subseteq Address
    BY <1>6 DEF TypeOK
  <2> QED
    BY <2>4, <2>5, <2>6 DEF TypeOK, locals
<1>8. Ordered'
  <2>1. \A a \in DOMAIN mem' : a # c => mem'[a].length = mem[a].length /\ mem'[a].next = mem[a].next
    BY <1>4
  <2>2. \A a \in DOMAIN mem' : mem'[a].length >= H
    <3>1. c + mem[c].length <= e /\ e - c >= H
      BY <1>1, <1>2, <1>5
    <3> QED
      BY <1>1, <1>3, <1>6, <2>1, <3>1
  <2>3. ASSUME NEW g \in DOMAIN mem', NEW a \in DOMAIN mem', g < a
        PROVE  g + mem'[g].length <= a
    <3>1. CASE g = c
      <4>1. e <= a /\ c + (e - c) = e
        BY <1>1, <1>6, <2>3, <3>1
      <4> QED
        BY <1>3, <3>1, <4>1
    <3>2. CASE g # c
      BY <1>2, <1>6, <2>1, <2>3, <3>2
    <3> QED
      BY <3>1, <3>2
  <2>4. ASSUME NEW g \in DOMAIN mem', NEW a \in DOMAIN mem', mem'[g].next = 0
        PROVE  a <= g
    <3>1. g # c
      BY <1>1, <1>3, <2>4
    <3>2. mem[g].next = 0
      BY <2>1, <2>4, <3>1
    <3> QED
      BY <1>6, <3>2 DEF ListInv, Ordered
  <2> QED
    BY <2>2, <2>3, <2>4 DEF Ordered
<1>9. Ends'
  <2>1. kheap_first = KHEAP_START /\ KHEAP_START \in DOMAIN mem /\ KHEAP_START <= c
    BY HeaderTypes DEF ListInv, Ends
  <2>2. PICK g \in DOMAIN mem : mem[g].next = 0 /\ kheap_max = RoundUp(g + mem[g].length)
    BY DEF ListInv, Ends
  <2>3. e <= g /\ g # c
    <3>1. e <= g
      BY <2>2 DEF ListInv, Ordered
    <3> QED
      BY <1>1, <1>5, <3>1
  <2>4. g \in DOMAIN mem' /\ mem'[g].next = 0 /\ mem'[g].length = mem[g].length
    BY <1>4, <2>2, <2>3
  <2>5. KHEAP_START \in DOMAIN mem' /\ DOMAIN mem' # {}
    BY <2>1
  <2> QED
    BY <2>1, <2>2, <2>4, <2>5 DEF Ends
<1>10. Tiled'
  <2>1. ASSUME NEW a \in DOMAIN mem', mem'[a].next # 0
        PROVE  /\ mem'[a].next \in DOMAIN mem' /\ mem'[a].next = a + mem'[a].length
               /\ mem'[mem'[a].next].prev = a
    <3>1. CASE a = c
      <4>1. c + (e - c) = e
        BY <1>1
      <4> QED
        BY <1>3, <1>4, <1>5, <3>1, <4>1
    <3>2. CASE a # c
      <4> DEFINE n == mem[a].next
      <4>1. a \in DOMAIN mem /\ mem'[a].next = n /\ mem'[a].length = mem[a].length
        BY <1>4, <1>6, <3>2
      <4>2. n \in DOMAIN mem /\ n = a + mem[a].length /\ mem[n].prev = a /\ a < n
        BY <2>1, <4>1, Neighbours
      <4> HIDE DEF n
      <4>3. a < c \/ e <= a
        BY <1>1, <1>6, <2>1, <3>2, <4>1
      <4>4. n <= c \/ e < n
        <5>1. CASE a < c
          BY <1>2, <4>1, <4>2, <5>1
        <5>2. CASE e <= a
          BY <1>1, <4>1, <4>2, <5>2
        <5> QED
          BY <4>3, <5>1, <5>2
      <4>5. n \in DOMAIN mem' /\ n # e
        BY <1>1, <1>5, <4>2, <4>4
      <4>6. mem'[n].prev = mem[n].prev
        BY <1>3, <4>5
      <4> QED
        BY <4>1, <4>2, <4>5, <4>6
    <3> QED
      BY <3>1, <3>2
  <2>2. ASSUME NEW a \in DOMAIN mem'
        PROVE  IF mem'[a].prev = 0 THEN a = KHEAP_START /\ a = kheap_first'
               ELSE mem'[a].prev \in DOMAIN mem' /\ mem'[mem'[a].prev].next = a
    <3>1. CASE a = e
      BY <1>1, <1>3, <1>4, <1>5, <3>1
    <3>2. CASE a # e
      <4> DEFINE p == mem[a].prev
      <4>1. a \in DOMAIN mem /\ mem'[a].prev = p
        BY <1>3, <1>6, <3>2
      <4>2. p = 0 => a = KHEAP_START /\ a = kheap_first
        BY <4>1, Neighbours
      <4>3. ASSUME p # 0
            PROVE  p \in DOMAIN mem' /\ mem'[p].next = a
        <5>1. p \in DOMAIN mem /\ mem[p].next = a /\ a = p + mem[p].length /\ p < a
          BY <4>1, <4>3, Neighbours
        <5> HIDE DEF p
        <5>2. a <= c \/ e < a
          BY <1>1, <1>6, <2>2, <3>2, <4>1
        <5>3. p < c \/ e <= p
          <6>1. CASE a <= c
            BY <1>1, <4>1, <5>1, <6>1
          <6>2. CASE e < a
            <7>1. ~(p < e)
              BY <1>1, <1>2, <5>1, <6>2
            <7> QED
              BY <1>1, <5>1, <7>1
          <6> QED
            BY <5>2, <6>1, <6>2
        <5>4. p \in DOMAIN mem' /\ p # c
          BY <1>1, <1>5, <5>1, <5>3
        <5> QED
          BY <1>4, <5>1, <5>4
      <4> QED
        BY <4>1, <4>2, <4>3
    <3> QED
      BY <3>1, <3>2
  <2> QED
    BY <2>1, <2>2 DEF Tiled
<1>11. Coalesced'
  <2> SUFFICES ASSUME NEW a \in DOMAIN mem', ~mem'[a].allocated
               PROVE  mem'[a].next # 0 /\ mem'[mem'[a].next].allocated
    BY DEF Coalesced
  <2>1. CASE a = c
    BY <1>1, <1>3, <1>4, <2>1
  <2>2. CASE a # c
    <3> DEFINE n == mem[a].next
    <3>1. a \in DOMAIN mem /\ mem'[a].next = n /\ ~mem[a].allocated
      BY <1>4, <1>6, <2>2
    <3>2. n # 0 /\ mem[n].allocated
      BY <3>1 DEF ListInv, Coalesced
    <3>3. n \in DOMAIN mem' /\ mem[n].prev = a
      <4>1. mem[n].prev = a
        BY <3>1, <3>2, Neighbours
      <4>2. mem'[a].next # 0 => mem'[a].next \in DOMAIN mem'
        BY <1>7, <1>10 DEF Tiled
      <4> QED
        BY <3>1, <3>2, <4>1, <4>2
    <3> HIDE DEF n
    <3>4. n # c
      <4> SUFFICES ASSUME n = c PROVE FALSE
        OBVIOUS
      <4>1. mem[c].prev = a /\ a # 0
        BY <1>1, <3>1, <3>3
      <4> QED
        BY <3>1, <4>1
    <3> QED
      BY <1>4, <3>1, <3>2, <3>3, <3>4, Zenon
  <2> QED
    BY <2>1, <2>2
<1>12. ~damaged' => Walk'
  <2> SUFFICES ASSUME ~damaged', pc # "idle" PROVE Walk'
    BY DEF Walk, locals
  <2>1. Held \subseteq DOMAIN mem' /\ UNCHANGED <<pc, len, cur_header, prev_header>>
    BY DEF locals
  <2>2. cur_header # 0 => cur_header \in DOMAIN mem'
    BY <2>1 DEF Held
  <2>3. ASSUME cur_header = 0 PROVE AtEnd(prev_header)'
    <3> DEFINE g == prev_header
    <3>1. g \in DOMAIN mem'
      BY <2>1, <2>3 DEF Held
    <3>2. g # 0 /\ g \in DOMAIN mem /\ mem[g].next = 0
      BY <1>1, <1>6, <2>3, <3>1 DEF Walk, AtEnd
    <3> HIDE DEF g
    <3>3. e <= g /\ g # c
      BY <1>1, <1>5, <3>2 DEF ListInv, Ordered
    <3>4. mem'[g].next = 0
      BY <1>4, <3>1, <3>2, <3>3
    <3> QED
      BY <2>1, <3>1, <3>2, <3>4 DEF AtEnd, g
  <2>4. ASSUME pc \in {"take", "mark"} PROVE Fits(cur_header)'
    <3> DEFINE g == cur_header
    <3>1. g \in DOMAIN mem' /\ ~mem[g].allocated /\ mem[g].length >= len
      BY <2>2, <2>4 DEF Walk, Fits
    <3> HIDE DEF g
    <3>2. g # e
      BY <3>1
    <3>3. CASE g = c
      <4>1. e - c >= mem[c].length
        BY <1>1, <1>2, <1>5
      <4>2. e - c >= len /\ mem'[c].length >= len
        BY <1>1, <1>3, <3>1, <3>3, <4>1 DEF TypeOK
      <4> QED
        BY <1>3, <2>1, <3>3, <4>2 DEF Fits, g
    <3>4. CASE g # c
      BY <2>1, <3>1, <3>2, <3>4 DEF Fits, g
    <3> QED
      BY <3>3, <3>4
  <2> QED
    BY <2>1, <2>2, <2>3, <2>4 DEF Walk
<1> QED
  BY <1>7, <1>8, <1>9, <1>10, <1>11, <1>12 DEF HeapInv, ListInv

\* The step frees everything from c on, of which only h is in use; the chunk b
\* before c becomes the last one.
CutsOff(h, c, b) ==
  /\ h \in DOMAIN mem /\ c \in DOMAIN mem /\ c <= h /\ mem[h].allocated
  /\ \A a \in DOMAIN mem : c <= a => a = h \/ ~mem[a].allocated
  /\ b = mem[c].prev
  /\ b # 0 => /\ mem[b].allocated /\ mem'[b].prev = mem[b].prev /\ mem'[b].next = 0
              /\ mem'[b].allocated = mem[b].allocated /\ mem'[b].length = mem[b].length
  /\ DOMAIN mem' = {a \in DOMAIN mem : a < c}
  /\ \A a \in DOMAIN mem' : a # b => mem'[a] = mem[a]
  /\ mem' \in [DOMAIN mem' -> kheader_t]
  /\ kheap_first' = IF b = 0 THEN 0 ELSE kheap_first
  /\ kheap_max' = Contract(c)
  /\ live' = Without(live, {h + H})
  /\ damaged' \in BOOLEAN /\ (~damaged' => Held \subseteq DOMAIN mem')
  /\ UNCHANGED <<locals, fault>>

\* Cut off at the end, the list ends with a chunk in use and its last page.
LEMMA CutEnd ==
  ASSUME TypeOK, ListInv, ~damaged, Walk,
         NEW h, NEW c, NEW b, CutsOff(h, c, b)
  PROVE  HeapInv'
<1> USE DEF CutsOff
<1> USE Constants
<1>1. \A a \in DOMAIN mem : a \in Nat /\ a # 0 /\ mem[a].length \in Nat /\ mem[a].length >= H
  BY HeaderTypes, Neighbours
<1>2. \A g, a \in DOMAIN mem : g < a => g + mem[g].length <= a
  BY DEF ListInv, Ordered
<1>3. \A a \in DOMAIN mem' : /\ a \in DOMAIN mem /\ a < c
                              /\ mem'[a].prev = mem[a].prev
                              /\ mem'[a].allocated = mem[a].allocated
                              /\ mem'[a].length = mem[a].length
                              /\ mem'[a].next = IF a = b THEN 0 ELSE mem[a].next
  <2> SUFFICES ASSUME NEW a \in DOMAIN mem'
               PROVE  /\ mem'[a].prev = mem[a].prev
                      /\ mem'[a].allocated = mem[a].allocated
                      /\ mem'[a].length = mem[a].length
                      /\ mem'[a].next = IF a = b THEN 0 ELSE mem[a].next
    OBVIOUS
  <2>1. a # 0
    BY <1>1
  <2>2. CASE a = b
    BY <2>1, <2>2
  <2>3. CASE a # b
    BY <2>3
  <2> QED
    BY <2>2, <2>3
<1>4. b # 0 => /\ b \in DOMAIN mem /\ mem[b].next = c /\ c = b + mem[b].length
               /\ b < c /\ b \in DOMAIN mem'
  BY Neighbours
<1>5. b = 0 => c = KHEAP_START /\ DOMAIN mem' = {}
  <2>1. b = 0 => c = KHEAP_START
    BY Neighbours
  <2>2. \A a \in DOMAIN mem : KHEAP_START <= a /\ a \in Nat
    BY HeaderTypes
  <2> QED
    BY <2>1, <2>2
<1>6. kheap_max' = RoundUp(c) /\ kheap_max' \in KHEAP_START .. KHEAP_END
  <2>1. PICK g \in DOMAIN mem : mem[g].next = 0 /\ kheap_max = RoundUp(g + mem[g].length)
    BY DEF ListInv, Ends
  <2>2. c <= g
    BY <2>1 DEF ListInv, Ordered
  <2> DEFINE z == g + mem[g].length
  <2>3. z \in Nat /\ c \in Nat /\ c <= z
    BY <1>1, <2>2
  <2> HIDE DEF z
  <2>4. RoundUp(c) <= RoundUp(z) /\ RoundUp(c) \in Nat /\ RoundUp(z) \in Nat /\ c <= RoundUp(c)
    BY <2>3, RoundUpMonotone, RoundedUp
  <2>5. kheap_max = RoundUp(z) /\ kheap_max \in KHEAP_START .. KHEAP_END /\ KHEAP_START <= c
    BY <2>1, HeaderTypes DEF z, TypeOK
  <2> QED
    BY <2>3, <2>4, <2>5 DEF Contract
<1>7. TypeOK' /\ LiveKept'
  <2>1. \A a : (a \in DOMAIN mem' /\ mem'[a].allocated) <=>
                 (a \in DOMAIN mem /\ mem[a].allocated /\ a # h)
    <3> SUFFICES ASSUME NEW a \in DOMAIN mem
                 PROVE  (a \in DOMAIN mem' /\ mem'[a].allocated) <=>
                          (mem[a].allocated /\ a # h)
      BY <1>3
    <3>1. CASE a \in DOMAIN mem'
      <4>1. a # h
        BY <1>1, <1>3, <3>1
      <4> QED
        BY <1>3, <3>1, <4>1, Zenon
    <3>2. CASE a \notin DOMAIN mem'
      <4>1. c <= a
        BY <1>1, <3>2
      <4> QED
        BY <3>2, <4>1
    <3> QED
      BY <3>1, <3>2
  <2>2. \A a \in DOMAIN mem' : mem'[a].allocated => mem'[a].length = mem[a].length
    BY <1>3
  <2>4. LiveKept' /\ DOMAIN live' \subseteq Address \cup {KHEAP_END}
        /\ live' \in [DOMAIN live' -> Size]
    BY <2>1, <2>2, LiveAfterFree
  <2>5. kheap_first' \in DOMAIN mem' \cup {0}
    <3>1. kheap_first = KHEAP_START /\ KHEAP_START \in DOMAIN mem
      BY DEF ListInv, Ends
    <3>2. b # 0 => KHEAP_START < c
      BY <1>1, <1>4, HeaderTypes
    <3> QED
      BY <3>1, <3>2
  <2>6. DOMAIN mem' \subseteq Address
    BY <1>3 DEF TypeOK
  <2> QED
    BY <1>6, <2>4, <2>5, <2>6 DEF TypeOK, locals
<1>8. \A a \in DOMAIN mem' : a # b => mem[a].next # 0 /\ mem[a].next \in DOMAIN mem'
  <2> SUFFICES ASSUME NEW a \in DOMAIN mem', a # b
               PROVE  mem[a].next # 0 /\ mem[a].next \in DOMAIN mem'
    OBVIOUS
  <2>1. a \in DOMAIN mem /\ a < c
    BY <1>3
  <2>2. mem[a].next # 0
    <3> SUFFICES ASSUME mem[a].next = 0 PROVE FALSE
      OBVIOUS
    <3>1. c <= a
      BY <2>1 DEF ListInv, Ordered
    <3> QED
      BY <1>1, <2>1, <3>1
  <2> DEFINE n == mem[a].next
  <2>3. n \in DOMAIN mem /\ n = a + mem[a].length /\ mem[n].prev = a
    BY <2>1, <2>2, Neighbours
  <2> HIDE DEF n
  <2>4. n <= c /\ n # c
    BY <1>1, <1>2, <2>1, <2>3
  <2>5. n < c
    BY <1>1, <2>3, <2>4
  <2> QED
    BY <2>2, <2>3, <2>5 DEF n
<1>9. Ordered'
  <2>1. \A a \in DOMAIN mem' : mem'[a].length >= H
    BY <1>1, <1>3
  <2>2. \A g, a \in DOMAIN mem' : g < a => g + mem'[g].length <= a
    BY <1>2, <1>3
  <2>3. ASSUME NEW g \in DOMAIN mem', NEW a \in DOMAIN mem', mem'[g].next = 0
        PROVE  a <= g
    <3>1. g = b /\ b # 0
      BY <1>1, <1>3, <1>8, <2>3
    <3>2. a \in DOMAIN mem /\ a < c /\ g \in DOMAIN mem /\ c = g + mem[g].length
      BY <1>3, <1>4, <3>1
    <3>3. g < a => g + mem[g].length <= a
      BY <1>2, <3>2
    <3> QED
      BY <1>1, <3>2, <3>3
  <2> QED
    BY <2>1, <2>2, <2>3 DEF Ordered
<1>10. Ends'
  <2>1. CASE b = 0
    BY <1>5, <1>6, <2>1, RoundUpStart DEF Ends
  <2>2. CASE b # 0
    <3>1. kheap_first' = KHEAP_START /\ KHEAP_START \in DOMAIN mem'
      <4>1. kheap_first = KHEAP_START
        BY DEF ListInv, Ends
      <4>2. KHEAP_START # 0
        OBVIOUS
      <4> QED
        BY <1>7, <2>2, <4>1, <4>2 DEF TypeOK
    <3>2. b \in DOMAIN mem' /\ mem'[b].next = 0 /\ kheap_max' = RoundUp(b + mem'[b].length)
      BY <1>3, <1>4, <1>6, <2>2
    <3> QED
      BY <3>1, <3>2 DEF Ends
  <2> QED
    BY <2>1, <2>2
<1>11. Tiled'
  <2>1. ASSUME NEW a \in DOMAIN mem', mem'[a].next # 0
        PROVE  /\ mem'[a].next \in DOMAIN mem' /\ mem'[a].next = a + mem'[a].length
               /\ mem'[mem'[a].next].prev = a
    <3>1. a # b /\ a \in DOMAIN mem /\ mem'[a].next = mem[a].next /\ mem'[a].length = mem[a].length
      BY <1>3, <2>1
    <3>2. mem[a].next \in DOMAIN mem'
      BY <1>8, <3>1
    <3>3. mem[a].next = a + mem[a].length /\ mem[mem[a].next].prev = a
      BY <2>1, <3>1, Neighbours
    <3>4. mem'[mem[a].next].prev = mem[mem[a].next].prev
      BY <1>3, <3>2
    <3> QED
      BY <3>1, <3>2, <3>3, <3>4, Zenon
  <2>2. ASSUME NEW a \in DOMAIN mem'
        PROVE  IF mem'[a].prev = 0 THEN a = KHEAP_START /\ a = kheap_first'
               ELSE mem'[a].prev \in DOMAIN mem' /\ mem'[mem'[a].prev].next = a
    <3>1. a \in DOMAIN mem /\ a < c /\ mem'[a].prev = mem[a].prev
      BY <1>3
    <3>2. CASE mem[a].prev = 0
      <4>1. a = KHEAP_START /\ a = kheap_first
        BY <3>1, <3>2, Neighbours
      <4>2. b # 0
        BY <1>5
      <4> QED
        BY <3>1, <3>2, <4>1, <4>2
    <3>3. CASE mem[a].prev # 0
      <4> DEFINE p == mem[a].prev
      <4>1. p \in DOMAIN mem /\ mem[p].next = a /\ p < a
        BY <3>1, <3>3, Neighbours
      <4> HIDE DEF p
      <4>2. p \in DOMAIN mem' /\ p # b
        <5>1. p < c
          BY <1>1, <3>1, <4>1
        <5>2. a # c /\ p # 0
          BY <1>1, <3>1, <4>1
        <5> QED
          BY <1>4, <4>1, <5>1, <5>2
      <4>3. mem'[p].next = a
        BY <1>3, <4>1, <4>2
      <4> QED
        BY <3>1, <3>3, <4>2, <4>3 DEF p
    <3> QED
      BY <3>2, <3>3
  <2> QED
    BY <2>1, <2>2 DEF Tiled
<1>12. Coalesced'
  <2> SUFFICES ASSUME NEW a \in DOMAIN mem', ~mem'[a].allocated
               PROVE  mem'[a].next # 0 /\ mem'[mem'[a].next].allocated
    BY DEF Coalesced
  <2>1. a \in DOMAIN mem /\ ~mem[a].allocated /\ a # 0
    BY <1>1, <1>3
  <2>2. a # b
    BY <2>1
  <2>3. mem[a].next # 0 /\ mem[mem[a].next].allocated
    BY <2>1 DEF ListInv, Coalesced
  <2>4. mem'[a].next = mem[a].next /\ mem[a].next \in DOMAIN mem'
    BY <1>3, <1>8, <2>2
  <2> QED
    BY <1>3, <2>3, <2>4, Zenon
<1>13. ~damaged' => Walk'
  <2> SUFFICES ASSUME ~damaged', pc # "idle" PROVE Walk'
    BY DEF Walk, locals
  <2>1. Held \subseteq DOMAIN mem' /\ UNCHANGED <<pc, len, cur_header, prev_header>>
    BY DEF locals
  <2>2. cur_header # 0 => cur_header \in DOMAIN mem'
    BY <2>1 DEF Held
  <2>3. cur_header # 0
    <3> SUFFICES ASSUME cur_header = 0 PROVE FALSE
      OBVIOUS
    <3>1. prev_header \in DOMAIN mem'
      BY <2>1 DEF Held
    <3>2. prev_header \in DOMAIN mem /\ prev_header < c /\ mem[prev_header].next = 0
      BY <1>1, <1>3, <3>1 DEF Walk, AtEnd
    <3>3. c <= prev_header
      BY <3>2 DEF ListInv, Ordered
    <3> QED
      BY <1>1, <3>2, <3>3
  <2>4. ASSUME pc \in {"take", "mark"} PROVE Fits(cur_header)'
    <3> DEFINE g == cur_header
    <3>1. g \in DOMAIN mem' /\ ~mem[g].allocated /\ mem[g].length >= len
      BY <2>2, <2>4 DEF Walk, Fits
    <3> HIDE DEF g
    <3>2. mem'[g].allocated = mem[g].allocated /\ mem'[g].length = mem[g].length
      BY <1>3, <3>1
    <3> QED
      BY <2>1, <3>1, <3>2, Zenon DEF Fits, g
  <2> QED
    BY <2>1, <2>2, <2>3, <2>4 DEF Walk
<1> QED
  BY <1>7, <1>9, <1>10, <1>11, <1>12, <1>13 DEF HeapInv, ListInv

\* What Join changes of the list m.
LEMMA Joined ==
  ASSUME NEW D, NEW m \in [D -> kheader_t], NEW a \in D, NEW b \in D, a # b,
         a \in Address, m[b].next \in D \cup {0}, m[b].next # a
  PROVE  /\ Join(m, a, b) \in [D -> kheader_t]
         /\ Join(m, a, b)[a].prev = m[a].prev
         /\ Join(m, a, b)[a].next = m[b].next
         /\ Join(m, a, b)[a].allocated = m[a].allocated
         /\ Join(m, a, b)[a].length = m[a].length + m[b].length
         /\ m[b].next # 0 =>
              /\ Join(m, a, b)[m[b].next].prev = a
              /\ Join(m, a, b)[m[b].next].next = m[m[b].next].next
              /\ Join(m, a, b)[m[b].next].allocated = m[m[b].next].allocated
              /\ Join(m, a, b)[m[b].next].length = m[m[b].next].length
         /\ \A x \in D : x # a /\ x # m[b].next => Join(m, a, b)[x] = m[x]
<1> DEFINE n == m[b].next
           g == Join(m, a, b)
           k == SetPrev(m, n, a)
           l == m[b].length
<1>1. l \in Nat /\ n \in Address \cup {0}
  BY DEF kheader_t
<1>2. /\ k \in [D -> kheader_t] /\ k[a] = m[a]
      /\ \A x \in D : x # n => k[x] = m[x]
  BY DEF SetPrev, kheader_t
<1>3. n # 0 => /\ k[n].prev = a /\ k[n].next = m[n].next
               /\ k[n].allocated = m[n].allocated /\ k[n].length = m[n].length
  BY DEF SetPrev, kheader_t
<1>4. g = [k EXCEPT ![a].length = @ + l, ![a].next = n]
  BY DEF Join
<1> HIDE DEF k, l, n, g
<1>5. g \in [D -> kheader_t]
  <2> DEFINE r == [prev |-> k[a].prev, next |-> n, allocated |-> k[a].allocated,
                   length |-> k[a].length + l]
  <2>1. r \in kheader_t
    BY <1>1, <1>2 DEF kheader_t
  <2>2. k[a] \in kheader_t /\ DOMAIN k = D
    BY <1>2
  <2>3. g[a] = r /\ DOMAIN g = D /\ \A x \in D : x # a => g[x] = k[x]
    BY <1>4, <2>2 DEF kheader_t
  <2>4. g = [x \in D |-> g[x]]
    BY <1>4, <2>2
  <2> HIDE DEF r
  <2> QED
    BY <1>2, <2>1, <2>3, <2>4
<1>6. /\ g[a].prev = k[a].prev /\ g[a].next = n
      /\ g[a].allocated = k[a].allocated /\ g[a].length = k[a].length + l
      /\ \A x \in D : x # a => g[x] = k[x]
  BY <1>1, <1>2, <1>4 DEF kheader_t
<1>7. /\ g[a].prev = m[a].prev /\ g[a].allocated = m[a].allocated
      /\ g[a].length = m[a].length + m[b].length
  BY <1>2, <1>6 DEF l
<1>8. n # 0 => /\ g[n].prev = a /\ g[n].next = m[n].next
               /\ g[n].allocated = m[n].allocated /\ g[n].length = m[n].length
  <2>1. n # 0 => g[n] = k[n]
    BY <1>6 DEF n
  <2> QED
    BY <1>3, <2>1
<1>9. \A x \in D : x # a /\ x # n => g[x] = m[x]
  BY <1>2, <1>6
<1> QED
  BY <1>5, <1>6, <1>7, <1>8, <1>9 DEF g, n

\* The headers m0: as in memory, but h is free.
Unused(h, m0) ==
  /\ m0 \in [DOMAIN mem -> kheader_t]
  /\ m0[h].prev = mem[h].prev /\ m0[h].next = mem[h].next
  /\ m0[h].allocated = FALSE /\ m0[h].length = mem[h].length
  /\ \A a \in DOMAIN mem : a # h => m0[a] = mem[a]

\* The headers m1: h reaches to the chunk e in use, or e is 0 and h the last.
Reaches(h, m1, e, joined) ==
  /\ m1 \in [DOMAIN mem -> kheader_t]
  /\ m1[h].prev = mem[h].prev /\ m1[h].allocated = FALSE
  /\ \A a \in DOMAIN mem : a # h /\ a # e => m1[a] = mem[a]
  /\ e # 0 =>
       /\ e \in DOMAIN mem /\ h < e /\ mem[e].allocated
       /\ m1[h].length = e - h
       /\ m1[e].prev = h /\ m1[e].next = mem[e].next
       /\ m1[e].allocated = mem[e].allocated /\ m1[e].length = mem[e].length
       /\ joined = {a \in DOMAIN mem : h < a /\ a < e}
       /\ \A a \in DOMAIN mem : h < a /\ a < e => ~mem[a].allocated
  /\ e = 0 =>
       /\ joined = {}
       /\ \A a \in DOMAIN mem : a <= h

\* The first half of glue_chunk().
LEMMA GluedNext ==
  ASSUME TypeOK, ListInv, ~damaged, NEW h \in DOMAIN mem, mem[h].allocated,
         NEW m0, Unused(h, m0), NEW m1, m1 = GlueNext(m0, h), NEW e, e = m1[h].next
  PROVE  Reaches(h, m1, e, {m0[h].next} \ {e})
<1> USE Constants
<1> DEFINE n == mem[h].next
<1>1. \A a \in DOMAIN mem : /\ a \in Nat /\ a # 0 /\ mem[a] \in kheader_t
                             /\ mem[a].length \in Nat /\ mem[a].length >= H
  BY HeaderTypes, Neighbours
<1>2. \A g, a \in DOMAIN mem : g < a => g + mem[g].length <= a
  BY DEF ListInv, Ordered
<1>3. m0 \in [DOMAIN mem -> kheader_t] /\ \A a \in DOMAIN mem : a # h => m0[a] = mem[a]
  BY DEF Unused
<1>4. /\ m0[h].prev = mem[h].prev /\ m0[h].next = n
      /\ m0[h].allocated = FALSE /\ m0[h].length = mem[h].length
  BY DEF Unused
<1>5. n # 0 => n \in DOMAIN mem /\ n = h + mem[h].length /\ mem[n].prev = h /\ h < n
  BY Neighbours
<1> HIDE DEF n
<1>6. CASE n # 0 /\ ~mem[n].allocated
  <2> DEFINE f == mem[n].next
  <2>1. n \in DOMAIN mem /\ n # h /\ m0[n] = mem[n]
    BY <1>1, <1>3, <1>5, <1>6
  <2>2. f # 0 /\ mem[f].allocated
    BY <1>6, <2>1 DEF ListInv, Coalesced
  <2>3. f \in DOMAIN mem /\ f = n + mem[n].length /\ mem[f].prev = n /\ n < f
    BY <2>1, <2>2, Neighbours
  <2> HIDE DEF f
  <2>4. f # h /\ f # n /\ m0[f] = mem[f]
    BY <1>1, <1>3, <1>5, <1>6, <2>3
  <2>5. m1 = Join(m0, h, n) /\ m0[n].next = f /\ m0[n].length = mem[n].length
    BY <1>4, <1>6, <2>1 DEF GlueNext, IsFree, f
  <2>6. h \in Address
    BY DEF TypeOK
  <2>7. /\ m1 \in [DOMAIN mem -> kheader_t]
        /\ m1[h].prev = m0[h].prev /\ m1[h].next = f
        /\ m1[h].allocated = m0[h].allocated /\ m1[h].length = m0[h].length + m0[n].length
        /\ m1[f].prev = h /\ m1[f].next = m0[f].next
        /\ m1[f].allocated = m0[f].allocated /\ m1[f].length = m0[f].length
        /\ \A a \in DOMAIN mem : a # h /\ a # f => m1[a] = m0[a]
    <3>1. /\ m0 \in [DOMAIN mem -> kheader_t] /\ h # n /\ f = m0[n].next
          /\ f \in DOMAIN mem \cup {0} /\ f # h /\ m1 = Join(m0, h, n)
      BY <1>3, <2>1, <2>3, <2>4, <2>5
    <3>2. m1 \in [DOMAIN mem -> kheader_t]
      BY <2>1, <2>6, <3>1, Joined
    <3>3. /\ m1[h].prev = m0[h].prev /\ m1[h].next = f
          /\ m1[h].allocated = m0[h].allocated /\ m1[h].length = m0[h].length + m0[n].length
      BY <2>1, <2>6, <3>1, Joined
    <3>4. /\ m1[f].prev = h /\ m1[f].next = m0[f].next
          /\ m1[f].allocated = m0[f].allocated /\ m1[f].length = m0[f].length
      BY <2>1, <2>2, <2>6, <3>1, Joined
    <3>5. \A a \in DOMAIN mem : a # h /\ a # f => m1[a] = m0[a]
      BY <2>1, <2>6, <3>1, Joined
    <3> QED
      BY <3>2, <3>3, <3>4, <3>5
  <2>8. e = f
    BY <2>7
  <2>9. mem[h].length + mem[n].length = f - h /\ h < f
    BY <1>1, <1>5, <1>6, <2>1, <2>3
  <2>10. \A a \in DOMAIN mem : h < a /\ a < f => a = n
    <3> SUFFICES ASSUME NEW a \in DOMAIN mem, h < a, a < f, a # n
                 PROVE  FALSE
      OBVIOUS
    <3>1. n <= a
      BY <1>2, <1>5, <1>6
    <3>2. n < a
      BY <1>1, <2>1, <3>1
    <3>3. n + mem[n].length <= a
      BY <1>2, <2>1, <3>2
    <3> QED
      BY <1>1, <2>1, <2>3, <3>3
  <2>11. {m0[h].next} \ {f} = {a \in DOMAIN mem : h < a /\ a < f}
    BY <1>4, <1>5, <1>6, <2>3, <2>4, <2>10
  <2>12. m1[h].length = f - h /\ \A a \in DOMAIN mem : h < a /\ a < f => ~mem[a].allocated
    BY <1>4, <1>6, <2>5, <2>7, <2>9, <2>10
  <2>13. \A a \in DOMAIN mem : a # h /\ a # f => m1[a] = mem[a]
    BY <1>3, <2>7
  <2> QED
    <3>1. e # 0 /\ e \in DOMAIN mem /\ h < e /\ mem[e].allocated /\ m1[h].length = e - h
      BY <2>2, <2>3, <2>8, <2>9, <2>12
    <3>2. /\ m1[e].prev = h /\ m1[e].next = mem[e].next
          /\ m1[e].allocated = mem[e].allocated /\ m1[e].length = mem[e].length
      BY <2>4, <2>7, <2>8
    <3>3. m1[h].prev = mem[h].prev /\ m1[h].allocated = FALSE
      BY <1>4, <2>7
    <3>4. /\ {m0[h].next} \ {e} = {a \in DOMAIN mem : h < a /\ a < e}
          /\ \A a \in DOMAIN mem : h < a /\ a < e => ~mem[a].allocated
          /\ \A a \in DOMAIN mem : a # h /\ a # e => m1[a] = mem[a]
      BY <2>8, <2>11, <2>12, <2>13
    <3> QED
      BY <2>7, <3>1, <3>2, <3>3, <3>4, Zenon DEF Reaches
<1>7. CASE ~(n # 0 /\ ~mem[n].allocated)
  <2>1. m1 = m0
    <3>1. n # 0 => m0[n] = mem[n]
      BY <1>1, <1>3, <1>5
    <3> QED
      BY <1>4, <1>7, <3>1 DEF GlueNext, IsFree
  <2>2. e = n
    BY <1>4, <2>1
  <2>3. CASE n = 0
    <3>1. \A a \in DOMAIN mem : a <= h
      BY <2>3 DEF ListInv, Ordered, n
    <3>2. {m0[h].next} \ {e} = {}
      BY <1>4, <2>2
    <3> QED
      BY <1>3, <1>4, <2>1, <2>2, <2>3, <3>1, <3>2 DEF Reaches
  <2>4. CASE n # 0
    <3>1. n \in DOMAIN mem /\ mem[n].allocated /\ m0[n] = mem[n] /\ h < n
      BY <1>1, <1>3, <1>5, <1>7, <2>4
    <3>2. mem[h].length = n - h
      BY <1>1, <1>5, <2>4
    <3>3. \A a \in DOMAIN mem : ~(h < a /\ a < n)
      BY <1>1, <1>2, <1>5, <2>4
    <3>4. {m0[h].next} \ {e} = {a \in DOMAIN mem : h < a /\ a < e}
      BY <1>4, <2>2, <3>3
    <3>5. e # 0 /\ e \in DOMAIN mem /\ h < e /\ mem[e].allocated /\ m1[h].length = e - h
      BY <1>4, <2>1, <2>2, <2>4, <3>1, <3>2
    <3>6. /\ m1[e].prev = h /\ m1[e].next = mem[e].next
          /\ m1[e].allocated = mem[e].allocated /\ m1[e].length = mem[e].length
      BY <1>5, <2>1, <2>2, <2>4, <3>1
    <3>7. m1[h].prev = mem[h].prev /\ m1[h].allocated = FALSE
      BY <1>4, <2>1
    <3>8. \A a \in DOMAIN mem : a # h /\ a # e => m1[a] = mem[a]
      BY <1>3, <2>1
    <3>9. \A a \in DOMAIN mem : h < a /\ a < e => ~mem[a].allocated
      BY <2>2, <3>3
    <3> QED
      BY <1>3, <2>1, <3>4, <3>5, <3>6, <3>7, <3>8, <3>9, Zenon DEF Reaches
  <2> QED
    BY <2>3, <2>4
<1> QED
  BY <1>6, <1>7

\* What the end of the list changes.
LEMMA SetNextZero ==
  ASSUME NEW D, NEW m \in [D -> kheader_t], NEW b \in D \cup {0}
  PROVE  /\ SetNext(m, b, 0) \in [D -> kheader_t]
         /\ \A x \in D : x # b => SetNext(m, b, 0)[x] = m[x]
         /\ b # 0 => /\ SetNext(m, b, 0)[b].prev = m[b].prev
                     /\ SetNext(m, b, 0)[b].next = 0
                     /\ SetNext(m, b, 0)[b].allocated = m[b].allocated
                     /\ SetNext(m, b, 0)[b].length = m[b].length
BY DEF SetNext, kheader_t

\* kfree(): the chunks around h are joined, or cut off, by the neighbour before
\* it being free or not and by e, the chunk in use that follows, being there.
LEMMA KfreeStep ==
  ASSUME HeapInv, NEW p \in DOMAIN live, kfree(p)
  PROVE  HeapInv'
<1> USE Constants
<1> DEFINE h    == p - H
           m0   == [mem EXCEPT ![h].allocated = FALSE]
           m1   == GlueNext(m0, h)
           m2   == GluePrev(m1, h)
           c    == IF IsFree(m1, m1[h].prev) THEN m1[h].prev ELSE h
           last == m2[c].next = 0
           gone == ({m0[h].next} \ {m1[h].next}) \cup ({h} \ {c})
                   \cup (IF last THEN {c} ELSE {})
           m3   == IF last THEN free_chunk(m2, c) ELSE m2
           e    == m1[h].next
           q    == mem[h].prev
           D    == DOMAIN mem
<1>1. /\ ~damaged /\ TypeOK /\ ListInv /\ Walk
      /\ mem' = Without(m3, gone)
      /\ kheap_first' = (IF last THEN FirstAfter(m2, c) ELSE kheap_first)
      /\ kheap_max' = (IF last THEN Contract(c) ELSE kheap_max)
      /\ live' = Without(live, {p})
      /\ damaged' = (gone \cap Held # {})
      /\ UNCHANGED <<locals, fault>>
  BY DEF kfree, Running, HeapInv
<1>2. h \in D /\ mem[h].allocated /\ p = h + H
  <2>1. PICK a \in DOMAIN mem : mem[a].allocated /\ p = a + H
    BY <1>1 DEF ListInv, LiveKept
  <2>2. a \in Nat
    BY <1>1, HeaderTypes
  <2>3. h = a
    BY <2>1, <2>2
  <2> QED
    BY <2>1, <2>3
<1> HIDE DEF h
<1>3. Unused(h, m0)
  BY <1>1, <1>2 DEF TypeOK, kheader_t, Unused
<1> HIDE DEF m0
<1>4. Reaches(h, m1, e, {m0[h].next} \ {e})
  <2>1. TypeOK /\ ListInv /\ ~damaged /\ h \in DOMAIN mem /\ mem[h].allocated
    BY <1>1, <1>2
  <2>2. m1 = GlueNext(m0, h) /\ e = m1[h].next
    OBVIOUS
  <2> HIDE DEF m1, e
  <2> QED
    BY <1>3, <2>1, <2>2, GluedNext
<1>5. \A a \in D : /\ a \in Nat /\ a # 0 /\ a \in Address /\ mem[a] \in kheader_t
                   /\ mem[a].length \in Nat /\ mem[a].length >= H
  BY <1>1, HeaderTypes, Neighbours DEF TypeOK
<1>6. q # 0 => q \in D /\ mem[q].next = h /\ h = q + mem[q].length /\ q < h
  BY <1>1, <1>2, Neighbours
<1>7. q # 0 => q # h /\ q # e /\ m1[q] = mem[q]
  BY <1>2, <1>4, <1>5, <1>6 DEF Reaches
<1>8. /\ m1 \in [D -> kheader_t] /\ e = m1[h].next
      /\ m1[h].prev = q /\ m1[h].allocated = FALSE
      /\ \A a \in D : a # h /\ a # e => m1[a] = mem[a]
      /\ e # 0 => /\ e \in D /\ h < e /\ mem[e].allocated /\ m1[h].length = e - h
                  /\ m1[e].prev = h /\ m1[e].next = mem[e].next
                  /\ m1[e].allocated = mem[e].allocated /\ m1[e].length = mem[e].length
                  /\ \A a \in D : h < a /\ a < e => ~mem[a].allocated
      /\ e = 0 => \A a \in D : a <= h
  BY <1>4 DEF Reaches
<1> DEFINE j == {m0[h].next} \ {e}
<1>9. /\ e # 0 => j = {a \in D : h < a /\ a < e}
      /\ e = 0 => j = {}
  BY <1>4 DEF Reaches
<1>10. gone = j \cup ({h} \ {c}) \cup (IF last THEN {c} ELSE {})
  OBVIOUS
<1>11. live' = Without(live, {h + H}) /\ UNCHANGED <<locals, fault>>
  BY <1>1, <1>2
<1>h. /\ damaged' \in BOOLEAN
      /\ DOMAIN mem' = D \ gone /\ ~damaged' => Held \subseteq DOMAIN mem'
  <2>1. Held \subseteq D
    <3>1. cur_header = 0 /\ pc # "idle" => prev_header \in D
      BY <1>1, <1>2 DEF Walk, AtEnd
    <3> QED
      BY <1>1, <3>1 DEF Walk, Held
  <2>2. damaged' = (gone \cap Held # {})
    BY <1>1
  <2> HIDE DEF gone, D
  <2> QED
    BY <2>1, <2>2
<1>12. TypeOK /\ ListInv /\ ~damaged /\ Walk /\ h \in DOMAIN mem /\ h \in D
       /\ mem[h].allocated
  BY <1>1, <1>2
<1>13. /\ mem' = Without(m3, gone)
       /\ kheap_first' = (IF last THEN FirstAfter(m2, c) ELSE kheap_first)
       /\ kheap_max' = (IF last THEN Contract(c) ELSE kheap_max)
  BY <1>1
<1> HIDE DEF m1, e, q, j, gone
<1>14. CASE ~(q # 0 /\ ~mem[q].allocated)
  <2>1. m2 = m1 /\ c = h
    BY <1>7, <1>8, <1>14 DEF GluePrev, IsFree
  <2>2. last <=> e = 0
    BY <1>8, <2>1
  <2> HIDE DEF m2, c
  <2>3. CASE e # 0
    <3>1. m3 = m1 /\ gone = j /\ UNCHANGED <<kheap_first, kheap_max>>
      BY <1>10, <1>13, <2>1, <2>2, <2>3
    <3> HIDE DEF m3, last
    <3>2. mem' = Without(m1, j)
      BY <1>13, <3>1
    <3>3. /\ DOMAIN mem' = D \ j /\ \A a \in D \ j : mem'[a] = m1[a]
          /\ mem' \in [D \ j -> kheader_t]
      <4>1. m1 \in [D -> kheader_t]
        BY <1>8
      <4> HIDE DEF D
      <4>2. /\ DOMAIN Without(m1, j) = D \ j /\ Without(m1, j) \in [D \ j -> kheader_t]
            /\ \A a \in D \ j : Without(m1, j)[a] = m1[a]
        BY <4>1 DEF Without
      <4> QED
        BY <3>2, <4>2
    <3>4. DOMAIN mem' = {a \in D : a <= h \/ e <= a}
      BY <1>5, <1>8, <1>9, <1>12, <2>3, <3>3
    <3>5. h \in D \ j /\ e \in D \ j
      BY <1>5, <1>8, <1>9, <1>12, <2>3
    <3>6. \A a \in D : h <= a /\ a < e => a = h \/ ~mem[a].allocated
      BY <1>5, <1>8, <1>12, <2>3
    <3>7. h <= h /\ (q # 0 => mem[q].allocated)
      BY <1>5, <1>12, <1>14
    <3>8. /\ mem'[h].prev = q /\ mem'[h].next = e
          /\ mem'[h].allocated = FALSE /\ mem'[h].length = e - h
          /\ mem'[e].prev = h /\ mem'[e].next = mem[e].next
          /\ mem'[e].allocated = mem[e].allocated /\ mem'[e].length = mem[e].length
      BY <1>8, <2>3, <3>3, <3>5
    <3>9. \A a \in DOMAIN mem' : a # h /\ a # e => mem'[a] = mem[a]
      BY <1>8, <3>3
    <3>10. mem' \in [DOMAIN mem' -> kheader_t]
      BY <3>3
    <3>11. Merges(h, h, e)
      <4>1. damaged' \in BOOLEAN /\ (~damaged' => Held \subseteq DOMAIN mem')
        BY <1>h, <3>1, <3>3
      <4> QED
        BY <1>8, <1>11, <1>12, <2>3, <3>1, <3>4, <3>6, <3>7, <3>8, <3>9, <3>10, <4>1
        DEF Merges, D, q
    <3> QED
      BY <1>12, <3>11, JoinMiddle
  <2>4. CASE e = 0
    <3>1. /\ m3 = SetNext(m1, q, 0) /\ gone = {h} /\ kheap_max' = Contract(h)
          /\ kheap_first' = IF q = 0 THEN 0 ELSE kheap_first
      BY <1>8, <1>9, <1>10, <1>13, <2>1, <2>2, <2>4 DEF free_chunk, FirstAfter
    <3>2. /\ m3 \in [D -> kheader_t] /\ \A a \in D : a # q => m3[a] = m1[a]
          /\ q # 0 => /\ m3[q].prev = mem[q].prev /\ m3[q].next = 0
                      /\ m3[q].allocated = mem[q].allocated /\ m3[q].length = mem[q].length
      BY <1>6, <1>7, <1>8, <3>1, SetNextZero
    <3> HIDE DEF m3, last
    <3>3. /\ DOMAIN mem' = D \ {h} /\ \A a \in D \ {h} : mem'[a] = m3[a]
          /\ mem' \in [D \ {h} -> kheader_t]
      BY <1>13, <3>1, <3>2 DEF Without
    <3>4. DOMAIN mem' = {a \in D : a < h} /\ \A a \in D : h <= a => a = h
      BY <1>5, <1>8, <1>12, <2>4, <3>3
    <3>5. q # 0 => /\ mem[q].allocated /\ mem'[q].prev = mem[q].prev /\ mem'[q].next = 0
                   /\ mem'[q].allocated = mem[q].allocated /\ mem'[q].length = mem[q].length
      BY <1>6, <1>7, <1>14, <3>2, <3>3
    <3>6. \A a \in DOMAIN mem' : a # q => mem'[a] = mem[a]
      BY <1>5, <1>8, <2>4, <3>2, <3>3
    <3>7. mem' \in [DOMAIN mem' -> kheader_t] /\ h <= h
      BY <1>5, <1>12, <3>3
    <3>8. CutsOff(h, h, q)
      <4>1. damaged' \in BOOLEAN /\ (~damaged' => Held \subseteq DOMAIN mem')
        BY <1>h, <3>1, <3>3
      <4> QED
        BY <1>11, <1>12, <3>1, <3>4, <3>5, <3>6, <3>7, <4>1 DEF CutsOff, D, q
    <3> QED
      BY <1>12, <3>8, CutEnd
  <2> QED
    BY <2>3, <2>4
<1>15. CASE q # 0 /\ ~mem[q].allocated
  <2> DEFINE r == mem[q].prev
  <2>1. c = q /\ m2 = Join(m1, q, h)
    BY <1>7, <1>8, <1>15 DEF GluePrev, IsFree
  <2>2. /\ q \in D /\ q # h /\ q \in Address /\ m1[h].next \in D \cup {0}
        /\ m1[h].next # q /\ m1 \in [D -> kheader_t]
    BY <1>5, <1>6, <1>7, <1>8, <1>15
  <2>3. /\ m2 \in [D -> kheader_t]
        /\ m2[q].prev = m1[q].prev /\ m2[q].next = m1[h].next
        /\ m2[q].allocated = m1[q].allocated /\ m2[q].length = m1[q].length + m1[h].length
        /\ m1[h].next # 0 =>
             /\ m2[m1[h].next].prev = q /\ m2[m1[h].next].next = m1[m1[h].next].next
             /\ m2[m1[h].next].allocated = m1[m1[h].next].allocated
             /\ m2[m1[h].next].length = m1[m1[h].next].length
        /\ \A x \in D : x # q /\ x # m1[h].next => m2[x] = m1[x]
    <3> HIDE DEF D, m2
    <3>1. h \in D
      BY <1>12
    <3> QED
      BY <2>1, <2>2, <3>1, Joined
  <2> HIDE DEF m2, c
  <2>4. /\ m2[q].prev = r /\ m2[q].next = e /\ m2[q].allocated = FALSE
        /\ m2[q].length = mem[q].length + m1[h].length
    <3>1. mem[q].allocated \in BOOLEAN
      BY <1>12, <2>2, HeaderTypes
    <3> QED
      BY <1>7, <1>8, <1>15, <2>3, <3>1
  <2>5. e # 0 => /\ m2[e].prev = q /\ m2[e].next = mem[e].next
                 /\ m2[e].allocated = mem[e].allocated /\ m2[e].length = mem[e].length
    BY <1>8, <2>3
  <2>6. \A x \in D : x # q /\ x # e /\ x # h => m2[x] = mem[x]
    BY <1>8, <2>3
  <2>7. r # 0 => r \in D /\ mem[r].next = q /\ r < q /\ mem[r].allocated
    <3>1. r # 0 => r \in D /\ mem[r].next = q /\ r < q
      BY <1>12, <2>2, Neighbours
    <3>2. \A a \in D : ~mem[a].allocated => mem[a].next # 0 /\ mem[mem[a].next].allocated
      BY <1>12 DEF ListInv, Coalesced
    <3> QED
      BY <1>15, <3>1, <3>2
  <2>8. \A a \in D : q < a => h <= a
    <3>1. \A a \in D : q < a => q + mem[q].length <= a
      BY <1>12, <2>2 DEF ListInv, Ordered
    <3> QED
      BY <1>6, <1>15, <3>1
  <2>9. last <=> e = 0
    BY <2>1, <2>4
  <2>10. q < h /\ h = q + mem[q].length /\ q \in Nat /\ h \in Nat
    BY <1>5, <1>6, <1>12, <1>15
  <2>11. CASE e # 0
    <3>1. m3 = m2 /\ gone = j \cup {h} /\ UNCHANGED <<kheap_first, kheap_max>>
      BY <1>10, <1>13, <2>1, <2>2, <2>9, <2>11
    <3> HIDE DEF m3, last, r
    <3> DEFINE S == j \cup {h}
    <3>2. mem' = Without(m2, S)
      BY <1>13, <3>1
    <3>3. /\ DOMAIN mem' = D \ S /\ \A a \in D \ S : mem'[a] = m2[a]
          /\ mem' \in [D \ S -> kheader_t]
      <4> HIDE DEF D, S
      <4>1. /\ DOMAIN Without(m2, S) = D \ S /\ Without(m2, S) \in [D \ S -> kheader_t]
            /\ \A a \in D \ S : Without(m2, S)[a] = m2[a]
        BY <2>3 DEF Without
      <4> QED
        BY <3>2, <4>1
    <3>4. e \in D /\ h < e /\ e \in Nat /\ j = {a \in D : h < a /\ a < e}
      BY <1>5, <1>8, <1>9, <2>11
    <3>5. DOMAIN mem' = {a \in D : a <= q \/ e <= a}
      BY <1>5, <2>8, <2>10, <3>3, <3>4
    <3>6. q \in D \ S /\ e \in D \ S /\ q < e
      BY <2>2, <2>10, <3>4
    <3>7. \A a \in D : q <= a /\ a < e => a = h \/ ~mem[a].allocated
      <4> SUFFICES ASSUME NEW a \in D, q <= a, a < e PROVE a = h \/ ~mem[a].allocated
        OBVIOUS
      <4>1. CASE a = q
        BY <1>15, <4>1
      <4>2. CASE q < a
        BY <1>5, <1>8, <2>8, <2>10, <2>11, <3>4, <4>2
      <4> QED
        BY <1>5, <2>10, <4>1, <4>2
    <3>8. /\ mem'[q].prev = r /\ mem'[q].next = e /\ mem'[q].allocated = FALSE
          /\ mem'[e].prev = q /\ mem'[e].next = mem[e].next
          /\ mem'[e].allocated = mem[e].allocated /\ mem'[e].length = mem[e].length
      BY <2>4, <2>5, <2>11, <3>3, <3>6
    <3>9. mem'[q].length = e - q
      <4>1. mem'[q].length = mem[q].length + m1[h].length /\ m1[h].length = e - h
        BY <1>8, <2>4, <2>11, <3>3, <3>6
      <4>2. mem[q].length \in Nat
        BY <1>5, <2>2
      <4> QED
        BY <2>10, <3>4, <4>1, <4>2
    <3>10. \A a \in DOMAIN mem' : a # q /\ a # e => mem'[a] = mem[a]
      BY <2>6, <3>3
    <3>11. mem' \in [DOMAIN mem' -> kheader_t] /\ q <= h
      BY <2>10, <3>3
    <3>12. mem[q].prev = r /\ mem[e].allocated /\ (mem[q].prev # 0 => mem[mem[q].prev].allocated)
      BY <1>8, <2>7, <2>11 DEF r
    <3>13. Merges(h, q, e)
      <4>1. damaged' \in BOOLEAN /\ (~damaged' => Held \subseteq DOMAIN mem')
        BY <1>h, <3>1, <3>3
      <4> HIDE DEF S
      <4> QED
        BY <1>11, <1>12, <2>2, <3>1, <3>4, <3>5, <3>7, <3>8, <3>9, <3>10, <3>11, <3>12, <4>1
        DEF Merges, D
    <3> QED
      BY <1>12, <3>13, JoinMiddle
  <2>12. CASE e = 0
    <3>1. /\ m3 = SetNext(m2, r, 0) /\ gone = {h, q} /\ kheap_max' = Contract(q)
          /\ kheap_first' = IF r = 0 THEN 0 ELSE kheap_first
      BY <1>9, <1>10, <1>13, <2>1, <2>2, <2>4, <2>9, <2>12 DEF free_chunk, FirstAfter
    <3> HIDE DEF r
    <3>2. r \in D \cup {0} /\ (r # 0 => r # q /\ r # e /\ r # h /\ m2[r] = mem[r])
      BY <1>5, <2>6, <2>7, <2>10, <2>12
    <3>3. /\ m3 \in [D -> kheader_t] /\ \A a \in D : a # r => m3[a] = m2[a]
          /\ r # 0 => /\ m3[r].prev = m2[r].prev /\ m3[r].next = 0
                      /\ m3[r].allocated = m2[r].allocated /\ m3[r].length = m2[r].length
      <4> HIDE DEF D, m3
      <4> QED
        BY <2>3, <3>1, <3>2, SetNextZero
    <3> HIDE DEF m3, last
    <3> DEFINE S == {h, q}
    <3>4. /\ DOMAIN mem' = D \ S /\ \A a \in D \ S : mem'[a] = m3[a]
          /\ mem' \in [D \ S -> kheader_t]
      <4>1. mem' = Without(m3, S)
        BY <1>13, <3>1
      <4> HIDE DEF D, S
      <4>2. /\ DOMAIN Without(m3, S) = D \ S /\ Without(m3, S) \in [D \ S -> kheader_t]
            /\ \A a \in D \ S : Without(m3, S)[a] = m3[a]
        BY <3>3 DEF Without
      <4> QED
        BY <4>1, <4>2
    <3>5. \A a \in D : a <= h
      BY <1>8, <2>12
    <3>6. /\ DOMAIN mem' = {a \in D : a < q}
          /\ \A a \in D : q <= a => a = h \/ ~mem[a].allocated
      <4>1. \A a \in D : q <= a => a = h \/ a = q
        BY <1>5, <2>8, <2>10, <3>5
      <4> QED
        BY <1>5, <1>15, <2>10, <3>4, <4>1
    <3>7. r # 0 => /\ mem[r].allocated /\ mem'[r].prev = mem[r].prev /\ mem'[r].next = 0
                   /\ mem'[r].allocated = mem[r].allocated /\ mem'[r].length = mem[r].length
      BY <2>7, <3>2, <3>3, <3>4
    <3>8. \A a \in DOMAIN mem' : a # r => mem'[a] = mem[a]
      BY <1>5, <2>6, <2>12, <3>3, <3>4
    <3>9. mem' \in [DOMAIN mem' -> kheader_t] /\ q <= h /\ r = mem[q].prev
      BY <2>10, <3>4 DEF r
    <3>10. CutsOff(h, q, r)
      <4>1. damaged' \in BOOLEAN /\ (~damaged' => Held \subseteq DOMAIN mem')
        BY <1>h, <3>1, <3>4
      <4> HIDE DEF S
      <4> QED
        BY <1>11, <1>12, <2>2, <3>1, <3>6, <3>7, <3>8, <3>9, <4>1 DEF CutsOff, D
    <3> QED
      BY <1>12, <3>10, CutEnd
  <2> QED
    BY <2>11, <2>12
<1> QED
  BY <1>14, <1>15

\* Every step keeps the invariant.
LEMMA HeapStep == HeapInv /\ [Next]_vars => HeapInv'
<1> SUFFICES ASSUME HeapInv, [Next]_vars PROVE HeapInv'
  OBVIOUS
<1>1. fault \in BOOLEAN
  BY DEF HeapInv, TypeOK
<1>2. ASSUME panic PROVE HeapInv'
  BY <1>2, PanicStep DEF panic
<1>3. ASSUME UNCHANGED vars PROVE HeapInv'
  BY <1>1, <1>3, PanicStep DEF vars
<1>4. ASSUME NEW n \in Size, kmalloc(n) PROVE HeapInv'
  BY <1>4, KmallocStep
<1>5. CASE Search \/ TakeWhole
  BY <1>5, SearchStep
<1>6. CASE Advance
  BY <1>6, AdvanceStep
<1>7. CASE TakeSplit \/ Mark
  BY <1>7, TakeSplitStep, MarkStep
<1>8. CASE Extend
  BY <1>2, <1>8, ExtendStep
<1>9. ASSUME NEW p \in DOMAIN live, kfree(p) PROVE HeapInv'
  BY <1>9, KfreeStep
<1>10. CASE Halted
  BY <1>3, <1>10 DEF Halted
<1> QED
  BY <1>3, <1>4, <1>5, <1>6, <1>7, <1>8, <1>9, <1>10 DEF Next

\* So it always holds.
LEMMA HeapSafe == Spec => []HeapInv
<1> QED
  BY HeapStep, HeapInit, PTL DEF Spec

-----------------------------------------------------------------------------
(* The theorems                                                            *)

\* kmalloc() and kfree() keep the list of chunks sound for headers, pages and
\* sizes of any number of bytes, whatever is joined and cut off, in any order and
\* with a kfree() between any two steps of kmalloc(), until split_chunk() writes
\* its header or a tick frees the chunk at which kmalloc() stands.
THEOREM ListIsSound ==
  Spec => []ListSound
<1>1. HeapInv => ListSound
  BY DEF HeapInv, ListInv, ListSound, Tiled, Coalesced
<1> QED
  BY <1>1, HeapSafe, PTL

\* Until then kfree() of a chunk loses no other: the chunks in use are those
\* that callers hold, each as large as was asked for.
THEOREM LiveIsKept ==
  Spec => []LiveKept
<1>1. HeapInv => LiveKept
  BY DEF HeapInv, ListInv, LiveKept
<1> QED
  BY <1>1, HeapSafe, PTL

\* There is one last chunk, and the heap ends with its page.
LEMMA LastChunk ==
  ASSUME HeapInv, ~damaged
  PROVE  kheap_max = IF mem = << >> THEN KHEAP_START
                     ELSE LET h == CHOOSE a \in DOMAIN mem : mem[a].next = 0
                          IN  RoundUp(h + mem[h].length)
<1>1. TypeOK /\ Ordered /\ Ends
  BY DEF HeapInv, ListInv
<1>2. CASE DOMAIN mem = {}
  <2>1. mem \in [{} -> kheader_t]
    BY <1>1, <1>2 DEF TypeOK
  <2>2. mem = << >>
    BY <2>1, NoHeaders
  <2> QED
    BY <1>1, <1>2, <2>2 DEF Ends
<1>3. CASE DOMAIN mem # {}
  <2>1. mem # << >>
    BY <1>3
  <2> DEFINE h == CHOOSE a \in DOMAIN mem : mem[a].next = 0
  <2>2. PICK g \in DOMAIN mem : mem[g].next = 0 /\ kheap_max = RoundUp(g + mem[g].length)
    BY <1>1, <1>3 DEF Ends
  <2>3. h \in DOMAIN mem /\ mem[h].next = 0
    BY <2>2
  <2> HIDE DEF h
  <2>4. h <= g /\ g <= h /\ h \in Nat /\ g \in Nat
    BY <1>1, <2>2, <2>3, HeaderTypes DEF Ordered
  <2>5. h = g
    BY <2>4
  <2> QED
    BY <2>1, <2>2, <2>5 DEF h
<1> QED
  BY <1>2, <1>3

\* Until then exactly the pages up to the end of the last chunk are mapped.
THEOREM PagesAreExact ==
  Spec => []PagesExact
<1>1. HeapInv => PagesExact
  BY LastChunk DEF PagesExact
<1> QED
  BY <1>1, HeapSafe, PTL

\* Until then the memory of a caller is mapped, and lies in no chunk that is free
\* or another caller's: what the run kheap_split shows has only these two causes.
CallersBefore == ~damaged => MemoryIsCallers

\* Chunks do not overlap and each holds the bytes of its caller.
LEMMA CallersApart ==
  ASSUME HeapInv, ~damaged
  PROVE  MemoryIsCallers
<1> USE Constants
<1>1. TypeOK /\ ListInv
  BY DEF HeapInv
<1>2. ASSUME NEW p \in DOMAIN live
      PROVE  /\ p \in Nat /\ p - H \in DOMAIN mem /\ mem[p - H].allocated
             /\ live[p] \in Nat /\ p - H + mem[p - H].length >= p + live[p]
             /\ mem[p - H].length \in Nat /\ p - H \in Nat
  <2>1. PICK a \in DOMAIN mem : mem[a].allocated /\ p = a + H
    BY <1>1 DEF ListInv, LiveKept
  <2>2. a \in Nat /\ mem[a].length \in Nat
    BY <1>1, HeaderTypes
  <2>3. p - H = a /\ p \in Nat
    BY <2>1, <2>2
  <2>4. live[p] \in Nat
    BY <1>1 DEF TypeOK
  <2>5. mem[a].length >= live[p] + H
    BY <1>1, <2>3 DEF ListInv, LiveKept
  <2>6. a + mem[a].length >= p + live[p]
    BY <2>1, <2>2, <2>4, <2>5
  <2> QED
    BY <2>1, <2>2, <2>3, <2>4, <2>6
<1>3. ASSUME NEW p \in DOMAIN live
      PROVE  p + live[p] <= kheap_max
  <2>1. p - H + mem[p - H].length <= kheap_max
    BY <1>1, <1>2, ChunkEnds
  <2>2. kheap_max \in Nat
    BY <1>1 DEF TypeOK
  <2> QED
    BY <1>2, <2>1, <2>2
<1>4. ASSUME NEW p \in DOMAIN live, NEW q \in DOMAIN live, p < q
      PROVE  p + live[p] <= q
  <2> DEFINE a == p - H
             b == q - H
  <2>1. a \in DOMAIN mem /\ b \in DOMAIN mem /\ a < b
    BY <1>2, <1>4
  <2> HIDE DEF a, b
  <2>2. a + mem[a].length <= b
    BY <1>1, <2>1 DEF ListInv, Ordered
  <2>3. a + mem[a].length >= p + live[p] /\ mem[a].length \in Nat /\ a \in Nat
    BY <1>2 DEF a
  <2>4. b \in Nat /\ q \in Nat /\ b <= q /\ p \in Nat /\ live[p] \in Nat
    BY <1>2 DEF b
  <2> QED
    BY <2>2, <2>3, <2>4
<1>5. ASSUME NEW p \in DOMAIN live, NEW q \in DOMAIN live \ {p}
      PROVE  ~Overlap(p, live[p], q, live[q])
  <2>1. /\ p \in Nat /\ q \in Nat /\ p # q
        /\ live[p] \in Nat /\ live[q] \in Nat
    BY <1>2
  <2>2. p < q => p + live[p] <= q
    BY <1>4
  <2>3. q < p => q + live[q] <= p
    BY <1>4
  <2> QED
    BY <2>1, <2>2, <2>3 DEF Overlap
<1>6. ASSUME NEW p \in DOMAIN live, NEW h \in DOMAIN mem, ~mem[h].allocated
      PROVE  ~Overlap(p, live[p], h, mem[h].length)
  <2> DEFINE a == p - H
  <2>1. /\ a \in DOMAIN mem /\ mem[a].allocated /\ a \in Nat /\ mem[a].length \in Nat
        /\ p \in Nat /\ live[p] \in Nat /\ a <= p /\ p + live[p] <= a + mem[a].length
    BY <1>2
  <2> HIDE DEF a
  <2>2. h \in Nat /\ mem[h].length \in Nat /\ a # h
    BY <1>1, <1>6, <2>1, HeaderTypes
  <2>3. (a < h => a + mem[a].length <= h) /\ (h < a => h + mem[h].length <= a)
    BY <1>1, <2>1 DEF ListInv, Ordered
  <2> QED
    BY <2>1, <2>2, <2>3 DEF Overlap
<1> QED
  BY <1>3, <1>5, <1>6 DEF MemoryIsCallers

\* Until split_chunk() writes its header or a tick frees the chunk at which
\* kmalloc() stands, memory from kmalloc() is mapped and belongs to its caller
\* alone (include/mm/kheap.h:15).
THEOREM CallersAreApart ==
  Spec => []CallersBefore
<1>1. HeapInv => CallersBefore
  BY CallersApart DEF CallersBefore
<1> QED
  BY <1>1, HeapSafe, PTL

=============================================================================
