------------------------------- MODULE KHeap -------------------------------
(***************************************************************************)
(* The kernel heap, kernel/mm/kheap.c: a doubly linked list of chunks,     *)
(* each a header followed by the caller's bytes; first fit; free           *)
(* neighbours are joined, and a free chunk at the end is given back        *)
(* together with the pages behind it.                                      *)
(*                                                                         *)
(* mem gives the header at an address.  Nothing else of the memory is      *)
(* modelled; a header that has become part of another chunk is forgotten.  *)
(*                                                                         *)
(* exec_thread() calls kmalloc() with interrupts enabled, and schedule()   *)
(* calls kfree() in the timer handler: a kfree() may come between any two  *)
(* steps of kmalloc().  kmalloc() is one step per access that can see what *)
(* a kfree() does; the accesses of Extend are one step, since a kfree()    *)
(* that leaves the last chunk alone touches nothing they use.  kfree() is  *)
(* one step: its callers run with interrupts disabled.  There is one       *)
(* kmalloc() at a time, as only kmain spawns.                              *)
(*                                                                         *)
(* The model is left (damaged) where split_chunk() writes its header, and  *)
(* where a kfree() takes off the list the chunk at which kmalloc() stands, *)
(* which then works on a stale header.                                     *)
(*                                                                         *)
(* Writes through a null header pointer go to page 0, which is mapped and  *)
(* which nobody reads (Set... ignore them).                                *)
(***************************************************************************)
EXTENDS Naturals, FiniteSets

CONSTANTS
  KHEAP_START, KHEAP_END,
  PAGE_SIZE,
  H,             \* sizeof(kheader_t)
  Size           \* the sizes that are asked for

ASSUME KHeapAssumption ==
  /\ {KHEAP_START, KHEAP_END, PAGE_SIZE, H} \subseteq Nat \ {0}
  /\ KHEAP_START % PAGE_SIZE = 0 /\ KHEAP_END % PAGE_SIZE = 0
  /\ KHEAP_START < KHEAP_END
  /\ Size \subseteq Nat

Address == KHEAP_START .. KHEAP_END - 1

kheader_t == [prev : Address \cup {0}, next : Address \cup {0},
              allocated : BOOLEAN, length : Nat]

VARIABLES
  kheap_first,
  kheap_max,
  mem,          \* the headers, by address
  live,         \* the blocks handed out: the size asked for, by address
  pc,           \* where kmalloc() is
  len, cur_header, prev_header,   \* its locals
  damaged,      \* split_chunk() has written a header, or kmalloc() holds
                \* one that is no longer in the list
  fault         \* whether the kernel has stopped

heap   == <<kheap_first, kheap_max, mem, live, damaged>>
locals == <<pc, len, cur_header, prev_header>>
vars   == <<heap, locals, fault>>

Init ==
  /\ kheap_first = 0 /\ kheap_max = KHEAP_START
  /\ mem = << >> /\ live = << >>
  /\ pc = "idle" /\ len = 0 /\ cur_header = 0 /\ prev_header = 0
  /\ damaged = FALSE /\ fault = FALSE

TypeOK ==
  /\ kheap_first \in DOMAIN mem \cup {0}
  /\ kheap_max \in KHEAP_START .. KHEAP_END
  /\ DOMAIN mem \subseteq Address /\ mem \in [DOMAIN mem -> kheader_t]
  /\ DOMAIN live \subseteq Address \cup {KHEAP_END} /\ live \in [DOMAIN live -> Size]
  /\ pc \in {"idle", "search", "next", "take", "mark", "extend"}
  /\ len \in Nat
  /\ {cur_header, prev_header} \subseteq Address \cup {0}
  /\ damaged \in BOOLEAN /\ fault \in BOOLEAN

-----------------------------------------------------------------------------

RoundUp(a) == ((a + PAGE_SIZE - 1) \div PAGE_SIZE) * PAGE_SIZE

With(f, x, y) == [a \in DOMAIN f \cup {x} |-> IF a = x THEN y ELSE f[a]]

Without(f, S) == [a \in DOMAIN f \ S |-> f[a]]

SetPrev(m, a, p) == IF a = 0 THEN m ELSE [m EXCEPT ![a].prev = p]

SetNext(m, a, n) == IF a = 0 THEN m ELSE [m EXCEPT ![a].next = n]

panic == fault' = TRUE /\ UNCHANGED <<heap, locals>>

Running == ~fault /\ ~damaged

\* The caller gets the bytes behind the header h and has asked for len - H.
Return(h) ==
  /\ live' = With(live, h + H, len - H)
  /\ pc' = "idle" /\ len' = 0 /\ cur_header' = 0 /\ prev_header' = 0

-----------------------------------------------------------------------------
(* kmalloc(), and kmalloc_zero(), which then clears the caller's bytes.    *)

kmalloc(n) ==
  /\ Running /\ pc = "idle"
  /\ len' = n + H
  /\ cur_header' = kheap_first /\ prev_header' = 0
  /\ pc' = "search"
  /\ UNCHANGED <<heap, fault>>

\* Mutant: the header is not counted.
FitsWithoutHeader(h) == ~mem[h].allocated /\ mem[h].length + H >= len

Fits(h) == ~mem[h].allocated /\ mem[h].length >= len

\* while (cur_header) and the test inside.
Search ==
  /\ Running /\ pc = "search"
  /\ pc' = IF cur_header = 0 THEN "extend"
           ELSE IF Fits(cur_header) THEN "take" ELSE "next"
  /\ UNCHANGED <<heap, len, cur_header, prev_header, fault>>

Advance ==
  /\ Running /\ pc = "next"
  /\ prev_header' = cur_header
  /\ cur_header' = mem[cur_header].next
  /\ pc' = "search"
  /\ UNCHANGED <<heap, len, fault>>

\* The new header goes where the old length ends, so to the next chunk.
split_chunk(m, c, n) ==
  LET newchunk == c + m[c].length
  IN  [With(m, newchunk, [prev |-> c, next |-> m[c].next, allocated |-> FALSE,
                          length |-> m[c].length - n])
       EXCEPT ![c].next = newchunk, ![c].length = n]

Splits(h) == mem[h].length - len > H

\* cur_header->allocated = 1, in the list m.
Take(m) ==
  /\ mem' = [m EXCEPT ![cur_header].allocated = TRUE]
  /\ Return(cur_header)
  /\ UNCHANGED <<kheap_first, kheap_max, fault>>

TakeSplit ==
  /\ Running /\ pc = "take" /\ Splits(cur_header)
  /\ Take(split_chunk(mem, cur_header, len))
  /\ damaged' = TRUE

TakeWhole ==
  /\ Running /\ pc = "take" /\ ~Splits(cur_header)
  /\ pc' = "mark"
  /\ UNCHANGED <<heap, len, cur_header, prev_header, fault>>

Mark ==
  /\ Running /\ pc = "mark"
  /\ Take(mem)
  /\ UNCHANGED damaged

NoRoomFor(start, n) == KHEAP_END - start < n

\* Where the heap ends once the pages for the new chunk are mapped.
alloc_chunk(start, n) == IF start + n > kheap_max THEN RoundUp(start + n) ELSE kheap_max

Extend ==
  LET start == IF prev_header = 0 THEN KHEAP_START
               ELSE prev_header + mem[prev_header].length
  IN
  /\ Running /\ pc = "extend"
  /\ IF NoRoomFor(start, len)
     THEN panic
     ELSE /\ kheap_first' = IF prev_header = 0 THEN KHEAP_START ELSE kheap_first
          /\ kheap_max' = alloc_chunk(start, len)
          /\ mem' = With(SetNext(mem, prev_header, start), start,
                         [prev |-> prev_header, next |-> 0,
                          allocated |-> TRUE, length |-> len])
          /\ Return(start)
          /\ UNCHANGED <<damaged, fault>>

-----------------------------------------------------------------------------
(* kfree()                                                                 *)

IsFree(m, h) == h # 0 /\ ~m[h].allocated

\* Mutant: the chunk that follows keeps its pointer to the chunk that is gone.
JoinForgets(m, a, b) ==
  [m EXCEPT ![a].length = @ + m[b].length, ![a].next = m[b].next]

\* The chunk b becomes a part of the chunk a before it.
Join(m, a, b) ==
  LET n == m[b].next
  IN  [SetPrev(m, n, a) EXCEPT ![a].length = @ + m[b].length, ![a].next = n]

\* The halves of glue_chunk(): join the next chunk to this one, and this one
\* to the previous one.
GlueNext(m, c) == IF IsFree(m, m[c].next) THEN Join(m, c, m[c].next) ELSE m

GluePrev(m, c) == IF IsFree(m, m[c].prev) THEN Join(m, m[c].prev, c) ELSE m

\* Mutant: the last page that has become free stays mapped.
ContractLess(c) == IF kheap_max > RoundUp(c) THEN RoundUp(c + 1) ELSE kheap_max

\* free_chunk() gives pages back while the whole page lies behind the chunk.
Contract(c) == IF kheap_max > RoundUp(c) THEN RoundUp(c) ELSE kheap_max

\* if (chunk->prev == 0) kheap_first = 0;
FirstAfter(m, c) == IF m[c].prev = 0 THEN 0 ELSE kheap_first

\* The list without its last chunk.
free_chunk(m, c) == SetNext(m, m[c].prev, 0)

\* The chunk whose address kmalloc() will use again.
Held == IF pc = "idle" THEN {}
        ELSE IF cur_header = 0 THEN {prev_header} ELSE {cur_header}

\* Between two calls of kmalloc(), or in the tick inside of one.
kfree(p) ==
  LET h    == p - H
      m0   == [mem EXCEPT ![h].allocated = FALSE]
      m1   == GlueNext(m0, h)
      m2   == GluePrev(m1, h)
      c    == IF IsFree(m1, m1[h].prev) THEN m1[h].prev ELSE h
      last == m2[c].next = 0
      gone == ({m0[h].next} \ {m1[h].next}) \cup ({h} \ {c})
              \cup (IF last THEN {c} ELSE {})
      m3   == IF last THEN free_chunk(m2, c) ELSE m2
  IN
  /\ Running
  /\ mem' = Without(m3, gone)
  /\ kheap_first' = IF last THEN FirstAfter(m2, c) ELSE kheap_first
  /\ kheap_max' = IF last THEN Contract(c) ELSE kheap_max
  /\ live' = Without(live, {p})
  /\ damaged' = (gone \cap Held # {})
  /\ UNCHANGED <<locals, fault>>

\* What follows is not modelled.
Halted == (fault \/ damaged) /\ UNCHANGED vars

Next ==
  \/ \E n \in Size : kmalloc(n)
  \/ Search \/ Advance \/ TakeSplit \/ TakeWhole \/ Mark \/ Extend
  \/ \E p \in DOMAIN live : kfree(p)
  \/ Halted

Spec == Init /\ [][Next]_vars

-----------------------------------------------------------------------------
(* Properties                                                              *)

\* The chunks follow each other without gap or overlap, and the links agree in
\* both directions.
Tiled ==
  \A h \in DOMAIN mem :
    LET n == mem[h].next
        p == mem[h].prev
    IN  /\ n # 0 => n \in DOMAIN mem /\ n = h + mem[h].length /\ mem[n].prev = h
        /\ IF p = 0 THEN h = KHEAP_START /\ h = kheap_first
           ELSE p \in DOMAIN mem /\ mem[p].next = h

\* No two neighbours are free and the last chunk is in use: glue_chunk() leaves
\* nothing to join.
Coalesced ==
  \A h \in DOMAIN mem :
    ~mem[h].allocated => mem[h].next # 0 /\ mem[mem[h].next].allocated

\* The list of chunks is sound, after every sequence of sizes and orders of
\* kmalloc() and kfree() and wherever a kfree() comes inside of kmalloc(): no
\* gap, nothing left to join, no link to a chunk that has been cut off.  This
\* holds up to the first split, and up to the first tick that frees the chunk at
\* which kmalloc() stands.
ListSound == TypeOK /\ (~damaged => Tiled /\ Coalesced)

\* Likewise, the chunks in use are those that callers hold, and each is as
\* large as its caller asked for: no free of one chunk loses another.
LiveKept ==
  ~damaged =>
    /\ DOMAIN live = {h + H : h \in {a \in DOMAIN mem : mem[a].allocated}}
    /\ \A p \in DOMAIN live : mem[p - H].length >= live[p] + H

\* Likewise, the heap maps exactly the pages up to its last byte: chunks lie in
\* mapped memory, and no page stays behind.
PagesExact ==
  ~damaged =>
    kheap_max = IF mem = << >> THEN KHEAP_START
                ELSE LET h == CHOOSE a \in DOMAIN mem : mem[a].next = 0
                     IN  RoundUp(h + mem[h].length)

Overlap(a, n, b, k) == a < b + k /\ b < a + n

\* include/mm/kheap.h:15: kmalloc() "returns a pointer to a chunk of memory", so
\* until it is freed the memory is mapped and belongs to no other caller and to
\* no free chunk.
MemoryIsCallers ==
  \A p \in DOMAIN live :
    /\ p + live[p] <= kheap_max
    /\ \A q \in DOMAIN live \ {p} : ~Overlap(p, live[p], q, live[q])
    /\ \A h \in DOMAIN mem :
         ~mem[h].allocated => ~Overlap(p, live[p], h, mem[h].length)

=============================================================================
