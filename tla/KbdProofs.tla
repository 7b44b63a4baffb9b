----------------------------- MODULE KbdProofs -----------------------------
(***************************************************************************)
(* Proofs about Kbd, for a ring of any length: the driver implements the   *)
(* queue that may lose its contents, the slot being read is not written,   *)
(* and control keys that are up are off.                                   *)
(*                                                                         *)
(* The indices are compared as numbers and used modulo N.  Between the     *)
(* increment of kbd_getchar() and its mask the index of the reader may be  *)
(* N; what keeps the slot it has left safe is that the test for a full     *)
(* buffer is exact in that very state: kbd_buffer_start - 1 is not         *)
(* negative then.                                                          *)
(***************************************************************************)
EXTENDS Kbd, TLAPS

-----------------------------------------------------------------------------
(* The inductive invariant                                                 *)

\* The reader moves only after kbd_init_driver(), and what it has read of the
\* index is the slot before it; a buffer that it has found not empty is emptied
\* only while its index is 0.
ReaderOK ==
  /\ boot # "done" => pc = "test" /\ ret = None
  /\ boot = "start" => kbd_buffer_start = 0
  /\ pc \in {"read", "mask"} => kbd_buffer_start = old + 1
  /\ pc \in {"test", "inc"} => kbd_buffer_start < N
  /\ pc = "inc" /\ kbd_buffer_start = kbd_buffer_end => kbd_buffer_start = 0

KbdInv == TypeOK /\ ReaderOK /\ ReleasedIsOff

Item == Char \cup {None}

\* What the abstract queue holds.
Content == IF boot = "done" THEN Pending ELSE << >>

-----------------------------------------------------------------------------
(* Arithmetic modulo the length of the ring                                *)

\* Remainders next to the range of indices.
LEMMA ModOnce ==
  ASSUME NEW n \in Nat, n > 0, NEW a \in Int
  PROVE  /\ a \in 0 .. n - 1 => a % n = a
         /\ a \in (-n) .. -1 => a % n = a + n
         /\ a \in n .. 2 * n - 1 => a % n = a - n
OBVIOUS

\* Appending and dropping, for sequences given as functions.
LEMMA Appended ==
  ASSUME NEW S, NEW n \in Nat, NEW f \in [1 .. n -> S], NEW g \in [1 .. n + 1 -> S],
         \A k \in 1 .. n : g[k] = f[k]
  PROVE  g = Append(f, g[n + 1]) /\ Len(f) = n
OBVIOUS

\* A sequence without its first item.
LEMMA Dropped ==
  ASSUME NEW S, NEW n \in Nat, NEW m \in Nat, m = n + 1,
         NEW f \in [1 .. m -> S], NEW g \in [1 .. n -> S],
         \A k \in 1 .. n : g[k] = f[k + 1]
  PROVE  g = Tail(f) /\ f[1] = Head(f) /\ f # << >>
OBVIOUS

\* A sequence of one item.
LEMMA OneItem ==
  ASSUME NEW S, NEW f \in [1 .. 1 -> S]
  PROVE  f = <<f[1]>>
OBVIOUS

\* A sequence of no item.
LEMMA NoItem ==
  ASSUME NEW S, NEW f \in [1 .. 0 -> S]
  PROVE  f = << >>
OBVIOUS

\* The number of characters that Pending has.
Count ==
  IF kbd_buffer_start <= kbd_buffer_end
  THEN IF kbd_buffer_start = kbd_buffer_end /\ pc = "inc" THEN N
       ELSE kbd_buffer_end - kbd_buffer_start
  ELSE kbd_buffer_end - kbd_buffer_start + N

\* The slot of the k-th of them.
Slot(k) == IF kbd_buffer_start + k - 1 < N THEN kbd_buffer_start + k - 1
           ELSE kbd_buffer_start + k - 1 - N

\* Pending without remainders.  An index that is N is about to become 0.
PendingOK ==
  /\ Count \in 0 .. N
  /\ \A k \in 1 .. Count : Slot(k) \in 0 .. N - 1
  /\ Pending \in [1 .. Count -> Item]
  /\ \A k \in 1 .. Count : Pending[k] = keyboard_buffer[Slot(k)]

\* What the buffer holds, by its indices.
LEMMA PendingIs == KbdInv => PendingOK
<1> SUFFICES ASSUME KbdInv PROVE PendingOK
  OBVIOUS
<1>1. /\ N \in Nat /\ N > 1 /\ kbd_buffer_start \in 0 .. N
      /\ kbd_buffer_end \in 0 .. N - 1 /\ keyboard_buffer \in [0 .. N - 1 -> Item]
      /\ kbd_buffer_start = N => pc # "inc"
  BY KbdAssumption DEF KbdInv, TypeOK, Item, ReaderOK
<1>2. Count \in 0 .. N /\ (kbd_buffer_start = N => Count < N)
  BY <1>1 DEF Count
<1>3. ASSUME NEW k \in 1 .. Count
      PROVE  Slot(k) \in 0 .. N - 1 /\ (kbd_buffer_start + k - 1) % N = Slot(k)
  <2>1. kbd_buffer_start + k - 1 \in 0 .. 2 * N - 1
    BY <1>1, <1>2
  <2> QED
    BY <1>1, <2>1, ModOnce DEF Slot
<1>4. (IF (kbd_buffer_end - kbd_buffer_start) % N = 0 /\ pc = "inc" THEN N
       ELSE (kbd_buffer_end - kbd_buffer_start) % N) = Count
  <2>1. CASE kbd_buffer_start <= kbd_buffer_end
    <3>1. kbd_buffer_end - kbd_buffer_start \in 0 .. N - 1
      BY <1>1, <2>1
    <3>2. (kbd_buffer_end - kbd_buffer_start) % N = kbd_buffer_end - kbd_buffer_start
      BY <1>1, <3>1, ModOnce
    <3> QED
      BY <1>1, <2>1, <3>2 DEF Count
  <2>2. CASE kbd_buffer_start > kbd_buffer_end
    <3>1. kbd_buffer_end - kbd_buffer_start \in (-N) .. -1
      BY <1>1, <2>2
    <3>2. (kbd_buffer_end - kbd_buffer_start) % N = kbd_buffer_end - kbd_buffer_start + N
      BY <1>1, <3>1, ModOnce
    <3> QED
      BY <1>1, <2>2, <3>2 DEF Count
  <2> QED
    BY <1>1, <2>1, <2>2
<1>5. Pending = [k \in 1 .. Count |-> keyboard_buffer[(kbd_buffer_start + k - 1) % N]]
  BY <1>4 DEF Pending
<1>6. Pending = [k \in 1 .. Count |-> keyboard_buffer[Slot(k)]]
  BY <1>3, <1>5, Zenon
<1> HIDE DEF Count, Slot
<1> QED
  BY <1>1, <1>2, <1>3, <1>6 DEF PendingOK

\* The same after a step.
LEMMA PendingIsNext == KbdInv' => PendingOK'
BY PendingIs, PTL

\* The test for a full buffer, without the wrap of 32-bit arithmetic.
LEMMA FullIs ==
  ASSUME KbdInv
  PROVE  Full <=> kbd_buffer_start > 0 /\ kbd_buffer_end = kbd_buffer_start - 1
<1>1. /\ N \in Nat /\ Word \in Nat /\ Word > N /\ N > 1 /\ kbd_buffer_start \in 0 .. N
      /\ kbd_buffer_end \in 0 .. N - 1
  BY KbdAssumption DEF KbdInv, TypeOK
<1>2. CASE kbd_buffer_start = 0
  <2>1. (kbd_buffer_start - 1) % Word = Word - 1
    <3>1. -1 \in (-Word) .. -1
      BY <1>1
    <3> QED
      BY <1>1, <1>2, <3>1, ModOnce
  <2> QED
    BY <1>1, <1>2, <2>1 DEF Full
<1>3. CASE kbd_buffer_start > 0
  <2>1. (kbd_buffer_start - 1) % Word = kbd_buffer_start - 1
    BY <1>1, <1>3, ModOnce
  <2> QED
    BY <1>1, <1>3, <2>1 DEF Full
<1> QED
  BY <1>1, <1>2, <1>3

\* The handler's step on the index, without a remainder.
LEMMA NextIndex ==
  ASSUME KbdInv
  PROVE  /\ (kbd_buffer_end + 1) % N = IF kbd_buffer_end = N - 1 THEN 0 ELSE kbd_buffer_end + 1
         /\ kbd_buffer_start % N = IF kbd_buffer_start = N THEN 0 ELSE kbd_buffer_start
<1>1. /\ N \in Nat /\ N > 1 /\ kbd_buffer_end \in 0 .. N - 1 /\ kbd_buffer_start \in 0 .. N
  BY KbdAssumption DEF KbdInv, TypeOK
<1>2. kbd_buffer_end + 1 \in 0 .. 2 * N - 1 /\ kbd_buffer_start \in 0 .. 2 * N - 1
  BY <1>1
<1> QED
  BY <1>1, <1>2, ModOnce

-----------------------------------------------------------------------------
(* The invariant is inductive                                              *)

\* The empty buffer.
LEMMA KbdInit == Init => KbdInv
BY KbdAssumption DEF Init, KbdInv, TypeOK, ReaderOK, ReleasedIsOff

\* What the handler stores stays within the ring.
LEMMA StoreKeeps ==
  ASSUME KbdInv, NEW ch \in Item, Store(ch), UNCHANGED <<boot, controls, held, reader>>
  PROVE  KbdInv'
<1>1. /\ N \in Nat /\ N > 1 /\ kbd_buffer_end \in 0 .. N - 1
      /\ keyboard_buffer \in [0 .. N - 1 -> Item]
  BY KbdAssumption DEF KbdInv, TypeOK, Item
<1>2. /\ kbd_buffer_start' = kbd_buffer_start /\ kbd_buffer_end' \in 0 .. N - 1
      /\ keyboard_buffer' \in [0 .. N - 1 -> Item]
  <2>1. (kbd_buffer_end + 1) % N \in 0 .. N - 1
    BY <1>1, NextIndex
  <2> QED
    BY <1>1, <2>1 DEF Store, ring
<1>3. kbd_buffer_start' = kbd_buffer_end' /\ pc' = "inc" => kbd_buffer_start' = 0
  <2>1. kbd_buffer_start \in 0 .. N /\ (kbd_buffer_start = N => pc # "inc") /\ pc' = pc
    BY DEF KbdInv, TypeOK, ReaderOK, reader
  <2>2. CASE Full
    BY <2>1, <2>2 DEF Store, ring, KbdInv, ReaderOK
  <2>3. CASE ~Full
    <3>1. /\ kbd_buffer_end' = IF kbd_buffer_end = N - 1 THEN 0 ELSE kbd_buffer_end + 1
          /\ kbd_buffer_start' = kbd_buffer_start
      BY <2>3, NextIndex DEF Store
    <3>2. ~(kbd_buffer_start > 0 /\ kbd_buffer_end = kbd_buffer_start - 1)
      BY <2>3, FullIs
    <3> QED
      BY <1>1, <2>1, <3>1, <3>2
  <2> QED
    BY <2>2, <2>3
<1> QED
  BY <1>2, <1>3 DEF KbdInv, TypeOK, ReaderOK, ReleasedIsOff, reader, Item

\* Every step keeps the invariant.
LEMMA KbdNext == KbdInv /\ [Next]_vars => KbdInv'
<1> SUFFICES ASSUME KbdInv, [Next]_vars PROVE KbdInv'
  OBVIOUS
<1>1. CASE kbd_init_driver
  <2>1. CASE RegisterHandler \/ kbd_switch_layout
    BY <2>1 DEF KbdInv, TypeOK, ReaderOK, ReleasedIsOff, RegisterHandler, kbd_switch_layout, ring, reader
  <2>2. CASE ResetStart
    BY <2>2, KbdAssumption DEF KbdInv, TypeOK, ReaderOK, ReleasedIsOff, ResetStart, reader
  <2>3. CASE ResetEnd
    BY <2>3, KbdAssumption DEF KbdInv, TypeOK, ReaderOK, ReleasedIsOff, ResetEnd, reader
  <2> QED
    BY <1>1, <2>1, <2>2, <2>3 DEF kbd_init_driver
<1>2. CASE PressEarly
  BY <1>2, StoreKeeps DEF PressEarly, Item
<1>3. CASE PressBlank
  BY <1>3, StoreKeeps DEF PressBlank, Item
<1>4. ASSUME NEW i \in Control, ReleaseControl(i) \/ PressControl(i) PROVE KbdInv'
  BY <1>4 DEF KbdInv, TypeOK, ReaderOK, ReleasedIsOff, ReleaseControl, PressControl, ring, reader
<1>5. ASSUME NEW k \in Key, PressKey(k) PROVE KbdInv'
  <2>1. <<k, Table>> \in Item
    BY DEF Item, Char, Table
  <2> QED
    BY <1>5, <2>1, StoreKeeps DEF PressKey
<1>6. CASE GetTest
  BY <1>6 DEF KbdInv, TypeOK, ReaderOK, ReleasedIsOff, GetTest, ring
<1>7. CASE GetIncrement
  BY <1>7, KbdAssumption DEF KbdInv, TypeOK, ReaderOK, ReleasedIsOff, GetIncrement
<1>8. CASE GetRead
  BY <1>8, KbdAssumption DEF KbdInv, TypeOK, ReaderOK, ReleasedIsOff, GetRead, ring
<1>9. CASE GetMask
  <2>1. kbd_buffer_start % N \in 0 .. N - 1
    BY NextIndex, KbdAssumption DEF KbdInv, TypeOK
  <2> QED
    BY <1>9, <2>1, KbdAssumption DEF KbdInv, TypeOK, ReaderOK, ReleasedIsOff, GetMask
<1>10. CASE UNCHANGED vars
  BY <1>10 DEF KbdInv, TypeOK, ReaderOK, ReleasedIsOff, vars, ring, reader
<1> QED
  BY <1>1, <1>2, <1>3, <1>4, <1>5, <1>6, <1>7, <1>8, <1>9, <1>10
  DEF Next, kbd_handler, kbd_getchar

-----------------------------------------------------------------------------
(* The handler is Put, Overrun or nothing                                  *)

\* Abstract steps, in terms of Content and HandedOver.
LEMMA QueueSteps ==
  /\ \A ch \in Item : Len(Content) < N /\ Content' = Append(Content, ch)
                      /\ HandedOver' = HandedOver => Queue!Put(ch)
  /\ \A ch \in Item : kbd_buffer_start = 0 /\ Len(Content) >= N - 1 /\ Content' \in {<< >>, <<ch>>}
                      /\ HandedOver' = HandedOver => Queue!Overrun(ch)
  /\ Content # << >> /\ HandedOver' = Head(Content) /\ Content' = Tail(Content) => Queue!Get
  /\ Content = << >> /\ HandedOver' = None /\ Content' = Content => Queue!GetNone
BY DEF Queue!Put, Queue!Overrun, Queue!Get, Queue!GetNone, Content

\* What was handed over is not in a slot that the handler writes.
LEMMA HandedOverKept ==
  ASSUME KbdInv, NEW ch \in Item, Store(ch), UNCHANGED reader
  PROVE  HandedOver' = HandedOver
<1>1. pc' = pc /\ old' = old /\ c' = c /\ ret' = ret
  BY DEF reader
<1>2. CASE pc = "read"
  <2>1. kbd_buffer_start = old + 1 /\ old \in 0 .. N - 1
    BY <1>2 DEF KbdInv, TypeOK, ReaderOK
  <2>2. CASE Full
    BY <1>1, <2>2 DEF Store, ring, HandedOver
  <2>3. CASE ~Full
    <3>1. kbd_buffer_end # old
      BY <2>1, <2>3, FullIs, KbdAssumption
    <3>2. keyboard_buffer'[old] = keyboard_buffer[old]
      BY <2>1, <2>3, <3>1 DEF Store, KbdInv, TypeOK
    <3> QED
      BY <1>1, <1>2, <3>2 DEF HandedOver
  <2> QED
    BY <2>2, <2>3
<1>3. CASE pc # "read"
  BY <1>1, <1>3 DEF HandedOver
<1> QED
  BY <1>2, <1>3

\* A character that is stored comes last, or it is the one too many.
LEMMA StoreStep ==
  ASSUME KbdInv, KbdInv', NEW ch \in Item, Store(ch), UNCHANGED <<boot, reader>>
  PROVE  \/ Content' = Content /\ HandedOver' = HandedOver
         \/ Queue!Put(ch) \/ Queue!Overrun(ch)
<1>1. boot' = boot /\ pc' = pc /\ HandedOver' = HandedOver
  BY HandedOverKept DEF reader
<1>2. CASE Full
  BY <1>1, <1>2 DEF Store, ring, Content, Pending
<1>3. CASE boot # "done"
  BY <1>1, <1>3 DEF Content
<1>4. CASE ~Full /\ boot = "done"
  <2>1. /\ N \in Nat /\ N > 1 /\ kbd_buffer_start \in 0 .. N /\ kbd_buffer_end \in 0 .. N - 1
        /\ keyboard_buffer \in [0 .. N - 1 -> Item]
        /\ kbd_buffer_start = N => pc \in {"read", "mask"}
        /\ pc \in {"read", "mask"} => kbd_buffer_start > 0
    BY KbdAssumption DEF KbdInv, TypeOK, ReaderOK, Item
  <2>2. /\ keyboard_buffer' = [keyboard_buffer EXCEPT ![kbd_buffer_end] = ch]
        /\ kbd_buffer_end' = IF kbd_buffer_end = N - 1 THEN 0 ELSE kbd_buffer_end + 1
        /\ kbd_buffer_start' = kbd_buffer_start
    BY <1>4, NextIndex DEF Store
  <2>3. ~(kbd_buffer_start > 0 /\ kbd_buffer_end = kbd_buffer_start - 1)
    BY <1>4, FullIs
  <2>4. /\ Count \in 0 .. N /\ Content \in [1 .. Count -> Item]
        /\ \A k \in 1 .. Count : Slot(k) \in 0 .. N - 1 /\ Content[k] = keyboard_buffer[Slot(k)]
    BY <1>4, PendingIs DEF Content, PendingOK
  <2>5. /\ Count' \in 0 .. N /\ Content' \in [1 .. Count' -> Item]
        /\ \A k \in 1 .. Count' : Content'[k] = keyboard_buffer'[Slot(k)']
    BY <1>1, <1>4, PendingIsNext DEF Content, PendingOK
  <2>6. \A k \in Nat : Slot(k)' = Slot(k)
    BY <2>2 DEF Slot
  <2>7. CASE Count = N
    <3>1. Count' = 1 /\ Slot(1) = kbd_buffer_end
      BY <1>1, <2>1, <2>2, <2>7 DEF Count, Slot
    <3>2. Content'[1] = ch
      BY <2>1, <2>2, <2>5, <2>6, <3>1
    <3>3. Content' = <<ch>>
      BY <2>5, <3>1, <3>2, OneItem
    <3>4. Len(Content) = N
      BY <2>1, <2>4, <2>7
    <3>5. kbd_buffer_start = 0
      BY <1>4, <2>1, <2>7 DEF Count, KbdInv, ReaderOK
    <3> QED
      BY <1>1, <2>1, <3>3, <3>4, <3>5, QueueSteps
  <2>8. CASE Count < N /\ Count' = 0
    <3>1. Count = N - 1
      BY <1>1, <2>1, <2>2, <2>3, <2>8 DEF Count
    <3>2. Len(Content) = N - 1
      BY <2>1, <2>4, <3>1
    <3>3. Content' = << >>
      BY <2>5, <2>8, NoItem
    <3>4. kbd_buffer_start = 0
      BY <1>1, <2>1, <2>2, <2>3, <2>8 DEF Count
    <3> QED
      BY <1>1, <2>1, <3>2, <3>3, <3>4, QueueSteps
  <2>9. CASE Count < N /\ Count' # 0
    <3>1. Count' = Count + 1 /\ Slot(Count + 1) = kbd_buffer_end
      BY <1>1, <2>1, <2>2, <2>3, <2>9 DEF Count, Slot
    <3>2. ASSUME NEW k \in 1 .. Count PROVE Slot(k) # kbd_buffer_end
      BY <2>1, <2>4, <2>9, <3>1 DEF Slot
    <3>3. \A k \in 1 .. Count : Content'[k] = Content[k]
      BY <2>1, <2>2, <2>4, <2>5, <2>6, <3>1, <3>2
    <3>4. Content'[Count + 1] = ch
      BY <2>1, <2>2, <2>4, <2>5, <2>6, <3>1
    <3>5. Content' = Append(Content, ch) /\ Len(Content) = Count
      BY <2>4, <2>5, <3>1, <3>3, <3>4, Appended
    <3> QED
      BY <1>1, <2>1, <2>4, <2>9, <3>5, QueueSteps
  <2> QED
    BY <2>1, <2>4, <2>7, <2>8, <2>9
<1> QED
  BY <1>2, <1>3, <1>4

-----------------------------------------------------------------------------
(* The reader is Get at its increment, GetNone at its test, or nothing     *)

\* The reader's test of the two indices takes nothing from the queue.
LEMMA TestStep ==
  ASSUME KbdInv, KbdInv', GetTest
  PROVE  (Content' = Content /\ HandedOver' = HandedOver) \/ Queue!GetNone
<1>1. /\ boot = "done" /\ boot' = boot /\ pc = "test"
      /\ kbd_buffer_start' = kbd_buffer_start /\ kbd_buffer_end' = kbd_buffer_end
      /\ keyboard_buffer' = keyboard_buffer
  BY DEF GetTest, ring
<1>2. CASE kbd_buffer_start # kbd_buffer_end
  <2>1. pc' = "inc" /\ ret' = ret
    BY <1>2 DEF GetTest
  <2>2. /\ Count' = Count /\ \A k \in Nat : Slot(k)' = Slot(k)
    BY <1>1, <1>2, <2>1 DEF Count, Slot
  <2>3. Content' = Content
    BY <1>1, <2>2, PendingIs, PendingIsNext DEF Content, PendingOK
  <2> QED
    BY <1>1, <2>1, <2>3 DEF HandedOver
<1>3. CASE kbd_buffer_start = kbd_buffer_end
  <2>1. pc' = pc /\ ret' = None
    BY <1>3 DEF GetTest
  <2>2. Count = 0
    BY <1>1, <1>3 DEF Count, KbdInv, TypeOK
  <2>3. Content = << >>
    BY <1>1, <2>2, PendingIs, NoItem DEF Content, PendingOK
  <2>4. Content' = Content
    BY <1>1, <2>1 DEF Content, Pending
  <2> QED
    BY <1>1, <2>1, <2>3, <2>4, QueueSteps DEF HandedOver
<1> QED
  BY <1>2, <1>3

\* The reader's increment of the index is where the first character leaves the
\* queue.
LEMMA IncrementStep ==
  ASSUME KbdInv, KbdInv', GetIncrement
  PROVE  Queue!Get
<1>1. /\ boot' = boot /\ pc = "inc" /\ pc' = "read" /\ old' = kbd_buffer_start
      /\ kbd_buffer_start' = kbd_buffer_start + 1 /\ kbd_buffer_end' = kbd_buffer_end
      /\ keyboard_buffer' = keyboard_buffer
  BY DEF GetIncrement
<1>2. boot = "done" /\ kbd_buffer_start < N
  BY <1>1 DEF KbdInv, ReaderOK
<1>3. N \in Nat /\ N > 1 /\ kbd_buffer_start \in 0 .. N /\ kbd_buffer_end \in 0 .. N - 1
  BY KbdAssumption DEF KbdInv, TypeOK
<1>4. Count' = Count - 1 /\ Slot(1) = kbd_buffer_start
  BY <1>1, <1>2, <1>3 DEF Count, Slot
<1>5. \A k \in Nat : Slot(k)' = Slot(k + 1)
  BY <1>1, <1>3 DEF Slot
<1>6. /\ Count' \in Nat /\ Count \in Nat
      /\ Content \in [1 .. Count -> Item] /\ Content' \in [1 .. Count' -> Item]
      /\ \A k \in 1 .. Count' : Content'[k] = Content[k + 1]
      /\ Content[1] = keyboard_buffer[kbd_buffer_start]
  <2>1. /\ Content = Pending /\ Content' = Pending' /\ PendingOK /\ PendingOK'
    BY <1>1, <1>2, PendingIs, PendingIsNext DEF Content
  <2>2. Count' \in Nat /\ Count \in Nat
    BY <1>3, <1>4, <2>1 DEF PendingOK
  <2>3. \A k \in 1 .. Count' : k + 1 \in 1 .. Count /\ k \in Nat
    BY <1>4, <2>2
  <2>4. ASSUME NEW k \in 1 .. Count' PROVE Content'[k] = Content[k + 1]
    <3>1. Pending'[k] = keyboard_buffer'[Slot(k)']
      BY <2>1, Zenon DEF PendingOK
    <3>2. Pending[k + 1] = keyboard_buffer[Slot(k + 1)]
      BY <2>1, <2>3, Zenon DEF PendingOK
    <3>3. Slot(k)' = Slot(k + 1)
      BY <1>5, <2>3, Zenon
    <3> QED
      BY <1>1, <2>1, <3>1, <3>2, <3>3, Zenon
  <2>5. 1 \in 1 .. Count
    BY <1>4, <2>2
  <2>6. Content[1] = keyboard_buffer[kbd_buffer_start]
    BY <1>4, <2>1, <2>5, Zenon DEF PendingOK
  <2> QED
    BY <2>1, <2>2, <2>4, <2>6 DEF PendingOK
<1>7. Content' = Tail(Content) /\ Content[1] = Head(Content) /\ Content # << >>
  BY <1>4, <1>6, Dropped
<1>8. HandedOver' = Content[1]
  BY <1>1, <1>6 DEF HandedOver
<1> QED
  BY <1>7, <1>8, QueueSteps

\* The read of a slot leaves the queue alone.
LEMMA ReadStep ==
  ASSUME KbdInv, GetRead
  PROVE  Content' = Content /\ HandedOver' = HandedOver
BY DEF GetRead, Content, Pending, HandedOver, ring

\* The reader's remainder brings the index back to 0; nothing leaves the queue.
LEMMA MaskStep ==
  ASSUME KbdInv, KbdInv', GetMask
  PROVE  Content' = Content /\ HandedOver' = HandedOver
<1>1. /\ boot' = boot /\ pc = "mask" /\ pc' = "test" /\ ret' = c
      /\ kbd_buffer_start' = (IF kbd_buffer_start = N THEN 0 ELSE kbd_buffer_start)
      /\ kbd_buffer_end' = kbd_buffer_end /\ keyboard_buffer' = keyboard_buffer
  BY NextIndex DEF GetMask
<1>2. N \in Nat /\ N > 1 /\ kbd_buffer_start \in 0 .. N /\ kbd_buffer_end \in 0 .. N - 1
  BY KbdAssumption DEF KbdInv, TypeOK
<1>3. Count' = Count /\ Count \in 0 .. N - 1
  BY <1>1, <1>2 DEF Count
<1>4. \A k \in 1 .. Count : Slot(k)' = Slot(k)
  BY <1>1, <1>2, <1>3 DEF Slot
<1>5. Content' = Content
  BY <1>1, <1>3, <1>4, PendingIs, PendingIsNext DEF Content, PendingOK
<1> QED
  BY <1>1, <1>5 DEF HandedOver

-----------------------------------------------------------------------------
(* The theorems                                                            *)

\* Before the driver is ready the queue is empty, and it is when it becomes so.
LEMMA BootStep ==
  ASSUME KbdInv, KbdInv', kbd_init_driver
  PROVE  Content' = Content /\ HandedOver' = HandedOver
<1>1. boot # "done" /\ pc = "test" /\ pc' = pc /\ ret' = ret
  BY DEF kbd_init_driver, RegisterHandler, kbd_switch_layout, ResetStart, ResetEnd, reader, KbdInv, ReaderOK
<1>2. HandedOver' = HandedOver /\ Content = << >>
  BY <1>1 DEF HandedOver, Content
<1>3. CASE boot' # "done"
  BY <1>2, <1>3 DEF Content
<1>4. CASE boot' = "done"
  <2>1. kbd_buffer_start' = 0 /\ kbd_buffer_end' = 0
    BY <1>4 DEF kbd_init_driver, RegisterHandler, kbd_switch_layout, ResetStart, ResetEnd, KbdInv, ReaderOK
  <2>2. Count' = 0
    BY <1>1, <2>1 DEF Count
  <2>3. Content' = << >>
    BY <1>4, <2>2, PendingIsNext, NoItem DEF Content, PendingOK
  <2> QED
    BY <1>2, <2>3
<1> QED
  BY <1>3, <1>4

\* Every step is one of the queue, or leaves it alone.
LEMMA QueueStep ==
  ASSUME KbdInv, KbdInv', [Next]_vars
  PROVE  Queue!LossyNext \/ UNCHANGED <<Content, HandedOver>>
<1>1. CASE kbd_init_driver
  BY <1>1, BootStep
<1>2. ASSUME NEW ch \in Item, Store(ch), UNCHANGED <<boot, reader>>
      PROVE  Queue!LossyNext \/ UNCHANGED <<Content, HandedOver>>
  BY <1>2, StoreStep DEF Queue!LossyNext, Item
<1>3. CASE PressEarly \/ PressBlank
  BY <1>2, <1>3 DEF PressEarly, PressBlank, Item
<1>4. ASSUME NEW i \in Control, ReleaseControl(i) \/ PressControl(i)
      PROVE  UNCHANGED <<Content, HandedOver>>
  BY <1>4 DEF ReleaseControl, PressControl, Content, Pending, HandedOver, ring, reader
<1>5. ASSUME NEW k \in Key, PressKey(k)
      PROVE  Queue!LossyNext \/ UNCHANGED <<Content, HandedOver>>
  <2>1. <<k, Table>> \in Item
    BY DEF Item, Char, Table
  <2> QED
    BY <1>2, <1>5, <2>1 DEF PressKey
<1>6. CASE kbd_getchar
  BY <1>6, TestStep, IncrementStep, ReadStep, MaskStep DEF kbd_getchar, Queue!LossyNext
<1>7. CASE UNCHANGED vars
  BY <1>7 DEF vars, Content, Pending, HandedOver, ring, reader
<1> QED
  BY <1>1, <1>3, <1>4, <1>5, <1>6, <1>7 DEF Next, kbd_handler

\* The queue is empty at first.
LEMMA QueueInit == Init => Queue!Init
BY DEF Init, Queue!Init, HandedOver

\* For a ring of any length: what kbd_getchar() returns are the characters that
\* kbd_handler() stored, once and in order, wherever it interrupts the reader;
\* the one exception is a key that finds at most one slot left while
\* kbd_buffer_start is 0, where the test of kbd.c:173 never stops it: it empties
\* the queue.
THEOREM LosesOnlyByOverrun == Spec => LossyPromise
<1>1. Init => KbdInv /\ Queue!Init
  BY KbdInit, QueueInit
<1>2. KbdInv /\ [Next]_vars => KbdInv'
  BY KbdNext
<1>3. KbdInv /\ KbdInv' /\ [Next]_vars => [Queue!LossyNext]_<<Content, HandedOver>>
  BY QueueStep
<1>4. Spec => Queue!Init /\ [][Queue!LossyNext]_<<Content, HandedOver>>
  BY <1>1, <1>2, <1>3, PTL DEF Spec
<1> QED
  BY <1>4, PTL DEF LossyPromise, Queue!LossySpec, Content

\* The slot the reader is about to read is not written meanwhile: in that state,
\* and although the index is already past it, the test for a full ring is exact.
THEOREM SlotIsKept == Spec => SlotNotReused
<1>1. ASSUME KbdInv, [Next]_vars
      PROVE  pc = "read" => keyboard_buffer'[old] = keyboard_buffer[old]
  <2> SUFFICES ASSUME pc = "read" PROVE keyboard_buffer'[old] = keyboard_buffer[old]
    OBVIOUS
  <2>1. boot = "done" /\ kbd_buffer_start = old + 1 /\ old \in 0 .. N - 1
    BY <1>1 DEF KbdInv, ReaderOK, TypeOK
  <2>2. ASSUME NEW ch, Store(ch) PROVE keyboard_buffer'[old] = keyboard_buffer[old]
    <3>1. CASE Full
      BY <2>2, <3>1 DEF Store, ring
    <3>2. CASE ~Full
      <4>1. kbd_buffer_end # old
        BY <1>1, <2>1, <3>2, FullIs, KbdAssumption
      <4> QED
        BY <1>1, <2>1, <2>2, <3>2, <4>1 DEF Store, KbdInv, TypeOK
    <3> QED
      BY <3>1, <3>2
  <2>3. CASE \E ch : Store(ch)
    BY <2>2, <2>3
  <2>4. CASE keyboard_buffer' = keyboard_buffer
    BY <2>4
  <2> QED
    BY <1>1, <2>1, <2>3, <2>4 DEF Next, vars, ring, kbd_init_driver, RegisterHandler, kbd_switch_layout,
       ResetStart, ResetEnd, kbd_handler, PressEarly, PressBlank, ReleaseControl, PressControl,
       PressKey, kbd_getchar, GetTest, GetIncrement, GetRead, GetMask
<1> QED
  BY <1>1, KbdInit, KbdNext, PTL DEF Spec, SlotNotReused

\* A control key of the first five that is up has no effect, however often its
\* make code was repeated while it was down.
THEOREM UpIsOff == Spec => []ReleasedIsOff
<1>1. KbdInv => ReleasedIsOff
  BY DEF KbdInv
<1> QED
  BY <1>1, KbdInit, KbdNext, PTL DEF Spec

=============================================================================
