-------------------------------- MODULE List --------------------------------
(***************************************************************************)
(* list_t of kernel/lib/list.c: an array of pointers with a size and a     *)
(* cursor.  The run queues of the scheduler (the list of tasks, and the    *)
(* list of threads of every task) are such lists.                          *)
(*                                                                         *)
(* The array has Slots entries: list_new() asks kmalloc for six pointers   *)
(* and writes 8 into a capacity field that nothing reads, because the      *)
(* calls of __resize() are commented out.  A slot that no push has filled, *)
(* or whose pointer list_remove() has taken out, holds Junk: kmalloc does  *)
(* not clear the array, and the vacated slot still holds the address of a  *)
(* structure the caller frees.                                             *)
(***************************************************************************)
EXTENDS Naturals

CONSTANTS
  Slots,  \* pointers the array has room for (6 in list_new)
  Junk,   \* what an unfilled or vacated slot holds
  NULL    \* the null pointer

ASSUME SlotsAssumption == Slots \in Nat \ {0}

Slot == 0 .. Slots - 1

list_t(E) == [elems : [Slot -> E \cup {Junk}], size : Nat, curr : Nat]

list_new == [elems |-> [i \in Slot |-> Junk], size |-> 0, curr |-> 0]

list_is_empty(l) == l.size = 0

list_is_end(l) == l.curr >= l.size

\* What a read of elems[i] gives; past the end of the array it is heap data.
ElemAt(l, i) == IF i \in Slot THEN l.elems[i] ELSE Junk

list_current(l) == IF l.curr < l.size THEN ElemAt(l, l.curr) ELSE NULL

list_next(l) == [l EXCEPT !.curr = @ + 1]

list_rewind(l) == [l EXCEPT !.curr = 0]

(***************************************************************************)
(* list->elems[list->size++] = ptr is three memory accesses: the size is   *)
(* read, the incremented size is written, and the pointer is stored under  *)
(* the old size.  Callers that run with interrupts enabled can be          *)
(* preempted between any two of them.                                      *)
(***************************************************************************)
list_push_size(l, n) == [l EXCEPT !.size = n + 1]

list_push_elem(l, n, p) == [l EXCEPT !.elems = [@ EXCEPT ![n] = p]]

\* The whole push, for callers that have disabled interrupts.
list_push_back(l, p) == list_push_elem(list_push_size(l, l.size), l.size, p)



\* Exchange the current element with the last one and drop the last slot.
list_remove(l) ==
  IF list_is_end(l)
  THEN l
  ELSE [l EXCEPT !.size  = l.size - 1,
                 !.elems = [i \in Slot |->
                              IF i = l.size - 1 THEN Junk
                              ELSE IF i = l.curr THEN ElemAt(l, l.size - 1)
                              ELSE l.elems[i]]]

=============================================================================
