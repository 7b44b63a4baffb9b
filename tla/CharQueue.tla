----------------------------- MODULE CharQueue -----------------------------
(***************************************************************************)
(* What the keyboard driver promises the kernel: characters come out of    *)
(* kbd_getchar() in the order in which they were typed, and it returns     *)
(* None ('\0') only when there are none (include/kernel/kbd.h:44).         *)
(*                                                                         *)
(* The driver keeps this promise with one exception, Overrun: when the     *)
(* reader is at the start of the buffer (atStart), the key that would fill *)
(* the queue empties it, and what was typed is lost.                       *)
(***************************************************************************)
EXTENDS Naturals, Sequences

CONSTANTS Char, None, Capacity

VARIABLES q,       \* typed and not yet returned
          ret,     \* what the last kbd_getchar() returned
          atStart

Init == q = << >> /\ ret = None

Put(c) == Len(q) < Capacity /\ q' = Append(q, c) /\ UNCHANGED ret

Get == q # << >> /\ ret' = Head(q) /\ q' = Tail(q)

GetNone == q = << >> /\ ret' = None /\ UNCHANGED q

\* The key that would fill the queue empties it.
Overrun(c) ==
  atStart /\ Len(q) >= Capacity - 1 /\ q' \in {<< >>, <<c>>} /\ UNCHANGED ret

LossyNext == Get \/ GetNone \/ \E c \in Char : Put(c) \/ Overrun(c)

LossySpec == Init /\ [][LossyNext]_<<q, ret>>

=============================================================================
