-------------------------------- MODULE Kbd --------------------------------
(***************************************************************************)
(* The keyboard driver, kernel/kernel/kbd.c: the interrupt handler that    *)
(* translates scancodes and fills a ring buffer, and kbd_getchar() that    *)
(* the kernel thread calls in a loop.                                      *)
(*                                                                         *)
(* The handler runs with interrupts disabled and is one step.              *)
(* kbd_getchar() and kbd_init_driver() run with interrupts enabled, so the *)
(* handler may run between any two of their memory accesses.  As compiled  *)
(* (no optimisation), kbd_buffer_start++ is stored before the slot is      *)
(* read, and the index is masked after that.                               *)
(*                                                                         *)
(* A key that is neither released nor a control key is a member of Key;    *)
(* the character it gives is the pair of the key and the table used.       *)
(* held records which control keys are down: it is the keyboard's state,   *)
(* not the driver's.                                                       *)
(***************************************************************************)
EXTENDS Integers, Sequences

CONSTANTS
  N,         \* slots of keyboard_buffer, a power of two (256)
  Word,      \* values of an uint32_t (2^32)
  Key,       \* keys that give characters
  Control,   \* control keys in use, as bit positions 0 .. 7
  None       \* '\0'

CONTROL  == 0
LSHIFT   == 3
RSHIFT   == 4
CAPSLOCK == 5

ASSUME KbdAssumption ==
  /\ N \in Nat /\ N > 1
  /\ Word \in Nat /\ Word > N
  /\ Control \subseteq 0 .. 7

Char == Key \X {"plain", "shift"}

ASSUME NoneAssumption == None \notin Char

VARIABLES
  boot,              \* how far kbd_init_driver() has come
  kbd_buffer_start,
  kbd_buffer_end,
  keyboard_buffer,
  controls,          \* kbd_current_layout->controls
  held,              \* control keys that are down
  pc,                \* where kbd_getchar() is
  old,               \* the index its ++ has read
  c,                 \* its local
  ret                \* what the last kbd_getchar() returned

ring   == <<kbd_buffer_start, kbd_buffer_end, keyboard_buffer>>
reader == <<pc, old, c, ret>>
vars   == <<boot, ring, controls, held, reader>>

TypeOK ==
  /\ boot \in {"off", "handler", "layout", "start", "done"}
  /\ kbd_buffer_start \in 0 .. N
  /\ kbd_buffer_start = N => pc \in {"read", "mask"}
  /\ kbd_buffer_end \in 0 .. N - 1
  /\ keyboard_buffer \in [0 .. N - 1 -> Char \cup {None}]
  /\ controls \in SUBSET Control
  /\ held \in SUBSET Control
  /\ pc \in {"test", "inc", "read", "mask"}
  /\ old \in 0 .. N - 1
  /\ c \in Char \cup {None}
  /\ ret \in Char \cup {None}

Init ==
  /\ boot = "off"
  /\ kbd_buffer_start = 0 /\ kbd_buffer_end = 0
  /\ keyboard_buffer = [i \in 0 .. N - 1 |-> None]
  /\ controls = {} /\ held = {}
  /\ pc = "test" /\ old = 0 /\ c = None /\ ret = None

-----------------------------------------------------------------------------
(* kbd_init_driver()                                                       *)

\* register_interrupt_handler(): from here on keys reach kbd_handler().
RegisterHandler ==
  /\ boot = "off" /\ boot' = "handler"
  /\ UNCHANGED <<ring, controls, held, reader>>

kbd_switch_layout ==
  /\ boot = "handler" /\ boot' = "layout"
  /\ UNCHANGED <<ring, controls, held, reader>>

ResetStart ==
  /\ boot = "layout" /\ boot' = "start"
  /\ kbd_buffer_start' = 0
  /\ UNCHANGED <<kbd_buffer_end, keyboard_buffer, controls, held, reader>>

ResetEnd ==
  /\ boot = "start" /\ boot' = "done"
  /\ kbd_buffer_end' = 0
  /\ UNCHANGED <<kbd_buffer_start, keyboard_buffer, controls, held, reader>>

kbd_init_driver == RegisterHandler \/ kbd_switch_layout \/ ResetStart \/ ResetEnd

-----------------------------------------------------------------------------
(* kbd_handler()                                                           *)

HasLayout == boot \in {"layout", "start", "done"}

\* Mutant: no slot is kept free.
FullNever == FALSE

\* kbd_buffer_end == kbd_buffer_start - 1, in 32-bit arithmetic.
Full == kbd_buffer_end = (kbd_buffer_start - 1) % Word

\* keyboard_buffer[kbd_buffer_end++] = ch; kbd_buffer_end &= 255;
Store(ch) ==
  IF Full
  THEN UNCHANGED ring
  ELSE /\ keyboard_buffer' = [keyboard_buffer EXCEPT ![kbd_buffer_end] = ch]
       /\ kbd_buffer_end' = (kbd_buffer_end + 1) % N
       /\ UNCHANGED kbd_buffer_start

\* Before the layout is set the tables are read through a null pointer, from
\* the mapped page 0: any character may come out, or none.
PressEarly ==
  /\ boot = "handler"
  /\ \E ch \in Char \cup {None} : Store(ch)
  /\ UNCHANGED <<boot, controls, held, reader>>

\* Mutant: releasing a control key inverts its bit, as pressing it does.
ReleaseInverts(i) ==
  /\ HasLayout /\ i \in held
  /\ held' = held \ {i}
  /\ controls' = IF i \in controls THEN controls \ {i} ELSE controls \cup {i}
  /\ UNCHANGED <<boot, ring, reader>>

\* The first five control keys do something on release.
ReleaseControl(i) ==
  /\ HasLayout /\ i \in held
  /\ held' = held \ {i}
  /\ controls' = IF i < 5 THEN controls \ {i} ELSE controls
  /\ UNCHANGED <<boot, ring, reader>>

\* The keyboard repeats the make code of a key that stays down.
PressControl(i) ==
  /\ HasLayout
  /\ held' = held \cup {i}
  /\ controls' = IF i \in controls THEN controls \ {i} ELSE controls \cup {i}
  /\ UNCHANGED <<boot, ring, reader>>

Table == IF controls \cap {LSHIFT, RSHIFT, CAPSLOCK} # {} /\ CONTROL \notin controls
         THEN "shift" ELSE "plain"

PressKey(k) ==
  /\ HasLayout
  /\ Store(<<k, Table>>)
  /\ UNCHANGED <<boot, controls, held, reader>>

\* Both tables give '\0' for the function and cursor keys, and it is stored.
PressBlank ==
  /\ HasLayout
  /\ Store(None)
  /\ UNCHANGED <<boot, controls, held, reader>>

kbd_handler ==
  \/ PressEarly
  \/ PressBlank
  \/ \E i \in Control : ReleaseControl(i) \/ PressControl(i)
  \/ \E k \in Key : PressKey(k)

-----------------------------------------------------------------------------
(* kbd_getchar()                                                           *)

GetTest ==
  /\ boot = "done" /\ pc = "test"
  /\ IF kbd_buffer_start # kbd_buffer_end
     THEN pc' = "inc" /\ UNCHANGED ret
     ELSE ret' = None /\ UNCHANGED pc
  /\ UNCHANGED <<boot, ring, controls, held, old, c>>

GetIncrement ==
  /\ pc = "inc"
  /\ old' = kbd_buffer_start
  /\ kbd_buffer_start' = kbd_buffer_start + 1
  /\ pc' = "read"
  /\ UNCHANGED <<boot, kbd_buffer_end, keyboard_buffer, controls, held, c, ret>>

GetRead ==
  /\ pc = "read"
  /\ c' = keyboard_buffer[old]
  /\ pc' = "mask"
  /\ UNCHANGED <<boot, ring, controls, held, old, ret>>

GetMask ==
  /\ pc = "mask"
  /\ kbd_buffer_start' = kbd_buffer_start % N
  /\ ret' = c
  /\ pc' = "test"
  /\ UNCHANGED <<boot, kbd_buffer_end, keyboard_buffer, controls, held, old, c>>

kbd_getchar == GetTest \/ GetIncrement \/ GetRead \/ GetMask

Next == kbd_init_driver \/ kbd_handler \/ kbd_getchar

Spec == Init /\ [][Next]_vars

-----------------------------------------------------------------------------
(* Properties                                                              *)

\* The characters the reader has still to come for.  Equal indices mean an
\* empty buffer, except to a reader that has already found it not empty.
Pending ==
  LET len == (kbd_buffer_end - kbd_buffer_start) % N
      n   == IF len = 0 /\ pc = "inc" THEN N ELSE len
  IN  [j \in 1 .. n |-> keyboard_buffer[(kbd_buffer_start + j - 1) % N]]

\* A character is handed over when the index is incremented, two steps before
\* the caller gets it.
HandedOver == CASE pc = "read" -> keyboard_buffer[old]
                [] pc = "mask" -> c
                [] OTHER       -> ret

Queue == INSTANCE CharQueue WITH
           q <- IF boot = "done" THEN Pending ELSE << >>,
           ret <- HandedOver, atStart <- kbd_buffer_start = 0, Capacity <- N, Char <- Char \cup {None}

\* include/kernel/kbd.h:44, as far as the driver keeps it: characters come out
\* once and in order, and '\0' only if there is none or for a key that gives
\* none, whatever the handler does between two accesses of kbd_getchar().  A key
\* that finds N - 1 of them is dropped, but if the reader is at index 0 it
\* empties the buffer (kbd.c:173).
LossyPromise == Queue!LossySpec

\* kbd.c:144, "releasing the key always disables its function": a key of the
\* first five that is not down has no effect, however often it has repeated.
ReleasedIsOff == \A i \in Control : i < 5 /\ i \notin held => i \notin controls

\* The slot that kbd_getchar() is about to read is not written meanwhile,
\* although the handler already counts it as free.
SlotNotReused ==
  [][pc = "read" => keyboard_buffer'[old] = keyboard_buffer[old]]_vars

=============================================================================
