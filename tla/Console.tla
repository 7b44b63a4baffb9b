------------------------------ MODULE Console ------------------------------
(***************************************************************************)
(* The console: kernel/lib/monitor.c, kprintf() and its static buffer      *)
(* (kernel/lib/kprintf.c), and the spin lock (kernel/lib/lock.c) that the  *)
(* threads of kernel/init/debug.c put around it.                           *)
(*                                                                         *)
(* Each thread of Locker runs test_thread(): it takes the lock, prints its *)
(* two messages and releases the lock, forever.  The kernel thread runs    *)
(* the loop of kmain(), which passes what was typed to monitor_put()       *)
(* without the lock.  Interrupts are enabled throughout, and the timer may *)
(* change the thread between any two accesses to the shared variables;     *)
(* only the copying of the screen by scroll() and the four bytes written   *)
(* by update_cursor() are taken together.                                  *)
(*                                                                         *)
(* A character is a control character, a member of Printable, or "other":  *)
(* '\0', another control code, or one that is negative as a char.          *)
(*                                                                         *)
(* page, torn and said are not variables of the kernel: page is the text   *)
(* that a page would show on which every monitor_put() had its effect at   *)
(* once, torn is set when two calls of monitor_put() overlap, and said is  *)
(* what has been put on behalf of the thread that took the lock last.      *)
(***************************************************************************)
EXTENDS Integers, Sequences, SequencesExt

CONSTANTS
  COLUMNS, LINES,   \* of the screen (80, 25)
  TAB,              \* distance of tabulator stops (4)
  Byte,             \* values of an uint8_t (256)
  BufLen,           \* characters kprintf() has room for (1024)
  Printable, Blank, \* characters with a glyph; the space
  Locker, kmain,    \* threads that use the lock; the one that does not
  Message,          \* the two texts each locker prints
  Keys              \* what kbd_getchar() may return

Control == {"bs", "tab", "cr", "nl"}
Char    == Control \cup Printable \cup {"other"}
Writer  == Locker \cup {kmain}

ASSUME ConsoleAssumption ==
  /\ {COLUMNS, LINES, TAB, Byte, BufLen} \subseteq Nat \ {0}
  /\ COLUMNS + TAB <= Byte /\ LINES < Byte
  /\ kmain \notin Locker /\ Keys \subseteq Char
  /\ Printable \cap (Control \cup {"other", "end"}) = {}
  /\ Message \in [Locker -> [1 .. 2 -> Seq(Char)]]
  /\ \A t \in Locker, k \in 1 .. 2 : Len(Message[t][k]) \in 1 .. BufLen - 1

\* include/lock.h
LOCKED   == 0
UNLOCKED == 1

VARIABLES
  lock,
  buf,              \* the static buffer of kprintf()
  video_mem,        \* what the screen shows
  xpos, ypos,
  cursor,           \* where the video board shows the cursor
  pc,               \* what a thread does next
  msg,              \* which of its messages a locker prints, and
  i,                \* the index in buf at which it reads or writes
  c,                \* the argument of its monitor_put()
  reg,              \* the value it has loaded from xpos or ypos
  location,         \* its local in monitor_put(), as an index
  page, torn, said

screen == <<video_mem, xpos, ypos, cursor>>
locals == <<msg, i, c, reg, location>>
ghosts == <<page, torn, said>>
vars   == <<lock, buf, screen, pc, locals, ghosts>>

Outside   == {"lock", "echo"}
Printing  == {"fill", "end", "finish", "next", "unlock"}
Putting   == {"put", "row", "locate", "store", "loadx", "setx", "down", "below",
              "wrap", "home", "loady", "sety", "scroll", "shift", "last", "cursor"}

Cell == 0 .. LINES * COLUMNS - 1

TypeOK ==
  /\ lock \in {LOCKED, UNLOCKED}
  /\ buf \in [0 .. BufLen - 1 -> Char \cup {"end"}]
  /\ video_mem \in [Cell -> Printable \cup {Blank}]
  /\ xpos \in 0 .. Byte - 1 /\ ypos \in 0 .. Byte - 1
  /\ cursor \in 0 .. Byte * COLUMNS + Byte
  /\ pc \in [Writer -> Outside \cup Printing \cup Putting]
  /\ msg \in [Writer -> 1 .. 2]
  /\ i \in [Writer -> 0 .. BufLen - 1]
  /\ c \in [Writer -> Char]
  /\ reg \in [Writer -> 0 .. Byte - 1]
  /\ location \in [Writer -> 0 .. Byte * COLUMNS + Byte]

Paper == INSTANCE Terminal WITH
           Width <- COLUMNS, Height <- LINES, Tab <- TAB

\* init_monitor()
Init ==
  /\ lock = UNLOCKED
  /\ buf = [k \in 0 .. BufLen - 1 |-> "end"]
  /\ video_mem = [k \in Cell |-> Blank]
  /\ xpos = 0 /\ ypos = 0 /\ cursor = 0
  /\ pc = [t \in Writer |-> IF t = kmain THEN "echo" ELSE "lock"]
  /\ msg = [t \in Writer |-> 1] /\ i = [t \in Writer |-> 0]
  /\ c = [t \in Writer |-> "other"]
  /\ reg = [t \in Writer |-> 0] /\ location = [t \in Writer |-> 0]
  /\ page = Paper!EmptyPage /\ torn = FALSE /\ said = << >>

Goto(t, l) == pc' = [pc EXCEPT ![t] = l]

-----------------------------------------------------------------------------
(* The lock, and the loop of test_thread()                                 *)

\* Mutant: the exchange leaves the lock as it was.
test_without_set(t) == lock' = lock

\* The exchange always stores LOCKED; the caller looks at what was there.
atomic_test_and_set(t) == lock' = LOCKED

\* Mutant: the two values of the lock are confused.
ContendedFree == lock = UNLOCKED

\* atomic_test_and_set(lock) == SPINLOCK_LOCKED
Contended == lock = LOCKED

\* One turn of the loop: the section is entered if the lock was free.
spinlock_lock(t) ==
  /\ pc[t] = "lock"
  /\ atomic_test_and_set(t)
  /\ IF Contended
     THEN UNCHANGED <<pc, msg, i, said>>
     ELSE /\ Goto(t, "fill")
          /\ msg' = [msg EXCEPT ![t] = 1] /\ i' = [i EXCEPT ![t] = 0]
          /\ said' = << >>
  /\ UNCHANGED <<buf, screen, c, reg, location, page, torn>>

\* Mutant: the lock is released with the value that means locked.
unlock_locks(t) ==
  /\ pc[t] = "unlock"
  /\ lock' = LOCKED
  /\ Goto(t, "lock")
  /\ UNCHANGED <<buf, screen, locals, ghosts>>

spinlock_unlock(t) ==
  /\ pc[t] = "unlock"
  /\ lock' = UNLOCKED
  /\ Goto(t, "lock")
  /\ UNCHANGED <<buf, screen, locals, ghosts>>

-----------------------------------------------------------------------------
(* kprintf()                                                               *)

\* vsprintf() writes the text, one character at a time, ...
Fill(t) ==
  /\ pc[t] = "fill"
  /\ buf' = [buf EXCEPT ![i[t]] = Message[t][msg[t]][i[t] + 1]]
  /\ i' = [i EXCEPT ![t] = @ + 1]
  /\ Goto(t, IF i[t] + 1 = Len(Message[t][msg[t]]) THEN "end" ELSE "fill")
  /\ UNCHANGED <<lock, screen, msg, c, reg, location, ghosts>>

\* ... and its end, ...
Terminate(t) ==
  /\ pc[t] = "end" /\ Goto(t, "finish")
  /\ buf' = [buf EXCEPT ![i[t]] = "end"]
  /\ UNCHANGED <<lock, screen, locals, ghosts>>

\* ... which buf[i] = '\0' writes once more.
Finish(t) ==
  /\ pc[t] = "finish" /\ Goto(t, "next")
  /\ buf' = [buf EXCEPT ![i[t]] = "end"]
  /\ i' = [i EXCEPT ![t] = 0]
  /\ UNCHANGED <<lock, screen, msg, c, reg, location, ghosts>>

\* A call of monitor_put(ch) begins.
Call(t, ch) ==
  /\ c' = [c EXCEPT ![t] = ch]
  /\ Goto(t, "put")
  /\ torn' = (torn \/ \E u \in Writer \ {t} : pc[u] \in Putting)
  /\ page' = IF torn' THEN Paper!EmptyPage ELSE Paper!Typed(page, ch)

\* while (*s) monitor_put(*s++): at the end of the text, the next message.
monitor_write(t) ==
  /\ pc[t] = "next"
  /\ IF buf[i[t]] = "end"
     THEN /\ Goto(t, IF msg[t] = 1 THEN "fill" ELSE "unlock")
          /\ msg' = [msg EXCEPT ![t] = 2]
          /\ i' = [i EXCEPT ![t] = 0]
          /\ UNCHANGED <<c, page, torn, said>>
     ELSE /\ Call(t, buf[i[t]])
          /\ i' = [i EXCEPT ![t] = @ + 1]
          /\ said' = Append(said, buf[i[t]])
          /\ UNCHANGED msg
  /\ UNCHANGED <<lock, buf, screen, reg, location>>

kprintf(t) == Fill(t) \/ Terminate(t) \/ Finish(t) \/ monitor_write(t)

\* for (;;) monitor_put(kbd_getchar()); "other" when nothing was typed.
Echo(ch) ==
  /\ pc[kmain] = "echo"
  /\ Call(kmain, ch)
  /\ UNCHANGED <<lock, buf, screen, msg, i, reg, location, said>>

-----------------------------------------------------------------------------
(* monitor_put()                                                           *)

\* The chain of tests on the character; a backspace reads xpos.
Branch(t) ==
  /\ pc[t] = "put"
  /\ Goto(t, CASE c[t] = "bs"        -> IF xpos # 0 THEN "loadx" ELSE "wrap"
               [] c[t] = "tab"       -> "loadx"
               [] c[t] = "other"     -> "wrap"
               [] c[t] \in Printable -> "row"
               [] OTHER              -> "setx")
  /\ UNCHANGED <<lock, buf, screen, locals, ghosts>>

\* location = video_mem + (ypos * 80 + xpos): ypos is read, ...
ReadRow(t) ==
  /\ pc[t] = "row" /\ Goto(t, "locate")
  /\ reg' = [reg EXCEPT ![t] = ypos]
  /\ UNCHANGED <<lock, buf, screen, msg, i, c, location, ghosts>>

\* ... then xpos.
Locate(t) ==
  /\ pc[t] = "locate" /\ Goto(t, "store")
  /\ location' = [location EXCEPT ![t] = reg[t] * COLUMNS + xpos]
  /\ UNCHANGED <<lock, buf, screen, msg, i, c, reg, ghosts>>

\* *location = c | attribute; what lies behind the screen is not shown.
Store(t) ==
  /\ pc[t] = "store" /\ Goto(t, "loadx")
  /\ video_mem' = [k \in Cell |-> IF k = location[t] THEN c[t] ELSE video_mem[k]]
  /\ UNCHANGED <<lock, buf, xpos, ypos, cursor, locals, ghosts>>

LoadX(t) ==
  /\ pc[t] = "loadx" /\ Goto(t, "setx")
  /\ reg' = [reg EXCEPT ![t] = xpos]
  /\ UNCHANGED <<lock, buf, screen, msg, i, c, location, ghosts>>

\* Mutant: the tabulator goes to the stop at or before the next column.
ColumnShort(ch, x) ==
  (CASE ch = "bs"        -> x - 1
     [] ch = "tab"       -> ((x + TAB - 1) \div TAB) * TAB
     [] ch \in Printable -> x + 1
     [] OTHER            -> 0) % Byte

\* The column after the character, from the one that was loaded.
Column(ch, x) ==
  (CASE ch = "bs"        -> x - 1
     [] ch = "tab"       -> ((x + TAB) \div TAB) * TAB
     [] ch \in Printable -> x + 1
     [] OTHER            -> 0) % Byte

SetX(t) ==
  /\ pc[t] = "setx" /\ Goto(t, IF c[t] = "nl" THEN "down" ELSE "wrap")
  /\ xpos' = Column(c[t], reg[t])
  /\ UNCHANGED <<lock, buf, video_mem, ypos, cursor, locals, ghosts>>

\* if (xpos >= 80) xpos = 0, ...
WrapTest(t) ==
  /\ pc[t] = "wrap" /\ Goto(t, IF xpos >= COLUMNS THEN "home" ELSE "scroll")
  /\ UNCHANGED <<lock, buf, screen, locals, ghosts>>

WrapX(t) ==
  /\ pc[t] = "home" /\ Goto(t, "loady")
  /\ xpos' = 0
  /\ UNCHANGED <<lock, buf, video_mem, ypos, cursor, locals, ghosts>>

\* ... and ypos++, as for a new line ("down", "below").
LoadY(t) ==
  /\ \/ pc[t] = "loady" /\ Goto(t, "sety")
     \/ pc[t] = "down" /\ Goto(t, "below")
  /\ reg' = [reg EXCEPT ![t] = ypos]
  /\ UNCHANGED <<lock, buf, screen, msg, i, c, location, ghosts>>

SetY(t) ==
  /\ \/ pc[t] = "sety" /\ Goto(t, "scroll")
     \/ pc[t] = "below" /\ Goto(t, "wrap")
  /\ ypos' = (reg[t] + 1) % Byte
  /\ UNCHANGED <<lock, buf, video_mem, xpos, cursor, locals, ghosts>>

\* scroll()
ScrollTest(t) ==
  /\ pc[t] = "scroll" /\ Goto(t, IF ypos >= LINES THEN "shift" ELSE "cursor")
  /\ UNCHANGED <<lock, buf, screen, locals, ghosts>>

Shift(t) ==
  /\ pc[t] = "shift" /\ Goto(t, "last")
  /\ video_mem' = [k \in Cell |-> IF k + COLUMNS \in Cell
                                  THEN video_mem[k + COLUMNS] ELSE Blank]
  /\ UNCHANGED <<lock, buf, xpos, ypos, cursor, locals, ghosts>>

\* Mutant: ypos is left behind the screen.
LastRowNot(t) ==
  /\ pc[t] = "last" /\ Goto(t, "cursor")
  /\ UNCHANGED <<lock, buf, screen, locals, ghosts>>

LastRow(t) ==
  /\ pc[t] = "last" /\ Goto(t, "cursor")
  /\ ypos' = LINES - 1
  /\ UNCHANGED <<lock, buf, video_mem, xpos, cursor, locals, ghosts>>

scroll(t) == ScrollTest(t) \/ Shift(t) \/ LastRow(t)

\* The locals go out of scope with the return.
update_cursor(t) ==
  /\ pc[t] = "cursor" /\ Goto(t, IF t = kmain THEN "echo" ELSE "next")
  /\ cursor' = ypos * COLUMNS + xpos
  /\ c' = [c EXCEPT ![t] = "other"]
  /\ reg' = [reg EXCEPT ![t] = 0] /\ location' = [location EXCEPT ![t] = 0]
  /\ UNCHANGED <<lock, buf, video_mem, xpos, ypos, msg, i, ghosts>>

monitor_put(t) ==
  \/ Branch(t) \/ ReadRow(t) \/ Locate(t) \/ Store(t) \/ LoadX(t) \/ SetX(t)
  \/ WrapTest(t) \/ WrapX(t) \/ LoadY(t) \/ SetY(t) \/ scroll(t)
  \/ update_cursor(t)

test_thread(t) ==
  spinlock_lock(t) \/ kprintf(t) \/ monitor_put(t) \/ spinlock_unlock(t)

Next ==
  \/ \E t \in Locker : test_thread(t)
  \/ \E ch \in Keys : Echo(ch)
  \/ monitor_put(kmain)

\* The scheduler gives every thread the processor (NoStarvation of Sched).
Fairness ==
  /\ \A t \in Locker : WF_vars(test_thread(t))
  /\ WF_vars(monitor_put(kmain))

Spec == Init /\ [][Next]_vars /\ Fairness

-----------------------------------------------------------------------------
(* Properties                                                              *)

Inside == {t \in Locker : pc[t] # "lock"}

Lock == INSTANCE Mutex WITH Thread <- Locker, inside <- Inside

\* spinlock_lock() and spinlock_unlock() implement a mutual exclusion lock,
\* whenever the timer changes the thread.
LockExcludes == Lock!Spec

\* A lock that is held is released: kprintf() ends, also while kmain() writes
\* on the same screen, as long as the holder is not killed.
LockReleased == (lock = LOCKED) ~> (lock = UNLOCKED)

Section(t) == Message[t][1] \o Message[t][2]

\* What monitor_put() is given under the lock are the two messages of one
\* thread, whole and in order, although all share the buffer of kprintf().
WholeMessages ==
  /\ \A t \in Inside : IsPrefix(said, Section(t))
  /\ Inside = {} => said \in {<< >>} \cup {Section(t) : t \in Locker}

\* As long as no two calls of monitor_put() have overlapped, the screen is the
\* page, and the cursor is where the page ends.
ScreenIsPage ==
  ~ torn /\ (\A t \in Writer : pc[t] \notin Putting) =>
    /\ \A y \in 0 .. LINES - 1, x \in 0 .. COLUMNS - 1 :
         video_mem[y * COLUMNS + x] = Paper!At(page, y, x)
    /\ cursor = Paper!Row(page) * COLUMNS + page.col

\* However calls of monitor_put() have overlapped, and whatever updates of xpos
\* and ypos were lost: once all have returned, the next character is written on
\* the screen.  While they overlap it may be written behind it: each of two
\* writers can undo what scroll() of the other has set, and the row climbs.
SettlesOnScreen ==
  (\A t \in Writer : pc[t] \notin Putting) => xpos < COLUMNS /\ ypos < LINES

=============================================================================
