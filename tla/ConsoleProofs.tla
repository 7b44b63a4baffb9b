--------------------------- MODULE ConsoleProofs ---------------------------
(***************************************************************************)
(* Proofs about Console, for any number of threads, any messages and any   *)
(* size of the screen: the spin lock excludes, messages are printed whole, *)
(* the position settles on the screen, and the screen shows the page.      *)
(***************************************************************************)
EXTENDS Console, TLAPS

-----------------------------------------------------------------------------
(* The inductive invariant                                                 *)

\* A free lock has nobody inside, and two threads inside are the same one.
LockInv ==
  /\ pc \in [Writer -> Outside \cup Printing \cup Putting]
  /\ lock \in {LOCKED, UNLOCKED}
  /\ lock = UNLOCKED => Inside = {}
  /\ \A t, u \in Inside : t = u

-----------------------------------------------------------------------------
(* Lemmas                                                                  *)

\* A thread that is not at the lock goes on to another place that is not.
Proceeds(t) ==
  /\ lock' = lock
  /\ pc[t] # "lock"
  /\ \E l \in (Outside \cup Printing \cup Putting) \ {"lock"} : pc' = [pc EXCEPT ![t] = l]

\* Every step of kprintf() proceeds.
LEMMA PrintProceeds ==
  ASSUME NEW t \in Writer, kprintf(t)
  PROVE  Proceeds(t)
<1> USE DEF Proceeds, Goto, Outside, Printing, Putting
<1>1. CASE Fill(t)
  BY <1>1 DEF Fill
<1>2. CASE Finish(t)
  BY <1>2 DEF Finish
<1>4. CASE Terminate(t)
  BY <1>4 DEF Terminate
<1>3. CASE monitor_write(t)
  BY <1>3 DEF monitor_write, Call
<1> QED
  BY <1>1, <1>2, <1>3, <1>4 DEF kprintf

\* Every step of monitor_put() proceeds.
LEMMA PutProceeds ==
  ASSUME NEW t \in Writer, monitor_put(t)
  PROVE  Proceeds(t)
<1> USE DEF Proceeds, Goto, Outside, Printing, Putting
<1>1. CASE Branch(t)
  <2> DEFINE l == CASE c[t] = "bs"        -> IF xpos # 0 THEN "loadx" ELSE "wrap"
                    [] c[t] = "tab"       -> "loadx"
                    [] c[t] = "other"     -> "wrap"
                    [] c[t] \in Printable -> "row"
                    [] OTHER              -> "setx"
  <2>1. l \in {"loadx", "wrap", "row", "setx"}
    OBVIOUS
  <2>2. lock' = lock /\ pc[t] = "put" /\ pc' = [pc EXCEPT ![t] = l]
    BY <1>1 DEF Branch
  <2> HIDE DEF l
  <2> QED
    BY <2>1, <2>2
<1>2. CASE ReadRow(t) \/ Locate(t) \/ Store(t) \/ LoadX(t)
  BY <1>2 DEF ReadRow, Locate, Store, LoadX
<1>3. CASE SetX(t) \/ WrapTest(t) \/ WrapX(t)
  BY <1>3 DEF SetX, WrapTest, WrapX
<1>4. CASE LoadY(t) \/ SetY(t)
  BY <1>4 DEF LoadY, SetY
<1>5. CASE scroll(t)
  BY <1>5 DEF scroll, ScrollTest, Shift, LastRow
<1>6. CASE update_cursor(t)
  BY <1>6 DEF update_cursor
<1> QED
  BY <1>1, <1>2, <1>3, <1>4, <1>5, <1>6 DEF monitor_put

\* Echo() proceeds.
LEMMA EchoProceeds ==
  ASSUME NEW ch \in Keys, Echo(ch)
  PROVE  Proceeds(kmain)
BY DEF Proceeds, Echo, Call, Goto, Outside, Printing, Putting

\* A step that proceeds changes neither the lock nor who is inside.
LEMMA ProceedsKeeps ==
  ASSUME LockInv, NEW t \in Writer, Proceeds(t)
  PROVE  LockInv' /\ Inside' = Inside
<1>1. PICK l \in (Outside \cup Printing \cup Putting) \ {"lock"} : pc' = [pc EXCEPT ![t] = l]
  BY DEF Proceeds
<1>2. pc \in [Writer -> Outside \cup Printing \cup Putting] /\ pc[t] # "lock" /\ lock' = lock
  BY DEF LockInv, Proceeds
<1>3. pc' \in [Writer -> Outside \cup Printing \cup Putting]
  BY <1>1, <1>2
<1>4. \A u \in Writer : pc'[u] = "lock" <=> pc[u] = "lock"
  BY <1>1, <1>2
<1>5. Inside' = Inside
  BY <1>4 DEF Inside, Writer
<1> QED
  BY <1>2, <1>3, <1>5 DEF LockInv

\* The exchange: whoever finds the lock free is the only one inside.
LEMMA LockStep ==
  ASSUME LockInv, NEW t \in Locker, spinlock_lock(t)
  PROVE  /\ LockInv'
         /\ Inside' = Inside \/ (Inside = {} /\ Inside' = {t})
<1>1. pc \in [Writer -> Outside \cup Printing \cup Putting] /\ t \in Writer
  BY DEF LockInv, Writer
<1>2. lock' = LOCKED
  BY DEF spinlock_lock, atomic_test_and_set
<1>3. CASE lock = LOCKED
  <2>1. pc' = pc
    BY <1>3 DEF spinlock_lock, Contended
  <2>2. Inside' = Inside
    BY <2>1 DEF Inside
  <2> QED
    BY <1>2, <2>1, <2>2 DEF LockInv, LOCKED, UNLOCKED
<1>4. CASE lock # LOCKED
  <2>1. pc' = [pc EXCEPT ![t] = "fill"]
    BY <1>4 DEF spinlock_lock, Contended, Goto
  <2>2. Inside = {}
    BY <1>4 DEF LockInv
  <2>3. Inside' = {t}
    BY <1>1, <2>1, <2>2 DEF Inside, Writer
  <2>4. pc' \in [Writer -> Outside \cup Printing \cup Putting]
    BY <1>1, <2>1 DEF Printing
  <2> QED
    BY <1>2, <2>2, <2>3, <2>4 DEF LockInv, LOCKED, UNLOCKED
<1> QED
  BY <1>3, <1>4

\* The release: the thread that releases was the only one inside.
LEMMA UnlockStep ==
  ASSUME LockInv, NEW t \in Locker, spinlock_unlock(t)
  PROVE  LockInv' /\ Inside = {t} /\ Inside' = {}
<1>1. /\ pc \in [Writer -> Outside \cup Printing \cup Putting] /\ t \in Writer
      /\ pc[t] = "unlock" /\ lock' = UNLOCKED /\ pc' = [pc EXCEPT ![t] = "lock"]
  BY DEF LockInv, Writer, spinlock_unlock, Goto
<1>2. t \in Inside
  BY <1>1 DEF Inside
<1>3. Inside = {t}
  BY <1>2 DEF LockInv
<1>4. Inside' = {}
  BY <1>1, <1>3 DEF Inside, Writer
<1>5. pc' \in [Writer -> Outside \cup Printing \cup Putting]
  BY <1>1 DEF Outside
<1> QED
  BY <1>1, <1>3, <1>4, <1>5 DEF LockInv

\* Nobody holds the lock.
LEMMA LockInit == Init => LockInv /\ Lock!Init
<1> SUFFICES ASSUME Init PROVE LockInv /\ Lock!Init
  OBVIOUS
<1>1. pc = [t \in Writer |-> IF t = kmain THEN "echo" ELSE "lock"] /\ lock = UNLOCKED
  BY DEF Init
<1>2. Inside = {}
  BY <1>1, ConsoleAssumption DEF Inside, Writer
<1>3. pc \in [Writer -> Outside \cup Printing \cup Putting]
  BY <1>1 DEF Outside
<1> QED
  BY <1>1, <1>2, <1>3 DEF LockInv, Lock!Init

\* Every step of the console is a step of the abstract lock or leaves it alone.
LEMMA MutexStep ==
  ASSUME LockInv, [Next]_vars
  PROVE  /\ LockInv'
         /\ [\E t \in Locker : Lock!Enter(t) \/ Lock!Leave(t)]_Inside
<1>1. ASSUME NEW t \in Locker, test_thread(t)
      PROVE  /\ LockInv'
             /\ Inside' = Inside \/ Lock!Enter(t) \/ Lock!Leave(t)
  <2>1. t \in Writer
    BY DEF Writer
  <2>2. CASE spinlock_lock(t)
    BY <2>2, LockStep DEF Lock!Enter
  <2>3. CASE spinlock_unlock(t)
    BY <2>3, UnlockStep DEF Lock!Leave
  <2>4. CASE kprintf(t)
    BY <2>1, <2>4, PrintProceeds, ProceedsKeeps
  <2>5. CASE monitor_put(t)
    BY <2>1, <2>5, PutProceeds, ProceedsKeeps
  <2> QED
    BY <1>1, <2>2, <2>3, <2>4, <2>5 DEF test_thread
<1>2. kmain \in Writer
  BY DEF Writer
<1>3. ASSUME NEW ch \in Keys, Echo(ch) PROVE LockInv' /\ Inside' = Inside
  BY <1>2, <1>3, EchoProceeds, ProceedsKeeps
<1>4. CASE monitor_put(kmain)
  BY <1>2, <1>4, PutProceeds, ProceedsKeeps
<1>5. CASE UNCHANGED vars
  <2>1. pc' = pc /\ lock' = lock
    BY <1>5 DEF vars
  <2>2. Inside' = Inside
    BY <2>1 DEF Inside
  <2> QED
    BY <2>1, <2>2 DEF LockInv
<1> QED
  BY <1>1, <1>3, <1>4, <1>5 DEF Next

-----------------------------------------------------------------------------
(* The theorem                                                             *)

\* For any number of threads and any messages: spinlock_lock(), which exchanges
\* the lock with LOCKED and looks at what was there, and spinlock_unlock()
\* implement the abstract lock, wherever the timer changes the thread.
THEOREM LockIsMutex == Spec => LockExcludes
<1>1. Init => LockInv /\ Lock!Init
  BY LockInit
<1>2. LockInv /\ [Next]_vars =>
        LockInv' /\ [\E t \in Locker : Lock!Enter(t) \/ Lock!Leave(t)]_Inside
  BY MutexStep
<1> QED
  BY <1>1, <1>2, PTL DEF Spec, LockExcludes, Lock!Spec

-----------------------------------------------------------------------------
(* Whole messages                                                          *)

\* The text that a thread prints, and what it has printed before it.
Text(t) == Message[t][msg[t]]

Before(t) == IF msg[t] = 1 THEN << >> ELSE Message[t][1]

\* The first n characters of the text are in the buffer.
Filled(t, n) == \A k \in 1 .. n : buf[k - 1] = Text(t)[k]

\* The buffer and what was put, at each place of kprintf() under the lock.
SectionInv(t) ==
  /\ pc[t] # "echo"
  /\ i[t] \in 0 .. Len(Text(t))
  /\ pc[t] = "fill" => i[t] < Len(Text(t)) /\ Filled(t, i[t]) /\ said = Before(t)
  /\ pc[t] \in {"end", "finish"} => i[t] = Len(Text(t)) /\ Filled(t, i[t]) /\ said = Before(t)
  /\ pc[t] \in Putting \cup {"next"} =>
       /\ Filled(t, Len(Text(t))) /\ buf[Len(Text(t))] = "end"
       /\ said = Before(t) \o SubSeq(Text(t), 1, i[t])
  /\ pc[t] = "unlock" => said = Section(t)

MessageInv ==
  /\ buf \in [0 .. BufLen - 1 -> Char \cup {"end"}]
  /\ msg \in [Writer -> 1 .. 2] /\ i \in [Writer -> Nat]
  /\ \A t \in Inside : SectionInv(t)
  /\ Inside = {} => said \in {<< >>} \cup {Section(t) : t \in Locker}

\* What the assumption says of one message.
LEMMA MessageType ==
  ASSUME NEW t \in Locker, NEW k \in 1 .. 2
  PROVE  /\ Message[t][k] \in Seq(Char)
         /\ Len(Message[t][k]) \in 1 .. BufLen - 1
         /\ \A j \in 1 .. Len(Message[t][k]) : Message[t][k][j] \in Char \ {"end"}
<1>1. Message[t][k] \in Seq(Char) /\ Len(Message[t][k]) \in 1 .. BufLen - 1
  BY ConsoleAssumption
<1>2. "end" \notin Char
  BY ConsoleAssumption DEF Char, Control
<1> QED
  BY <1>1, <1>2

\* An initial part of a message is extended by the character that follows.
LEMMA OneMore ==
  ASSUME NEW S, NEW b \in Seq(S), NEW s \in Seq(S), NEW n \in Nat, n < Len(s)
  PROVE  Append(b \o SubSeq(s, 1, n), s[n + 1]) = b \o SubSeq(s, 1, n + 1)
OBVIOUS

\* Where a step of monitor_put() leads.
LEMMA PutStays ==
  ASSUME LockInv, NEW t \in Writer, monitor_put(t)
  PROVE  /\ UNCHANGED <<buf, said, msg, i>>
         /\ pc[t] \in Putting
         /\ t \in Locker => pc'[t] \in Putting \cup {"next"}
         /\ \A u \in Writer \ {t} : pc'[u] = pc[u]
<1>1. pc \in [Writer -> Outside \cup Printing \cup Putting]
  BY DEF LockInv
<1> USE DEF Goto, Putting, screen, locals, ghosts
<1>2. CASE Branch(t)
  <2> DEFINE l == CASE c[t] = "bs"        -> IF xpos # 0 THEN "loadx" ELSE "wrap"
                    [] c[t] = "tab"       -> "loadx"
                    [] c[t] = "other"     -> "wrap"
                    [] c[t] \in Printable -> "row"
                    [] OTHER              -> "setx"
  <2>1. l \in {"loadx", "wrap", "row", "setx"}
    OBVIOUS
  <2>2. UNCHANGED <<buf, said, msg, i>> /\ pc[t] = "put" /\ pc' = [pc EXCEPT ![t] = l]
    BY <1>2 DEF Branch
  <2> HIDE DEF l
  <2> QED
    BY <1>1, <2>1, <2>2
<1>3. CASE ReadRow(t) \/ Locate(t) \/ Store(t) \/ LoadX(t)
  BY <1>1, <1>3 DEF ReadRow, Locate, Store, LoadX
<1>4. CASE SetX(t) \/ WrapTest(t) \/ WrapX(t)
  BY <1>1, <1>4 DEF SetX, WrapTest, WrapX
<1>5. CASE LoadY(t) \/ SetY(t)
  BY <1>1, <1>5 DEF LoadY, SetY
<1>6. CASE scroll(t)
  BY <1>1, <1>6 DEF scroll, ScrollTest, Shift, LastRow
<1>7. CASE update_cursor(t)
  BY <1>1, <1>7, ConsoleAssumption DEF update_cursor
<1> QED
  BY <1>2, <1>3, <1>4, <1>5, <1>6, <1>7 DEF monitor_put

\* Steps that leave the buffer and the text alone.
LEMMA MessageFrame ==
  ASSUME MessageInv, UNCHANGED <<buf, said, msg, i>>, Inside' = Inside,
         \A t \in Inside : \/ pc'[t] = pc[t]
                           \/ pc[t] \in Putting /\ pc'[t] \in Putting \cup {"next"}
  PROVE  MessageInv'
<1>1. ASSUME NEW t \in Inside PROVE SectionInv(t)'
  <2>1. SectionInv(t)
    BY DEF MessageInv
  <2>2. CASE pc'[t] = pc[t]
    BY <2>1, <2>2 DEF SectionInv, Text, Before, Filled, Section
  <2>3. CASE pc[t] \in Putting /\ pc'[t] \in Putting \cup {"next"}
    <3>1. pc'[t] \notin {"fill", "end", "finish", "unlock", "echo"}
      BY <2>3 DEF Putting
    <3> QED
      BY <2>1, <2>3, <3>1 DEF SectionInv, Text, Before, Filled
  <2> QED
    BY <2>2, <2>3
<1>2. \A t \in Inside' : SectionInv(t)'
  BY <1>1
<1> QED
  BY <1>2 DEF MessageInv

\* A writer that enters finds the message of the writer before complete.
LEMMA MessageLock ==
  ASSUME LockInv, MessageInv, NEW t \in Locker, spinlock_lock(t)
  PROVE  MessageInv'
<1>1. pc \in [Writer -> Outside \cup Printing \cup Putting] /\ t \in Writer
  BY DEF LockInv, Writer
<1>2. CASE lock = LOCKED
  <2>1. UNCHANGED <<buf, said, msg, i, pc>>
    BY <1>2 DEF spinlock_lock, Contended
  <2>2. Inside' = Inside
    BY <2>1 DEF Inside
  <2> QED
    BY <2>1, <2>2, MessageFrame
<1>3. CASE lock # LOCKED
  <2>1. /\ pc' = [pc EXCEPT ![t] = "fill"] /\ msg' = [msg EXCEPT ![t] = 1]
        /\ i' = [i EXCEPT ![t] = 0] /\ said' = << >> /\ buf' = buf
    BY <1>3 DEF spinlock_lock, Contended, Goto
  <2>2. Inside = {}
    BY <1>3 DEF LockInv
  <2>3. Inside' = {t}
    BY <1>1, <2>1, <2>2 DEF Inside, Writer
  <2>4. msg' \in [Writer -> 1 .. 2] /\ i' \in [Writer -> Nat] /\ msg'[t] = 1 /\ i'[t] = 0
        /\ pc'[t] = "fill"
    BY <1>1, <2>1 DEF MessageInv
  <2>5. Len(Message[t][1]) \in 1 .. BufLen - 1
    BY MessageType
  <2>6. SectionInv(t)'
    <3>1. "fill" \notin Putting
      BY DEF Putting
    <3>2. i'[t] \in 0 .. Len(Message[t][1]) /\ i'[t] < Len(Message[t][1])
      BY <2>4, <2>5, ConsoleAssumption
    <3>3. Text(t)' = Message[t][1] /\ Before(t)' = << >>
      BY <2>4 DEF Text, Before
    <3>4. Filled(t, i[t])'
      BY <2>4 DEF Filled
    <3> QED
      BY <2>1, <2>4, <3>1, <3>2, <3>3, <3>4 DEF SectionInv
  <2> QED
    BY <2>1, <2>3, <2>4, <2>6 DEF MessageInv
<1> QED
  BY <1>2, <1>3

\* A writer that leaves has written its message.
LEMMA MessageUnlock ==
  ASSUME LockInv, MessageInv, NEW t \in Locker, spinlock_unlock(t)
  PROVE  MessageInv'
<1>1. Inside = {t} /\ Inside' = {} /\ pc[t] = "unlock"
  BY UnlockStep DEF spinlock_unlock
<1>2. UNCHANGED <<buf, said, msg, i>>
  BY DEF spinlock_unlock, locals, ghosts
<1>3. said = Section(t)
  BY <1>1 DEF MessageInv, SectionInv
<1> QED
  BY <1>1, <1>2, <1>3 DEF MessageInv, Section

\* The thread inside, and its text.
LEMMA InsideFacts ==
  ASSUME LockInv, MessageInv, NEW t \in Locker, pc[t] # "lock"
  PROVE  /\ Inside = {t} /\ t \in Writer /\ SectionInv(t)
         /\ msg[t] \in 1 .. 2 /\ i[t] \in Nat
         /\ Text(t) \in Seq(Char) /\ Before(t) \in Seq(Char)
         /\ Len(Text(t)) \in 1 .. BufLen - 1
         /\ \A j \in 1 .. Len(Text(t)) : Text(t)[j] \in Char \ {"end"}
<1>1. t \in Inside /\ t \in Writer
  BY DEF Inside, Writer
<1>2. Inside = {t}
  BY <1>1 DEF LockInv
<1>3. SectionInv(t) /\ msg[t] \in 1 .. 2 /\ i[t] \in Nat
  BY <1>1 DEF MessageInv
<1>4. Before(t) \in Seq(Char)
  BY MessageType DEF Before
<1> QED
  BY <1>1, <1>2, <1>3, <1>4, MessageType DEF Text

\* After a step of the thread inside that stays inside and has its part of the
\* invariant, all have.
LEMMA InsideKeeps ==
  ASSUME MessageInv, NEW t \in Locker, Inside' = {t}, SectionInv(t)',
         buf' \in [0 .. BufLen - 1 -> Char \cup {"end"}],
         msg' \in [Writer -> 1 .. 2], i' \in [Writer -> Nat]
  PROVE  MessageInv'
BY DEF MessageInv

\* One character of the message.
LEMMA MessageFill ==
  ASSUME LockInv, LockInv', MessageInv, NEW t \in Locker, Fill(t)
  PROVE  MessageInv'
<1>1. pc[t] = "fill"
  BY DEF Fill
<1>2. /\ Inside = {t} /\ t \in Writer /\ SectionInv(t)
      /\ i[t] \in Nat /\ i[t] < Len(Text(t)) /\ Filled(t, i[t]) /\ said = Before(t)
      /\ Len(Text(t)) \in 1 .. BufLen - 1 /\ Text(t)[i[t] + 1] \in Char
  <2>1. /\ Inside = {t} /\ t \in Writer /\ SectionInv(t) /\ i[t] \in Nat
        /\ Len(Text(t)) \in 1 .. BufLen - 1
        /\ \A j \in 1 .. Len(Text(t)) : Text(t)[j] \in Char \ {"end"}
    BY <1>1, InsideFacts
  <2>2. i[t] < Len(Text(t)) /\ Filled(t, i[t]) /\ said = Before(t)
    BY <1>1, <2>1 DEF SectionInv
  <2>3. i[t] + 1 \in 1 .. Len(Text(t))
    BY <2>1, <2>2
  <2> QED
    BY <2>1, <2>2, <2>3
<1>3. kprintf(t)
  BY DEF kprintf
<1>4. Inside' = {t}
  BY <1>2, <1>3, PrintProceeds, ProceedsKeeps
<1>5. /\ buf' = [buf EXCEPT ![i[t]] = Text(t)[i[t] + 1]] /\ i' = [i EXCEPT ![t] = i[t] + 1]
      /\ pc' = [pc EXCEPT ![t] = IF i[t] + 1 = Len(Text(t)) THEN "end" ELSE "fill"]
      /\ msg' = msg /\ said' = said
  BY DEF Fill, Text, Goto, ghosts
<1>6. /\ buf \in [0 .. BufLen - 1 -> Char \cup {"end"}] /\ i \in [Writer -> Nat]
      /\ msg \in [Writer -> 1 .. 2] /\ pc \in [Writer -> Outside \cup Printing \cup Putting]
  BY DEF MessageInv, LockInv
<1>7. Text(t)' = Text(t) /\ Before(t)' = Before(t)
  BY <1>5 DEF Text, Before
<1>8. i'[t] = i[t] + 1 /\ i' \in [Writer -> Nat]
  BY <1>2, <1>5, <1>6
<1>9. buf' \in [0 .. BufLen - 1 -> Char \cup {"end"}]
  BY <1>2, <1>5, <1>6, ConsoleAssumption
<1>10. \A k \in 1 .. i[t] + 1 : buf'[k - 1] = Text(t)[k]
  <2> TAKE k \in 1 .. i[t] + 1
  <2>0. BufLen \in Nat
    BY ConsoleAssumption
  <2>3. PICK n \in Nat : n = i[t] /\ n \in 0 .. BufLen - 1
    BY <1>2, <2>0
  <2>1. CASE k = i[t] + 1
    <3>1. k - 1 = n
      BY <2>1, <2>3
    <3>2. buf'[n] = Text(t)[i[t] + 1]
      BY <1>5, <1>6, <2>3
    <3> QED
      BY <2>1, <3>1, <3>2
  <2>2. CASE k \in 1 .. i[t]
    <3>1. k - 1 \in 0 .. BufLen - 1 /\ k - 1 # i[t]
      BY <2>0, <2>2, <2>3
    <3>2. buf'[k - 1] = buf[k - 1]
      BY <1>5, <1>6, <3>1
    <3> QED
      BY <1>2, <2>2, <3>2 DEF Filled
  <2> QED
    BY <1>2, <2>1, <2>2
<1>11. pc'[t] = IF i[t] + 1 = Len(Text(t)) THEN "end" ELSE "fill"
  BY <1>2, <1>5, <1>6
<1>12. SectionInv(t)'
  <2>1. pc'[t] \notin Putting \cup {"next", "unlock"}
    BY <1>11 DEF Putting
  <2>2. i'[t] \in 0 .. Len(Text(t)) /\ (pc'[t] = "fill" => i'[t] < Len(Text(t)))
        /\ (pc'[t] = "end" => i'[t] = Len(Text(t)))
    BY <1>2, <1>8, <1>11, ConsoleAssumption
  <2>3. Filled(t, i[t])'
    BY <1>7, <1>8, <1>10 DEF Filled
  <2> QED
    BY <1>2, <1>5, <1>7, <2>1, <2>2, <2>3 DEF SectionInv
<1> QED
  BY <1>4, <1>5, <1>6, <1>8, <1>9, <1>12, InsideKeeps

\* The end of the message, which is written twice.
LEMMA MessageFinish ==
  ASSUME LockInv, LockInv', MessageInv, NEW t \in Locker, Terminate(t) \/ Finish(t)
  PROVE  MessageInv'
<1>1. pc[t] \in {"end", "finish"}
  BY DEF Terminate, Finish
<1>2. /\ Inside = {t} /\ t \in Writer /\ SectionInv(t)
      /\ i[t] = Len(Text(t)) /\ Filled(t, i[t]) /\ said = Before(t)
      /\ Len(Text(t)) \in 1 .. BufLen - 1
      /\ Text(t) \in Seq(Char) /\ Before(t) \in Seq(Char)
  BY <1>1, InsideFacts DEF SectionInv
<1>3. kprintf(t)
  BY DEF kprintf
<1>4. Inside' = {t}
  BY <1>2, <1>3, PrintProceeds, ProceedsKeeps
<1>5. /\ buf' = [buf EXCEPT ![i[t]] = "end"] /\ msg' = msg /\ said' = said
      /\ \/ i' = i /\ pc' = [pc EXCEPT ![t] = "finish"]
         \/ i' = [i EXCEPT ![t] = 0] /\ pc' = [pc EXCEPT ![t] = "next"]
  BY DEF Terminate, Finish, Goto, locals, ghosts
<1>6. /\ buf \in [0 .. BufLen - 1 -> Char \cup {"end"}] /\ i \in [Writer -> Nat]
      /\ msg \in [Writer -> 1 .. 2] /\ pc \in [Writer -> Outside \cup Printing \cup Putting]
  BY DEF MessageInv, LockInv
<1>7. Text(t)' = Text(t) /\ Before(t)' = Before(t)
  BY <1>5 DEF Text, Before
<1>8. /\ i' \in [Writer -> Nat]
      /\ \/ i'[t] = Len(Text(t)) /\ pc'[t] = "finish"
         \/ i'[t] = 0 /\ pc'[t] = "next"
  <2>1. CASE i' = i /\ pc' = [pc EXCEPT ![t] = "finish"]
    BY <1>2, <1>6, <2>1
  <2>2. CASE i' = [i EXCEPT ![t] = 0] /\ pc' = [pc EXCEPT ![t] = "next"]
    BY <1>2, <1>6, <2>2
  <2> QED
    BY <1>5, <2>1, <2>2
<1>9. buf' \in [0 .. BufLen - 1 -> Char \cup {"end"}] /\ buf'[Len(Text(t))] = "end"
  BY <1>2, <1>5, <1>6, ConsoleAssumption
<1>10. \A k \in 1 .. Len(Text(t)) : buf'[k - 1] = Text(t)[k]
  <2> TAKE k \in 1 .. Len(Text(t))
  <2>0. BufLen \in Nat
    BY ConsoleAssumption
  <2>3. PICK n \in Nat : n = Len(Text(t)) /\ n <= BufLen - 1 /\ i[t] = n
    BY <1>2, <2>0
  <2>1. k - 1 \in 0 .. BufLen - 1 /\ k - 1 # i[t]
    BY <2>0, <2>3
  <2>2. buf'[k - 1] = buf[k - 1]
    BY <1>5, <1>6, <2>1
  <2> QED
    BY <1>2, <2>2 DEF Filled
<1>11. SectionInv(t)'
  <2>1. i'[t] \in 0 .. Len(Text(t))
    BY <1>2, <1>8, ConsoleAssumption
  <2>2. Filled(t, Len(Text(t)))' /\ buf'[Len(Text(t)')] = "end"
    BY <1>7, <1>9, <1>10 DEF Filled
  <2>3. said = Before(t) \o SubSeq(Text(t), 1, 0)
    BY <1>2
  <2>4. CASE i'[t] = 0 /\ pc'[t] = "next"
    BY <1>5, <1>7, <2>1, <2>2, <2>3, <2>4 DEF SectionInv
  <2>5. CASE i'[t] = Len(Text(t)) /\ pc'[t] = "finish"
    <3>1. "finish" \notin Putting
      BY DEF Putting
    <3>2. Filled(t, i[t])'
      BY <1>7, <2>2, <2>5 DEF Filled
    <3> QED
      BY <1>2, <1>5, <1>7, <2>1, <2>5, <3>1, <3>2 DEF SectionInv
  <2> QED
    BY <1>8, <2>4, <2>5
<1> QED
  BY <1>4, <1>5, <1>6, <1>8, <1>9, <1>11, InsideKeeps

\* The end of a message: the buffer ends where the text does.
LEMMA MessageEnd ==
  ASSUME LockInv, LockInv', MessageInv, NEW t \in Locker, monitor_write(t), buf[i[t]] = "end"
  PROVE  MessageInv'
<1>1. pc[t] = "next"
  BY DEF monitor_write
<1>2. /\ Inside = {t} /\ t \in Writer /\ SectionInv(t) /\ msg[t] \in 1 .. 2
      /\ Len(Text(t)) \in 1 .. BufLen - 1 /\ Text(t) \in Seq(Char)
      /\ \A j \in 1 .. Len(Text(t)) : Text(t)[j] \in Char \ {"end"}
  BY <1>1, InsideFacts
<1>3. /\ i[t] \in 0 .. Len(Text(t)) /\ Filled(t, Len(Text(t)))
      /\ said = Before(t) \o SubSeq(Text(t), 1, i[t])
  BY <1>1, <1>2 DEF SectionInv
<1>4. i[t] = Len(Text(t))
  <2> SUFFICES ASSUME i[t] # Len(Text(t)) PROVE FALSE
    OBVIOUS
  <2>1. i[t] + 1 \in 1 .. Len(Text(t)) /\ (i[t] + 1) - 1 = i[t]
    <3>1. Len(Text(t)) \in Nat /\ i[t] \in 0 .. Len(Text(t))
      BY <1>2, <1>3
    <3> QED
      BY <3>1
  <2>2. buf[i[t]] = Text(t)[i[t] + 1]
    BY <1>3, <2>1 DEF Filled
  <2> QED
    BY <1>2, <2>1, <2>2
<1>5. said = Before(t) \o Text(t)
  BY <1>2, <1>3, <1>4
<1>6. kprintf(t)
  BY DEF kprintf
<1>7. Inside' = {t}
  BY <1>2, <1>6, PrintProceeds, ProceedsKeeps
<1>8. /\ buf \in [0 .. BufLen - 1 -> Char \cup {"end"}] /\ i \in [Writer -> Nat]
      /\ msg \in [Writer -> 1 .. 2] /\ pc \in [Writer -> Outside \cup Printing \cup Putting]
  BY DEF MessageInv, LockInv
<1>9. /\ pc' = [pc EXCEPT ![t] = IF msg[t] = 1 THEN "fill" ELSE "unlock"]
      /\ msg' = [msg EXCEPT ![t] = 2] /\ i' = [i EXCEPT ![t] = 0]
      /\ said' = said /\ buf' = buf
  BY DEF monitor_write, Goto
<1>10. /\ msg'[t] = 2 /\ i'[t] = 0 /\ msg' \in [Writer -> 1 .. 2] /\ i' \in [Writer -> Nat]
       /\ pc'[t] = IF msg[t] = 1 THEN "fill" ELSE "unlock"
  BY <1>2, <1>8, <1>9
<1>11. Text(t)' = Message[t][2] /\ Before(t)' = Message[t][1] /\ Len(Message[t][2]) \in 1 .. BufLen - 1
  BY <1>10, MessageType DEF Text, Before
<1>12. Filled(t, i[t])'
  BY <1>10 DEF Filled
<1>13. SectionInv(t)'
  <2>1. pc'[t] \notin Putting \cup {"next", "end", "finish", "echo"}
    BY <1>10 DEF Putting
  <2>2. i'[t] \in 0 .. Len(Message[t][2]) /\ i'[t] < Len(Message[t][2])
    BY <1>10, <1>11, ConsoleAssumption
  <2>3. pc'[t] = "fill" => said = Message[t][1]
    <3> SUFFICES ASSUME msg[t] = 1 PROVE said = Message[t][1]
      BY <1>10
    <3>1. Text(t) = Message[t][1] /\ Before(t) = << >>
      BY DEF Text, Before
    <3> QED
      BY <1>2, <1>5, <3>1
  <2>4. pc'[t] = "unlock" => said = Section(t)
    <3> SUFFICES ASSUME msg[t] = 2 PROVE said = Section(t)
      BY <1>2, <1>10
    <3> QED
      BY <1>5 DEF Text, Before, Section
  <2> QED
    BY <1>9, <1>11, <1>12, <2>1, <2>2, <2>3, <2>4 DEF SectionInv, Section
<1> QED
  BY <1>7, <1>8, <1>9, <1>10, <1>13, InsideKeeps

\* The next character of a message.
LEMMA MessagePut ==
  ASSUME LockInv, LockInv', MessageInv, NEW t \in Locker, monitor_write(t), buf[i[t]] # "end"
  PROVE  MessageInv'
<1>1. pc[t] = "next"
  BY DEF monitor_write
<1>2. /\ Inside = {t} /\ t \in Writer /\ SectionInv(t) /\ msg[t] \in 1 .. 2
      /\ Len(Text(t)) \in 1 .. BufLen - 1 /\ Text(t) \in Seq(Char) /\ Before(t) \in Seq(Char)
  BY <1>1, InsideFacts
<1>3. /\ i[t] \in 0 .. Len(Text(t)) /\ Filled(t, Len(Text(t))) /\ buf[Len(Text(t))] = "end"
      /\ said = Before(t) \o SubSeq(Text(t), 1, i[t])
  BY <1>1, <1>2 DEF SectionInv
<1>4. i[t] \in Nat /\ i[t] < Len(Text(t)) /\ i[t] + 1 \in 1 .. Len(Text(t)) /\ (i[t] + 1) - 1 = i[t]
  <2>1. Len(Text(t)) \in Nat /\ i[t] \in 0 .. Len(Text(t))
    BY <1>2, <1>3
  <2>2. i[t] # Len(Text(t))
    BY <1>3
  <2> QED
    BY <2>1, <2>2
<1>5. buf[i[t]] = Text(t)[i[t] + 1]
  BY <1>3, <1>4 DEF Filled
<1>6. kprintf(t)
  BY DEF kprintf
<1>7. Inside' = {t}
  BY <1>2, <1>6, PrintProceeds, ProceedsKeeps
<1>8. /\ buf \in [0 .. BufLen - 1 -> Char \cup {"end"}] /\ i \in [Writer -> Nat]
      /\ msg \in [Writer -> 1 .. 2] /\ pc \in [Writer -> Outside \cup Printing \cup Putting]
  BY DEF MessageInv, LockInv
<1>9. /\ pc' = [pc EXCEPT ![t] = "put"] /\ msg' = msg /\ i' = [i EXCEPT ![t] = i[t] + 1]
      /\ said' = Append(said, buf[i[t]]) /\ buf' = buf
  BY DEF monitor_write, Call, Goto
<1>10. i'[t] = i[t] + 1 /\ i' \in [Writer -> Nat] /\ pc'[t] = "put"
  BY <1>2, <1>4, <1>8, <1>9
<1>11. Text(t)' = Text(t) /\ Before(t)' = Before(t)
  BY <1>9 DEF Text, Before
<1>12. said' = Before(t) \o SubSeq(Text(t), 1, i[t] + 1)
  BY <1>2, <1>3, <1>4, <1>5, <1>9, OneMore
<1>13. SectionInv(t)'
  <2>1. Filled(t, Len(Text(t)))' /\ buf'[Len(Text(t)')] = "end"
    BY <1>3, <1>9, <1>11 DEF Filled
  <2>2. i'[t] \in 0 .. Len(Text(t))
    BY <1>2, <1>4, <1>10, ConsoleAssumption
  <2> QED
    BY <1>10, <1>11, <1>12, <2>1, <2>2 DEF SectionInv
<1> QED
  BY <1>7, <1>8, <1>9, <1>10, <1>13, InsideKeeps

\* No message has been started.
LEMMA MessageInit == Init => MessageInv
<1> SUFFICES ASSUME Init PROVE MessageInv
  OBVIOUS
<1>1. Inside = {}
  BY ConsoleAssumption DEF Init, Inside, Writer
<1> QED
  BY <1>1 DEF Init, MessageInv

\* Every step keeps the invariant.
LEMMA MessageStep ==
  ASSUME LockInv, LockInv', MessageInv, [Next]_vars
  PROVE  MessageInv'
<1>1. ASSUME NEW t \in Locker, test_thread(t) PROVE MessageInv'
  <2>1. t \in Writer
    BY DEF Writer
  <2>2. CASE spinlock_lock(t)
    BY <2>2, MessageLock
  <2>3. CASE spinlock_unlock(t)
    BY <2>3, MessageUnlock
  <2>4. CASE kprintf(t)
    BY <2>4, MessageFill, MessageFinish, MessageEnd, MessagePut DEF kprintf
  <2>5. CASE monitor_put(t)
    <3>1. UNCHANGED <<buf, said, msg, i>> /\ Inside' = Inside
      BY <2>1, <2>5, PutStays, PutProceeds, ProceedsKeeps
    <3>2. pc[t] \in Putting /\ pc'[t] \in Putting \cup {"next"}
          /\ \A u \in Writer \ {t} : pc'[u] = pc[u]
      BY <2>1, <2>5, PutStays
    <3>3. Inside \subseteq Writer
      BY DEF Inside, Writer
    <3> QED
      BY <3>1, <3>2, <3>3, MessageFrame
  <2> QED
    BY <1>1, <2>2, <2>3, <2>4, <2>5 DEF test_thread
<1>2. kmain \in Writer /\ Inside \subseteq Writer \ {kmain}
  BY ConsoleAssumption DEF Writer, Inside
<1>3. ASSUME NEW ch \in Keys, Echo(ch) PROVE MessageInv'
  <2>1. UNCHANGED <<buf, said, msg, i>> /\ Inside' = Inside
    BY <1>2, <1>3, EchoProceeds, ProceedsKeeps DEF Echo
  <2>2. \A u \in Writer \ {kmain} : pc'[u] = pc[u]
    BY <1>3 DEF Echo, Call, Goto, LockInv
  <2> QED
    BY <1>2, <2>1, <2>2, MessageFrame
<1>4. CASE monitor_put(kmain)
  <2>1. UNCHANGED <<buf, said, msg, i>> /\ Inside' = Inside
    BY <1>2, <1>4, PutStays, PutProceeds, ProceedsKeeps
  <2>2. \A u \in Writer \ {kmain} : pc'[u] = pc[u]
    BY <1>2, <1>4, PutStays
  <2> QED
    BY <1>2, <2>1, <2>2, MessageFrame
<1>5. CASE UNCHANGED vars
  <2>1. UNCHANGED <<buf, said, msg, i, pc>>
    BY <1>5 DEF vars, locals, ghosts
  <2>2. Inside' = Inside
    BY <2>1 DEF Inside
  <2> QED
    BY <2>1, <2>2, MessageFrame
<1> QED
  BY <1>1, <1>3, <1>4, <1>5 DEF Next

\* A part of one message after the other is a part of both together.
LEMMA PrefixOfBoth ==
  ASSUME NEW S, NEW a \in Seq(S), NEW b \in Seq(S)
  PROVE  /\ \A n \in 0 .. Len(a) : IsPrefix(<< >> \o SubSeq(a, 1, n), a \o b)
         /\ \A n \in 0 .. Len(b) : IsPrefix(a \o SubSeq(b, 1, n), a \o b)
         /\ IsPrefix(<< >>, a \o b) /\ IsPrefix(a, a \o b) /\ IsPrefix(a \o b, a \o b)
<1> USE DEF IsPrefix
<1>1. ASSUME NEW n \in 0 .. Len(a) PROVE IsPrefix(<< >> \o SubSeq(a, 1, n), a \o b)
  OBVIOUS
<1>2. ASSUME NEW n \in 0 .. Len(b) PROVE IsPrefix(a \o SubSeq(b, 1, n), a \o b)
  OBVIOUS
<1>3. IsPrefix(<< >>, a \o b) /\ IsPrefix(a, a \o b) /\ IsPrefix(a \o b, a \o b)
  OBVIOUS
<1> HIDE DEF IsPrefix
<1> QED
  BY <1>1, <1>2, <1>3

\* The invariant says that messages are whole.
LEMMA MessagesWhole == LockInv /\ MessageInv => WholeMessages
<1> SUFFICES ASSUME LockInv, MessageInv PROVE WholeMessages
  OBVIOUS
<1>1. ASSUME NEW t \in Inside PROVE IsPrefix(said, Section(t))
  <2>1. t \in Locker /\ pc[t] # "lock" /\ t \in Writer
    BY DEF Inside, Writer
  <2>2. SectionInv(t) /\ msg[t] \in 1 .. 2
    BY <1>1, <2>1 DEF MessageInv
  <2>3. Message[t][1] \in Seq(Char) /\ Message[t][2] \in Seq(Char)
    BY <2>1, MessageType
  <2>4. pc[t] \in Outside \cup Printing \cup Putting
    BY <2>1 DEF LockInv
  <2>5. CASE pc[t] \in {"fill", "end", "finish"}
    <3>1. said = << >> \/ said = Message[t][1]
      BY <2>2, <2>5 DEF SectionInv, Before
    <3> QED
      BY <2>3, <3>1, PrefixOfBoth DEF Section
  <2>6. CASE pc[t] \in Putting \cup {"next"}
    <3>1. i[t] \in 0 .. Len(Text(t)) /\ said = Before(t) \o SubSeq(Text(t), 1, i[t])
      BY <2>2, <2>6 DEF SectionInv
    <3>2. CASE msg[t] = 1
      BY <2>3, <3>1, <3>2, PrefixOfBoth DEF Section, Text, Before
    <3>3. CASE msg[t] = 2
      BY <2>3, <3>1, <3>3, PrefixOfBoth DEF Section, Text, Before
    <3> QED
      BY <2>2, <3>2, <3>3
  <2>7. CASE pc[t] = "unlock"
    <3>1. said = Section(t)
      BY <2>2, <2>7 DEF SectionInv
    <3> QED
      BY <2>3, <3>1, PrefixOfBoth DEF Section
  <2> QED
    BY <2>1, <2>2, <2>4, <2>5, <2>6, <2>7 DEF Outside, Printing, SectionInv
<1>2. Inside = {} => said \in {<< >>} \cup {Section(t) : t \in Locker}
  BY DEF MessageInv
<1> QED
  BY <1>1, <1>2 DEF WholeMessages

\* For any number of threads and any messages that fit in the buffer: what is put
\* on the screen under the lock are the two messages of one thread, whole and in
\* order, although all threads share the static buffer of kprintf().
THEOREM MessagesAreWhole == Spec => []WholeMessages
<1>1. Init => LockInv /\ MessageInv
  BY LockInit, MessageInit
<1>2. LockInv /\ MessageInv /\ [Next]_vars => LockInv' /\ MessageInv'
  BY MutexStep, MessageStep
<1>3. LockInv /\ MessageInv => WholeMessages
  BY MessagesWhole
<1> QED
  BY <1>1, <1>2, <1>3, PTL DEF Spec

-----------------------------------------------------------------------------
(* The position settles                                                    *)

\* The places from which a thread has still to test xpos, or ypos.
WillWrap   == {"down", "below", "wrap", "home"}
WillScroll == {"wrap", "home", "loady", "sety", "scroll", "shift", "last"}

\* Whoever has left a position behind the screen, somebody has still to look at
\* it: every store is followed by the test of the thread that stored.
PositionInv ==
  /\ xpos \in 0 .. Byte - 1 /\ ypos \in 0 .. Byte - 1
  /\ reg \in [Writer -> 0 .. Byte - 1]
  /\ xpos >= COLUMNS => \E t \in Writer : pc[t] \in WillWrap
  /\ ypos >= LINES => \E t \in Writer : pc[t] \in WillScroll

\* A step that moves t to l keeps the invariant, if t leaves the places where it
\* must test only when the position is on the screen.
LEMMA PositionKept ==
  ASSUME LockInv, NEW t \in Writer, NEW l, pc' = [pc EXCEPT ![t] = l],
         PositionInv, xpos' \in 0 .. Byte - 1, ypos' \in 0 .. Byte - 1,
         reg' \in [Writer -> 0 .. Byte - 1],
         \/ xpos' < COLUMNS \/ l \in WillWrap
         \/ xpos' = xpos /\ pc[t] \notin WillWrap,
         \/ ypos' < LINES \/ l \in WillScroll
         \/ ypos' = ypos /\ pc[t] \notin WillScroll
  PROVE  PositionInv'
<1>1. pc \in [Writer -> Outside \cup Printing \cup Putting]
  BY DEF LockInv
<1>2. COLUMNS \in Nat /\ LINES \in Nat /\ Byte \in Nat
  BY ConsoleAssumption
<1>3. ASSUME xpos' >= COLUMNS PROVE \E u \in Writer : pc'[u] \in WillWrap
  <2>1. CASE l \in WillWrap
    BY <1>1, <2>1
  <2>2. CASE xpos' = xpos /\ pc[t] \notin WillWrap
    <3>1. PICK u \in Writer : pc[u] \in WillWrap
      BY <1>3, <2>2 DEF PositionInv
    <3>2. pc'[u] = pc[u]
      BY <1>1, <2>2, <3>1
    <3> QED
      BY <3>1, <3>2
  <2>3. ~(xpos' < COLUMNS)
    BY <1>2, <1>3
  <2> QED
    BY <2>1, <2>2, <2>3
<1>4. ASSUME ypos' >= LINES PROVE \E u \in Writer : pc'[u] \in WillScroll
  <2>1. CASE l \in WillScroll
    BY <1>1, <2>1
  <2>2. CASE ypos' = ypos /\ pc[t] \notin WillScroll
    <3>1. PICK u \in Writer : pc[u] \in WillScroll
      BY <1>4, <2>2 DEF PositionInv
    <3>2. pc'[u] = pc[u]
      BY <1>1, <2>2, <3>1
    <3> QED
      BY <3>1, <3>2
  <2>3. ~(ypos' < LINES)
    BY <1>2, <1>4
  <2> QED
    BY <2>1, <2>2, <2>3
<1> QED
  BY <1>3, <1>4 DEF PositionInv

\* Arithmetic modulo 2^8 stays in a byte.
LEMMA InByte ==
  ASSUME NEW n \in Int
  PROVE  n % Byte \in 0 .. Byte - 1
BY ConsoleAssumption

\* The column fits a byte.
LEMMA ColumnInByte ==
  ASSUME NEW ch, NEW x \in 0 .. Byte - 1
  PROVE  Column(ch, x) \in 0 .. Byte - 1
<1> DEFINE n == CASE ch = "bs"        -> x - 1
                  [] ch = "tab"       -> ((x + TAB) \div TAB) * TAB
                  [] ch \in Printable -> x + 1
                  [] OTHER            -> 0
<1>1. x \in Int /\ TAB \in Nat /\ TAB > 0
  BY ConsoleAssumption
<1>2. ((x + TAB) \div TAB) * TAB \in Int
  <2>1. (x + TAB) \div TAB \in Int
    BY <1>1
  <2> QED
    BY <1>1, <2>1
<1>3. n \in Int
  BY <1>1, <1>2
<1>4. Column(ch, x) = n % Byte
  BY DEF Column
<1> HIDE DEF n
<1> QED
  BY <1>3, <1>4, InByte

\* One character leaves the position on the screen.
LEMMA PositionPut ==
  ASSUME LockInv, PositionInv, NEW t \in Writer, monitor_put(t)
  PROVE  PositionInv'
<1>1. /\ xpos \in 0 .. Byte - 1 /\ ypos \in 0 .. Byte - 1
      /\ reg \in [Writer -> 0 .. Byte - 1] /\ Byte \in Nat /\ Byte > 0
      /\ COLUMNS \in Nat /\ COLUMNS > 0 /\ LINES \in Nat /\ LINES > 0 /\ LINES < Byte
  BY ConsoleAssumption DEF PositionInv
<1> USE DEF Goto, screen, locals, WillWrap, WillScroll
<1>2. CASE Branch(t)
  <2> DEFINE l == CASE c[t] = "bs"        -> IF xpos # 0 THEN "loadx" ELSE "wrap"
                    [] c[t] = "tab"       -> "loadx"
                    [] c[t] = "other"     -> "wrap"
                    [] c[t] \in Printable -> "row"
                    [] OTHER              -> "setx"
  <2>1. UNCHANGED <<xpos, ypos, reg>> /\ pc[t] = "put" /\ pc' = [pc EXCEPT ![t] = l]
    BY <1>2 DEF Branch
  <2> HIDE DEF l
  <2> QED
    BY <1>1, <2>1, PositionKept
<1>3. CASE ReadRow(t)
  BY <1>1, <1>3, PositionKept DEF ReadRow
<1>4. CASE Locate(t)
  BY <1>1, <1>4, PositionKept DEF Locate
<1>5. CASE Store(t)
  BY <1>1, <1>5, PositionKept DEF Store
<1>6. CASE LoadX(t)
  BY <1>1, <1>6, PositionKept DEF LoadX
<1>7. CASE SetX(t)
  <2>1. Column(c[t], reg[t]) \in 0 .. Byte - 1
    BY <1>1, ColumnInByte
  <2> QED
    BY <1>1, <1>7, <2>1, PositionKept DEF SetX
<1>8. CASE WrapTest(t)
  <2> DEFINE l == IF xpos >= COLUMNS THEN "home" ELSE "scroll"
  <2>1. UNCHANGED <<xpos, ypos, reg>> /\ pc' = [pc EXCEPT ![t] = l]
    BY <1>8 DEF WrapTest
  <2>2. l \in WillScroll /\ (xpos < COLUMNS \/ l \in WillWrap)
    BY <1>1
  <2> HIDE DEF l
  <2> QED
    BY <1>1, <2>1, <2>2, PositionKept
<1>9. CASE WrapX(t)
  <2>1. xpos' = 0 /\ UNCHANGED <<ypos, reg>> /\ pc' = [pc EXCEPT ![t] = "loady"]
    BY <1>9 DEF WrapX
  <2>2. xpos' \in 0 .. Byte - 1 /\ xpos' < COLUMNS
    BY <1>1, <2>1
  <2> QED
    BY <1>1, <2>1, <2>2, PositionKept
<1>10. CASE LoadY(t)
  BY <1>1, <1>10, PositionKept DEF LoadY
<1>11. CASE SetY(t)
  <2>1. (reg[t] + 1) % Byte \in 0 .. Byte - 1
    BY <1>1, InByte
  <2> QED
    BY <1>1, <1>11, <2>1, PositionKept DEF SetY
<1>12. CASE ScrollTest(t)
  <2> DEFINE l == IF ypos >= LINES THEN "shift" ELSE "cursor"
  <2>1. UNCHANGED <<xpos, ypos, reg>> /\ pc[t] = "scroll" /\ pc' = [pc EXCEPT ![t] = l]
    BY <1>12 DEF ScrollTest
  <2>2. ypos < LINES \/ l \in WillScroll
    BY <1>1
  <2> HIDE DEF l
  <2> QED
    BY <1>1, <2>1, <2>2, PositionKept
<1>13. CASE Shift(t)
  BY <1>1, <1>13, PositionKept DEF Shift
<1>14. CASE LastRow(t)
  <2>1. /\ ypos' = LINES - 1 /\ UNCHANGED <<xpos, reg>> /\ pc[t] = "last"
        /\ pc' = [pc EXCEPT ![t] = "cursor"]
    BY <1>14 DEF LastRow
  <2>2. ypos' \in 0 .. Byte - 1 /\ ypos' < LINES
    BY <1>1, <2>1
  <2> QED
    BY <1>1, <2>1, <2>2, PositionKept
<1>15. CASE update_cursor(t)
  <2>1. /\ UNCHANGED <<xpos, ypos>> /\ pc[t] = "cursor" /\ reg' = [reg EXCEPT ![t] = 0]
        /\ pc' = [pc EXCEPT ![t] = IF t = kmain THEN "echo" ELSE "next"]
    BY <1>15 DEF update_cursor
  <2>2. reg' \in [Writer -> 0 .. Byte - 1]
    BY <1>1, <2>1
  <2> QED
    BY <1>1, <2>1, <2>2, PositionKept
<1> QED
  BY <1>2, <1>3, <1>4, <1>5, <1>6, <1>7, <1>8, <1>9, <1>10, <1>11, <1>12, <1>13, <1>14, <1>15
  DEF monitor_put, scroll

\* Every step keeps the position.
LEMMA PositionNext ==
  ASSUME LockInv, PositionInv, [Next]_vars
  PROVE  PositionInv'
<1> USE DEF WillWrap, WillScroll
<1>1. kmain \in Writer /\ Locker \subseteq Writer
  BY DEF Writer
<1>2. ASSUME NEW t \in Writer, NEW l, pc' = [pc EXCEPT ![t] = l], UNCHANGED <<xpos, ypos, reg>>,
             pc[t] \notin WillWrap \cup WillScroll
      PROVE  PositionInv'
  BY <1>2, PositionKept DEF PositionInv
<1>3. ASSUME NEW t \in Locker, spinlock_lock(t) PROVE PositionInv'
  <2>1. CASE lock = LOCKED
    BY <1>3, <2>1 DEF spinlock_lock, Contended, screen, PositionInv
  <2>2. CASE lock # LOCKED
    BY <1>1, <1>2, <1>3, <2>2 DEF spinlock_lock, Contended, Goto, screen
  <2> QED
    BY <2>1, <2>2
<1>4. ASSUME NEW t \in Locker, spinlock_unlock(t) PROVE PositionInv'
  BY <1>1, <1>2, <1>4 DEF spinlock_unlock, Goto, screen, locals
<1>5. ASSUME NEW t \in Locker, kprintf(t) PROVE PositionInv'
  <2>1. CASE Fill(t) \/ Terminate(t) \/ Finish(t)
    BY <1>1, <1>2, <2>1 DEF Fill, Terminate, Finish, Goto, screen, locals
  <2>2. CASE monitor_write(t)
    BY <1>1, <1>2, <2>2 DEF monitor_write, Call, Goto, screen
  <2> QED
    BY <1>5, <2>1, <2>2 DEF kprintf
<1>6. ASSUME NEW ch \in Keys, Echo(ch) PROVE PositionInv'
  BY <1>1, <1>2, <1>6 DEF Echo, Call, Goto, screen
<1>7. CASE UNCHANGED vars
  BY <1>7 DEF vars, screen, locals, PositionInv
<1> QED
  BY <1>1, <1>3, <1>4, <1>5, <1>6, <1>7, PositionPut DEF Next, test_thread

\* However calls of monitor_put() overlap, for any number of writers and any size
\* of the screen: once all have returned, the next character is on the screen.
THEOREM PositionSettles == Spec => []SettlesOnScreen
<1>1. Init => LockInv /\ PositionInv
  <2>1. Init => PositionInv
    BY ConsoleAssumption DEF Init, PositionInv
  <2> QED
    BY <2>1, LockInit
<1>2. LockInv /\ PositionInv /\ [Next]_vars => LockInv' /\ PositionInv'
  BY MutexStep, PositionNext
<1>3. PositionInv => SettlesOnScreen
  BY ConsoleAssumption DEF PositionInv, SettlesOnScreen, WillWrap, WillScroll, Putting
<1> QED
  BY <1>1, <1>2, <1>3, PTL DEF Spec

-----------------------------------------------------------------------------
(* The screen is the page                                                  *)

\* The screen shows p; the next character goes where p is being written.
Shows(p)  == \A y \in 0 .. LINES - 1, x \in 0 .. COLUMNS - 1 :
               video_mem[y * COLUMNS + x] = Paper!At(p, y, x)
Placed(p) == xpos = p.col /\ ypos = Paper!Row(p)

\* The position is under the last line of p, which ends with a new line.
Below(p) == xpos = 0 /\ ypos = Paper!Row(p) + 1 /\ page = Paper!NewLine(p)

\* The page p with the character ch where it is being written.
Inked(p, ch) == IF ch \in Printable
                THEN [p EXCEPT !.lines[Len(p.lines)][p.col] = ch] ELSE p

\* How far a monitor_put() that nobody disturbs has come with the page p: the
\* character is not on the screen yet, ...
Typing(t, p) ==
  /\ pc[t] \in {"put", "row", "locate", "store"}
  /\ page = Paper!Typed(p, c[t]) /\ Shows(p) /\ Placed(p)
  /\ pc[t] # "put" => c[t] \in Printable
  /\ pc[t] = "locate" => reg[t] = Paper!Row(p)
  /\ pc[t] = "store" => location[t] = Paper!Row(p) * COLUMNS + p.col

\* ... it is, and the column is computed, ...
Moving(t, p) ==
  /\ pc[t] \in {"loadx", "setx"}
  /\ page = Paper!Typed(p, c[t]) /\ Shows(Inked(p, c[t])) /\ Placed(p)
  /\ c[t] # "other" /\ ~ (c[t] = "bs" /\ p.col = 0)
  /\ pc[t] = "setx" => c[t] \in {"nl", "cr"} \/ reg[t] = p.col

\* ... the line p ends with is left for a new one, ...
Breaking(t, p) ==
  /\ pc[t] \in {"down", "below", "home", "loady", "sety"}
  /\ page = Paper!NewLine(p) /\ Shows(p) /\ ypos = Paper!Row(p)
  /\ pc[t] # "home" => xpos = 0
  /\ pc[t] \in {"below", "sety"} => reg[t] = Paper!Row(p)

\* ... the column may be behind the screen, ...
Wrapping(t, p) ==
  /\ pc[t] = "wrap" /\ Shows(p)
  /\ \/ ypos = Paper!Row(p) /\ xpos \in Nat /\ page = Paper!MoveTo(p, xpos)
     \/ Below(p)

\* ... the row may be, ...
Scrolling(t, p) ==
  /\ pc[t] \in {"scroll", "shift"} /\ Shows(p)
  /\ \/ pc[t] = "scroll" /\ p = page /\ Placed(p)
     \/ Below(p) /\ (pc[t] = "shift" => Paper!Row(p) + 1 = LINES)

\* ... or only the cursor is left to be shown.
Finishing(t, p) ==
  /\ pc[t] \in {"last", "cursor"}
  /\ p = page /\ Shows(p) /\ xpos = p.col
  /\ pc[t] = "last" => Paper!Row(p) = LINES - 1
  /\ pc[t] = "cursor" => ypos = Paper!Row(p)

Drawing(t) ==
  \E p \in Paper!Page : \/ Typing(t, p) \/ Moving(t, p) \/ Breaking(t, p)
                        \/ Wrapping(t, p) \/ Scrolling(t, p) \/ Finishing(t, p)

\* Nobody is writing, and the screen is the page.
Settled == /\ page \in Paper!Page /\ Shows(page) /\ Placed(page)
           /\ cursor = Paper!Row(page) * COLUMNS + page.col

PageInv ==
  /\ c \in [Writer -> Char] /\ location \in [Writer -> Int]
  /\ ~ torn =>
       /\ \A t, u \in Writer : pc[t] \in Putting /\ pc[u] \in Putting => t = u
       /\ \A t \in Writer : pc[t] \in Putting => Drawing(t)
       /\ (\A t \in Writer : pc[t] \notin Putting) => Settled


\* Division by a positive number, and the order of its multiples.
LEMMA Multiples ==
  ASSUME NEW d \in Nat \ {0}
  PROVE  /\ \A n \in Nat : /\ n \div d \in Nat /\ n % d \in 0 .. d - 1
                           /\ n = (n \div d) * d + (n % d)
         /\ \A a, b \in Nat : a * d \in Nat /\ (a < b => a * d + d <= b * d)
         /\ \A a \in Nat : (a + 1) * d = a * d + d /\ (a * d) % d = 0
<1>1. ASSUME NEW n \in Nat PROVE n \div d \in Nat /\ n % d \in 0 .. d - 1
  <2>1. n \div d \in Nat
    BY SMT
  <2>2. n % d \in 0 .. d - 1
    BY SMT
  <2> QED
    BY <2>1, <2>2
<1>2. ASSUME NEW n \in Nat PROVE n = (n \div d) * d + (n % d)
  BY SMT
<1>3. \A a \in Nat : (a + 1) * d = a * d + d
  OBVIOUS
<1>4. ASSUME NEW a \in Nat, NEW b \in Nat PROVE a * d \in Nat /\ (a < b => a * d + d <= b * d)
  <2>1. a * d \in Nat
    OBVIOUS
  <2>2. ASSUME a < b PROVE a * d + d <= b * d
    <3>1. PICK e \in Nat : b = (a + 1) + e
      <4>1. b - (a + 1) \in Nat /\ b = (a + 1) + (b - (a + 1))
        BY <2>2
      <4> QED
        BY <4>1
    <3>2. b * d = (a * d + d) + e * d
      BY <3>1
    <3>3. e * d \in Nat
      OBVIOUS
    <3> QED
      BY <2>1, <3>2, <3>3
  <2> QED
    BY <2>1, <2>2
<1>5. ASSUME NEW a \in Nat PROVE (a * d) % d = 0
  OBVIOUS
<1> QED
  BY <1>1, <1>2, <1>3, <1>4, <1>5

\* The places of the screen are laid out row by row.
LEMMA Places ==
  ASSUME NEW y \in 0 .. LINES - 1, NEW x \in 0 .. COLUMNS - 1
  PROVE  /\ y * COLUMNS + x \in Cell
         /\ (y * COLUMNS + x) + COLUMNS = (y + 1) * COLUMNS + x
         /\ (y * COLUMNS + x) + COLUMNS \in Cell <=> y # LINES - 1
         /\ \A v \in 0 .. LINES - 1, w \in 0 .. COLUMNS - 1 :
              v * COLUMNS + w = y * COLUMNS + x => v = y /\ w = x
<1>1. LINES \in Nat /\ LINES > 0 /\ COLUMNS \in Nat /\ COLUMNS > 0
  BY ConsoleAssumption
<1>2. /\ \A a, b \in Nat : a * COLUMNS \in Nat /\ (a < b => a * COLUMNS + COLUMNS <= b * COLUMNS)
      /\ \A a \in Nat : (a + 1) * COLUMNS = a * COLUMNS + COLUMNS
  BY <1>1, Multiples
<1>3. y \in Nat /\ x \in Nat /\ x < COLUMNS /\ y < LINES
  BY <1>1
<1> PICK u \in Nat : u = y * COLUMNS
  BY <1>2, <1>3
<1> PICK z \in Nat : z = LINES * COLUMNS
  BY <1>1, <1>2
<1>4. u + COLUMNS <= z
  BY <1>1, <1>2, <1>3
<1>5. u + x \in 0 .. z - 1
  BY <1>1, <1>3, <1>4
<1>6. (y + 1) * COLUMNS = u + COLUMNS
  BY <1>2, <1>3
<1>7. (u + x) + COLUMNS = (u + COLUMNS) + x
  BY <1>1, <1>3
<1>8. y = LINES - 1 => u + COLUMNS = z
  <2>1. y = LINES - 1 => y + 1 = LINES
    BY <1>1, <1>3
  <2> QED
    BY <1>6, <2>1
<1>9. y # LINES - 1 => (u + COLUMNS) + COLUMNS <= z
  <2>1. y # LINES - 1 => y + 1 \in Nat /\ y + 1 < LINES
    BY <1>1, <1>3
  <2> QED
    BY <1>1, <1>2, <1>6, <2>1
<1>10. (u + x) + COLUMNS \in 0 .. z - 1 <=> y # LINES - 1
  <2>1. CASE y = LINES - 1
    BY <1>1, <1>3, <1>8, <2>1
  <2>2. CASE y # LINES - 1
    BY <1>1, <1>3, <1>9, <2>2
  <2> QED
    BY <2>1, <2>2
<1>11. ASSUME NEW v \in 0 .. LINES - 1, NEW w \in 0 .. COLUMNS - 1,
              v * COLUMNS + w = y * COLUMNS + x
       PROVE  v = y /\ w = x
  <2>1. v \in Nat /\ w \in Nat /\ w < COLUMNS
    BY <1>1
  <2> PICK k \in Nat : k = v * COLUMNS
    BY <1>2, <2>1
  <2>2. k + w = u + x
    BY <1>11
  <2>3. v < y => k + COLUMNS <= u
    BY <1>2, <1>3, <2>1
  <2>4. y < v => u + COLUMNS <= k
    BY <1>2, <1>3, <2>1
  <2>5. ~ (v < y) /\ ~ (y < v)
    BY <1>1, <1>3, <2>1, <2>2, <2>3, <2>4
  <2>6. v = y
    BY <1>3, <2>1, <2>5
  <2>7. k = u
    BY <2>6
  <2>8. w = x
    BY <1>3, <2>1, <2>2, <2>7
  <2> QED
    BY <2>6, <2>8
<1> QED
  BY <1>5, <1>6, <1>7, <1>10, <1>11 DEF Cell

\* (xpos + TAB) & ~(TAB - 1) is the next tabulator stop.
LEMMA TabStop ==
  ASSUME NEW x \in Nat
  PROVE  /\ ((x + TAB) \div TAB) * TAB = Paper!NextTab(x)
         /\ Paper!NextTab(x) \in x + 1 .. x + TAB
<1>1. TAB \in Nat /\ TAB > 0
  BY ConsoleAssumption
<1>2. /\ \A n \in Nat : /\ n \div TAB \in Nat /\ n % TAB \in 0 .. TAB - 1
                        /\ n = (n \div TAB) * TAB + (n % TAB)
      /\ \A a, b \in Nat : a * TAB \in Nat /\ (a < b => a * TAB + TAB <= b * TAB)
      /\ \A a \in Nat : (a * TAB) % TAB = 0
  BY <1>1, Multiples
<1> PICK a \in Nat : a = x + TAB
  BY <1>1
<1> PICK q \in Nat : q = a \div TAB
  BY <1>2
<1> PICK r \in 0 .. TAB - 1 : r = a % TAB
  BY <1>2
<1>3. a = q * TAB + r
  BY <1>2
<1> PICK n \in Nat : n = q * TAB
  BY <1>2
<1>4. n % TAB = 0
  BY <1>2
<1>5. n \in x + 1 .. x + TAB
  BY <1>1, <1>3
<1>6. ASSUME NEW y \in x + 1 .. x + TAB, y % TAB = 0
      PROVE  y = n
  <2>1. y \in Nat
    BY <1>1
  <2> PICK k \in Nat : k = y \div TAB
    BY <1>2, <2>1
  <2>k. y = k * TAB
    <3>1. y = k * TAB + 0
      BY <1>2, <1>6, <2>1
    <3>2. k * TAB \in Nat
      BY <1>2
    <3>3. \A m \in Nat : m + 0 = m
      OBVIOUS
    <3> QED
      BY <3>1, <3>2, <3>3
  <2>2. (k < q => y + TAB <= n) /\ (q < k => n + TAB <= y)
    BY <1>2, <2>k
  <2>3. ~ (k < q) /\ ~ (q < k)
    BY <1>1, <1>5, <2>1, <2>2
  <2>4. k = q
    BY <2>3
  <2> QED
    BY <2>4, <2>k
<1>7. Paper!NextTab(x) = n
  <2> DEFINE S == x + 1 .. x + TAB
  <2>1. n \in S /\ n % TAB = 0 /\ \A y \in S : y % TAB = 0 => y = n
    BY <1>4, <1>5, <1>6
  <2> HIDE DEF S
  <2>2. (CHOOSE y \in S : y % TAB = 0) = n
    BY <2>1
  <2> QED
    BY <2>2 DEF Paper!NextTab, S
<1> QED
  BY <1>5, <1>7

\* What Append, Tail and a change of one element do to a sequence.
LEMMA SeqFacts ==
  ASSUME NEW S, NEW s \in Seq(S), NEW e \in S
  PROVE  /\ /\ Append(s, e) \in Seq(S) /\ Len(Append(s, e)) = Len(s) + 1
            /\ Append(s, e)[Len(s) + 1] = e
            /\ \A k \in 1 .. Len(s) : Append(s, e)[k] = s[k]
         /\ Len(s) > 0 =>
              /\ Tail(s) \in Seq(S) /\ Len(Tail(s)) = Len(s) - 1
              /\ \A k \in 1 .. Len(s) - 1 : Tail(s)[k] = s[k + 1]
         /\ \A n \in 1 .. Len(s) :
              /\ [s EXCEPT ![n] = e] \in Seq(S) /\ Len([s EXCEPT ![n] = e]) = Len(s)
              /\ \A k \in 1 .. Len(s) : [s EXCEPT ![n] = e][k] = IF k = n THEN e ELSE s[k]
<1>1. /\ Append(s, e) \in Seq(S) /\ Len(Append(s, e)) = Len(s) + 1
      /\ Append(s, e)[Len(s) + 1] = e
      /\ \A k \in 1 .. Len(s) : Append(s, e)[k] = s[k]
  OBVIOUS
<1>2. ASSUME Len(s) > 0
      PROVE  /\ Tail(s) \in Seq(S) /\ Len(Tail(s)) = Len(s) - 1
             /\ \A k \in 1 .. Len(s) - 1 : Tail(s)[k] = s[k + 1]
  BY <1>2
<1>3. ASSUME NEW n \in 1 .. Len(s)
      PROVE  /\ [s EXCEPT ![n] = e] \in Seq(S) /\ Len([s EXCEPT ![n] = e]) = Len(s)
             /\ \A k \in 1 .. Len(s) : [s EXCEPT ![n] = e][k] = IF k = n THEN e ELSE s[k]
  OBVIOUS
<1> QED
  BY <1>1, <1>2, <1>3

\* What is known of a page.
LEMMA PageFields ==
  ASSUME NEW p \in Paper!Page
  PROVE  /\ p = [lines |-> p.lines, col |-> p.col]
         /\ p.lines \in Seq([0 .. COLUMNS - 1 -> Printable \cup {Blank}])
         /\ Len(p.lines) \in 1 .. LINES
         /\ p.col \in 0 .. COLUMNS - 1
         /\ Paper!Row(p) \in 0 .. LINES - 1
<1>1. /\ p = [lines |-> p.lines, col |-> p.col]
      /\ p.lines \in Seq([0 .. COLUMNS - 1 -> Printable \cup {Blank}])
      /\ p.col \in 0 .. COLUMNS - 1
      /\ Len(p.lines) \in 1 .. LINES
  BY DEF Paper!Page
<1>2. LINES \in Nat
  BY ConsoleAssumption
<1>3. Paper!Row(p) \in 0 .. LINES - 1
  BY <1>1, <1>2 DEF Paper!Row
<1> QED
  BY <1>1, <1>3

\* Moving along the line changes no character.
LEMMA PageColumn ==
  ASSUME NEW p \in Paper!Page, NEW x \in 0 .. COLUMNS - 1
  PROVE  /\ [p EXCEPT !.col = x] \in Paper!Page
         /\ [p EXCEPT !.col = x].col = x
         /\ Paper!Row([p EXCEPT !.col = x]) = Paper!Row(p)
         /\ \A yy, xx : Paper!At([p EXCEPT !.col = x], yy, xx) = Paper!At(p, yy, xx)
<1>1. /\ p = [lines |-> p.lines, col |-> p.col]
      /\ p.lines \in Seq([0 .. COLUMNS - 1 -> Printable \cup {Blank}])
      /\ Len(p.lines) \in 1 .. LINES
  BY PageFields
<1>2. [p EXCEPT !.col = x] = [lines |-> p.lines, col |-> x]
  BY <1>1
<1>3. [lines |-> p.lines, col |-> x] \in Paper!Page
  BY <1>1 DEF Paper!Page
<1> QED
  BY <1>2, <1>3 DEF Paper!Row, Paper!At

\* A page with room gets a blank line under the last one.
LEMMA PageGrows ==
  ASSUME NEW p \in Paper!Page, Paper!Row(p) + 1 < LINES
  PROVE  /\ Paper!NewLine(p) \in Paper!Page
         /\ Paper!NewLine(p).col = 0
         /\ Paper!Row(Paper!NewLine(p)) = Paper!Row(p) + 1
         /\ \A y \in 0 .. LINES - 1, x \in 0 .. COLUMNS - 1 :
              Paper!At(Paper!NewLine(p), y, x) = Paper!At(p, y, x)
<1> DEFINE L == [0 .. COLUMNS - 1 -> Printable \cup {Blank}]
<1>0. LINES \in Nat /\ COLUMNS \in Nat /\ COLUMNS > 0
  BY ConsoleAssumption
<1> PICK s \in Seq(L) : s = p.lines
  BY PageFields
<1>1. Len(s) \in 1 .. LINES /\ Len(s) < LINES
  BY <1>0, PageFields DEF Paper!Row
<1>b. Paper!BlankLine \in L /\ \A x \in 0 .. COLUMNS - 1 : Paper!BlankLine[x] = Blank
  BY DEF Paper!BlankLine
<1> HIDE DEF L
<1> PICK m \in Seq(L) : m = Append(s, Paper!BlankLine)
  BY <1>b, SeqFacts
<1>2. /\ Len(m) = Len(s) + 1 /\ m[Len(s) + 1] = Paper!BlankLine
      /\ \A k \in 1 .. Len(s) : m[k] = s[k]
  BY <1>b, SeqFacts
<1>3. Paper!NewLine(p) = [lines |-> m, col |-> 0]
  <2>1. ~ (Len(m) > LINES)
    BY <1>0, <1>1, <1>2
  <2> QED
    BY <2>1 DEF Paper!NewLine
<1>4. Paper!NewLine(p) \in Paper!Page
  <2>1. Len(m) \in 1 .. LINES /\ 0 \in 0 .. COLUMNS - 1
    BY <1>0, <1>1, <1>2
  <2> QED
    BY <1>3, <2>1 DEF Paper!Page, L
<1>5. Paper!Row(p) = Len(s) - 1 /\ Paper!Row(Paper!NewLine(p)) = Len(s)
  BY <1>1, <1>2, <1>3 DEF Paper!Row
<1>6. ASSUME NEW y \in 0 .. LINES - 1, NEW x \in 0 .. COLUMNS - 1
      PROVE  Paper!At(Paper!NewLine(p), y, x) = Paper!At(p, y, x)
  <2>1. CASE y \in 0 .. Len(s) - 1
    <3>1. m[y + 1] = s[y + 1] /\ y \in 0 .. Len(s)
      BY <1>0, <1>1, <1>2, <2>1
    <3> QED
      BY <1>3, <1>5, <2>1, <3>1 DEF Paper!At
  <2>2. CASE y = Len(s)
    <3>1. m[y + 1][x] = Blank /\ y \in 0 .. Len(s) /\ y \notin 0 .. Len(s) - 1
      BY <1>b, <1>1, <1>2, <2>2
    <3> QED
      BY <1>3, <1>5, <3>1 DEF Paper!At
  <2>3. CASE y \notin 0 .. Len(s)
    <3>1. y \notin 0 .. Len(s) - 1
      BY <1>1, <2>3
    <3> QED
      BY <1>5, <2>3, <3>1 DEF Paper!At
  <2> QED
    BY <1>0, <1>1, <2>1, <2>2, <2>3
<1>7. Paper!NewLine(p).col = 0 /\ Paper!Row(p) + 1 = Len(s)
  BY <1>1, <1>3, <1>5
<1> QED
  BY <1>4, <1>5, <1>6, <1>7

\* A full page loses its first line.
LEMMA PageScrolls ==
  ASSUME NEW p \in Paper!Page, Paper!Row(p) + 1 = LINES
  PROVE  /\ Paper!NewLine(p) \in Paper!Page
         /\ Paper!NewLine(p).col = 0
         /\ Paper!Row(Paper!NewLine(p)) = LINES - 1
         /\ \A y \in 0 .. LINES - 1, x \in 0 .. COLUMNS - 1 :
              Paper!At(Paper!NewLine(p), y, x) =
                IF y = LINES - 1 THEN Blank ELSE Paper!At(p, y + 1, x)
<1> DEFINE L == [0 .. COLUMNS - 1 -> Printable \cup {Blank}]
<1>0. LINES \in Nat /\ LINES > 0 /\ COLUMNS \in Nat /\ COLUMNS > 0
  BY ConsoleAssumption
<1> PICK s \in Seq(L) : s = p.lines
  BY PageFields
<1>1. Len(s) = LINES
  BY <1>0, PageFields DEF Paper!Row
<1>b. Paper!BlankLine \in L /\ \A x \in 0 .. COLUMNS - 1 : Paper!BlankLine[x] = Blank
  BY DEF Paper!BlankLine
<1> HIDE DEF L
<1> PICK m \in Seq(L) : m = Append(s, Paper!BlankLine)
  BY <1>b, SeqFacts
<1>2. /\ Len(m) = LINES + 1 /\ m[LINES + 1] = Paper!BlankLine
      /\ \A k \in 1 .. LINES : m[k] = s[k]
  BY <1>b, <1>1, SeqFacts
<1>t. Len(m) > 0 /\ Len(m) - 1 = LINES /\ Len(m) > LINES
  BY <1>0, <1>2
<1> PICK r \in Seq(L) : r = Tail(m)
  BY <1>t, <1>b, SeqFacts
<1>3. /\ Len(r) = LINES
      /\ \A k \in 1 .. LINES : r[k] = m[k + 1]
  BY <1>t, <1>b, SeqFacts
<1>4. Paper!NewLine(p) = [lines |-> r, col |-> 0]
  BY <1>t DEF Paper!NewLine
<1>5. Paper!NewLine(p) \in Paper!Page
  <2>1. Len(r) \in 1 .. LINES /\ 0 \in 0 .. COLUMNS - 1
    BY <1>0, <1>3
  <2> QED
    BY <1>4, <2>1 DEF Paper!Page, L
<1>6. Paper!Row(p) = LINES - 1 /\ Paper!Row(Paper!NewLine(p)) = LINES - 1
  BY <1>0, <1>1, <1>3, <1>4 DEF Paper!Row
<1>7. ASSUME NEW y \in 0 .. LINES - 1, NEW x \in 0 .. COLUMNS - 1
      PROVE  Paper!At(Paper!NewLine(p), y, x) =
                IF y = LINES - 1 THEN Blank ELSE Paper!At(p, y + 1, x)
  <2>1. Paper!At(Paper!NewLine(p), y, x) = m[y + 2][x]
    <3>1. y + 1 \in 1 .. LINES /\ (y + 1) + 1 = y + 2
      BY <1>0
    <3>2. r[y + 1] = m[y + 2]
      BY <1>3, <3>1
    <3>3. Paper!At(Paper!NewLine(p), y, x) = Paper!NewLine(p).lines[y + 1][x]
      BY <1>6 DEF Paper!At
    <3>4. Paper!NewLine(p).lines = r
      BY <1>4
    <3> QED
      BY <3>2, <3>3, <3>4, Zenon
  <2>2. CASE y = LINES - 1
    <3>1. m[y + 2][x] = Blank
      BY <1>0, <1>b, <1>2, <2>2
    <3> QED
      BY <2>1, <2>2, <3>1
  <2>3. CASE y # LINES - 1
    <3>1. m[y + 2] = s[y + 2] /\ y + 1 \in 0 .. LINES - 1 /\ (y + 1) + 1 = y + 2
      BY <1>0, <1>2, <2>3
    <3>2. Paper!At(p, y + 1, x) = s[y + 2][x]
      BY <1>6, <3>1 DEF Paper!At
    <3> QED
      BY <2>1, <2>3, <3>1, <3>2
  <2> QED
    BY <2>2, <2>3
<1>8. Paper!NewLine(p).col = 0
  BY <1>4
<1> QED
  BY <1>5, <1>6, <1>7, <1>8

\* A printable character appears in one place.
LEMMA PageInked ==
  ASSUME NEW p \in Paper!Page, NEW ch \in Printable
  PROVE  /\ Inked(p, ch) \in Paper!Page
         /\ Inked(p, ch).col = p.col
         /\ Paper!Row(Inked(p, ch)) = Paper!Row(p)
         /\ \A y \in 0 .. LINES - 1, x \in 0 .. COLUMNS - 1 :
              Paper!At(Inked(p, ch), y, x) =
                IF y = Paper!Row(p) /\ x = p.col THEN ch ELSE Paper!At(p, y, x)
<1> DEFINE L == [0 .. COLUMNS - 1 -> Printable \cup {Blank}]
<1>0. LINES \in Nat /\ LINES > 0 /\ COLUMNS \in Nat /\ COLUMNS > 0
  BY ConsoleAssumption
<1> PICK s \in Seq(L) : s = p.lines
  BY PageFields
<1>1. /\ Len(s) \in 1 .. LINES /\ p = [lines |-> s, col |-> p.col]
      /\ p.col \in 0 .. COLUMNS - 1
  BY PageFields
<1> PICK n \in 1 .. LINES : n = Len(s)
  BY <1>1
<1> PICK f \in L : f = [s[n] EXCEPT ![p.col] = ch]
  <2>1. s[n] \in L
    BY <1>0, <1>1
  <2> QED
    BY <2>1
<1>2. \A x \in 0 .. COLUMNS - 1 : f[x] = IF x = p.col THEN ch ELSE s[n][x]
  <2>1. s[n] \in L
    BY <1>0, <1>1
  <2> QED
    BY <2>1
<1> HIDE DEF L
<1>d. n \in 1 .. Len(s)
  BY <1>0
<1>e. /\ [s EXCEPT ![n] = f] \in Seq(L)
      /\ Len([s EXCEPT ![n] = f]) = Len(s)
      /\ \A k \in 1 .. Len(s) : [s EXCEPT ![n] = f][k] = IF k = n THEN f ELSE s[k]
  BY <1>d, SeqFacts
<1> PICK m : m = [s EXCEPT ![n] = f]
  OBVIOUS
<1>m. m \in Seq(L)
  BY <1>e
<1>3. Len(m) = n /\ \A k \in 1 .. n : m[k] = IF k = n THEN f ELSE s[k]
  BY <1>e
<1>4. Inked(p, ch) = [lines |-> m, col |-> p.col]
  <2>1. Inked(p, ch) = [p EXCEPT !.lines = [s EXCEPT ![n] = [s[n] EXCEPT ![p.col] = ch]]]
    BY DEF Inked
  <2> QED
    BY <1>1, <2>1
<1>5. Inked(p, ch) \in Paper!Page
  BY <1>0, <1>1, <1>3, <1>4, <1>m DEF Paper!Page, L
<1>6. Paper!Row(p) = n - 1 /\ Paper!Row(Inked(p, ch)) = n - 1
  BY <1>3, <1>4 DEF Paper!Row
<1>7. ASSUME NEW y \in 0 .. LINES - 1, NEW x \in 0 .. COLUMNS - 1
      PROVE  Paper!At(Inked(p, ch), y, x) =
                IF y = Paper!Row(p) /\ x = p.col THEN ch ELSE Paper!At(p, y, x)
  <2>1. CASE y \in 0 .. n - 1
    <3>1. /\ Paper!At(Inked(p, ch), y, x) = m[y + 1][x]
          /\ Paper!At(p, y, x) = s[y + 1][x]
      BY <1>4, <1>6, <2>1 DEF Paper!At
    <3>2. m[y + 1] = IF y = n - 1 THEN f ELSE s[y + 1]
      BY <1>0, <1>3, <2>1
    <3>3. y = n - 1 => s[y + 1] = s[n]
      BY <1>0
    <3> QED
      BY <1>2, <1>6, <3>1, <3>2, <3>3
  <2>2. CASE y \notin 0 .. n - 1
    <3>1. y # n - 1
      BY <1>0, <2>2
    <3> QED
      BY <1>6, <2>2, <3>1 DEF Paper!At
  <2> QED
    BY <2>1, <2>2
<1>8. Inked(p, ch).col = p.col
  BY <1>4
<1> QED
  BY <1>5, <1>6, <1>7, <1>8

\* What monitor_put() has to do to the page, by kinds of character.
LEMMA TypedCases ==
  ASSUME NEW p \in Paper!Page, NEW ch \in Char
  PROVE  /\ ch = "nl" => Paper!Typed(p, ch) = Paper!NewLine(p) /\ Inked(p, ch) = p
         /\ ch = "other" \/ (ch = "bs" /\ p.col = 0) => Paper!Typed(p, ch) = p
         /\ ch \notin {"nl", "other"} /\ ~ (ch = "bs" /\ p.col = 0) =>
              Paper!Typed(p, ch) = Paper!MoveTo(Inked(p, ch), Column(ch, p.col))
         /\ ch \in {"nl", "cr"} => \A x : Column(ch, x) = 0
<1> PICK col \in 0 .. COLUMNS - 1 : col = p.col
  BY PageFields
<1>1. /\ Printable \cap {"bs", "tab", "cr", "nl", "other"} = {}
      /\ ch \in {"bs", "tab", "cr", "nl", "other"} \/ ch \in Printable
  BY ConsoleAssumption DEF Char, Control
<1>2. /\ COLUMNS \in Nat /\ COLUMNS > 0 /\ TAB \in Nat /\ TAB > 0
      /\ Byte \in Nat /\ Byte > 0 /\ COLUMNS + TAB <= Byte
  BY ConsoleAssumption
<1>3. ASSUME NEW n \in 0 .. Byte - 1 PROVE n % Byte = n
  BY <1>2, SMT
<1>4. p = [lines |-> p.lines, col |-> p.col]
  BY PageFields
<1>5. CASE ch = "nl"
  BY <1>1, <1>2, <1>3, <1>5 DEF Paper!Typed, Inked, Column
<1>6. CASE ch = "other"
  BY <1>1, <1>6 DEF Paper!Typed
<1>7. CASE ch = "cr"
  <2>1. Column(ch, col) = 0 /\ \A x : Column(ch, x) = 0
    BY <1>1, <1>2, <1>3, <1>7 DEF Column
  <2>2. Paper!Typed(p, ch) = [p EXCEPT !.col = 0] /\ Inked(p, ch) = p
    BY <1>1, <1>7 DEF Paper!Typed, Inked
  <2>3. Paper!MoveTo(p, 0) = [p EXCEPT !.col = 0]
    BY <1>2 DEF Paper!MoveTo
  <2> QED
    BY <1>7, <2>1, <2>2, <2>3
<1>8. CASE ch = "bs"
  <2>1. CASE col = 0
    <3>1. Paper!Typed(p, ch) = [p EXCEPT !.col = 0]
      BY <1>1, <1>8, <2>1 DEF Paper!Typed
    <3>2. [p EXCEPT !.col = 0] = p
      BY <1>4, <2>1
    <3> QED
      BY <1>8, <2>1, <3>1, <3>2
  <2>2. CASE col # 0
    <3>1. col - 1 \in 0 .. Byte - 1 /\ col - 1 < COLUMNS
      BY <1>2, <2>2
    <3>2. Column(ch, col) = col - 1
      BY <1>1, <1>3, <1>8, <3>1 DEF Column
    <3>3. Paper!Typed(p, ch) = [p EXCEPT !.col = col - 1] /\ Inked(p, ch) = p
      BY <1>1, <1>8, <2>2 DEF Paper!Typed, Inked
    <3>4. Paper!MoveTo(p, col - 1) = [p EXCEPT !.col = col - 1]
      BY <3>1 DEF Paper!MoveTo
    <3> QED
      BY <1>8, <2>2, <3>2, <3>3, <3>4
  <2> QED
    BY <2>1, <2>2
<1>9. CASE ch = "tab"
  <2>1. col \in Nat
    BY <1>2
  <2>2. /\ ((col + TAB) \div TAB) * TAB = Paper!NextTab(col)
        /\ Paper!NextTab(col) \in col + 1 .. col + TAB
    BY <2>1, TabStop
  <2>3. Paper!NextTab(col) \in 0 .. Byte - 1
    BY <1>2, <2>1, <2>2
  <2>4. Column(ch, col) = Paper!NextTab(col)
    BY <1>1, <1>3, <1>9, <2>2, <2>3 DEF Column
  <2>5. Paper!Typed(p, ch) = Paper!MoveTo(p, Paper!NextTab(col)) /\ Inked(p, ch) = p
    BY <1>1, <1>9 DEF Paper!Typed, Inked
  <2> QED
    BY <1>9, <2>4, <2>5
<1>10. CASE ch \in Printable
  <2>1. col + 1 \in 0 .. Byte - 1
    BY <1>2
  <2>2. ch \notin {"bs", "tab", "cr", "nl", "other"}
    BY <1>1, <1>10
  <2>3. Column(ch, col) = col + 1
    BY <1>3, <1>10, <2>1, <2>2 DEF Column
  <2>4. Paper!Typed(p, ch) = Paper!MoveTo(Inked(p, ch), p.col + 1)
    BY <1>10, <2>2 DEF Paper!Typed, Inked
  <2> QED
    BY <2>2, <2>3, <2>4
<1> QED
  BY <1>1, <1>5, <1>6, <1>7, <1>8, <1>9, <1>10

\* Where MoveTo leads.
LEMMA MoveFacts ==
  ASSUME NEW p \in Paper!Page, NEW x \in Nat
  PROVE  /\ x >= COLUMNS => Paper!MoveTo(p, x) = Paper!NewLine(p)
         /\ x < COLUMNS =>
              /\ Paper!MoveTo(p, x) \in Paper!Page
              /\ Paper!MoveTo(p, x).col = x
              /\ Paper!Row(Paper!MoveTo(p, x)) = Paper!Row(p)
              /\ Shows(p) => Shows(Paper!MoveTo(p, x))
         /\ x = p.col => Paper!MoveTo(p, x) = p
<1>1. COLUMNS \in Nat /\ p = [lines |-> p.lines, col |-> p.col] /\ p.col < COLUMNS
  BY ConsoleAssumption, PageFields
<1>2. CASE x >= COLUMNS
  BY <1>1, <1>2 DEF Paper!MoveTo
<1>3. CASE x < COLUMNS
  <2>1. x \in 0 .. COLUMNS - 1 /\ Paper!MoveTo(p, x) = [p EXCEPT !.col = x]
    BY <1>1, <1>3 DEF Paper!MoveTo
  <2>2. x = p.col => [p EXCEPT !.col = x] = p
    BY <1>1
  <2>3. Shows(p) => Shows([p EXCEPT !.col = x])
    BY <2>1, PageColumn DEF Shows
  <2>4. ~ (x >= COLUMNS)
    BY <1>1, <1>3
  <2> QED
    BY <2>1, <2>2, <2>3, <2>4, PageColumn
<1>4. x >= COLUMNS \/ x < COLUMNS
  BY <1>1
<1>5. x >= COLUMNS => ~ (x < COLUMNS) /\ x # p.col
  BY <1>1
<1> QED
  BY <1>2, <1>3, <1>4, <1>5

\* *location = c: the screen shows the character in its place.
LEMMA ShowsStored ==
  ASSUME NEW t \in Writer, NEW p \in Paper!Page, c[t] \in Printable, Shows(p),
         location[t] = Paper!Row(p) * COLUMNS + p.col, Store(t)
  PROVE  Shows(Inked(p, c[t]))'
<1> PICK ch \in Printable : ch = c[t]
  OBVIOUS
<1> PICK v \in 0 .. LINES - 1 : v = Paper!Row(p)
  BY PageFields
<1> PICK w \in 0 .. COLUMNS - 1 : w = p.col
  BY PageFields
<1>1. video_mem' = [k \in Cell |-> IF k = v * COLUMNS + w THEN ch ELSE video_mem[k]]
      /\ c'[t] = ch
  BY DEF Store, locals
<1>2. ASSUME NEW y \in 0 .. LINES - 1, NEW x \in 0 .. COLUMNS - 1
      PROVE  video_mem'[y * COLUMNS + x] = Paper!At(Inked(p, ch), y, x)
  <2>1. /\ y * COLUMNS + x \in Cell
        /\ y * COLUMNS + x = v * COLUMNS + w => y = v /\ x = w
    BY Places
  <2>2. Paper!At(Inked(p, ch), y, x) = IF y = v /\ x = w THEN ch ELSE Paper!At(p, y, x)
    BY PageInked
  <2>3. video_mem[y * COLUMNS + x] = Paper!At(p, y, x)
    BY DEF Shows
  <2>4. video_mem'[y * COLUMNS + x] =
          IF y * COLUMNS + x = v * COLUMNS + w THEN ch ELSE video_mem[y * COLUMNS + x]
    BY <1>1, <2>1
  <2>5. CASE y = v /\ x = w
    BY <2>2, <2>4, <2>5
  <2>6. CASE ~ (y = v /\ x = w)
    BY <2>1, <2>2, <2>3, <2>4, <2>6
  <2> QED
    BY <2>5, <2>6
<1> QED
  BY <1>1, <1>2 DEF Shows

\* scroll() copies every row over the one above and clears the last.
LEMMA ShowsShifted ==
  ASSUME NEW t \in Writer, NEW p \in Paper!Page, Shows(p), Paper!Row(p) + 1 = LINES, Shift(t)
  PROVE  Shows(Paper!NewLine(p))'
<1>1. video_mem' = [k \in Cell |-> IF k + COLUMNS \in Cell
                                   THEN video_mem[k + COLUMNS] ELSE Blank]
  BY DEF Shift
<1>2. ASSUME NEW y \in 0 .. LINES - 1, NEW x \in 0 .. COLUMNS - 1
      PROVE  video_mem'[y * COLUMNS + x] = Paper!At(Paper!NewLine(p), y, x)
  <2>1. /\ y * COLUMNS + x \in Cell
        /\ (y * COLUMNS + x) + COLUMNS = (y + 1) * COLUMNS + x
        /\ (y * COLUMNS + x) + COLUMNS \in Cell <=> y # LINES - 1
    BY Places
  <2>2. Paper!At(Paper!NewLine(p), y, x) =
          IF y = LINES - 1 THEN Blank ELSE Paper!At(p, y + 1, x)
    BY PageScrolls
  <2> PICK k \in Cell : k = y * COLUMNS + x
    BY <2>1
  <2>3. video_mem'[k] = IF k + COLUMNS \in Cell THEN video_mem[k + COLUMNS] ELSE Blank
    BY <1>1
  <2>4. CASE y = LINES - 1
    BY <2>1, <2>2, <2>3, <2>4
  <2>5. CASE y # LINES - 1
    <3>1. y + 1 \in 0 .. LINES - 1
      <4>1. LINES \in Nat
        BY ConsoleAssumption
      <4> QED
        BY <2>5, <4>1
    <3>2. video_mem[(y + 1) * COLUMNS + x] = Paper!At(p, y + 1, x)
      BY <3>1 DEF Shows
    <3> QED
      BY <2>1, <2>2, <2>3, <2>5, <3>2
  <2> QED
    BY <2>4, <2>5
<1> QED
  BY <1>2 DEF Shows

\* How far the call has come follows from where the thread is.
LEMMA DrawingAt ==
  ASSUME NEW t \in Writer, Drawing(t)
  PROVE  /\ pc[t] \in {"put", "row", "locate", "store"} => \E p \in Paper!Page : Typing(t, p)
         /\ pc[t] \in {"loadx", "setx"} => \E p \in Paper!Page : Moving(t, p)
         /\ pc[t] \in {"down", "below", "home", "loady", "sety"} =>
              \E p \in Paper!Page : Breaking(t, p)
         /\ pc[t] = "wrap" => \E p \in Paper!Page : Wrapping(t, p)
         /\ pc[t] \in {"scroll", "shift"} => \E p \in Paper!Page : Scrolling(t, p)
         /\ pc[t] \in {"last", "cursor"} => \E p \in Paper!Page : Finishing(t, p)
BY DEF Drawing, Typing, Moving, Breaking, Wrapping, Scrolling, Finishing

\* The variables a step of monitor_put() works on are typed.
PutTyped ==
  /\ pc \in [Writer -> Outside \cup Printing \cup Putting]
  /\ reg \in [Writer -> 0 .. Byte - 1]
  /\ c \in [Writer -> Char] /\ location \in [Writer -> Int]

\* The tests on the character.
LEMMA DrawBranch ==
  ASSUME PutTyped, NEW t \in Writer, Drawing(t), Branch(t)
  PROVE  Drawing(t)'
<1>0. PICK p \in Paper!Page : Typing(t, p)
  BY DrawingAt DEF Branch
<1> DEFINE l == CASE c[t] = "bs"        -> IF xpos # 0 THEN "loadx" ELSE "wrap"
                  [] c[t] = "tab"       -> "loadx"
                  [] c[t] = "other"     -> "wrap"
                  [] c[t] \in Printable -> "row"
                  [] OTHER              -> "setx"
<1>1. /\ pc'[t] = l
      /\ UNCHANGED <<video_mem, xpos, ypos, c, reg, location, page>>
  BY DEF Branch, Goto, PutTyped, screen, locals, ghosts
<1>2. page = Paper!Typed(p, c[t]) /\ Shows(p) /\ xpos = p.col /\ ypos = Paper!Row(p)
  BY <1>0 DEF Typing, Placed
<1>3. page' = Paper!Typed(p, c'[t]) /\ Shows(p)' /\ Placed(p)'
  BY <1>1, <1>2 DEF Shows, Placed
<1>4. /\ Printable \cap {"bs", "tab", "cr", "nl", "other"} = {}
      /\ c[t] \in {"bs", "tab", "cr", "nl", "other"} \/ c[t] \in Printable
  BY ConsoleAssumption DEF Char, Control, PutTyped
<1>5. CASE c[t] = "other" \/ (c[t] = "bs" /\ xpos = 0)
  <2>1. l = "wrap"
    BY <1>4, <1>5
  <2>2. page = p
    BY <1>2, <1>5, TypedCases DEF PutTyped
  <2>3. xpos \in Nat /\ Paper!MoveTo(p, xpos) = p
    <3>1. xpos \in Nat
      BY <1>2, PageFields
    <3> QED
      BY <1>2, <3>1, MoveFacts
  <2>4. Wrapping(t, p)'
    BY <1>1, <1>2, <1>3, <2>1, <2>2, <2>3 DEF Wrapping
  <2> QED
    BY <2>4 DEF Drawing
<1>6. CASE c[t] \in Printable
  <2>1. l = "row"
    BY <1>4, <1>6
  <2>2. Typing(t, p)'
    BY <1>1, <1>3, <1>6, <2>1 DEF Typing
  <2> QED
    BY <2>2 DEF Drawing
<1>7. CASE c[t] \in {"tab", "cr", "nl"} \/ (c[t] = "bs" /\ xpos # 0)
  <2>1. l = IF c[t] \in {"nl", "cr"} THEN "setx" ELSE "loadx"
    BY <1>4, <1>7
  <2>2. Shows(Inked(p, c[t]))'
    <3>1. Inked(p, c[t]) = p
      BY <1>4, <1>7 DEF Inked
    <3> QED
      BY <1>1, <1>3, <3>1
  <2> HIDE DEF l
  <2>3. Moving(t, p)'
    BY <1>1, <1>2, <1>3, <1>7, <2>1, <2>2 DEF Moving
  <2> QED
    BY <2>3 DEF Drawing
<1> QED
  BY <1>4, <1>5, <1>6, <1>7

\* The place of the character is computed from ypos and xpos, ...
LEMMA DrawLocate ==
  ASSUME PutTyped, NEW t \in Writer, Drawing(t), ReadRow(t) \/ Locate(t)
  PROVE  Drawing(t)'
<1>0. PICK p \in Paper!Page : Typing(t, p)
  BY DrawingAt DEF ReadRow, Locate
<1>2. UNCHANGED <<video_mem, xpos, ypos, c, page>>
  BY DEF ReadRow, Locate, screen, ghosts
<1>3. page' = Paper!Typed(p, c'[t]) /\ Shows(p)' /\ Placed(p)'
  BY <1>0, <1>2 DEF Typing, Shows, Placed
<1>4. Typing(t, p)'
  <2>1. CASE ReadRow(t)
    <3>1. pc'[t] = "locate" /\ reg'[t] = ypos /\ pc[t] = "row"
      BY <2>1 DEF ReadRow, Goto, PutTyped
    <3> QED
      BY <1>0, <1>2, <1>3, <3>1 DEF Typing, Placed
  <2>2. CASE Locate(t)
    <3>1. pc'[t] = "store" /\ location'[t] = reg[t] * COLUMNS + xpos /\ pc[t] = "locate"
      BY <2>2 DEF Locate, Goto, PutTyped
    <3>2. location'[t] = Paper!Row(p) * COLUMNS + p.col /\ c[t] \in Printable
      BY <1>0, <3>1 DEF Typing, Placed
    <3> QED
      BY <1>2, <1>3, <3>1, <3>2 DEF Typing
  <2> QED
    BY <2>1, <2>2
<1> QED
  BY <1>4 DEF Drawing

\* ... and the character is stored there.
LEMMA DrawStore ==
  ASSUME PutTyped, NEW t \in Writer, Drawing(t), Store(t)
  PROVE  Drawing(t)'
<1>0. PICK p \in Paper!Page : Typing(t, p)
  BY DrawingAt DEF Store
<1>1. pc'[t] = "loadx" /\ pc[t] = "store" /\ UNCHANGED <<xpos, ypos, c, reg, location, page>>
  BY DEF Store, Goto, PutTyped, locals, ghosts
<1>2. /\ c[t] \in Printable /\ Shows(p)
      /\ location[t] = Paper!Row(p) * COLUMNS + p.col
      /\ page = Paper!Typed(p, c[t]) /\ Placed(p)
  BY <1>0, <1>1 DEF Typing
<1>3. Shows(Inked(p, c[t]))'
  BY <1>2, ShowsStored
<1>4. c[t] \notin {"other", "bs"}
  BY <1>2, ConsoleAssumption DEF Control
<1>5. Moving(t, p)'
  BY <1>1, <1>2, <1>3, <1>4 DEF Moving, Placed
<1> QED
  BY <1>5 DEF Drawing

\* The column is loaded, ...
LEMMA DrawLoadX ==
  ASSUME PutTyped, NEW t \in Writer, Drawing(t), LoadX(t)
  PROVE  Drawing(t)'
<1>0. PICK p \in Paper!Page : Moving(t, p)
  BY DrawingAt DEF LoadX
<1>1. /\ pc'[t] = "setx" /\ reg'[t] = xpos
      /\ UNCHANGED <<video_mem, xpos, ypos, c, page>>
  BY DEF LoadX, Goto, PutTyped, screen, ghosts
<1>2. Shows(Inked(p, c[t])) => Shows(Inked(p, c[t]))'
  BY <1>1 DEF Shows
<1>3. Moving(t, p)'
  BY <1>0, <1>1, <1>2 DEF Moving, Placed
<1> QED
  BY <1>3 DEF Drawing

\* ... and set to the one the page has moved to, or will break at.
LEMMA DrawSetX ==
  ASSUME PutTyped, NEW t \in Writer, Drawing(t), SetX(t)
  PROVE  Drawing(t)'
<1>0. PICK p \in Paper!Page : Moving(t, p)
  BY DrawingAt DEF SetX
<1>1. /\ pc[t] = "setx" /\ xpos' = Column(c[t], reg[t])
      /\ pc'[t] = IF c[t] = "nl" THEN "down" ELSE "wrap"
      /\ UNCHANGED <<video_mem, ypos, c, reg, page>>
  BY DEF SetX, Goto, PutTyped, locals, ghosts
<1>2. /\ page = Paper!Typed(p, c[t]) /\ Shows(Inked(p, c[t])) /\ ypos = Paper!Row(p)
      /\ c[t] # "other" /\ ~ (c[t] = "bs" /\ p.col = 0)
      /\ c[t] \in {"nl", "cr"} \/ reg[t] = p.col
  BY <1>0, <1>1 DEF Moving, Placed
<1>3. c[t] \in Char
  BY DEF PutTyped
<1>4. xpos' = Column(c[t], p.col)
  BY <1>1, <1>2, <1>3, TypedCases
<1>5. Shows(Inked(p, c[t]))'
  BY <1>1, <1>2 DEF Shows
<1>6. CASE c[t] = "nl"
  <2>1. page = Paper!NewLine(p) /\ Inked(p, c[t]) = p /\ xpos' = 0
    BY <1>2, <1>3, <1>4, <1>6, TypedCases
  <2>2. Breaking(t, p)'
    BY <1>1, <1>2, <1>5, <1>6, <2>1 DEF Breaking
  <2> QED
    BY <2>2 DEF Drawing
<1>7. CASE c[t] # "nl"
  <2>1. page = Paper!MoveTo(Inked(p, c[t]), Column(c[t], p.col))
    BY <1>2, <1>3, <1>7, TypedCases
  <2>2. Inked(p, c[t]) \in Paper!Page /\ Paper!Row(Inked(p, c[t])) = Paper!Row(p)
    <3>1. CASE c[t] \in Printable
      BY <3>1, PageInked
    <3>2. CASE c[t] \notin Printable
      BY <3>2 DEF Inked
    <3> QED
      BY <3>1, <3>2
  <2>3. Column(c[t], p.col) \in Nat
    <3>1. p.col \in 0 .. COLUMNS - 1 /\ COLUMNS \in Nat /\ Byte \in Nat /\ COLUMNS <= Byte
      BY PageFields, ConsoleAssumption
    <3>2. p.col \in 0 .. Byte - 1
      BY <3>1
    <3> QED
      BY <3>1, <3>2, ColumnInByte
  <2> PICK q \in Paper!Page : q = Inked(p, c[t])
    BY <2>2
  <2>4. /\ pc'[t] = "wrap" /\ Shows(q)' /\ ypos' = Paper!Row(q)
        /\ xpos' \in Nat /\ page' = Paper!MoveTo(q, xpos')
    BY <1>1, <1>2, <1>4, <1>5, <1>7, <2>1, <2>2, <2>3
  <2>5. Wrapping(t, q)'
    BY <2>4 DEF Wrapping
  <2> QED
    BY <2>5 DEF Drawing
<1> QED
  BY <1>6, <1>7

\* A column behind the screen starts a new line, any other ends the call's line.
LEMMA DrawWrap ==
  ASSUME PutTyped, NEW t \in Writer, Drawing(t), WrapTest(t)
  PROVE  Drawing(t)'
<1>0. PICK p \in Paper!Page : Wrapping(t, p)
  BY DrawingAt DEF WrapTest
<1>1. /\ pc'[t] = IF xpos >= COLUMNS THEN "home" ELSE "scroll"
      /\ UNCHANGED <<video_mem, xpos, ypos, page>>
  BY DEF WrapTest, Goto, PutTyped, screen, ghosts
<1>2. COLUMNS \in Nat /\ COLUMNS > 0
  BY ConsoleAssumption
<1>3. Shows(p)'
  BY <1>0, <1>1 DEF Wrapping, Shows
<1>4. CASE Below(p)
  <2>1. pc'[t] = "scroll" /\ Below(p)'
    BY <1>1, <1>2, <1>4 DEF Below
  <2>2. Scrolling(t, p)'
    BY <1>3, <2>1 DEF Scrolling
  <2> QED
    BY <2>2 DEF Drawing
<1>5. CASE ypos = Paper!Row(p) /\ xpos \in Nat /\ page = Paper!MoveTo(p, xpos)
  <2>1. CASE xpos >= COLUMNS
    <3>1. page = Paper!NewLine(p)
      BY <1>5, <2>1, MoveFacts
    <3>2. Breaking(t, p)'
      BY <1>1, <1>3, <1>5, <2>1, <3>1 DEF Breaking
    <3> QED
      BY <3>2 DEF Drawing
  <2>2. CASE ~ (xpos >= COLUMNS)
    <3>1. xpos < COLUMNS
      BY <1>2, <1>5, <2>2
    <3> PICK q \in Paper!Page : q = page
      BY <1>5, <3>1, MoveFacts
    <3>2. q.col = xpos /\ Paper!Row(q) = ypos /\ Shows(q)
      BY <1>0, <1>5, <3>1, MoveFacts DEF Wrapping
    <3>3. Shows(q)' /\ Placed(q)' /\ q = page' /\ pc'[t] = "scroll"
      BY <1>1, <2>2, <3>2 DEF Shows, Placed
    <3>4. Scrolling(t, q)'
      BY <3>3 DEF Scrolling
    <3> QED
      BY <3>4 DEF Drawing
  <2> QED
    BY <2>1, <2>2
<1> QED
  BY <1>0, <1>4, <1>5 DEF Wrapping

\* The new line begins in column 0 ...
LEMMA DrawBreak ==
  ASSUME PutTyped, NEW t \in Writer, Drawing(t), WrapX(t) \/ LoadY(t)
  PROVE  Drawing(t)'
<1>0. PICK p \in Paper!Page : Breaking(t, p)
  BY DrawingAt DEF WrapX, LoadY
<1>1. UNCHANGED <<video_mem, ypos, page>>
  BY DEF WrapX, LoadY, screen, ghosts
<1>2. page' = Paper!NewLine(p) /\ Shows(p)' /\ ypos' = Paper!Row(p)
  BY <1>0, <1>1 DEF Breaking, Shows
<1>3. CASE WrapX(t)
  <2>1. pc'[t] = "loady" /\ xpos' = 0
    BY <1>3 DEF WrapX, Goto, PutTyped
  <2>2. Breaking(t, p)'
    BY <1>2, <2>1 DEF Breaking
  <2> QED
    BY <2>2 DEF Drawing
<1>4. CASE LoadY(t)
  <2>1. /\ pc'[t] \in {"sety", "below"} /\ reg'[t] = ypos /\ xpos' = xpos
        /\ pc[t] # "home"
    BY <1>4 DEF LoadY, Goto, PutTyped, screen
  <2>2. xpos = 0 /\ ypos = Paper!Row(p)
    BY <1>0, <2>1 DEF Breaking
  <2>3. Breaking(t, p)'
    BY <1>2, <2>1, <2>2 DEF Breaking
  <2> QED
    BY <2>3 DEF Drawing
<1> QED
  BY <1>3, <1>4

\* ... of the row below.
LEMMA DrawSetY ==
  ASSUME PutTyped, NEW t \in Writer, Drawing(t), SetY(t)
  PROVE  Drawing(t)'
<1>0. PICK p \in Paper!Page : Breaking(t, p)
  BY DrawingAt DEF SetY
<1>1. /\ pc[t] \in {"sety", "below"}
      /\ pc'[t] = IF pc[t] = "sety" THEN "scroll" ELSE "wrap"
      /\ ypos' = (reg[t] + 1) % Byte
      /\ UNCHANGED <<video_mem, xpos, page>>
  BY DEF SetY, Goto, PutTyped, ghosts
<1>2. page = Paper!NewLine(p) /\ Shows(p) /\ xpos = 0 /\ reg[t] = Paper!Row(p)
  BY <1>0, <1>1 DEF Breaking
<1>3. (Paper!Row(p) + 1) % Byte = Paper!Row(p) + 1
  <2> PICK r \in 0 .. LINES - 1 : r = Paper!Row(p)
    BY PageFields
  <2>1. LINES \in Nat /\ Byte \in Nat /\ LINES < Byte
    BY ConsoleAssumption
  <2>2. r + 1 \in 0 .. Byte - 1 /\ Byte \in Nat \ {0}
    BY <2>1
  <2>3. \A d \in Nat \ {0} : \A n \in 0 .. d - 1 : n % d = n
    BY SMT
  <2> QED
    BY <2>2, <2>3
<1>4. Below(p)' /\ Shows(p)'
  BY <1>1, <1>2, <1>3 DEF Below, Shows
<1>5. Scrolling(t, p)' \/ Wrapping(t, p)'
  BY <1>1, <1>4 DEF Scrolling, Wrapping
<1> QED
  BY <1>5 DEF Drawing

\* scroll() is needed when the page has lost its first line, and only then.
LEMMA DrawScroll ==
  ASSUME PutTyped, NEW t \in Writer, Drawing(t), ScrollTest(t) \/ Shift(t)
  PROVE  Drawing(t)'
<1>0. PICK p \in Paper!Page : Scrolling(t, p)
  BY DrawingAt DEF ScrollTest, Shift
<1> PICK r \in 0 .. LINES - 1 : r = Paper!Row(p)
  BY PageFields
<1>1. LINES \in Nat /\ LINES > 0
  BY ConsoleAssumption
<1>2. CASE ScrollTest(t)
  <2>1. /\ pc'[t] = IF ypos >= LINES THEN "shift" ELSE "cursor"
        /\ pc[t] = "scroll"
        /\ UNCHANGED <<video_mem, xpos, ypos, page>>
    BY <1>2 DEF ScrollTest, Goto, PutTyped, screen, ghosts
  <2>2. Shows(p) /\ Shows(p)'
    BY <1>0, <2>1 DEF Scrolling, Shows
  <2>3. CASE p = page /\ Placed(p)
    <3>1. pc'[t] = "cursor"
      BY <1>1, <2>1, <2>3 DEF Placed
    <3>2. Finishing(t, p)'
      BY <2>1, <2>2, <2>3, <3>1 DEF Finishing, Placed
    <3> QED
      BY <3>2 DEF Drawing
  <2>4. CASE Below(p) /\ r + 1 = LINES
    <3>1. pc'[t] = "shift" /\ Below(p)'
      BY <1>1, <2>1, <2>4 DEF Below
    <3>2. Scrolling(t, p)'
      BY <2>2, <2>4, <3>1 DEF Scrolling
    <3> QED
      BY <3>2 DEF Drawing
  <2>5. CASE Below(p) /\ r + 1 # LINES
    <3>1. r + 1 < LINES /\ ~ (r + 1 >= LINES)
      BY <1>1, <2>5
    <3>2. pc'[t] = "cursor"
      BY <2>1, <2>5, <3>1 DEF Below
    <3> PICK q \in Paper!Page : q = Paper!NewLine(p)
      BY <3>1, PageGrows
    <3>3. /\ q.col = 0 /\ Paper!Row(q) = r + 1
          /\ \A y \in 0 .. LINES - 1, x \in 0 .. COLUMNS - 1 :
                Paper!At(q, y, x) = Paper!At(p, y, x)
      BY <3>1, PageGrows
    <3>4. Shows(q)'
      BY <2>2, <3>3 DEF Shows
    <3>5. Finishing(t, q)'
      BY <2>1, <2>5, <3>2, <3>3, <3>4 DEF Finishing, Below
    <3> QED
      BY <3>5 DEF Drawing
  <2> QED
    BY <1>0, <2>1, <2>3, <2>4, <2>5 DEF Scrolling
<1>3. CASE Shift(t)
  <2>1. /\ pc'[t] = "last" /\ pc[t] = "shift" /\ UNCHANGED <<xpos, page>>
    BY <1>3 DEF Shift, Goto, PutTyped, ghosts
  <2>2. Shows(p) /\ Below(p) /\ Paper!Row(p) + 1 = LINES
    BY <1>0, <2>1 DEF Scrolling
  <2> PICK q \in Paper!Page : q = Paper!NewLine(p)
    BY <2>2, PageScrolls
  <2>3. q.col = 0 /\ Paper!Row(q) = LINES - 1
    BY <2>2, PageScrolls
  <2>4. Shows(q)'
    BY <1>3, <2>2, ShowsShifted
  <2>5. Finishing(t, q)'
    BY <2>1, <2>2, <2>3, <2>4 DEF Finishing, Below
  <2> QED
    BY <2>5 DEF Drawing
<1> QED
  BY <1>2, <1>3

\* ypos follows the row that has moved up.
LEMMA DrawLast ==
  ASSUME PutTyped, NEW t \in Writer, Drawing(t), LastRow(t)
  PROVE  Drawing(t)'
<1>0. PICK p \in Paper!Page : Finishing(t, p)
  BY DrawingAt DEF LastRow
<1>1. /\ pc'[t] = "cursor" /\ pc[t] = "last" /\ ypos' = LINES - 1
      /\ UNCHANGED <<video_mem, xpos, page>>
  BY DEF LastRow, Goto, PutTyped, ghosts
<1>2. Finishing(t, p)'
  BY <1>0, <1>1 DEF Finishing, Shows
<1> QED
  BY <1>2 DEF Drawing

\* The cursor is shown where the page ends.
LEMMA DrawCursor ==
  ASSUME PutTyped, NEW t \in Writer, Drawing(t), update_cursor(t)
  PROVE  Settled'
<1>0. PICK p \in Paper!Page : Finishing(t, p)
  BY DrawingAt DEF update_cursor
<1>1. /\ pc[t] = "cursor" /\ cursor' = ypos * COLUMNS + xpos
      /\ UNCHANGED <<video_mem, xpos, ypos, page>>
  BY DEF update_cursor, ghosts
<1>2. page = p /\ Shows(p) /\ xpos = p.col /\ ypos = Paper!Row(p)
  BY <1>0, <1>1 DEF Finishing
<1>3. Shows(page)' /\ Placed(page)'
  BY <1>1, <1>2 DEF Shows, Placed
<1> QED
  BY <1>1, <1>2, <1>3 DEF Settled

\* A page of one blank line is what init_monitor() leaves.
LEMMA PageInit == Init => PageInv
<1> SUFFICES ASSUME Init PROVE PageInv
  OBVIOUS
<1> DEFINE L == [0 .. COLUMNS - 1 -> Printable \cup {Blank}]
<1>1. COLUMNS \in Nat /\ COLUMNS > 0 /\ LINES \in Nat /\ LINES > 0
  BY ConsoleAssumption
<1>2. Paper!BlankLine \in L /\ \A x \in 0 .. COLUMNS - 1 : Paper!BlankLine[x] = Blank
  BY DEF Paper!BlankLine
<1>3. /\ page.lines = <<Paper!BlankLine>> /\ page.col = 0
      /\ page = [lines |-> <<Paper!BlankLine>>, col |-> 0]
  BY DEF Init, Paper!EmptyPage
<1>4. page \in Paper!Page
  <2> HIDE DEF L
  <2>1. /\ <<Paper!BlankLine>> \in Seq(L) /\ Len(<<Paper!BlankLine>>) = 1
        /\ 1 \in 1 .. LINES /\ 0 \in 0 .. COLUMNS - 1
    BY <1>1, <1>2
  <2> QED
    BY <1>3, <2>1 DEF Paper!Page, L
<1>5. Paper!Row(page) = 0
  BY <1>3 DEF Paper!Row
<1>6. Shows(page)
  <2> SUFFICES ASSUME NEW y \in 0 .. LINES - 1, NEW x \in 0 .. COLUMNS - 1
               PROVE  video_mem[y * COLUMNS + x] = Paper!At(page, y, x)
    BY DEF Shows
  <2>1. video_mem[y * COLUMNS + x] = Blank
    BY Places DEF Init
  <2>2. CASE y = 0
    BY <1>2, <1>3, <1>5, <2>1, <2>2 DEF Paper!At
  <2>3. CASE y # 0
    <3>1. y \notin 0 .. 0
      BY <1>1, <2>3
    <3> QED
      BY <1>5, <2>1, <3>1 DEF Paper!At
  <2> QED
    BY <2>2, <2>3
<1>7. Settled
  <2>1. 0 * COLUMNS + 0 = 0
    BY <1>1
  <2> QED
    BY <1>3, <1>4, <1>5, <1>6, <2>1 DEF Init, Settled, Placed
<1>8. \A t \in Writer : pc[t] \notin Putting
  BY DEF Init, Putting
<1>9. c \in [Writer -> Char] /\ location \in [Writer -> Int]
  BY DEF Init, Char
<1> QED
  BY <1>7, <1>8, <1>9 DEF PageInv

\* Steps of threads that are not in monitor_put().
LEMMA PageKept ==
  ASSUME PageInv, UNCHANGED <<screen, c, reg, location, page, torn>>,
         \A t \in Writer : pc'[t] = pc[t] \/ (pc[t] \notin Putting /\ pc'[t] \notin Putting)
  PROVE  PageInv'
<1>1. UNCHANGED <<video_mem, xpos, ypos, cursor>>
  BY DEF screen
<1>2. ASSUME NEW t \in Writer, pc[t] \in Putting, Drawing(t) PROVE Drawing(t)'
  <2>1. pc'[t] = pc[t]
    BY <1>2
  <2>2. PICK p \in Paper!Page : \/ Typing(t, p) \/ Moving(t, p) \/ Breaking(t, p)
                                \/ Wrapping(t, p) \/ Scrolling(t, p) \/ Finishing(t, p)
    BY <1>2 DEF Drawing
  <2>3. \A q : Shows(q)' = Shows(q) /\ Placed(q)' = Placed(q) /\ Below(q)' = Below(q)
    BY <1>1 DEF Shows, Placed, Below
  <2>4. \/ Typing(t, p)' \/ Moving(t, p)' \/ Breaking(t, p)'
        \/ Wrapping(t, p)' \/ Scrolling(t, p)' \/ Finishing(t, p)'
    <3>1. Typing(t, p) => Typing(t, p)'
      BY <1>1, <2>1, <2>3 DEF Typing
    <3>2. Moving(t, p) => Moving(t, p)'
      BY <1>1, <2>1, <2>3 DEF Moving
    <3>3. Breaking(t, p) => Breaking(t, p)'
      BY <1>1, <2>1, <2>3 DEF Breaking
    <3>4. Wrapping(t, p) => Wrapping(t, p)'
      BY <1>1, <2>1, <2>3 DEF Wrapping
    <3>5. Scrolling(t, p) => Scrolling(t, p)'
      BY <1>1, <2>1, <2>3 DEF Scrolling
    <3>6. Finishing(t, p) => Finishing(t, p)'
      BY <1>1, <2>1, <2>3 DEF Finishing
    <3> QED
      BY <2>2, <3>1, <3>2, <3>3, <3>4, <3>5, <3>6
  <2> QED
    BY <2>4 DEF Drawing
<1>3. Settled => Settled'
  BY <1>1 DEF Settled, Shows, Placed
<1>4. \A t \in Writer : pc'[t] \in Putting <=> pc[t] \in Putting
  OBVIOUS
<1> QED
  BY <1>2, <1>3, <1>4 DEF PageInv

\* A call begins: the page has the character, the screen has not.
LEMMA PageCall ==
  ASSUME LockInv, PageInv, NEW t \in Writer, pc[t] \notin Putting, NEW ch \in Char,
         Call(t, ch), UNCHANGED <<screen, reg, location>>
  PROVE  PageInv'
<1>1. /\ c' = [c EXCEPT ![t] = ch] /\ pc' = [pc EXCEPT ![t] = "put"]
      /\ torn' = (torn \/ \E u \in Writer \ {t} : pc[u] \in Putting)
      /\ page' = IF torn' THEN Paper!EmptyPage ELSE Paper!Typed(page, ch)
      /\ UNCHANGED <<video_mem, xpos, ypos>>
  BY DEF Call, Goto, screen
<1>2. /\ c \in [Writer -> Char] /\ location \in [Writer -> Int]
      /\ pc \in [Writer -> Outside \cup Printing \cup Putting]
  BY DEF LockInv, PageInv
<1>3. c' \in [Writer -> Char] /\ location' \in [Writer -> Int] /\ c'[t] = ch
  BY <1>1, <1>2
<1>4. ASSUME ~ torn'
      PROVE  /\ \A u \in Writer : pc'[u] \in Putting => u = t
             /\ Drawing(t)'
             /\ pc'[t] \in Putting
  <2>1. ~ torn /\ \A u \in Writer : pc[u] \notin Putting
    BY <1>1, <1>4
  <2>2. Settled
    BY <2>1 DEF PageInv
  <2>3. pc'[t] = "put" /\ \A u \in Writer \ {t} : pc'[u] = pc[u]
    BY <1>1, <1>2
  <2> PICK p \in Paper!Page : p = page
    BY <2>2 DEF Settled
  <2>4. page' = Paper!Typed(p, c'[t]) /\ Shows(p)' /\ Placed(p)'
    BY <1>1, <1>3, <1>4, <2>2 DEF Settled, Shows, Placed
  <2>5. Typing(t, p)'
    BY <2>3, <2>4 DEF Typing
  <2>6. Drawing(t)'
    BY <2>5 DEF Drawing
  <2> QED
    BY <2>1, <2>3, <2>6 DEF Putting
<1> QED
  BY <1>3, <1>4 DEF PageInv

\* A step of monitor_put() that nobody disturbs brings the screen closer to the
\* page; when others have disturbed it there is nothing to show.
LEMMA PagePut ==
  ASSUME LockInv, PositionInv, PageInv, NEW t \in Writer, monitor_put(t)
  PROVE  PageInv'
<1>1. PutTyped
  BY DEF PutTyped, LockInv, PositionInv, PageInv
<1>2. /\ pc[t] \in Putting
      /\ \A u \in Writer \ {t} : pc'[u] = pc[u]
  BY PutStays
<1>3. torn' = torn /\ c' \in [Writer -> Char] /\ location' \in [Writer -> Int]
  <2>1. torn' = torn
    BY DEF monitor_put, scroll, Branch, ReadRow, Locate, Store, LoadX, SetX, WrapTest, WrapX,
           LoadY, SetY, ScrollTest, Shift, LastRow, update_cursor, ghosts
  <2>2. c' = c \/ c' = [c EXCEPT ![t] = "other"]
    BY DEF monitor_put, scroll, Branch, ReadRow, Locate, Store, LoadX, SetX, WrapTest, WrapX,
           LoadY, SetY, ScrollTest, Shift, LastRow, update_cursor, locals
  <2>3. \/ location' = location \/ location' = [location EXCEPT ![t] = 0]
        \/ location' = [location EXCEPT ![t] = reg[t] * COLUMNS + xpos]
    BY DEF monitor_put, scroll, Branch, ReadRow, Locate, Store, LoadX, SetX, WrapTest, WrapX,
           LoadY, SetY, ScrollTest, Shift, LastRow, update_cursor, locals
  <2>4. "other" \in Char /\ reg[t] * COLUMNS + xpos \in Int
    <3>1. reg[t] \in Int /\ COLUMNS \in Int /\ xpos \in Int
      BY ConsoleAssumption DEF PositionInv
    <3> QED
      BY <3>1 DEF Char
  <2> QED
    BY <2>1, <2>2, <2>3, <2>4 DEF PageInv
<1>4. ASSUME ~ torn
      PROVE  /\ \A u \in Writer : pc'[u] \in Putting => u = t
             /\ pc'[t] \in Putting => Drawing(t)'
             /\ pc'[t] \notin Putting => Settled'
  <2>1. Drawing(t) /\ \A u \in Writer : pc[u] \in Putting => u = t
    BY <1>2, <1>4 DEF PageInv
  <2>2. \A u \in Writer : pc'[u] \in Putting => u = t
    BY <1>2, <2>1
  <2>3. CASE update_cursor(t)
    <3>1. pc'[t] \notin Putting
      BY <1>1, <2>3 DEF update_cursor, Goto, PutTyped, Putting
    <3> QED
      BY <1>1, <2>1, <2>2, <2>3, <3>1, DrawCursor
  <2>4. CASE ~ update_cursor(t)
    <3>1. Drawing(t)'
      BY <1>1, <2>1, <2>4, DrawBranch, DrawLocate, DrawStore, DrawLoadX, DrawSetX, DrawWrap,
         DrawBreak, DrawSetY, DrawScroll, DrawLast DEF monitor_put, scroll
    <3>2. pc'[t] \in Putting
      BY <3>1 DEF Drawing, Typing, Moving, Breaking, Wrapping, Scrolling, Finishing, Putting
    <3> QED
      BY <2>2, <3>1, <3>2
  <2> QED
    BY <2>3, <2>4
<1> QED
  BY <1>3, <1>4 DEF PageInv

\* Every step keeps the screen on the way to the page.
LEMMA PageStep ==
  ASSUME LockInv, MessageInv, PositionInv, PageInv, [Next]_vars
  PROVE  PageInv'
<1>1. kmain \in Writer /\ Locker \subseteq Writer
  BY DEF Writer
<1>2. pc \in [Writer -> Outside \cup Printing \cup Putting]
  BY DEF LockInv
<1>3. ASSUME NEW t \in Writer, NEW l, l \notin Putting, pc[t] \notin Putting,
             pc' = [pc EXCEPT ![t] = l], UNCHANGED <<screen, c, reg, location, page, torn>>
      PROVE  PageInv'
  BY <1>2, <1>3, PageKept
<1>4. ASSUME NEW t \in Locker, spinlock_lock(t) PROVE PageInv'
  <2>1. CASE lock = LOCKED
    BY <1>4, <2>1, PageKept DEF spinlock_lock, Contended
  <2>2. CASE lock # LOCKED
    BY <1>1, <1>3, <1>4, <2>2 DEF spinlock_lock, Contended, Goto, Putting
  <2> QED
    BY <2>1, <2>2
<1>5. ASSUME NEW t \in Locker, spinlock_unlock(t) PROVE PageInv'
  BY <1>1, <1>3, <1>5 DEF spinlock_unlock, Goto, Putting, locals, ghosts
<1>6. ASSUME NEW t \in Locker, Fill(t) PROVE PageInv'
  <2>1. PICK l \in {"end", "fill"} : pc' = [pc EXCEPT ![t] = l]
    BY <1>6 DEF Fill, Goto
  <2> QED
    BY <1>1, <1>3, <1>6, <2>1 DEF Fill, Putting, ghosts
<1>7. ASSUME NEW t \in Locker, Terminate(t) \/ Finish(t) PROVE PageInv'
  BY <1>1, <1>3, <1>7 DEF Terminate, Finish, Goto, Putting, locals, ghosts
<1>8. ASSUME NEW t \in Locker, monitor_write(t) PROVE PageInv'
  <2>1. pc[t] = "next" /\ UNCHANGED <<screen, reg, location>>
    BY <1>8 DEF monitor_write
  <2>2. CASE buf[i[t]] = "end"
    <3>1. PICK l \in {"fill", "unlock"} : pc' = [pc EXCEPT ![t] = l]
      BY <1>8, <2>2 DEF monitor_write, Goto
    <3> QED
      BY <1>1, <1>3, <1>8, <2>1, <2>2, <3>1 DEF monitor_write, Putting
  <2>3. CASE buf[i[t]] # "end"
    <3>1. i[t] \in 0 .. Len(Text(t)) /\ Len(Text(t)) \in 1 .. BufLen - 1
      BY <2>1, InsideFacts DEF SectionInv
    <3>2. i[t] \in 0 .. BufLen - 1
      BY <3>1, ConsoleAssumption
    <3>3. buf[i[t]] \in Char
      BY <2>3, <3>2 DEF MessageInv
    <3>4. Call(t, buf[i[t]]) /\ pc[t] \notin Putting
      BY <1>8, <2>1, <2>3 DEF monitor_write, Putting
    <3> QED
      BY <1>1, <2>1, <3>3, <3>4, PageCall
  <2> QED
    BY <2>2, <2>3
<1>9. ASSUME NEW ch \in Keys, Echo(ch) PROVE PageInv'
  <2>1. ch \in Char
    BY ConsoleAssumption
  <2>2. pc[kmain] \notin Putting /\ Call(kmain, ch) /\ UNCHANGED <<screen, reg, location>>
    BY <1>9 DEF Echo, Putting
  <2> QED
    BY <1>1, <2>1, <2>2, PageCall
<1>10. CASE UNCHANGED vars
  BY <1>10, PageKept DEF vars, locals, ghosts
<1> QED
  BY <1>1, <1>4, <1>5, <1>6, <1>7, <1>8, <1>9, <1>10, PagePut DEF Next, test_thread, kprintf

\* For any size of the screen, any number of writers and any text: as long as no
\* two calls of monitor_put() have overlapped, whenever none is in progress the
\* screen shows, character by character, the page that the text makes (line
\* breaks, tabulators, backspaces and scrolling included), and the cursor is
\* shown where the page ends.
THEOREM ScreenShowsPage == Spec => []ScreenIsPage
<1>1. Init => LockInv /\ MessageInv /\ PositionInv /\ PageInv
  <2>1. Init => PositionInv
    BY ConsoleAssumption DEF Init, PositionInv
  <2> QED
    BY <2>1, LockInit, MessageInit, PageInit
<1>2. LockInv /\ MessageInv /\ PositionInv /\ PageInv /\ [Next]_vars
        => LockInv' /\ MessageInv' /\ PositionInv' /\ PageInv'
  BY MutexStep, MessageStep, PositionNext, PageStep
<1>3. PageInv => ScreenIsPage
  BY DEF PageInv, ScreenIsPage, Settled, Shows
<1> QED
  BY <1>1, <1>2, <1>3, PTL DEF Spec

=============================================================================
