----------------------------- MODULE IrqProofs -----------------------------
(***************************************************************************)
(* Proofs about Irq, for any number of threads and any set of lines.       *)
(*                                                                         *)
(* What makes it work: interrupts are disabled from the gate to the iret,  *)
(* also across switch_context(), which saves and restores the flag.  So a  *)
(* thread that has a frame either is the current one or was switched away  *)
(* from by the handler of the timer, after both ends of interrupt.         *)
(***************************************************************************)
EXTENDS Irq, SequenceTheorems, TLAPS

-----------------------------------------------------------------------------
(* The inductive invariant                                                 *)

\* The frame of an interrupt was made by a thread with interrupts enabled.
FramesOK ==
  \A t \in Thread : frames[t] # << >> => frames[t][1].flag /\ ~ cli[t]

\* A thread without the processor has left it in schedule(): in the handler of
\* the timer, or by preempt() with its own flag.
SavedOK ==
  \A t \in Thread \ {current_thread} :
    IF frames[t] = << >> THEN saved[t] <=> ~ cli[t]
    ELSE frames[t][1].at = "iret" /\ ~ saved[t]

\* The flag of the processor.
FlagOK == iflag <=> (frames[current_thread] = << >> /\ ~ cli[current_thread])

\* The lines in service are those of the interrupt being handled, up to the
\* ends of interrupt that irq_handler() has sent.
ServiceOK ==
  IF frames[current_thread] = << >> THEN isr = {}
  ELSE CASE Top.at = "slave"  -> Top.line >= 8 /\ isr \in {{2}, {2, Top.line}}
         [] Top.at = "master" -> isr \in (IF Top.line >= 8 THEN {{2}} ELSE {{}, {Top.line}})
         [] OTHER             -> isr = {}

IrqInv == TypeOK /\ OneFrame /\ FramesOK /\ SavedOK /\ FlagOK /\ ServiceOK

-----------------------------------------------------------------------------
(* Lemmas                                                                  *)

\* A stack of one frame, with the frame at another place, and without it.
LEMMA OneElement ==
  ASSUME NEW s \in Seq(Frame), Len(s) <= 1, s # << >>,
         NEW a \in {"slave", "master", "handler", "iret"}
  PROVE  /\ s[1] \in Frame
         /\ Tail(s) = << >>
         /\ [s EXCEPT ![1].at = a] \in Seq(Frame)
         /\ Len([s EXCEPT ![1].at = a]) = 1
         /\ [s EXCEPT ![1].at = a] # << >>
         /\ [s EXCEPT ![1].at = a][1] = [s[1] EXCEPT !.at = a]
<1>1. Len(s) = 1
  <2>1. Len(s) \in Nat \ {0}
    BY EmptySeq, Zenon
  <2> QED
    BY <2>1
<1>2. s[1] \in Frame
  BY <1>1, ElementOfSeq
<1>3. Tail(s) = << >>
  <2>1. Tail(s) \in Seq(Frame) /\ Len(Tail(s)) = 0
    BY <1>1, HeadTailProperties
  <2> QED
    BY <2>1, EmptySeq
<1>4. [s[1] EXCEPT !.at = a] \in Frame
  BY <1>2 DEF Frame
<1> DEFINE f == [s EXCEPT ![1] = [s[1] EXCEPT !.at = a]]
<1>5. f \in Seq(Frame) /\ Len(f) = 1 /\ f[1] = [s[1] EXCEPT !.at = a]
  BY <1>1, <1>4, ExceptSeq
<1>6. f = [s EXCEPT ![1].at = a]
  OBVIOUS
<1>7. f # << >>
  BY <1>5, EmptySeq
<1> HIDE DEF f
<1> QED
  BY <1>2, <1>3, <1>5, <1>6, <1>7

\* A frame on an empty stack.
LEMMA NewElement ==
  ASSUME NEW f \in Frame
  PROVE  /\ <<f>> \o << >> \in Seq(Frame)
         /\ Len(<<f>> \o << >>) = 1
         /\ <<f>> \o << >> # << >>
         /\ (<<f>> \o << >>)[1] = f
<1>1. <<f>> \in Seq(Frame) /\ Len(<<f>>) = 1 /\ <<f>>[1] = f
  OBVIOUS
<1> QED
  BY <1>1, ConcatEmptySeq, EmptySeq

\* The first of one line in service is that line.
LEMMA MinOfOne ==
  ASSUME NEW l \in Nat
  PROVE  Min({l}) = l
BY DEF Min

\* Line 2 is not one of the second controller.
LEMMA LineOfSlave ==
  ASSUME NEW l \in 8 .. 15
  PROVE  (8 .. 15) \cap {2, l} = {l}
<1>1. 2 \notin 8 .. 15
  OBVIOUS
<1> QED
  BY <1>1, Zenon

\* A step of irq_handler() that moves the frame of the current thread on and
\* keeps the thread: frames, flags and threads stay as the invariant has them.
LEMMA MoveOn ==
  ASSUME IrqInv, NEW b \in {"slave", "master", "handler", "iret"},
         frames[current_thread] # << >>, AtTop(current_thread, b),
         UNCHANGED <<irr, interrupt_handlers, cli, panic>>, isr' \in SUBSET (0 .. 15)
  PROVE  /\ frames' \in [Thread -> Seq(Frame)]
         /\ OneFrame'
         /\ FramesOK'
         /\ Top \in Frame
         /\ frames'[current_thread] # << >>
         /\ frames'[current_thread][1] = [Top EXCEPT !.at = b]
         /\ \A t \in Thread \ {current_thread} : frames'[t] = frames[t]
<1> DEFINE s == frames[current_thread]
           f == [s EXCEPT ![1].at = b]
<1>1. current_thread \in Thread /\ s \in Seq(Frame) /\ Len(s) <= 1 /\ s # << >>
  BY DEF IrqInv, TypeOK, OneFrame
<1>2. /\ Top \in Frame /\ f \in Seq(Frame) /\ Len(f) = 1 /\ f # << >>
      /\ f[1] = [Top EXCEPT !.at = b]
  BY <1>1, OneElement DEF Top
<1>3. frames' = [frames EXCEPT ![current_thread] = f]
  BY DEF AtTop
<1> HIDE DEF f
<1>4. frames \in [Thread -> Seq(Frame)]
  BY DEF IrqInv, TypeOK
<1>5. frames' \in [Thread -> Seq(Frame)] /\ frames'[current_thread] = f
      /\ \A t \in Thread \ {current_thread} : frames'[t] = frames[t]
  BY <1>1, <1>2, <1>3, <1>4
<1>6. OneFrame'
  <2>1. Len(frames'[current_thread]) <= 1
    <3>1. Len(frames'[current_thread]) = 1
      BY <1>2, <1>5, Zenon
    <3> QED
      BY <3>1
  <2>2. \A t \in Thread \ {current_thread} : Len(frames'[t]) <= 1
    BY <1>5 DEF IrqInv, OneFrame
  <2> QED
    BY <2>1, <2>2, Zenon DEF OneFrame
<1>7. f[1].flag = Top.flag
  BY <1>2 DEF Frame
<1>8. FramesOK'
  BY <1>1, <1>2, <1>5, <1>7 DEF IrqInv, FramesOK, Top
<1> QED
  BY <1>2, <1>5, <1>6, <1>8

LEMMA IrqInit == Init => IrqInv
<1> SUFFICES ASSUME Init PROVE IrqInv
  OBVIOUS
<1>1. \A t \in Thread : frames[t] = << >> /\ saved[t] /\ (cli[t] <=> t = kmain)
  BY DEF Init
<1>2. << >> \in Seq(Frame)
  BY EmptySeq
<1>3. TypeOK
  <2>1. frames \in [Thread -> Seq(Frame)]
    BY <1>2 DEF Init
  <2>2. saved \in [Thread -> BOOLEAN] /\ cli \in [Thread -> BOOLEAN]
    BY Zenon DEF Init
  <2>3. {0} \in SUBSET (0 .. 15)
    OBVIOUS
  <2>4. /\ irr \in SUBSET Line /\ isr \in SUBSET (0 .. 15)
        /\ interrupt_handlers \in SUBSET (0 .. 15) /\ current_thread \in Thread
        /\ iflag \in BOOLEAN /\ panic \in BOOLEAN
    BY <2>3, IrqAssumption, Zenon DEF Init
  <2> QED
    BY <2>1, <2>2, <2>4 DEF TypeOK
<1>4. OneFrame
  BY <1>1, EmptySeq DEF OneFrame
<1>5. FramesOK /\ SavedOK
  BY <1>1 DEF Init, FramesOK, SavedOK
<1>6. FlagOK /\ ServiceOK
  BY <1>1, IrqAssumption DEF Init, FlagOK, ServiceOK
<1> QED
  BY <1>3, <1>4, <1>5, <1>6 DEF IrqInv

\* The gate: interrupts are enabled, so the current thread has no frame and no
\* line is in service.
LEMMA GateStep ==
  ASSUME IrqInv, NEW l \in (0 .. 15) \ {2}, iflag, Interrupt(l),
         irr' \in SUBSET Line,
         isr' = {l, Master(l)} \/ (l = 7 /\ isr' = {}) \/ (l = 15 /\ isr' = {2})
  PROVE  IrqInv'
<1> DEFINE g == <<Stub(l)>> \o << >>
<1>1. frames[current_thread] = << >> /\ ~ cli[current_thread] /\ current_thread \in Thread
  BY DEF IrqInv, FlagOK, TypeOK
<1>2. Stub(l) \in Frame /\ Stub(l).flag
  BY DEF IrqInv, TypeOK, Stub, Frame
<1>3. g \in Seq(Frame) /\ Len(g) = 1 /\ g # << >> /\ g[1] = Stub(l)
  BY <1>2, NewElement
<1>4. frames' = [frames EXCEPT ![current_thread] = g]
  BY <1>1 DEF Interrupt
<1> HIDE DEF g
<1>5. /\ frames' \in [Thread -> Seq(Frame)] /\ frames'[current_thread] = g
      /\ \A t \in Thread \ {current_thread} : frames'[t] = frames[t]
  BY <1>1, <1>3, <1>4 DEF IrqInv, TypeOK
<1>6. UNCHANGED <<interrupt_handlers, current_thread, saved, cli, panic>> /\ iflag' = FALSE
  BY DEF Interrupt
<1>7. isr' \in SUBSET (0 .. 15)
  BY DEF Master
<1>8. TypeOK'
  BY <1>5, <1>6, <1>7 DEF IrqInv, TypeOK
<1>9. OneFrame'
  <2>1. Len(frames'[current_thread]) <= 1
    <3>1. Len(frames'[current_thread]) = 1
      BY <1>3, <1>5, Zenon
    <3> QED
      BY <3>1
  <2>2. \A t \in Thread \ {current_thread} : Len(frames'[t]) <= 1
    BY <1>5 DEF IrqInv, OneFrame
  <2> QED
    BY <2>1, <2>2, Zenon DEF OneFrame
<1>10. FramesOK'
  BY <1>1, <1>2, <1>3, <1>5, <1>6 DEF IrqInv, FramesOK
<1>11. SavedOK' /\ FlagOK'
  BY <1>1, <1>3, <1>5, <1>6 DEF IrqInv, SavedOK, FlagOK
<1>12. ServiceOK'
  <2>1. Top' = Stub(l)
    BY <1>3, <1>5, <1>6 DEF Top
  <2>2. /\ Stub(l).line = l
        /\ Stub(l).at = IF l >= 8 THEN "slave" ELSE "master"
    BY DEF Stub
  <2>3. CASE l >= 8
    BY <1>3, <1>5, <1>6, <2>1, <2>2, <2>3 DEF ServiceOK, Master
  <2>4. CASE l < 8
    BY <1>3, <1>5, <1>6, <2>1, <2>2, <2>4 DEF ServiceOK, Master
  <2> QED
    BY <2>3, <2>4
<1> QED
  BY <1>8, <1>9, <1>10, <1>11, <1>12 DEF IrqInv

LEMMA DeliverStep ==
  ASSUME IrqInv, NEW l \in 0 .. 15, Deliver(l)
  PROVE  IrqInv'
<1>1. isr = {}
  BY DEF IrqInv, ServiceOK, FlagOK, Deliver
<1>2. l \in (0 .. 15) \ {2} /\ irr' \in SUBSET Line
  BY IrqAssumption DEF IrqInv, TypeOK, Deliver
<1> QED
  BY <1>1, <1>2, GateStep DEF Deliver

LEMMA SpuriousStep ==
  ASSUME IrqInv, NEW l \in 0 .. 15, Spurious(l)
  PROVE  IrqInv'
<1>1. isr = {}
  BY DEF IrqInv, ServiceOK, FlagOK, Spurious
<1>2. l \in (0 .. 15) \ {2} /\ irr' \in SUBSET Line
  BY DEF IrqInv, TypeOK, Spurious
<1> QED
  BY <1>1, <1>2, GateStep DEF Spurious

\* The ends of interrupt find the lines of this interrupt.
LEMMA EoiSlaveStep ==
  ASSUME IrqInv, EoiSlave
  PROVE  IrqInv'
<1>1. /\ frames[current_thread] # << >> /\ Top.at = "slave"
      /\ UNCHANGED <<irr, interrupt_handlers, current_thread, iflag, saved, cli, panic>>
      /\ isr' = isr \ FirstInService(8 .. 15) /\ AtTop(current_thread, "master")
  BY DEF EoiSlave, Inside
<1>2. Top.line >= 8 /\ isr \in {{2}, {2, Top.line}}
  BY <1>1 DEF IrqInv, ServiceOK
<1>3. isr \subseteq 0 .. 15
  BY DEF IrqInv, TypeOK
<1>4. isr' = {2}
  <2>1. CASE isr = {2}
    BY <1>1, <2>1 DEF FirstInService
  <2>2. CASE isr = {2, Top.line}
    <3>1. Top.line \in 8 .. 15
      BY <1>2, <1>3, <2>2
    <3>2. (8 .. 15) \cap {2, Top.line} = {Top.line}
      BY <3>1, LineOfSlave
    <3>3. FirstInService(8 .. 15) = {Top.line}
      BY <2>2, <3>1, <3>2, MinOfOne DEF FirstInService
    <3> QED
      BY <1>1, <2>2, <3>1, <3>3
  <2> QED
    BY <1>2, <2>1, <2>2
<1>5. /\ frames' \in [Thread -> Seq(Frame)] /\ OneFrame' /\ FramesOK' /\ Top \in Frame
      /\ frames'[current_thread] # << >>
      /\ frames'[current_thread][1] = [Top EXCEPT !.at = "master"]
      /\ \A t \in Thread \ {current_thread} : frames'[t] = frames[t]
  BY <1>1, <1>4, MoveOn
<1>6. TypeOK' /\ SavedOK' /\ FlagOK'
  BY <1>1, <1>4, <1>5 DEF IrqInv, TypeOK, SavedOK, FlagOK
<1>7. Top'.at = "master" /\ Top'.line = Top.line
  BY <1>1, <1>5 DEF Top, Frame
<1>8. ServiceOK'
  BY <1>1, <1>2, <1>4, <1>5, <1>7 DEF ServiceOK
<1> QED
  BY <1>5, <1>6, <1>8 DEF IrqInv

LEMMA EoiMasterStep ==
  ASSUME IrqInv, EoiMaster
  PROVE  IrqInv'
<1>1. /\ frames[current_thread] # << >> /\ Top.at = "master"
      /\ UNCHANGED <<irr, interrupt_handlers, current_thread, iflag, saved, cli, panic>>
      /\ isr' = isr \ FirstInService(0 .. 7) /\ AtTop(current_thread, "handler")
  BY DEF EoiMaster, Inside
<1>2. isr \in (IF Top.line >= 8 THEN {{2}} ELSE {{}, {Top.line}})
  BY <1>1 DEF IrqInv, ServiceOK
<1>3. isr \subseteq 0 .. 15
  BY DEF IrqInv, TypeOK
<1>4. isr' = {}
  <2>1. CASE isr = {}
    BY <1>1, <2>1 DEF FirstInService
  <2>2. ASSUME NEW l \in 0 .. 7, isr = {l}
        PROVE  isr' = {}
    <3>1. (0 .. 7) \cap isr = {l}
      BY <2>2
    <3>2. FirstInService(0 .. 7) = {l}
      BY <3>1, MinOfOne DEF FirstInService
    <3> QED
      BY <1>1, <2>2, <3>2
  <2>3. CASE Top.line >= 8
    BY <1>2, <2>2, <2>3
  <2>4. CASE ~ (Top.line >= 8) /\ isr = {Top.line}
    <3>1. Top.line \in 0 .. 7
      BY <1>3, <2>4
    <3> QED
      BY <2>2, <2>4, <3>1
  <2> QED
    BY <1>2, <2>1, <2>3, <2>4
<1>5. /\ frames' \in [Thread -> Seq(Frame)] /\ OneFrame' /\ FramesOK' /\ Top \in Frame
      /\ frames'[current_thread] # << >>
      /\ frames'[current_thread][1] = [Top EXCEPT !.at = "handler"]
      /\ \A t \in Thread \ {current_thread} : frames'[t] = frames[t]
  BY <1>1, <1>4, MoveOn
<1>6. TypeOK' /\ SavedOK' /\ FlagOK'
  BY <1>1, <1>4, <1>5 DEF IrqInv, TypeOK, SavedOK, FlagOK
<1>7. Top'.at = "handler"
  BY <1>1, <1>5 DEF Top, Frame
<1>8. ServiceOK'
  BY <1>1, <1>4, <1>5, <1>7 DEF ServiceOK
<1> QED
  BY <1>5, <1>6, <1>8 DEF IrqInv

LEMMA CallHandlerStep ==
  ASSUME IrqInv, CallHandler
  PROVE  IrqInv'
<1>1. /\ frames[current_thread] # << >> /\ Top.at = "handler"
      /\ UNCHANGED <<irr, isr, interrupt_handlers, current_thread, iflag, saved, cli, panic>>
      /\ AtTop(current_thread, "iret")
  BY DEF CallHandler, Inside, devices
<1>2. isr = {}
  BY <1>1 DEF IrqInv, ServiceOK
<1>3. /\ frames' \in [Thread -> Seq(Frame)] /\ OneFrame' /\ FramesOK' /\ Top \in Frame
      /\ frames'[current_thread] # << >>
      /\ frames'[current_thread][1] = [Top EXCEPT !.at = "iret"]
      /\ \A t \in Thread \ {current_thread} : frames'[t] = frames[t]
  BY <1>1, <1>2, MoveOn
<1>4. TypeOK' /\ SavedOK' /\ FlagOK'
  BY <1>1, <1>3 DEF IrqInv, TypeOK, SavedOK, FlagOK
<1>5. Top'.at = "iret"
  BY <1>1, <1>3 DEF Top, Frame
<1>6. ServiceOK'
  BY <1>1, <1>2, <1>3, <1>5 DEF ServiceOK
<1> QED
  BY <1>3, <1>4, <1>6 DEF IrqInv

\* switch_context() in the handler of the timer, with interrupts disabled: the
\* thread that stops keeps a frame at its iret.
LEMMA TimerSwitchStep ==
  ASSUME IrqInv, NEW u \in Thread, TimerSwitch(u)
  PROVE  IrqInv'
<1>1. /\ frames[current_thread] # << >> /\ Top.at = "handler" /\ u # current_thread
      /\ UNCHANGED <<irr, isr, interrupt_handlers, cli, panic>>
      /\ current_thread' = u /\ iflag' = saved[u]
      /\ saved' = [saved EXCEPT ![current_thread] = iflag]
      /\ AtTop(current_thread, "iret")
  BY DEF TimerSwitch, Inside, SwitchFlag, devices
<1>2. isr = {} /\ ~ iflag
  BY <1>1 DEF IrqInv, ServiceOK, FlagOK
<1>3. /\ frames' \in [Thread -> Seq(Frame)] /\ OneFrame' /\ FramesOK' /\ Top \in Frame
      /\ frames'[current_thread] # << >>
      /\ frames'[current_thread][1] = [Top EXCEPT !.at = "iret"]
      /\ \A t \in Thread \ {current_thread} : frames'[t] = frames[t]
  BY <1>1, <1>2, MoveOn
<1>4. frames'[current_thread][1].at = "iret"
  BY <1>3 DEF Frame
<1>5. /\ ~ saved'[current_thread]
      /\ \A t \in Thread \ {current_thread} : saved'[t] = saved[t]
  BY <1>1, <1>2 DEF IrqInv, TypeOK
<1>6. TypeOK'
  BY <1>1, <1>3 DEF IrqInv, TypeOK
<1>7. SavedOK'
  <2> SUFFICES ASSUME NEW t \in Thread \ {u}
               PROVE  IF frames'[t] = << >> THEN saved'[t] <=> ~ cli[t]
                      ELSE frames'[t][1].at = "iret" /\ ~ saved'[t]
    BY <1>1 DEF SavedOK
  <2>1. CASE t = current_thread
    BY <1>3, <1>4, <1>5, <2>1
  <2>2. CASE t # current_thread
    <3>1. frames'[t] = frames[t] /\ saved'[t] = saved[t]
      BY <1>3, <1>5, <2>2
    <3> QED
      BY <2>2, <3>1 DEF IrqInv, SavedOK
  <2> QED
    BY <2>1, <2>2
<1>8. FlagOK'
  BY <1>1, <1>3, <1>5 DEF IrqInv, SavedOK, FramesOK, FlagOK
<1>9. ServiceOK'
  <2>1. frames'[u] # << >> => Top'.at = "iret"
    BY <1>1, <1>3 DEF IrqInv, SavedOK, Top
  <2> QED
    BY <1>1, <1>2, <2>1 DEF ServiceOK
<1> QED
  BY <1>3, <1>6, <1>7, <1>8, <1>9 DEF IrqInv

\* preempt() leaves a thread without a frame, with its own flag.
LEMMA PreemptStep ==
  ASSUME IrqInv, NEW u \in Thread, Preempt(u)
  PROVE  IrqInv'
<1>1. /\ frames[current_thread] = << >> /\ u # current_thread
      /\ UNCHANGED <<irr, isr, interrupt_handlers, frames, cli, panic>>
      /\ current_thread' = u /\ iflag' = saved[u]
      /\ saved' = [saved EXCEPT ![current_thread] = iflag]
  BY DEF Preempt, Running, SwitchFlag, devices
<1>2. isr = {} /\ (iflag <=> ~ cli[current_thread])
  BY <1>1 DEF IrqInv, ServiceOK, FlagOK
<1>3. /\ saved'[current_thread] = iflag
      /\ \A t \in Thread \ {current_thread} : saved'[t] = saved[t]
  BY <1>1 DEF IrqInv, TypeOK
<1>4. TypeOK' /\ OneFrame' /\ FramesOK'
  BY <1>1 DEF IrqInv, TypeOK, OneFrame, FramesOK
<1>5. SavedOK'
  BY <1>1, <1>2, <1>3 DEF IrqInv, SavedOK
<1>6. FlagOK'
  BY <1>1 DEF IrqInv, SavedOK, FramesOK, FlagOK
<1>7. ServiceOK'
  <2>1. frames'[u] # << >> => Top'.at = "iret"
    BY <1>1 DEF IrqInv, SavedOK, Top
  <2> QED
    BY <1>1, <1>2, <2>1 DEF ServiceOK
<1> QED
  BY <1>4, <1>5, <1>6, <1>7 DEF IrqInv

LEMMA IretStep ==
  ASSUME IrqInv, Iret
  PROVE  IrqInv'
<1>1. /\ frames[current_thread] # << >> /\ Top.at = "iret"
      /\ UNCHANGED <<irr, isr, interrupt_handlers, current_thread, saved, cli, panic>>
      /\ iflag' = Top.flag
      /\ frames' = [frames EXCEPT ![current_thread] = Tail(frames[current_thread])]
  BY DEF Iret, Inside, devices
<1>2. /\ current_thread \in Thread /\ frames \in [Thread -> Seq(Frame)]
      /\ Len(frames[current_thread]) <= 1
  BY DEF IrqInv, TypeOK, OneFrame
<1>3. Tail(frames[current_thread]) = << >> /\ Top \in Frame
  BY <1>1, <1>2, OneElement DEF Top
<1>4. /\ frames' \in [Thread -> Seq(Frame)] /\ frames'[current_thread] = << >>
      /\ \A t \in Thread \ {current_thread} : frames'[t] = frames[t]
  BY <1>1, <1>2, <1>3, EmptySeq
<1>5. isr = {} /\ Top.flag /\ ~ cli[current_thread]
  BY <1>1, <1>2 DEF IrqInv, ServiceOK, FramesOK, Top
<1>6. TypeOK'
  BY <1>1, <1>3, <1>4 DEF IrqInv, TypeOK, Frame
<1>7. OneFrame'
  <2>1. Len(frames'[current_thread]) <= 1
    BY <1>4, EmptySeq
  <2>2. \A t \in Thread \ {current_thread} : Len(frames'[t]) <= 1
    BY <1>4 DEF IrqInv, OneFrame
  <2> QED
    BY <2>1, <2>2, Zenon DEF OneFrame
<1>8. FramesOK' /\ SavedOK'
  BY <1>1, <1>4 DEF IrqInv, FramesOK, SavedOK
<1>9. FlagOK' /\ ServiceOK'
  BY <1>1, <1>4, <1>5 DEF FlagOK, ServiceOK
<1> QED
  BY <1>6, <1>7, <1>8, <1>9 DEF IrqInv

\* cli and sti of a thread that is in no handler.
LEMMA CliStiStep ==
  ASSUME IrqInv, Cli \/ Sti
  PROVE  IrqInv'
<1>1. /\ frames[current_thread] = << >>
      /\ UNCHANGED <<irr, isr, interrupt_handlers, current_thread, frames, saved, panic>>
  BY DEF Cli, Sti, Running, devices
<1>2. PICK v \in BOOLEAN : iflag' = v /\ cli' = [cli EXCEPT ![current_thread] = ~ v]
  BY DEF Cli, Sti
<1>3. /\ current_thread \in Thread /\ cli'[current_thread] = ~ v
      /\ \A t \in Thread \ {current_thread} : cli'[t] = cli[t]
  BY <1>2 DEF IrqInv, TypeOK
<1>4. TypeOK' /\ OneFrame'
  BY <1>1, <1>2 DEF IrqInv, TypeOK, OneFrame
<1>5. FramesOK' /\ SavedOK'
  BY <1>1, <1>3 DEF IrqInv, FramesOK, SavedOK
<1>6. FlagOK' /\ ServiceOK'
  BY <1>1, <1>2, <1>3 DEF IrqInv, FlagOK, ServiceOK
<1> QED
  BY <1>4, <1>5, <1>6 DEF IrqInv

\* Steps that touch neither frames nor flags nor the lines in service.
LEMMA OtherStep ==
  ASSUME IrqInv,
         UNCHANGED <<isr, current_thread, iflag, frames, saved, cli>>,
         irr' \in SUBSET Line, interrupt_handlers' \in SUBSET (0 .. 15), panic' \in BOOLEAN
  PROVE  IrqInv'
<1>1. Top' = Top
  BY DEF Top
<1> QED
  BY <1>1 DEF IrqInv, TypeOK, OneFrame, FramesOK, SavedOK, FlagOK, ServiceOK

LEMMA IrqStep ==
  ASSUME IrqInv, [Next]_vars
  PROVE  IrqInv'
<1>1. ASSUME NEW l \in Line, Raise(l) PROVE IrqInv'
  BY <1>1, OtherStep DEF Raise, IrqInv, TypeOK
<1>2. CASE irq_handler
  BY <1>2, EoiSlaveStep, EoiMasterStep, CallHandlerStep, IretStep DEF irq_handler
<1>3. ASSUME NEW l \in Line, register_interrupt_handler(l) PROVE IrqInv'
  BY <1>3, OtherStep, IrqAssumption DEF register_interrupt_handler, devices, IrqInv, TypeOK
<1>4. CASE Exception
  BY <1>4, OtherStep DEF Exception, idt_handler, devices, IrqInv, TypeOK
<1>5. CASE UNCHANGED vars
  BY <1>5, OtherStep DEF vars, devices, IrqInv, TypeOK
<1>6. CASE Hardware
  BY <1>1, <1>6, DeliverStep, SpuriousStep DEF Hardware
<1> QED
  BY <1>2, <1>3, <1>4, <1>5, <1>6, TimerSwitchStep, PreemptStep, CliStiStep DEF Next

-----------------------------------------------------------------------------
(* Theorems                                                                *)

LEMMA IrqInvariant == Spec => []IrqInv
BY IrqInit, IrqStep, PTL DEF Spec

\* However many threads are inside the handler of the timer, none is interrupted
\* there: the stack of a thread holds one frame of an interrupt at most.
THEOREM NoNestedInterrupt == Spec => []OneFrame
<1>1. IrqInv => OneFrame
  BY DEF IrqInv
<1> QED
  BY <1>1, IrqInvariant, PTL

\* pushf and popf of switch_context(), the gates and the iret together give
\* every thread its own interrupt flag back.
THEOREM FlagIsOwn == Spec => []OwnFlag
<1>1. IrqInv => OwnFlag
  BY DEF IrqInv, FlagOK, OwnFlag, Running
<1> QED
  BY <1>1, IrqInvariant, PTL

\* The ends of interrupt that irq_handler() sends leave no line in service when
\* interrupts are enabled, for all lines of both controllers.
THEOREM NoLineBlocked == Spec => []NoneBlocked
<1>1. IrqInv => NoneBlocked
  BY DEF IrqInv, FlagOK, ServiceOK, NoneBlocked
<1> QED
  BY <1>1, IrqInvariant, PTL
=============================================================================
