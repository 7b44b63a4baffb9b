-------------------------------- MODULE Irq --------------------------------
(***************************************************************************)
(* Interrupt dispatch: the stubs of kernel/asm/idt.s, irq_handler() and    *)
(* idt_handler() of kernel/kernel/idt.c, with the interrupt flag as        *)
(* cli, sti, iret and switch_context() (kernel/asm/task.s) leave it.       *)
(*                                                                         *)
(* The two interrupt controllers and the processor are not part of the     *)
(* repository; they are modelled as init_idt() programs them: fully nested *)
(* priorities, the second controller on line 2 of the first, no automatic  *)
(* end of interrupt, no line masked.  A line is in service from the moment *)
(* the processor takes its request until a nonspecific end of interrupt    *)
(* finds it to be the first in service.  A request that goes away too      *)
(* early is taken as line 7 of its controller, which is then not in        *)
(* service (a spurious interrupt).                                         *)
(*                                                                         *)
(* The handler of line 0 calls schedule(), which may switch to any thread; *)
(* the interrupted thread then stays inside the handler until it gets the  *)
(* processor again, and a new thread never was in one.                     *)
(***************************************************************************)
EXTENDS Integers, Sequences, FiniteSetsExt

CONSTANTS
  Thread,
  kmain,     \* the thread that boots
  Line       \* lines with a device, of 0 .. 15

ASSUME IrqAssumption ==
  /\ kmain \in Thread
  /\ Line \subseteq (0 .. 15) \ {2}

VARIABLES
  irr, isr,            \* lines requested; lines in service, 2 included
  interrupt_handlers,  \* lines that have a handler
  current_thread,
  iflag,               \* the interrupt flag of the processor
  frames,              \* per thread, the interrupts it is inside of
  saved,               \* per thread, the flag switch_context() has saved
  cli,                 \* per thread, whether it has asked for no interrupts
  panic

devices == <<irr, isr>>
vars == <<devices, interrupt_handlers, current_thread, iflag, frames, saved, cli, panic>>

Frame == [line : 0 .. 15, at : {"slave", "master", "handler", "iret"}, flag : BOOLEAN]

TypeOK ==
  /\ irr \in SUBSET Line /\ isr \in SUBSET (0 .. 15)
  /\ interrupt_handlers \in SUBSET (0 .. 15)
  /\ current_thread \in Thread
  /\ iflag \in BOOLEAN /\ panic \in BOOLEAN
  /\ frames \in [Thread -> Seq(Frame)]
  /\ saved \in [Thread -> BOOLEAN] /\ cli \in [Thread -> BOOLEAN]

\* kmain() after init_timer(), before its sti; a new thread starts with the
\* flags 0x200.
Init ==
  /\ irr = {} /\ isr = {}
  /\ interrupt_handlers = {0}
  /\ current_thread = kmain
  /\ iflag = FALSE
  /\ frames = [t \in Thread |-> << >>]
  /\ saved = [t \in Thread |-> TRUE]
  /\ cli = [t \in Thread |-> t = kmain]
  /\ panic = FALSE

-----------------------------------------------------------------------------
(* The controllers and the processor                                       *)

\* The line of the first controller that a request comes in on.
Master(l) == IF l < 8 THEN l ELSE 2

Before(k, l) == Master(k) < Master(l) \/ (Master(k) = Master(l) /\ k < l)

\* A request is passed on if no line of its controllers is in service that is
\* not behind it, and no other request is before it.
Passed(l) ==
  /\ \A m \in isr : m < 8 => m > Master(l)
  /\ \A s \in isr : s >= 8 /\ l >= 8 => s > l
  /\ \A k \in irr : ~ Before(k, l)

Raise(l) ==
  /\ irr' = irr \cup {l}
  /\ UNCHANGED <<isr, interrupt_handlers, current_thread, iflag, frames, saved, cli, panic>>

Top == frames[current_thread][1]

\* The stub of a line: its number, and the flag that the processor saved.
\* irq_handler() begins with a look at the number.
Stub(l) == [line |-> l, at |-> IF l >= 8 THEN "slave" ELSE "master", flag |-> iflag]

\* All gates of init_idt() are interrupt gates: the processor saves the flag,
\* clears it and runs the stub of the line.
Interrupt(l) ==
  /\ frames' = [frames EXCEPT ![current_thread] = <<Stub(l)>> \o @]
  /\ iflag' = FALSE
  /\ UNCHANGED <<interrupt_handlers, current_thread, saved, cli, panic>>

Deliver(l) ==
  /\ iflag /\ ~ panic /\ l \in irr /\ Passed(l)
  /\ irr' = irr \ {l}
  /\ isr' = isr \cup {l, Master(l)}
  /\ Interrupt(l)

\* Line 7 of the first controller, or of the second, which the first one does
\* not know to be spurious.
Spurious(l) ==
  /\ l \in {7, 15} /\ iflag /\ ~ panic /\ Passed(l) /\ irr = {}
  /\ isr' = IF l = 15 THEN isr \cup {2} ELSE isr
  /\ UNCHANGED irr
  /\ Interrupt(l)

FirstInService(lines) == IF lines \cap isr = {} THEN {} ELSE {Min(lines \cap isr)}

-----------------------------------------------------------------------------
(* irq_handler()                                                           *)

AtTop(t, l) == frames' = [frames EXCEPT ![t][1].at = l]

Inside(a) == ~ panic /\ frames[current_thread] # << >> /\ Top.at = a

\* Mutant: the test for the second controller is off by one.
EoiSlaveLate ==
  /\ Inside("slave") /\ AtTop(current_thread, "master")
  /\ isr' = IF Top.line > 8 THEN isr \ FirstInService(8 .. 15) ELSE isr
  /\ UNCHANGED <<irr, interrupt_handlers, current_thread, iflag, saved, cli, panic>>

\* int_no >= 40: outb(0xA0, 0x20), a nonspecific end of interrupt.
EoiSlave ==
  /\ Inside("slave") /\ AtTop(current_thread, "master")
  /\ isr' = isr \ FirstInService(8 .. 15)
  /\ UNCHANGED <<irr, interrupt_handlers, current_thread, iflag, saved, cli, panic>>

\* Mutant: the end of interrupt is not sent to the master.
EoiMasterNever ==
  /\ Inside("master") /\ AtTop(current_thread, "handler")
  /\ UNCHANGED <<devices, interrupt_handlers, current_thread, iflag, saved, cli, panic>>

\* outb(0x20, 0x20), before the handler is called.
EoiMaster ==
  /\ Inside("master") /\ AtTop(current_thread, "handler")
  /\ isr' = isr \ FirstInService(0 .. 7)
  /\ UNCHANGED <<irr, interrupt_handlers, current_thread, iflag, saved, cli, panic>>

\* A handler that returns, or none: the stub goes on to its iret.
CallHandler ==
  /\ Inside("handler") /\ AtTop(current_thread, "iret")
  /\ UNCHANGED <<devices, interrupt_handlers, current_thread, iflag, saved, cli, panic>>

\* Mutant: switch_context() ends without popf.
SwitchFlagLost(t) ==
  /\ current_thread' = t
  /\ saved' = [saved EXCEPT ![current_thread] = iflag]
  /\ UNCHANGED iflag

\* Mutant: switch_context() enables interrupts before it returns.
SwitchFlagOn(t) ==
  /\ current_thread' = t
  /\ saved' = [saved EXCEPT ![current_thread] = iflag]
  /\ iflag' = TRUE

\* switch_context(): pushf for the thread that stops, popf for the other.
SwitchFlag(t) ==
  /\ current_thread' = t
  /\ saved' = [saved EXCEPT ![current_thread] = iflag]
  /\ iflag' = saved[t]

\* timer_callback() switches to t: the handler of the current thread returns
\* when that thread is switched to.
TimerSwitch(t) ==
  /\ Inside("handler") /\ Top.line = 0 /\ 0 \in interrupt_handlers
  /\ t # current_thread
  /\ AtTop(current_thread, "iret")
  /\ SwitchFlag(t)
  /\ UNCHANGED <<devices, interrupt_handlers, cli, panic>>

\* popa and iret at the end of the stub.
Iret ==
  /\ Inside("iret")
  /\ iflag' = Top.flag
  /\ frames' = [frames EXCEPT ![current_thread] = Tail(@)]
  /\ UNCHANGED <<devices, interrupt_handlers, current_thread, saved, cli, panic>>

irq_handler == EoiSlave \/ EoiMaster \/ CallHandler \/ Iret

-----------------------------------------------------------------------------
(* Threads                                                                 *)

Running == ~ panic /\ frames[current_thread] = << >>

Cli ==
  /\ Running
  /\ iflag' = FALSE /\ cli' = [cli EXCEPT ![current_thread] = TRUE]
  /\ UNCHANGED <<devices, interrupt_handlers, current_thread, frames, saved, panic>>

Sti ==
  /\ Running
  /\ iflag' = TRUE /\ cli' = [cli EXCEPT ![current_thread] = FALSE]
  /\ UNCHANGED <<devices, interrupt_handlers, current_thread, frames, saved, panic>>

\* preempt(), with interrupts enabled or not.
Preempt(t) ==
  /\ Running /\ t # current_thread
  /\ SwitchFlag(t)
  /\ UNCHANGED <<devices, interrupt_handlers, frames, cli, panic>>

register_interrupt_handler(l) ==
  /\ Running /\ l \in Line
  /\ interrupt_handlers' = interrupt_handlers \cup {l}
  /\ UNCHANGED <<devices, current_thread, iflag, frames, saved, cli, panic>>

\* There is no handler, or it is that of the page fault, which panics as well.
idt_handler == panic' = TRUE

\* An exception, anywhere: its stub calls idt_handler().
Exception ==
  /\ ~ panic /\ idt_handler
  /\ UNCHANGED <<devices, interrupt_handlers, current_thread, iflag, frames, saved, cli>>

Hardware == \E l \in 0 .. 15 : (l \in Line /\ Raise(l)) \/ Deliver(l) \/ Spurious(l)

Next ==
  \/ Hardware
  \/ irq_handler
  \/ \E t \in Thread : TimerSwitch(t) \/ Preempt(t)
  \/ Cli \/ Sti
  \/ \E l \in Line : register_interrupt_handler(l)
  \/ Exception

\* The stub runs to its end when its thread has the processor; the scheduler
\* returns to every thread (SF, as threads take turns); a thread that has
\* disabled interrupts enables them again; and the processor takes a request
\* as soon as it may.  The child of fork(), which starts with interrupts
\* disabled (fork.c:49) and never enables them, is not modelled: nothing calls
\* fork().
Fairness ==
  /\ WF_vars(irq_handler)
  /\ \A t \in Thread : SF_vars(t = current_thread /\ cli[t] /\ Sti)
  /\ \A l \in Line : SF_vars(Deliver(l))

Spec == Init /\ [][Next]_vars /\ Fairness

-----------------------------------------------------------------------------
(* Properties                                                              *)

\* No interrupt is taken inside of another on the same stack, however threads
\* are switched inside the handler of the timer.
OneFrame == \A t \in Thread : Len(frames[t]) <= 1

\* A thread that is in no handler runs with interrupts disabled exactly if it
\* has disabled them itself, wherever it was switched away from.
OwnFlag == Running => (iflag <=> ~ cli[current_thread])

\* While interrupts are enabled no line is in service: the nonspecific ends of
\* interrupt have met the right lines, also after spurious interrupts and for
\* both controllers, and no line is blocked by one handled before.
NoneBlocked == iflag => isr = {}

\* A tick is taken, unless the kernel panics: also while the threads that took
\* earlier ticks are still inside the handler.
TickTaken == 0 \in irr ~> (0 \notin irr \/ panic)

=============================================================================
