----------------------------- MODULE Interrupts -----------------------------
(***************************************************************************)
(* Interrupts and what they print (arch/x86/idt.c, isrs.c, irqs.c, timer.c,*)
(* tick.c, panic of sys.c), under the kernel's own printing in kmain.c.    *)
(*                                                                         *)
(* One CPU executes kmain; an interrupt handler may come between any two   *)
(* steps once interrupts are enabled, and a CPU exception at any time.     *)
(* The gates are interrupt gates, so handlers run with interrupts off.     *)
(*                                                                         *)
(* The model stops at a store past the terminal's back buffer (wild).      *)
(***************************************************************************)
EXTENDS Console

CONSTANTS
    Lines,          \* the interrupt lines, out of 0 .. 15, that have a device
    Exceptions,     \* the exceptions that may come, out of 0 .. 31
    Texts,          \* what kmain and the features print
    Box,            \* "[OK]" of greybox
    UnhandledText,  \* "Unhandled IRQ ..."
    SerialText,     \* "Serial debugging console is up "
    PanicText,      \* panic's message and the stack trace
    FarewellText,   \* "So long, and thanks for all the fish."
    TickDot,        \* 100: the ticks for which a dot is printed
    FeatureOrder,   \* the order in which init_features starts the features
    MaxPrints,      \* bound: kernel prints
    MaxRaised       \* bound: interrupts

ASSUME InterruptAssumption ==
    /\ Contexts = {"kernel", "handler", "panic"}
    /\ Lines \subseteq 0 .. 15
    /\ Exceptions \subseteq 0 .. 31
    /\ TickDot \in Nat \ {0}
    /\ FeatureOrder \in Seq({"x86/idt", "x86/isr", "x86/irq", "x86/pit", "x86/sdc"})
    /\ MaxPrints \in Nat /\ MaxRaised \in Nat
    \* no string is longer than printk's buffer
    /\ \A t \in Texts \cup {Box, UnhandledText, PanicText, FarewellText, <<".">>} :
          /\ t \in Seq(Range(t)) /\ NUL \notin Range(t)
          /\ Len(t) < BufSize
    /\ Box # <<>>
    /\ SerialText \in Seq(Range(SerialText))

VARIABLES
    up,             \* the features that have been started, in order
    gates,          \* the vectors that have a gate in the IDT
    isr_routines,   \* the vectors for which a routine is installed
    base,           \* the first vectors of the two interrupt controllers
    flag,           \* the interrupt flag
    running,        \* the context that the CPU executes, and those it has left
    int_no,         \* r->int_no of the interrupt handler
    handled,        \* whether its routine has been called
    farewell,       \* whether panic has come to its last words
    request,        \* the controllers: lines waiting
    service,        \* the controllers: lines that have not been acknowledged
    jiffies,
    prints, raised, \* count towards the bounds
    raced,          \* ghost: a context printed while another one was printing
    text,           \* ghost: before that, all text in the order of the calls
    faulted         \* ghost: there was an exception, or start-up has given up

tables == <<up, gates, isr_routines, base>>
frame == <<int_no, handled, farewell>>
pic == <<request, service, raised>>
ghosts == <<text, raced, faulted>>

interruptVars == <<tables, flag, running, frame, pic, jiffies, prints, ghosts>>

vars == <<interruptVars, consoleVars, termVars>>

Init ==
    /\ ConsoleInit
    /\ up = <<>> /\ gates = {} /\ isr_routines = {}
    /\ base = <<8, 112>>
    /\ flag = FALSE
    /\ running = <<"kernel">>
    /\ int_no = 0 /\ handled = FALSE /\ farewell = FALSE
    /\ request = {} /\ service = {}
    /\ jiffies = 0
    /\ prints = 0 /\ raised = 0
    /\ text = <<>> /\ raced = FALSE /\ faulted = FALSE

Running == Head(running)

(* Context c calls printk.                                                 *)
CallPrintk(c, new) ==
    /\ printk(c, new)
    /\ raced' = (raced \/ \E d \in Contexts \ {c} : ~Silent(d))
    /\ text' = IF raced' THEN <<>> ELSE text \o new
    /\ UNCHANGED <<cons, buf, sent, termVars>>

-----------------------------------------------------------------------------
(* kmain                                                                   *)

InKernel == running = <<"kernel">> /\ Silent("kernel")

(* The next feature starts.                                                *)
Start(f) ==
    /\ InKernel /\ Len(up) < Len(FeatureOrder) /\ f = FeatureOrder[Len(up) + 1]
    /\ up' = Append(up, f)
    /\ UNCHANGED <<flag, running, frame, pic, jiffies, prints, ghosts, buf, call, termVars>>

idt_init ==
    /\ Start("x86/idt")
    /\ gates' = {}
    /\ UNCHANGED <<isr_routines, base, cons, sent>>

isrs_init ==
    /\ Start("x86/isr")
    /\ gates' = gates \cup 0 .. 31
    /\ UNCHANGED <<isr_routines, base, cons, sent>>

irqs_init ==
    /\ Start("x86/irq")
    /\ base' = <<32, 40>>                       \* irq_remap
    /\ gates' = gates \cup 32 .. 47
    /\ UNCHANGED <<isr_routines, cons, sent>>

IRQ_ISR(i) == i + 32

install_isr(intr) ==
    isr_routines' = IF intr > 0 /\ intr < 256 THEN isr_routines \cup {intr} ELSE isr_routines

timer_init ==
    /\ Start("x86/pit")
    /\ install_isr(IRQ_ISR(0))
    /\ UNCHANGED <<gates, base, cons, sent>>

init_serial ==
    /\ Start("x86/sdc")
    /\ console_register("serial")
    /\ sent' = SerialText
    /\ UNCHANGED <<gates, isr_routines, base>>

enable_interrupts ==
    /\ InKernel /\ Len(up) = Len(FeatureOrder) /\ ~flag
    /\ flag' = TRUE
    /\ UNCHANGED <<tables, running, frame, pic, jiffies, prints, ghosts, consoleVars, termVars>>

(* kmain and the features print, also after interrupts are enabled.        *)
KernelPrints(new) ==
    /\ InKernel /\ prints < MaxPrints
    /\ prints' = prints + 1
    /\ CallPrintk("kernel", new)
    /\ UNCHANGED <<tables, flag, running, frame, pic, jiffies, faulted>>

greybox ==
    /\ InKernel /\ prints < MaxPrints
    /\ prints' = prints + 1
    /\ console_writestring("kernel", Box)
    /\ text' = IF raced THEN <<>> ELSE text \o Box
    /\ UNCHANGED <<tables, flag, running, frame, pic, jiffies, raced, faulted,
                   cons, buf, sent, termVars>>

-----------------------------------------------------------------------------
(* The interrupt controllers                                               *)

Raise(i) ==
    /\ i \notin request /\ raised < MaxRaised
    /\ request' = request \cup {i}
    /\ raised' = raised + 1
    /\ UNCHANGED <<tables, flag, running, frame, service, jiffies, prints, ghosts,
                   consoleVars, termVars>>

(* The second controller is line 2 of the first.                           *)
Second == 8 .. 15

OnFirst(i) == IF i \in Second THEN 2 ELSE i

(* The controllers pass a line on if it has the highest priority of those  *)
(* that wait, and none of its or a higher priority is in service.          *)
Passes(i) ==
    /\ i \in request
    /\ \A j \in service \ Second : OnFirst(i) < j
    /\ i \in Second => \A j \in service \cap Second : i < j
    /\ \A j \in request : OnFirst(i) < OnFirst(j) \/ (OnFirst(i) = OnFirst(j) /\ i <= j)

(* The interrupt is accepted and its gate taken; without a gate the CPU    *)
(* resets.                                                                 *)
Interrupt(i) ==
    /\ flag /\ Passes(i)
    /\ int_no' = IF i \in Second THEN base[2] + i - 8 ELSE base[1] + i
    /\ handled' = FALSE
    /\ running' = IF int_no' \in gates THEN <<"handler">> \o running ELSE <<"reset">>
    /\ flag' = FALSE
    /\ request' = request \ {i}
    /\ service' = service \cup {i, OnFirst(i)}
    /\ UNCHANGED <<tables, farewell, raised, jiffies, prints, ghosts, consoleVars, termVars>>

(* A non-specific end of interrupt takes the highest of the controller's.  *)
EndOfInterrupt(lines) == IF lines = {} THEN {} ELSE lines \ {Min(lines)}

-----------------------------------------------------------------------------
(* Panic                                                                   *)

(* The message and the stack trace.  Each is a call of printk or more, but *)
(* nothing that panic has interrupted runs again, so that it is as if they *)
(* were one.  A panic in panic takes its place, to which it never returns. *)
panic ==
    /\ running' = IF Running = "panic" THEN running ELSE <<"panic">> \o running
    /\ farewell' = FALSE
    /\ CallPrintk("panic", PanicText)
    /\ UNCHANGED <<tables, int_no, handled, request, service, jiffies, prints>>

(* panic is in print_stack_trace, between two of its prints.               *)
Walking == Running = "panic" /\ Silent("panic") /\ ~farewell

(* After the trace.                                                        *)
SoLong ==
    /\ Walking
    /\ farewell' = TRUE
    /\ CallPrintk("panic", FarewellText)
    /\ UNCHANGED <<tables, flag, running, int_no, handled, pic, jiffies, prints, faulted>>

die ==
    /\ Running = "panic" /\ Silent("panic") /\ farewell
    /\ flag' = FALSE
    /\ UNCHANGED <<tables, running, frame, pic, jiffies, prints, ghosts, consoleVars, termVars>>

(* Start-up calls panic itself: a feature that is missing or has failed,   *)
(* no memory map, no page left.                                            *)
KernelPanics ==
    /\ InKernel /\ ~flag
    /\ faulted' = TRUE
    /\ panic
    /\ UNCHANGED <<flag, raised>>

-----------------------------------------------------------------------------
(* Handlers                                                                *)

(* An exception of the running code; in panic, of the walk through frames  *)
(* that may be damaged.  The gate turns interrupts off.  The only routine  *)
(* for an exception is page_fault, and it panics like the default of       *)
(* fault_handler.                                                          *)
fault_handler(v) ==
    /\ \/ Running \in {"kernel", "handler"} /\ UNCHANGED raised
       \/ Walking /\ raised < MaxRaised /\ raised' = raised + 1
    /\ faulted' = TRUE
    /\ flag' = FALSE
    /\ IF v \in gates THEN panic
       ELSE /\ running' = <<"reset">>
            /\ UNCHANGED <<tables, frame, request, service, jiffies, prints, text, raced,
                           consoleVars, termVars>>

kernel_tick ==
    /\ jiffies' = jiffies + 1
    /\ IF jiffies' % TickDot = 0 THEN CallPrintk("handler", <<".">>)
       ELSE UNCHANGED <<consoleVars, termVars, text, raced>>

(* irq_handler calls timer_handler, which is kernel_tick, or reports that  *)
(* nothing is installed.  A vector below 32 leads to fault_handler.        *)
irq_handler ==
    /\ Running = "handler" /\ ~handled
    /\ UNCHANGED faulted
    /\ IF int_no < 32 THEN panic /\ UNCHANGED <<flag, raised>>
       ELSE /\ handled' = TRUE
            /\ IF int_no \in isr_routines THEN kernel_tick
               ELSE CallPrintk("handler", UnhandledText) /\ UNCHANGED jiffies
            /\ UNCHANGED <<tables, flag, running, int_no, farewell, pic, prints>>

(* Mutant: the second controller is not told.                              *)
IrqDoneFirst ==
    /\ Running = "handler" /\ handled /\ Silent("handler")
    /\ service' = (service \cap Second) \cup EndOfInterrupt(service \ Second)
    /\ running' = Tail(running)
    /\ flag' = TRUE
    /\ UNCHANGED <<tables, frame, request, raised, jiffies, prints, ghosts,
                   consoleVars, termVars>>

(* The controllers are told, the second one if the interrupt is one of its,*)
(* and the stub returns with iret.                                         *)
IrqDone ==
    /\ Running = "handler" /\ handled /\ Silent("handler")
    /\ service' = (IF int_no >= 40 THEN EndOfInterrupt(service \cap Second)
                   ELSE service \cap Second)
                  \cup EndOfInterrupt(service \ Second)
    /\ running' = Tail(running)
    /\ flag' = TRUE
    /\ UNCHANGED <<tables, frame, request, raised, jiffies, prints, ghosts,
                   consoleVars, termVars>>

(* The running context goes on with its call of printk.                    *)
Printing ==
    /\ Running \in Contexts /\ PrintStep(Running)
    /\ UNCHANGED interruptVars

(* The CPU is halted in idle(), has reset, or nothing is known of it.      *)
Halted ==
    /\ (InKernel /\ flag) \/ Running = "reset" \/ wild
    /\ UNCHANGED vars

Execute ==
    /\ ~wild
    /\ \/ idt_init \/ isrs_init \/ irqs_init \/ timer_init \/ init_serial
       \/ enable_interrupts
       \/ (\E t \in Texts : KernelPrints(t)) \/ greybox
       \/ irq_handler \/ IrqDone
       \/ SoLong \/ die
       \/ Printing

Accept == ~wild /\ \E i \in Lines : Interrupt(i)

Next ==
    \/ Execute
    \/ Accept
    \/ ~wild /\ \E i \in Lines : Raise(i)
    \/ ~wild /\ \E v \in Exceptions : fault_handler(v)
    \/ ~wild /\ KernelPanics
    \/ Halted

Spec == Init /\ [][Next]_vars

(* The CPU executes, and accepts an interrupt that is passed on.           *)
FairSpec == Spec /\ WF_vars(Execute) /\ WF_vars(Accept)

-----------------------------------------------------------------------------
(* Properties                                                              *)

(* Unless a handler has printed in the middle of a print of the code it    *)
(* interrupted, both buffers show all that was printed, with the lines     *)
(* that have scrolled off gone and nothing else, the cursor follows the    *)
(* text, and so does the hardware cursor after the first character.        *)
ScreenShowsText ==
    ~raced /\ (\A c \in Contexts : Silent(c)) =>
        /\ term_frontbuff = Shown(text)
        /\ term_backbuff = Shown(text)
        /\ [x |-> term_cursor_x, y |-> term_cursor_y] = CursorAfter(text)
        /\ text # <<>> => crtc = term_cursor_y * VGA_WIDTH + term_cursor_x

(* Prints that race do no lasting harm to the cursor, as long as none of   *)
(* them stores past the back buffer, where the cursor itself and the       *)
(* pointer to the front buffer may lie: between characters it is on the    *)
(* screen.  Only prints that race can store there.                         *)
RacesHeal ==
    /\ ~wild /\ (\A c \in Contexts : Outside(c)) =>
          term_cursor_x < VGA_WIDTH /\ term_cursor_y < VGA_HEIGHT
    /\ wild => raced

(* What panic has printed, when it comes to its walk and at the end.       *)
PanicSaid == IF farewell THEN FarewellText ELSE PanicText

(* Whatever panic interrupts, each of its texts, once printed, is the last *)
(* that the serial console has got, and is complete.                       *)
PanicSent ==
    Running = "panic" /\ Silent("panic") /\ cons[Len(cons)] = "serial" =>
        /\ Len(sent) >= Len(PanicSaid)
        /\ SubSeq(sent, Len(sent) - Len(PanicSaid) + 1, Len(sent)) = PanicSaid

(* "If we don't send an EOI, we won't get any more IRQs" (irqs.c): every   *)
(* interrupt that a device raises is handled and acknowledged at both      *)
(* controllers, unless there is an exception or a store past the back      *)
(* buffer; no interrupt leads to an exception.                             *)
Acknowledged ==
    \A i \in Lines :
        i \in request ~> i \notin request \cup service \/ faulted \/ wild
=============================================================================
