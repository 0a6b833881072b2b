---------------------------- MODULE MCInterrupts ----------------------------
(* An instance of Interrupts for TLC.                                      *)
EXTENDS Interrupts

(* An order that the prerequisites allow.                                  *)
KernelOrder == <<"x86/sdc", "x86/idt", "x86/isr", "x86/irq", "x86/pit">>

(* A line that is broken at the edge of the screen, and its end scrolls.   *)
SmallTexts == {<<"a", "b", "c", "\n">>}

OK == <<"k">>

Unhandled == <<"u", "\n">>

SerialUp == <<"s">>

Oshi == <<"p">>

Fish == <<"q">>
=============================================================================
