------------------------------ MODULE Vgaterm ------------------------------
(***************************************************************************)
(* The text terminal (arch/x86/vgaterm.c): vgaterm_putchar over the static *)
(* cursor and the two screen buffers, for several contexts of one CPU that *)
(* interrupt one another.  Nothing in the code locks the terminal.         *)
(*                                                                         *)
(* Each store to the static variables is a step of its own.  They are not  *)
(* volatile: after the first load in a call, the code compiled from a use  *)
(* of the cursor may read memory again or use the register, which differ   *)
(* if a handler has come in between.  Colours are left out, and so are the *)
(* halves of the hardware cursor (four port writes are one step).          *)
(*                                                                         *)
(* A store past the end of term_backbuff may change any static variable of *)
(* the kernel: nothing is known of the machine after it, and the modules   *)
(* that use this one stop there.                                           *)
(***************************************************************************)
EXTENDS Integers, Sequences

CONSTANTS
    VGA_WIDTH,
    VGA_HEIGHT,
    Contexts        \* code that calls vgaterm_putchar

ASSUME ScreenAssumption ==
    /\ VGA_WIDTH \in Nat \ {0}
    /\ VGA_HEIGHT \in Nat \ {0}

VGA_BUFFSIZE == VGA_WIDTH * VGA_HEIGHT

Cells == 0 .. (VGA_BUFFSIZE - 1)

Blank == " "
Newline == "\n"

VARIABLES
    term_cursor_x, term_cursor_y,
    term_backbuff, term_frontbuff,
    crtc,           \* the position in the hardware cursor's registers
    putchar,        \* for each context: its step, character and registers
    wild            \* something was written past term_backbuff

termVars == <<term_cursor_x, term_cursor_y, term_backbuff, term_frontbuff,
              crtc, putchar, wild>>

(* The hardware cursor is not moved before the first character.            *)
vgaterm_init ==
    /\ term_cursor_x = 0 /\ term_cursor_y = 0
    /\ term_backbuff = [i \in Cells |-> Blank]
    /\ term_frontbuff = term_backbuff
    /\ crtc = -1
    /\ putchar = [c \in Contexts |-> [at |-> "out", char |-> Blank, x |-> 0, y |-> 0]]
    /\ wild = FALSE

(* The values that a use of the cursor in context c may see.               *)
X(c) == {putchar[c].x, term_cursor_x}
Y(c) == {putchar[c].y, term_cursor_y}

Outside(c) == putchar[c].at = "out"

(* The call: the character is looked at and the cursor loaded.             *)
vgaterm_putchar(c, char) ==
    /\ Outside(c)
    /\ putchar' = [putchar EXCEPT ![c] =
          [at |-> IF char = Newline THEN "column0" ELSE "entry", char |-> char,
           x |-> term_cursor_x, y |-> term_cursor_y]]
    /\ UNCHANGED <<term_cursor_x, term_cursor_y, term_backbuff, term_frontbuff, crtc, wild>>

terminal_putentryat(c) ==
    /\ putchar[c].at = "entry"
    /\ \E x \in X(c), y \in Y(c) :
          LET index == y * VGA_WIDTH + x
          IN  /\ IF index \in Cells
                 THEN /\ term_backbuff' = [term_backbuff EXCEPT ![index] = putchar[c].char]
                      /\ term_frontbuff' = [term_frontbuff EXCEPT ![index] = putchar[c].char]
                      /\ UNCHANGED wild
                 ELSE wild' = TRUE /\ UNCHANGED <<term_backbuff, term_frontbuff>>
              /\ putchar' = [putchar EXCEPT ![c].at = "advance", ![c].x = x, ![c].y = y]
    /\ UNCHANGED <<term_cursor_x, term_cursor_y, crtc>>

(* ++term_cursor_x == VGA_WIDTH                                            *)
Advance(c) ==
    /\ putchar[c].at = "advance"
    /\ \E x \in X(c) :
          /\ term_cursor_x' = x + 1
          /\ putchar' = [putchar EXCEPT ![c].x = x + 1,
                ![c].at = IF x + 1 = VGA_WIDTH THEN "column0" ELSE "test"]
    /\ UNCHANGED <<term_cursor_y, term_backbuff, term_frontbuff, crtc, wild>>

Column0(c) ==
    /\ putchar[c].at = "column0"
    /\ term_cursor_x' = 0
    /\ putchar' = [putchar EXCEPT ![c].x = 0, ![c].at = "down"]
    /\ UNCHANGED <<term_cursor_y, term_backbuff, term_frontbuff, crtc, wild>>

Down(c) ==
    /\ putchar[c].at = "down"
    /\ \E y \in Y(c) :
          /\ term_cursor_y' = y + 1
          /\ putchar' = [putchar EXCEPT ![c].y = y + 1, ![c].at = "test"]
    /\ UNCHANGED <<term_cursor_x, term_backbuff, term_frontbuff, crtc, wild>>

(* Mutant: the test of the last line is off by one.                        *)
TestLate(c) ==
    /\ putchar[c].at = "test"
    /\ \E y \in Y(c) :
          putchar' = [putchar EXCEPT ![c].y = y,
             ![c].at = IF y > VGA_HEIGHT THEN "scroll" ELSE "cursor"]
    /\ UNCHANGED <<term_cursor_x, term_cursor_y, term_backbuff, term_frontbuff, crtc, wild>>

(* scroll if necessary                                                     *)
Test(c) ==
    /\ putchar[c].at = "test"
    /\ \E y \in Y(c) :
          putchar' = [putchar EXCEPT ![c].y = y,
             ![c].at = IF y >= VGA_HEIGHT THEN "scroll" ELSE "cursor"]
    /\ UNCHANGED <<term_cursor_x, term_cursor_y, term_backbuff, term_frontbuff, crtc, wild>>

(* terminal_scroll: the lines of the back buffer move up by temp, which    *)
(* stays in the register y.                                                *)
terminal_scroll(c) ==
    /\ putchar[c].at = "scroll"
    /\ \E y \in Y(c) :
          LET temp == y - VGA_HEIGHT + 1
          IN  /\ term_backbuff' = [i \in Cells |->
                    IF i < (VGA_HEIGHT - temp) * VGA_WIDTH
                    THEN term_backbuff[i + temp * VGA_WIDTH] ELSE term_backbuff[i]]
              /\ putchar' = [putchar EXCEPT ![c].y = temp, ![c].at = "clear"]
    /\ UNCHANGED <<term_cursor_x, term_cursor_y, term_frontbuff, crtc, wild>>

(* Mutant: the last line is not cleared.                                   *)
ClearNot(c) ==
    /\ putchar[c].at = "clear"
    /\ putchar' = [putchar EXCEPT ![c].at = "home"]
    /\ UNCHANGED <<term_cursor_x, term_cursor_y, term_backbuff, term_frontbuff, crtc, wild>>

(* clear last line                                                         *)
ClearLast(c) ==
    /\ putchar[c].at = "clear"
    /\ LET first == (VGA_HEIGHT - putchar[c].y) * VGA_WIDTH
           line == first .. (first + VGA_WIDTH - 1)
       IN  /\ term_backbuff' = [i \in Cells |-> IF i \in line THEN Blank ELSE term_backbuff[i]]
           /\ wild' = (wild \/ ~(line \subseteq Cells))
    /\ putchar' = [putchar EXCEPT ![c].at = "home"]
    /\ UNCHANGED <<term_cursor_x, term_cursor_y, term_frontbuff, crtc>>

(* move back to last line                                                  *)
Home(c) ==
    /\ putchar[c].at = "home"
    /\ term_cursor_y' = VGA_HEIGHT - 1
    /\ putchar' = [putchar EXCEPT ![c].y = VGA_HEIGHT - 1, ![c].at = "display"]
    /\ UNCHANGED <<term_cursor_x, term_backbuff, term_frontbuff, crtc, wild>>

(* and display                                                             *)
Display(c) ==
    /\ putchar[c].at = "display"
    /\ term_frontbuff' = term_backbuff
    /\ putchar' = [putchar EXCEPT ![c].at = "cursor"]
    /\ UNCHANGED <<term_cursor_x, term_cursor_y, term_backbuff, crtc, wild>>

terminal_update_cursor(c) ==
    /\ putchar[c].at = "cursor"
    /\ \E x \in X(c), y \in Y(c) : crtc' = y * VGA_WIDTH + x
    /\ putchar' = [putchar EXCEPT ![c] = [@ EXCEPT !.at = "out", !.x = 0, !.y = 0]]
    /\ UNCHANGED <<term_cursor_x, term_cursor_y, term_backbuff, term_frontbuff, wild>>

(* The rest of a call of vgaterm_putchar.                                  *)
PutcharStep(c) ==
    \/ terminal_putentryat(c) \/ Advance(c) \/ Column0(c) \/ Down(c) \/ Test(c)
    \/ terminal_scroll(c) \/ ClearLast(c) \/ Home(c) \/ Display(c)
    \/ terminal_update_cursor(c)
=============================================================================
