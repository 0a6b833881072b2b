------------------------------ MODULE Console ------------------------------
(***************************************************************************)
(* Printing (printk of utils.c, console.c, arch/x86/serialterm.c): one     *)
(* static buffer, and a list of consoles that each get the whole string.   *)
(*                                                                         *)
(* A call belongs to a context.  printk writes its buffer character by     *)
(* character; a string that is not formatted (greybox in kmain.c) is read  *)
(* where it is.                                                            *)
(***************************************************************************)
EXTENDS Vgaterm, FiniteSetsExt

CONSTANT
    BufSize         \* 1024 in printk

ASSUME BufAssumption == BufSize \in Nat \ {0}

NUL == ""

VARIABLES
    cons,           \* the consoles that are registered
    buf,            \* printk's static buffer
    call,           \* for each context: its call of printk or console_writestring
    sent            \* the last BufSize characters that the serial port has got

consoleVars == <<cons, buf, call, sent>>

NoCall == [at |-> "none", text |-> <<>>, n |-> 1, len |-> 0, con |-> 0]

ConsoleInit ==
    /\ vgaterm_init
    /\ cons = <<"vga">>
    /\ buf = [n \in 1 .. BufSize |-> NUL]
    /\ call = [c \in Contexts |-> NoCall]
    /\ sent = <<>>

Silent(c) == call[c].at = "none"

console_register(con) ==
    cons' = IF Len(cons) = 4 THEN cons ELSE Append(cons, con)

(* A call of printk, or of console_writestring with a literal.             *)
printk(c, text) ==
    call' = [call EXCEPT ![c] = [NoCall EXCEPT !.at = "format", !.text = text]]

console_writestring(c, text) ==
    call' = [call EXCEPT ![c] = [NoCall EXCEPT !.at = "console", !.text = text, !.con = 1]]

(* Mutant: the buffer is not terminated.                                   *)
FormatOpen(c) ==
    /\ call[c].at = "format"
    /\ LET n == call[c].n
       IN  IF n <= Len(call[c].text)
           THEN /\ buf' = [buf EXCEPT ![n] = call[c].text[n]]
                /\ call' = [call EXCEPT ![c].n = n + 1]
           ELSE /\ call' = [call EXCEPT ![c] = [NoCall EXCEPT !.at = "console", !.con = 1]]
                /\ UNCHANGED buf
    /\ UNCHANGED <<cons, sent, termVars>>

(* vsprintf writes the next character of the text, or the 0 after it; then *)
(* the consoles get the buffer.                                            *)
Format(c) ==
    /\ call[c].at = "format"
    /\ LET n == call[c].n
       IN  IF n <= Len(call[c].text)
           THEN /\ buf' = [buf EXCEPT ![n] = call[c].text[n]]
                /\ call' = [call EXCEPT ![c].n = n + 1]
           ELSE /\ buf' = [buf EXCEPT ![n] = NUL]
                /\ call' = [call EXCEPT ![c] = [NoCall EXCEPT !.at = "console", !.con = 1]]
    /\ UNCHANGED <<cons, sent, termVars>>

(* The string that a console is given: the literal, or printk's buffer.    *)
Data(c) == IF call[c].text = <<>> THEN buf ELSE Append(call[c].text, NUL)

strlen(str) == Min({n \in DOMAIN str : str[n] = NUL}) - 1

(* The loop of console_writestring; writestring of each console first      *)
(* takes the length of the string.                                         *)
NextConsole(c) ==
    /\ call[c].at = "console"
    /\ call' = IF call[c].con > Len(cons) THEN [call EXCEPT ![c] = NoCall]
               ELSE [call EXCEPT ![c].at = "write", ![c].n = 1, ![c].len = strlen(Data(c))]
    /\ UNCHANGED <<cons, buf, sent, termVars>>

(* The loop of vgaterm_writestring and serial_writestring.                 *)
WriteDone(c) ==
    /\ call[c].at = "write" /\ Outside(c)
    /\ call[c].n > call[c].len
    /\ call' = [call EXCEPT ![c].at = "console", ![c].con = @ + 1]
    /\ UNCHANGED <<cons, buf, sent, termVars>>

vgaterm_writestring(c) ==
    /\ call[c].at = "write" /\ cons[call[c].con] = "vga"
    /\ call[c].n <= call[c].len
    /\ vgaterm_putchar(c, Data(c)[call[c].n])
    /\ call' = [call EXCEPT ![c].n = @ + 1]
    /\ UNCHANGED <<cons, buf, sent>>

(* The loop of serial_writestring; the port always becomes empty.          *)
write_serial(c) ==
    /\ call[c].at = "write" /\ cons[call[c].con] = "serial"
    /\ call[c].n <= call[c].len
    /\ sent' = LET all == Append(sent, Data(c)[call[c].n])
               IN  SubSeq(all, Max({1, Len(all) - BufSize + 1}), Len(all))
    /\ call' = [call EXCEPT ![c].n = @ + 1]
    /\ UNCHANGED <<cons, buf, termVars>>

Putting(c) ==
    PutcharStep(c) /\ UNCHANGED consoleVars

(* The next step of the call in context c.                                 *)
PrintStep(c) ==
    \/ Format(c) \/ NextConsole(c) \/ WriteDone(c)
    \/ vgaterm_writestring(c) \/ write_serial(c) \/ Putting(c)

-----------------------------------------------------------------------------
(* What the screen should show                                             *)

(* Where the characters of a text go on an endless roll of lines, and the  *)
(* position after them.                                                    *)
Roll(text) ==
    LET pos[n \in 0 .. Len(text)] ==
          IF n = 0 THEN [line |-> 0, col |-> 0]
          ELSE IF text[n] = Newline \/ pos[n - 1].col = VGA_WIDTH - 1
               THEN [line |-> pos[n - 1].line + 1, col |-> 0]
               ELSE [pos[n - 1] EXCEPT !.col = @ + 1]
    IN  pos

(* The end of the roll as a screen.                                        *)
Shown(text) ==
    LET pos == Roll(text)
        top == Max({0, pos[Len(text)].line - VGA_HEIGHT + 1})
        at(i) == {n \in 1 .. Len(text) :
                    /\ text[n] # Newline
                    /\ pos[n - 1] = [line |-> top + i \div VGA_WIDTH, col |-> i % VGA_WIDTH]}
    IN  [i \in Cells |-> IF at(i) = {} THEN Blank ELSE text[Max(at(i))]]

CursorAfter(text) ==
    LET pos == Roll(text)[Len(text)]
    IN  [x |-> pos.col, y |-> Min({pos.line, VGA_HEIGHT - 1})]
=============================================================================
