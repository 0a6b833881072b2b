-------------------------- MODULE InterruptsProofs --------------------------
(***************************************************************************)
(* Proofs about what is printed, for every size of the screen and every    *)
(* text, and for every interleaving of the kernel's prints with those of   *)
(* its interrupt handlers.                                                 *)
(***************************************************************************)
EXTENDS Interrupts, TLAPS, SequenceTheorems, WellFoundedInduction

-----------------------------------------------------------------------------
(* Who is running                                                          *)

Steps == {"out", "entry", "advance", "column0", "down", "test", "scroll",
          "clear", "home", "display", "cursor"}

Calls == {"none", "format", "console", "write"}

(* The cursor and the registers are numbers; the register y holds the      *)
(* distance, and not a line, in the middle of terminal_scroll.             *)
TermTypes ==
    /\ term_cursor_x \in Nat /\ term_cursor_y \in Nat
    /\ wild \in BOOLEAN /\ raced \in BOOLEAN
    /\ putchar = [c \in Contexts |-> putchar[c]]
    /\ \A c \in Contexts :
          /\ putchar[c] = [at |-> putchar[c].at, char |-> putchar[c].char,
                           x |-> putchar[c].x, y |-> putchar[c].y]
          /\ putchar[c].at \in Steps
          /\ putchar[c].x \in Nat /\ putchar[c].y \in Int
          /\ putchar[c].at \notin {"clear", "home"} => putchar[c].y \in Nat

CallTypes ==
    /\ call = [c \in Contexts |-> call[c]]
    /\ \A c \in Contexts :
          /\ call[c] = [at |-> call[c].at, text |-> call[c].text, n |-> call[c].n,
                        len |-> call[c].len, con |-> call[c].con]
          /\ call[c].at \in Calls

PanicStacks == {<<"panic", "kernel">>, <<"panic", "handler", "kernel">>}

(* Handlers nest at most as far as panic, and a context that is not on the *)
(* stack does not print.                                                   *)
StackInv ==
    /\ running \in {<<"kernel">>, <<"handler", "kernel">>, <<"panic", "kernel">>,
                    <<"panic", "handler", "kernel">>, <<"reset">>}
    /\ flag \in BOOLEAN /\ (flag => running = <<"kernel">>)
    /\ running \in {<<"kernel">>, <<"panic", "kernel">>} => Silent("handler")
    /\ running \in {<<"kernel">>, <<"handler", "kernel">>} => Silent("panic")
    /\ running = <<"handler", "kernel">> /\ ~handled => Silent("handler")

(* A character is only put by a call that writes to a console, and only    *)
(* one context prints if there is no race.                                 *)
PrintInv ==
    /\ \A c \in Contexts : call[c].at # "write" => Outside(c)
    /\ ~raced => \A c, d \in Contexts : ~Silent(c) /\ ~Silent(d) => c = d

-----------------------------------------------------------------------------
(* The cursor                                                              *)

OnScreen == term_cursor_x < VGA_WIDTH /\ term_cursor_y < VGA_HEIGHT

(* A character that no other one disturbs: the registers agree with the    *)
(* cursor, and the screen scrolls by one line.                             *)
Clean(c) ==
    LET p == putchar[c]
    IN  /\ p.at # "column0" => term_cursor_x < VGA_WIDTH
        /\ p.at \in {"out", "entry", "advance", "column0", "down", "display", "cursor"} =>
              term_cursor_y < VGA_HEIGHT
        /\ p.at \in {"entry", "advance"} => p.x = term_cursor_x
        /\ p.at \in {"entry", "advance", "column0", "down", "test", "scroll"} =>
              p.y = term_cursor_y
        /\ p.at = "test" => term_cursor_y <= VGA_HEIGHT
        /\ p.at = "scroll" => term_cursor_y = VGA_HEIGHT
        /\ p.at = "clear" => p.y = 1

(* What the kernel keeps in registers while handlers print.                *)
KernelKeeps ==
    LET p == putchar["kernel"]
    IN  /\ p.at \in {"entry", "advance"} => p.x < VGA_WIDTH
        /\ p.at \in {"entry", "advance", "column0", "down"} => p.y < VGA_HEIGHT

(* What it then needs of the cursor, to leave it on the screen: nothing of *)
(* a coordinate that it will set itself.                                   *)
KernelNeeds ==
    LET p == putchar["kernel"]
    IN  /\ p.at # "column0" => term_cursor_x < VGA_WIDTH
        /\ p.at \notin {"test", "scroll", "clear", "home"} => term_cursor_y < VGA_HEIGHT
        /\ p.at = "test" => term_cursor_y < VGA_HEIGHT \/ p.y = term_cursor_y

(* A character of the handler, which nothing that returns interrupts: it   *)
(* leaves the cursor in the lines of the screen wherever it finds it, and  *)
(* in the columns unless the kernel is about to reset the column.          *)
HandlerKeeps ==
    LET p == putchar["handler"]
        k == putchar["kernel"]
    IN  /\ p.at \in {"entry", "advance"} => p.x = term_cursor_x
        /\ p.at \in {"entry", "advance", "column0", "down", "test"} => p.y = term_cursor_y
        /\ p.at # "column0" /\ k.at # "column0" => term_cursor_x < VGA_WIDTH
        /\ p.at \in {"entry", "advance", "column0", "down"}
              /\ k.at \notin {"test", "scroll", "clear", "home"} => term_cursor_y < VGA_HEIGHT
        /\ p.at \in {"display", "cursor"} => term_cursor_y < VGA_HEIGHT

CursorInv ==
    /\ KernelKeeps
    /\ Running = "kernel" \/ (Running = "handler" /\ Outside("handler")) =>
          KernelNeeds /\ (~raced => Clean("kernel"))
    /\ Running = "handler" /\ ~Outside("handler") =>
          HandlerKeeps /\ (Outside("kernel") => Clean("handler"))
    /\ Running = "panic" /\ Outside("kernel") /\ Outside("handler") => Clean("panic")
    /\ Running = "reset" /\ (\A c \in Contexts : Outside(c)) => OnScreen

HealInv == TermTypes /\ CallTypes /\ StackInv /\ PrintInv /\ CursorInv /\ (wild => raced)

-----------------------------------------------------------------------------
(* One step of vgaterm_putchar                                             *)

(* In a step of putchar, context c goes on at the given step with the      *)
(* given registers.                                                        *)
Moved(c, at, x, y) ==
    /\ putchar' = [d \in Contexts |-> putchar'[d]]
    /\ \A d \in Contexts \ {c} : putchar'[d] = putchar[d]
    /\ putchar'[c] = [at |-> at, char |-> putchar[c].char, x |-> x, y |-> y]

Cursor(x, y) == term_cursor_x' = x /\ term_cursor_y' = y

LEMMA ScreenSizes ==
    /\ VGA_WIDTH \in Nat \ {0} /\ VGA_HEIGHT \in Nat \ {0}
    /\ VGA_BUFFSIZE \in Nat
    /\ \A i : i \in Cells <=> i \in Int /\ 0 <= i /\ i < VGA_BUFFSIZE
    /\ VGA_BUFFSIZE = VGA_WIDTH * VGA_HEIGHT
    /\ VGA_HEIGHT * VGA_WIDTH = VGA_BUFFSIZE
<1>1. VGA_WIDTH \in Nat \ {0} /\ VGA_HEIGHT \in Nat \ {0}
  BY ScreenAssumption
<1>2. VGA_BUFFSIZE \in Nat /\ VGA_BUFFSIZE = VGA_WIDTH * VGA_HEIGHT
      /\ VGA_HEIGHT * VGA_WIDTH = VGA_BUFFSIZE
  BY <1>1 DEF VGA_BUFFSIZE
<1>3. \A i : i \in Cells <=> i \in Int /\ 0 <= i /\ i < VGA_BUFFSIZE
  BY <1>2 DEF Cells
<1>4. QED
  BY <1>1, <1>2, <1>3

LEMMA LinesBefore ==
    ASSUME NEW a \in Nat, NEW b \in Nat, a <= b
    PROVE  a * VGA_WIDTH <= b * VGA_WIDTH /\ a * VGA_WIDTH \in Nat
<1>1. VGA_WIDTH \in Nat
  BY ScreenSizes
<1>2. PICK d \in Nat : b = a + d
  <2>1. b - a \in Nat /\ b = a + (b - a)
    OBVIOUS
  <2>2. QED
    BY <2>1
<1>3. b * VGA_WIDTH = a * VGA_WIDTH + d * VGA_WIDTH
  BY <1>1, <1>2
<1>4. a * VGA_WIDTH \in Nat /\ d * VGA_WIDTH \in Nat
  BY <1>1, <1>2
<1>5. QED
  BY <1>3, <1>4

(* A position on the screen is a cell.                                     *)
LEMMA CellOf ==
    ASSUME NEW x \in Nat, NEW y \in Nat, x < VGA_WIDTH, y < VGA_HEIGHT
    PROVE  y * VGA_WIDTH + x \in Cells
<1>1. /\ VGA_WIDTH \in Nat /\ VGA_HEIGHT \in Nat
      /\ VGA_HEIGHT * VGA_WIDTH = VGA_BUFFSIZE /\ VGA_BUFFSIZE \in Nat
  BY ScreenSizes
<1>2. (y + 1) * VGA_WIDTH <= VGA_HEIGHT * VGA_WIDTH
  BY <1>1, LinesBefore
<1>3. (y + 1) * VGA_WIDTH = y * VGA_WIDTH + VGA_WIDTH /\ y * VGA_WIDTH \in Nat
  BY <1>1
<1>4. QED
  BY <1>1, <1>2, <1>3, ScreenSizes

LEMMA LastLineInside ==
    ASSUME NEW first, first = (VGA_HEIGHT - 1) * VGA_WIDTH
    PROVE  first .. (first + VGA_WIDTH - 1) \subseteq Cells
<1>1. /\ VGA_WIDTH \in Nat \ {0} /\ VGA_HEIGHT \in Nat \ {0}
      /\ VGA_HEIGHT * VGA_WIDTH = VGA_BUFFSIZE /\ VGA_BUFFSIZE \in Nat
  BY ScreenSizes
<1>2. first \in Nat /\ first + VGA_WIDTH = VGA_BUFFSIZE
  <2>1. (VGA_HEIGHT - 1) * VGA_WIDTH + VGA_WIDTH = VGA_HEIGHT * VGA_WIDTH
    BY <1>1
  <2>2. VGA_HEIGHT - 1 \in Nat
    BY <1>1
  <2>3. (VGA_HEIGHT - 1) * VGA_WIDTH \in Nat
    BY <1>1, <2>2
  <2>4. QED
    BY <1>1, <2>1, <2>3
<1>3. QED
  BY <1>1, <1>2, ScreenSizes

(* The steps, as far as the cursor is concerned.                           *)
EntryStep(c) ==
    /\ putchar[c].at = "entry"
    /\ \E x \in X(c), y \in Y(c) :
          /\ Moved(c, "advance", x, y)
          /\ wild' = (wild \/ y * VGA_WIDTH + x \notin Cells)
    /\ Cursor(term_cursor_x, term_cursor_y)

AdvanceStep(c) ==
    /\ putchar[c].at = "advance"
    /\ \E x \in X(c) :
          /\ Moved(c, IF x + 1 = VGA_WIDTH THEN "column0" ELSE "test", x + 1, putchar[c].y)
          /\ Cursor(x + 1, term_cursor_y)
    /\ wild' = wild

ColumnStep(c) ==
    /\ putchar[c].at = "column0"
    /\ Moved(c, "down", 0, putchar[c].y)
    /\ Cursor(0, term_cursor_y)
    /\ wild' = wild

DownStep(c) ==
    /\ putchar[c].at = "down"
    /\ \E y \in Y(c) :
          /\ Moved(c, "test", putchar[c].x, y + 1)
          /\ Cursor(term_cursor_x, y + 1)
    /\ wild' = wild

TestStep(c) ==
    /\ putchar[c].at = "test"
    /\ \E y \in Y(c) :
          Moved(c, IF y >= VGA_HEIGHT THEN "scroll" ELSE "cursor", putchar[c].x, y)
    /\ Cursor(term_cursor_x, term_cursor_y)
    /\ wild' = wild

ScrollStep(c) ==
    /\ putchar[c].at = "scroll"
    /\ \E y \in Y(c) : Moved(c, "clear", putchar[c].x, y - VGA_HEIGHT + 1)
    /\ Cursor(term_cursor_x, term_cursor_y)
    /\ wild' = wild

ClearStep(c) ==
    /\ putchar[c].at = "clear"
    /\ Moved(c, "home", putchar[c].x, putchar[c].y)
    /\ Cursor(term_cursor_x, term_cursor_y)
    /\ wild' \in BOOLEAN
    /\ putchar[c].y = 1 => wild' = wild

HomeStep(c) ==
    /\ putchar[c].at = "home"
    /\ Moved(c, "display", putchar[c].x, VGA_HEIGHT - 1)
    /\ Cursor(term_cursor_x, VGA_HEIGHT - 1)
    /\ wild' = wild

DisplayStep(c) ==
    /\ putchar[c].at = "display"
    /\ Moved(c, "cursor", putchar[c].x, putchar[c].y)
    /\ Cursor(term_cursor_x, term_cursor_y)
    /\ wild' = wild

CursorStep(c) ==
    /\ putchar[c].at = "cursor"
    /\ Moved(c, "out", 0, 0)
    /\ Cursor(term_cursor_x, term_cursor_y)
    /\ wild' = wild

LEMMA Updates ==
    ASSUME TermTypes, NEW c \in Contexts, NEW r, putchar' = [putchar EXCEPT ![c] = r]
    PROVE  /\ putchar' = [d \in Contexts |-> putchar'[d]]
           /\ \A d \in Contexts \ {c} : putchar'[d] = putchar[d]
           /\ putchar'[c] = r
BY DEF TermTypes

(* The registers of a context with some of the fields replaced.            *)
LEMMA Fields ==
    ASSUME TermTypes, NEW c \in Contexts
    PROVE  /\ \A a : [putchar[c] EXCEPT !.at = a]
                 = [at |-> a, char |-> putchar[c].char, x |-> putchar[c].x, y |-> putchar[c].y]
           /\ \A a, x : [putchar[c] EXCEPT !.x = x, !.at = a]
                 = [at |-> a, char |-> putchar[c].char, x |-> x, y |-> putchar[c].y]
           /\ \A a, y : [putchar[c] EXCEPT !.y = y, !.at = a]
                 = [at |-> a, char |-> putchar[c].char, x |-> putchar[c].x, y |-> y]
           /\ \A a, x, y : [putchar[c] EXCEPT !.at = a, !.x = x, !.y = y]
                 = [at |-> a, char |-> putchar[c].char, x |-> x, y |-> y]
<1> DEFINE p == putchar[c]
           char == putchar[c].char
<1>1. p = [at |-> p.at, char |-> char, x |-> p.x, y |-> p.y]
  BY DEF TermTypes
<1> HIDE DEF p, char
<1>2. \A a : [p EXCEPT !.at = a] = [at |-> a, char |-> char, x |-> p.x, y |-> p.y]
  BY <1>1
<1>3. \A a, x : [p EXCEPT !.x = x, !.at = a] = [at |-> a, char |-> char, x |-> x, y |-> p.y]
  <2> TAKE a, x
  <2> DEFINE q == [at |-> p.at, char |-> char, x |-> x, y |-> p.y]
  <2>1. [p EXCEPT !.x = x] = q
    BY <1>1
  <2>2. [q EXCEPT !.at = a] = [at |-> a, char |-> char, x |-> x, y |-> p.y]
    OBVIOUS
  <2>3. [p EXCEPT !.x = x, !.at = a] = [[p EXCEPT !.x = x] EXCEPT !.at = a]
    OBVIOUS
  <2>4. QED
    BY <2>1, <2>2, <2>3
<1>4. \A a, y : [p EXCEPT !.y = y, !.at = a] = [at |-> a, char |-> char, x |-> p.x, y |-> y]
  <2> TAKE a, y
  <2> DEFINE q == [at |-> p.at, char |-> char, x |-> p.x, y |-> y]
  <2>1. [p EXCEPT !.y = y] = q
    BY <1>1
  <2>2. [q EXCEPT !.at = a] = [at |-> a, char |-> char, x |-> p.x, y |-> y]
    OBVIOUS
  <2>3. [p EXCEPT !.y = y, !.at = a] = [[p EXCEPT !.y = y] EXCEPT !.at = a]
    OBVIOUS
  <2>4. QED
    BY <2>1, <2>2, <2>3
<1>5. \A a, x, y : [p EXCEPT !.at = a, !.x = x, !.y = y]
                     = [at |-> a, char |-> char, x |-> x, y |-> y]
  <2> TAKE a, x, y
  <2> DEFINE q == [at |-> a, char |-> char, x |-> p.x, y |-> p.y]
             r == [at |-> a, char |-> char, x |-> x, y |-> p.y]
  <2>1. [p EXCEPT !.at = a] = q
    BY <1>1
  <2>2. [q EXCEPT !.x = x] = r
    OBVIOUS
  <2>3. [r EXCEPT !.y = y] = [at |-> a, char |-> char, x |-> x, y |-> y]
    OBVIOUS
  <2>4. [p EXCEPT !.at = a, !.x = x, !.y = y]
          = [[[p EXCEPT !.at = a] EXCEPT !.x = x] EXCEPT !.y = y]
    OBVIOUS
  <2>5. QED
    BY <2>1, <2>2, <2>3, <2>4
<1>6. QED
  BY <1>2, <1>3, <1>4, <1>5, Zenon DEF p, char

LEMMA FieldsX ==
    ASSUME TermTypes, NEW c \in Contexts, NEW a, NEW x
    PROVE  [putchar[c] EXCEPT !.x = x, !.at = a]
                 = [at |-> a, char |-> putchar[c].char, x |-> x, y |-> putchar[c].y]
BY Fields, Zenon

LEMMA FieldsY ==
    ASSUME TermTypes, NEW c \in Contexts, NEW a, NEW y
    PROVE  [putchar[c] EXCEPT !.y = y, !.at = a]
                 = [at |-> a, char |-> putchar[c].char, x |-> putchar[c].x, y |-> y]
<1>1. \A b, z : [putchar[c] EXCEPT !.y = z, !.at = b]
                 = [at |-> b, char |-> putchar[c].char, x |-> putchar[c].x, y |-> z]
  BY Fields, Zenon
<1>2. QED
  BY <1>1, Zenon

LEMMA MovedAll ==
    ASSUME TermTypes, NEW c \in Contexts, NEW a, NEW x, NEW y,
           putchar' = [putchar EXCEPT ![c] = [putchar[c] EXCEPT !.at = a, !.x = x, !.y = y]]
    PROVE  Moved(c, a, x, y)
<1>1. [putchar[c] EXCEPT !.at = a, !.x = x, !.y = y]
         = [at |-> a, char |-> putchar[c].char, x |-> x, y |-> y]
  <2>1. \A b, w, z : [putchar[c] EXCEPT !.at = b, !.x = w, !.y = z]
                 = [at |-> b, char |-> putchar[c].char, x |-> w, y |-> z]
    BY Fields, Zenon
  <2>2. QED
    BY <2>1, Zenon
<1>2. QED
  BY <1>1, Updates DEF Moved

LEMMA EntryEffect ==
    ASSUME TermTypes, NEW c \in Contexts, terminal_putentryat(c)
    PROVE  EntryStep(c)
<1>1. PICK x \in X(c), y \in Y(c) :
          /\ IF y * VGA_WIDTH + x \in Cells THEN wild' = wild ELSE wild' = TRUE
          /\ putchar' = [putchar EXCEPT ![c].at = "advance", ![c].x = x, ![c].y = y]
  BY DEF terminal_putentryat
<1>2. wild' = (wild \/ y * VGA_WIDTH + x \notin Cells)
  BY <1>1 DEF TermTypes
<1>3. Moved(c, "advance", x, y)
  <2>1. putchar' = [putchar EXCEPT ![c] = [putchar[c] EXCEPT !.at = "advance", !.x = x, !.y = y]]
    BY <1>1 DEF TermTypes
  <2>2. QED
    BY <2>1, MovedAll
<1>4. QED
  BY <1>1, <1>2, <1>3 DEF EntryStep, Cursor, terminal_putentryat

LEMMA AdvanceEffect ==
    ASSUME TermTypes, NEW c \in Contexts, Advance(c)
    PROVE  AdvanceStep(c)
<1>1. PICK x \in X(c) :
          /\ putchar' = [putchar EXCEPT ![c].x = x + 1, ![c].at = IF x + 1 = VGA_WIDTH THEN "column0" ELSE "test"]
          /\ term_cursor_x' = x + 1
  BY DEF Advance
<1>2. Moved(c, IF x + 1 = VGA_WIDTH THEN "column0" ELSE "test", x + 1, putchar[c].y)
  <2>1. [putchar[c] EXCEPT !.x = x + 1, !.at = IF x + 1 = VGA_WIDTH THEN "column0" ELSE "test"]
          = [at |-> IF x + 1 = VGA_WIDTH THEN "column0" ELSE "test", char |-> putchar[c].char,
             x |-> x + 1, y |-> putchar[c].y]
    BY FieldsX, Zenon
  <2>2. putchar' = [putchar EXCEPT ![c] = [putchar[c] EXCEPT !.x = x + 1, !.at = IF x + 1 = VGA_WIDTH THEN "column0" ELSE "test"]]
    BY <1>1 DEF TermTypes
  <2>3. QED
    BY <2>1, <2>2, Updates DEF Moved
<1>4. QED
  BY <1>1, <1>2 DEF AdvanceStep, Cursor, Advance

LEMMA ColumnEffect ==
    ASSUME TermTypes, NEW c \in Contexts, Column0(c)
    PROVE  ColumnStep(c)
<1>1. putchar' = [putchar EXCEPT ![c].x = 0, ![c].at = "down"]
  BY DEF Column0
<1>2. Moved(c, "down", 0, putchar[c].y)
  <2>1. [putchar[c] EXCEPT !.x = 0, !.at = "down"]
          = [at |-> "down", char |-> putchar[c].char,
             x |-> 0, y |-> putchar[c].y]
    BY FieldsX, Zenon
  <2>2. putchar' = [putchar EXCEPT ![c] = [putchar[c] EXCEPT !.x = 0, !.at = "down"]]
    BY <1>1 DEF TermTypes
  <2>3. QED
    BY <2>1, <2>2, Updates DEF Moved
<1>4. QED
  BY <1>1, <1>2 DEF ColumnStep, Cursor, Column0

LEMMA DownEffect ==
    ASSUME TermTypes, NEW c \in Contexts, Down(c)
    PROVE  DownStep(c)
<1>1. PICK y \in Y(c) :
          /\ putchar' = [putchar EXCEPT ![c].y = y + 1, ![c].at = "test"]
          /\ term_cursor_y' = y + 1
  BY DEF Down
<1>2. Moved(c, "test", putchar[c].x, y + 1)
  <2>1. [putchar[c] EXCEPT !.y = y + 1, !.at = "test"]
          = [at |-> "test", char |-> putchar[c].char,
             x |-> putchar[c].x, y |-> y + 1]
    BY FieldsY, Zenon
  <2>2. putchar' = [putchar EXCEPT ![c] = [putchar[c] EXCEPT !.y = y + 1, !.at = "test"]]
    BY <1>1 DEF TermTypes
  <2>3. QED
    BY <2>1, <2>2, Updates DEF Moved
<1>4. QED
  BY <1>1, <1>2 DEF DownStep, Cursor, Down

LEMMA TestEffect ==
    ASSUME TermTypes, NEW c \in Contexts, Test(c)
    PROVE  TestStep(c)
<1>1. PICK y \in Y(c) :
          /\ putchar' = [putchar EXCEPT ![c].y = y, ![c].at = IF y >= VGA_HEIGHT THEN "scroll" ELSE "cursor"]
          /\ TRUE
  BY DEF Test
<1>2. Moved(c, IF y >= VGA_HEIGHT THEN "scroll" ELSE "cursor", putchar[c].x, y)
  <2>1. [putchar[c] EXCEPT !.y = y, !.at = IF y >= VGA_HEIGHT THEN "scroll" ELSE "cursor"]
          = [at |-> IF y >= VGA_HEIGHT THEN "scroll" ELSE "cursor", char |-> putchar[c].char,
             x |-> putchar[c].x, y |-> y]
    BY FieldsY, Zenon
  <2>2. putchar' = [putchar EXCEPT ![c] = [putchar[c] EXCEPT !.y = y, !.at = IF y >= VGA_HEIGHT THEN "scroll" ELSE "cursor"]]
    BY <1>1 DEF TermTypes
  <2>3. QED
    BY <2>1, <2>2, Updates DEF Moved
<1>4. QED
  BY <1>1, <1>2 DEF TestStep, Cursor, Test

LEMMA ScrollEffect ==
    ASSUME TermTypes, NEW c \in Contexts, terminal_scroll(c)
    PROVE  ScrollStep(c)
<1>1. PICK y \in Y(c) :
          /\ putchar' = [putchar EXCEPT ![c].y = y - VGA_HEIGHT + 1, ![c].at = "clear"]
          /\ TRUE
  BY DEF terminal_scroll
<1>2. Moved(c, "clear", putchar[c].x, y - VGA_HEIGHT + 1)
  <2>1. [putchar[c] EXCEPT !.y = y - VGA_HEIGHT + 1, !.at = "clear"]
          = [at |-> "clear", char |-> putchar[c].char,
             x |-> putchar[c].x, y |-> y - VGA_HEIGHT + 1]
    BY FieldsY, Zenon
  <2>2. putchar' = [putchar EXCEPT ![c] = [putchar[c] EXCEPT !.y = y - VGA_HEIGHT + 1, !.at = "clear"]]
    BY <1>1 DEF TermTypes
  <2>3. QED
    BY <2>1, <2>2, Updates DEF Moved
<1>4. QED
  BY <1>1, <1>2 DEF ScrollStep, Cursor, terminal_scroll

LEMMA ClearEffect ==
    ASSUME TermTypes, NEW c \in Contexts, ClearLast(c)
    PROVE  ClearStep(c)
<1>1. putchar' = [putchar EXCEPT ![c].at = "home"]
  BY DEF ClearLast
<1>2. Moved(c, "home", putchar[c].x, putchar[c].y)
  <2>1. [putchar[c] EXCEPT !.at = "home"]
          = [at |-> "home", char |-> putchar[c].char,
             x |-> putchar[c].x, y |-> putchar[c].y]
    BY Fields, Zenon
  <2>2. putchar' = [putchar EXCEPT ![c] = [putchar[c] EXCEPT !.at = "home"]]
    BY <1>1 DEF TermTypes
  <2>3. QED
    BY <2>1, <2>2, Updates DEF Moved
<1>3. wild' \in BOOLEAN /\ (putchar[c].y = 1 => wild' = wild)
  <2> DEFINE first == (VGA_HEIGHT - putchar[c].y) * VGA_WIDTH
             line == first .. (first + VGA_WIDTH - 1)
  <2>1. wild' = (wild \/ ~(line \subseteq Cells))
    BY DEF ClearLast
  <2>2. putchar[c].y = 1 => line \subseteq Cells
    BY LastLineInside
  <2> HIDE DEF line
  <2>3. QED
    BY <2>1, <2>2 DEF TermTypes
<1>4. QED
  BY <1>1, <1>2, <1>3 DEF ClearStep, Cursor, ClearLast

LEMMA HomeEffect ==
    ASSUME TermTypes, NEW c \in Contexts, Home(c)
    PROVE  HomeStep(c)
<1>1. putchar' = [putchar EXCEPT ![c].y = VGA_HEIGHT - 1, ![c].at = "display"]
  BY DEF Home
<1>2. Moved(c, "display", putchar[c].x, VGA_HEIGHT - 1)
  <2>1. [putchar[c] EXCEPT !.y = VGA_HEIGHT - 1, !.at = "display"]
          = [at |-> "display", char |-> putchar[c].char,
             x |-> putchar[c].x, y |-> VGA_HEIGHT - 1]
    BY FieldsY, Zenon
  <2>2. putchar' = [putchar EXCEPT ![c] = [putchar[c] EXCEPT !.y = VGA_HEIGHT - 1, !.at = "display"]]
    BY <1>1 DEF TermTypes
  <2>3. QED
    BY <2>1, <2>2, Updates DEF Moved
<1>4. QED
  BY <1>1, <1>2 DEF HomeStep, Cursor, Home

LEMMA DisplayEffect ==
    ASSUME TermTypes, NEW c \in Contexts, Display(c)
    PROVE  DisplayStep(c)
<1>1. putchar' = [putchar EXCEPT ![c].at = "cursor"]
  BY DEF Display
<1>2. Moved(c, "cursor", putchar[c].x, putchar[c].y)
  <2>1. [putchar[c] EXCEPT !.at = "cursor"]
          = [at |-> "cursor", char |-> putchar[c].char,
             x |-> putchar[c].x, y |-> putchar[c].y]
    BY Fields, Zenon
  <2>2. putchar' = [putchar EXCEPT ![c] = [putchar[c] EXCEPT !.at = "cursor"]]
    BY <1>1 DEF TermTypes
  <2>3. QED
    BY <2>1, <2>2, Updates DEF Moved
<1>4. QED
  BY <1>1, <1>2 DEF DisplayStep, Cursor, Display

LEMMA CursorEffect ==
    ASSUME TermTypes, NEW c \in Contexts, terminal_update_cursor(c)
    PROVE  CursorStep(c)
<1>1. putchar' = [putchar EXCEPT ![c] = [@ EXCEPT !.at = "out", !.x = 0, !.y = 0]]
  BY DEF terminal_update_cursor
<1>2. Moved(c, "out", 0, 0)
  <2>1. putchar' = [putchar EXCEPT ![c] = [putchar[c] EXCEPT !.at = "out", !.x = 0, !.y = 0]]
    BY <1>1 DEF TermTypes
  <2>2. QED
    BY <2>1, MovedAll
<1>4. QED
  BY <1>1, <1>2 DEF CursorStep, Cursor, terminal_update_cursor

(* The character and the cursor are loaded.                                *)
LoadStep(c) ==
    /\ Outside(c)
    /\ putchar' = [d \in Contexts |-> putchar'[d]]
    /\ \A d \in Contexts \ {c} : putchar'[d] = putchar[d]
    /\ putchar'[c] = [at |-> putchar'[c].at, char |-> putchar'[c].char,
                      x |-> term_cursor_x, y |-> term_cursor_y]
    /\ putchar'[c].at \in {"column0", "entry"}
    /\ Cursor(term_cursor_x, term_cursor_y)
    /\ wild' = wild

LEMMA LoadEffect ==
    ASSUME TermTypes, NEW c \in Contexts, NEW char, vgaterm_putchar(c, char)
    PROVE  LoadStep(c)
<1> DEFINE a == IF char = Newline THEN "column0" ELSE "entry"
           r == [at |-> a, char |-> char, x |-> term_cursor_x, y |-> term_cursor_y]
<1>1. putchar' = [putchar EXCEPT ![c] = r]
  BY DEF vgaterm_putchar
<1>2. a \in {"column0", "entry"} /\ r.at = a /\ r.char = char
  OBVIOUS
<1> HIDE DEF a
<1>3. /\ putchar' = [d \in Contexts |-> putchar'[d]]
      /\ \A d \in Contexts \ {c} : putchar'[d] = putchar[d]
      /\ putchar'[c] = r
  BY <1>1, Updates
<1>4. QED
  BY <1>2, <1>3 DEF LoadStep, Cursor, vgaterm_putchar

(* All steps of a character.                                               *)
CharStep(c) ==
    \/ LoadStep(c) \/ EntryStep(c) \/ AdvanceStep(c) \/ ColumnStep(c) \/ DownStep(c)
    \/ TestStep(c) \/ ScrollStep(c) \/ ClearStep(c) \/ HomeStep(c) \/ DisplayStep(c)
    \/ CursorStep(c)

LEMMA PutcharEffect ==
    ASSUME TermTypes, NEW c \in Contexts, PutcharStep(c)
    PROVE  CharStep(c)
BY EntryEffect, AdvanceEffect, ColumnEffect, DownEffect, TestEffect, ScrollEffect,
   ClearEffect, HomeEffect, DisplayEffect, CursorEffect, Zenon
   DEF PutcharStep, CharStep

LEMMA MovedTypes ==
    ASSUME TermTypes, NEW c \in Contexts, NEW a \in Steps, NEW x \in Nat, NEW y \in Int,
           a \notin {"clear", "home"} => y \in Nat,
           Moved(c, a, x, y),
           term_cursor_x' \in Nat, term_cursor_y' \in Nat,
           wild' \in BOOLEAN, raced' \in BOOLEAN
    PROVE  TermTypes'
<1>1. \A d \in Contexts :
          /\ putchar'[d] = [at |-> putchar'[d].at, char |-> putchar'[d].char,
                            x |-> putchar'[d].x, y |-> putchar'[d].y]
          /\ putchar'[d].at \in Steps
          /\ putchar'[d].x \in Nat /\ putchar'[d].y \in Int
          /\ putchar'[d].at \notin {"clear", "home"} => putchar'[d].y \in Nat
  <2> TAKE d \in Contexts
  <2>1. CASE d = c
    BY <2>1 DEF Moved
  <2>2. CASE d # c
    BY <2>2 DEF Moved, TermTypes
  <2>3. QED
    BY <2>1, <2>2
<1>2. putchar' = [d \in Contexts |-> putchar'[d]]
  BY DEF Moved
<1>3. QED
  BY <1>1, <1>2 DEF TermTypes

LEMMA CharStepTypes ==
    ASSUME TermTypes, NEW c \in Contexts, CharStep(c), raced' = raced
    PROVE  TermTypes'
<1>1. /\ term_cursor_x \in Nat /\ term_cursor_y \in Nat /\ wild \in BOOLEAN
      /\ raced' \in BOOLEAN
      /\ putchar[c].x \in Nat /\ putchar[c].y \in Int /\ putchar[c].at \in Steps
      /\ putchar[c].at \notin {"clear", "home"} => putchar[c].y \in Nat
      /\ X(c) \subseteq Nat /\ Y(c) \subseteq Int
      /\ putchar[c].at \notin {"clear", "home"} => Y(c) \subseteq Nat
  BY DEF TermTypes, X, Y
<1>2. VGA_HEIGHT \in Nat \ {0}
  BY ScreenSizes
<1>3. CASE LoadStep(c)
  <2>1. PICK a, ch : /\ putchar'[c] = [at |-> a, char |-> ch, x |-> term_cursor_x, y |-> term_cursor_y]
                     /\ a \in {"column0", "entry"}
    BY <1>3 DEF LoadStep
  <2>2. \A d \in Contexts :
          /\ putchar'[d] = [at |-> putchar'[d].at, char |-> putchar'[d].char,
                            x |-> putchar'[d].x, y |-> putchar'[d].y]
          /\ putchar'[d].at \in Steps
          /\ putchar'[d].x \in Nat /\ putchar'[d].y \in Int
          /\ putchar'[d].at \notin {"clear", "home"} => putchar'[d].y \in Nat
    <3> TAKE d \in Contexts
    <3>1. CASE d = c
      BY <1>1, <2>1, <3>1 DEF Steps
    <3>2. CASE d # c
      BY <1>3, <3>2 DEF LoadStep, TermTypes
    <3>3. QED
      BY <3>1, <3>2
  <2>3. putchar' = [d \in Contexts |-> putchar'[d]]
    BY <1>3 DEF LoadStep
  <2>4. QED
    BY <1>1, <1>3, <2>2, <2>3 DEF TermTypes, LoadStep, Cursor
<1>4. CASE EntryStep(c)
  <2>1. PICK x \in X(c), y \in Y(c) :
          Moved(c, "advance", x, y) /\ wild' \in BOOLEAN
    BY <1>4 DEF EntryStep
  <2>2. QED
    BY <1>1, <1>4, <2>1, MovedTypes DEF EntryStep, Cursor, Steps
<1>5. CASE AdvanceStep(c)
  <2>1. PICK x \in X(c) :
          /\ Moved(c, IF x + 1 = VGA_WIDTH THEN "column0" ELSE "test", x + 1, putchar[c].y)
          /\ Cursor(x + 1, term_cursor_y)
    BY <1>5 DEF AdvanceStep
  <2>2. (IF x + 1 = VGA_WIDTH THEN "column0" ELSE "test") \in Steps \ {"clear", "home"}
    BY DEF Steps
  <2>3. x + 1 \in Nat /\ wild' \in BOOLEAN
    BY <1>1, <1>5, <2>1 DEF AdvanceStep
  <2>4. QED
    BY <1>1, <1>5, <2>1, <2>2, <2>3, MovedTypes DEF AdvanceStep, Cursor
<1>6. CASE ColumnStep(c)
  BY <1>1, <1>6, MovedTypes DEF ColumnStep, Cursor, Steps
<1>7. CASE DownStep(c)
  <2>1. PICK y \in Y(c) :
          Moved(c, "test", putchar[c].x, y + 1) /\ Cursor(term_cursor_x, y + 1)
    BY <1>7 DEF DownStep
  <2>2. y + 1 \in Nat /\ wild' \in BOOLEAN
    BY <1>1, <1>7, <2>1 DEF DownStep
  <2>3. QED
    BY <1>1, <2>1, <2>2, MovedTypes DEF Cursor, Steps
<1>8. CASE TestStep(c)
  <2>1. PICK y \in Y(c) :
          Moved(c, IF y >= VGA_HEIGHT THEN "scroll" ELSE "cursor", putchar[c].x, y)
    BY <1>8 DEF TestStep
  <2>2. (IF y >= VGA_HEIGHT THEN "scroll" ELSE "cursor") \in Steps \ {"clear", "home"}
    BY DEF Steps
  <2>3. y \in Nat
    BY <1>1, <1>8, <2>1 DEF TestStep
  <2>4. QED
    BY <1>1, <1>8, <2>1, <2>2, <2>3, MovedTypes DEF TestStep, Cursor
<1>9. CASE ScrollStep(c)
  <2>1. PICK y \in Y(c) : Moved(c, "clear", putchar[c].x, y - VGA_HEIGHT + 1)
    BY <1>9 DEF ScrollStep
  <2>2. y - VGA_HEIGHT + 1 \in Int
    BY <1>1, <1>2, <2>1
  <2>3. QED
    BY <1>1, <1>9, <2>1, <2>2, MovedTypes DEF ScrollStep, Cursor, Steps
<1>10. CASE ClearStep(c)
  BY <1>1, <1>10, MovedTypes DEF ClearStep, Cursor, Steps
<1>11. CASE HomeStep(c)
  <2>1. VGA_HEIGHT - 1 \in Nat
    BY <1>2
  <2>2. QED
    BY <1>1, <1>11, <2>1, MovedTypes DEF HomeStep, Cursor, Steps
<1>12. CASE DisplayStep(c)
  BY <1>1, <1>12, MovedTypes DEF DisplayStep, Cursor, Steps
<1>13. CASE CursorStep(c)
  BY <1>1, <1>13, MovedTypes DEF CursorStep, Cursor, Steps
<1>14. QED
  BY <1>3, <1>4, <1>5, <1>6, <1>7, <1>8, <1>9, <1>10, <1>11, <1>12, <1>13 DEF CharStep

-----------------------------------------------------------------------------
(* The cursor stays on the screen, or comes back to it                           *)

(* A character that is not disturbed is put where it belongs.              *)
LEMMA CleanStep ==
    ASSUME TermTypes, NEW c \in Contexts, Clean(c), CharStep(c)
    PROVE  Clean(c)' /\ wild' = wild
<1>1. /\ term_cursor_x \in Nat /\ term_cursor_y \in Nat /\ wild \in BOOLEAN
      /\ putchar[c].x \in Nat /\ putchar[c].y \in Int
      /\ putchar[c].at \notin {"clear", "home"} => putchar[c].y \in Nat
      /\ VGA_WIDTH \in Nat \ {0} /\ VGA_HEIGHT \in Nat \ {0}
  BY ScreenSizes DEF TermTypes
<1>2. CASE LoadStep(c)
  BY <1>1, <1>2 DEF LoadStep, Moved, Cursor, Clean, Outside
<1>3. CASE EntryStep(c)
  <2>1. PICK x \in X(c), y \in Y(c) :
          /\ Moved(c, "advance", x, y)
          /\ wild' = (wild \/ y * VGA_WIDTH + x \notin Cells)
    BY <1>3 DEF EntryStep
  <2>2. y * VGA_WIDTH + x \in Cells
    BY <1>1, <1>3, <2>1, CellOf DEF EntryStep, X, Y, Clean
  <2>3. QED
    BY <1>1, <1>3, <2>1, <2>2 DEF EntryStep, Moved, Cursor, X, Y, Clean, Outside
<1>4. CASE AdvanceStep(c)
  <2>1. PICK x \in X(c) :
          /\ Moved(c, IF x + 1 = VGA_WIDTH THEN "column0" ELSE "test", x + 1, putchar[c].y)
          /\ Cursor(x + 1, term_cursor_y)
    BY <1>4 DEF AdvanceStep
  <2>2. QED
    BY <1>1, <1>4, <2>1 DEF AdvanceStep, Moved, Cursor, X, Y, Clean, Outside
<1>5. CASE ColumnStep(c)
  BY <1>1, <1>5 DEF ColumnStep, Moved, Cursor, Clean, Outside
<1>6. CASE DownStep(c)
  <2>1. PICK y \in Y(c) :
          Moved(c, "test", putchar[c].x, y + 1) /\ Cursor(term_cursor_x, y + 1)
    BY <1>6 DEF DownStep
  <2>2. QED
    BY <1>1, <1>6, <2>1 DEF DownStep, Moved, Cursor, X, Y, Clean, Outside
<1>7. CASE TestStep(c)
  <2>1. PICK y \in Y(c) :
          Moved(c, IF y >= VGA_HEIGHT THEN "scroll" ELSE "cursor", putchar[c].x, y)
    BY <1>7 DEF TestStep
  <2>2. QED
    BY <1>1, <1>7, <2>1 DEF TestStep, Moved, Cursor, X, Y, Clean, Outside
<1>8. CASE ScrollStep(c)
  <2>1. PICK y \in Y(c) :
          Moved(c, "clear", putchar[c].x, y - VGA_HEIGHT + 1)
    BY <1>8 DEF ScrollStep
  <2>2. QED
    BY <1>1, <1>8, <2>1 DEF ScrollStep, Moved, Cursor, X, Y, Clean, Outside
<1>9. CASE ClearStep(c)
  BY <1>1, <1>9 DEF ClearStep, Moved, Cursor, Clean, Outside
<1>10. CASE HomeStep(c)
  BY <1>1, <1>10 DEF HomeStep, Moved, Cursor, Clean, Outside
<1>11. CASE DisplayStep(c)
  BY <1>1, <1>11 DEF DisplayStep, Moved, Cursor, Clean, Outside
<1>12. CASE CursorStep(c)
  BY <1>1, <1>12 DEF CursorStep, Moved, Cursor, Clean, Outside
<1>13. QED
  BY <1>2, <1>3, <1>4, <1>5, <1>6, <1>7, <1>8, <1>9, <1>10, <1>11, <1>12 DEF CharStep

(* A character of the kernel that handlers may have disturbed ends with    *)
(* the cursor on the screen.                                               *)
LEMMA KernelStep ==
    ASSUME TermTypes, "kernel" \in Contexts, KernelKeeps, KernelNeeds, CharStep("kernel")
    PROVE  KernelKeeps' /\ KernelNeeds'
<1>1. /\ term_cursor_x \in Nat /\ term_cursor_y \in Nat /\ wild \in BOOLEAN
      /\ putchar["kernel"].x \in Nat /\ putchar["kernel"].y \in Int
      /\ putchar["kernel"].at \notin {"clear", "home"} => putchar["kernel"].y \in Nat
      /\ VGA_WIDTH \in Nat \ {0} /\ VGA_HEIGHT \in Nat \ {0}
  BY ScreenSizes DEF TermTypes
<1>2. CASE LoadStep("kernel")
  BY <1>1, <1>2 DEF LoadStep, Moved, Cursor, KernelKeeps, KernelNeeds, Outside
<1>3. CASE EntryStep("kernel")
  <2>1. PICK x \in X("kernel"), y \in Y("kernel") :
          /\ Moved("kernel", "advance", x, y)
          /\ wild' = (wild \/ y * VGA_WIDTH + x \notin Cells)
    BY <1>3 DEF EntryStep
  <2>2. QED
    BY <1>1, <1>3, <2>1 DEF EntryStep, Moved, Cursor, X, Y, KernelKeeps, KernelNeeds, Outside
<1>4. CASE AdvanceStep("kernel")
  <2>1. PICK x \in X("kernel") :
          /\ Moved("kernel", IF x + 1 = VGA_WIDTH THEN "column0" ELSE "test", x + 1, putchar["kernel"].y)
          /\ Cursor(x + 1, term_cursor_y)
    BY <1>4 DEF AdvanceStep
  <2>2. QED
    BY <1>1, <1>4, <2>1 DEF AdvanceStep, Moved, Cursor, X, Y, KernelKeeps, KernelNeeds, Outside
<1>5. CASE ColumnStep("kernel")
  BY <1>1, <1>5 DEF ColumnStep, Moved, Cursor, KernelKeeps, KernelNeeds, Outside
<1>6. CASE DownStep("kernel")
  <2>1. PICK y \in Y("kernel") :
          Moved("kernel", "test", putchar["kernel"].x, y + 1) /\ Cursor(term_cursor_x, y + 1)
    BY <1>6 DEF DownStep
  <2>2. QED
    BY <1>1, <1>6, <2>1 DEF DownStep, Moved, Cursor, X, Y, KernelKeeps, KernelNeeds, Outside
<1>7. CASE TestStep("kernel")
  <2>1. PICK y \in Y("kernel") :
          Moved("kernel", IF y >= VGA_HEIGHT THEN "scroll" ELSE "cursor", putchar["kernel"].x, y)
    BY <1>7 DEF TestStep
  <2>2. QED
    BY <1>1, <1>7, <2>1 DEF TestStep, Moved, Cursor, X, Y, KernelKeeps, KernelNeeds, Outside
<1>8. CASE ScrollStep("kernel")
  <2>1. PICK y \in Y("kernel") :
          Moved("kernel", "clear", putchar["kernel"].x, y - VGA_HEIGHT + 1)
    BY <1>8 DEF ScrollStep
  <2>2. QED
    BY <1>1, <1>8, <2>1 DEF ScrollStep, Moved, Cursor, X, Y, KernelKeeps, KernelNeeds, Outside
<1>9. CASE ClearStep("kernel")
  BY <1>1, <1>9 DEF ClearStep, Moved, Cursor, KernelKeeps, KernelNeeds, Outside
<1>10. CASE HomeStep("kernel")
  BY <1>1, <1>10 DEF HomeStep, Moved, Cursor, KernelKeeps, KernelNeeds, Outside
<1>11. CASE DisplayStep("kernel")
  BY <1>1, <1>11 DEF DisplayStep, Moved, Cursor, KernelKeeps, KernelNeeds, Outside
<1>12. CASE CursorStep("kernel")
  BY <1>1, <1>12 DEF CursorStep, Moved, Cursor, KernelKeeps, KernelNeeds, Outside
<1>13. QED
  BY <1>2, <1>3, <1>4, <1>5, <1>6, <1>7, <1>8, <1>9, <1>10, <1>11, <1>12 DEF CharStep

(* A character of the handler leaves the kernel what it needs.             *)
LEMMA HandlerStep ==
    ASSUME TermTypes, "kernel" \in Contexts, "handler" \in Contexts, CharStep("handler"),
           Outside("handler") => KernelNeeds,
           ~Outside("handler") => HandlerKeeps
    PROVE  /\ Outside("handler")' => KernelNeeds'
           /\ ~Outside("handler")' => HandlerKeeps'
           /\ putchar'["kernel"] = putchar["kernel"]
<1>1. /\ term_cursor_x \in Nat /\ term_cursor_y \in Nat /\ wild \in BOOLEAN
      /\ putchar["handler"].x \in Nat /\ putchar["handler"].y \in Int
      /\ putchar["handler"].at \notin {"clear", "home"} => putchar["handler"].y \in Nat
      /\ VGA_WIDTH \in Nat \ {0} /\ VGA_HEIGHT \in Nat \ {0}
  BY ScreenSizes DEF TermTypes
<1>2. CASE LoadStep("handler")
  BY <1>1, <1>2 DEF LoadStep, Moved, Cursor, KernelNeeds, HandlerKeeps, Outside
<1>3. CASE EntryStep("handler")
  <2>1. PICK x \in X("handler"), y \in Y("handler") :
          /\ Moved("handler", "advance", x, y)
          /\ wild' = (wild \/ y * VGA_WIDTH + x \notin Cells)
    BY <1>3 DEF EntryStep
  <2>2. QED
    BY <1>1, <1>3, <2>1 DEF EntryStep, Moved, Cursor, X, Y, KernelNeeds, HandlerKeeps, Outside
<1>4. CASE AdvanceStep("handler")
  <2>1. PICK x \in X("handler") :
          /\ Moved("handler", IF x + 1 = VGA_WIDTH THEN "column0" ELSE "test", x + 1, putchar["handler"].y)
          /\ Cursor(x + 1, term_cursor_y)
    BY <1>4 DEF AdvanceStep
  <2>2. QED
    BY <1>1, <1>4, <2>1 DEF AdvanceStep, Moved, Cursor, X, Y, KernelNeeds, HandlerKeeps, Outside
<1>5. CASE ColumnStep("handler")
  BY <1>1, <1>5 DEF ColumnStep, Moved, Cursor, KernelNeeds, HandlerKeeps, Outside
<1>6. CASE DownStep("handler")
  <2>1. PICK y \in Y("handler") :
          Moved("handler", "test", putchar["handler"].x, y + 1) /\ Cursor(term_cursor_x, y + 1)
    BY <1>6 DEF DownStep
  <2>2. QED
    BY <1>1, <1>6, <2>1 DEF DownStep, Moved, Cursor, X, Y, KernelNeeds, HandlerKeeps, Outside
<1>7. CASE TestStep("handler")
  <2>1. PICK y \in Y("handler") :
          Moved("handler", IF y >= VGA_HEIGHT THEN "scroll" ELSE "cursor", putchar["handler"].x, y)
    BY <1>7 DEF TestStep
  <2>2. QED
    BY <1>1, <1>7, <2>1 DEF TestStep, Moved, Cursor, X, Y, KernelNeeds, HandlerKeeps, Outside
<1>8. CASE ScrollStep("handler")
  <2>1. PICK y \in Y("handler") :
          Moved("handler", "clear", putchar["handler"].x, y - VGA_HEIGHT + 1)
    BY <1>8 DEF ScrollStep
  <2>2. QED
    BY <1>1, <1>8, <2>1 DEF ScrollStep, Moved, Cursor, X, Y, KernelNeeds, HandlerKeeps, Outside
<1>9. CASE ClearStep("handler")
  BY <1>1, <1>9 DEF ClearStep, Moved, Cursor, KernelNeeds, HandlerKeeps, Outside
<1>10. CASE HomeStep("handler")
  BY <1>1, <1>10 DEF HomeStep, Moved, Cursor, KernelNeeds, HandlerKeeps, Outside
<1>11. CASE DisplayStep("handler")
  BY <1>1, <1>11 DEF DisplayStep, Moved, Cursor, KernelNeeds, HandlerKeeps, Outside
<1>12. CASE CursorStep("handler")
  BY <1>1, <1>12 DEF CursorStep, Moved, Cursor, KernelNeeds, HandlerKeeps, Outside
<1>13. QED
  BY <1>2, <1>3, <1>4, <1>5, <1>6, <1>7, <1>8, <1>9, <1>10, <1>11, <1>12 DEF CharStep

-----------------------------------------------------------------------------
(* One step of printing                                                    *)

(* In a step, the call of context c becomes the given one.                 *)
Called(c, at, txt, n, len, con) ==
    /\ call' = [d \in Contexts |-> call'[d]]
    /\ \A d \in Contexts \ {c} : call'[d] = call[d]
    /\ call'[c] = [at |-> at, text |-> txt, n |-> n, len |-> len, con |-> con]

LEMMA CallUpdates ==
    ASSUME CallTypes, NEW c \in Contexts, NEW r, call' = [call EXCEPT ![c] = r]
    PROVE  /\ call' = [d \in Contexts |-> call'[d]]
           /\ \A d \in Contexts \ {c} : call'[d] = call[d]
           /\ call'[c] = r
BY DEF CallTypes

LEMMA CalledTypes ==
    ASSUME CallTypes, NEW c \in Contexts, NEW at \in Calls, NEW txt, NEW n, NEW len, NEW con,
           Called(c, at, txt, n, len, con)
    PROVE  /\ CallTypes'
           /\ call'[c].at = at /\ call'[c].text = txt /\ call'[c].n = n
           /\ call'[c].len = len /\ call'[c].con = con
<1>1. /\ call'[c].at = at /\ call'[c].text = txt /\ call'[c].n = n
      /\ call'[c].len = len /\ call'[c].con = con
  BY DEF Called
<1>2. \A d \in Contexts :
          /\ call'[d] = [at |-> call'[d].at, text |-> call'[d].text, n |-> call'[d].n,
                         len |-> call'[d].len, con |-> call'[d].con]
          /\ call'[d].at \in Calls
  <2> TAKE d \in Contexts
  <2>1. CASE d = c
    BY <1>1, <2>1 DEF Called
  <2>2. CASE d # c
    BY <2>2 DEF Called, CallTypes
  <2>3. QED
    BY <2>1, <2>2
<1>3. QED
  BY <1>1, <1>2 DEF CallTypes, Called

LEMMA CalledN ==
    ASSUME CallTypes, NEW c \in Contexts, NEW n1,
           call' = [call EXCEPT ![c] = [call[c] EXCEPT !.n = n1]]
    PROVE  Called(c, call[c].at, call[c].text, n1, call[c].len, call[c].con)
<1> DEFINE p == call[c]
<1>1. p = [at |-> p.at, text |-> p.text, n |-> p.n, len |-> p.len, con |-> p.con]
  BY DEF CallTypes
<1> HIDE DEF p
<1>2. [p EXCEPT !.n = n1] = [at |-> p.at, text |-> p.text, n |-> n1, len |-> p.len, con |-> p.con]
  BY <1>1
<1>3. [p EXCEPT !.n = n1] = [at |-> p.at, text |-> p.text, n |-> n1, len |-> p.len, con |-> p.con]
  BY <1>2
<1>4. QED
  BY <1>3, CallUpdates DEF Called, p

LEMMA CalledAtCon ==
    ASSUME CallTypes, NEW c \in Contexts, NEW at1, NEW con1,
           call' = [call EXCEPT ![c] = [call[c] EXCEPT !.at = at1, !.con = con1]]
    PROVE  Called(c, at1, call[c].text, call[c].n, call[c].len, con1)
<1> DEFINE p == call[c]
<1>1. p = [at |-> p.at, text |-> p.text, n |-> p.n, len |-> p.len, con |-> p.con]
  BY DEF CallTypes
<1> HIDE DEF p
<1>2. [p EXCEPT !.at = at1] = [at |-> at1, text |-> p.text, n |-> p.n, len |-> p.len, con |-> p.con]
  BY <1>1
<1> DEFINE q1 == [at |-> at1, text |-> p.text, n |-> p.n, len |-> p.len, con |-> p.con]
<1>3. [q1 EXCEPT !.con = con1] = [at |-> at1, text |-> p.text, n |-> p.n, len |-> p.len, con |-> con1]
  OBVIOUS
<1>4. [p EXCEPT !.at = at1, !.con = con1] = [[p EXCEPT !.at = at1] EXCEPT !.con = con1]
  OBVIOUS
<1>5. [p EXCEPT !.at = at1, !.con = con1] = [at |-> at1, text |-> p.text, n |-> p.n, len |-> p.len, con |-> con1]
  BY <1>2, <1>3, <1>4
<1>6. QED
  BY <1>5, CallUpdates DEF Called, p

LEMMA CalledAtNLen ==
    ASSUME CallTypes, NEW c \in Contexts, NEW at1, NEW n1, NEW len1,
           call' = [call EXCEPT ![c] = [call[c] EXCEPT !.at = at1, !.n = n1, !.len = len1]]
    PROVE  Called(c, at1, call[c].text, n1, len1, call[c].con)
<1> DEFINE p == call[c]
<1>1. p = [at |-> p.at, text |-> p.text, n |-> p.n, len |-> p.len, con |-> p.con]
  BY DEF CallTypes
<1> HIDE DEF p
<1>2. [p EXCEPT !.at = at1] = [at |-> at1, text |-> p.text, n |-> p.n, len |-> p.len, con |-> p.con]
  BY <1>1
<1> DEFINE q1 == [at |-> at1, text |-> p.text, n |-> p.n, len |-> p.len, con |-> p.con]
<1>3. [q1 EXCEPT !.n = n1] = [at |-> at1, text |-> p.text, n |-> n1, len |-> p.len, con |-> p.con]
  OBVIOUS
<1> DEFINE q2 == [at |-> at1, text |-> p.text, n |-> n1, len |-> p.len, con |-> p.con]
<1>4. [q2 EXCEPT !.len = len1] = [at |-> at1, text |-> p.text, n |-> n1, len |-> len1, con |-> p.con]
  OBVIOUS
<1>5. [p EXCEPT !.at = at1, !.n = n1, !.len = len1] = [[[p EXCEPT !.at = at1] EXCEPT !.n = n1] EXCEPT !.len = len1]
  OBVIOUS
<1>6. [p EXCEPT !.at = at1, !.n = n1, !.len = len1] = [at |-> at1, text |-> p.text, n |-> n1, len |-> len1, con |-> p.con]
  BY <1>2, <1>3, <1>4, <1>5
<1>7. QED
  BY <1>6, CallUpdates DEF Called, p

LEMMA NoCallRecords ==
    /\ \A t : [NoCall EXCEPT !.at = "format", !.text = t]
                = [at |-> "format", text |-> t, n |-> 1, len |-> 0, con |-> 0]
    /\ \A t : [NoCall EXCEPT !.at = "console", !.text = t, !.con = 1]
                = [at |-> "console", text |-> t, n |-> 1, len |-> 0, con |-> 1]
    /\ [NoCall EXCEPT !.at = "console", !.con = 1]
         = [at |-> "console", text |-> <<>>, n |-> 1, len |-> 0, con |-> 1]
<1> DEFINE f == [at |-> "format", text |-> <<>>, n |-> 1, len |-> 0, con |-> 0]
           g == [at |-> "console", text |-> <<>>, n |-> 1, len |-> 0, con |-> 0]
           h(t) == [at |-> "console", text |-> t, n |-> 1, len |-> 0, con |-> 0]
<1>1. [NoCall EXCEPT !.at = "format"] = f /\ [NoCall EXCEPT !.at = "console"] = g
  BY DEF NoCall
<1>2. \A t : [f EXCEPT !.text = t]
               = [at |-> "format", text |-> t, n |-> 1, len |-> 0, con |-> 0]
  OBVIOUS
<1>3. \A t : [g EXCEPT !.text = t] = h(t)
  OBVIOUS
<1>4. \A t : [h(t) EXCEPT !.con = 1]
               = [at |-> "console", text |-> t, n |-> 1, len |-> 0, con |-> 1]
  OBVIOUS
<1>5. [g EXCEPT !.con = 1] = [at |-> "console", text |-> <<>>, n |-> 1, len |-> 0, con |-> 1]
  OBVIOUS
<1> HIDE DEF f, g, h
<1>6. ASSUME NEW t
      PROVE  /\ [NoCall EXCEPT !.at = "format", !.text = t]
                 = [[NoCall EXCEPT !.at = "format"] EXCEPT !.text = t]
             /\ [NoCall EXCEPT !.at = "console", !.text = t, !.con = 1]
                 = [[[NoCall EXCEPT !.at = "console"] EXCEPT !.text = t] EXCEPT !.con = 1]
  OBVIOUS
<1>7. [NoCall EXCEPT !.at = "console", !.con = 1]
        = [[NoCall EXCEPT !.at = "console"] EXCEPT !.con = 1]
  OBVIOUS
<1>8. \A t : [NoCall EXCEPT !.at = "format", !.text = t] = [f EXCEPT !.text = t]
  BY <1>1, <1>6
<1>9. \A t : [NoCall EXCEPT !.at = "console", !.text = t, !.con = 1] = [h(t) EXCEPT !.con = 1]
  BY <1>1, <1>3, <1>6
<1>10. QED
  BY <1>1, <1>2, <1>4, <1>5, <1>7, <1>8, <1>9

(* The steps of printing, with the call that they leave.                     *)
LEMMA FormatEffect ==
    ASSUME CallTypes, NEW c \in Contexts, Format(c)
    PROVE  /\ call[c].at = "format" /\ UNCHANGED <<cons, sent, termVars>>
           /\ \/ /\ call[c].n <= Len(call[c].text)
                 /\ buf' = [buf EXCEPT ![call[c].n] = call[c].text[call[c].n]]
                 /\ Called(c, "format", call[c].text, call[c].n + 1, call[c].len, call[c].con)
              \/ /\ ~(call[c].n <= Len(call[c].text))
                 /\ buf' = [buf EXCEPT ![call[c].n] = NUL]
                 /\ Called(c, "console", <<>>, 1, 0, 1)
<1>1. CASE call[c].n <= Len(call[c].text)
  <2>1. /\ buf' = [buf EXCEPT ![call[c].n] = call[c].text[call[c].n]]
        /\ call' = [call EXCEPT ![c].n = call[c].n + 1]
    BY <1>1 DEF Format
  <2>2. call' = [call EXCEPT ![c] = [call[c] EXCEPT !.n = call[c].n + 1]]
    BY <2>1 DEF CallTypes
  <2>3. Called(c, call[c].at, call[c].text, call[c].n + 1, call[c].len, call[c].con)
    BY <2>2, CalledN
  <2>4. QED
    BY <1>1, <2>1, <2>3 DEF Format
<1>2. CASE ~(call[c].n <= Len(call[c].text))
  <2>1. /\ buf' = [buf EXCEPT ![call[c].n] = NUL]
        /\ call' = [call EXCEPT ![c] = [NoCall EXCEPT !.at = "console", !.con = 1]]
    BY <1>2 DEF Format
  <2>2. call' = [call EXCEPT ![c] =
                    [at |-> "console", text |-> <<>>, n |-> 1, len |-> 0, con |-> 1]]
    BY <2>1, NoCallRecords
  <2>3. Called(c, "console", <<>>, 1, 0, 1)
    BY <2>2, CallUpdates DEF Called
  <2>4. QED
    BY <1>2, <2>1, <2>3 DEF Format
<1>3. QED
  BY <1>1, <1>2

LEMMA NextEffect ==
    ASSUME CallTypes, NEW c \in Contexts, NextConsole(c)
    PROVE  /\ call[c].at = "console" /\ UNCHANGED <<cons, buf, sent, termVars>>
           /\ \/ call[c].con > Len(cons) /\ Called(c, "none", <<>>, 1, 0, 0)
              \/ /\ ~(call[c].con > Len(cons))
                 /\ Called(c, "write", call[c].text, 1, strlen(Data(c)), call[c].con)
<1>1. CASE call[c].con > Len(cons)
  <2>1. call' = [call EXCEPT ![c] = NoCall]
    BY <1>1 DEF NextConsole
  <2>2. Called(c, "none", <<>>, 1, 0, 0)
    BY <2>1, CallUpdates DEF Called, NoCall
  <2>3. QED
    BY <1>1, <2>2 DEF NextConsole
<1>2. CASE ~(call[c].con > Len(cons))
  <2> DEFINE l == strlen(Data(c))
  <2>1. call' = [call EXCEPT ![c].at = "write", ![c].n = 1, ![c].len = l]
    BY <1>2 DEF NextConsole
  <2> HIDE DEF l
  <2>2. call' = [call EXCEPT ![c] = [call[c] EXCEPT !.at = "write", !.n = 1, !.len = l]]
    BY <2>1 DEF CallTypes
  <2>3. PICK m : m = l
    OBVIOUS
  <2>4. Called(c, "write", call[c].text, 1, m, call[c].con)
    BY <2>2, <2>3, CalledAtNLen
  <2>5. QED
    BY <1>2, <2>3, <2>4 DEF NextConsole, l
<1>3. QED
  BY <1>1, <1>2

LEMMA DoneEffect ==
    ASSUME CallTypes, NEW c \in Contexts, WriteDone(c)
    PROVE  /\ call[c].at = "write" /\ Outside(c) /\ call[c].n > call[c].len
           /\ UNCHANGED <<cons, buf, sent, termVars>>
           /\ Called(c, "console", call[c].text, call[c].n, call[c].len, call[c].con + 1)
<1>1. call' = [call EXCEPT ![c].at = "console", ![c].con = call[c].con + 1]
  BY DEF WriteDone, CallTypes
<1>2. call' = [call EXCEPT ![c] = [call[c] EXCEPT !.at = "console", !.con = call[c].con + 1]]
  BY <1>1 DEF CallTypes
<1>3. PICK m : m = call[c].con + 1
  OBVIOUS
<1>4. Called(c, "console", call[c].text, call[c].n, call[c].len, m)
  BY <1>2, <1>3, CalledAtCon
<1>5. QED
  BY <1>3, <1>4 DEF WriteDone

LEMMA CountEffect ==
    ASSUME CallTypes, NEW c \in Contexts, call' = [call EXCEPT ![c].n = @ + 1]
    PROVE  Called(c, call[c].at, call[c].text, call[c].n + 1, call[c].len, call[c].con)
<1>1. call' = [call EXCEPT ![c] = [call[c] EXCEPT !.n = call[c].n + 1]]
  BY DEF CallTypes
<1>2. QED
  BY <1>1, CalledN

-----------------------------------------------------------------------------
(* The steps                                                               *)

LEMMA TheContexts ==
    /\ Contexts = {"kernel", "handler", "panic"}
    /\ "kernel" \in Contexts /\ "handler" \in Contexts /\ "panic" \in Contexts
BY InterruptAssumption

LEMMA Stacks ==
    ASSUME StackInv
    PROVE  /\ Running = "kernel" <=> running = <<"kernel">>
           /\ Running = "handler" <=> running = <<"handler", "kernel">>
           /\ Running = "panic" <=> running \in {<<"panic", "kernel">>,
                                                 <<"panic", "handler", "kernel">>}
           /\ Running = "reset" <=> running = <<"reset">>
BY DEF StackInv, Running

LEMMA TermUnchanged ==
    ASSUME UNCHANGED termVars
    PROVE  /\ term_cursor_x' = term_cursor_x /\ term_cursor_y' = term_cursor_y
           /\ putchar' = putchar /\ wild' = wild
           /\ \A c : Outside(c)' = Outside(c) /\ Clean(c)' = Clean(c)
           /\ KernelKeeps' = KernelKeeps /\ KernelNeeds' = KernelNeeds
           /\ HandlerKeeps' = HandlerKeeps /\ OnScreen' = OnScreen
<1>1. /\ term_cursor_x' = term_cursor_x /\ term_cursor_y' = term_cursor_y
      /\ putchar' = putchar /\ wild' = wild
  BY DEF termVars
<1>2. QED
  BY <1>1 DEF Outside, Clean, KernelKeeps, KernelNeeds, HandlerKeeps, OnScreen

(* The running context changes between characters.                         *)
LEMMA CursorSame ==
    ASSUME TermTypes, StackInv, PrintInv, CursorInv, wild => raced,
           UNCHANGED termVars, raced => raced', raced' \in BOOLEAN,
           \/ running' = running
           \/ running = <<"kernel">> /\ running' = <<"handler", "kernel">>
           \/ /\ running = <<"handler", "kernel">> /\ running' = <<"kernel">>
              /\ Silent("handler")
           \/ running = <<"kernel">> /\ running' = <<"panic", "kernel">>
           \/ running = <<"handler", "kernel">> /\ running' = <<"panic", "handler", "kernel">>
           \/ running \in {<<"kernel">>, <<"handler", "kernel">>} /\ running' = <<"reset">>
           \/ running \in PanicStacks /\ running' = <<"reset">>
    PROVE  TermTypes' /\ CursorInv' /\ (wild' => raced')
<1>1. /\ putchar' = putchar /\ wild' = wild
      /\ term_cursor_x' = term_cursor_x /\ term_cursor_y' = term_cursor_y
      /\ \A c : Outside(c)' = Outside(c) /\ Clean(c)' = Clean(c)
      /\ KernelKeeps' = KernelKeeps /\ KernelNeeds' = KernelNeeds
      /\ HandlerKeeps' = HandlerKeeps /\ OnScreen' = OnScreen
  BY TermUnchanged
<1>2. TermTypes'
  BY <1>1 DEF TermTypes
<1>3. Silent("handler") => Outside("handler")
  BY TheContexts DEF PrintInv, Silent
<1>4. Silent("panic") => Outside("panic")
  BY TheContexts DEF PrintInv, Silent
<1>5. KernelNeeds /\ Outside("kernel") => OnScreen
  BY DEF KernelNeeds, Outside, OnScreen
<1>6. OnScreen /\ Outside("panic") => Clean("panic")
  BY DEF Clean, Outside, OnScreen
<1>7. CASE running' = running
  BY <1>1, <1>2, <1>7 DEF CursorInv, Running
<1>8. CASE running = <<"kernel">> /\ running' = <<"handler", "kernel">>
  <2>1. Running = "kernel" /\ Running' = "handler" /\ Outside("handler")
    BY <1>3, <1>8 DEF Running, StackInv
  <2>2. QED
    BY <1>1, <1>2, <2>1 DEF CursorInv
<1>9. CASE /\ running = <<"handler", "kernel">> /\ running' = <<"kernel">>
           /\ Silent("handler")
  <2>1. Running = "handler" /\ Running' = "kernel" /\ Outside("handler")
    BY <1>3, <1>9 DEF Running, StackInv
  <2>2. QED
    BY <1>1, <1>2, <2>1 DEF CursorInv
<1>10. CASE \/ running = <<"kernel">> /\ running' = <<"panic", "kernel">>
            \/ running = <<"handler", "kernel">> /\ running' = <<"panic", "handler", "kernel">>
  <2>1. Running \in {"kernel", "handler"} /\ Running' = "panic" /\ Outside("panic")
    BY <1>4, <1>10 DEF Running, StackInv
  <2>2. Outside("kernel") /\ Outside("handler") => OnScreen
    BY <1>5, <2>1 DEF CursorInv
  <2>3. QED
    BY <1>1, <1>2, <1>6, <2>1, <2>2 DEF CursorInv
<1>11. CASE running \in {<<"kernel">>, <<"handler", "kernel">>} /\ running' = <<"reset">>
  <2>1. Running \in {"kernel", "handler"} /\ Running' = "reset"
    BY <1>11 DEF Running
  <2>2. (\A c \in Contexts : Outside(c)) => OnScreen
    BY <1>5, <2>1, TheContexts DEF CursorInv
  <2>3. QED
    BY <1>1, <1>2, <2>1, <2>2 DEF CursorInv
<1>12. CASE running \in PanicStacks /\ running' = <<"reset">>
  <2>1. Running = "panic" /\ Running' = "reset"
    BY <1>12 DEF Running, PanicStacks
  <2>2. Clean("panic") /\ Outside("panic") => OnScreen
    BY DEF Clean, Outside, OnScreen
  <2>3. (\A c \in Contexts : Outside(c)) => OnScreen
    BY <2>1, <2>2, TheContexts DEF CursorInv
  <2>4. QED
    BY <1>1, <1>2, <2>1, <2>3 DEF CursorInv
<1>13. QED
  BY <1>7, <1>8, <1>9, <1>10, <1>11, <1>12

(* The running context puts a part of a character.                         *)
LEMMA CharHeals ==
    ASSUME TermTypes, StackInv, PrintInv, CursorInv, wild => raced,
           NEW c \in Contexts, c = Running, ~Silent(c), CharStep(c),
           running' = running, raced' = raced
    PROVE  TermTypes' /\ CursorInv' /\ (wild' => raced')
<1>1. TermTypes'
  BY CharStepTypes
<1>2. \A d \in Contexts : d # c => putchar'[d] = putchar[d] /\ Outside(d)' = Outside(d)
  <2>1. \A d \in Contexts : d # c => putchar'[d] = putchar[d]
    BY DEF CharStep, LoadStep, EntryStep, AdvanceStep, ColumnStep, DownStep, TestStep,
           ScrollStep, ClearStep, HomeStep, DisplayStep, CursorStep, Moved
  <2>2. QED
    BY <2>1 DEF Outside
<1>3. Running' = Running
  BY DEF Running
<1>4. ~raced => \A d \in Contexts : d # c => Outside(d)
  BY DEF PrintInv, Silent
<1>5. CASE c = "kernel"
  <2>1. KernelNeeds /\ KernelKeeps /\ (~raced => Clean("kernel"))
    BY <1>5 DEF CursorInv
  <2>2. KernelKeeps' /\ KernelNeeds'
    BY <1>5, <2>1, KernelStep
  <2>3. ~raced => Clean("kernel")' /\ wild' = wild
    BY <1>5, <2>1, CleanStep
  <2>4. QED
    BY <1>1, <1>3, <1>5, <2>2, <2>3 DEF CursorInv, TermTypes
<1>6. CASE c = "handler"
  <2>1. /\ KernelKeeps
        /\ Outside("handler") => KernelNeeds /\ (~raced => Clean("kernel"))
        /\ ~Outside("handler") => HandlerKeeps /\ (Outside("kernel") => Clean("handler"))
    BY <1>6 DEF CursorInv
  <2>2. /\ Outside("handler")' => KernelNeeds'
        /\ ~Outside("handler")' => HandlerKeeps'
        /\ putchar'["kernel"] = putchar["kernel"]
    BY <1>6, <2>1, HandlerStep, TheContexts
  <2>3. KernelKeeps' /\ Outside("kernel")' = Outside("kernel")
    BY <2>1, <2>2 DEF KernelKeeps, Outside
  <2>4. Outside("kernel") => Clean("handler")' /\ wild' = wild
    <3>1. Outside("kernel") => Clean("handler")
      BY <2>1 DEF Outside, KernelNeeds, Clean
    <3>2. QED
      BY <1>6, <3>1, CleanStep
  <2>5. ~raced => Outside("kernel")
    BY <1>4, <1>6, TheContexts
  <2>6. Clean("handler")' /\ Outside("kernel") /\ Outside("handler")' => Clean("kernel")'
    BY <2>2 DEF Clean, Outside
  <2>7. QED
    BY <1>1, <1>3, <1>6, <2>2, <2>3, <2>4, <2>5, <2>6 DEF CursorInv, TermTypes
<1>7. CASE c = "panic"
  <2>1. KernelKeeps'
    BY <1>2, <1>7, TheContexts DEF CursorInv, KernelKeeps
  <2>2. Outside("kernel") /\ Outside("handler") => Clean("panic")' /\ wild' = wild
    BY <1>7, CleanStep DEF CursorInv
  <2>3. /\ Outside("kernel")' = Outside("kernel") /\ Outside("handler")' = Outside("handler")
        /\ ~raced => Outside("kernel") /\ Outside("handler")
    BY <1>2, <1>4, <1>7, TheContexts
  <2>4. QED
    BY <1>1, <1>3, <1>7, <2>1, <2>2, <2>3 DEF CursorInv, TermTypes
<1>8. QED
  BY <1>5, <1>6, <1>7, TheContexts

(* The running context goes on with its call of printk.                      *)
LEMMA CallKeeps ==
    ASSUME HealInv, NEW c \in Contexts, c = Running, ~Silent(c), UNCHANGED interruptVars,
           NEW at \in Calls, NEW txt, NEW n, NEW len, NEW con, Called(c, at, txt, n, len, con),
           at # "write" => Outside(c)',
           \A d \in Contexts : d # c => Outside(d)' = Outside(d)
    PROVE  CallTypes' /\ StackInv' /\ PrintInv'
<1>1. CallTypes' /\ call'[c].at = at
  BY CalledTypes DEF HealInv
<1>2. /\ running' = running /\ flag' = flag /\ handled' = handled /\ raced' = raced
  BY DEF interruptVars, frame, ghosts
<1>3. \A d \in Contexts : d # c => call'[d] = call[d] /\ Silent(d)' = Silent(d)
  BY DEF Called, Silent
<1>4. PrintInv'
  <2>1. \A d \in Contexts : call'[d].at # "write" => Outside(d)'
    BY <1>1, <1>3 DEF HealInv, PrintInv
  <2>2. ~raced => \A d, e \in Contexts : ~Silent(d)' /\ ~Silent(e)' => d = e
    BY <1>3 DEF HealInv, PrintInv
  <2>3. QED
    BY <1>2, <2>1, <2>2 DEF PrintInv
<1>5. StackInv'
  <2>1. /\ c = "kernel" => running = <<"kernel">>
        /\ c = "handler" => running = <<"handler", "kernel">>
        /\ c = "panic" => running \in {<<"panic", "kernel">>, <<"panic", "handler", "kernel">>}
    BY Stacks DEF HealInv
  <2>2. CASE c = "kernel"
    BY <1>2, <1>3, <2>1, <2>2, TheContexts DEF HealInv, StackInv
  <2>3. CASE c = "handler"
    BY <1>2, <1>3, <2>1, <2>3, TheContexts DEF HealInv, StackInv
  <2>4. CASE c = "panic"
    BY <1>2, <1>3, <2>1, <2>4, TheContexts DEF HealInv, StackInv
  <2>5. QED
    BY <2>2, <2>3, <2>4, TheContexts
<1>6. QED
  BY <1>1, <1>4, <1>5

LEMMA PrintingHeals ==
    ASSUME HealInv, Printing
    PROVE  HealInv'
<1>1. PICK c \in Contexts : c = Running /\ PrintStep(c)
  BY DEF Printing
<1>2. UNCHANGED interruptVars /\ running' = running /\ raced' = raced
  BY DEF Printing, interruptVars, ghosts
<1>3. TermTypes /\ CallTypes /\ StackInv /\ PrintInv /\ CursorInv /\ (wild => raced)
  BY DEF HealInv
<1>4. raced \in BOOLEAN
  BY <1>3 DEF TermTypes
<1>5. ASSUME UNCHANGED termVars, NEW at \in Calls, NEW txt, NEW n, NEW len, NEW con,
             Called(c, at, txt, n, len, con), call[c].at # "none",
             at # "write" => Outside(c)
      PROVE  HealInv'
  <2>1. \A d : Outside(d)' = Outside(d)
    BY <1>5, TermUnchanged
  <2>2. CallTypes' /\ StackInv' /\ PrintInv'
    BY <1>1, <1>2, <1>5, <2>1, CallKeeps DEF Silent
  <2>3. TermTypes' /\ CursorInv' /\ (wild' => raced')
    BY <1>2, <1>3, <1>4, <1>5, CursorSame
  <2>4. QED
    BY <2>2, <2>3 DEF HealInv
<1>6. call[c].at # "write" => Outside(c)
  BY <1>3 DEF PrintInv
<1>7. CASE Format(c)
  <2>1. /\ call[c].at = "format" /\ UNCHANGED termVars
        /\ \/ Called(c, "format", call[c].text, call[c].n + 1, call[c].len, call[c].con)
           \/ Called(c, "console", <<>>, 1, 0, 1)
    BY <1>3, <1>7, FormatEffect
  <2>2. QED
    BY <1>5, <1>6, <2>1 DEF Calls
<1>8. CASE NextConsole(c)
  <2>1. /\ call[c].at = "console" /\ UNCHANGED termVars
        /\ \/ Called(c, "none", <<>>, 1, 0, 0)
           \/ Called(c, "write", call[c].text, 1, strlen(Data(c)), call[c].con)
    BY <1>3, <1>8, NextEffect
  <2>2. QED
    BY <1>5, <1>6, <2>1 DEF Calls
<1>9. CASE WriteDone(c)
  <2>1. /\ call[c].at = "write" /\ Outside(c) /\ UNCHANGED termVars
        /\ Called(c, "console", call[c].text, call[c].n, call[c].len, call[c].con + 1)
    BY <1>3, <1>9, DoneEffect
  <2>2. QED
    BY <1>5, <2>1 DEF Calls
<1>10. CASE write_serial(c)
  <2>1. /\ call[c].at = "write" /\ UNCHANGED termVars
        /\ Called(c, "write", call[c].text, call[c].n + 1, call[c].len, call[c].con)
    BY <1>3, <1>10, CountEffect DEF write_serial
  <2>2. QED
    BY <1>5, <2>1 DEF Calls
<1>11. CASE vgaterm_writestring(c) \/ Putting(c)
  <2>1. CharStep(c) /\ ~Silent(c)
    <3>1. CASE vgaterm_writestring(c)
      BY <1>3, <3>1, LoadEffect DEF vgaterm_writestring, CharStep, Silent
    <3>2. CASE Putting(c)
      <4>1. PutcharStep(c)
        BY <3>2 DEF Putting
      <4>2. ~Outside(c)
        BY <4>1 DEF PutcharStep, terminal_putentryat, Advance, Column0, Down, Test,
             terminal_scroll, ClearLast, Home, Display, terminal_update_cursor, Outside
      <4>3. QED
        BY <1>3, <1>6, <4>1, <4>2, PutcharEffect DEF Silent
    <3>3. QED
      BY <1>11, <3>1, <3>2
  <2>2. TermTypes' /\ CursorInv' /\ (wild' => raced')
    BY <1>1, <1>2, <1>3, <2>1, CharHeals
  <2>3. call[c].at = "write" /\ \E n : Called(c, "write", call[c].text, n, call[c].len, call[c].con)
    <3>1. CASE vgaterm_writestring(c)
      BY <1>3, <3>1, CountEffect DEF vgaterm_writestring
    <3>2. CASE Putting(c)
      <4>1. call' = call
        BY <3>2 DEF Putting, consoleVars
      <4>2. ~Outside(c)
        BY <3>2 DEF Putting, PutcharStep, terminal_putentryat, Advance, Column0, Down, Test,
             terminal_scroll, ClearLast, Home, Display, terminal_update_cursor, Outside
      <4>3. call[c].at = "write"
        BY <1>6, <4>2
      <4>4. Called(c, "write", call[c].text, call[c].n, call[c].len, call[c].con)
        BY <1>3, <4>1, <4>3 DEF Called, CallTypes
      <4>5. QED
        BY <4>3, <4>4
    <3>3. QED
      BY <1>11, <3>1, <3>2
  <2>4. \A d \in Contexts : d # c => Outside(d)' = Outside(d)
    BY <2>1 DEF CharStep, LoadStep, EntryStep, AdvanceStep, ColumnStep, DownStep, TestStep,
           ScrollStep, ClearStep, HomeStep, DisplayStep, CursorStep, Moved, Outside
  <2>5. CallTypes' /\ StackInv' /\ PrintInv'
    <3>1. PICK n : Called(c, "write", call[c].text, n, call[c].len, call[c].con)
      BY <2>3
    <3>2. "write" \in Calls
      BY DEF Calls
    <3>3. QED
      BY <1>1, <1>2, <2>1, <2>4, <3>1, <3>2, CallKeeps
  <2>6. QED
    BY <2>2, <2>5 DEF HealInv
<1>12. QED
  BY <1>1, <1>7, <1>8, <1>9, <1>10, <1>11 DEF PrintStep

(* A context starts to print.                                              *)
LEMMA PrintkEffect ==
    ASSUME CallTypes, NEW c \in Contexts, NEW new, CallPrintk(c, new)
    PROVE  /\ Called(c, "format", new, 1, 0, 0)
           /\ UNCHANGED <<cons, buf, sent, termVars>>
           /\ raced' = (raced \/ \E d \in Contexts \ {c} : ~Silent(d))
           /\ text' = IF raced' THEN <<>> ELSE text \o new
<1>1. call' = [call EXCEPT ![c] = [NoCall EXCEPT !.at = "format", !.text = new]]
  BY DEF CallPrintk, printk
<1>2. call' = [call EXCEPT ![c] = [at |-> "format", text |-> new, n |-> 1, len |-> 0, con |-> 0]]
  BY <1>1, NoCallRecords
<1>3. Called(c, "format", new, 1, 0, 0)
  BY <1>2, CallUpdates DEF Called
<1>4. QED
  BY <1>3 DEF CallPrintk

LEMMA PrintkHeals ==
    ASSUME HealInv, NEW c \in Contexts, NEW new, CallPrintk(c, new), flag' \in BOOLEAN,
           Silent(c),
           \/ /\ c = "kernel" /\ running = <<"kernel">> /\ running' = running
           \/ /\ c = "handler" /\ running = <<"handler", "kernel">> /\ running' = running
              /\ flag' = flag /\ handled'
           \/ /\ c = "panic" /\ flag' = FALSE
              /\ \/ running = <<"kernel">> /\ running' = <<"panic", "kernel">>
                 \/ /\ running = <<"handler", "kernel">>
                    /\ running' = <<"panic", "handler", "kernel">>
                 \/ running \in PanicStacks /\ running' = running
    PROVE  HealInv'
<1>1. /\ TermTypes /\ CallTypes /\ StackInv /\ PrintInv /\ CursorInv /\ (wild => raced)
  BY DEF HealInv
<1>2. /\ Called(c, "format", new, 1, 0, 0) /\ UNCHANGED termVars
      /\ raced' = (raced \/ \E d \in Contexts \ {c} : ~Silent(d))
  BY <1>1, PrintkEffect
<1>3. raced' \in BOOLEAN /\ (raced => raced')
  BY <1>1, <1>2 DEF TermTypes
<1>4. TermTypes' /\ CursorInv' /\ (wild' => raced')
  BY <1>1, <1>2, <1>3, CursorSame
<1>5. CallTypes' /\ call'[c].at = "format"
  <2>1. "format" \in Calls
    BY DEF Calls
  <2>2. QED
    BY <1>1, <1>2, <2>1, CalledTypes
<1>6. /\ \A d : Outside(d)' = Outside(d)
      /\ \A d \in Contexts : d # c => call'[d] = call[d] /\ Silent(d)' = Silent(d)
  BY <1>2, TermUnchanged DEF Called, Silent
<1>7. PrintInv'
  <2>1. Outside(c)
    BY <1>1 DEF PrintInv, Silent
  <2>2. \A d \in Contexts : call'[d].at # "write" => Outside(d)'
    BY <1>1, <1>6, <2>1 DEF PrintInv
  <2>3. ~raced' => \A d, e \in Contexts : ~Silent(d)' /\ ~Silent(e)' => d = e
    BY <1>2, <1>6
  <2>4. QED
    BY <2>2, <2>3 DEF PrintInv
<1>8. StackInv'
  BY <1>1, <1>6, TheContexts DEF StackInv, PanicStacks
<1>9. QED
  BY <1>4, <1>5, <1>7, <1>8 DEF HealInv

(* Steps that neither print nor start to.                                  *)
LEMMA QuietHeals ==
    ASSUME HealInv, UNCHANGED <<call, termVars>>, raced' = raced, flag' \in BOOLEAN,
           \/ running' = running /\ handled' = handled /\ (flag' => running = <<"kernel">>)
           \/ /\ running = <<"kernel">> /\ running' = <<"handler", "kernel">>
              /\ flag' = FALSE
           \/ /\ running = <<"handler", "kernel">> /\ running' = <<"kernel">>
              /\ Silent("handler")
           \/ /\ running \in {<<"kernel">>, <<"handler", "kernel">>} \cup PanicStacks
              /\ running' = <<"reset">> /\ flag' = FALSE
    PROVE  HealInv'
<1>1. /\ TermTypes /\ CallTypes /\ StackInv /\ PrintInv /\ CursorInv /\ (wild => raced)
  BY DEF HealInv
<1>2. raced' \in BOOLEAN
  BY <1>1 DEF TermTypes
<1>3. TermTypes' /\ CursorInv' /\ (wild' => raced')
  BY <1>1, <1>2, CursorSame
<1>4. \A d : Outside(d)' = Outside(d) /\ Silent(d)' = Silent(d)
  BY TermUnchanged DEF Silent
<1>5. CallTypes' /\ PrintInv'
  BY <1>1, <1>4 DEF CallTypes, PrintInv
<1>6. StackInv'
  BY <1>1, <1>4 DEF StackInv
<1>7. QED
  BY <1>3, <1>5, <1>6 DEF HealInv

LEMMA OnTop ==
    ASSUME NEW a, NEW b, NEW c
    PROVE  <<a>> \o <<b>> = <<a, b>> /\ <<a>> \o <<b, c>> = <<a, b, c>> /\ Tail(<<a, b>>) = <<b>>
<1> DEFINE s == <<a>> \o <<b>>
           t == <<a>> \o <<b, c>>
           S == {a, b, c}
<1>1. /\ <<a>> \in Seq(S) /\ <<b>> \in Seq(S) /\ <<b, c>> \in Seq(S)
      /\ Len(<<a>>) = 1 /\ Len(<<b>>) = 1 /\ Len(<<b, c>>) = 2
  OBVIOUS
<1>2. s \in Seq(S) /\ Len(s) = 2 /\ s[1] = a /\ s[2] = b
  BY <1>1, ConcatProperties
<1>3. t \in Seq(S) /\ Len(t) = 3 /\ t[1] = a /\ t[2] = b /\ t[3] = c
  BY <1>1, ConcatProperties
<1> HIDE DEF s, t
<1>4. s = <<a, b>> /\ t = <<a, b, c>>
  BY <1>2, <1>3
<1>5. QED
  BY <1>4 DEF s, t

LEMMA PanicHeals ==
    ASSUME HealInv, panic, flag' = FALSE, Running \in {"kernel", "handler"} \/ Walking
    PROVE  HealInv'
<1>1. CallPrintk("panic", PanicText)
  BY DEF panic
<1>2. CASE Running \in {"kernel", "handler"}
  <2>1. running \in {<<"kernel">>, <<"handler", "kernel">>}
    BY <1>2, Stacks DEF HealInv
  <2>2. running' = <<"panic">> \o running
    BY <1>2 DEF panic
  <2>3. \/ running = <<"kernel">> /\ running' = <<"panic", "kernel">>
        \/ running = <<"handler", "kernel">> /\ running' = <<"panic", "handler", "kernel">>
    BY <2>1, <2>2, OnTop, ZenonT(60)
  <2>4. Silent("panic")
    BY <2>1 DEF HealInv, StackInv
  <2>5. QED
    BY <1>1, <2>3, <2>4, PrintkHeals, TheContexts
<1>3. CASE Walking
  <2>1. running \in PanicStacks /\ running' = running /\ Silent("panic")
    BY <1>3, Stacks DEF Walking, panic, HealInv, PanicStacks
  <2>2. QED
    BY <1>1, <2>1, PrintkHeals, TheContexts
<1>4. QED
  BY <1>2, <1>3

LEMMA HealNext == HealInv /\ [Next]_vars => HealInv'
<1> SUFFICES ASSUME HealInv, [Next]_vars PROVE HealInv'
  OBVIOUS
<1>1. flag \in BOOLEAN /\ (flag => running = <<"kernel">>)
  BY DEF HealInv, StackInv
<1>2. ASSUME NEW f, Start(f) PROVE HealInv'
  <2>1. /\ UNCHANGED <<call, termVars>> /\ raced' = raced /\ flag' = flag
        /\ running' = running /\ handled' = handled
    BY <1>2 DEF Start, frame, ghosts
  <2>2. QED
    BY <1>1, <2>1, QuietHeals
<1>3. CASE idt_init \/ isrs_init \/ irqs_init \/ timer_init \/ init_serial
  BY <1>2, <1>3 DEF idt_init, isrs_init, irqs_init, timer_init, init_serial
<1>4. CASE enable_interrupts
  <2>1. /\ UNCHANGED <<call, termVars>> /\ raced' = raced /\ flag' = TRUE
        /\ running = <<"kernel">> /\ running' = running /\ handled' = handled
    BY <1>4 DEF enable_interrupts, InKernel, frame, ghosts, consoleVars
  <2>2. QED
    BY <2>1, QuietHeals
<1>5. ASSUME NEW t \in Texts, KernelPrints(t) PROVE HealInv'
  <2>1. /\ CallPrintk("kernel", t) /\ running = <<"kernel">> /\ running' = running
        /\ Silent("kernel") /\ flag' = flag
    BY <1>5 DEF KernelPrints, InKernel
  <2>2. QED
    BY <1>1, <2>1, PrintkHeals, TheContexts
<1>6. CASE greybox
  <2>1. /\ call' = [call EXCEPT !["kernel"] = [NoCall EXCEPT !.at = "console", !.text = Box, !.con = 1]]
        /\ UNCHANGED termVars /\ raced' = raced /\ flag' = flag /\ handled' = handled
        /\ running = <<"kernel">> /\ running' = running /\ Silent("kernel")
    BY <1>6 DEF greybox, console_writestring, InKernel, frame
  <2>2. /\ TermTypes /\ CallTypes /\ StackInv /\ PrintInv /\ CursorInv /\ (wild => raced)
    BY DEF HealInv
  <2>3. Called("kernel", "console", Box, 1, 0, 1)
    <3>1. call' = [call EXCEPT !["kernel"] =
                      [at |-> "console", text |-> Box, n |-> 1, len |-> 0, con |-> 1]]
      BY <2>1, NoCallRecords
    <3>2. QED
      BY <2>2, <3>1, CallUpdates, TheContexts DEF Called
  <2>4. CallTypes' /\ call'["kernel"].at = "console"
    <3>1. "console" \in Calls
      BY DEF Calls
    <3>2. QED
      BY <2>2, <2>3, <3>1, CalledTypes, TheContexts
  <2>5. TermTypes' /\ CursorInv' /\ (wild' => raced')
    <3>1. raced' \in BOOLEAN
      BY <2>1, <2>2 DEF TermTypes
    <3>2. QED
      BY <2>1, <2>2, <3>1, CursorSame
  <2>6. /\ \A d : Outside(d)' = Outside(d)
        /\ \A d \in Contexts : d # "kernel" => call'[d] = call[d] /\ Silent(d)' = Silent(d)
    BY <2>1, <2>3, TermUnchanged DEF Called, Silent
  <2>7. Silent("handler") /\ Silent("panic")
    BY <2>1, <2>2 DEF StackInv
  <2>8. PrintInv'
    <3>1. Outside("kernel")
      BY <2>1, <2>2, TheContexts DEF PrintInv, Silent
    <3>2. \A d \in Contexts : call'[d].at # "write" => Outside(d)'
      BY <2>2, <2>6, <3>1 DEF PrintInv
    <3>3. \A d \in Contexts : ~Silent(d)' => d = "kernel"
      BY <2>6, <2>7, TheContexts
    <3>4. QED
      BY <3>2, <3>3 DEF PrintInv
  <2>9. StackInv'
    BY <2>1, <2>2, <2>6, TheContexts DEF StackInv
  <2>10. QED
    BY <2>4, <2>5, <2>8, <2>9 DEF HealInv
<1>7. CASE irq_handler
  <2>1. running = <<"handler", "kernel">> /\ ~handled /\ Silent("handler")
    BY <1>7, Stacks DEF irq_handler, HealInv, StackInv
  <2>2. CASE panic /\ UNCHANGED flag
    <3>1. flag' = FALSE
      BY <1>1, <2>1, <2>2
    <3>2. QED
      BY <1>7, <2>2, <3>1, PanicHeals DEF irq_handler
  <2>3. CASE (\E new : CallPrintk("handler", new)) /\ ~(panic /\ UNCHANGED <<flag, raised>>)
    <3>1. PICK new : CallPrintk("handler", new)
      BY <2>3
    <3>2. running' = running /\ flag' = flag /\ handled'
      BY <1>7, <2>3 DEF irq_handler
    <3>3. QED
      BY <1>1, <2>1, <3>1, <3>2, PrintkHeals, TheContexts
  <2>4. CASE UNCHANGED <<consoleVars, termVars, text, raced>> /\ ~(panic /\ UNCHANGED <<flag, raised>>)
    <3>1. /\ UNCHANGED <<call, termVars>> /\ raced' = raced /\ flag' = flag
          /\ running' = running /\ handled'
      BY <1>7, <2>4 DEF irq_handler, consoleVars
    <3>2. /\ TermTypes /\ CallTypes /\ StackInv /\ PrintInv /\ CursorInv /\ (wild => raced)
          /\ raced' \in BOOLEAN
      BY <3>1 DEF HealInv, TermTypes
    <3>3. TermTypes' /\ CursorInv' /\ (wild' => raced')
      BY <3>1, <3>2, CursorSame
    <3>4. \A d : Outside(d)' = Outside(d) /\ Silent(d)' = Silent(d)
      BY <3>1, TermUnchanged DEF Silent
    <3>5. CallTypes' /\ PrintInv' /\ StackInv'
      BY <3>1, <3>2, <3>4 DEF CallTypes, PrintInv, StackInv
    <3>6. QED
      BY <3>3, <3>5 DEF HealInv
  <2>5. QED
    BY <1>7, <2>2, <2>3, <2>4 DEF irq_handler, kernel_tick
<1>8. CASE IrqDone
  <2>1. /\ UNCHANGED <<call, termVars>> /\ raced' = raced /\ flag' = TRUE
        /\ running = <<"handler", "kernel">> /\ running' = <<"kernel">>
        /\ Silent("handler")
    BY <1>8, Stacks, OnTop DEF IrqDone, HealInv, ghosts, consoleVars
  <2>2. QED
    BY <2>1, QuietHeals
<1>9. CASE Printing
  BY <1>9, PrintingHeals
<1>10. ASSUME NEW i \in Lines, Interrupt(i) PROVE HealInv'
  <2>1. /\ UNCHANGED <<call, termVars>> /\ raced' = raced /\ flag' = FALSE
        /\ running = <<"kernel">>
        /\ running' \in {<<"handler", "kernel">>, <<"reset">>}
    BY <1>1, <1>10, OnTop DEF Interrupt, ghosts, consoleVars
  <2>2. QED
    BY <2>1, QuietHeals
<1>11. ASSUME NEW i \in Lines, Raise(i) PROVE HealInv'
  <2>1. /\ UNCHANGED <<call, termVars>> /\ raced' = raced /\ flag' = flag
        /\ running' = running /\ handled' = handled
    BY <1>11 DEF Raise, ghosts, consoleVars, frame
  <2>2. QED
    BY <1>1, <2>1, QuietHeals
<1>12. ASSUME NEW v \in Exceptions, fault_handler(v) PROVE HealInv'
  <2>1. flag' = FALSE /\ (Running \in {"kernel", "handler"} \/ Walking)
    BY <1>12 DEF fault_handler
  <2>2. CASE panic
    BY <2>1, <2>2, PanicHeals
  <2>3. CASE ~panic
    <3>1. /\ UNCHANGED <<call, termVars>> /\ raced' = raced /\ running' = <<"reset">>
      BY <1>12, <2>3 DEF fault_handler, consoleVars
    <3>2. running \in {<<"kernel">>, <<"handler", "kernel">>} \cup PanicStacks
      BY <2>1, Stacks DEF HealInv, Walking, PanicStacks
    <3>3. QED
      BY <2>1, <3>1, <3>2, QuietHeals
  <2>4. QED
    BY <2>2, <2>3
<1>13. CASE KernelPanics
  <2>1. Running = "kernel" /\ panic /\ flag' = FALSE
    BY <1>1, <1>13, Stacks DEF KernelPanics, InKernel, HealInv
  <2>2. QED
    BY <2>1, PanicHeals
<1>14. CASE SoLong
  <2>1. /\ running \in PanicStacks /\ running' = running /\ Silent("panic")
        /\ CallPrintk("panic", FarewellText)
    BY <1>14, Stacks DEF SoLong, Walking, HealInv, PanicStacks
  <2>2. flag' = FALSE
    BY <1>1, <1>14, <2>1 DEF SoLong, PanicStacks
  <2>3. QED
    BY <2>1, <2>2, PrintkHeals, TheContexts
<1>15. CASE die
  <2>1. /\ UNCHANGED <<call, termVars>> /\ raced' = raced /\ flag' = FALSE
        /\ running' = running /\ handled' = handled
    BY <1>15 DEF die, ghosts, consoleVars, frame
  <2>2. QED
    BY <2>1, QuietHeals
<1>16. CASE Halted \/ UNCHANGED vars
  <2>1. /\ UNCHANGED <<call, termVars>> /\ raced' = raced /\ flag' = flag
        /\ running' = running /\ handled' = handled
    BY <1>16 DEF Halted, vars, interruptVars, ghosts, consoleVars, frame
  <2>2. QED
    BY <1>1, <2>1, QuietHeals
<1>17. QED
  BY <1>3, <1>4, <1>5, <1>6, <1>7, <1>8, <1>9, <1>10, <1>11, <1>12, <1>13, <1>14, <1>15, <1>16
     DEF Next, Execute, Accept

LEMMA HealInit == Init => HealInv
<1> SUFFICES ASSUME Init PROVE HealInv
  OBVIOUS
<1>1. TermTypes
  <2>1. putchar = [c \in Contexts |-> [at |-> "out", char |-> Blank, x |-> 0, y |-> 0]]
    BY DEF Init, ConsoleInit, vgaterm_init
  <2>2. /\ term_cursor_x = 0 /\ term_cursor_y = 0 /\ wild = FALSE /\ raced = FALSE
    BY DEF Init, ConsoleInit, vgaterm_init
  <2>3. \A c \in Contexts : putchar[c] = [at |-> "out", char |-> Blank, x |-> 0, y |-> 0]
    BY <2>1
  <2>4. /\ putchar = [c \in Contexts |-> putchar[c]]
        /\ \A c \in Contexts :
              /\ putchar[c].at = "out" /\ putchar[c].char = Blank
              /\ putchar[c].x = 0 /\ putchar[c].y = 0
    BY <2>1, <2>3
  <2>5. wild \in BOOLEAN /\ raced \in BOOLEAN
    BY <2>2, Zenon
  <2>6. term_cursor_x \in Nat /\ term_cursor_y \in Nat
    BY <2>2
  <2>7. \A c \in Contexts :
          /\ putchar[c] = [at |-> putchar[c].at, char |-> putchar[c].char,
                           x |-> putchar[c].x, y |-> putchar[c].y]
          /\ putchar[c].at \in Steps
          /\ putchar[c].x \in Nat /\ putchar[c].y \in Int
          /\ putchar[c].at \notin {"clear", "home"} => putchar[c].y \in Nat
    BY <2>3, <2>4 DEF Steps
  <2>8. QED
    BY <2>4, <2>5, <2>6, <2>7 DEF TermTypes
<1>2. CallTypes /\ \A c \in Contexts : Silent(c)
  BY DEF Init, ConsoleInit, CallTypes, NoCall, Calls, Silent
<1>3. StackInv
  BY <1>2, TheContexts DEF Init, StackInv
<1>4. \A c \in Contexts : Outside(c)
  BY DEF Init, ConsoleInit, vgaterm_init, Outside
<1>5. PrintInv
  BY <1>2, <1>4 DEF PrintInv
<1>6. CursorInv
  <2>1. Running = "kernel" /\ Outside("kernel") /\ OnScreen
    BY <1>4, TheContexts, ScreenSizes
       DEF Init, ConsoleInit, vgaterm_init, Running, OnScreen
  <2>2. QED
    BY <2>1 DEF CursorInv, KernelKeeps, KernelNeeds, Clean, Outside, OnScreen
<1>7. QED
  BY <1>1, <1>2, <1>3, <1>5, <1>6 DEF HealInv, Init, ConsoleInit, vgaterm_init

LEMMA HealInvAlways == Spec => []HealInv
BY HealInit, HealNext, PTL DEF Spec

(* Wherever a handler comes into a print, once every character is done and *)
(* unless one was stored past the back buffer, the cursor is on the screen *)
(* again; and no store misses the back buffer unless two prints overlap    *)
(* (vgaterm_putchar, arch/x86/vgaterm.c).                                  *)
THEOREM RacesHealAlways == Spec => []RacesHeal
<1>1. HealInv => RacesHeal
  <2> SUFFICES ASSUME HealInv, \A c \in Contexts : Outside(c)
               PROVE  OnScreen
    BY DEF HealInv, RacesHeal, OnScreen
  <2>1. Outside("kernel") /\ Outside("handler") /\ Outside("panic")
    BY TheContexts
  <2>2. Running \in {"kernel", "handler", "panic", "reset"}
    BY Stacks DEF HealInv, StackInv
  <2>3. QED
    BY <2>1, <2>2 DEF HealInv, CursorInv, KernelNeeds, Clean, OnScreen, Outside
<1>2. QED
  BY <1>1, HealInvAlways, PTL

-----------------------------------------------------------------------------
(* The text of a call                                                      *)

(* A string that fits into printk's buffer.                                *)
Fits(t) == t \in Seq(Range(t)) /\ NUL \notin Range(t) /\ Len(t) < BufSize

(* The call of context c prints t, which no one else disturbs: as far as   *)
(* it is formatted it is in the buffer, then all of it, unless it is read  *)
(* where it is; and the consoles are given its length.                     *)
Prints(c, t) ==
    LET r == call[c]
    IN  /\ Fits(t)
        /\ r.at = "format" =>
              /\ r.text = t /\ r.n \in 1 .. (Len(t) + 1)
              /\ \A i \in 1 .. (r.n - 1) : buf[i] = t[i]
        /\ r.at \in {"console", "write"} =>
              \/ r.text = t /\ t # <<>>
              \/ r.text = <<>> /\ buf[Len(t) + 1] = NUL /\ \A i \in 1 .. Len(t) : buf[i] = t[i]
        /\ r.at = "console" => r.con \in 1 .. (Len(cons) + 1)
        /\ r.at = "write" =>
              /\ r.con \in 1 .. Len(cons)
              /\ r.len = Len(t) /\ r.n \in 1 .. (Len(t) + 1)

ConsoleTypes ==
    /\ cons \in Seq({"vga", "serial"}) /\ cons # <<>>
    /\ buf = [n \in 1 .. BufSize |-> buf[n]]
    /\ \E S : sent \in Seq(S)

(* The first n characters of a text are the last that were sent.           *)
SentEnds(t, n) ==
    /\ Len(sent) >= n
    /\ \A i \in 1 .. n : sent[Len(sent) - n + i] = t[i]

(* The serial console that is registered last has got what panic has       *)
(* written to it of the text t.                                            *)
PanicPrinted(t) ==
    LET r == call["panic"]
    IN  Running = "panic" =>
          /\ Prints("panic", t)
          /\ cons[Len(cons)] = "serial" =>
                /\ r.at = "none" => SentEnds(t, Len(t))
                /\ r.at = "console" /\ r.con = Len(cons) + 1 => SentEnds(t, Len(t))
                /\ r.at = "write" /\ r.con = Len(cons) =>
                      \A k \in Nat : r.n = k + 1 => SentEnds(t, k)

PanicInv == PanicPrinted(PanicSaid)

SentInv == HealInv /\ ConsoleTypes /\ PanicInv

LEMMA TextsFit ==
    /\ \A t \in Texts : Fits(t)
    /\ Fits(Box) /\ Fits(UnhandledText) /\ Fits(<<".">>)
    /\ Fits(PanicText) /\ Fits(FarewellText) /\ Fits(PanicSaid)
BY InterruptAssumption DEF Fits, PanicSaid

LEMMA FitsFacts ==
    ASSUME NEW t, Fits(t)
    PROVE  /\ Len(t) \in Nat /\ DOMAIN t = 1 .. Len(t)
           /\ \A i \in 1 .. Len(t) : t[i] # NUL
           /\ BufSize \in Nat /\ Len(t) + 1 \in 1 .. BufSize
<1>1. t \in Seq(Range(t)) /\ NUL \notin Range(t) /\ Len(t) < BufSize
  BY DEF Fits
<1>2. Len(t) \in Nat /\ DOMAIN t = 1 .. Len(t)
  BY <1>1, LenProperties
<1>3. \A i \in 1 .. Len(t) : t[i] \in Range(t)
  BY <1>1, ElementOfSeq
<1>4. QED
  BY <1>1, <1>2, <1>3, BufAssumption

LEMMA StrlenIs ==
    ASSUME NEW str, NEW l \in Nat, DOMAIN str \subseteq Nat \ {0}, l + 1 \in DOMAIN str,
           str[l + 1] = NUL, \A i \in 1 .. l : str[i] # NUL
    PROVE  strlen(str) = l
<1> DEFINE Z == {n \in DOMAIN str : str[n] = NUL}
<1>1. Z \subseteq Nat /\ l + 1 \in Z /\ \A n \in Z : l + 1 <= n
  OBVIOUS
<1> HIDE DEF Z
<1>2. Min(Z) = l + 1
  <2>1. \E x \in Z : \A y \in Z : x =< y
    BY <1>1
  <2>2. Min(Z) \in Z /\ \A y \in Z : Min(Z) =< y
    BY <2>1 DEF Min
  <2>3. PICK m : m = Min(Z)
    OBVIOUS
  <2>4. m \in Nat /\ m <= l + 1 /\ l + 1 <= m
    BY <1>1, <2>2, <2>3
  <2>5. QED
    BY <2>3, <2>4
<1>3. QED
  BY <1>2 DEF strlen, Z

(* What a console is given is the text.                                    *)
LEMMA DataIs ==
    ASSUME ConsoleTypes, NEW c \in Contexts, NEW t, Prints(c, t),
           call[c].at \in {"console", "write"}
    PROVE  strlen(Data(c)) = Len(t) /\ \A i \in 1 .. Len(t) : Data(c)[i] = t[i]
<1>1. /\ Len(t) \in Nat /\ DOMAIN t = 1 .. Len(t)
      /\ \A i \in 1 .. Len(t) : t[i] # NUL
      /\ BufSize \in Nat /\ Len(t) + 1 \in 1 .. BufSize
      /\ t \in Seq(Range(t))
  BY FitsFacts DEF Prints, Fits
<1>2. CASE call[c].text = t /\ t # <<>>
  <2>1. Data(c) = Append(t, NUL)
    BY <1>2 DEF Data
  <2>2. /\ DOMAIN Append(t, NUL) = 1 .. (Len(t) + 1)
        /\ Append(t, NUL)[Len(t) + 1] = NUL
        /\ \A i \in 1 .. Len(t) : Append(t, NUL)[i] = t[i]
    <3>1. t \in Seq(Range(t) \cup {NUL}) /\ NUL \in Range(t) \cup {NUL}
      BY <1>1, SeqMonotonic
    <3>2. QED
      BY <3>1
  <2>3. PICK str : str = Append(t, NUL)
    OBVIOUS
  <2>4. /\ DOMAIN str = 1 .. (Len(t) + 1) /\ str[Len(t) + 1] = NUL
        /\ \A i \in 1 .. Len(t) : str[i] = t[i]
    BY <2>2, <2>3
  <2>5. strlen(str) = Len(t)
    BY <1>1, <2>4, StrlenIs
  <2>6. QED
    BY <2>1, <2>3, <2>4, <2>5
<1>3. CASE /\ call[c].text = <<>> /\ buf[Len(t) + 1] = NUL
           /\ \A i \in 1 .. Len(t) : buf[i] = t[i]
  <2>1. Data(c) = buf /\ DOMAIN buf = 1 .. BufSize
    BY <1>3 DEF Data, ConsoleTypes
  <2>2. strlen(buf) = Len(t)
    BY <1>1, <1>3, <2>1, StrlenIs
  <2>3. QED
    BY <1>3, <2>1, <2>2
<1>4. QED
  BY <1>2, <1>3 DEF Prints

(* The parts of a call that the terminal and the serial port do not touch. *)
LEMMA PrintsStep ==
    ASSUME CallTypes, ConsoleTypes, NEW c \in Contexts, NEW t, Prints(c, t), PrintStep(c)
    PROVE  Prints(c, t)'
<1>1. /\ Len(t) \in Nat /\ DOMAIN t = 1 .. Len(t) /\ Fits(t)
      /\ BufSize \in Nat /\ Len(t) + 1 \in 1 .. BufSize
      /\ Len(cons) \in Nat /\ DOMAIN buf = 1 .. BufSize
  BY FitsFacts DEF Prints, ConsoleTypes
<1>2. CASE Format(c)
  <2>1. /\ call[c].at = "format" /\ cons' = cons
        /\ \/ /\ call[c].n <= Len(call[c].text)
              /\ buf' = [buf EXCEPT ![call[c].n] = call[c].text[call[c].n]]
              /\ Called(c, "format", call[c].text, call[c].n + 1, call[c].len, call[c].con)
           \/ /\ ~(call[c].n <= Len(call[c].text))
              /\ buf' = [buf EXCEPT ![call[c].n] = NUL]
              /\ Called(c, "console", <<>>, 1, 0, 1)
    BY <1>2, FormatEffect
  <2>2. /\ call[c].text = t /\ call[c].n \in 1 .. (Len(t) + 1)
        /\ \A i \in 1 .. (call[c].n - 1) : buf[i] = t[i]
    BY <2>1 DEF Prints
  <2>3. CASE /\ call[c].n <= Len(call[c].text)
             /\ buf' = [buf EXCEPT ![call[c].n] = call[c].text[call[c].n]]
             /\ Called(c, "format", call[c].text, call[c].n + 1, call[c].len, call[c].con)
    <3>1. /\ call'[c].at = "format" /\ call'[c].text = t /\ call'[c].n = call[c].n + 1
      BY <2>2, <2>3 DEF Called
    <3>2. \A i \in 1 .. call[c].n : buf'[i] = t[i]
      BY <1>1, <2>2, <2>3
    <3>3. call[c].n + 1 \in 1 .. (Len(t) + 1) /\ (call[c].n + 1) - 1 = call[c].n
      BY <1>1, <2>2, <2>3
    <3>4. QED
      BY <1>1, <3>1, <3>2, <3>3 DEF Prints
  <2>4. CASE /\ ~(call[c].n <= Len(call[c].text))
             /\ buf' = [buf EXCEPT ![call[c].n] = NUL]
             /\ Called(c, "console", <<>>, 1, 0, 1)
    <3>1. call[c].n = Len(t) + 1
      BY <1>1, <2>2, <2>4
    <3>2. /\ call'[c].at = "console" /\ call'[c].text = <<>> /\ call'[c].con = 1
      BY <2>4 DEF Called
    <3>3. buf'[Len(t) + 1] = NUL /\ \A i \in 1 .. Len(t) : buf'[i] = t[i]
      BY <1>1, <2>2, <2>4, <3>1
    <3>4. 1 \in 1 .. (Len(cons) + 1)
      BY <1>1
    <3>5. QED
      BY <1>1, <2>1, <3>2, <3>3, <3>4 DEF Prints
  <2>5. QED
    BY <2>1, <2>3, <2>4
<1>3. CASE NextConsole(c)
  <2>1. /\ call[c].at = "console" /\ cons' = cons /\ buf' = buf
        /\ \/ Called(c, "none", <<>>, 1, 0, 0)
           \/ /\ ~(call[c].con > Len(cons))
              /\ Called(c, "write", call[c].text, 1, strlen(Data(c)), call[c].con)
    BY <1>3, NextEffect
  <2>2. strlen(Data(c)) = Len(t)
    BY <2>1, DataIs
  <2>3. CASE Called(c, "none", <<>>, 1, 0, 0)
    <3>1. call'[c].at = "none"
      BY <2>3 DEF Called
    <3>2. QED
      BY <1>1, <3>1 DEF Prints
  <2>4. CASE /\ ~(call[c].con > Len(cons))
             /\ Called(c, "write", call[c].text, 1, strlen(Data(c)), call[c].con)
    <3>1. /\ call'[c].at = "write" /\ call'[c].text = call[c].text /\ call'[c].n = 1
          /\ call'[c].len = Len(t) /\ call'[c].con = call[c].con
      BY <2>2, <2>4 DEF Called
    <3>2. call[c].con \in 1 .. Len(cons) /\ 1 \in 1 .. (Len(t) + 1)
      BY <1>1, <2>1, <2>4 DEF Prints
    <3>3. QED
      BY <1>1, <2>1, <3>1, <3>2 DEF Prints
  <2>5. QED
    BY <2>1, <2>3, <2>4
<1>4. CASE WriteDone(c)
  <2>1. /\ call[c].at = "write" /\ cons' = cons /\ buf' = buf
        /\ Called(c, "console", call[c].text, call[c].n, call[c].len, call[c].con + 1)
    BY <1>4, DoneEffect
  <2>2. /\ call'[c].at = "console" /\ call'[c].text = call[c].text
        /\ call'[c].con = call[c].con + 1
    BY <2>1 DEF Called
  <2>3. call[c].con + 1 \in 1 .. (Len(cons) + 1)
    BY <1>1, <2>1 DEF Prints
  <2>4. QED
    BY <1>1, <2>1, <2>2, <2>3 DEF Prints
<1>5. CASE vgaterm_writestring(c) \/ write_serial(c)
  <2>1. /\ call[c].at = "write" /\ cons' = cons /\ buf' = buf /\ call[c].n <= call[c].len
        /\ call' = [call EXCEPT ![c].n = @ + 1]
    BY <1>5 DEF vgaterm_writestring, write_serial
  <2>2. Called(c, "write", call[c].text, call[c].n + 1, call[c].len, call[c].con)
    BY <2>1, CountEffect
  <2>3. /\ call'[c].at = "write" /\ call'[c].text = call[c].text /\ call'[c].n = call[c].n + 1
        /\ call'[c].len = call[c].len /\ call'[c].con = call[c].con
    BY <2>2 DEF Called
  <2>4. call[c].n + 1 \in 1 .. (Len(t) + 1)
    BY <1>1, <2>1 DEF Prints
  <2>5. QED
    BY <1>1, <2>1, <2>3, <2>4 DEF Prints
<1>6. CASE Putting(c)
  BY <1>6 DEF Putting, consoleVars, Prints
<1>7. QED
  BY <1>2, <1>3, <1>4, <1>5, <1>6 DEF PrintStep

-----------------------------------------------------------------------------
(* The serial console                                                      *)

(* The port gets one more character; of what it has got before, the end    *)
(* stays.                                                                  *)
LEMMA SentMore ==
    ASSUME NEW S, sent \in Seq(S), NEW ch,
           sent' = LET all == Append(sent, ch)
                   IN  SubSeq(all, Max({1, Len(all) - BufSize + 1}), Len(all))
    PROVE  /\ sent' \in Seq(S \cup {ch})
           /\ \A k \in 0 .. (BufSize - 1) : k <= Len(sent) =>
                 /\ Len(sent') >= k + 1
                 /\ sent'[Len(sent')] = ch
                 /\ \A i \in 1 .. k : sent'[Len(sent') - (k + 1) + i] = sent[Len(sent) - k + i]
<1>1. PICK all : all = Append(sent, ch)
  OBVIOUS
<1>2. PICK m : m = Max({1, Len(all) - BufSize + 1})
  OBVIOUS
<1>3. PICK l \in Nat : l = Len(sent)
  BY LenProperties
<1>4. BufSize \in Nat \ {0}
  BY BufAssumption
<1>5. /\ all \in Seq(S \cup {ch}) /\ Len(all) = l + 1
      /\ all[l + 1] = ch /\ \A i \in 1 .. l : all[i] = sent[i]
  <2>1. sent \in Seq(S \cup {ch}) /\ ch \in S \cup {ch}
    BY SeqMonotonic
  <2>2. QED
    BY <1>1, <1>3, <2>1
<1>6. m = IF l + 1 - BufSize + 1 >= 1 THEN l + 1 - BufSize + 1 ELSE 1
  <2> DEFINE d == l + 1 - BufSize + 1
             Z == {1, d}
  <2>1. d \in Int /\ m = Max(Z)
    BY <1>2, <1>3, <1>4, <1>5
  <2> HIDE DEF d
  <2>2. \E x \in Z : \A y \in Z : x >= y
    BY <2>1
  <2>3. m \in Z /\ \A y \in Z : m >= y
    BY <2>1, <2>2 DEF Max
  <2>4. m = IF d >= 1 THEN d ELSE 1
    BY <2>1, <2>3
  <2>5. QED
    BY <2>4 DEF d
<1>7. m \in 1 .. (l + 1) /\ l + 1 - m + 1 <= BufSize /\ (m = 1 \/ l + 1 - m + 1 = BufSize)
  BY <1>3, <1>4, <1>6
<1>8. sent' = SubSeq(all, m, l + 1)
  BY <1>1, <1>2, <1>5
<1>9. \A i \in m .. (l + 1) : all[i] \in S \cup {ch}
  BY <1>3, <1>5, <1>7, ElementOfSeq
<1>10. /\ sent' \in Seq(S \cup {ch}) /\ Len(sent') = l + 1 - m + 1
       /\ \A i \in 1 .. (l + 1 - m + 1) : sent'[i] = all[m + i - 1]
  <2>1. m \in Int /\ l + 1 \in Int
    BY <1>3, <1>7
  <2>2. /\ SubSeq(all, m, l + 1) \in Seq(S \cup {ch})
        /\ Len(SubSeq(all, m, l + 1)) = IF m <= l + 1 THEN l + 1 - m + 1 ELSE 0
        /\ \A i \in 1 .. (l + 1 - m + 1) : SubSeq(all, m, l + 1)[i] = all[m + i - 1]
    BY <1>9, <2>1, SubSeqProperties
  <2>3. m <= l + 1
    BY <1>7
  <2>4. QED
    BY <1>8, <2>2, <2>3
<1>11. ASSUME NEW k \in 0 .. (BufSize - 1), k <= l
       PROVE  /\ l + 1 - m + 1 >= k + 1
              /\ sent'[l + 1 - m + 1] = ch
              /\ \A i \in 1 .. k : sent'[(l + 1 - m + 1) - (k + 1) + i] = sent[l - k + i]
  <2>1. l + 1 - m + 1 >= k + 1
    BY <1>3, <1>4, <1>7, <1>11
  <2>2. sent'[l + 1 - m + 1] = ch
    <3>1. l + 1 - m + 1 \in 1 .. (l + 1 - m + 1) /\ m + (l + 1 - m + 1) - 1 = l + 1
      BY <1>3, <1>7
    <3>2. QED
      BY <1>5, <1>10, <3>1
  <2>3. ASSUME NEW i \in 1 .. k
        PROVE  sent'[(l + 1 - m + 1) - (k + 1) + i] = sent[l - k + i]
    <3>1. PICK j : j = (l + 1 - m + 1) - (k + 1) + i
      OBVIOUS
    <3>2. j \in 1 .. (l + 1 - m + 1) /\ m + j - 1 = l - k + i /\ l - k + i \in 1 .. l
      BY <1>3, <1>4, <1>7, <1>11, <2>1, <2>3, <3>1
    <3>3. sent'[j] = all[m + j - 1]
      BY <1>10, <3>2
    <3>4. QED
      BY <1>5, <3>1, <3>2, <3>3
  <2>4. QED
    BY <2>1, <2>2, <2>3
<1>12. QED
  BY <1>3, <1>10, <1>11

LEMMA ConsoleTypesStep ==
    ASSUME CallTypes, ConsoleTypes, NEW c \in Contexts, PrintStep(c)
    PROVE  ConsoleTypes' /\ cons' = cons
<1>1. CASE Format(c)
  <2>1. cons' = cons /\ sent' = sent /\ \E x : buf' = [buf EXCEPT ![call[c].n] = x]
    BY <1>1, FormatEffect
  <2>2. QED
    BY <2>1 DEF ConsoleTypes
<1>2. CASE NextConsole(c) \/ WriteDone(c) \/ vgaterm_writestring(c) \/ Putting(c)
  BY <1>2 DEF NextConsole, WriteDone, vgaterm_writestring, Putting, consoleVars, ConsoleTypes
<1>3. CASE write_serial(c)
  <2>1. PICK S : sent \in Seq(S)
    BY DEF ConsoleTypes
  <2>2. PICK ch : ch = Data(c)[call[c].n]
    OBVIOUS
  <2>3. cons' = cons /\ buf' = buf
        /\ sent' = LET all == Append(sent, ch)
                   IN  SubSeq(all, Max({1, Len(all) - BufSize + 1}), Len(all))
    BY <1>3, <2>2 DEF write_serial
  <2>4. sent' \in Seq(S \cup {ch})
    BY <2>1, <2>3, SentMore
  <2>5. QED
    BY <2>3, <2>4 DEF ConsoleTypes
<1>4. QED
  BY <1>1, <1>2, <1>3 DEF PrintStep

LEMMA ConsLast ==
    ASSUME ConsoleTypes
    PROVE  Len(cons) \in Nat \ {0}
BY EmptySeq DEF ConsoleTypes

(* Panic goes on with its print.                                           *)
LEMMA PanicPrints ==
    ASSUME SentInv, Running = "panic", Running' = "panic", PrintStep("panic"),
           farewell' = farewell
    PROVE  PanicInv'
<1>a. PICK c \in Contexts : c = "panic"
  BY TheContexts
<1>0. PICK t : c = "panic" /\ t = PanicSaid /\ t = PanicSaid' /\ Fits(t)
  BY <1>a, TextsFit DEF PanicSaid
<1>1. /\ ConsoleTypes /\ CallTypes /\ Prints(c, t) /\ PrintStep(c)
  BY <1>0 DEF SentInv, HealInv, PanicInv, PanicPrinted
<1>2. Prints(c, t)'
  BY <1>1, PrintsStep
<1>3. cons' = cons /\ Len(cons) \in Nat \ {0}
  BY <1>1, ConsoleTypesStep, ConsLast
<1>4. /\ Len(t) \in Nat /\ Len(t) + 1 \in 1 .. BufSize /\ BufSize \in Nat
  BY <1>0, FitsFacts
<1> DEFINE r == call[c]
           L == Len(t)
<1>5. ASSUME cons[Len(cons)] = "serial"
      PROVE  /\ r'.at = "none" => SentEnds(t, L)'
             /\ r'.at = "console" /\ r'.con = Len(cons) + 1 => SentEnds(t, L)'
             /\ r'.at = "write" /\ r'.con = Len(cons) => (\A k \in Nat : r'.n = k + 1 => SentEnds(t, k)')
  <2>0. /\ r.at = "none" => SentEnds(t, L)
        /\ r.at = "console" /\ r.con = Len(cons) + 1 => SentEnds(t, L)
        /\ r.at = "write" /\ r.con = Len(cons) => \A k \in Nat : r.n = k + 1 => SentEnds(t, k)
    BY <1>0, <1>5 DEF SentInv, PanicInv, PanicPrinted
  <2>1. CASE Format(c)
    <3>1. \/ call'[c].at = "format"
          \/ call'[c].at = "console" /\ call'[c].con = 1
      <4>1. \/ Called(c, "format", r.text, r.n + 1, r.len, r.con)
            \/ Called(c, "console", <<>>, 1, 0, 1)
        BY <1>1, <2>1, FormatEffect
      <4>2. QED
        BY <4>1 DEF Called
    <3>2. QED
      BY <1>3, <3>1
  <2>2. CASE NextConsole(c)
    <3>1. /\ r.at = "console" /\ sent' = sent
          /\ \/ r.con > Len(cons) /\ r'.at = "none"
             \/ r'.at = "write" /\ r'.n = 1
      <4>1. /\ r.at = "console" /\ sent' = sent
            /\ \/ r.con > Len(cons) /\ Called(c, "none", <<>>, 1, 0, 0)
               \/ Called(c, "write", r.text, 1, strlen(Data(c)), r.con)
        BY <1>1, <2>2, NextEffect
      <4>2. QED
        BY <4>1 DEF Called
    <3>2. r.con \in 1 .. (Len(cons) + 1)
      BY <1>1, <3>1 DEF Prints
    <3>3. \A n : SentEnds(t, n)' = SentEnds(t, n)
      BY <3>1 DEF SentEnds
    <3>4. SentEnds(t, 0)
      <4>1. Len(sent) \in Nat
        BY <1>1, LenProperties DEF ConsoleTypes
      <4>2. QED
        BY <4>1 DEF SentEnds
    <3>5. CASE r.con > Len(cons) /\ r'.at = "none"
      BY <1>3, <2>0, <3>1, <3>2, <3>3, <3>5
    <3>6. CASE r'.at = "write" /\ r'.n = 1
      <4>1. \A k \in Nat : r'.n = k + 1 => k = 0
        BY <3>6
      <4>2. QED
        BY <3>3, <3>4, <3>6, <4>1
    <3>7. QED
      BY <3>1, <3>5, <3>6
  <2>3. CASE WriteDone(c)
    <3>1. /\ r.at = "write" /\ sent' = sent /\ r.n > r.len
          /\ r'.at = "console" /\ r'.con = r.con + 1
      <4>1. /\ r.at = "write" /\ sent' = sent /\ r.n > r.len
            /\ Called(c, "console", r.text, r.n, r.len, r.con + 1)
        BY <1>1, <2>3, DoneEffect
      <4>2. QED
        BY <4>1 DEF Called
    <3>2. r.len = L /\ r.n \in 1 .. (L + 1) /\ r.con \in 1 .. Len(cons)
      BY <1>1, <3>1 DEF Prints
    <3>3. \A n : SentEnds(t, n)' = SentEnds(t, n)
      BY <3>1 DEF SentEnds
    <3>4. r.n - 1 = L /\ (r'.con = Len(cons) + 1 => r.con = Len(cons))
      BY <1>3, <1>4, <3>1, <3>2, SMTT(30)
    <3>5. r.n = L + 1 /\ (r'.con = Len(cons) + 1 => SentEnds(t, L))
      BY <1>4, <2>0, <3>1, <3>2, <3>4
    <3>6. QED
      BY <3>1, <3>3, <3>5
  <2>4. CASE vgaterm_writestring(c)
    <3>1. r.at = "write" /\ sent' = sent /\ cons[r.con] = "vga"
      BY <2>4 DEF vgaterm_writestring
    <3>2. Called(c, "write", r.text, r.n + 1, r.len, r.con)
      BY <1>1, <2>4, <3>1, CountEffect DEF vgaterm_writestring
    <3>3. r'.at = "write" /\ r'.con = r.con
      BY <3>2 DEF Called
    <3>4. QED
      BY <1>5, <3>1, <3>3
  <2>5. CASE write_serial(c)
    <3>1. r.at = "write" /\ r.n <= r.len
      BY <2>5 DEF write_serial
    <3>2. Called(c, "write", r.text, r.n + 1, r.len, r.con)
      BY <1>1, <2>5, <3>1, CountEffect DEF write_serial
    <3>3. r'.at = "write" /\ r'.con = r.con /\ r'.n = r.n + 1
      BY <3>2 DEF Called
    <3>4. r.len = L /\ r.n \in 1 .. (L + 1)
      BY <1>1, <3>1 DEF Prints
    <3>5. PICK ch : ch = Data(c)[r.n]
      OBVIOUS
    <3>6. ch = t[r.n]
      BY <1>1, <1>4, <3>1, <3>4, <3>5, DataIs
    <3>7. sent' = LET all == Append(sent, ch)
                  IN  SubSeq(all, Max({1, Len(all) - BufSize + 1}), Len(all))
      BY <2>5, <3>5 DEF write_serial
    <3>8. PICK k : k = r.n - 1
      OBVIOUS
    <3>9. k \in 0 .. (BufSize - 1) /\ k + 1 = r.n /\ r'.n - 1 = k + 1
      BY <1>4, <3>1, <3>3, <3>4, <3>8
    <3>10. ASSUME r.con = Len(cons) PROVE SentEnds(t, k + 1)'
      <4>1. SentEnds(t, k)
        BY <2>0, <3>1, <3>9, <3>10
      <4>2. PICK S : sent \in Seq(S)
        BY <1>1 DEF ConsoleTypes
      <4>3. k <= Len(sent)
        BY <3>9, <4>1, <4>2, LenProperties DEF SentEnds
      <4>4. /\ Len(sent') >= k + 1 /\ sent'[Len(sent')] = ch
            /\ \A i \in 1 .. k : sent'[Len(sent') - (k + 1) + i] = sent[Len(sent) - k + i]
            /\ sent' \in Seq(S \cup {ch})
        BY <3>7, <3>9, <4>2, <4>3, SentMore
      <4>5. Len(sent') \in Nat
        BY <4>4, LenProperties
      <4>6. \A i \in 1 .. (k + 1) : sent'[Len(sent') - (k + 1) + i] = t[i]
        <5> TAKE i \in 1 .. (k + 1)
        <5>1. CASE i = k + 1
          <6>1. Len(sent') - (k + 1) + i = Len(sent')
            BY <3>9, <4>5, <5>1
          <6>2. QED
            BY <3>6, <3>9, <4>4, <5>1, <6>1
        <5>2. CASE i # k + 1
          <6>1. i \in 1 .. k
            BY <3>9, <5>2
          <6>2. QED
            BY <4>1, <4>4, <6>1 DEF SentEnds
        <5>3. QED
          BY <5>1, <5>2
      <4>7. QED
        BY <4>4, <4>6 DEF SentEnds
    <3>11. \A j \in Nat : r'.n = j + 1 => j = k + 1
      BY <3>3, <3>9
    <3>12. QED
      BY <3>3, <3>10, <3>11
  <2>6. CASE Putting(c)
    <3>1. call' = call /\ sent' = sent
      BY <2>6 DEF Putting, consoleVars
    <3>2. \A n : SentEnds(t, n)' = SentEnds(t, n)
      BY <3>1 DEF SentEnds
    <3>3. QED
      BY <2>0, <3>1, <3>2
  <2>7. QED
    BY <1>1, <2>1, <2>2, <2>3, <2>4, <2>5, <2>6 DEF PrintStep
<1>6. QED
  BY <1>0, <1>2, <1>3, <1>5 DEF PanicInv, PanicPrinted

LEMMA SentSame ==
    ASSUME SentInv, HealInv', UNCHANGED <<cons, buf, sent>>,
           \/ Running' # "panic"
           \/ call' = call /\ running' = running /\ farewell' = farewell
    PROVE  SentInv'
<1>1. ConsoleTypes'
  BY DEF SentInv, ConsoleTypes
<1>2. CASE Running' # "panic"
  BY <1>1, <1>2 DEF SentInv, PanicInv, PanicPrinted
<1>3. CASE call' = call /\ running' = running /\ farewell' = farewell
  <2>1. Running' = Running
    BY <1>3 DEF Running
  <2>2. PICK t : t = PanicSaid /\ t = PanicSaid'
    BY <1>3 DEF PanicSaid
  <2>3. \A n : SentEnds(t, n)' = SentEnds(t, n)
    BY DEF SentEnds
  <2>4. Prints("panic", t)' = Prints("panic", t)
    BY <1>3 DEF Prints
  <2>5. PanicInv'
    BY <1>3, <2>1, <2>2, <2>3, <2>4 DEF SentInv, PanicInv, PanicPrinted
  <2>6. QED
    BY <1>1, <2>5 DEF SentInv
<1>4. QED
  BY <1>2, <1>3

(* Panic starts to print one of its texts.                                 *)
LEMMA PanicStarts ==
    ASSUME SentInv, HealInv', CallPrintk("panic", PanicSaid')
    PROVE  SentInv'
<1>1. CallTypes /\ ConsoleTypes /\ "panic" \in Contexts
  BY TheContexts DEF SentInv, HealInv
<1>2. PICK t : t = PanicSaid' /\ Fits(t)
  BY TextsFit DEF PanicSaid
<1>3. /\ Called("panic", "format", t, 1, 0, 0) /\ UNCHANGED <<cons, buf, sent>>
  BY <1>1, <1>2, PrintkEffect
<1>4. /\ call'["panic"].at = "format" /\ call'["panic"].text = t
      /\ call'["panic"].n = 1
  BY <1>3 DEF Called
<1>5. ConsoleTypes'
  BY <1>1, <1>3 DEF ConsoleTypes
<1>6. Prints("panic", t)'
  <2>1. 1 \in 1 .. (Len(t) + 1)
    BY <1>2, FitsFacts
  <2>2. QED
    BY <1>2, <1>4, <2>1 DEF Prints
<1>7. PanicInv'
  BY <1>2, <1>4, <1>6 DEF PanicInv, PanicPrinted
<1>8. QED
  BY <1>5, <1>7 DEF SentInv

LEMMA SentNext == SentInv /\ [Next]_vars => SentInv'
<1> SUFFICES ASSUME SentInv, [Next]_vars PROVE SentInv'
  OBVIOUS
<1>1. HealInv' /\ StackInv /\ CallTypes /\ ConsoleTypes
  BY HealNext DEF SentInv, HealInv
<1>2. /\ running = <<"kernel">> => Running = "kernel"
      /\ running' = running => Running' = Running
      /\ running' \in {<<"handler", "kernel">>, <<"reset">>, <<"kernel">>} => Running' # "panic"
  BY DEF Running
<1>0. panic => CallPrintk("panic", PanicSaid')
  BY DEF panic, PanicSaid
<1>3. CASE idt_init \/ isrs_init \/ irqs_init \/ timer_init
  <2>1. UNCHANGED <<cons, buf, sent>> /\ running = <<"kernel">> /\ running' = running
    BY <1>3 DEF idt_init, isrs_init, irqs_init, timer_init, Start, InKernel
  <2>2. QED
    BY <1>1, <1>2, <2>1, SentSame
<1>4. CASE init_serial
  <2>1. /\ buf' = buf /\ running = <<"kernel">> /\ running' = running
        /\ sent' = SerialText
        /\ cons' = IF Len(cons) = 4 THEN cons ELSE Append(cons, "serial")
    BY <1>4 DEF init_serial, Start, InKernel, console_register
  <2>2. ConsoleTypes'
    <3>1. sent' \in Seq(Range(SerialText))
      BY <2>1, InterruptAssumption
    <3>2. \E S : sent' \in Seq(S)
      BY <3>1
    <3>3. cons' \in Seq({"vga", "serial"}) /\ cons' # <<>>
      BY <1>1, <2>1 DEF ConsoleTypes
    <3>4. QED
      BY <1>1, <2>1, <3>2, <3>3 DEF ConsoleTypes
  <2>3. PanicInv'
    BY <1>2, <2>1 DEF PanicInv, PanicPrinted
  <2>4. QED
    BY <1>1, <2>2, <2>3 DEF SentInv
<1>5. CASE enable_interrupts
  <2>1. UNCHANGED <<cons, buf, sent>> /\ running = <<"kernel">> /\ running' = running
    BY <1>5 DEF enable_interrupts, InKernel, consoleVars
  <2>2. QED
    BY <1>1, <1>2, <2>1, SentSame
<1>6. ASSUME NEW t \in Texts, KernelPrints(t) PROVE SentInv'
  <2>1. UNCHANGED <<cons, buf, sent>> /\ running = <<"kernel">> /\ running' = running
    BY <1>6 DEF KernelPrints, InKernel, CallPrintk
  <2>2. QED
    BY <1>1, <1>2, <2>1, SentSame
<1>7. CASE greybox
  <2>1. UNCHANGED <<cons, buf, sent>> /\ running = <<"kernel">> /\ running' = running
    BY <1>7 DEF greybox, InKernel
  <2>2. QED
    BY <1>1, <1>2, <2>1, SentSame
<1>8. CASE irq_handler
  <2>1. CASE panic
    BY <1>0, <1>1, <2>1, PanicStarts
  <2>2. CASE ~panic
    <3>1. Running = "handler" /\ running' = running /\ UNCHANGED <<cons, buf, sent>>
      BY <1>8, <2>2 DEF irq_handler, kernel_tick, CallPrintk, consoleVars
    <3>2. QED
      BY <1>1, <1>2, <3>1, SentSame
  <2>3. QED
    BY <2>1, <2>2
<1>9. CASE IrqDone
  <2>1. UNCHANGED <<cons, buf, sent>> /\ running' = <<"kernel">>
    BY <1>1, <1>9, Stacks, OnTop DEF IrqDone, consoleVars
  <2>2. QED
    BY <1>1, <1>2, <2>1, SentSame
<1>10. CASE Printing
  <2>1. PICK c \in Contexts :
            /\ c = Running /\ PrintStep(c) /\ running' = running /\ farewell' = farewell
    BY <1>10 DEF Printing, interruptVars, frame
  <2>2. ConsoleTypes'
    BY <1>1, <2>1, ConsoleTypesStep
  <2>3. PanicInv'
    <3>1. CASE Running = "panic"
      BY <1>2, <2>1, <3>1, PanicPrints
    <3>2. CASE Running # "panic"
      BY <1>2, <2>1, <3>2 DEF PanicInv, PanicPrinted
    <3>3. QED
      BY <3>1, <3>2
  <2>4. QED
    BY <1>1, <2>2, <2>3 DEF SentInv
<1>11. ASSUME NEW i \in Lines, Interrupt(i) PROVE SentInv'
  <2>1. /\ UNCHANGED <<cons, buf, sent>>
        /\ running' \in {<<"handler", "kernel">>, <<"reset">>}
    BY <1>1, <1>11, OnTop DEF Interrupt, consoleVars, StackInv
  <2>2. QED
    BY <1>1, <1>2, <2>1, SentSame
<1>12. ASSUME NEW i \in Lines, Raise(i) PROVE SentInv'
  <2>1. UNCHANGED <<cons, buf, sent, call, running, farewell>>
    BY <1>12 DEF Raise, consoleVars, frame
  <2>2. QED
    BY <1>1, <2>1, SentSame
<1>13. ASSUME NEW v \in Exceptions, fault_handler(v) PROVE SentInv'
  <2>1. CASE panic
    BY <1>0, <1>1, <2>1, PanicStarts
  <2>2. CASE ~panic
    <3>1. UNCHANGED <<cons, buf, sent>> /\ running' = <<"reset">>
      BY <1>13, <2>2 DEF fault_handler, consoleVars
    <3>2. QED
      BY <1>1, <1>2, <3>1, SentSame
  <2>3. QED
    BY <2>1, <2>2
<1>14. CASE KernelPanics
  BY <1>0, <1>1, <1>14, PanicStarts DEF KernelPanics
<1>15. CASE SoLong
  <2>1. CallPrintk("panic", PanicSaid')
    BY <1>15 DEF SoLong, PanicSaid
  <2>2. QED
    BY <1>1, <2>1, PanicStarts
<1>16. CASE die
  <2>1. UNCHANGED <<cons, buf, sent, call, running, farewell>>
    BY <1>16 DEF die, consoleVars, frame
  <2>2. QED
    BY <1>1, <2>1, SentSame
<1>17. CASE Halted \/ UNCHANGED vars
  <2>1. UNCHANGED <<cons, buf, sent, call, running, farewell>>
    BY <1>17 DEF Halted, vars, interruptVars, consoleVars, frame
  <2>2. QED
    BY <1>1, <2>1, SentSame
<1>18. QED
  BY <1>3, <1>4, <1>5, <1>6, <1>7, <1>8, <1>9, <1>10, <1>11, <1>12, <1>13, <1>14,
     <1>15, <1>16, <1>17
     DEF Next, Execute, Accept

LEMMA SentInit == Init => SentInv
<1> SUFFICES ASSUME Init PROVE SentInv
  OBVIOUS
<1>1. HealInv /\ Running # "panic"
  BY HealInit DEF Init, Running
<1>2. ConsoleTypes
  <2>1. cons = <<"vga">> /\ sent = <<>> /\ buf = [n \in 1 .. BufSize |-> NUL]
    BY DEF Init, ConsoleInit
  <2>2. cons \in Seq({"vga", "serial"}) /\ cons # <<>>
    BY <2>1
  <2>3. \E S : sent \in Seq(S)
    BY <2>1, EmptySeq
  <2>4. QED
    BY <2>1, <2>2, <2>3 DEF ConsoleTypes
<1>3. QED
  BY <1>1, <1>2 DEF SentInv, PanicInv, PanicPrinted

LEMMA SentInvAlways == Spec => []SentInv
BY SentInit, SentNext, PTL DEF Spec

(* Whatever leads to panic, in the middle of whatever print it does, and   *)
(* however often the walk through the stack panics again: each text of     *)
(* panic, when it is printed, is complete and the last that the serial     *)
(* console has got (panic of sys.c, print_stack_trace of arch/x86/hal.c,   *)
(* printk of utils.c).                                                     *)
THEOREM PanicSentAlways == Spec => []PanicSent
<1>1. SentInv => PanicSent
  <2> SUFFICES ASSUME SentInv, Running = "panic", Silent("panic"), cons[Len(cons)] = "serial"
               PROVE  /\ Len(sent) >= Len(PanicSaid)
                      /\ SubSeq(sent, Len(sent) - Len(PanicSaid) + 1, Len(sent)) = PanicSaid
    BY DEF PanicSent
  <2>1. PICK t : t = PanicSaid /\ Fits(t) /\ SentEnds(t, Len(t))
    BY TextsFit DEF SentInv, PanicInv, PanicPrinted, Silent
  <2>2. PICK l \in Nat : l = Len(t)
    BY <2>1, FitsFacts
  <2>3. PICK S : sent \in Seq(S)
    BY DEF SentInv, ConsoleTypes
  <2>4. PICK m \in Nat : m = Len(sent)
    BY <2>3, LenProperties
  <2>5. m >= l /\ \A i \in 1 .. l : sent[m - l + i] = t[i]
    BY <2>1, <2>2, <2>4 DEF SentEnds
  <2>6. \A i \in (m - l + 1) .. m : sent[i] \in S
    BY <2>2, <2>3, <2>4, <2>5, ElementOfSeq
  <2>7. /\ SubSeq(sent, m - l + 1, m) \in Seq(S)
        /\ Len(SubSeq(sent, m - l + 1, m)) = l
        /\ \A i \in 1 .. l : SubSeq(sent, m - l + 1, m)[i] = sent[m - l + i]
    <3>1. PICK a \in Int : a = m - l + 1
      OBVIOUS
    <3>2. /\ SubSeq(sent, a, m) \in Seq(S)
          /\ Len(SubSeq(sent, a, m)) = IF a <= m THEN m - a + 1 ELSE 0
          /\ \A i \in 1 .. (m - a + 1) : SubSeq(sent, a, m)[i] = sent[a + i - 1]
      BY <2>6, <3>1, SubSeqProperties
    <3>3. m - a + 1 = l /\ (IF a <= m THEN m - a + 1 ELSE 0) = l
      BY <2>5, <3>1
    <3>4. \A i \in 1 .. l : a + i - 1 = m - l + i
      BY <3>1
    <3>5. QED
      BY <3>1, <3>2, <3>3, <3>4
  <2>8. t \in Seq(Range(t))
    BY <2>1 DEF Fits
  <2>9. SubSeq(sent, m - l + 1, m) = t
    <3> DEFINE T == S \cup Range(t)
    <3>1. SubSeq(sent, m - l + 1, m) \in Seq(T) /\ t \in Seq(T)
      BY <2>7, <2>8, SeqMonotonic
    <3> HIDE DEF T
    <3>2. \A i \in 1 .. l : SubSeq(sent, m - l + 1, m)[i] = t[i]
      BY <2>5, <2>7
    <3>3. QED
      BY <2>2, <2>7, <3>1, <3>2, SeqEqual
  <2>10. QED
    BY <2>1, <2>2, <2>4, <2>5, <2>9
<1>2. QED
  BY <1>1, SentInvAlways, PTL

-----------------------------------------------------------------------------
(* The roll of lines on which a text is written                            *)

RollStart == [line |-> 0, col |-> 0]

RollNext(pos, ch) ==
    IF ch = Newline \/ pos.col = VGA_WIDTH - 1
    THEN [line |-> pos.line + 1, col |-> 0]
    ELSE [line |-> pos.line, col |-> pos.col + 1]

(* The positions p of the first k characters of t.                         *)
Follows(p, t, k) ==
    /\ p = [n \in 0 .. k |-> p[n]]
    /\ p[0] = RollStart
    /\ \A n \in 1 .. k : p[n] = RollNext(p[n - 1], t[n])

LEMMA LeastNumber ==
    ASSUME NEW T, T \subseteq Nat, T # {}
    PROVE  \E x \in T : \A y \in T : x <= y
<1>1. IsWellFoundedOn(OpToRel(<, Nat), Nat)
  BY NatLessThanWellFounded
<1>2. PICK x \in T : \A y \in T : ~(<<y, x>> \in OpToRel(<, Nat))
  BY <1>1, WFMin
<1>3. \A y \in T : ~(y < x)
  BY <1>2 DEF OpToRel
<1>4. QED
  BY <1>3

LEMMA RollTypes ==
    ASSUME NEW p, NEW t, NEW k \in Nat, Follows(p, t, k)
    PROVE  \A n \in 0 .. k :
              /\ p[n].line \in Nat /\ p[n].col \in Nat /\ p[n].col < VGA_WIDTH
              /\ p[n] = [line |-> p[n].line, col |-> p[n].col]
<1> DEFINE Good(n) == /\ p[n].line \in Nat /\ p[n].col \in Nat /\ p[n].col < VGA_WIDTH
                      /\ p[n] = [line |-> p[n].line, col |-> p[n].col]
           T == {n \in 0 .. k : ~Good(n)}
<1>1. VGA_WIDTH \in Nat \ {0}
  BY ScreenSizes
<1>2. Good(0)
  BY <1>1 DEF Follows, RollStart
<1>3. ASSUME NEW n \in 1 .. k, Good(n - 1) PROVE Good(n)
  <2>1. p[n] = RollNext(p[n - 1], t[n])
    BY DEF Follows
  <2>2. PICK q : q = p[n - 1]
    OBVIOUS
  <2>3. p[n] = IF t[n] = Newline \/ q.col = VGA_WIDTH - 1
               THEN [line |-> q.line + 1, col |-> 0]
               ELSE [line |-> q.line, col |-> q.col + 1]
    BY <2>1, <2>2 DEF RollNext
  <2>4. q.line \in Nat /\ q.col \in Nat /\ q.col < VGA_WIDTH
    BY <1>3, <2>2
  <2>5. QED
    BY <1>1, <2>3, <2>4
<1>4. T = {}
  <2> SUFFICES ASSUME T # {} PROVE FALSE
    OBVIOUS
  <2>1. T \subseteq Nat
    OBVIOUS
  <2>2. PICK n \in T : \A m \in T : n <= m
    BY <2>1, LeastNumber
  <2>3. n # 0
    BY <1>2
  <2>4. n \in 1 .. k /\ n - 1 \in 0 .. k /\ n - 1 \notin T
    BY <2>2, <2>3
  <2>5. QED
    BY <1>3, <2>4
<1>5. QED
  BY <1>4

(* Two rolls agree as far as the texts do.                                 *)
LEMMA RollAgrees ==
    ASSUME NEW p, NEW q, NEW t, NEW u, NEW k \in Nat, NEW m \in Nat, k <= m,
           Follows(p, t, k), Follows(q, u, m), \A n \in 1 .. k : t[n] = u[n]
    PROVE  \A n \in 0 .. k : p[n] = q[n]
<1> DEFINE T == {n \in 0 .. k : p[n] # q[n]}
<1>1. p[0] = q[0]
  BY DEF Follows
<1>2. ASSUME NEW n \in 1 .. k, p[n - 1] = q[n - 1] PROVE p[n] = q[n]
  <2>1. n \in 1 .. m
    OBVIOUS
  <2>2. p[n] = RollNext(p[n - 1], t[n]) /\ q[n] = RollNext(q[n - 1], u[n])
    BY <2>1 DEF Follows
  <2>3. QED
    BY <1>2, <2>2
<1>3. T = {}
  <2> SUFFICES ASSUME T # {} PROVE FALSE
    OBVIOUS
  <2>1. T \subseteq Nat
    OBVIOUS
  <2>2. PICK n \in T : \A l \in T : n <= l
    BY <2>1, LeastNumber
  <2>3. n # 0
    BY <1>1
  <2>4. n \in 1 .. k /\ n - 1 \in 0 .. k /\ n - 1 \notin T
    BY <2>2, <2>3
  <2>5. QED
    BY <1>2, <2>4
<1>4. QED
  BY <1>3

LEMMA RollExists ==
    ASSUME NEW t, NEW k \in Nat
    PROVE  \E p : Follows(p, t, k)
<1> DEFINE T == {n \in Nat : ~\E p : Follows(p, t, n)}
<1>1. \E p : Follows(p, t, 0)
  <2> DEFINE p == [n \in 0 .. 0 |-> RollStart]
  <2>1. p[0] = RollStart /\ p = [n \in 0 .. 0 |-> p[n]]
    OBVIOUS
  <2> HIDE DEF p
  <2>2. Follows(p, t, 0)
    BY <2>1 DEF Follows
  <2>3. QED
    BY <2>2
<1>2. ASSUME NEW n \in Nat, \E p : Follows(p, t, n)
      PROVE  \E p : Follows(p, t, n + 1)
  <2>1. PICK p : Follows(p, t, n)
    BY <1>2
  <2> DEFINE q == [i \in 0 .. (n + 1) |-> IF i <= n THEN p[i] ELSE RollNext(p[n], t[n + 1])]
  <2>2. /\ q = [i \in 0 .. (n + 1) |-> q[i]]
        /\ \A i \in 0 .. n : q[i] = p[i]
        /\ q[n + 1] = RollNext(p[n], t[n + 1])
    OBVIOUS
  <2> HIDE DEF q
  <2>3. q[0] = RollStart
    <3>1. 0 \in 0 .. n
      OBVIOUS
    <3>2. QED
      BY <2>1, <2>2, <3>1 DEF Follows
  <2>4. \A i \in 1 .. (n + 1) : q[i] = RollNext(q[i - 1], t[i])
    <3> TAKE i \in 1 .. (n + 1)
    <3>1. CASE i = n + 1
      <4>1. i - 1 = n /\ n \in 0 .. n
        BY <3>1
      <4>2. QED
        BY <2>2, <3>1, <4>1
    <3>2. CASE i # n + 1
      <4>1. i \in 1 .. n /\ i \in 0 .. n /\ i - 1 \in 0 .. n
        BY <3>2
      <4>2. p[i] = RollNext(p[i - 1], t[i])
        BY <2>1, <4>1 DEF Follows
      <4>3. QED
        BY <2>2, <4>1, <4>2
    <3>3. QED
      BY <3>1, <3>2
  <2>5. Follows(q, t, n + 1)
    BY <2>2, <2>3, <2>4 DEF Follows
  <2>6. QED
    BY <2>5
<1>3. T = {}
  <2> SUFFICES ASSUME T # {} PROVE FALSE
    OBVIOUS
  <2>1. T \subseteq Nat
    OBVIOUS
  <2>2. PICK n \in T : \A l \in T : n <= l
    BY <2>1, LeastNumber
  <2>3. n # 0
    BY <1>1
  <2>4. n - 1 \in Nat /\ n - 1 \notin T /\ (n - 1) + 1 = n
    BY <2>2, <2>3
  <2>5. \E p : Follows(p, t, n - 1)
    BY <2>4
  <2>6. PICK j \in Nat : j = n - 1 /\ j + 1 = n
    BY <2>4
  <2>7. \E p : Follows(p, t, j + 1)
    BY <1>2, <2>5, <2>6
  <2>8. QED
    BY <2>2, <2>6, <2>7
<1>4. QED
  BY <1>3

LEMMA RollIs ==
    ASSUME NEW t, Len(t) \in Nat
    PROVE  Follows(Roll(t), t, Len(t))
<1> DEFINE R(p) == p = [n \in 0 .. Len(t) |->
                          IF n = 0 THEN [line |-> 0, col |-> 0]
                          ELSE IF t[n] = Newline \/ p[n - 1].col = VGA_WIDTH - 1
                               THEN [line |-> p[n - 1].line + 1, col |-> 0]
                               ELSE [p[n - 1] EXCEPT !.col = @ + 1]]
<1>1. Roll(t) = CHOOSE p : R(p)
  BY DEF Roll
<1>2. \E p : R(p)
  <2>1. PICK p : Follows(p, t, Len(t))
    BY RollExists
  <2>2. \A n \in 0 .. Len(t) :
              /\ p[n].line \in Nat /\ p[n].col \in Nat /\ p[n].col < VGA_WIDTH
              /\ p[n] = [line |-> p[n].line, col |-> p[n].col]
    BY <2>1, RollTypes
  <2>3. \A n \in 0 .. Len(t) :
          p[n] = IF n = 0 THEN [line |-> 0, col |-> 0]
                 ELSE IF t[n] = Newline \/ p[n - 1].col = VGA_WIDTH - 1
                      THEN [line |-> p[n - 1].line + 1, col |-> 0]
                      ELSE [p[n - 1] EXCEPT !.col = @ + 1]
    <3> TAKE n \in 0 .. Len(t)
    <3>1. CASE n = 0
      BY <2>1, <3>1 DEF Follows, RollStart
    <3>2. CASE n # 0
      <4>1. n \in 1 .. Len(t) /\ n - 1 \in 0 .. Len(t)
        BY <3>2
      <4>2. p[n] = RollNext(p[n - 1], t[n])
        BY <2>1, <4>1 DEF Follows
      <4>3. p[n - 1] = [line |-> p[n - 1].line, col |-> p[n - 1].col]
        BY <2>2, <4>1
      <4>4. [p[n - 1] EXCEPT !.col = @ + 1] = [line |-> p[n - 1].line, col |-> p[n - 1].col + 1]
        <5>1. PICK q : q = p[n - 1]
          OBVIOUS
        <5>2. PICK a, b : q = [line |-> a, col |-> b]
          BY <4>3, <5>1
        <5>3. [q EXCEPT !.col = @ + 1] = [line |-> q.line, col |-> q.col + 1]
          BY <5>2
        <5>4. QED
          BY <5>1, <5>3
      <4>5. QED
        BY <3>2, <4>2, <4>4 DEF RollNext
    <3>3. QED
      BY <3>1, <3>2
  <2>4. p = [n \in 0 .. Len(t) |-> p[n]]
    BY <2>1 DEF Follows
  <2>5. R(p)
    BY <2>3, <2>4
  <2>6. QED
    BY <2>5
<1> DEFINE p == Roll(t)
<1>3. R(p)
  BY <1>1, <1>2
<1> HIDE DEF p
<1>4. p = [n \in 0 .. Len(t) |-> p[n]] /\ p[0] = RollStart
  BY <1>3 DEF RollStart
<1>5. \A n \in 0 .. Len(t) : n # 0 =>
         p[n] = IF t[n] = Newline \/ p[n - 1].col = VGA_WIDTH - 1
                THEN [line |-> p[n - 1].line + 1, col |-> 0]
                ELSE [p[n - 1] EXCEPT !.col = @ + 1]
  BY <1>3
<1>6. PICK q : Follows(q, t, Len(t))
  BY RollExists
<1>7. \A n \in 0 .. Len(t) : q[n] = [line |-> q[n].line, col |-> q[n].col]
  BY <1>6, RollTypes
<1> DEFINE T == {n \in 0 .. Len(t) : p[n] # q[n]}
<1>8. T = {}
  <2> SUFFICES ASSUME T # {} PROVE FALSE
    OBVIOUS
  <2>1. T \subseteq Nat
    OBVIOUS
  <2>2. PICK n \in T : \A l \in T : n <= l
    BY <2>1, LeastNumber
  <2>3. n # 0
    BY <1>4, <1>6 DEF Follows
  <2>4. n \in 1 .. Len(t) /\ n \in 0 .. Len(t) /\ n - 1 \in 0 .. Len(t) /\ n - 1 \notin T
    BY <2>2, <2>3
  <2>5. p[n - 1] = q[n - 1] /\ q[n] = RollNext(q[n - 1], t[n])
    BY <1>6, <2>4 DEF Follows
  <2>6. PICK a, b : q[n - 1] = [line |-> a, col |-> b]
    BY <1>7, <2>4
  <2>7. p[n] = q[n]
    <3>1. PICK z : z = p[n - 1]
      OBVIOUS
    <3>2. p[n] = IF t[n] = Newline \/ z.col = VGA_WIDTH - 1
                 THEN [line |-> z.line + 1, col |-> 0] ELSE [z EXCEPT !.col = @ + 1]
      BY <1>5, <2>3, <2>4, <3>1
    <3>3. z = [line |-> a, col |-> b] /\ q[n] = RollNext(z, t[n])
      BY <2>5, <2>6, <3>1
    <3>4. [z EXCEPT !.col = @ + 1] = [line |-> z.line, col |-> z.col + 1]
      BY <3>3
    <3>5. QED
      BY <3>2, <3>3, <3>4 DEF RollNext
  <2>8. QED
    BY <2>2, <2>7
<1>9. p = q
  BY <1>4, <1>6, <1>8 DEF Follows
<1>10. QED
  BY <1>6, <1>9 DEF p

(* The position only moves on.                                             *)
Before(a, b) == a.line < b.line \/ (a.line = b.line /\ a.col < b.col)

(* A text rolls as its beginning does.                                     *)
LEMMA RollPrefix ==
    ASSUME NEW t, NEW u, Len(t) \in Nat, Len(u) \in Nat, Len(t) <= Len(u),
           \A n \in 1 .. Len(t) : t[n] = u[n]
    PROVE  \A n \in 0 .. Len(t) : Roll(t)[n] = Roll(u)[n]
<1>1. PICK k \in Nat, m \in Nat : k = Len(t) /\ m = Len(u)
  OBVIOUS
<1>2. PICK p, q : p = Roll(t) /\ q = Roll(u)
  OBVIOUS
<1>3. Follows(p, t, k) /\ Follows(q, u, m)
  BY <1>1, <1>2, RollIs
<1>4. k <= m /\ \A n \in 1 .. k : t[n] = u[n]
  BY <1>1
<1>5. \A n \in 0 .. k : p[n] = q[n]
  BY <1>3, <1>4, RollAgrees, SMT
<1>6. QED
  BY <1>1, <1>2, <1>5


LEMMA RollMoves ==
    ASSUME NEW p, NEW t, NEW k \in Nat, Follows(p, t, k), NEW n \in 0 .. k, NEW m \in 0 .. k, n < m
    PROVE  Before(p[n], p[m])
<1> DEFINE T == {l \in 0 .. k : n < l /\ ~Before(p[n], p[l])}
<1>1. \A l \in 0 .. k : p[l].line \in Nat /\ p[l].col \in Nat
  BY RollTypes
<1>2. ASSUME NEW l \in 1 .. k PROVE Before(p[l - 1], p[l])
  <2>1. p[l] = RollNext(p[l - 1], t[l])
    BY DEF Follows
  <2>2. l - 1 \in 0 .. k
    OBVIOUS
  <2>3. QED
    BY <1>1, <2>1, <2>2 DEF RollNext, Before
<1>3. T = {}
  <2> SUFFICES ASSUME T # {} PROVE FALSE
    OBVIOUS
  <2>1. T \subseteq Nat
    OBVIOUS
  <2>2. PICK l \in T : \A j \in T : l <= j
    BY <2>1, LeastNumber
  <2>3. l \in 1 .. k /\ l - 1 \in 0 .. k /\ n < l /\ ~Before(p[n], p[l])
    BY <2>2
  <2>4. Before(p[l - 1], p[l])
    BY <1>2, <2>3
  <2>5. l - 1 # n
    BY <2>3, <2>4
  <2>6. n < l - 1 /\ l - 1 \notin T
    BY <2>2, <2>3, <2>5
  <2>7. Before(p[n], p[l - 1])
    BY <2>3, <2>6
  <2>8. Before(p[n], p[l])
    BY <1>1, <2>3, <2>4, <2>7 DEF Before
  <2>9. QED
    BY <2>3, <2>8
<1>4. QED
  BY <1>3

-----------------------------------------------------------------------------
(* What a buffer shows                                                     *)

OnLines == 0 .. (VGA_HEIGHT - 1)
OnCols == 0 .. (VGA_WIDTH - 1)

(* The n-th character of t is at the given place of the roll p.            *)
Put(p, t, n, line, x) == t[n] # Newline /\ p[n - 1].line = line /\ p[n - 1].col = x

(* After k characters, v is what is at the given place.                    *)
ShowsCell(v, p, t, k, line, x) ==
    /\ \A n \in 1 .. k : Put(p, t, n, line, x) => v = t[n]
    /\ (\A n \in 1 .. k : ~Put(p, t, n, line, x)) => v = Blank

(* A buffer shows the first k characters, its lines up to the one given,   *)
(* from the line top of the roll on.                                       *)
ShowsLines(b, p, t, k, top, lines) ==
    /\ b = [i \in Cells |-> b[i]]
    /\ \A y \in lines, x \in OnCols : ShowsCell(b[y * VGA_WIDTH + x], p, t, k, top + y, x)

Shows(b, p, t, k, top) == ShowsLines(b, p, t, k, top, OnLines)

(* Two places on the screen are different cells.                           *)
LEMMA CellsApart ==
    ASSUME NEW x \in OnCols, NEW z \in OnCols, NEW y \in OnLines, NEW w \in OnLines,
           y * VGA_WIDTH + x = w * VGA_WIDTH + z
    PROVE  x = z /\ y = w
<1>1. /\ VGA_WIDTH \in Nat \ {0} /\ y \in Nat /\ w \in Nat /\ x \in Nat /\ z \in Nat
      /\ x < VGA_WIDTH /\ z < VGA_WIDTH
  BY ScreenSizes DEF OnCols, OnLines
<1>2. ASSUME NEW a \in Nat, NEW b \in Nat, a < b, NEW u \in Nat, NEW v \in Nat, u < VGA_WIDTH
      PROVE  a * VGA_WIDTH + u < b * VGA_WIDTH + v
  <2>1. (a + 1) * VGA_WIDTH <= b * VGA_WIDTH
    BY <1>2, LinesBefore
  <2>2. (a + 1) * VGA_WIDTH = a * VGA_WIDTH + VGA_WIDTH
    BY <1>1
  <2>3. a * VGA_WIDTH \in Nat /\ b * VGA_WIDTH \in Nat
    BY <1>1
  <2>4. QED
    BY <1>1, <1>2, <2>1, <2>2, <2>3
<1>3. PICK c \in Nat, d \in Nat : c = y * VGA_WIDTH /\ d = w * VGA_WIDTH
  BY <1>1
<1>4. ~(y < w)
  <2> SUFFICES ASSUME y < w PROVE FALSE
    OBVIOUS
  <2>1. y * VGA_WIDTH + x < w * VGA_WIDTH + z
    BY <1>1, <1>2
  <2>2. c + x < d + z /\ c + x = d + z
    BY <1>3, <2>1
  <2>3. QED
    BY <1>1, <1>3, <2>2
<1>5. ~(w < y)
  <2> SUFFICES ASSUME w < y PROVE FALSE
    OBVIOUS
  <2>1. w * VGA_WIDTH + z < y * VGA_WIDTH + x
    BY <1>1, <1>2
  <2>2. d + z < c + x /\ c + x = d + z
    BY <1>3, <2>1
  <2>3. QED
    BY <1>1, <1>3, <2>2
<1>6. y = w
  BY <1>1, <1>4, <1>5
<1>7. QED
  BY <1>1, <1>3, <1>6

LEMMA OnScreenCell ==
    ASSUME NEW x \in OnCols, NEW y \in OnLines
    PROVE  y * VGA_WIDTH + x \in Cells
BY CellOf, ScreenSizes DEF OnCols, OnLines

(* A character is stored.                                                  *)
LEMMA ShowsEntry ==
    ASSUME NEW p, NEW t, NEW k \in Nat \ {0}, NEW m \in Nat, k <= m, Follows(p, t, m),
           NEW top \in Nat, NEW b, Shows(b, p, t, k - 1, top), t[k] # Newline,
           NEW x \in OnCols, NEW y \in OnLines,
           p[k - 1].line = top + y, p[k - 1].col = x,
           NEW a, a = [b EXCEPT ![y * VGA_WIDTH + x] = t[k]]
    PROVE  Shows(a, p, t, k, top)
<1>1. b = [i \in Cells |-> b[i]]
  BY DEF Shows, ShowsLines
<1>2. a = [i \in Cells |-> a[i]]
  BY <1>1
<1>3. PICK j \in Cells : j = y * VGA_WIDTH + x
  BY OnScreenCell
<1>4. a[j] = t[k] /\ \A i \in Cells : i # j => a[i] = b[i]
  BY <1>1, <1>3
<1>5. ASSUME NEW w \in OnLines, NEW z \in OnCols
      PROVE  ShowsCell(a[w * VGA_WIDTH + z], p, t, k, top + w, z)
  <2>1. PICK i \in Cells : i = w * VGA_WIDTH + z
    BY OnScreenCell
  <2>2. ShowsCell(b[i], p, t, k - 1, top + w, z)
    BY <2>1 DEF Shows, ShowsLines
  <2>3. k - 1 \in Nat /\ y \in Nat /\ w \in Nat
    BY ScreenSizes DEF OnLines
  <2>4. \A n \in 1 .. k : n = k \/ n \in 1 .. (k - 1)
    OBVIOUS
  <2>5. CASE w = y /\ z = x
    <3>1. a[i] = t[k]
      BY <1>3, <1>4, <2>1, <2>5
    <3>2. ASSUME NEW n \in 1 .. (k - 1) PROVE ~Put(p, t, n, top + w, z)
      <4>1. n - 1 \in 0 .. m /\ k - 1 \in 0 .. m /\ n - 1 < k - 1
        OBVIOUS
      <4>2. Before(p[n - 1], p[k - 1])
        BY <4>1, RollMoves
      <4>3. /\ p[n - 1].line \in Nat /\ p[n - 1].col \in Nat
            /\ p[k - 1].line \in Nat /\ p[k - 1].col \in Nat
        BY <4>1, RollTypes
      <4>4. QED
        BY <2>5, <4>2, <4>3 DEF Before, Put
    <3>3. Put(p, t, k, top + w, z)
      BY <2>5 DEF Put
    <3>4. QED
      BY <2>1, <2>4, <3>1, <3>2, <3>3 DEF ShowsCell
  <2>6. CASE ~(w = y /\ z = x)
    <3>1. i # j
      BY <1>3, <2>1, <2>6, CellsApart
    <3>2. a[i] = b[i]
      BY <1>4, <3>1
    <3>3. ~Put(p, t, k, top + w, z)
      BY <2>3, <2>6 DEF Put
    <3>4. QED
      BY <2>1, <2>2, <2>4, <3>2, <3>3 DEF ShowsCell
  <2>7. QED
    BY <2>5, <2>6
<1>6. QED
  BY <1>2, <1>5 DEF Shows, ShowsLines

(* A newline is nowhere on the screen.                                     *)
LEMMA ShowsNewline ==
    ASSUME NEW p, NEW t, NEW k \in Nat \ {0}, NEW top, NEW b,
           Shows(b, p, t, k - 1, top), t[k] = Newline
    PROVE  Shows(b, p, t, k, top)
<1>1. \A n \in 1 .. k : n = k \/ n \in 1 .. (k - 1)
  OBVIOUS
<1>2. \A n \in 1 .. (k - 1) : n \in 1 .. k
  OBVIOUS
<1>3. \A line, x : ~Put(p, t, k, line, x)
  BY DEF Put
<1>4. \A v, line, x : ShowsCell(v, p, t, k - 1, line, x) => ShowsCell(v, p, t, k, line, x)
  BY <1>1, <1>2, <1>3 DEF ShowsCell
<1>5. QED
  BY <1>4 DEF Shows, ShowsLines

(* terminal_scroll, by one line.                                           *)
LEMMA ShowsScrolled ==
    ASSUME NEW p, NEW t, NEW k, NEW top \in Nat, NEW b, Shows(b, p, t, k, top),
           NEW a, a = [i \in Cells |-> IF i < (VGA_HEIGHT - 1) * VGA_WIDTH
                                       THEN b[i + 1 * VGA_WIDTH] ELSE b[i]]
    PROVE  ShowsLines(a, p, t, k, top + 1, 0 .. (VGA_HEIGHT - 2))
<1>1. VGA_WIDTH \in Nat \ {0} /\ VGA_HEIGHT \in Nat \ {0}
  BY ScreenSizes
<1>2. ASSUME NEW y \in 0 .. (VGA_HEIGHT - 2), NEW x \in OnCols
      PROVE  ShowsCell(a[y * VGA_WIDTH + x], p, t, k, (top + 1) + y, x)
  <2>1. y \in OnLines /\ y + 1 \in OnLines /\ y \in Nat /\ y + 1 <= VGA_HEIGHT - 1
    BY <1>1 DEF OnLines
  <2>2. x \in Nat /\ x < VGA_WIDTH
    BY <1>1 DEF OnCols
  <2>3. PICK i \in Cells : i = y * VGA_WIDTH + x
    BY <2>1, OnScreenCell
  <2>4. i < (VGA_HEIGHT - 1) * VGA_WIDTH
    <3>1. (y + 1) * VGA_WIDTH <= (VGA_HEIGHT - 1) * VGA_WIDTH
      BY <1>1, <2>1, LinesBefore
    <3>2. (y + 1) * VGA_WIDTH = y * VGA_WIDTH + VGA_WIDTH /\ y * VGA_WIDTH \in Nat
      BY <1>1, <2>1
    <3>3. (VGA_HEIGHT - 1) * VGA_WIDTH \in Int
      BY <1>1
    <3>4. QED
      BY <1>1, <2>2, <2>3, <3>1, <3>2, <3>3
  <2>5. i + 1 * VGA_WIDTH = (y + 1) * VGA_WIDTH + x
    BY <1>1, <2>1, <2>2, <2>3
  <2>6. a[i] = b[(y + 1) * VGA_WIDTH + x]
    BY <2>4, <2>5
  <2>7. ShowsCell(b[(y + 1) * VGA_WIDTH + x], p, t, k, top + (y + 1), x)
    BY <2>1 DEF Shows, ShowsLines
  <2>8. top + (y + 1) = (top + 1) + y
    BY <2>1
  <2>9. QED
    BY <2>3, <2>6, <2>7, <2>8
<1>3. a = [i \in Cells |-> a[i]]
  OBVIOUS
<1>4. QED
  BY <1>2, <1>3 DEF ShowsLines

(* The last line is cleared: nothing has been written on it yet.           *)
LEMMA ShowsCleared ==
    ASSUME NEW p, NEW t, NEW k \in Nat \ {0}, NEW m \in Nat, k <= m, Follows(p, t, m),
           NEW top \in Nat, p[k - 1].line < top + VGA_HEIGHT,
           NEW b, ShowsLines(b, p, t, k, top + 1, 0 .. (VGA_HEIGHT - 2)),
           NEW first, first = (VGA_HEIGHT - 1) * VGA_WIDTH,
           NEW a, a = [i \in Cells |-> IF i \in first .. (first + VGA_WIDTH - 1)
                                       THEN Blank ELSE b[i]]
    PROVE  Shows(a, p, t, k, top + 1)
<1>1. VGA_WIDTH \in Nat \ {0} /\ VGA_HEIGHT \in Nat \ {0} /\ first \in Nat
  <2>1. VGA_WIDTH \in Nat \ {0} /\ VGA_HEIGHT \in Nat \ {0} /\ VGA_HEIGHT - 1 \in Nat
    BY ScreenSizes
  <2>2. (VGA_HEIGHT - 1) * VGA_WIDTH \in Nat
    BY <2>1
  <2>3. QED
    BY <2>1, <2>2
<1>2. ASSUME NEW y \in OnLines, NEW x \in OnCols
      PROVE  ShowsCell(a[y * VGA_WIDTH + x], p, t, k, (top + 1) + y, x)
  <2>1. x \in Nat /\ x < VGA_WIDTH /\ y \in Nat /\ y <= VGA_HEIGHT - 1
    BY <1>1 DEF OnCols, OnLines
  <2>2. PICK i \in Cells : i = y * VGA_WIDTH + x
    BY OnScreenCell
  <2>3. CASE y = VGA_HEIGHT - 1
    <3>1. i = first + x
      BY <2>2, <2>3
    <3>2. i \in first .. (first + VGA_WIDTH - 1)
      BY <1>1, <2>1, <3>1
    <3>3. a[i] = Blank
      BY <3>2
    <3>4. ASSUME NEW n \in 1 .. k PROVE ~Put(p, t, n, (top + 1) + y, x)
      <4>1. n - 1 \in 0 .. m /\ k - 1 \in 0 .. m /\ (n - 1 < k - 1 \/ n - 1 = k - 1)
        OBVIOUS
      <4>2. Before(p[n - 1], p[k - 1]) \/ n - 1 = k - 1
        BY <4>1, RollMoves
      <4>3. p[n - 1].line \in Nat /\ p[k - 1].line \in Nat
        BY <4>1, RollTypes
      <4>4. p[n - 1].line <= p[k - 1].line
        BY <4>2, <4>3 DEF Before
      <4>5. QED
        BY <1>1, <2>3, <4>3, <4>4 DEF Put
    <3>5. QED
      BY <2>2, <3>3, <3>4 DEF ShowsCell
  <2>4. CASE y # VGA_HEIGHT - 1
    <3>1. y \in 0 .. (VGA_HEIGHT - 2) /\ y + 1 <= VGA_HEIGHT - 1 /\ y + 1 \in Nat
          /\ VGA_HEIGHT - 1 \in Nat
      BY <1>1, <2>1, <2>4, SMTT(30)
    <3>2. i < first
      <4>1. (y + 1) * VGA_WIDTH <= first
        BY <3>1, LinesBefore
      <4>2. (y + 1) * VGA_WIDTH = y * VGA_WIDTH + VGA_WIDTH /\ y * VGA_WIDTH \in Nat
        BY <1>1, <2>1
      <4>3. QED
        BY <1>1, <2>1, <2>2, <4>1, <4>2
    <3>3. i \in Int
      BY ScreenSizes
    <3>4. a[i] = b[i]
      BY <1>1, <3>2, <3>3
    <3>5. QED
      BY <2>2, <3>1, <3>4 DEF ShowsLines
  <2>5. QED
    BY <2>3, <2>4
<1>3. a = [i \in Cells |-> a[i]]
  OBVIOUS
<1>4. QED
  BY <1>2, <1>3 DEF Shows, ShowsLines

(* A buffer shows the same of two texts that agree so far.                 *)
LEMMA ShowsSame ==
    ASSUME NEW p, NEW q, NEW t, NEW u, NEW k \in Nat, NEW top, NEW b, Shows(b, p, t, k, top),
           \A n \in 0 .. k : p[n] = q[n], \A n \in 1 .. k : t[n] = u[n]
    PROVE  Shows(b, q, u, k, top)
<1>1. \A n \in 1 .. k : n - 1 \in 0 .. k
  OBVIOUS
<1>2. \A n \in 1 .. k : \A line, x : Put(p, t, n, line, x) = Put(q, u, n, line, x)
  BY <1>1 DEF Put
<1>3. \A v, line, x : ShowsCell(v, p, t, k, line, x) => ShowsCell(v, q, u, k, line, x)
  BY <1>2 DEF ShowsCell
<1>4. QED
  BY <1>3 DEF Shows, ShowsLines

(* The line of the roll that is the first on the screen after k characters.*)
TopAt(p, k) == IF p[k].line < VGA_HEIGHT THEN 0 ELSE p[k].line - VGA_HEIGHT + 1

LEMMA TopFacts ==
    ASSUME NEW p, NEW t, NEW k \in Nat, NEW m \in Nat, k <= m, Follows(p, t, m)
    PROVE  /\ TopAt(p, k) \in Nat /\ p[k].line - TopAt(p, k) \in OnLines
           /\ p[k].line \in Nat /\ p[k].col \in OnCols /\ p[k].col \in Nat
<1>1. k \in 0 .. m
  OBVIOUS
<1>2. p[k].line \in Nat /\ p[k].col \in Nat /\ p[k].col < VGA_WIDTH
  BY <1>1, RollTypes
<1>3. QED
  BY <1>2, ScreenSizes DEF TopAt, OnLines, OnCols

LEMMA CellPlace ==
    ASSUME NEW i \in Cells
    PROVE  /\ i \div VGA_WIDTH \in OnLines /\ i % VGA_WIDTH \in OnCols
           /\ i = (i \div VGA_WIDTH) * VGA_WIDTH + (i % VGA_WIDTH)
<1>1. /\ VGA_WIDTH \in Nat \ {0} /\ VGA_HEIGHT \in Nat \ {0} /\ i \in Nat
      /\ i < VGA_HEIGHT * VGA_WIDTH
  BY ScreenSizes
<1>2. /\ i \div VGA_WIDTH \in Nat /\ i % VGA_WIDTH \in 0 .. (VGA_WIDTH - 1)
      /\ i = VGA_WIDTH * (i \div VGA_WIDTH) + (i % VGA_WIDTH)
  BY <1>1
<1>3. PICK q \in Nat, r \in Nat : q = i \div VGA_WIDTH /\ r = i % VGA_WIDTH /\ r < VGA_WIDTH
  BY <1>1, <1>2
<1>4. i = q * VGA_WIDTH + r
  BY <1>1, <1>2, <1>3
<1>5. q < VGA_HEIGHT
  <2> SUFFICES ASSUME VGA_HEIGHT <= q PROVE FALSE
    BY <1>1, <1>3
  <2>1. VGA_HEIGHT * VGA_WIDTH <= q * VGA_WIDTH
    BY <1>1, LinesBefore
  <2>2. VGA_HEIGHT * VGA_WIDTH \in Nat /\ q * VGA_WIDTH \in Nat
    BY <1>1
  <2>3. QED
    BY <1>1, <1>3, <1>4, <2>1, <2>2
<1>6. QED
  BY <1>1, <1>3, <1>4, <1>5 DEF OnLines, OnCols

(* A buffer that shows all of a text is the end of its roll.               *)
LEMMA ShownIs ==
    ASSUME NEW t, Len(t) \in Nat, NEW b,
           Shows(b, Roll(t), t, Len(t), TopAt(Roll(t), Len(t)))
    PROVE  b = Shown(t)
<1>0. PICK k \in Nat : k = Len(t)
  OBVIOUS
<1>1. PICK p : p = Roll(t) /\ k = Len(t)
  BY <1>0
<1>2. Follows(p, t, k) /\ k <= k
  BY <1>1, RollIs
<1>3. PICK top \in Nat : top = TopAt(p, k)
  BY <1>2, TopFacts
<1>4. p[k].line \in Nat /\ VGA_HEIGHT \in Nat \ {0}
  BY <1>2, TopFacts, ScreenSizes
<1>5. Max({0, p[k].line - VGA_HEIGHT + 1}) = top
  <2> DEFINE M == {0, p[k].line - VGA_HEIGHT + 1}
  <2>1. top \in M /\ \A y \in M : top >= y
    BY <1>3, <1>4 DEF TopAt
  <2>2. M \subseteq Int
    BY <1>4
  <2> HIDE DEF M
  <2>3. Max(M) \in M /\ \A y \in M : Max(M) >= y
    BY <2>1 DEF Max
  <2>4. PICK x : x = Max(M)
    OBVIOUS
  <2>5. x \in Int /\ x >= top /\ top >= x
    BY <2>1, <2>2, <2>3, <2>4
  <2>6. QED
    BY <2>4, <2>5 DEF M
<1> DEFINE at(i) == {n \in 1 .. k :
                       /\ t[n] # Newline
                       /\ p[n - 1] = [line |-> top + i \div VGA_WIDTH, col |-> i % VGA_WIDTH]}
<1>6. Shown(t) = [i \in Cells |-> IF at(i) = {} THEN Blank ELSE t[Max(at(i))]]
  BY <1>1, <1>5 DEF Shown
<1>7. ASSUME NEW i \in Cells
      PROVE  b[i] = IF at(i) = {} THEN Blank ELSE t[Max(at(i))]
  <2>1. PICK y \in OnLines, x \in OnCols :
            y = i \div VGA_WIDTH /\ x = i % VGA_WIDTH /\ i = y * VGA_WIDTH + x
    BY CellPlace
  <2>2. ShowsCell(b[i], p, t, k, top + y, x)
    BY <1>1, <1>3, <2>1 DEF Shows, ShowsLines
  <2> DEFINE A == at(i)
  <2>3. A = {n \in 1 .. k : Put(p, t, n, top + y, x)}
    <3>1. \A n \in 1 .. k : p[n - 1] = [line |-> p[n - 1].line, col |-> p[n - 1].col]
      <4>1. \A n \in 1 .. k : n - 1 \in 0 .. k
        OBVIOUS
      <4>2. QED
        BY <1>2, <4>1, RollTypes
    <3>2. \A n \in 1 .. k :
            (p[n - 1] = [line |-> top + y, col |-> x]) <=> (p[n - 1].line = top + y /\ p[n - 1].col = x)
      BY <3>1
    <3>3. A = {n \in 1 .. k : t[n] # Newline /\ p[n - 1] = [line |-> top + y, col |-> x]}
      BY <2>1
    <3> HIDE DEF A
    <3>4. QED
      BY <3>2, <3>3 DEF Put
  <2> HIDE DEF A
  <2>4. CASE A = {}
    BY <2>2, <2>3, <2>4 DEF ShowsCell, A
  <2>5. CASE A # {}
    <3>1. PICK n : n \in A
      BY <2>5
    <3>2. ASSUME NEW l \in A, NEW j \in A, l < j PROVE FALSE
      <4>1. l - 1 \in 0 .. k /\ j - 1 \in 0 .. k /\ l - 1 < j - 1
        BY <2>3, <3>2
      <4>2. Before(p[l - 1], p[j - 1])
        BY <1>2, <4>1, RollMoves
      <4>3. p[l - 1].line = p[j - 1].line /\ p[l - 1].col = p[j - 1].col
        BY <2>3 DEF Put
      <4>4. p[j - 1].line \in Nat /\ p[j - 1].col \in Nat
        BY <1>2, <4>1, RollTypes
      <4>5. QED
        BY <4>2, <4>3, <4>4 DEF Before
    <3>3. A \subseteq Nat
      BY <2>3
    <3>4. \A l \in A : n >= l
      BY <3>1, <3>2, <3>3
    <3>5. Max(A) \in A
      BY <3>1, <3>4 DEF Max
    <3>6. PICK l : l = Max(A)
      OBVIOUS
    <3>7. b[i] = t[l]
      BY <2>2, <2>3, <3>5, <3>6 DEF ShowsCell
    <3>8. QED
      BY <2>5, <3>6, <3>7 DEF A
  <2>6. QED
    BY <2>4, <2>5
<1>8. b = [i \in Cells |-> b[i]]
  BY DEF Shows, ShowsLines
<1> HIDE DEF at
<1>9. QED
  BY <1>6, <1>7, <1>8

LEMMA CursorAfterIs ==
    ASSUME NEW t, Len(t) \in Nat
    PROVE  LET p == Roll(t)[Len(t)]
           IN  CursorAfter(t) = [x |-> p.col, y |-> p.line - TopAt(Roll(t), Len(t))]
<1>0. PICK k \in Nat : k = Len(t)
  OBVIOUS
<1>1. PICK p : p = Roll(t) /\ k = Len(t)
  BY <1>0
<1>2. Follows(p, t, k) /\ k <= k
  BY <1>1, RollIs
<1>3. p[k].line \in Nat /\ VGA_HEIGHT \in Nat \ {0}
  BY <1>2, TopFacts, ScreenSizes
<1>4. PICK y \in Nat : y = p[k].line - TopAt(p, k)
  BY <1>2, <1>3, TopFacts DEF OnLines
<1>5. Min({p[k].line, VGA_HEIGHT - 1}) = y
  <2> DEFINE M == {p[k].line, VGA_HEIGHT - 1}
  <2>1. y \in M /\ \A z \in M : y <= z
    BY <1>3, <1>4 DEF TopAt
  <2>2. M \subseteq Int
    BY <1>3
  <2> HIDE DEF M
  <2>3. Min(M) \in M /\ \A z \in M : Min(M) <= z
    BY <2>1 DEF Min
  <2>4. PICK x : x = Min(M)
    OBVIOUS
  <2>5. x \in Int /\ x <= y /\ y <= x
    BY <2>1, <2>2, <2>3, <2>4
  <2>6. QED
    BY <2>4, <2>5 DEF M
<1>6. QED
  BY <1>1, <1>4, <1>5 DEF CursorAfter

-----------------------------------------------------------------------------
(* The screen while a context prints alone                                 *)

(* Both buffers show the first k characters of t.                          *)
Both(p, t, k, top) == Shows(term_backbuff, p, t, k, top) /\ Shows(term_frontbuff, p, t, k, top)

CursorIs(x, y) == term_cursor_x = x /\ term_cursor_y = y

(* Between characters, after the first k of t.                             *)
Rest(p, t, k) ==
    /\ Both(p, t, k, TopAt(p, k))
    /\ CursorIs(p[k].col, p[k].line - TopAt(p, k))
    /\ k > 0 => crtc = term_cursor_y * VGA_WIDTH + term_cursor_x

(* The line of the k-th character ends with it.                            *)
Breaks(p, t, k) == t[k] = Newline \/ p[k - 1].col = VGA_WIDTH - 1

(* In the middle of the k-th character of t: what the buffers show and     *)
(* where the cursor is at each step of vgaterm_putchar.                    *)
Middle(c, p, t, k) ==
    LET r == putchar[c]
        top == TopAt(p, k - 1)
        x == p[k - 1].col
        y == p[k - 1].line - top
    IN  /\ r.char = t[k]
        /\ r.x = term_cursor_x
        /\ r.at \notin {"clear", "home"} => r.y = term_cursor_y
        /\ r.at \in {"entry", "advance"} => t[k] # Newline /\ CursorIs(x, y)
        /\ r.at = "entry" => Both(p, t, k - 1, top)
        /\ r.at \in {"advance", "column0", "down", "test", "scroll"} => Both(p, t, k, top)
        /\ r.at \in {"column0", "down"} => Breaks(p, t, k) /\ term_cursor_y = y
        /\ r.at = "down" => term_cursor_x = 0
        /\ r.at \in {"test", "scroll"} => CursorIs(p[k].col, p[k].line - top)
        /\ r.at \in {"scroll", "clear", "home", "display"} =>
              term_cursor_x = p[k].col /\ p[k].line = top + VGA_HEIGHT
        /\ r.at = "clear" => r.y = 1 /\ ShowsLines(term_backbuff, p, t, k, top + 1, 0 .. (VGA_HEIGHT - 2))
        /\ r.at \in {"home", "display"} => Shows(term_backbuff, p, t, k, top + 1)
        /\ r.at = "display" => term_cursor_y = VGA_HEIGHT - 1
        /\ r.at = "cursor" =>
              Both(p, t, k, TopAt(p, k)) /\ CursorIs(p[k].col, p[k].line - TopAt(p, k))

(* A call that prints the end of t, what follows the first d characters.   *)
Progress(c, p, t, d) ==
    LET r == call[c]
    IN  /\ r.at = "format" \/ (r.at = "console" /\ r.con = 1) => Rest(p, t, d)
        /\ r.at = "write" /\ r.con = 1 =>
              \A k \in 0 .. Len(t) : k + 1 = d + r.n =>
                  /\ Outside(c) => Rest(p, t, k)
                  /\ ~Outside(c) => k > 0 /\ Middle(c, p, t, k)
        /\ r.at \in {"console", "write"} /\ r.con # 1 => Outside(c) /\ Rest(p, t, Len(t))

(* All that is ever printed.                                               *)
AllTexts == Texts \cup {Box, UnhandledText, PanicText, FarewellText, <<".">>}

(* The end of t, from d on, is s.                                          *)
EndsWith(t, d, s) == Len(t) = d + Len(s) /\ \A i \in 1 .. Len(s) : t[d + i] = s[i]

(* The terminal is the first console, and the only one of its kind.        *)
ConsInv == cons[1] = "vga" /\ \A j \in DOMAIN cons : j # 1 => cons[j] = "serial"

(* The call of context c prints the end of t, alone.                       *)
AlonePrints(c, t) ==
    \E s \in AllTexts, d \in 0 .. Len(t) :
        EndsWith(t, d, s) /\ Prints(c, s) /\ Progress(c, Roll(t), t, d)

(* Unless prints have raced, the screen shows the text: all of it, or as   *)
(* far as the one call that is printing has come.                          *)
TextInv ==
    ~raced => \A t \in {text} :
        /\ (\A c \in Contexts : Silent(c)) => Rest(Roll(t), t, Len(t))
        /\ \A c \in Contexts : ~Silent(c) => AlonePrints(c, t)

ScreenInv == HealInv /\ ConsoleTypes /\ ConsInv /\ (\E S : text \in Seq(S)) /\ TextInv

(* Where the k-th character leads.                                         *)
LEMMA NextPlace ==
    ASSUME NEW p, NEW t, NEW k \in Nat \ {0}, NEW m \in Nat, k <= m, Follows(p, t, m)
    PROVE  LET top == TopAt(p, k - 1)
               line == p[k - 1].line
               col == p[k - 1].col
           IN  /\ top \in Nat /\ line \in Nat /\ col \in Nat /\ col < VGA_WIDTH
               /\ top <= line /\ line < top + VGA_HEIGHT
               /\ p[k].line \in Nat /\ p[k].col \in Nat /\ p[k].col < VGA_WIDTH
               /\ Breaks(p, t, k) => p[k].line = line + 1 /\ p[k].col = 0
               /\ ~Breaks(p, t, k) => p[k].line = line /\ p[k].col = col + 1
               /\ p[k].line <= top + VGA_HEIGHT
               /\ p[k].line < top + VGA_HEIGHT => TopAt(p, k) = top
               /\ p[k].line = top + VGA_HEIGHT => TopAt(p, k) = top + 1
<1>1. k - 1 \in 0 .. m /\ k \in 0 .. m /\ k \in 1 .. m
  OBVIOUS
<1>2. /\ p[k - 1].line \in Nat /\ p[k - 1].col \in Nat /\ p[k - 1].col < VGA_WIDTH
      /\ p[k].line \in Nat /\ p[k].col \in Nat /\ p[k].col < VGA_WIDTH
  BY <1>1, RollTypes
<1>3. p[k] = RollNext(p[k - 1], t[k])
  BY <1>1 DEF Follows
<1>4. /\ Breaks(p, t, k) => p[k].line = p[k - 1].line + 1 /\ p[k].col = 0
      /\ ~Breaks(p, t, k) => p[k].line = p[k - 1].line /\ p[k].col = p[k - 1].col + 1
  BY <1>3 DEF RollNext, Breaks
<1>5. VGA_WIDTH \in Nat \ {0} /\ VGA_HEIGHT \in Nat \ {0}
  BY ScreenSizes
<1>6. PICK line \in Nat, next \in Nat : line = p[k - 1].line /\ next = p[k].line
  BY <1>2
<1>7. /\ TopAt(p, k - 1) = IF line < VGA_HEIGHT THEN 0 ELSE line - VGA_HEIGHT + 1
      /\ TopAt(p, k) = IF next < VGA_HEIGHT THEN 0 ELSE next - VGA_HEIGHT + 1
  BY <1>6 DEF TopAt
<1>8. next = line \/ next = line + 1
  BY <1>4, <1>6
<1>9. QED
  BY <1>2, <1>4, <1>5, <1>6, <1>7, <1>8, SMTT(30)

(* The putting of a character that nothing disturbs.                       *)
LEMMA MiddleStep ==
    ASSUME TermTypes, NEW c \in Contexts, NEW p, NEW t, NEW k \in Nat \ {0}, NEW m \in Nat, k <= m,
           Follows(p, t, m), Middle(c, p, t, k), ~Outside(c), PutcharStep(c)
    PROVE  /\ Outside(c)' => Rest(p, t, k)'
           /\ ~Outside(c)' => Middle(c, p, t, k)'
<1>1. PICK top : top = TopAt(p, k - 1)
  OBVIOUS
<1>2. PICK line, col : line = p[k - 1].line /\ col = p[k - 1].col
  OBVIOUS
<1>3. /\ top \in Nat /\ line \in Nat /\ col \in Nat /\ col < VGA_WIDTH
      /\ top <= line /\ line < top + VGA_HEIGHT
      /\ p[k].line \in Nat /\ p[k].col \in Nat /\ p[k].col < VGA_WIDTH
      /\ Breaks(p, t, k) => p[k].line = line + 1 /\ p[k].col = 0
      /\ ~Breaks(p, t, k) => p[k].line = line /\ p[k].col = col + 1
      /\ p[k].line <= top + VGA_HEIGHT
      /\ p[k].line < top + VGA_HEIGHT => TopAt(p, k) = top
      /\ p[k].line = top + VGA_HEIGHT => TopAt(p, k) = top + 1
  BY <1>1, <1>2, NextPlace
<1>4. /\ VGA_WIDTH \in Nat \ {0} /\ VGA_HEIGHT \in Nat \ {0}
      /\ term_cursor_x \in Nat /\ term_cursor_y \in Nat
  BY ScreenSizes DEF TermTypes
<1> DEFINE r == putchar[c]
<1>5. /\ r.char = t[k] /\ r.x = term_cursor_x
      /\ r.at \notin {"clear", "home"} => r.y = term_cursor_y
      /\ r.at \in {"entry", "advance"} => t[k] # Newline /\ CursorIs(col, line - top)
      /\ r.at = "entry" => Both(p, t, k - 1, top)
      /\ r.at \in {"advance", "column0", "down", "test", "scroll"} => Both(p, t, k, top)
      /\ r.at \in {"column0", "down"} => Breaks(p, t, k) /\ term_cursor_y = line - top
      /\ r.at = "down" => term_cursor_x = 0
      /\ r.at \in {"test", "scroll"} => CursorIs(p[k].col, p[k].line - top)
      /\ r.at \in {"scroll", "clear", "home", "display"} =>
            term_cursor_x = p[k].col /\ p[k].line = top + VGA_HEIGHT
      /\ r.at = "clear" => r.y = 1 /\ ShowsLines(term_backbuff, p, t, k, top + 1, 0 .. (VGA_HEIGHT - 2))
      /\ r.at \in {"home", "display"} => Shows(term_backbuff, p, t, k, top + 1)
      /\ r.at = "display" => term_cursor_y = VGA_HEIGHT - 1
      /\ r.at = "cursor" =>
            Both(p, t, k, TopAt(p, k)) /\ CursorIs(p[k].col, p[k].line - TopAt(p, k))
  BY <1>1, <1>2 DEF Middle
<1>6. \* the next state of the character, in the same terms
      ASSUME NEW at, NEW x, NEW y, Moved(c, at, x, y), x = term_cursor_x', at # "out",
             at \notin {"clear", "home"} => y = term_cursor_y',
             at \in {"advance"} => t[k] # Newline /\ CursorIs(col, line - top)',
             at # "entry",
             at \in {"advance", "column0", "down", "test", "scroll"} => Both(p, t, k, top)',
             at \in {"column0", "down"} => Breaks(p, t, k) /\ term_cursor_y' = line - top,
             at = "down" => term_cursor_x' = 0,
             at \in {"test", "scroll"} => CursorIs(p[k].col, p[k].line - top)',
             at \in {"scroll", "clear", "home", "display"} =>
                term_cursor_x' = p[k].col /\ p[k].line = top + VGA_HEIGHT,
             at = "clear" => y = 1 /\ ShowsLines(term_backbuff', p, t, k, top + 1, 0 .. (VGA_HEIGHT - 2)),
             at \in {"home", "display"} => Shows(term_backbuff', p, t, k, top + 1),
             at = "display" => term_cursor_y' = VGA_HEIGHT - 1,
             at = "cursor" =>
                Both(p, t, k, TopAt(p, k))' /\ CursorIs(p[k].col, p[k].line - TopAt(p, k))'
      PROVE  Middle(c, p, t, k)' /\ ~Outside(c)'
  <2>1. putchar'[c].at = at /\ putchar'[c].char = t[k] /\ putchar'[c].x = x /\ putchar'[c].y = y
    BY <1>5, <1>6 DEF Moved
  <2>2. QED
    BY <1>1, <1>2, <1>6, <2>1 DEF Middle, Outside
<1>7. CASE terminal_putentryat(c)
  <2>1. PICK x \in X(c), y \in Y(c) :
          /\ Moved(c, "advance", x, y)
          /\ IF y * VGA_WIDTH + x \in Cells
             THEN /\ term_backbuff' = [term_backbuff EXCEPT ![y * VGA_WIDTH + x] = r.char]
                  /\ term_frontbuff' = [term_frontbuff EXCEPT ![y * VGA_WIDTH + x] = r.char]
             ELSE TRUE
    <3>1. PICK x \in X(c), y \in Y(c) :
            /\ putchar' = [putchar EXCEPT ![c].at = "advance", ![c].x = x, ![c].y = y]
            /\ IF y * VGA_WIDTH + x \in Cells
               THEN /\ term_backbuff' = [term_backbuff EXCEPT ![y * VGA_WIDTH + x] = r.char]
                    /\ term_frontbuff' = [term_frontbuff EXCEPT ![y * VGA_WIDTH + x] = r.char]
               ELSE TRUE
      BY <1>7 DEF terminal_putentryat
    <3>2. putchar' = [putchar EXCEPT ![c] = [putchar[c] EXCEPT !.at = "advance", !.x = x, !.y = y]]
      BY <3>1 DEF TermTypes
    <3>3. Moved(c, "advance", x, y)
      BY <3>2, MovedAll
    <3>4. QED
      BY <3>1, <3>3
  <2>2. r.at = "entry" /\ term_cursor_x' = term_cursor_x /\ term_cursor_y' = term_cursor_y
    BY <1>7 DEF terminal_putentryat
  <2>3. x = col /\ y = line - top /\ CursorIs(col, line - top) /\ t[k] # Newline
        /\ Both(p, t, k - 1, top)
    BY <1>5, <2>1, <2>2 DEF X, Y, CursorIs
  <2>4. x \in OnCols /\ y \in OnLines /\ line = top + y
    BY <1>3, <1>4, <2>3 DEF OnCols, OnLines
  <2>5. /\ term_backbuff' = [term_backbuff EXCEPT ![y * VGA_WIDTH + x] = t[k]]
        /\ term_frontbuff' = [term_frontbuff EXCEPT ![y * VGA_WIDTH + x] = t[k]]
    BY <1>5, <2>1, <2>4, OnScreenCell
  <2>6. Both(p, t, k, top)'
    <3>1. p[k - 1].line = top + y /\ p[k - 1].col = x
      BY <1>2, <2>3, <2>4
    <3>2. Shows(term_backbuff, p, t, k - 1, top) /\ Shows(term_frontbuff, p, t, k - 1, top)
      BY <2>3 DEF Both
    <3>3. Shows(term_backbuff', p, t, k, top)
      BY <1>3, <2>3, <2>4, <2>5, <3>1, <3>2, ShowsEntry
    <3>4. Shows(term_frontbuff', p, t, k, top)
      BY <1>3, <2>3, <2>4, <2>5, <3>1, <3>2, ShowsEntry
    <3>5. QED
      BY <3>3, <3>4 DEF Both
  <2>7. Middle(c, p, t, k)' /\ ~Outside(c)'
    BY <1>6, <2>1, <2>2, <2>3, <2>6 DEF CursorIs
  <2>8. QED
    BY <2>7
<1>8. CASE Advance(c)
  <2>1. AdvanceStep(c) /\ UNCHANGED <<term_backbuff, term_frontbuff>>
    BY <1>8, AdvanceEffect DEF Advance
  <2>2. PICK x \in X(c) :
          /\ Moved(c, IF x + 1 = VGA_WIDTH THEN "column0" ELSE "test", x + 1, r.y)
          /\ Cursor(x + 1, term_cursor_y)
    BY <2>1 DEF AdvanceStep
  <2>3. r.at = "advance" /\ t[k] # Newline /\ CursorIs(col, line - top) /\ x = col
        /\ Both(p, t, k, top)' /\ r.y = term_cursor_y
        /\ term_cursor_x' = col + 1 /\ term_cursor_y' = term_cursor_y
    BY <1>5, <2>1, <2>2 DEF AdvanceStep, X, CursorIs, Both, Cursor
  <2>4. CASE x + 1 = VGA_WIDTH
    <3>1. Breaks(p, t, k) /\ term_cursor_y' = line - top
      BY <1>2, <1>3, <1>4, <2>3, <2>4 DEF Breaks, CursorIs
    <3>2. Moved(c, "column0", x + 1, r.y)
      BY <2>2, <2>4
    <3>3. QED
      BY <1>6, <2>3, <3>1, <3>2
  <2>5. CASE x + 1 # VGA_WIDTH
    <3>1. ~Breaks(p, t, k)
      BY <1>2, <1>3, <1>4, <2>3, <2>5 DEF Breaks
    <3>2. CursorIs(p[k].col, p[k].line - top)'
      BY <1>3, <2>3, <3>1 DEF CursorIs
    <3>3. Moved(c, "test", x + 1, r.y)
      BY <2>2, <2>5
    <3>4. QED
      BY <1>6, <2>3, <3>2, <3>3
  <2>6. QED
    BY <2>4, <2>5
<1>9. CASE Column0(c)
  <2>1. ColumnStep(c) /\ UNCHANGED <<term_backbuff, term_frontbuff>>
    BY <1>9, ColumnEffect DEF Column0
  <2>2. /\ r.at = "column0" /\ Moved(c, "down", 0, r.y) /\ term_cursor_x' = 0
        /\ term_cursor_y' = term_cursor_y /\ Breaks(p, t, k) /\ term_cursor_y = line - top
        /\ Both(p, t, k, top)' /\ r.y = term_cursor_y
    BY <1>5, <2>1 DEF ColumnStep, Cursor, Both
  <2>3. QED
    BY <1>6, <2>2
<1>10. CASE Down(c)
  <2>1. DownStep(c) /\ UNCHANGED <<term_backbuff, term_frontbuff>>
    BY <1>10, DownEffect DEF Down
  <2>2. PICK y \in Y(c) : Moved(c, "test", r.x, y + 1) /\ Cursor(term_cursor_x, y + 1)
    BY <2>1 DEF DownStep
  <2>3. /\ r.at = "down" /\ Breaks(p, t, k) /\ y = line - top /\ Both(p, t, k, top)'
        /\ term_cursor_x' = 0 /\ term_cursor_y' = y + 1 /\ r.x = 0
    BY <1>5, <2>1, <2>2 DEF DownStep, Y, Cursor, Both
  <2>4. CursorIs(p[k].col, p[k].line - top)'
    BY <1>3, <2>3 DEF CursorIs
  <2>5. QED
    BY <1>6, <2>2, <2>3, <2>4
<1>11. CASE Test(c)
  <2>1. TestStep(c) /\ UNCHANGED <<term_backbuff, term_frontbuff>>
    BY <1>11, TestEffect DEF Test
  <2>2. PICK y \in Y(c) : Moved(c, IF y >= VGA_HEIGHT THEN "scroll" ELSE "cursor", r.x, y)
    BY <2>1 DEF TestStep
  <2>3. /\ r.at = "test" /\ CursorIs(p[k].col, p[k].line - top) /\ y = p[k].line - top
        /\ Both(p, t, k, top)' /\ Both(p, t, k, top)
        /\ term_cursor_x' = term_cursor_x /\ term_cursor_y' = term_cursor_y
        /\ r.x = term_cursor_x /\ y = term_cursor_y
    BY <1>5, <2>1, <2>2 DEF TestStep, Y, Cursor, Both, CursorIs
  <2>4. CASE y >= VGA_HEIGHT
    <3>1. p[k].line = top + VGA_HEIGHT
      BY <1>3, <1>4, <2>3, <2>4
    <3>2. Moved(c, "scroll", r.x, y)
      BY <2>2, <2>4
    <3>3. CursorIs(p[k].col, p[k].line - top)' /\ term_cursor_x' = p[k].col
      BY <2>3 DEF CursorIs
    <3>4. QED
      BY <1>6, <2>3, <3>1, <3>2, <3>3
  <2>5. CASE ~(y >= VGA_HEIGHT)
    <3>1. TopAt(p, k) = top
      BY <1>3, <1>4, <2>3, <2>5
    <3>2. Moved(c, "cursor", r.x, y)
      BY <2>2, <2>5
    <3>3. CursorIs(p[k].col, p[k].line - TopAt(p, k))' /\ Both(p, t, k, TopAt(p, k))'
      BY <2>3, <3>1 DEF CursorIs, Both
    <3>4. QED
      BY <1>6, <2>3, <3>2, <3>3
  <2>6. QED
    BY <2>4, <2>5
<1>12. CASE terminal_scroll(c)
  <2>1. ScrollStep(c) /\ r.at = "scroll"
    BY <1>12, ScrollEffect DEF terminal_scroll
  <2>2. /\ CursorIs(p[k].col, p[k].line - top) /\ p[k].line = top + VGA_HEIGHT
        /\ term_cursor_y = VGA_HEIGHT /\ r.y = VGA_HEIGHT /\ Both(p, t, k, top)
    BY <1>3, <1>4, <1>5, <2>1 DEF CursorIs
  <2>3. \A y \in Y(c) : y = VGA_HEIGHT /\ y - VGA_HEIGHT + 1 = 1
    BY <1>4, <2>2 DEF Y
  <2>4. term_backbuff' = [i \in Cells |-> IF i < (VGA_HEIGHT - 1) * VGA_WIDTH
                                          THEN term_backbuff[i + 1 * VGA_WIDTH] ELSE term_backbuff[i]]
    <3>1. PICK y \in Y(c) :
             term_backbuff' = [i \in Cells |->
                IF i < (VGA_HEIGHT - (y - VGA_HEIGHT + 1)) * VGA_WIDTH
                THEN term_backbuff[i + (y - VGA_HEIGHT + 1) * VGA_WIDTH] ELSE term_backbuff[i]]
      BY <1>12 DEF terminal_scroll
    <3>2. y - VGA_HEIGHT + 1 = 1
      BY <2>3
    <3>3. QED
      BY <3>1, <3>2
  <2>5. ShowsLines(term_backbuff', p, t, k, top + 1, 0 .. (VGA_HEIGHT - 2))
    <3>1. Shows(term_backbuff, p, t, k, top)
      BY <2>2 DEF Both
    <3>2. QED
      BY <1>3, <2>4, <3>1, ShowsScrolled
  <2>6. Moved(c, "clear", r.x, 1) /\ term_cursor_x' = term_cursor_x
    BY <2>1, <2>3 DEF ScrollStep, Cursor
  <2>7. r.x = term_cursor_x' /\ term_cursor_x' = p[k].col
    BY <1>5, <2>2, <2>6 DEF CursorIs
  <2>8. QED
    BY <1>6, <2>2, <2>5, <2>6, <2>7
<1>13. CASE ClearLast(c)
  <2>1. ClearStep(c) /\ r.at = "clear"
    BY <1>13, ClearEffect DEF ClearLast
  <2>2. /\ r.y = 1 /\ term_cursor_x = p[k].col /\ p[k].line = top + VGA_HEIGHT
        /\ ShowsLines(term_backbuff, p, t, k, top + 1, 0 .. (VGA_HEIGHT - 2))
    BY <1>5, <2>1
  <2>3. PICK first : first = (VGA_HEIGHT - 1) * VGA_WIDTH
    OBVIOUS
  <2>4. term_backbuff' = [i \in Cells |-> IF i \in first .. (first + VGA_WIDTH - 1)
                                          THEN Blank ELSE term_backbuff[i]]
    BY <1>13, <2>2, <2>3 DEF ClearLast
  <2>5. p[k - 1].line < top + VGA_HEIGHT
    BY <1>2, <1>3
  <2>6. Shows(term_backbuff', p, t, k, top + 1)
    BY <1>3, <2>2, <2>3, <2>4, <2>5, ShowsCleared
  <2>7. Moved(c, "home", r.x, r.y) /\ term_cursor_x' = term_cursor_x
    BY <2>1 DEF ClearStep, Cursor
  <2>8. r.x = term_cursor_x'
    BY <1>5, <2>7
  <2>9. QED
    BY <1>6, <2>2, <2>6, <2>7, <2>8
<1>14. CASE Home(c)
  <2>1. HomeStep(c) /\ term_backbuff' = term_backbuff
    BY <1>14, HomeEffect DEF Home
  <2>2. /\ r.at = "home" /\ Moved(c, "display", r.x, VGA_HEIGHT - 1)
        /\ term_cursor_x' = term_cursor_x /\ term_cursor_y' = VGA_HEIGHT - 1
    BY <2>1 DEF HomeStep, Cursor
  <2>3. /\ Shows(term_backbuff', p, t, k, top + 1) /\ r.x = term_cursor_x
        /\ term_cursor_x = p[k].col /\ p[k].line = top + VGA_HEIGHT
    BY <1>5, <2>1, <2>2
  <2>4. QED
    BY <1>6, <2>2, <2>3
<1>15. CASE Display(c)
  <2>1. DisplayStep(c) /\ term_backbuff' = term_backbuff /\ term_frontbuff' = term_backbuff
    BY <1>15, DisplayEffect DEF Display
  <2>2. /\ r.at = "display" /\ Moved(c, "cursor", r.x, r.y)
        /\ term_cursor_x' = term_cursor_x /\ term_cursor_y' = term_cursor_y
    BY <2>1 DEF DisplayStep, Cursor
  <2>3. /\ Shows(term_backbuff, p, t, k, top + 1) /\ r.x = term_cursor_x /\ r.y = term_cursor_y
        /\ term_cursor_x = p[k].col /\ p[k].line = top + VGA_HEIGHT
        /\ term_cursor_y = VGA_HEIGHT - 1
    BY <1>5, <2>2
  <2>4. TopAt(p, k) = top + 1 /\ VGA_HEIGHT - 1 = p[k].line - TopAt(p, k)
    BY <1>3, <1>4, <2>3
  <2>5. Both(p, t, k, TopAt(p, k))' /\ CursorIs(p[k].col, p[k].line - TopAt(p, k))'
    BY <2>1, <2>2, <2>3, <2>4 DEF Both, CursorIs
  <2>6. QED
    BY <1>6, <2>2, <2>3, <2>5
<1>16. CASE terminal_update_cursor(c)
  <2>1. /\ CursorStep(c) /\ UNCHANGED <<term_backbuff, term_frontbuff>>
    BY <1>16, CursorEffect DEF terminal_update_cursor
  <2>2. /\ r.at = "cursor" /\ Moved(c, "out", 0, 0)
        /\ term_cursor_x' = term_cursor_x /\ term_cursor_y' = term_cursor_y
    BY <2>1 DEF CursorStep, Cursor
  <2>3. crtc' = term_cursor_y' * VGA_WIDTH + term_cursor_x'
    BY <1>5, <1>16, <2>2 DEF terminal_update_cursor, X, Y
  <2>4. Both(p, t, k, TopAt(p, k))' /\ CursorIs(p[k].col, p[k].line - TopAt(p, k))'
    BY <1>5, <2>1, <2>2 DEF Both, CursorIs
  <2>5. Rest(p, t, k)'
    BY <2>3, <2>4 DEF Rest
  <2>6. Outside(c)'
    BY <2>2 DEF Moved, Outside
  <2>7. QED
    BY <2>5, <2>6
<1>17. QED
  BY <1>7, <1>8, <1>9, <1>10, <1>11, <1>12, <1>13, <1>14, <1>15, <1>16 DEF PutcharStep

(* The call of vgaterm_putchar with the next character.                    *)
LEMMA MiddleStarts ==
    ASSUME TermTypes, NEW c \in Contexts, NEW p, NEW t, NEW k \in Nat \ {0}, NEW m \in Nat, k <= m,
           Follows(p, t, m), Rest(p, t, k - 1), NEW ch, ch = t[k], vgaterm_putchar(c, ch)
    PROVE  ~Outside(c)' /\ Middle(c, p, t, k)'
<1>1. PICK top, line, col :
          top = TopAt(p, k - 1) /\ line = p[k - 1].line /\ col = p[k - 1].col
  OBVIOUS
<1>2. Both(p, t, k - 1, top) /\ CursorIs(col, line - top)
  BY <1>1 DEF Rest
<1>3. PICK at : at = IF ch = Newline THEN "column0" ELSE "entry"
  OBVIOUS
<1>4. /\ putchar' = [putchar EXCEPT ![c] = [at |-> at, char |-> ch, x |-> term_cursor_x,
                                            y |-> term_cursor_y]]
      /\ term_cursor_x' = term_cursor_x /\ term_cursor_y' = term_cursor_y
      /\ term_backbuff' = term_backbuff /\ term_frontbuff' = term_frontbuff
  BY <1>3 DEF vgaterm_putchar
<1>5. putchar'[c] = [at |-> at, char |-> ch, x |-> term_cursor_x, y |-> term_cursor_y]
  BY <1>4 DEF TermTypes
<1>6. /\ putchar'[c].at = at /\ putchar'[c].char = t[k]
      /\ putchar'[c].x = term_cursor_x' /\ putchar'[c].y = term_cursor_y'
  BY <1>4, <1>5
<1>7. CursorIs(col, line - top)'
  BY <1>2, <1>4 DEF CursorIs
<1>8. CASE ch = Newline
  <2>1. at = "column0" /\ Breaks(p, t, k)
    BY <1>3, <1>8 DEF Breaks
  <2>2. /\ Shows(term_backbuff, p, t, k - 1, top) /\ Shows(term_frontbuff, p, t, k - 1, top)
        /\ t[k] = Newline
    BY <1>2, <1>8 DEF Both
  <2>3. Shows(term_backbuff, p, t, k, top) /\ Shows(term_frontbuff, p, t, k, top)
    BY <2>2, ShowsNewline
  <2>4. Both(p, t, k, top)'
    BY <1>4, <2>3 DEF Both
  <2>5. QED
    BY <1>1, <1>6, <1>7, <2>1, <2>4 DEF Middle, Outside, CursorIs
<1>9. CASE ch # Newline
  <2>1. at = "entry" /\ t[k] # Newline
    BY <1>3, <1>9
  <2>2. Both(p, t, k - 1, top)'
    BY <1>2, <1>4 DEF Both
  <2>3. QED
    BY <1>1, <1>6, <1>7, <2>1, <2>2 DEF Middle, Outside, CursorIs
<1>10. QED
  BY <1>8, <1>9

LEMMA RestSame ==
    ASSUME NEW p, NEW q, NEW t, NEW u, NEW k \in Nat, Rest(p, t, k),
           \A n \in 0 .. k : p[n] = q[n], \A n \in 1 .. k : t[n] = u[n]
    PROVE  Rest(q, u, k)
<1>1. p[k] = q[k]
  OBVIOUS
<1>2. TopAt(p, k) = TopAt(q, k)
  BY <1>1 DEF TopAt
<1>3. PICK top : top = TopAt(p, k)
  OBVIOUS
<1>4. Shows(term_backbuff, p, t, k, top) /\ Shows(term_frontbuff, p, t, k, top)
  BY <1>3 DEF Rest, Both
<1>5. Shows(term_backbuff, q, u, k, top) /\ Shows(term_frontbuff, q, u, k, top)
  BY <1>4, ShowsSame
<1>6. QED
  BY <1>1, <1>2, <1>3, <1>5 DEF Rest, Both

LEMMA ScreenUnchanged ==
    ASSUME UNCHANGED termVars
    PROVE  /\ \A c : Outside(c)' = Outside(c)
           /\ \A p, t, k : Rest(p, t, k)' = Rest(p, t, k)
           /\ \A c, p, t, k : Middle(c, p, t, k)' = Middle(c, p, t, k)
<1>1. /\ term_cursor_x' = term_cursor_x /\ term_cursor_y' = term_cursor_y
      /\ term_backbuff' = term_backbuff /\ term_frontbuff' = term_frontbuff
      /\ putchar' = putchar /\ crtc' = crtc
  BY DEF termVars
<1>2. QED
  BY <1>1 DEF Outside, Rest, Middle, Both, CursorIs

(* A call that prints alone goes on.                                       *)
LEMMA ProgressStep ==
    ASSUME TermTypes, CallTypes, PrintInv, ConsoleTypes, ConsInv, NEW c \in Contexts, ~Silent(c),
           NEW t, NEW p, Len(t) \in Nat, Follows(p, t, Len(t)), NEW s, NEW d \in Nat,
           EndsWith(t, d, s), Prints(c, s), Progress(c, p, t, d), PrintStep(c)
    PROVE  /\ Silent(c)' => Rest(p, t, Len(t))'
           /\ ~Silent(c)' => Progress(c, p, t, d)'
<1>1. /\ Len(s) \in Nat /\ Len(t) = d + Len(s) /\ d \in 0 .. Len(t)
      /\ \A i \in 1 .. Len(s) : t[d + i] = s[i]
  BY FitsFacts DEF Prints, EndsWith
<1>2. Len(cons) \in Nat \ {0} /\ DOMAIN cons = 1 .. Len(cons)
  BY ConsLast DEF ConsoleTypes
<1> DEFINE r == call[c]
<1>3. /\ r.at = "format" \/ (r.at = "console" /\ r.con = 1) => Rest(p, t, d)
      /\ r.at = "write" /\ r.con = 1 =>
            \A k \in 0 .. Len(t) : k + 1 = d + r.n =>
                /\ Outside(c) => Rest(p, t, k)
                /\ ~Outside(c) => k > 0 /\ Middle(c, p, t, k)
      /\ r.at \in {"console", "write"} /\ r.con # 1 => Outside(c) /\ Rest(p, t, Len(t))
  BY DEF Progress
<1>4. CASE Format(c)
  <2>1. /\ r.at = "format" /\ UNCHANGED termVars
        /\ \/ Called(c, "format", r.text, r.n + 1, r.len, r.con)
           \/ Called(c, "console", <<>>, 1, 0, 1)
    BY <1>4, FormatEffect
  <2>2. call'[c].at = "format" \/ (call'[c].at = "console" /\ call'[c].con = 1)
    BY <2>1 DEF Called
  <2>3. Rest(p, t, d)'
    BY <1>3, <2>1, ScreenUnchanged
  <2>4. QED
    BY <2>2, <2>3 DEF Silent, Progress
<1>5. CASE NextConsole(c)
  <2>1. /\ r.at = "console" /\ UNCHANGED termVars
        /\ \/ r.con > Len(cons) /\ Called(c, "none", <<>>, 1, 0, 0)
           \/ Called(c, "write", r.text, 1, strlen(Data(c)), r.con)
    BY <1>5, NextEffect
  <2>2. r.con \in 1 .. (Len(cons) + 1) /\ Outside(c)
    BY <2>1 DEF Prints, PrintInv
  <2>3. CASE r.con > Len(cons) /\ Called(c, "none", <<>>, 1, 0, 0)
    <3>1. r.con # 1
      BY <1>2, <2>2, <2>3
    <3>2. Rest(p, t, Len(t))'
      BY <1>3, <2>1, <3>1, ScreenUnchanged
    <3>3. Silent(c)'
      BY <2>3 DEF Called, Silent
    <3>4. QED
      BY <3>2, <3>3
  <2>4. CASE Called(c, "write", r.text, 1, strlen(Data(c)), r.con)
    <3>1. call'[c].at = "write" /\ call'[c].n = 1 /\ call'[c].con = r.con
      BY <2>4 DEF Called
    <3>2. Outside(c)'
      BY <2>1, <2>2, ScreenUnchanged
    <3>3. CASE r.con = 1
      <4>1. Rest(p, t, d)'
        BY <1>3, <2>1, <3>3, ScreenUnchanged
      <4>2. \A k \in 0 .. Len(t) : k + 1 = d + 1 => k = d
        OBVIOUS
      <4>3. QED
        BY <3>1, <3>2, <3>3, <4>1, <4>2 DEF Silent, Progress
    <3>4. CASE r.con # 1
      <4>1. Rest(p, t, Len(t))'
        BY <1>3, <2>1, <3>4, ScreenUnchanged
      <4>2. QED
        BY <3>1, <3>2, <3>4, <4>1 DEF Silent, Progress
    <3>5. QED
      BY <3>3, <3>4
  <2>5. QED
    BY <2>1, <2>3, <2>4
<1>6. CASE WriteDone(c)
  <2>1. /\ r.at = "write" /\ Outside(c) /\ r.n > r.len /\ UNCHANGED termVars
        /\ Called(c, "console", r.text, r.n, r.len, r.con + 1)
    BY <1>6, DoneEffect
  <2>2. call'[c].at = "console" /\ call'[c].con = r.con + 1
    BY <2>1 DEF Called
  <2>3. r.len = Len(s) /\ r.n \in 1 .. (Len(s) + 1) /\ r.con \in 1 .. Len(cons)
    BY <2>1 DEF Prints
  <2>4. r.con + 1 # 1
    BY <1>2, <2>3
  <2>5. Rest(p, t, Len(t))
    <3>0. PICK n, l : n = r.n /\ l = Len(t) /\ l \in Nat
      OBVIOUS
    <3>1. Len(t) + 1 = d + r.n /\ Len(t) \in 0 .. Len(t)
      <4>1. n \in 1 .. (Len(s) + 1) /\ n > Len(s) /\ l = d + Len(s)
        BY <1>1, <2>1, <2>3, <3>0
      <4>2. n = Len(s) + 1
        BY <1>1, <4>1
      <4>3. l + 1 = d + n /\ l \in 0 .. l
        BY <1>1, <3>0, <4>1, <4>2
      <4>4. QED
        BY <3>0, <4>3
    <3>2. QED
      BY <1>3, <2>1, <3>1
  <2>6. Rest(p, t, Len(t))' /\ Outside(c)'
    BY <2>1, <2>5, ScreenUnchanged
  <2>7. QED
    BY <2>2, <2>4, <2>6 DEF Silent, Progress
<1>7. CASE vgaterm_writestring(c)
  <2>1. /\ r.at = "write" /\ cons[r.con] = "vga" /\ r.n <= r.len
        /\ call' = [call EXCEPT ![c].n = @ + 1]
    BY <1>7 DEF vgaterm_writestring
  <2>2. r.len = Len(s) /\ r.n \in 1 .. Len(s) /\ r.con \in 1 .. Len(cons)
    BY <1>1, <2>1 DEF Prints
  <2>3. r.con = 1
    BY <1>2, <2>1, <2>2 DEF ConsInv
  <2>4. PICK ch : ch = Data(c)[r.n]
    OBVIOUS
  <2>5. vgaterm_putchar(c, ch)
    BY <1>7, <2>4 DEF vgaterm_writestring
  <2>6. PICK k \in Nat \ {0} : k = d + r.n
    BY <2>2
  <2>7. k <= Len(t) /\ k - 1 \in 0 .. Len(t) /\ (k - 1) + 1 = d + r.n
    BY <1>1, <2>2, <2>6, SMTT(30)
  <2>8. ch = t[k]
    BY <1>1, <2>1, <2>2, <2>4, <2>6, DataIs
  <2>9. Rest(p, t, k - 1)
    <3>1. Outside(c)
      BY <2>5 DEF vgaterm_putchar
    <3>2. QED
      BY <1>3, <2>1, <2>3, <2>7, <3>1
  <2>10. ~Outside(c)' /\ Middle(c, p, t, k)'
    BY <2>5, <2>7, <2>8, <2>9, MiddleStarts
  <2>11. Called(c, r.at, r.text, r.n + 1, r.len, r.con)
    BY <2>1, CountEffect
  <2>12. call'[c].at = "write" /\ call'[c].n = r.n + 1 /\ call'[c].con = 1
    BY <2>1, <2>3, <2>11 DEF Called
  <2>13. \A l \in 0 .. Len(t) : l + 1 = d + (r.n + 1) => l = k
    BY <2>2, <2>6, SMTT(30)
  <2>14. QED
    BY <2>10, <2>12, <2>13 DEF Silent, Progress
<1>8. CASE write_serial(c)
  <2>1. /\ r.at = "write" /\ cons[r.con] = "serial" /\ UNCHANGED termVars
        /\ call' = [call EXCEPT ![c].n = @ + 1]
    BY <1>8 DEF write_serial
  <2>2. r.con # 1
    BY <2>1 DEF ConsInv
  <2>3. Called(c, r.at, r.text, r.n + 1, r.len, r.con)
    BY <2>1, CountEffect
  <2>4. call'[c].at = "write" /\ call'[c].con = r.con
    BY <2>1, <2>3 DEF Called
  <2>5. Rest(p, t, Len(t))' /\ Outside(c)'
    BY <1>3, <2>1, <2>2, ScreenUnchanged
  <2>6. QED
    BY <2>2, <2>4, <2>5 DEF Silent, Progress
<1>9. CASE Putting(c)
  <2>1. PutcharStep(c) /\ call' = call
    BY <1>9 DEF Putting, consoleVars
  <2>2. ~Outside(c)
    BY <2>1 DEF PutcharStep, terminal_putentryat, Advance, Column0, Down, Test, terminal_scroll,
                ClearLast, Home, Display, terminal_update_cursor, Outside
  <2>3. r.at = "write"
    BY <2>2 DEF PrintInv
  <2>4. r.con = 1
    BY <1>3, <2>2, <2>3
  <2>5. r.n \in 1 .. (Len(s) + 1)
    BY <2>3 DEF Prints
  <2>6. PICK k \in 0 .. Len(t) : k + 1 = d + r.n
    <3>1. d + r.n - 1 \in 0 .. Len(t) /\ (d + r.n - 1) + 1 = d + r.n
      BY <1>1, <2>5
    <3>2. QED
      BY <3>1
  <2>7. k \in Nat \ {0} /\ k <= Len(t) /\ Middle(c, p, t, k)
    BY <1>3, <2>2, <2>3, <2>4, <2>6
  <2>8. /\ Outside(c)' => Rest(p, t, k)'
        /\ ~Outside(c)' => Middle(c, p, t, k)'
    BY <2>1, <2>2, <2>7, MiddleStep
  <2>9. \A l \in 0 .. Len(t) : l + 1 = d + r.n => l = k
    BY <2>5, <2>6
  <2>10. QED
    BY <2>1, <2>3, <2>4, <2>7, <2>8, <2>9 DEF Silent, Progress
<1>10. QED
  BY <1>4, <1>5, <1>6, <1>7, <1>8, <1>9 DEF PrintStep

(* Steps that do not print.                                                *)
LEMMA ScreenSame ==
    ASSUME ScreenInv, HealInv', UNCHANGED <<cons, buf, sent, call, text, raced, termVars>>
    PROVE  ScreenInv'
<1>1. ConsoleTypes' /\ ConsInv' /\ (\E S : text' \in Seq(S))
  BY DEF ScreenInv, ConsoleTypes, ConsInv
<1>2. \A c : Silent(c)' = Silent(c)
  BY DEF Silent
<1>3. \A c, s : Prints(c, s)' = Prints(c, s)
  BY DEF Prints
<1>4. /\ \A c : Outside(c)' = Outside(c)
      /\ \A p, t, k : Rest(p, t, k)' = Rest(p, t, k)
      /\ \A c, p, t, k : Middle(c, p, t, k)' = Middle(c, p, t, k)
  BY ScreenUnchanged
<1>5. \A c, p, t, d : Progress(c, p, t, d)' = Progress(c, p, t, d)
  BY <1>4 DEF Progress
<1>6. \A c, t : AlonePrints(c, t)' = AlonePrints(c, t)
  BY <1>3, <1>5 DEF AlonePrints
<1>7. TextInv'
  BY <1>2, <1>4, <1>6 DEF ScreenInv, TextInv
<1>8. QED
  BY <1>1, <1>7 DEF ScreenInv

(* A call of printk, or of console_writestring with a literal.             *)
LEMMA PrintStarts ==
    ASSUME ScreenInv, HealInv', NEW c \in Contexts, NEW new \in AllTexts,
           UNCHANGED <<cons, buf, sent, termVars>>,
           \/ Called(c, "format", new, 1, 0, 0)
           \/ Called(c, "console", new, 1, 0, 1) /\ new # <<>>,
           text' = IF raced' THEN <<>> ELSE text \o new,
           ~raced' => ~raced /\ \A e \in Contexts : Silent(e)
    PROVE  ScreenInv'
<1>1. ConsoleTypes' /\ ConsInv'
  BY DEF ScreenInv, ConsoleTypes, ConsInv
<1>2. PICK S : text \in Seq(S)
  BY DEF ScreenInv
<1>3. Fits(new)
  BY TextsFit DEF AllTexts
<1>4. new \in Seq(Range(new)) /\ Len(new) \in Nat
  BY <1>3, FitsFacts DEF Fits
<1>0. PICK u : u = text \o new
  OBVIOUS
<1> DEFINE T == S \cup Range(new)
<1>5. text \in Seq(T) /\ new \in Seq(T)
  BY <1>2, <1>4, SeqMonotonic
<1> HIDE DEF T
<1>6. /\ u \in Seq(T) /\ Len(u) = Len(text) + Len(new) /\ Len(text) \in Nat
      /\ \A i \in 1 .. Len(text) : u[i] = text[i]
      /\ \A i \in 1 .. Len(new) : u[Len(text) + i] = new[i]
  <2>1. Len(text) \in Nat
    BY <1>5
  <2>2. /\ u \in Seq(T) /\ Len(u) = Len(text) + Len(new)
        /\ \A i \in 1 .. (Len(text) + Len(new)) :
              u[i] = IF i <= Len(text) THEN text[i] ELSE new[i - Len(text)]
    BY <1>0, <1>5, ConcatProperties
  <2>3. \A i \in 1 .. Len(text) : u[i] = text[i]
    BY <1>4, <2>1, <2>2
  <2>4. ASSUME NEW i \in 1 .. Len(new) PROVE u[Len(text) + i] = new[i]
    <3>1. PICK j \in Nat : j = Len(text) + i
      BY <2>1
    <3>2. j \in 1 .. (Len(text) + Len(new)) /\ ~(j <= Len(text)) /\ j - Len(text) = i
      BY <1>4, <2>1, <3>1
    <3>3. QED
      BY <2>2, <3>1, <3>2
  <2>5. QED
    BY <2>1, <2>2, <2>3, <2>4
<1>7. \E V : text' \in Seq(V)
  <2>1. CASE raced'
    BY <2>1, EmptySeq
  <2>2. CASE ~raced'
    BY <1>0, <1>6, <2>2
  <2>3. QED
    BY <2>1, <2>2
<1>8. TextInv'
  <2> SUFFICES ASSUME ~raced'
               PROVE  /\ ~Silent(c)'
                      /\ \A e \in Contexts : ~Silent(e)' => AlonePrints(e, u)'
    <3>1. ~raced' => text' = u
      BY <1>0
    <3>2. QED
      BY <3>1 DEF TextInv
  <2>1. \/ call'[c].at = "format" /\ call'[c].text = new /\ call'[c].n = 1
        \/ /\ call'[c].at = "console" /\ call'[c].text = new /\ call'[c].con = 1
           /\ new # <<>>
    BY DEF Called
  <2>2. ~raced /\ \A e \in Contexts : Silent(e)
    OBVIOUS
  <2>3. \A e \in Contexts : ~Silent(e)' => e = c
    BY <2>2 DEF Called, Silent
  <2>4. PICK t : t = text
    OBVIOUS
  <2>5. Rest(Roll(t), t, Len(t))
    BY <2>2, <2>4 DEF ScreenInv, TextInv
  <2>6. PICK d \in Nat : d = Len(t) /\ d <= Len(u) /\ d \in 0 .. Len(u) /\ Len(u) \in Nat
    BY <1>4, <1>6, <2>4
  <2>7. \A n \in 1 .. d : t[n] = u[n]
    BY <1>6, <2>4, <2>6
  <2>8. PICK p, q : p = Roll(t) /\ q = Roll(u)
    OBVIOUS
  <2>9. \A n \in 0 .. d : p[n] = q[n]
    <3>1. /\ Len(t) \in Nat /\ Len(u) \in Nat /\ Len(t) <= Len(u)
          /\ \A n \in 1 .. Len(t) : t[n] = u[n]
      BY <2>6, <2>7
    <3>2. \A n \in 0 .. Len(t) : Roll(t)[n] = Roll(u)[n]
      BY <3>1, RollPrefix, Zenon
    <3>3. QED
      BY <2>6, <2>8, <3>2
  <2>10. Rest(q, u, d)'
    <3>1. Rest(p, t, d)
      BY <2>5, <2>6, <2>8
    <3>2. Rest(q, u, d)
      BY <2>7, <2>9, <3>1, RestSame
    <3>3. QED
      BY <3>2, ScreenUnchanged
  <2>11. EndsWith(u, d, new)
    BY <1>6, <2>4, <2>6 DEF EndsWith
  <2>12. Prints(c, new)'
    <3>1. 1 \in 1 .. (Len(new) + 1)
      BY <1>4
    <3>2. 1 \in 1 .. (Len(cons') + 1)
      BY <1>1 DEF ConsoleTypes
    <3>3. QED
      BY <1>3, <2>1, <3>1, <3>2 DEF Prints
  <2>13. Progress(c, q, u, d)'
    BY <2>1, <2>10 DEF Progress
  <2>14. AlonePrints(c, u)'
    BY <2>6, <2>8, <2>11, <2>12, <2>13 DEF AlonePrints
  <2>15. QED
    BY <2>1, <2>3, <2>14 DEF Silent
<1>9. QED
  BY <1>1, <1>7, <1>8 DEF ScreenInv

LEMMA ScreenPrinting ==
    ASSUME ScreenInv, HealInv', Printing
    PROVE  ScreenInv'
<1>1. PICK c \in Contexts : c = Running /\ PrintStep(c)
  BY DEF Printing
<1>2. text' = text /\ raced' = raced
  BY DEF Printing, interruptVars, ghosts
<1>3. TermTypes /\ CallTypes /\ PrintInv /\ ConsoleTypes /\ ConsInv
  BY DEF ScreenInv, HealInv
<1>4. ConsoleTypes' /\ cons' = cons
  BY <1>1, <1>3, ConsoleTypesStep
<1>5. ConsInv' /\ \E S : text' \in Seq(S)
  BY <1>2, <1>4 DEF ScreenInv, ConsInv
<1>6. ~Silent(c)
  <2>1. CASE Putting(c)
    <3>1. ~Outside(c)
      BY <2>1 DEF Putting, PutcharStep, terminal_putentryat, Advance, Column0, Down, Test,
                  terminal_scroll, ClearLast, Home, Display, terminal_update_cursor, Outside
    <3>2. QED
      BY <1>3, <3>1 DEF PrintInv, Silent
  <2>2. QED
    BY <1>1, <2>1 DEF PrintStep, Format, NextConsole, WriteDone, vgaterm_writestring, write_serial,
                      Silent
<1>7. TextInv'
  <2> SUFFICES ASSUME ~raced, NEW t, t = text
               PROVE  /\ (\A e \in Contexts : Silent(e)') => Rest(Roll(t), t, Len(t))'
                      /\ \A e \in Contexts : ~Silent(e)' => AlonePrints(e, t)'
    BY <1>2 DEF TextInv
  <2>1. \A e \in Contexts : e # c => Silent(e)
    BY <1>3, <1>6 DEF PrintInv
  <2>2. \A e \in Contexts : e # c => Silent(e)'
    <3>1. \A e \in Contexts : e # c => call'[e] = call[e]
      BY <1>1, <1>3 DEF PrintStep, Format, NextConsole, WriteDone, vgaterm_writestring,
                  write_serial, Putting, consoleVars, CallTypes
    <3>2. QED
      BY <2>1, <3>1 DEF Silent
  <2>3. PICK s \in AllTexts, d \in 0 .. Len(t) :
            EndsWith(t, d, s) /\ Prints(c, s) /\ Progress(c, Roll(t), t, d)
    BY <1>6 DEF ScreenInv, TextInv, AlonePrints
  <2>4. Len(t) \in Nat /\ d \in Nat
    <3>1. Len(t) \in Nat
      BY DEF ScreenInv
    <3>2. QED
      BY <3>1
  <2>5. PICK p : p = Roll(t) /\ Follows(p, t, Len(t)) /\ Progress(c, p, t, d)
    BY <2>3, <2>4, RollIs
  <2>6. Prints(c, s)'
    BY <1>1, <1>3, <2>3, PrintsStep
  <2>7. /\ Silent(c)' => Rest(p, t, Len(t))'
        /\ ~Silent(c)' => Progress(c, p, t, d)'
    BY <1>1, <1>3, <1>6, <2>3, <2>4, <2>5, ProgressStep
  <2>8. ~Silent(c)' => AlonePrints(c, t)'
    BY <2>3, <2>5, <2>6, <2>7 DEF AlonePrints
  <2>9. QED
    BY <2>2, <2>5, <2>7, <2>8
<1>8. QED
  BY <1>4, <1>5, <1>7 DEF ScreenInv

(* printk is called in the kernel, in a handler or in panic.               *)
LEMMA PrintkShows ==
    ASSUME ScreenInv, HealInv', NEW c \in Contexts, NEW new \in AllTexts, CallPrintk(c, new), Silent(c)
    PROVE  ScreenInv'
<1>1. CallTypes
  BY DEF ScreenInv, HealInv
<1>2. /\ Called(c, "format", new, 1, 0, 0)
      /\ UNCHANGED <<cons, buf, sent, termVars>>
      /\ raced' = (raced \/ \E d \in Contexts \ {c} : ~Silent(d))
      /\ text' = IF raced' THEN <<>> ELSE text \o new
  BY <1>1, PrintkEffect
<1>3. ~raced' => ~raced /\ \A e \in Contexts : Silent(e)
  BY <1>2
<1>4. QED
  BY <1>2, <1>3, PrintStarts

LEMMA ScreenNext == ScreenInv /\ [Next]_vars => ScreenInv'
<1> SUFFICES ASSUME ScreenInv, [Next]_vars PROVE ScreenInv'
  OBVIOUS
<1>1. HealInv' /\ StackInv /\ CallTypes /\ PrintInv /\ ConsoleTypes
  BY HealNext DEF ScreenInv, HealInv
<1>2. /\ "kernel" \in Contexts /\ "handler" \in Contexts /\ "panic" \in Contexts
      /\ Box \in AllTexts /\ UnhandledText \in AllTexts
      /\ PanicText \in AllTexts /\ FarewellText \in AllTexts
      /\ <<".">> \in AllTexts /\ \A t \in Texts : t \in AllTexts
  BY TheContexts DEF AllTexts
<1>3. InKernel => \A c \in Contexts : Silent(c)
  BY <1>1, TheContexts DEF InKernel, StackInv
<1>4. ASSUME panic, Running \in {"kernel", "handler"} \/ Walking PROVE ScreenInv'
  <2>1. Silent("panic")
    BY <1>1, <1>4, Stacks DEF StackInv, Walking
  <2>2. CallPrintk("panic", PanicText)
    BY <1>4 DEF panic
  <2>3. QED
    BY <1>1, <1>2, <2>1, <2>2, PrintkShows
<1>5. CASE idt_init \/ isrs_init \/ irqs_init \/ timer_init
  <2>1. UNCHANGED <<cons, buf, sent, call, text, raced, termVars>>
    BY <1>5 DEF idt_init, isrs_init, irqs_init, timer_init, Start, ghosts
  <2>2. QED
    BY <1>1, <2>1, ScreenSame
<1>6. CASE init_serial
  <2>1. /\ UNCHANGED <<buf, call, text, raced, termVars>> /\ InKernel
        /\ sent' = SerialText
        /\ cons' = IF Len(cons) = 4 THEN cons ELSE Append(cons, "serial")
    BY <1>6 DEF init_serial, Start, console_register, ghosts
  <2>2. ConsoleTypes'
    <3>1. \E S : sent' \in Seq(S)
      BY <2>1, InterruptAssumption
    <3>2. cons' \in Seq({"vga", "serial"}) /\ cons' # <<>>
      BY <1>1, <2>1 DEF ConsoleTypes
    <3>3. QED
      BY <1>1, <2>1, <3>1, <3>2 DEF ConsoleTypes
  <2>3. ConsInv'
    <3>1. Len(cons) \in Nat \ {0} /\ cons \in Seq({"vga", "serial"}) /\ DOMAIN cons = 1 .. Len(cons)
      BY <1>1, ConsLast DEF ConsoleTypes
    <3>2. CASE cons' = cons
      BY <3>2 DEF ScreenInv, ConsInv
    <3>3. CASE cons' = Append(cons, "serial")
      <4>1. /\ DOMAIN cons' = 1 .. (Len(cons) + 1) /\ cons'[Len(cons) + 1] = "serial"
            /\ \A i \in 1 .. Len(cons) : cons'[i] = cons[i]
        BY <3>1, <3>3
      <4>2. cons[1] = "vga" /\ \A j \in 1 .. Len(cons) : j # 1 => cons[j] = "serial"
        BY <3>1 DEF ScreenInv, ConsInv
      <4>3. cons'[1] = "vga"
        BY <3>1, <4>1, <4>2
      <4>4. \A j \in 1 .. (Len(cons) + 1) : j \in 1 .. Len(cons) \/ j = Len(cons) + 1
        BY <3>1
      <4>5. QED
        BY <4>1, <4>2, <4>3, <4>4 DEF ConsInv
    <3>4. QED
      BY <2>1, <3>2, <3>3
  <2>4. TextInv'
    <3>1. \A c \in Contexts : Silent(c) /\ Silent(c)'
      BY <1>3, <2>1 DEF Silent
    <3>2. \A p, t, k : Rest(p, t, k)' = Rest(p, t, k)
      BY <2>1, ScreenUnchanged
    <3>3. QED
      BY <2>1, <3>1, <3>2 DEF ScreenInv, TextInv
  <2>5. QED
    BY <1>1, <2>1, <2>2, <2>3, <2>4 DEF ScreenInv
<1>7. CASE enable_interrupts
  <2>1. UNCHANGED <<cons, buf, sent, call, text, raced, termVars>>
    BY <1>7 DEF enable_interrupts, consoleVars, ghosts
  <2>2. QED
    BY <1>1, <2>1, ScreenSame
<1>8. ASSUME NEW t \in Texts, KernelPrints(t) PROVE ScreenInv'
  <2>1. CallPrintk("kernel", t) /\ Silent("kernel")
    BY <1>8 DEF KernelPrints, InKernel
  <2>2. QED
    BY <1>1, <1>2, <2>1, PrintkShows
<1>9. CASE greybox
  <2>1. /\ call' = [call EXCEPT !["kernel"] = [NoCall EXCEPT !.at = "console", !.text = Box, !.con = 1]]
        /\ UNCHANGED <<cons, buf, sent, termVars>> /\ raced' = raced /\ InKernel
        /\ text' = IF raced THEN <<>> ELSE text \o Box
    BY <1>9 DEF greybox, console_writestring
  <2>2. Called("kernel", "console", Box, 1, 0, 1)
    <3>1. call' = [call EXCEPT !["kernel"] =
                      [at |-> "console", text |-> Box, n |-> 1, len |-> 0, con |-> 1]]
      BY <2>1, NoCallRecords
    <3>2. QED
      BY <1>1, <1>2, <3>1, CallUpdates DEF Called
  <2>3. Box # <<>>
    BY InterruptAssumption
  <2>4. QED
    BY <1>1, <1>2, <1>3, <2>1, <2>2, <2>3, PrintStarts
<1>10. CASE irq_handler
  <2>1. Running = "handler" /\ Silent("handler")
    BY <1>1, <1>10, Stacks DEF irq_handler, StackInv
  <2>2. CASE panic
    BY <1>4, <2>1, <2>2
  <2>3. CASE CallPrintk("handler", <<".">>) \/ CallPrintk("handler", UnhandledText)
    BY <1>1, <1>2, <2>1, <2>3, PrintkShows
  <2>4. CASE UNCHANGED <<consoleVars, termVars, text, raced>>
    <3>1. UNCHANGED <<cons, buf, sent, call, text, raced, termVars>>
      BY <2>4 DEF consoleVars
    <3>2. QED
      BY <1>1, <3>1, ScreenSame
  <2>5. QED
    BY <1>10, <2>2, <2>3, <2>4 DEF irq_handler, kernel_tick
<1>11. CASE IrqDone
  <2>1. UNCHANGED <<cons, buf, sent, call, text, raced, termVars>>
    BY <1>11 DEF IrqDone, consoleVars, ghosts
  <2>2. QED
    BY <1>1, <2>1, ScreenSame
<1>12. CASE Printing
  BY <1>1, <1>12, ScreenPrinting
<1>13. ASSUME NEW i \in Lines, Interrupt(i) \/ Raise(i) PROVE ScreenInv'
  <2>1. UNCHANGED <<cons, buf, sent, call, text, raced, termVars>>
    BY <1>13 DEF Interrupt, Raise, consoleVars, ghosts
  <2>2. QED
    BY <1>1, <2>1, ScreenSame
<1>14. ASSUME NEW v \in Exceptions, fault_handler(v) PROVE ScreenInv'
  <2>1. CASE panic
    BY <1>4, <1>14, <2>1 DEF fault_handler
  <2>2. CASE ~panic
    <3>1. UNCHANGED <<cons, buf, sent, call, text, raced, termVars>>
      BY <1>14, <2>2 DEF fault_handler, consoleVars
    <3>2. QED
      BY <1>1, <3>1, ScreenSame
  <2>3. QED
    BY <2>1, <2>2
<1>15. CASE KernelPanics
  <2>1. panic /\ Running = "kernel"
    BY <1>1, <1>15, Stacks DEF KernelPanics, InKernel
  <2>2. QED
    BY <1>4, <2>1
<1>16. CASE SoLong
  <2>1. CallPrintk("panic", FarewellText) /\ Silent("panic")
    BY <1>16 DEF SoLong, Walking
  <2>2. QED
    BY <1>1, <1>2, <2>1, PrintkShows
<1>17. CASE die \/ Halted \/ UNCHANGED vars
  <2>1. UNCHANGED <<cons, buf, sent, call, text, raced, termVars>>
    BY <1>17 DEF die, Halted, vars, interruptVars, consoleVars, ghosts
  <2>2. QED
    BY <1>1, <2>1, ScreenSame
<1>18. QED
  BY <1>5, <1>6, <1>7, <1>8, <1>9, <1>10, <1>11, <1>12, <1>13, <1>14, <1>15, <1>16, <1>17
     DEF Next, Execute, Accept

LEMMA ScreenInit == Init => ScreenInv
<1> SUFFICES ASSUME Init PROVE ScreenInv
  OBVIOUS
<1>1. HealInv /\ ConsoleTypes
  BY HealInit, SentInit DEF SentInv
<1>2. /\ cons = <<"vga">> /\ text = <<>> /\ term_cursor_x = 0 /\ term_cursor_y = 0
      /\ term_backbuff = [i \in Cells |-> Blank] /\ term_frontbuff = [i \in Cells |-> Blank]
      /\ call = [c \in Contexts |-> NoCall]
  BY DEF Init, ConsoleInit, vgaterm_init
<1>3. ConsInv
  BY <1>2 DEF ConsInv
<1>4. \E S : text \in Seq(S)
  BY <1>2, EmptySeq
<1>5. \A c \in Contexts : Silent(c)
  BY <1>2 DEF Silent, NoCall
<1>6. PICK t : t = <<>> /\ Len(t) = 0
  OBVIOUS
<1>7. PICK p : p = Roll(t) /\ Follows(p, t, 0)
  BY <1>6, RollIs
<1>8. p[0] = RollStart /\ p[0].line = 0 /\ p[0].col = 0
  BY <1>7 DEF Follows, RollStart
<1>9. TopAt(p, 0) = 0
  BY <1>8, ScreenSizes DEF TopAt
<1>10. ASSUME NEW b, b = [i \in Cells |-> Blank] PROVE Shows(b, p, t, 0, 0)
  <2>1. b = [i \in Cells |-> b[i]]
    BY <1>10
  <2>2. ASSUME NEW y \in OnLines, NEW x \in OnCols
        PROVE  ShowsCell(b[y * VGA_WIDTH + x], p, t, 0, 0 + y, x)
    <3>1. PICK i \in Cells : i = y * VGA_WIDTH + x
      BY OnScreenCell
    <3>2. b[i] = Blank /\ 1 .. 0 = {}
      BY <1>10
    <3>3. QED
      BY <3>1, <3>2 DEF ShowsCell
  <2>3. QED
    BY <2>1, <2>2 DEF Shows, ShowsLines
<1>11. Rest(p, t, 0)
  <2>1. Both(p, t, 0, 0)
    BY <1>2, <1>10 DEF Both
  <2>2. p[0].line - TopAt(p, 0) = 0
    BY <1>8, <1>9
  <2>3. QED
    BY <1>2, <1>8, <1>9, <2>1, <2>2 DEF Rest, CursorIs
<1>12. TextInv
  BY <1>2, <1>5, <1>6, <1>7, <1>11 DEF TextInv
<1>13. QED
  BY <1>1, <1>3, <1>4, <1>12 DEF ScreenInv

LEMMA ScreenInvAlways == Spec => []ScreenInv
BY ScreenInit, ScreenNext, PTL DEF Spec

(* For every text and every size of the screen: as long as no handler has  *)
(* printed in the middle of another print, the buffers show the end of all *)
(* that was printed, scrolled and broken into lines as the roll is, and    *)
(* both cursors follow it (vgaterm_putchar and terminal_scroll of          *)
(* arch/x86/vgaterm.c, printk of utils.c, console_writestring).            *)
THEOREM ScreenShowsTextAlways == Spec => []ScreenShowsText
<1>1. ScreenInv => ScreenShowsText
  <2> SUFFICES ASSUME ScreenInv, ~raced, \A c \in Contexts : Silent(c)
               PROVE  /\ term_frontbuff = Shown(text)
                      /\ term_backbuff = Shown(text)
                      /\ [x |-> term_cursor_x, y |-> term_cursor_y] = CursorAfter(text)
                      /\ text # <<>> => crtc = term_cursor_y * VGA_WIDTH + term_cursor_x
    BY DEF ScreenShowsText
  <2>1. PICK t : t = text
    OBVIOUS
  <2>2. Rest(Roll(t), t, Len(t))
    BY <2>1 DEF ScreenInv, TextInv
  <2>3. Len(t) \in Nat /\ (t # <<>> => Len(t) > 0)
    <3>1. PICK S : t \in Seq(S)
      BY <2>1 DEF ScreenInv
    <3>2. QED
      BY <3>1, EmptySeq
  <2>4. /\ Shows(term_backbuff, Roll(t), t, Len(t), TopAt(Roll(t), Len(t)))
        /\ Shows(term_frontbuff, Roll(t), t, Len(t), TopAt(Roll(t), Len(t)))
    BY <2>2 DEF Rest, Both
  <2>5. term_backbuff = Shown(t) /\ term_frontbuff = Shown(t)
    BY <2>3, <2>4, ShownIs
  <2>6. [x |-> term_cursor_x, y |-> term_cursor_y] = CursorAfter(t)
    BY <2>2, <2>3, CursorAfterIs DEF Rest, CursorIs
  <2>7. QED
    BY <2>1, <2>2, <2>3, <2>5, <2>6 DEF Rest
<1>2. QED
  BY <1>1, ScreenInvAlways, PTL
=============================================================================
