------------------------------ MODULE Library ------------------------------
(***************************************************************************)
(* The kernel's pure functions, called with any input out of a set, next   *)
(* to what their results should be.                                        *)
(***************************************************************************)
EXTENDS Formatting, Words, Images

CONSTANTS
    Numbers,        \* inputs of number
    Directives,     \* a text, a directive and its argument, for vsprintf
    Lines,          \* a line and a number of words, for tokenize
    Files,          \* files to put in an image, what its header says, and a name
    Symbols,        \* a symbol table and an address
    Pending         \* no result yet

VARIABLES
    input,          \* the call
    output          \* its result, once it has returned

vars == <<input, output>>

Init ==
    /\ \/ \E n \in Numbers : input = [of |-> "number", arg |-> n]
       \/ \E d \in Directives : input = [of |-> "vsprintf", arg |-> d]
       \/ \E l \in Lines : input = [of |-> "tokenize", arg |-> l]
       \/ \E f \in Files : input = [of |-> "ramfs", arg |-> f]
       \/ \E s \in Symbols : input = [of |-> "elf", arg |-> s]
    /\ output = Pending

Called(f) == output = Pending /\ input.of = f /\ UNCHANGED input

Number ==
    /\ Called("number")
    /\ LET a == input.arg
       IN  output' = number(a.num, a.base, a.size, a.precision, a.type)

(* A directive as it is written in a format.                               *)
Spelling(d) ==
    <<"%">> \o d.flags \o d.width \o (IF d.precision = <<>> THEN <<>> ELSE <<".">> \o d.precision)
    \o d.qualifier \o <<d.conversion>>

Format ==
    /\ Called("vsprintf")
    /\ LET a == input.arg
       IN  output' = vsprintf(a.before \o Spelling(a) \o a.after, <<a.arg>>)

Tokenize ==
    /\ Called("tokenize")
    /\ output' = tokenize(" ", input.arg.line, input.arg.maxout)

(* An image in which the data of the files follow the headers, one unit    *)
(* each, with the offsets that ramfs.h asks for.                           *)
ImageOf(a) ==
    IF a.magic = NULL THEN NULL
    ELSE [magic |-> a.magic, version |-> a.version, fs_size |-> 2 * Len(a.names) + 1,
          file_count |-> a.count,
          files |-> [i \in DOMAIN a.names |->
             [file_name |-> a.names[i], file_length |-> a.length[i],
              file_start |-> IF a.length[i] = 0 THEN 0 ELSE Len(a.names)]]]

(* The file is looked up and opened.                                       *)
Open ==
    /\ Called("ramfs")
    /\ LET fs == ImageOf(input.arg)
       IN  output' = [count |-> ramfs_file_count(fs), size |-> ramfs_size(fs),
                      data |-> ramfs_file_open(fs, ramfs_find_file(fs, input.arg.name))]

Lookup ==
    /\ Called("elf")
    /\ output' = elf_lookup_symbol(input.arg.addr, input.arg.symtab)

Returned == output # Pending /\ UNCHANGED vars

Next == Number \/ Format \/ Tokenize \/ Open \/ Lookup \/ Returned

Spec == Init /\ [][Next]_vars

-----------------------------------------------------------------------------
(* Properties                                                              *)

Result(f) == output # Pending /\ input.of = f

(* The value that a sequence of digits has.                                *)
Value(digits, base) ==
    FoldLeft(LAMBDA v, c : v * base + (CHOOSE n \in 1 .. 16 : c \in {Upper[n], Lower[n]}) - 1,
             0, digits)

(* What number() writes can be read back: it is padding, sign, prefix,     *)
(* digits and padding, the digits have the value of the argument (all of   *)
(* them, the least int too), there are as many as the precision asks for,  *)
(* and the field is as wide as it was asked to be and no wider than need   *)
(* be; it is padded with zeros or spaces, on the side that the flags say.  *)
NumberRight ==
    Result("number") =>
        LET a == input.arg
            negative == "SIGN" \in a.type /\ a.num < 0
            magnitude == IF negative THEN -a.num ELSE a.num % Word
            sign == IF negative THEN <<"-">> ELSE IF "PLUS" \in a.type THEN <<"+">>
                    ELSE IF "SPACE" \in a.type THEN <<" ">> ELSE <<>>
            head == sign \o Prefix(a.base, a.type)
            zeropad == "ZEROPAD" \in a.type /\ "LEFT" \notin a.type
        IN  \E l, r \in 0 .. Len(output) :
               LET body == SubSeq(output, l + 1, Len(output) - r)
                   digits == SubSeq(body, Len(head) + 1, Len(body))
               IN  /\ l + r + Len(head) < Len(output)
                   /\ SubSeq(output, 1, l) = Times(l, " ")
                   /\ SubSeq(output, Len(output) - r + 1, Len(output)) = Times(r, " ")
                   /\ SubSeq(body, 1, Len(head)) = head
                   /\ " " \notin {digits[i] : i \in DOMAIN digits}
                   /\ Value(digits, a.base) = magnitude
                   /\ Len(digits) >= a.precision
                   /\ Len(output) >= a.size
                   /\ "LEFT" \in a.type => l = 0
                   /\ "LEFT" \notin a.type => r = 0
                   /\ zeropad => l = 0
                   /\ Len(output) > a.size =>
                         l + r = 0 /\ (digits[1] = "0" => Len(digits) <= Max({1, a.precision}))
                   /\ ~zeropad /\ digits[1] = "0" => Len(digits) <= Max({1, a.precision})

(* The value of a width or precision as it is written; -1 if it is not.    *)
Written(digits) == IF digits = <<>> THEN -1 ELSE Value(digits, 10)

(* A format is its text with the directive replaced by the conversion that *)
(* it spells, with all its flags, its width and its precision; nothing of  *)
(* the text around it is lost.  A directive that does not exist is copied. *)
VsprintfRight ==
    Result("vsprintf") =>
        LET a == input.arg
            flags == {FlagOf[a.flags[i]] : i \in DOMAIN a.flags}
            known == a.conversion \in {"c", "s"} \cup DOMAIN Base
            field == IF known THEN Convert(a.conversion, a.arg, Written(a.width),
                                           Written(a.precision), flags)
                     ELSE IF a.conversion = "%" THEN <<"%">>
                     ELSE IF a.conversion = "n" THEN <<>> ELSE <<"%", a.conversion>>
        IN  /\ output.str = a.before \o field \o a.after
            /\ output.stored = IF a.conversion = "n" THEN <<Len(a.before)>> ELSE <<>>

(* The pieces of a line between its spaces.                                *)
Pieces(line) ==
    LET ends == {0, Len(line) + 1} \cup {i \in DOMAIN line : line[i] = " "}
        piece(i) == SubSeq(line, i + 1, Min({j \in ends : j > i}) - 1)
        starts == SetToSortSeq(ends \ {Len(line) + 1}, <)
    IN  [k \in DOMAIN starts |-> piece(starts[k])]

(* tokenize gives the pieces between the separators, empty ones too except *)
(* the one at the end, and no more than it was asked for; a lookup finds   *)
(* the first match and no other: the data of the first file of that name,  *)
(* if the header counts it and it is not empty, and the first function     *)
(* that contains the address.  Two edges of 32 bits are part of it: an     *)
(* image of half the address space has a negative size (ramfs.c returns    *)
(* uint32_t as int), and a function that reaches its end is never found.   *)
LookupsRight ==
    /\ Result("tokenize") =>
          LET all == Pieces(input.arg.line)
              nonempty == IF all[Len(all)] = <<>> THEN Front(all) ELSE all
          IN  output = SubSeq(nonempty, 1, Min({input.arg.maxout, Len(nonempty)}))
    /\ Result("ramfs") =>
          LET a == input.arg
              valid == a.magic = MINK_RAMFS_MAGIC /\ a.version = MINK_RAMFS_VERSION
              match(i) == a.name # NULL /\ i <= a.count /\ strncmp_equal(a.names[i], a.name)
          IN  IF ~valid THEN output = [count |-> -1, size |-> -1, data |-> NULL]
              ELSE /\ output.count = a.count
                   /\ LET size == ImageOf(a).fs_size
                      IN  IF 2 * size < AddrSpace THEN output.size = size ELSE output.size < 0
                   /\ \/ /\ output.data = NULL
                         /\ \A i \in DOMAIN a.names :
                               match(i) => a.length[i] = 0 \/ \E j \in 1 .. (i - 1) : match(j)
                      \/ \E i \in DOMAIN a.names :
                            /\ output.data = Len(a.names) + i
                            /\ match(i) /\ \A j \in 1 .. (i - 1) : ~match(j)
    /\ Result("elf") =>
          LET tab == input.arg.symtab
              in(i) == /\ tab[i].type = STT_FUNC
                       /\ tab[i].value + tab[i].size < AddrSpace
                       /\ input.arg.addr \in tab[i].value .. (tab[i].value + tab[i].size - 1)
          IN  IF \E i \in DOMAIN tab : in(i)
              THEN \E i \in DOMAIN tab : output = tab[i].name /\ in(i) /\ \A j \in 1 .. (i - 1) : ~in(j)
              ELSE output = NULL
=============================================================================
