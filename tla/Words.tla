------------------------------- MODULE Words --------------------------------
(***************************************************************************)
(* tokenize of utils.c, as a function.  A string is a sequence of          *)
(* characters without its final 0.                                         *)
(***************************************************************************)
EXTENDS Integers, Sequences, FiniteSetsExt

(* The words that out[] points to: those from the character at i on, if    *)
(* there is room for n.                                                    *)
tokenize(tok, in, maxout) ==
    LET end(i) == Min({k \in i .. (Len(in) + 1) : k > Len(in) \/ in[k] = tok})
        words[i \in 1 .. (Len(in) + 2), n \in 0 .. maxout] ==
            IF i > Len(in) \/ n = 0 THEN <<>>
            ELSE <<SubSeq(in, i, end(i) - 1)>> \o words[end(i) + 1, n - 1]
    IN  words[1, maxout]
=============================================================================
