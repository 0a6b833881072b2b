------------------------------ MODULE MCBuddy ------------------------------
(* Instances of Buddy for TLC.                                             *)
EXTENDS Buddy

MCSize == [k \in 0 .. MaxOrder |-> 2 ^ k]

(* A range that is one block of the top order, a hole of two pages, and a  *)
(* range of a page and a half, where a larger block would start too.       *)
MCRanges == {[start |-> 0, extent |-> 16], [start |-> 20, extent |-> 3]}
=============================================================================
