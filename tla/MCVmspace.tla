----------------------------- MODULE MCVmspace -----------------------------
(* Instances of Vmspace for TLC.                                           *)
EXTENDS Vmspace

\* Frames 4 .. 7 are the only place for the bitmaps; around them are two
\* pairs and a single frame.  In the second memory there is no place.
LowMemories == {1 .. 9, 1 .. 3}

Powers == [k \in 0 .. 2 |-> 2 ^ k]
=============================================================================
