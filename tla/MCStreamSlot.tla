----------------------------- MODULE MCStreamSlot -----------------------------
(* An instance of StreamSlot for TLC. *)
EXTENDS StreamSlot

CONSTANTS r1, r2

\* An open range from the beginning, and a closed one from the middle.
TwoRanges == {<<0, Size + 1>>, <<2, 3>>}
=============================================================================
