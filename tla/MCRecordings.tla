---------------------------- MODULE MCRecordings ----------------------------
(* Instances of Recordings for TLC. *)
EXTENDS Recordings, TLC

CONSTANTS r1, r2, w1, w2, c1, c2, p1, p2

OneRec  == {r1}
TwoRecs == {r1, r2}
OneFile == [r \in Recs |-> p1]
OwnFile == (r1 :> p1) @@ (r2 :> p2)

Interchangeable == Permutations(Workers) \cup Permutations(Clients)
=============================================================================
