---------------------------- MODULE MCNntpCircuit ----------------------------
(* An instance of NntpCircuit for TLC. *)
EXTENDS NntpCircuit, TLC

CONSTANTS p1, p2, s1, s2, c1, c2

\* The first provider has nothing, the second has s1: a check for s1 depends on the
\* second provider being asked; nobody has s2.
ListOrder == <<p1, p2>>
StoredHere == (p1 :> {}) @@ (p2 :> {s1})
=============================================================================
