-------------------------- MODULE MCProviderBreaker --------------------------
(* An instance of ProviderBreaker for TLC. *)
EXTENDS ProviderBreaker

CONSTANTS p1, p2, c1, c2, c3
=============================================================================
