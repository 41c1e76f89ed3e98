---------------------------- MODULE MCExternalJobs ----------------------------
(* Instances of ExternalJobs for TLC. *)
EXTENDS ExternalJobs, TLC

Interchangeable == Permutations(Requests) \cup Permutations(Pollers)
==============================================================================
