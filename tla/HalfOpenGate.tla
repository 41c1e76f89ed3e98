---------------------------- MODULE HalfOpenGate ----------------------------
(***************************************************************************)
(* What the provider circuits of the server promise: a provider that has   *)
(* failed is left alone until its cooldown is over, then tried by exactly   *)
(* one caller at a time, and only that caller's verdict closes the circuit  *)
(* or opens it again.                                                       *)
(***************************************************************************)
CONSTANT Keys

VARIABLE gate

Trip(k)    == gate[k] = "closed"  /\ gate' = [gate EXCEPT ![k] = "open"]
Admit(k)   == gate[k] = "ready"   /\ gate' = [gate EXCEPT ![k] = "trial"]
Verdict(k) == gate[k] = "trial"   /\ \E to \in {"closed", "open", "ready"} :
                                        gate' = [gate EXCEPT ![k] = to]

\* The cooldowns of the providers of S are over.
CooledDown(S) ==
    /\ \A k \in S : gate[k] = "open"
    /\ gate' = [k \in Keys |-> IF k \in S THEN "ready" ELSE gate[k]]

GateInit == gate = [k \in Keys |-> "closed"]

GateNext ==
    \/ \E k \in Keys : Trip(k) \/ Admit(k) \/ Verdict(k)
    \/ \E S \in SUBSET Keys : CooledDown(S)

GateSpec == GateInit /\ [][GateNext]_gate
=============================================================================
