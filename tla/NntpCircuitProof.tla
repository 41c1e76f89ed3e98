-------------------------- MODULE NntpCircuitProof --------------------------
(* Proofs about NntpCircuit, for any providers, checks, segments and times,  *)
(* provided a pass times out sooner than the shortest cooldown ends.         *)
EXTENDS NntpCircuit, TLAPS

(* The inductive invariant. A pass is admitted while its circuit is closed   *)
(* and ends before a cooldown that starts under it does, or it is the probe. *)

CircuitOK(k) ==
    /\ k.backoff > 0 <=> k.epoch > 0
    /\ k.cool > 0 => k.backoff > 0 /\ ~ k.probing
    /\ k.probing => k.backoff > 0

PassOK(s, k) ==
    /\ s.at <= Len(Order)
    /\ \/ ~ s.probe /\ s.epoch = 0 /\ k.backoff = 0
       \/ ~ s.probe /\ s.epoch = 0 /\ k.backoff > 0 /\ Timeout < k.cool + s.age
       \/ s.probe /\ k.probing /\ k.backoff > 0 /\ k.cool = 0 /\ s.epoch = k.epoch

CircuitsOK == \A p \in Providers : CircuitOK(circuit[p])
PassesOK == \A c \in Checks : check[c].pc = "pass" => PassOK(check[c], circuit[Order[check[c].at]])
OneProbe == \A c, d \in Checks, p \in Providers : ProbeOn(c, p) /\ ProbeOn(d, p) => c = d
ProbeHeld == \A p \in Providers : circuit[p].probing => \E c \in Checks : ProbeOn(c, p)

Inv == TypeOK /\ CircuitsOK /\ PassesOK /\ OneProbe /\ ProbeHeld

-----------------------------------------------------------------------------

LEMMA OrderFacts ==
    /\ Len(Order) \in Nat
    /\ \A i \in 1..Len(Order) : Order[i] \in Providers
    /\ 1 <= Len(Order) + 1
BY NntpAssumption

LEMMA LongerFacts ==
    ASSUME NEW b \in 0..MaxBackoff
    PROVE  /\ Longer(b) \in 0..MaxBackoff
           /\ Longer(b) >= BaseBackoff \/ b > 0
           /\ Longer(b) >= b
           /\ Longer(b) > 0
BY NntpAssumption DEF Longer

LEMMA InitInv == Init => Inv
<1> SUFFICES ASSUME Init PROVE Inv OBVIOUS
<1>1. TypeOK
  BY NntpAssumption, OrderFacts DEF Init, TypeOK, NoFailures, Circuit, IdleCheck, Check, Verdicts
<1>2. (\A c \in Checks : check[c].pc = "idle") /\ \A p \in Providers : circuit[p] = NoFailures
  BY DEF Init, IdleCheck
<1>3. QED
  BY <1>1, <1>2 DEF Inv, CircuitsOK, CircuitOK, PassesOK, OneProbe, ProbeHeld, ProbeOn, PassOn, NoFailures

-----------------------------------------------------------------------------
(* What the end of a pass over p can do to the circuit. *)

Ignored(c)     == circuit' = circuit /\ ~ check[c].probe
Recovered(c, p) == /\ check[c].probe \/ circuit[p].backoff = 0
                  /\ circuit' = [circuit EXCEPT ![p] = NoFailures]
Opened(c, p)   == /\ check[c].probe \/ circuit[p].backoff = 0
                  /\ \E to \in 1..MaxBackoff :
                       /\ to >= BaseBackoff \/ circuit[p].backoff > 0
                       /\ circuit[p].epoch < MaxEpoch
                       /\ circuit' = [circuit EXCEPT ![p] =
                            [backoff |-> to, cool |-> to, probing |-> FALSE,
                             epoch |-> circuit[p].epoch + 1]]
Released(c, p) == check[c].probe /\ circuit' = [circuit EXCEPT ![p].probing = FALSE]

LEMMA PassEnds ==
    ASSUME Inv, NEW c \in Checks, PassFails(c) \/ PassAnswers(c), NEW p, p = ProviderOf(c)
    PROVE  /\ p \in Providers /\ PassOn(c, p)
           /\ Ignored(c) \/ Recovered(c, p) \/ Opened(c, p) \/ Released(c, p)
<1> DEFINE s == check[c]
           k == circuit[p]
<1>1. s.pc = "pass"
  BY DEF PassFails, PassAnswers
<1>2. s \in Check /\ PassOK(s, k)
  BY <1>1 DEF Inv, TypeOK, PassesOK, ProviderOf
<1>3. p \in Providers
  BY <1>2, OrderFacts DEF PassOK, Check, ProviderOf
<1>4. k \in Circuit /\ CircuitOK(k)
  BY <1>3 DEF Inv, TypeOK, CircuitsOK
<1>5. k.cool \in 0..MaxBackoff /\ k.backoff \in 0..MaxBackoff /\ s.age \in 0..Timeout
      /\ k.epoch \in 0..MaxEpoch /\ s.probe \in BOOLEAN /\ s.epoch \in 0..MaxEpoch
  BY <1>2, <1>4 DEF Circuit, Check
<1>6. ASSUME ReleaseProbe(p, s.probe) PROVE Ignored(c) \/ Released(c, p)
  BY <1>2, <1>4, <1>5, <1>6 DEF ReleaseProbe, IsOpen, Ignored, Released, PassOK
<1>7. ASSUME RecordFailure(p) PROVE Ignored(c) \/ Opened(c, p)
  <2>1. CASE k.cool > 0
    BY <1>2, <1>5, <1>7, <2>1 DEF RecordFailure, Ignored, PassOK
  <2>2. CASE ~ (k.cool > 0)
    <3> DEFINE to == Longer(k.backoff)
    <3>1. s.probe \/ k.backoff = 0
      BY <1>2, <1>5, <2>2, NntpAssumption DEF PassOK
    <3>2. to \in 1..MaxBackoff /\ (to >= BaseBackoff \/ k.backoff > 0)
      <4> DEFINE b == k.backoff
      <4>1. b \in 0..MaxBackoff
        BY <1>5
      <4> HIDE DEF b
      <4>2. Longer(b) \in 1..MaxBackoff /\ (Longer(b) >= BaseBackoff \/ b > 0)
        BY <4>1, LongerFacts, NntpAssumption
      <4>3. QED BY <4>2 DEF b
    <3>3. /\ k.epoch < MaxEpoch
          /\ circuit' = [circuit EXCEPT ![p] =
               [backoff |-> to, cool |-> to, probing |-> FALSE, epoch |-> circuit[p].epoch + 1]]
      BY <1>7, <2>2 DEF RecordFailure
    <3> HIDE DEF to
    <3>4. QED BY <3>1, <3>2, <3>3 DEF Opened
  <2>3. QED BY <2>1, <2>2
<1>8. ASSUME RecordSuccess(p, s.epoch) PROVE Ignored(c) \/ Recovered(c, p)
  BY <1>2, <1>4, <1>5, <1>8 DEF RecordSuccess, IsOpen, Ignored, Recovered, PassOK, CircuitOK
<1>9. QED BY <1>1, <1>3, <1>6, <1>7, <1>8 DEF PassFails, PassAnswers, PassOn

\* The record a check is left with.
LEMMA CheckTypes ==
    ASSUME TypeOK, NEW c \in Checks, NEW S \in SUBSET Segments
    PROVE  /\ [IdleCheck EXCEPT !.pc = "next", !.asked = S, !.remaining = S] \in Check
           /\ [IdleCheck EXCEPT !.pc = "next", !.asked = S, !.remaining = S].pc = "next"
           /\ \A v \in Verdicts : Report(check[c], v, S) \in Check /\ Report(check[c], v, S).pc = "idle"
           /\ check[c].at <= Len(Order) =>
                 /\ [TurnOver(check[c]) EXCEPT !.pc = "next", !.failed = TRUE] \in Check
                 /\ [TurnOver(check[c]) EXCEPT !.pc = "next", !.failed = TRUE].pc = "next"
                 /\ [TurnOver(check[c]) EXCEPT !.pc = "next", !.answered = TRUE, !.remaining = S]
                       \in Check
                 /\ [TurnOver(check[c]) EXCEPT !.pc = "next", !.answered = TRUE, !.remaining = S].pc
                       = "next"
<1> DEFINE s == check[c]
<1>1. s \in Check /\ s.asked \in SUBSET Segments /\ s.at \in 1..(Len(Order) + 1)
  BY DEF TypeOK, Check
<1>2. 0 \in 0..MaxEpoch /\ 0 \in 0..Timeout
  BY NntpAssumption
<1>3. IdleCheck \in Check /\ IdleCheck.pc = "idle"
  BY OrderFacts, NntpAssumption DEF IdleCheck, Check, Verdicts
<1>4. /\ [IdleCheck EXCEPT !.pc = "next", !.asked = S, !.remaining = S] \in Check
      /\ [IdleCheck EXCEPT !.pc = "next", !.asked = S, !.remaining = S].pc = "next"
  <2> DEFINE n1 == [IdleCheck EXCEPT !.pc = "next"]
             n2 == [n1 EXCEPT !.asked = S]
             n3 == [n2 EXCEPT !.remaining = S]
  <2>1. n1 \in Check /\ n1.pc = "next"
    BY <1>3 DEF Check
  <2> HIDE DEF n1
  <2>2. n2 \in Check /\ n2.pc = n1.pc
    BY <1>3, <2>1 DEF Check
  <2> HIDE DEF n2
  <2>3. n3 \in Check /\ n3.pc = n2.pc
    BY <1>3, <2>2 DEF Check
  <2> HIDE DEF n3
  <2>4. QED BY <2>1, <2>2, <2>3 DEF n1, n2, n3
<1>5. ASSUME NEW v \in Verdicts PROVE Report(s, v, S) \in Check /\ Report(s, v, S).pc = "idle"
  <2> DEFINE n1 == [IdleCheck EXCEPT !.asked = s.asked]
             n2 == [n1 EXCEPT !.remaining = S]
             n3 == [n2 EXCEPT !.verdict = v]
  <2>1. n1 \in Check /\ n1.pc = IdleCheck.pc
    BY <1>1, <1>3, <1>5 DEF Check
  <2> HIDE DEF n1
  <2>2. n2 \in Check /\ n2.pc = n1.pc
    BY <1>1, <1>3, <1>5, <2>1 DEF Check
  <2> HIDE DEF n2
  <2>3. n3 \in Check /\ n3.pc = n2.pc
    BY <1>1, <1>3, <1>5, <2>2 DEF Check
  <2> HIDE DEF n3
  <2>4. QED BY <1>3, <2>1, <2>2, <2>3 DEF n1, n2, n3, Report
<1>6. ASSUME s.at <= Len(Order) PROVE TurnOver(s) \in Check
  <2>0. s.at + 1 \in 1..(Len(Order) + 1)
    BY <1>1, <1>6, OrderFacts
  <2> DEFINE n1 == [s EXCEPT !.at = (s.at + 1)]
             n2 == [n1 EXCEPT !.probe = FALSE]
             n3 == [n2 EXCEPT !.epoch = 0]
             n4 == [n3 EXCEPT !.age = 0]
  <2>1. n1 \in Check /\ n1.pc = s.pc
    BY <1>1, <1>2, <2>0 DEF Check
  <2> HIDE DEF n1
  <2>2. n2 \in Check /\ n2.pc = n1.pc
    BY <1>1, <1>2, <2>0, <2>1 DEF Check
  <2> HIDE DEF n2
  <2>3. n3 \in Check /\ n3.pc = n2.pc
    BY <1>1, <1>2, <2>0, <2>2 DEF Check
  <2> HIDE DEF n3
  <2>4. n4 \in Check /\ n4.pc = n3.pc
    BY <1>1, <1>2, <2>0, <2>3 DEF Check
  <2> HIDE DEF n4
  <2>5. QED BY <2>4 DEF n1, n2, n3, n4, TurnOver
<1>7. ASSUME NEW t \in Check
      PROVE  /\ [t EXCEPT !.pc = "next", !.failed = TRUE] \in Check
             /\ [t EXCEPT !.pc = "next", !.failed = TRUE].pc = "next"
             /\ [t EXCEPT !.pc = "next", !.answered = TRUE, !.remaining = S] \in Check
             /\ [t EXCEPT !.pc = "next", !.answered = TRUE, !.remaining = S].pc = "next"
  <2> DEFINE n1 == [t EXCEPT !.pc = "next"]
             n2 == [n1 EXCEPT !.failed = TRUE]
             n3 == [n1 EXCEPT !.answered = TRUE]
             n4 == [n3 EXCEPT !.remaining = S]
  <2>1. n1 \in Check /\ n1.pc = "next"
    BY <1>7 DEF Check
  <2> HIDE DEF n1
  <2>2. n2 \in Check /\ n2.pc = "next" /\ n3 \in Check /\ n3.pc = "next"
    BY <2>1 DEF Check
  <2> HIDE DEF n2, n3
  <2>3. n4 \in Check /\ n4.pc = "next"
    BY <2>2 DEF Check
  <2>4. QED BY <2>2, <2>3 DEF n1, n2, n3, n4
<1>8. QED BY <1>4, <1>5, <1>6, <1>7

LEMMA PassLeaves ==
    ASSUME Inv, NEW c \in Checks, PassFails(c) \/ PassAnswers(c)
    PROVE  \E n \in Check : n.pc # "pass" /\ check' = [check EXCEPT ![c] = n]
<1> DEFINE s == check[c]
           missing == s.remaining \ Stored[ProviderOf(c)]
           failed == [TurnOver(s) EXCEPT !.pc = "next", !.failed = TRUE]
           answered == [TurnOver(s) EXCEPT !.pc = "next", !.answered = TRUE, !.remaining = missing]
<1>1. s.pc = "pass" /\ s \in Check /\ PassOK(s, circuit[Order[s.at]])
  BY DEF PassFails, PassAnswers, Inv, TypeOK, PassesOK
<1>2. s.at <= Len(Order) /\ missing \in SUBSET Segments
  BY <1>1 DEF PassOK, Check
<1>3. failed \in Check /\ answered \in Check /\ failed.pc = "next" /\ answered.pc = "next"
  BY <1>2, CheckTypes DEF Inv
<1>5. Report(s, "present", {}) \in Check /\ Report(s, "present", {}).pc = "idle"
  <2>1. "present" \in Verdicts /\ {} \in SUBSET Segments BY DEF Verdicts
  <2>2. \A v \in Verdicts : Report(s, v, {}) \in Check /\ Report(s, v, {}).pc = "idle"
    <3>1. TypeOK BY DEF Inv
    <3> QED BY <2>1, <3>1, CheckTypes
  <2> HIDE DEF s
  <2>3. QED BY <2>1, <2>2
<1>6. \/ check' = [check EXCEPT ![c] = failed]
      \/ check' = [check EXCEPT ![c] = answered]
      \/ check' = [check EXCEPT ![c] = Report(s, "present", {})]
  BY DEF PassFails, PassAnswers
<1> HIDE DEF failed, answered, s
<1>7. QED BY <1>3, <1>5, <1>6

\* Once the cooldown of p is over, the probe is the only pass over p.
LEMMA ProbeAlone ==
    ASSUME Inv, NEW p \in Providers, circuit[p].cool = 0, circuit[p].backoff > 0,
           NEW d \in Checks, PassOn(d, p)
    PROVE  /\ ProbeOn(d, p) /\ circuit[p].probing /\ check[d].epoch = circuit[p].epoch
           /\ \A c \in Checks : PassOn(c, p) => c = d
<1>1. ASSUME NEW c \in Checks, PassOn(c, p)
      PROVE  ProbeOn(c, p) /\ circuit[p].probing /\ check[c].epoch = circuit[p].epoch
  <2>1. PassOK(check[c], circuit[p]) /\ check[c] \in Check
    BY <1>1 DEF Inv, PassesOK, PassOn, ProviderOf, TypeOK
  <2>2. check[c].age \in 0..Timeout
    BY <2>1 DEF Check
  <2>3. QED BY <1>1, <2>1, <2>2, NntpAssumption DEF PassOK, ProbeOn
<1>2. QED BY <1>1 DEF Inv, OneProbe

LEMMA EndInv ==
    ASSUME Inv, NEW c \in Checks, PassFails(c) \/ PassAnswers(c)
    PROVE  Inv'
<1> DEFINE p == ProviderOf(c)
<1>1. p \in Providers /\ PassOn(c, p)
  BY PassEnds
<1>2. Ignored(c) \/ Recovered(c, p) \/ Opened(c, p) \/ Released(c, p)
  BY PassEnds
<1>3. PICK n \in Check : n.pc # "pass" /\ check' = [check EXCEPT ![c] = n]
  BY PassLeaves
<1>4. /\ check' \in [Checks -> Check] /\ check'[c].pc # "pass"
      /\ \A d \in Checks \ {c} : check'[d] = check[d]
  BY <1>3 DEF Inv, TypeOK
<1>5. circuit \in [Providers -> Circuit] /\ circuit[p] \in Circuit /\ CircuitOK(circuit[p])
  BY <1>1 DEF Inv, TypeOK, CircuitsOK
<1>6. PassOK(check[c], circuit[p]) /\ check[c] \in Check
  BY <1>1 DEF Inv, PassesOK, PassOn, ProviderOf, TypeOK
<1> HIDE DEF p
<1>7. \A q \in Providers \ {p} : circuit'[q] = circuit[q]
  BY <1>2, <1>5 DEF Ignored, Recovered, Opened, Released
<1>8. check[c].probe => \A d \in Checks : PassOn(d, p) => d = c
  BY <1>1, <1>6, ProbeAlone DEF PassOK
<1>9. circuit' \in [Providers -> Circuit] /\ CircuitOK(circuit'[p])
  <2>1. CASE Ignored(c)
    BY <1>5, <2>1 DEF Ignored
  <2>2. CASE Recovered(c, p)
    <3>1. NoFailures \in Circuit /\ CircuitOK(NoFailures)
      BY NntpAssumption DEF NoFailures, Circuit, CircuitOK
    <3>2. QED BY <1>1, <1>5, <2>2, <3>1 DEF Recovered
  <2>3. CASE Opened(c, p)
    <3>1. PICK to \in 1..MaxBackoff :
             /\ circuit[p].epoch < MaxEpoch
             /\ circuit' = [circuit EXCEPT ![p] =
                  [backoff |-> to, cool |-> to, probing |-> FALSE,
                   epoch |-> circuit[p].epoch + 1]]
      BY <2>3 DEF Opened
    <3> DEFINE k == [backoff |-> to, cool |-> to, probing |-> FALSE,
                     epoch |-> circuit[p].epoch + 1]
    <3>2. k \in Circuit /\ CircuitOK(k)
      BY <1>5, <3>1, NntpAssumption DEF Circuit, CircuitOK
    <3>3. circuit' = [circuit EXCEPT ![p] = k]
      BY <3>1
    <3> HIDE DEF k
    <3>4. QED BY <1>1, <1>5, <3>2, <3>3
  <2>4. CASE Released(c, p)
    BY <1>1, <1>5, <2>4 DEF Released, Circuit, CircuitOK
  <2>5. QED BY <1>2, <2>1, <2>2, <2>3, <2>4
<1>10. TypeOK' /\ CircuitsOK'
  BY <1>4, <1>7, <1>9 DEF Inv, TypeOK, CircuitsOK
<1>11. ASSUME NEW d \in Checks \ {c}, check[d].pc = "pass"
       PROVE  PassOK(check[d], circuit'[Order[check[d].at]])
  <2>1. PassOK(check[d], circuit[Order[check[d].at]]) /\ check[d] \in Check
    BY <1>11 DEF Inv, PassesOK, TypeOK
  <2>2. Order[check[d].at] \in Providers
    BY <2>1, OrderFacts DEF PassOK, Check
  <2>3. CASE Order[check[d].at] # p
    BY <1>7, <2>1, <2>2, <2>3
  <2>4. CASE Order[check[d].at] = p
    <3>1. ~ check[c].probe
      BY <1>8, <1>11, <2>4 DEF PassOn, ProviderOf
    <3>2. circuit[p].backoff = 0 => ~ check[d].probe /\ check[d].epoch = 0 /\ check[d].at <= Len(Order)
      BY <2>1, <2>4 DEF PassOK
    <3>3. CASE Ignored(c)
      BY <2>1, <3>3 DEF Ignored
    <3>4. CASE Recovered(c, p)
      BY <1>1, <1>5, <2>4, <3>1, <3>2, <3>4 DEF Recovered, PassOK, NoFailures
    <3>5. CASE Opened(c, p)
      <4>1. circuit[p].backoff = 0
        BY <3>1, <3>5 DEF Opened
      <4>2. circuit'[p].backoff > 0 /\ circuit'[p].cool >= BaseBackoff /\ circuit'[p].cool \in Nat
        BY <1>1, <1>5, <3>5, <4>1, NntpAssumption DEF Opened
      <4>3. check[d].age \in Nat
        BY <2>1, NntpAssumption DEF Check
      <4>4. QED BY <2>4, <3>2, <4>1, <4>2, <4>3, NntpAssumption DEF PassOK
    <3>6. CASE Released(c, p)
      BY <3>1, <3>6 DEF Released
    <3>7. QED BY <1>2, <3>3, <3>4, <3>5, <3>6
  <2>5. QED BY <2>3, <2>4
<1>12. PassesOK'
  BY <1>4, <1>11 DEF PassesOK
<1>13. \A d \in Checks, q \in Providers : ProbeOn(d, q)' => d # c /\ ProbeOn(d, q)
  BY <1>4 DEF ProbeOn, PassOn, ProviderOf
<1>14. OneProbe'
  BY <1>13 DEF OneProbe, Inv
<1>15. ASSUME NEW q \in Providers, circuit'[q].probing
       PROVE  \E d \in Checks : ProbeOn(d, q)'
  <2>1. circuit[q].probing /\ (q = p => ~ check[c].probe)
    BY <1>1, <1>2, <1>5, <1>7, <1>15 DEF Ignored, Recovered, Opened, Released, NoFailures, Circuit
  <2>2. PICK d \in Checks : ProbeOn(d, q)
    BY <2>1 DEF Inv, ProbeHeld
  <2>3. d # c
    BY <1>1, <2>1, <2>2 DEF ProbeOn, PassOn
  <2>4. QED BY <1>4, <2>2, <2>3 DEF ProbeOn, PassOn, ProviderOf
<1>16. QED BY <1>10, <1>12, <1>14, <1>15 DEF Inv, ProbeHeld

\* Admission: nobody else is on the provider when the probe is granted.
LEMMA Admission ==
    ASSUME Inv, NEW c \in Checks, StartPass(c), NEW p, p = ProviderOf(c)
    PROVE  /\ p \in Providers /\ check[c].at <= Len(Order) /\ check[c].pc = "next"
           /\ \/ circuit[p].backoff = 0 /\ circuit' = circuit
              \/ /\ circuit[p].backoff > 0 /\ circuit[p].cool = 0 /\ ~ circuit[p].probing
                 /\ circuit' = [circuit EXCEPT ![p].probing = TRUE]
                 /\ \A d \in Checks : ~ PassOn(d, p)
<1>1. check[c].at <= Len(Order) /\ check[c].pc = "next" /\ check[c] \in Check
  BY DEF StartPass, More, Inv, TypeOK
<1>2. p \in Providers
  BY <1>1, OrderFacts DEF ProviderOf, Check
<1>3. circuit[p].backoff \in 0..MaxBackoff
  BY <1>2 DEF Inv, TypeOK, Circuit
<1>4. CASE circuit[p].backoff = 0
  BY <1>1, <1>2, <1>3, <1>4 DEF StartPass, GrantProbe, IsOpen
<1>5. CASE circuit[p].backoff > 0
  <2>1. /\ circuit[p].cool = 0 /\ ~ circuit[p].probing
        /\ circuit' = [circuit EXCEPT ![p].probing = TRUE]
    BY <1>5 DEF StartPass, GrantProbe, Allows, IsOpen
  <2>2. QED BY <1>1, <1>2, <1>5, <2>1, ProbeAlone
<1>6. QED BY <1>3, <1>4, <1>5

LEMMA StartInv ==
    ASSUME Inv, NEW c \in Checks, StartPass(c)
    PROVE  Inv'
<1> DEFINE p == ProviderOf(c)
           s == check[c]
           n1 == [s EXCEPT !.pc = "pass"]
           n2 == [n1 EXCEPT !.probe = IsOpen(p)]
           n3 == [n2 EXCEPT !.epoch = circuit[p].epoch]
           n4 == [n3 EXCEPT !.age = 0]
<1>1. /\ p \in Providers /\ s.at <= Len(Order) /\ s.pc = "next"
      /\ \/ circuit[p].backoff = 0 /\ circuit' = circuit
         \/ /\ circuit[p].backoff > 0 /\ circuit[p].cool = 0 /\ ~ circuit[p].probing
            /\ circuit' = [circuit EXCEPT ![p].probing = TRUE]
            /\ \A d \in Checks : ~ PassOn(d, p)
  BY Admission
<1>2. s \in Check /\ circuit \in [Providers -> Circuit] /\ circuit[p] \in Circuit
  BY <1>1 DEF Inv, TypeOK
<1>3. circuit[p].epoch \in 0..MaxEpoch /\ IsOpen(p) \in BOOLEAN /\ 0 \in 0..Timeout
  BY <1>2, NntpAssumption DEF Circuit, IsOpen
<1>4. check' = [check EXCEPT ![c] = n4]
  BY DEF StartPass
<1>5. p = Order[s.at]
  BY DEF ProviderOf
<1> HIDE DEF p, s
<1>6. n1 \in Check /\ n1.pc = "pass" /\ n1.at = s.at
  BY <1>2 DEF Check
<1> HIDE DEF n1
<1>7. n2 \in Check /\ n2.pc = "pass" /\ n2.at = s.at /\ n2.probe = IsOpen(p)
  BY <1>3, <1>6 DEF Check
<1> HIDE DEF n2
<1>8. n3 \in Check /\ n3.pc = "pass" /\ n3.at = s.at /\ n3.probe = IsOpen(p)
      /\ n3.epoch = circuit[p].epoch
  BY <1>3, <1>7 DEF Check
<1> HIDE DEF n3
<1>9. n4 \in Check /\ n4.pc = "pass" /\ n4.at = s.at /\ n4.probe = IsOpen(p)
      /\ n4.epoch = circuit[p].epoch
  BY <1>3, <1>8 DEF Check
<1> HIDE DEF n4
<1>10. /\ check' \in [Checks -> Check] /\ check'[c] = n4
       /\ \A d \in Checks \ {c} : check'[d] = check[d]
  BY <1>4, <1>9 DEF Inv, TypeOK
<1>11. /\ circuit' \in [Providers -> Circuit]
       /\ \A q \in Providers \ {p} : circuit'[q] = circuit[q]
       /\ CircuitOK(circuit'[p])
  <2>1. CircuitOK(circuit[p])
    BY <1>1 DEF Inv, CircuitsOK
  <2>2. CASE circuit' = circuit
    BY <1>2, <2>1, <2>2
  <2>3. CASE circuit[p].backoff > 0 /\ circuit[p].cool = 0
             /\ circuit' = [circuit EXCEPT ![p].probing = TRUE]
    <3> DEFINE k == [circuit[p] EXCEPT !.probing = TRUE]
    <3>1. k \in Circuit /\ k.cool = 0 /\ k.backoff = circuit[p].backoff /\ k.epoch = circuit[p].epoch
      BY <1>2, <2>3 DEF Circuit
    <3>2. circuit' = [circuit EXCEPT ![p] = k]
      BY <2>3
    <3> HIDE DEF k
    <3>3. CircuitOK(k)
      BY <2>1, <2>3, <3>1 DEF CircuitOK
    <3>4. QED BY <1>1, <1>2, <3>1, <3>2, <3>3
  <2>4. QED BY <1>1, <2>2, <2>3
<1>12. TypeOK' /\ CircuitsOK'
  BY <1>10, <1>11 DEF Inv, TypeOK, CircuitsOK
<1>13. PassOK(n4, circuit'[p])
  <2>1. CircuitOK(circuit[p]) /\ circuit[p].epoch \in Nat
    BY <1>1, <1>2, NntpAssumption DEF Inv, CircuitsOK, Circuit
  <2>2. CASE circuit[p].backoff = 0 /\ circuit' = circuit
    <3>1. circuit[p].epoch = 0 /\ ~ IsOpen(p)
      BY <2>1, <2>2 DEF IsOpen, CircuitOK
    <3>2. n4.epoch = 0 /\ ~ n4.probe
      BY <1>9, <3>1
    <3>3. QED BY <1>1, <1>9, <2>2, <3>2 DEF PassOK
  <2>3. CASE circuit[p].backoff > 0 /\ circuit[p].cool = 0
             /\ circuit' = [circuit EXCEPT ![p].probing = TRUE]
    <3>1. /\ circuit'[p].probing /\ circuit'[p].cool = 0 /\ circuit'[p].backoff > 0
          /\ circuit'[p].epoch = circuit[p].epoch
      BY <1>1, <1>2, <2>3 DEF Circuit
    <3>2. QED BY <1>1, <1>9, <2>3, <3>1 DEF PassOK, IsOpen
  <2>4. QED BY <1>1, <2>2, <2>3
<1>14. ASSUME NEW d \in Checks \ {c}, check[d].pc = "pass"
       PROVE  PassOK(check[d], circuit'[Order[check[d].at]])
  <2>1. PassOK(check[d], circuit[Order[check[d].at]]) /\ check[d] \in Check
    BY <1>14 DEF Inv, PassesOK, TypeOK
  <2>2. Order[check[d].at] \in Providers
    BY <2>1, OrderFacts DEF PassOK, Check
  <2>3. circuit'[Order[check[d].at]] = circuit[Order[check[d].at]]
    BY <1>1, <1>11, <1>14, <2>2 DEF PassOn, ProviderOf
  <2>4. QED BY <2>1, <2>3
<1>15. PassesOK'
  BY <1>5, <1>9, <1>10, <1>13, <1>14 DEF PassesOK
<1>16. ASSUME NEW d \in Checks, NEW q \in Providers, ProbeOn(d, q)'
       PROVE  IF d = c THEN q = p /\ circuit[p].backoff > 0 ELSE ProbeOn(d, q)
  BY <1>5, <1>9, <1>10, <1>16 DEF ProbeOn, PassOn, ProviderOf, IsOpen
<1>17. OneProbe'
  <2> SUFFICES ASSUME NEW d \in Checks, NEW e \in Checks, NEW q \in Providers,
                      ProbeOn(d, q)', ProbeOn(e, q)', d # e
               PROVE  FALSE
    BY DEF OneProbe
  <2>1. CASE d # c /\ e # c
    BY <1>16, <2>1 DEF Inv, OneProbe
  <2>2. CASE d = c \/ e = c
    BY <1>1, <1>16, <2>2 DEF ProbeOn
  <2>3. QED BY <2>1, <2>2
<1>18. ASSUME NEW q \in Providers, circuit'[q].probing
       PROVE  \E d \in Checks : ProbeOn(d, q)'
  <2>1. CASE q = p /\ circuit[p].backoff > 0
    BY <1>5, <1>9, <1>10, <2>1 DEF ProbeOn, PassOn, ProviderOf, IsOpen
  <2>2. CASE ~ (q = p /\ circuit[p].backoff > 0)
    <3>1. circuit[q].probing
      BY <1>1, <1>11, <1>18, <2>2
    <3>2. PICK d \in Checks : ProbeOn(d, q)
      BY <3>1 DEF Inv, ProbeHeld
    <3>3. d # c
      BY <1>1, <3>2 DEF ProbeOn, PassOn, s
    <3>4. QED BY <1>10, <3>2, <3>3 DEF ProbeOn, PassOn, ProviderOf
  <2>3. QED BY <2>1, <2>2
<1>19. QED BY <1>12, <1>15, <1>17, <1>18 DEF Inv, ProbeHeld

\* A step of a check that is not in a pass, before and after; or its caller leaves.
LEMMA MoveInv ==
    ASSUME Inv, UNCHANGED circuit, NEW c \in Checks, NEW n \in Check,
           check' = [check EXCEPT ![c] = n],
           \/ check[c].pc # "pass" /\ n.pc # "pass"
           \/ /\ n.pc = check[c].pc /\ n.at = check[c].at /\ n.probe = check[c].probe
              /\ n.epoch = check[c].epoch /\ n.age = check[c].age
    PROVE  Inv'
<1>1. /\ check' \in [Checks -> Check] /\ check'[c] = n
      /\ \A d \in Checks \ {c} : check'[d] = check[d]
  BY DEF Inv, TypeOK
<1>2. TypeOK' /\ CircuitsOK'
  BY <1>1 DEF Inv, TypeOK, CircuitsOK
<1>3. PassesOK'
  BY <1>1 DEF Inv, PassesOK, PassOK
<1>4. \A d \in Checks, p \in Providers : ProbeOn(d, p)' <=> ProbeOn(d, p)
  BY <1>1 DEF ProbeOn, PassOn, ProviderOf
<1>5. OneProbe' /\ ProbeHeld'
  BY <1>4 DEF Inv, OneProbe, ProbeHeld
<1>6. QED BY <1>2, <1>3, <1>5 DEF Inv

\* Time: a pass that has time left, and a cooldown that outlasts it.
LEMMA TickInv ==
    ASSUME Inv, Tick
    PROVE  Inv'
<1>1. circuit \in [Providers -> Circuit] /\ check \in [Checks -> Check]
  BY DEF Inv, TypeOK
<1>2. ASSUME NEW p \in Providers
      PROVE  /\ circuit'[p] \in Circuit
             /\ circuit'[p].backoff = circuit[p].backoff
             /\ circuit'[p].probing = circuit[p].probing
             /\ circuit'[p].epoch = circuit[p].epoch
             /\ circuit'[p].cool = IF circuit[p].cool > 0 THEN circuit[p].cool - 1 ELSE 0
  <2> DEFINE k == circuit[p]
             t == IF k.cool > 0 THEN k.cool - 1 ELSE 0
  <2>1. k \in Circuit /\ circuit'[p] = [k EXCEPT !.cool = t]
    BY <1>1 DEF Tick
  <2>2. t \in 0..MaxBackoff
    BY <2>1, NntpAssumption DEF Circuit
  <2> HIDE DEF k, t
  <2>3. QED BY <2>1, <2>2 DEF Circuit, k, t
<1>3. ASSUME NEW c \in Checks
      PROVE  /\ check'[c] \in Check
             /\ check'[c].pc = check[c].pc /\ check'[c].at = check[c].at
             /\ check'[c].probe = check[c].probe /\ check'[c].epoch = check[c].epoch
             /\ check[c].pc = "pass" =>
                   check'[c].age = check[c].age + 1 /\ check[c].age < Timeout
  <2> DEFINE s == check[c]
             t == IF s.pc = "pass" THEN s.age + 1 ELSE s.age
  <2>1. s \in Check /\ check'[c] = [s EXCEPT !.age = t]
    BY <1>1 DEF Tick
  <2>2. s.pc = "pass" => s.age < Timeout
    BY DEF Tick
  <2>3. t \in 0..Timeout
    BY <2>1, <2>2, NntpAssumption DEF Check
  <2> HIDE DEF s
  <2>4. t = IF s.pc = "pass" THEN s.age + 1 ELSE s.age
    OBVIOUS
  <2> HIDE DEF t
  <2>5. QED BY <2>1, <2>2, <2>3, <2>4 DEF Check, s
<1>4. circuit' = [p \in Providers |-> circuit'[p]] /\ check' = [c \in Checks |-> check'[c]]
  BY DEF Tick
<1>5. TypeOK'
  BY <1>2, <1>3, <1>4 DEF TypeOK
<1>6. CircuitsOK'
  BY <1>1, <1>2 DEF CircuitsOK, CircuitOK, Inv, Circuit
<1>7. ASSUME NEW c \in Checks, check'[c].pc = "pass"
      PROVE  PassOK(check'[c], circuit'[Order[check'[c].at]])
  <2> DEFINE p == Order[check[c].at]
  <2>1. PassOK(check[c], circuit[p]) /\ check[c] \in Check
    BY <1>1, <1>3, <1>7 DEF Inv, PassesOK
  <2>2. p \in Providers
    BY <2>1, OrderFacts DEF PassOK, Check
  <2>3. check[c].age \in 0..Timeout /\ circuit[p].cool \in 0..MaxBackoff
    BY <1>1, <2>1, <2>2 DEF Check, Circuit
  <2> HIDE DEF p
  <2>4. PassOK(check'[c], circuit'[p])
    <3>1. /\ check'[c].at = check[c].at /\ check'[c].probe = check[c].probe
          /\ check'[c].epoch = check[c].epoch
          /\ check'[c].age = check[c].age + 1 /\ check[c].age < Timeout
      BY <1>3, <1>7
    <3>2. /\ circuit'[p].backoff = circuit[p].backoff /\ circuit'[p].probing = circuit[p].probing
          /\ circuit'[p].epoch = circuit[p].epoch
          /\ circuit'[p].cool = IF circuit[p].cool > 0 THEN circuit[p].cool - 1 ELSE 0
      BY <1>2, <2>2
    <3>3. Timeout < circuit[p].cool + check[c].age =>
              Timeout < circuit'[p].cool + check'[c].age
      BY <2>3, <3>1, <3>2, NntpAssumption
    <3>4. circuit[p].cool = 0 => circuit'[p].cool = 0
      BY <3>2
    <3>5. QED BY <2>1, <3>1, <3>2, <3>3, <3>4 DEF PassOK
  <2>5. QED BY <1>3, <2>4 DEF p
<1>8. \A c \in Checks, p \in Providers : ProbeOn(c, p)' <=> ProbeOn(c, p)
  BY <1>3 DEF ProbeOn, PassOn, ProviderOf
<1>9. OneProbe' /\ ProbeHeld'
  BY <1>2, <1>8 DEF Inv, OneProbe, ProbeHeld
<1>10. QED BY <1>5, <1>6, <1>7, <1>9 DEF Inv, PassesOK

LEMMA StepInv ==
    ASSUME Inv, [Next]_vars
    PROVE  Inv'
<1>1. CASE UNCHANGED vars
  BY <1>1 DEF vars, Inv, TypeOK, CircuitsOK, PassesOK, OneProbe, ProbeHeld, ProbeOn, PassOn, ProviderOf
<1>2. ASSUME NEW c \in Checks, Skip(c) PROVE Inv'
  <2> DEFINE n1 == [check[c] EXCEPT !.skipped = TRUE]
             n2 == [n1 EXCEPT !.at = check[c].at + 1]
  <2>1. check[c] \in Check /\ check[c].pc = "next" /\ check[c].at + 1 \in 1..(Len(Order) + 1)
    BY <1>2, OrderFacts DEF Skip, More, Inv, TypeOK, Check
  <2>2. n1 \in Check /\ n1.pc = "next" /\ n1.at = check[c].at
    BY <2>1 DEF Check
  <2>3. check' = [check EXCEPT ![c] = n2]
    BY <1>2, <2>2 DEF Skip
  <2> HIDE DEF n1
  <2>4. n2 \in Check /\ n2.pc = "next"
    BY <2>1, <2>2 DEF Check
  <2> HIDE DEF n2
  <2>5. QED BY <1>2, <2>1, <2>3, <2>4, MoveInv DEF Skip
<1>3. ASSUME NEW c \in Checks, NEW S \in Samples, Begin(c, S) PROVE Inv'
  <2> DEFINE n == [IdleCheck EXCEPT !.pc = "next", !.asked = S, !.remaining = S]
  <2>1. n \in Check /\ n.pc = "next"
    BY CheckTypes, NntpAssumption DEF Inv
  <2>2. check[c].pc = "idle" /\ check' = [check EXCEPT ![c] = n] /\ UNCHANGED circuit
    BY <1>3 DEF Begin
  <2> HIDE DEF n
  <2>3. QED BY <2>1, <2>2, MoveInv
<1>4. ASSUME NEW c \in Checks, CallerGone(c) PROVE Inv'
  <2> DEFINE n == [check[c] EXCEPT !.gone = TRUE]
  <2>1. /\ n \in Check
        /\ n.pc = check[c].pc /\ n.at = check[c].at /\ n.probe = check[c].probe
        /\ n.epoch = check[c].epoch /\ n.age = check[c].age
    BY DEF Inv, TypeOK, Check
  <2>2. check' = [check EXCEPT ![c] = n] /\ UNCHANGED circuit
    BY <1>4 DEF CallerGone
  <2> HIDE DEF n
  <2>3. QED BY <2>1, <2>2, MoveInv
<1>5. ASSUME NEW c \in Checks, Conclude(c) PROVE Inv'
  <2>1. check[c].pc = "next" /\ check[c].remaining \in SUBSET Segments
    BY <1>5 DEF Conclude, Inv, TypeOK, Check
  <2>2. PICK n \in {Report(check[c], "unknown", {}), Report(check[c], "missing", check[c].remaining)} :
           check' = [check EXCEPT ![c] = n]
    BY <1>5 DEF Conclude
  <2>3. "unknown" \in Verdicts /\ "missing" \in Verdicts /\ {} \in SUBSET Segments /\ TypeOK
    BY DEF Verdicts, Inv
  <2>4. \A v \in Verdicts : Report(check[c], v, {}) \in Check /\ Report(check[c], v, {}).pc = "idle"
    BY <2>3, CheckTypes
  <2>5. \A v \in Verdicts : /\ Report(check[c], v, check[c].remaining) \in Check
                           /\ Report(check[c], v, check[c].remaining).pc = "idle"
    BY <2>1, <2>3, CheckTypes
  <2>6. n \in Check /\ n.pc = "idle"
    BY <2>2, <2>3, <2>4, <2>5
  <2>7. QED BY <1>5, <2>1, <2>2, <2>6, MoveInv DEF Conclude
<1>6. QED
  BY <1>1, <1>2, <1>3, <1>4, <1>5, StartInv, EndInv, TickInv DEF Next, CheckStep

LEMMA InvAlways == Spec => []Inv
BY InitInv, StepInv, PTL DEF Spec

\* Type correctness of the breaker and of the walks over the providers.
THEOREM TypeCorrect == Spec => []TypeOK
BY InvAlways, PTL DEF Inv

\* For any number of providers and concurrent checks, and any timeout shorter than
\* the base cooldown, the half-open probe is one pass, alone on its provider, and
\* the grant lasts exactly as long as that pass.
THEOREM ProbeIsExclusiveTheorem == Spec => []ProbeIsExclusive
<1>1. Inv => ProbeIsExclusive
  <2> SUFFICES ASSUME Inv, NEW p \in Providers, IsOpen(p)
               PROVE  /\ circuit[p].probing => circuit[p].cool = 0 /\ \E c \in Checks : PassOn(c, p)
                      /\ circuit[p].cool = 0 =>
                            \A c \in Checks : PassOn(c, p) =>
                                /\ circuit[p].probing /\ check[c].probe
                                /\ check[c].epoch = circuit[p].epoch
                                /\ \A d \in Checks : PassOn(d, p) => d = c
    BY DEF ProbeIsExclusive
  <2>1. circuit[p] \in Circuit /\ CircuitOK(circuit[p])
    BY DEF Inv, TypeOK, CircuitsOK
  <2>2. circuit[p].probing => circuit[p].cool = 0
    BY <2>1, NntpAssumption DEF Circuit, CircuitOK
  <2>3. circuit[p].probing => \E c \in Checks : PassOn(c, p)
    BY DEF Inv, ProbeHeld, ProbeOn
  <2>4. QED BY <2>2, <2>3, ProbeAlone DEF ProbeOn, IsOpen
<1>2. QED BY <1>1, InvAlways, PTL

-----------------------------------------------------------------------------
(* The half-open gate. *)

View(k) == IF ~ (k.backoff > 0) THEN "closed"
           ELSE IF k.cool > 0 THEN "open"
           ELSE IF k.probing THEN "trial" ELSE "ready"

LEMMA Views == /\ GateView = [p \in Providers |-> View(circuit[p])]
               /\ GateView' = [p \in Providers |-> View(circuit'[p])]
BY DEF GateView, View, IsOpen

\* A step that changes one circuit changes one gate.
LEMMA OneGate ==
    ASSUME NEW p \in Providers, \A q \in Providers \ {p} : circuit'[q] = circuit[q]
    PROVE  GateView' = [GateView EXCEPT ![p] = View(circuit'[p])]
BY Views

LEMMA GateStarts ==
    ASSUME Inv, NEW c \in Checks, StartPass(c)
    PROVE  Gate!GateNext \/ UNCHANGED GateView
<1> DEFINE p == ProviderOf(c)
<1>1. /\ p \in Providers
      /\ \/ circuit[p].backoff = 0 /\ circuit' = circuit
         \/ /\ circuit[p].backoff > 0 /\ circuit[p].cool = 0 /\ ~ circuit[p].probing
            /\ circuit' = [circuit EXCEPT ![p].probing = TRUE]
  BY Admission
<1> HIDE DEF p
<1>2. CASE circuit' = circuit
  BY <1>2, Views
<1>3. CASE /\ circuit[p].backoff > 0 /\ circuit[p].cool = 0 /\ ~ circuit[p].probing
           /\ circuit' = [circuit EXCEPT ![p].probing = TRUE]
  <2>1. circuit \in [Providers -> Circuit] /\ circuit[p] \in Circuit
    BY <1>1 DEF Inv, TypeOK
  <2>2. /\ circuit'[p].backoff > 0 /\ circuit'[p].cool = 0 /\ circuit'[p].probing
        /\ \A q \in Providers \ {p} : circuit'[q] = circuit[q]
    BY <1>1, <1>3, <2>1 DEF Circuit
  <2>3. View(circuit[p]) = "ready" /\ View(circuit'[p]) = "trial"
    BY <1>3, <2>2 DEF View
  <2>4. Gate!Admit(p)
    BY <1>1, <2>2, <2>3, Views, OneGate DEF Gate!Admit
  <2>5. QED BY <1>1, <2>4 DEF Gate!GateNext
<1>4. QED BY <1>1, <1>2, <1>3

LEMMA GateEnds ==
    ASSUME Inv, NEW c \in Checks, PassFails(c) \/ PassAnswers(c)
    PROVE  Gate!GateNext \/ UNCHANGED GateView
<1> DEFINE p == ProviderOf(c)
<1>1. p \in Providers /\ PassOn(c, p)
  BY PassEnds
<1>2. Ignored(c) \/ Recovered(c, p) \/ Opened(c, p) \/ Released(c, p)
  BY PassEnds
<1>3. circuit \in [Providers -> Circuit] /\ circuit[p] \in Circuit
  BY <1>1 DEF Inv, TypeOK
<1>4. PassOK(check[c], circuit[p])
  BY <1>1 DEF Inv, PassesOK, PassOn, ProviderOf
<1> HIDE DEF p
<1>5. check[c].probe => View(circuit[p]) = "trial"
  BY <1>4 DEF PassOK, View
<1>6. circuit[p].backoff = 0 => View(circuit[p]) = "closed"
  BY DEF View
<1>7. \A q \in Providers \ {p} : circuit'[q] = circuit[q]
  BY <1>2, <1>3 DEF Ignored, Recovered, Opened, Released
<1>8. ASSUME check[c].probe, View(circuit'[p]) \in {"closed", "open", "ready"}
      PROVE  Gate!GateNext
  <2>1. Gate!Verdict(p)
    BY <1>1, <1>5, <1>7, <1>8, Views, OneGate DEF Gate!Verdict
  <2>2. QED BY <1>1, <2>1 DEF Gate!GateNext
<1>9. CASE Ignored(c)
  BY <1>9, Views DEF Ignored
<1>10. CASE Recovered(c, p)
  <2>1. View(circuit'[p]) = "closed"
    BY <1>1, <1>3, <1>10 DEF Recovered, View, NoFailures
  <2>2. CASE check[c].probe
    BY <1>8, <2>1, <2>2
  <2>3. CASE circuit[p].backoff = 0
    BY <1>1, <1>6, <1>7, <2>1, <2>3, Views, OneGate
  <2>4. QED BY <1>10, <2>2, <2>3 DEF Recovered
<1>11. CASE Opened(c, p)
  <2>1. View(circuit'[p]) = "open"
    BY <1>1, <1>3, <1>11 DEF Opened, View
  <2>2. CASE check[c].probe
    BY <1>8, <2>1, <2>2
  <2>3. CASE circuit[p].backoff = 0
    <3>1. Gate!Trip(p)
      BY <1>1, <1>6, <1>7, <2>1, <2>3, Views, OneGate DEF Gate!Trip
    <3>2. QED BY <1>1, <3>1 DEF Gate!GateNext
  <2>4. QED BY <1>11, <2>2, <2>3 DEF Opened
<1>12. CASE Released(c, p)
  <2>1. /\ check[c].probe /\ circuit'[p].backoff = circuit[p].backoff
        /\ circuit'[p].cool = circuit[p].cool /\ ~ circuit'[p].probing
    BY <1>1, <1>3, <1>12 DEF Released, Circuit
  <2>2. View(circuit'[p]) = "ready"
    BY <1>4, <2>1 DEF PassOK, View
  <2>3. QED BY <1>8, <2>1, <2>2
<1>13. QED BY <1>2, <1>9, <1>10, <1>11, <1>12

LEMMA GateTicks ==
    ASSUME Inv, Tick
    PROVE  Gate!GateNext \/ UNCHANGED GateView
<1> DEFINE S == {p \in Providers : circuit[p].cool = 1}
<1>1. ASSUME NEW p \in Providers
      PROVE  View(circuit'[p]) = IF p \in S THEN "ready" ELSE View(circuit[p])
  <2>1. circuit[p] \in Circuit /\ CircuitOK(circuit[p])
    BY DEF Inv, TypeOK, CircuitsOK
  <2>2. circuit'[p].backoff = circuit[p].backoff /\ circuit'[p].probing = circuit[p].probing
        /\ circuit'[p].cool = IF circuit[p].cool > 0 THEN circuit[p].cool - 1 ELSE 0
    BY <2>1 DEF Tick, Circuit
  <2>3. circuit[p].cool \in Nat
    BY <2>1, NntpAssumption DEF Circuit
  <2>4. QED BY <2>1, <2>2, <2>3 DEF View, CircuitOK
<1>2. ASSUME NEW p \in S PROVE View(circuit[p]) = "open"
  <2>1. CircuitOK(circuit[p])
    BY DEF Inv, CircuitsOK
  <2>2. QED BY <2>1, <1>2 DEF CircuitOK, View
<1> HIDE DEF S
<1>3. S \in SUBSET Providers
  BY DEF S
<1>4. Gate!CooledDown(S)
  BY <1>1, <1>2, <1>3, Views DEF Gate!CooledDown
<1>5. QED BY <1>3, <1>4 DEF Gate!GateNext

\* The circuits of the NNTP providers implement the half-open gate: for any
\* interleaving of the checks, a provider in its cooldown is left alone, and only
\* the verdict of its one probe closes its circuit or opens it again.
THEOREM GateTheorem == Spec => ImplementsGate
<1>1. Init => Gate!GateInit
  BY DEF Init, Gate!GateInit, GateView, IsOpen, NoFailures
<1>2. ASSUME Inv, [Next]_vars PROVE [Gate!GateNext]_GateView
  <2>1. CASE UNCHANGED circuit
    BY <2>1, Views
  <2>2. QED
    BY <1>2, <2>1, GateStarts, GateEnds, GateTicks
       DEF Next, CheckStep, Skip, Begin, CallerGone, Conclude, vars
<1>3. QED BY <1>1, <1>2, InvAlways, PTL DEF Spec, ImplementsGate, Gate!GateSpec

\* Setting the flag of a circuit leaves its times and its failures alone.
LEMMA FlagOnly ==
    ASSUME Inv, NEW p \in Providers, NEW q \in Providers, NEW b \in BOOLEAN,
           circuit' = [circuit EXCEPT ![q].probing = b]
    PROVE  circuit'[p].epoch = circuit[p].epoch /\ circuit'[p].cool = circuit[p].cool
<1>1. circuit \in [Providers -> Circuit]
  BY DEF Inv, TypeOK
<1> DEFINE k == [circuit[q] EXCEPT !.probing = b]
<1>2. k.epoch = circuit[q].epoch /\ k.cool = circuit[q].cool /\ k \in Circuit
  BY <1>1 DEF Circuit
<1>3. circuit' = [circuit EXCEPT ![q] = k]
  OBVIOUS
<1> HIDE DEF k
<1>4. QED BY <1>1, <1>2, <1>3

\* p counts a failure of its outage, or is cooled down for longer.
Worse(p) == IsOpen(p) /\ (circuit'[p].epoch > circuit[p].epoch \/ circuit'[p].cool > circuit[p].cool)

LEMMA WorseMoves ==
    ASSUME Inv, NEW p \in Providers, Worse(p)
    PROVE  ~ (circuit'[p].epoch = circuit[p].epoch /\ circuit'[p].cool = circuit[p].cool)
<1>1. circuit[p] \in Circuit
  BY DEF Inv, TypeOK
<1>2. circuit[p].epoch \in Nat /\ circuit[p].cool \in Nat
  BY <1>1, NntpAssumption DEF Circuit
<1>3. QED BY <1>2 DEF Worse

LEMMA WorseByProbe ==
    ASSUME Inv, NEW p \in Providers, Worse(p),
           NEW c \in Checks, PassFails(c) \/ PassAnswers(c)
    PROVE  ProbeOn(c, p) /\ check'[c].pc # "pass"
<1> DEFINE q == ProviderOf(c)
<1>1. /\ q \in Providers /\ PassOn(c, q)
      /\ Ignored(c) \/ Recovered(c, q) \/ Opened(c, q) \/ Released(c, q)
  BY PassEnds
<1>2. check'[c].pc # "pass"
  <2>1. PICK n \in Check : n.pc # "pass" /\ check' = [check EXCEPT ![c] = n]
    BY PassLeaves
  <2>2. QED BY <2>1 DEF Inv, TypeOK
<1> HIDE DEF q
<1>3. ~ Ignored(c)
  BY WorseMoves DEF Ignored
<1>4. ~ Released(c, q)
  BY <1>1, FlagOnly, WorseMoves DEF Released
<1>5. circuit[p] \in Circuit /\ circuit[p].backoff > 0
  BY DEF Worse, IsOpen, Inv, TypeOK
<1>6. PICK k : /\ circuit' = [circuit EXCEPT ![q] = k]
               /\ check[c].probe \/ circuit[q].backoff = 0
  BY <1>1, <1>3, <1>4 DEF Recovered, Opened
<1>7. p = q
  <2>1. p # q => circuit'[p] = circuit[p]
    BY <1>1, <1>6 DEF Inv, TypeOK
  <2>2. QED BY <2>1, WorseMoves
<1>8. check[c].probe
  BY <1>5, <1>6, <1>7 DEF Circuit
<1>9. QED BY <1>1, <1>2, <1>7, <1>8 DEF ProbeOn

LEMMA WorseOnlyByProbe ==
    ASSUME Inv, Next, NEW p \in Providers, Worse(p)
    PROVE  \E c \in Checks : ProbeOn(c, p) /\ check'[c].pc # "pass"
<1>1. circuit' # circuit
  BY WorseMoves
<1>2. ASSUME Tick PROVE FALSE
  <2>1. circuit[p] \in Circuit
    BY DEF Inv, TypeOK
  <2> DEFINE n == IF circuit[p].cool > 0 THEN circuit[p].cool - 1 ELSE 0
             k == [circuit[p] EXCEPT !.cool = n]
  <2>2. circuit[p].epoch \in Nat /\ circuit[p].cool \in Nat /\ n <= circuit[p].cool /\ n \in Nat
    BY <2>1, NntpAssumption DEF Circuit
  <2>3. circuit'[p] = k
    BY <1>2 DEF Tick
  <2> HIDE DEF n
  <2>4. k.epoch = circuit[p].epoch /\ k.cool = n
    BY <2>1 DEF Circuit
  <2> HIDE DEF k
  <2>5. QED BY <2>2, <2>3, <2>4 DEF Worse
<1>3. ASSUME NEW c \in Checks, StartPass(c) PROVE FALSE
  <2> DEFINE q == ProviderOf(c)
  <2>1. q \in Providers
    BY <1>3, OrderFacts DEF StartPass, More, Inv, TypeOK, Check, ProviderOf
  <2>2. GrantProbe(q)
    BY <1>3 DEF StartPass
  <2> HIDE DEF q
  <2>3. QED BY <1>1, <2>1, <2>2, FlagOnly, WorseMoves DEF GrantProbe
<1>4. QED
  BY <1>1, <1>2, <1>3, WorseByProbe
     DEF Next, CheckStep, Skip, Begin, CallerGone, Conclude

\* Late failures of an outage neither count nor extend its cooldown, for any number
\* of checks in flight when it begins.
THEOREM BackoffTheorem == Spec => BackoffOnlyByProbe
<1> DEFINE A == \A p \in Providers :
                  (IsOpen(p) /\ (\/ circuit'[p].epoch > circuit[p].epoch
                                \/ circuit'[p].cool > circuit[p].cool))
                  => \E c \in Checks : ProbeOn(c, p) /\ check'[c].pc # "pass"
<1>1. Inv /\ [Next]_vars => [A]_vars
  BY WorseOnlyByProbe DEF Worse
<1>2. QED BY <1>1, InvAlways, PTL DEF Spec, BackoffOnlyByProbe

-----------------------------------------------------------------------------
(* The verdict. What a walk in progress has established: it has not reported *)
(* yet, what it has crossed off is stored somewhere, and, unless a provider  *)
(* was skipped or failed, those already visited have none of the rest.       *)

Walk(s) ==
    /\ s.verdict = "none"
    /\ s.remaining # {}
    /\ s.asked \ s.remaining \subseteq Stock
    /\ ~ s.skipped /\ ~ s.failed =>
         \A i \in 1..Len(Order) : i < s.at => s.remaining \cap Stored[Order[i]] = {}

Reported(s) ==
    /\ s.verdict = "present" => s.asked \subseteq Stock
    /\ s.verdict = "missing" => s.remaining # {} /\ s.remaining \cap Stock = {}

WalkInv == \A c \in Checks : IF check[c].pc = "idle" THEN Reported(check[c]) ELSE Walk(check[c])

LEMMA WalkReported == WalkInv => VerdictSound
BY DEF WalkInv, VerdictSound, Reported, Walk

\* The fields of the records a step leaves.
LEMMA ReportFields ==
    ASSUME NEW s \in Check, NEW v, NEW S
    PROVE  LET r == Report(s, v, S) IN
           r.pc = "idle" /\ r.asked = s.asked /\ r.remaining = S /\ r.verdict = v
BY DEF Report, IdleCheck

LEMMA TurnFields ==
    ASSUME NEW s \in Check, NEW S
    PROVE  LET f == [TurnOver(s) EXCEPT !.pc = "next", !.failed = TRUE]
               a == [TurnOver(s) EXCEPT !.pc = "next", !.answered = TRUE, !.remaining = S] IN
           /\ f.pc = "next" /\ f.failed = TRUE /\ f.verdict = s.verdict
           /\ f.remaining = s.remaining /\ f.asked = s.asked
           /\ a.pc = "next" /\ a.failed = s.failed /\ a.skipped = s.skipped
           /\ a.verdict = s.verdict /\ a.asked = s.asked /\ a.remaining = S
           /\ a.at = s.at + 1
BY DEF TurnOver, Check

LEMMA WalkInit == Init => WalkInv
BY DEF Init, WalkInv, IdleCheck, Reported

\* Only the record of the check that moves is to be looked at.
LEMMA WalkLocal ==
    ASSUME TypeOK, WalkInv, NEW c \in Checks, NEW n, check' = [check EXCEPT ![c] = n],
           IF n.pc = "idle" THEN Reported(n) ELSE Walk(n)
    PROVE  WalkInv'
<1> SUFFICES ASSUME NEW d \in Checks
             PROVE  IF check'[d].pc = "idle" THEN Reported(check'[d]) ELSE Walk(check'[d])
  BY DEF WalkInv, Reported, Walk, Stock
<1>1. CASE d = c
  BY <1>1 DEF TypeOK
<1>2. CASE d # c
  BY <1>2 DEF TypeOK, WalkInv
<1>3. QED BY <1>1, <1>2

LEMMA WalkBegin ==
    ASSUME TypeOK, WalkInv, NEW c \in Checks, NEW S \in Samples, Begin(c, S)
    PROVE  WalkInv'
<1> DEFINE n == [IdleCheck EXCEPT !.pc = "next", !.asked = S, !.remaining = S]
<1>1. /\ n.pc = "next" /\ n.verdict = "none" /\ n.asked = S /\ n.remaining = S
      /\ n.at = 1
  BY DEF IdleCheck
<1>2. S # {}
  BY NntpAssumption
<1>3. check' = [check EXCEPT ![c] = n]
  BY DEF Begin
<1> HIDE DEF n
<1>4. Walk(n)
  <2>1. \A i \in 1..Len(Order) : ~ (i < n.at)
    BY <1>1, OrderFacts
  <2>2. n.remaining # {} /\ n.asked \ n.remaining = {}
    BY <1>1, <1>2
  <2>3. QED BY <1>1, <2>1, <2>2 DEF Walk
<1>5. QED BY <1>1, <1>3, <1>4, WalkLocal

\* Steps that change no field the walk depends on.
LEMMA WalkKept ==
    ASSUME TypeOK, WalkInv, NEW c \in Checks, NEW n, check' = [check EXCEPT ![c] = n],
           check[c].pc # "idle", n.pc # "idle", n.verdict = check[c].verdict,
           n.asked = check[c].asked, n.remaining = check[c].remaining, n.at = check[c].at,
           n.skipped = check[c].skipped, n.failed = check[c].failed
    PROVE  WalkInv'
<1>1. Walk(check[c])
  BY DEF WalkInv
<1>2. Walk(n)
  BY <1>1 DEF Walk
<1>3. QED BY <1>2, WalkLocal

\* A provider is skipped or fails: no provider can be said to have been asked.
LEMMA WalkUnsure ==
    ASSUME TypeOK, WalkInv, NEW c \in Checks, NEW n, check' = [check EXCEPT ![c] = n],
           check[c].pc # "idle", n.pc # "idle", n.verdict = check[c].verdict,
           n.asked = check[c].asked, n.remaining = check[c].remaining,
           n.skipped \/ n.failed
    PROVE  WalkInv'
<1>1. Walk(check[c])
  BY DEF WalkInv
<1>2. Walk(n)
  BY <1>1 DEF Walk
<1>3. QED BY <1>2, WalkLocal

LEMMA WalkStart ==
    ASSUME TypeOK, WalkInv, NEW c \in Checks, Skip(c) \/ StartPass(c) \/ CallerGone(c)
    PROVE  WalkInv'
<1> DEFINE s == check[c]
<1>1. s \in Check
  BY DEF TypeOK
<1>2. ASSUME Skip(c) PROVE WalkInv'
  <2> DEFINE n == [s EXCEPT !.skipped = TRUE, !.at = s.at + 1]
  <2>1. s.pc = "next" /\ check' = [check EXCEPT ![c] = n]
    BY <1>2 DEF Skip, More, TypeOK
  <2>2. /\ n.pc = "next" /\ n.verdict = s.verdict /\ n.asked = s.asked
        /\ n.remaining = s.remaining /\ n.skipped = TRUE
    BY <1>1, <2>1 DEF Check
  <2> HIDE DEF n
  <2>3. QED BY <2>1, <2>2, WalkUnsure
<1>3. ASSUME StartPass(c) PROVE WalkInv'
  <2> DEFINE e == circuit[ProviderOf(c)].epoch
             b == IsOpen(ProviderOf(c))
             n == [s EXCEPT !.pc = "pass", !.probe = b, !.epoch = e, !.age = 0]
  <2>1. s.pc = "next" /\ check' = [check EXCEPT ![c] = n]
    BY <1>3 DEF StartPass, More, TypeOK
  <2> HIDE DEF e, b
  <2>2. /\ n.pc = "pass" /\ n.verdict = s.verdict /\ n.asked = s.asked /\ n.at = s.at
        /\ n.remaining = s.remaining /\ n.skipped = s.skipped /\ n.failed = s.failed
    BY <1>1, <2>1 DEF Check
  <2> HIDE DEF n
  <2>3. QED BY <2>1, <2>2, WalkKept
<1>4. ASSUME CallerGone(c) PROVE WalkInv'
  <2> DEFINE n == [s EXCEPT !.gone = TRUE]
  <2>1. s.pc # "idle" /\ check' = [check EXCEPT ![c] = n]
    BY <1>4 DEF CallerGone, TypeOK
  <2>2. /\ n.pc = s.pc /\ n.verdict = s.verdict /\ n.asked = s.asked /\ n.at = s.at
        /\ n.remaining = s.remaining /\ n.skipped = s.skipped /\ n.failed = s.failed
    BY <1>1 DEF Check
  <2> HIDE DEF n
  <2>3. QED BY <2>1, <2>2, WalkKept
<1>5. QED BY <1>2, <1>3, <1>4

LEMMA WalkFails ==
    ASSUME TypeOK, WalkInv, NEW c \in Checks, PassFails(c)
    PROVE  WalkInv'
<1> DEFINE s == check[c]
           n == [TurnOver(s) EXCEPT !.pc = "next", !.failed = TRUE]
<1>1. s \in Check /\ s.pc = "pass" /\ check' = [check EXCEPT ![c] = n]
  BY DEF PassFails, TypeOK
<1>2. /\ n.pc = "next" /\ n.failed = TRUE /\ n.verdict = s.verdict
      /\ n.remaining = s.remaining /\ n.asked = s.asked
  BY <1>1, TurnFields
<1> HIDE DEF n
<1>3. QED BY <1>1, <1>2, WalkUnsure

LEMMA WalkAnswers ==
    ASSUME TypeOK, WalkInv, NEW c \in Checks, PassAnswers(c), check[c].at <= Len(Order)
    PROVE  WalkInv'
<1> DEFINE s == check[c]
           missing == s.remaining \ Stored[Order[s.at]]
           a == [TurnOver(s) EXCEPT !.pc = "next", !.answered = TRUE, !.remaining = missing]
           r == Report(s, "present", {})
<1>1. /\ s \in Check /\ s.pc = "pass"
      /\ check' = [check EXCEPT ![c] = IF missing = {} THEN r ELSE a]
  BY DEF PassAnswers, ProviderOf, TypeOK
<1>2. s.at \in 1..Len(Order) /\ Stored[Order[s.at]] \subseteq Stock
  BY <1>1, OrderFacts DEF Check, Stock
<1>3. Walk(s)
  BY <1>1 DEF WalkInv
<1>4. s.asked \ missing \subseteq Stock
  BY <1>2, <1>3 DEF Walk
<1>5. CASE missing = {}
  <2>1. r.pc = "idle" /\ r.asked = s.asked /\ r.verdict = "present"
    BY <1>1, ReportFields
  <2>2. s.asked \subseteq Stock
    BY <1>4, <1>5
  <2>3. check' = [check EXCEPT ![c] = r]
    BY <1>1, <1>5
  <2> HIDE DEF r
  <2>4. Reported(r)
    BY <2>1, <2>2 DEF Reported
  <2>5. QED BY <2>1, <2>3, <2>4, WalkLocal
<1>6. CASE missing # {}
  <2>1. /\ a.pc = "next" /\ a.failed = s.failed /\ a.skipped = s.skipped
        /\ a.verdict = s.verdict /\ a.asked = s.asked /\ a.remaining = missing
        /\ a.at = s.at + 1
    BY <1>1, TurnFields
  <2>2. check' = [check EXCEPT ![c] = a]
    BY <1>1, <1>6
  <2>3. ASSUME ~ s.skipped, ~ s.failed, NEW i \in 1..Len(Order), i < s.at + 1
        PROVE  missing \cap Stored[Order[i]] = {}
    <3>1. CASE i = s.at
      BY <3>1
    <3>2. CASE i < s.at
      BY <1>3, <2>3, <3>2 DEF Walk
    <3>3. QED BY <1>2, <2>3, <3>1, <3>2, OrderFacts
  <2> HIDE DEF a, missing
  <2>4. Walk(a)
    BY <1>3, <1>4, <1>6, <2>1, <2>3 DEF Walk
  <2>5. QED BY <2>1, <2>2, <2>4, WalkLocal
<1>7. QED BY <1>5, <1>6

LEMMA WalkConcludes ==
    ASSUME TypeOK, WalkInv, NEW c \in Checks, Conclude(c)
    PROVE  WalkInv'
<1> DEFINE s == check[c]
           u == Report(s, "unknown", {})
           m == Report(s, "missing", s.remaining)
<1>1. s \in Check /\ s.pc = "next" /\ (s.gone \/ s.at > Len(Order))
  BY DEF Conclude, TypeOK
<1>2. Walk(s) /\ s.at \in Nat
  BY <1>1, OrderFacts DEF WalkInv, Check
<1>3. CASE s.gone \/ ~ s.answered \/ s.skipped \/ s.failed
  <2>1. u.pc = "idle" /\ u.verdict = "unknown"
    BY <1>1, ReportFields
  <2>2. check' = [check EXCEPT ![c] = u]
    BY <1>3 DEF Conclude
  <2> HIDE DEF u
  <2>3. QED BY <2>1, <2>2, WalkLocal DEF Reported
<1>4. CASE ~ (s.gone \/ ~ s.answered \/ s.skipped \/ s.failed)
  <2>1. m.pc = "idle" /\ m.verdict = "missing" /\ m.remaining = s.remaining
    BY <1>1, ReportFields
  <2>2. check' = [check EXCEPT ![c] = m]
    BY <1>4 DEF Conclude
  <2>3. \A i \in 1..Len(Order) : s.remaining \cap Stored[Order[i]] = {}
    BY <1>1, <1>2, <1>4, OrderFacts DEF Walk
  <2>4. s.remaining \cap Stock = {} /\ s.remaining # {}
    BY <1>2, <2>3 DEF Stock, Walk
  <2> HIDE DEF m
  <2>5. QED BY <2>1, <2>2, <2>4, WalkLocal DEF Reported
<1>5. QED BY <1>3, <1>4

LEMMA WalkTick ==
    ASSUME TypeOK, WalkInv, Tick
    PROVE  WalkInv'
<1> SUFFICES ASSUME NEW c \in Checks
             PROVE  IF check'[c].pc = "idle" THEN Reported(check'[c]) ELSE Walk(check'[c])
  BY DEF WalkInv, Reported, Walk, Stock
<1> DEFINE s == check[c]
           g == IF s.pc = "pass" THEN s.age + 1 ELSE s.age
           n == [s EXCEPT !.age = g]
<1>1. s \in Check /\ check'[c] = n
  BY DEF Tick, TypeOK
<1> HIDE DEF g
<1>2. /\ n.pc = s.pc /\ n.verdict = s.verdict /\ n.asked = s.asked /\ n.at = s.at
      /\ n.remaining = s.remaining /\ n.skipped = s.skipped /\ n.failed = s.failed
  BY <1>1 DEF Check
<1> HIDE DEF n
<1>3. IF s.pc = "idle" THEN Reported(s) ELSE Walk(s)
  BY DEF WalkInv
<1>4. QED BY <1>1, <1>2, <1>3 DEF Reported, Walk

\* A release is rejected only when every configured provider has answered and has
\* none of the remaining segments, for any providers, order, segments and checks,
\* with checks that skip providers in a cooldown and callers that go away.
THEOREM VerdictTheorem == Spec => []VerdictSound
<1>1. ASSUME Inv, WalkInv, [Next]_vars PROVE WalkInv'
  <2>1. TypeOK
    BY <1>1 DEF Inv
  <2>2. CASE UNCHANGED vars
    BY <1>1, <2>2 DEF vars, WalkInv, Reported, Walk, Stock
  <2>3. ASSUME NEW c \in Checks, PassAnswers(c) PROVE check[c].at <= Len(Order)
    BY <1>1, <2>3 DEF Inv, PassesOK, PassOK, PassAnswers
  <2>4. QED
    BY <1>1, <2>1, <2>2, <2>3, WalkBegin, WalkStart, WalkFails, WalkAnswers,
       WalkConcludes, WalkTick DEF Next, CheckStep
<1>2. QED BY <1>1, WalkInit, WalkReported, InvAlways, PTL DEF Spec
=============================================================================
