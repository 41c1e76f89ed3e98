------------------------- MODULE ProviderBreakerProof -------------------------
(* Proofs about ProviderBreaker, for any number of indexers, requests and     *)
(* Retry-After hints, provided a request times out sooner than the shortest    *)
(* cooldown ends.                                                              *)
EXTENDS ProviderBreaker, TLAPS

(* The inductive invariant. A request was admitted while its circuit was        *)
(* closed, and is over before a cooldown that starts under it is; or it holds   *)
(* the one probe of an open circuit whose cooldown is over.                     *)

StateOK(k) ==
    /\ k.cool > 0 => k.backoff > 0 /\ ~ k.probing
    /\ k.probing => k.backoff > 0
    /\ k.backoff > 0 => k.backoff >= Cooldown

CallOK(v, k) ==
    \/ ~ v.probe /\ k.backoff = 0
    \/ ~ v.probe /\ k.backoff > 0 /\ Timeout < k.cool + v.age
    \/ v.probe /\ k.probing /\ k.backoff > 0 /\ k.cool = 0

StatesOK == \A p \in Providers : StateOK(state[p])
CallsOK == \A c \in Callers : call[c] # NoCall => CallOK(call[c], state[call[c].provider])
OneProbe == \A c, d \in Callers, p \in Providers :
              CallOn(c, p) /\ CallOn(d, p) /\ call[c].probe /\ call[d].probe => c = d

Inv == TypeOK /\ StatesOK /\ CallsOK /\ OneProbe

-----------------------------------------------------------------------------

LEMMA Times ==
    /\ Timeout \in Nat /\ Cooldown \in Nat /\ MaxCooldown \in Nat
    /\ Timeout < Cooldown /\ Cooldown <= MaxCooldown
    /\ \A hint \in Hints : hint \in Nat
BY BreakerAssumption

LEMMA CallFacts ==
    ASSUME TypeOK, NEW c \in Callers, call[c] # NoCall
    PROVE  /\ call[c] \in Call /\ call[c].provider \in Providers /\ call[c].age \in 0..Timeout
           /\ call[c].probe \in BOOLEAN
           /\ state[call[c].provider] \in State
BY DEF TypeOK, Call

LEMMA StateFacts ==
    ASSUME TypeOK, NEW p \in Providers
    PROVE  /\ state[p] \in State /\ state[p].backoff \in 0..MaxCooldown
           /\ state[p].cool \in 0..MaxCooldown /\ state[p].probing \in BOOLEAN
BY DEF TypeOK, State

LEMMA NoStateIsState == NoState \in State /\ NoState.backoff = 0 /\ NoState.cool = 0
                        /\ NoState.probing = FALSE
BY Times DEF NoState, State

LEMMA LongerFacts ==
    ASSUME NEW b \in 0..MaxCooldown, b > 0 => b >= Cooldown
    PROVE  Longer(b) \in 0..MaxCooldown /\ Longer(b) >= Cooldown
BY Times DEF Longer, Least

\* What the end of a request can do to its provider.
Ignored(c) == state' = state
Recovered(c, p) == call[c].probe /\ state' = [state EXCEPT ![p] = NoState]
Opened(c, p) ==
    \E to, cool \in 0..MaxCooldown :
        /\ to >= Cooldown /\ cool >= Cooldown
        /\ state' = [state EXCEPT ![p] = [backoff |-> to, cool |-> cool, probing |-> FALSE]]
Released(c, p) == /\ call[c].probe
                  /\ state' = [state EXCEPT ![p] = [state[p] EXCEPT !.probing = FALSE]]

LEMMA EndsHow ==
    ASSUME Inv, NEW c \in Callers, Ends(c), NEW p, p = call[c].provider
    PROVE  /\ call[c] # NoCall /\ p \in Providers /\ call' = [call EXCEPT ![c] = NoCall]
           /\ \/ ~ call[c].probe /\ state' = state
              \/ Recovered(c, p) \/ Opened(c, p) \/ Released(c, p)
<1>1. call[c].pc = "sent" /\ call' = [call EXCEPT ![c] = NoCall]
  BY DEF Ends, Fails, Answered, RateLimited
<1>2. call[c] # NoCall
  BY <1>1 DEF NoCall
<1>3. p \in Providers /\ call[c].probe \in BOOLEAN /\ CallOK(call[c], state[p])
  BY <1>2, CallFacts DEF Inv, CallsOK
<1>4. state \in [Providers -> State] /\ state[p] \in State
  BY <1>3 DEF Inv, TypeOK
<1>5. CASE Fails(c)
  <2>1. CASE call[c].probe
    <3>1. state' = [state EXCEPT ![p].probing = FALSE]
      BY <1>3, <1>5, <2>1 DEF Fails, ReleaseProbe, IsOpen, CallOK
    <3>2. QED BY <1>1, <1>2, <1>3, <1>4, <2>1, <3>1 DEF Released
  <2>2. CASE ~ call[c].probe
    BY <1>1, <1>2, <1>3, <1>5, <2>2 DEF Fails, ReleaseProbe
  <2>3. QED BY <2>1, <2>2
<1>6. CASE Answered(c)
  BY <1>1, <1>2, <1>3, <1>6 DEF Answered, RecordSuccess, Recovered
<1>7. ASSUME NEW hint \in Hints, RateLimited(c, hint) PROVE Opened(c, p)
  <2> DEFINE to == Longer(state[p].backoff)
             cool == Least(IF hint > to THEN hint ELSE to, MaxCooldown)
  <2>1. to \in 0..MaxCooldown /\ to >= Cooldown
    <3>1. state[p].backoff \in 0..MaxCooldown
      BY <1>3, StateFacts DEF Inv
    <3>2. state[p].backoff > 0 => state[p].backoff >= Cooldown
      BY <1>3 DEF Inv, StatesOK, StateOK
    <3>3. \A b \in 0..MaxCooldown : (b > 0 => b >= Cooldown) =>
             Longer(b) \in 0..MaxCooldown /\ Longer(b) >= Cooldown
      BY LongerFacts
    <3>4. QED BY <3>1, <3>2, <3>3
  <2>2. state' = [state EXCEPT ![p] = [backoff |-> to, cool |-> cool, probing |-> FALSE]]
    BY <1>7 DEF RateLimited, RecordRateLimit
  <2> HIDE DEF to
  <2>3. cool \in 0..MaxCooldown /\ cool >= Cooldown
    BY <2>1, Times DEF Least
  <2> HIDE DEF cool
  <2>4. QED BY <2>1, <2>2, <2>3 DEF Opened
<1>8. QED BY <1>1, <1>2, <1>3, <1>5, <1>6, <1>7 DEF Ends

\* Once the cooldown of p is over, the probe is the only request under way to p.
LEMMA ProbeAlone ==
    ASSUME Inv, NEW p \in Providers, state[p].cool = 0, state[p].backoff > 0,
           NEW d \in Callers, CallOn(d, p)
    PROVE  /\ call[d].probe /\ state[p].probing
           /\ \A c \in Callers : CallOn(c, p) => c = d
<1>1. ASSUME NEW c \in Callers, CallOn(c, p) PROVE call[c].probe /\ state[p].probing
  <2>1. CallOK(call[c], state[p]) /\ call[c].age \in 0..Timeout
    BY <1>1, CallFacts DEF Inv, CallsOK, CallOn
  <2>2. QED BY <2>1, Times DEF CallOK
<1>2. QED BY <1>1 DEF Inv, OneProbe

LEMMA InitInv == Init => Inv
<1> SUFFICES ASSUME Init PROVE Inv
  OBVIOUS
<1>1. TypeOK
  BY NoStateIsState DEF Init, TypeOK
<1>2. StatesOK
  <2>1. ASSUME NEW p \in Providers PROVE StateOK(state[p])
    <3>1. state[p].cool = 0 /\ state[p].backoff = 0 /\ ~ state[p].probing
      BY NoStateIsState DEF Init
    <3>2. QED BY <3>1 DEF StateOK
  <2>2. QED BY <2>1 DEF StatesOK
<1>3. CallsOK /\ OneProbe
  BY DEF Init, CallsOK, OneProbe, CallOn
<1>4. QED BY <1>1, <1>2, <1>3 DEF Inv

LEMMA BeginKeeps ==
    ASSUME Inv, NEW c \in Callers, NEW p \in Providers, Begin(c, p)
    PROVE  Inv'
<1> DEFINE new == [pc |-> "build", provider |-> p, probe |-> IsOpen(p), age |-> 0]
<1>1. /\ state \in [Providers -> State] /\ call \in [Callers -> Call \cup {NoCall}]
      /\ state[p] \in State /\ state[p].cool = 0 /\ ~ state[p].probing
      /\ call[c] = NoCall /\ call' = [call EXCEPT ![c] = new]
  BY StateFacts DEF Inv, TypeOK, Begin, Allow
<1>2. new \in Call /\ new # NoCall /\ new.provider = p /\ new.probe = IsOpen(p)
  BY Times DEF Call, NoCall, IsOpen
<1> HIDE DEF new
<1>3. /\ call'[c] = new
      /\ \A d \in Callers \ {c} : call'[d] = call[d]
  BY <1>1
<1>4. /\ state'[p] \in State /\ state'[p].cool = 0 /\ state'[p].backoff = state[p].backoff
      /\ state'[p].probing <=> IsOpen(p)
      /\ state' = [state EXCEPT ![p] = state'[p]]
  BY <1>1 DEF Begin, Allow, State
<1>5. \A q \in Providers \ {p} : state'[q] = state[q]
  BY <1>1, <1>4
<1>6. TypeOK'
  BY <1>1, <1>2, <1>4 DEF TypeOK
<1>7. StatesOK'
  <2>1. StateOK(state'[p])
    BY <1>1, <1>4, StateFacts DEF Inv, StatesOK, StateOK, IsOpen
  <2>2. QED BY <1>5, <2>1 DEF Inv, StatesOK
\* While the circuit is open and cool, only a probe could be under way, and none is.
<1>8. ASSUME NEW d \in Callers \ {c}, CallOn(d, p) PROVE state[p].backoff = 0
  BY <1>1, <1>8, ProbeAlone, StateFacts, Times DEF Inv
<1>9. CallsOK'
  <2>1. SUFFICES ASSUME NEW d \in Callers, call'[d] # NoCall
                 PROVE  CallOK(call'[d], state'[call'[d].provider])
    BY DEF CallsOK
  <2>2. CASE d = c
    <3>1. call'[d] = new /\ new.provider = p /\ (new.probe <=> IsOpen(p))
      BY <1>2, <1>3, <2>2
    <3>2. CASE IsOpen(p)
      BY <1>1, <1>4, <3>1, <3>2 DEF CallOK, IsOpen
    <3>3. CASE ~ IsOpen(p)
      <4>1. state[p].backoff = 0
        BY <3>3, StateFacts, Times DEF IsOpen, Inv
      <4>2. QED BY <1>4, <3>1, <3>3, <4>1 DEF CallOK
    <3>4. QED BY <3>2, <3>3
  <2>3. CASE d # c /\ call[d].provider = p
    <3>1. call'[d] = call[d] /\ CallOn(d, p)
      BY <1>3, <2>1, <2>3 DEF CallOn
    <3>2. state[p].backoff = 0 /\ CallOK(call[d], state[p])
      BY <1>8, <2>3, <3>1 DEF Inv, CallsOK, CallOn
    <3>3. QED BY <1>4, <2>3, <3>1, <3>2 DEF CallOK
  <2>4. CASE d # c /\ call[d].provider # p
    <3>1. call'[d] = call[d] /\ call[d] # NoCall /\ call[d].provider \in Providers
      BY <1>3, <2>1, <2>4, CallFacts DEF Inv
    <3>2. QED BY <1>5, <2>4, <3>1 DEF Inv, CallsOK
  <2>5. QED BY <2>2, <2>3, <2>4
<1>10. OneProbe'
  <2>1. SUFFICES ASSUME NEW a \in Callers, NEW b \in Callers, NEW q \in Providers,
                        CallOn(a, q)', CallOn(b, q)', call'[a].probe, call'[b].probe
                 PROVE  a = b
    BY DEF OneProbe
  <2>2. CASE a # c /\ b # c
    BY <1>3, <2>1, <2>2 DEF Inv, OneProbe, CallOn
  <2>3. ASSUME NEW d \in Callers \ {c}, CallOn(c, q)', CallOn(d, q)', call'[c].probe PROVE FALSE
    <3>1. q = p /\ IsOpen(p) /\ CallOn(d, p)
      BY <1>2, <1>3, <2>3 DEF CallOn
    <3>2. QED BY <1>1, <1>8, <3>1, StateFacts DEF IsOpen, Inv
  <2>4. QED BY <2>1, <2>2, <2>3
<1>11. QED BY <1>6, <1>7, <1>9, <1>10 DEF Inv

LEMMA BuildKeeps ==
    ASSUME Inv, NEW c \in Callers, Unbuildable(c) \/ Send(c)
    PROVE  Inv'
<1>1. /\ state' = state /\ call \in [Callers -> Call \cup {NoCall}]
      /\ call[c].pc = "build" /\ call[c] # NoCall
  BY DEF Inv, TypeOK, Unbuildable, Send, NoCall
<1>2. call[c] \in Call
  BY <1>1
<1>3. PICK v \in Call \cup {NoCall} :
        /\ call' = [call EXCEPT ![c] = v]
        /\ v # NoCall => v.provider = call[c].provider /\ v.probe = call[c].probe
                         /\ v.age = call[c].age
  <2>1. CASE Unbuildable(c)
    BY <2>1 DEF Unbuildable
  <2>2. CASE Send(c)
    <3>1. call' = [call EXCEPT ![c] = [call[c] EXCEPT !.pc = "sent"]]
      BY <1>1, <2>2 DEF Send
    <3>2. /\ [call[c] EXCEPT !.pc = "sent"] \in Call
          /\ [call[c] EXCEPT !.pc = "sent"].provider = call[c].provider
          /\ [call[c] EXCEPT !.pc = "sent"].probe = call[c].probe
          /\ [call[c] EXCEPT !.pc = "sent"].age = call[c].age
      BY <1>2 DEF Call
    <3>3. QED BY <3>1, <3>2
  <2>3. QED BY <2>1, <2>2
<1>4. TypeOK'
  BY <1>1, <1>3 DEF Inv, TypeOK
<1>5. ASSUME NEW d \in Callers, call'[d] # NoCall
      PROVE  /\ call[d] # NoCall /\ call'[d].provider = call[d].provider
             /\ call'[d].probe = call[d].probe /\ call'[d].age = call[d].age
  BY <1>1, <1>3, <1>5
<1>6. StatesOK' /\ CallsOK'
  BY <1>1, <1>5 DEF Inv, StatesOK, CallsOK, CallOK
<1>7. OneProbe'
  BY <1>5 DEF Inv, OneProbe, CallOn
<1>8. QED BY <1>4, <1>6, <1>7 DEF Inv

LEMMA EndsKeeps ==
    ASSUME Inv, NEW c \in Callers, Ends(c)
    PROVE  Inv'
<1> DEFINE p == call[c].provider
<1>1. /\ call[c] # NoCall /\ p \in Providers /\ call' = [call EXCEPT ![c] = NoCall]
      /\ \/ ~ call[c].probe /\ state' = state
         \/ Recovered(c, p) \/ Opened(c, p) \/ Released(c, p)
  BY EndsHow
<1>2. CallOn(c, p)
  BY <1>1 DEF CallOn
<1> HIDE DEF p
<1>3. state \in [Providers -> State] /\ call \in [Callers -> Call \cup {NoCall}]
      /\ state[p] \in State
  BY <1>1 DEF Inv, TypeOK
<1>4. /\ call'[c] = NoCall
      /\ \A d \in Callers \ {c} : call'[d] = call[d]
  BY <1>1, <1>3
<1>5. /\ state'[p] \in State /\ state' = [state EXCEPT ![p] = state'[p]] /\ StateOK(state'[p])
      /\ \/ state'[p] = state[p]
         \/ state'[p].backoff = 0 /\ call[c].probe
         \/ state'[p].backoff > 0 /\ Timeout < state'[p].cool
         \/ call[c].probe
  <2>1. StateOK(state[p])
    BY <1>1 DEF Inv, StatesOK
  <2>2. CASE state' = state
    BY <1>3, <2>1, <2>2
  <2>3. CASE Recovered(c, p)
    BY <1>1, <1>3, <2>3, NoStateIsState DEF Recovered, StateOK
  <2>4. CASE Opened(c, p)
    <3>1. PICK to \in 0..MaxCooldown, cool \in 0..MaxCooldown :
            /\ to >= Cooldown /\ cool >= Cooldown
            /\ state' = [state EXCEPT ![p] = [backoff |-> to, cool |-> cool, probing |-> FALSE]]
      BY <2>4 DEF Opened
    <3>2. state'[p] = [backoff |-> to, cool |-> cool, probing |-> FALSE]
      BY <1>1, <1>3, <3>1
    <3>3. state'[p].backoff = to /\ state'[p].cool = cool /\ ~ state'[p].probing
      BY <3>2
    <3>4. state'[p] \in State
      BY <3>2 DEF State
    <3>5. state' = [state EXCEPT ![p] = state'[p]]
      BY <3>1, <3>2
    <3>6. to > 0 /\ cool > 0 /\ Timeout < cool
      BY <3>1, Times
    <3>7. StateOK(state'[p])
      BY <3>1, <3>3, <3>6 DEF StateOK
    <3>8. QED BY <3>3, <3>4, <3>5, <3>6, <3>7
  <2>5. CASE Released(c, p)
    <3>1. state'[p] = [state[p] EXCEPT !.probing = FALSE]
      BY <1>1, <1>3, <2>5 DEF Released
    <3>2. QED BY <1>3, <2>1, <2>5, <3>1 DEF Released, State, StateOK
  <2>6. QED BY <1>1, <2>2, <2>3, <2>4, <2>5
<1>6. \A q \in Providers \ {p} : state'[q] = state[q]
  BY <1>3, <1>5
<1>7. TypeOK'
  BY <1>1, <1>3, <1>5 DEF TypeOK
<1>8. StatesOK'
  BY <1>5, <1>6 DEF Inv, StatesOK
<1>9. CallsOK'
  <2>1. SUFFICES ASSUME NEW d \in Callers \ {c}, call[d] # NoCall
                 PROVE  CallOK(call[d], state'[call[d].provider])
    BY <1>4 DEF CallsOK
  <2>2. CallOK(call[d], state[call[d].provider]) /\ call[d].provider \in Providers
        /\ call[d].age \in 0..Timeout
    BY <2>1, CallFacts DEF Inv, CallsOK
  <2>3. CASE call[d].provider # p
    BY <1>6, <2>2, <2>3
\* The probe of an open circuit ends alone, and one that is not a probe ends in the
\* cooldown, when no probe is granted.
  <2>4. CASE call[d].provider = p
    <3>1. CallOn(d, p) /\ CallOK(call[d], state[p]) /\ CallOK(call[c], state[p])
          /\ call[c].age \in 0..Timeout
      BY <1>1, <1>2, <2>1, <2>2, <2>4, CallFacts DEF CallOn, Inv, CallsOK
    <3>2. /\ state[p].cool \in 0..MaxCooldown /\ state'[p].cool \in 0..MaxCooldown
          /\ state'[p].backoff \in 0..MaxCooldown
      BY <1>3, <1>5 DEF State
    <3>3. ~ (call[c].probe /\ call[d].probe)
      BY <1>1, <1>2, <3>1 DEF Inv, OneProbe
    <3>4. ~ call[c].probe
      BY <1>1, <1>2, <2>1, <3>1, <3>3, ProbeAlone DEF CallOK
    <3>5. ~ call[d].probe
      BY <3>1, <3>2, <3>4, Times DEF CallOK
    <3>6. QED BY <1>5, <2>2, <2>4, <3>1, <3>2, <3>4, <3>5, Times DEF CallOK
  <2>5. QED BY <2>3, <2>4
<1>10. OneProbe'
  BY <1>4 DEF Inv, OneProbe, CallOn
<1>11. QED BY <1>7, <1>8, <1>9, <1>10 DEF Inv

LEMMA TickKeeps ==
    ASSUME Inv, Tick
    PROVE  Inv'
<1>1. /\ state \in [Providers -> State] /\ call \in [Callers -> Call \cup {NoCall}]
      /\ state' = [p \in Providers |->
                     [state[p] EXCEPT !.cool = IF @ > 0 THEN @ - 1 ELSE 0]]
  BY DEF Inv, TypeOK, Tick
<1>2. ASSUME NEW p \in Providers
      PROVE  /\ state'[p] \in State /\ state'[p].backoff = state[p].backoff
             /\ state'[p].probing = state[p].probing
             /\ state'[p].cool = IF state[p].cool > 0 THEN state[p].cool - 1 ELSE 0
  <2>1. state[p] \in State /\ state[p].cool \in 0..MaxCooldown
    BY StateFacts DEF Inv
  <2>2. (IF state[p].cool > 0 THEN state[p].cool - 1 ELSE 0) \in 0..MaxCooldown
    BY <2>1, Times
  <2>3. QED BY <1>1, <2>1, <2>2 DEF State
<1>3. ASSUME NEW c \in Callers, call[c] # NoCall
      PROVE  /\ call[c].pc = "sent" /\ call[c].age \in 0..Timeout /\ call[c].age < Timeout
             /\ call'[c] \in Call /\ call'[c] # NoCall /\ call'[c].age = call[c].age + 1
             /\ call'[c].provider = call[c].provider /\ call'[c].probe = call[c].probe
             /\ call[c].provider \in Providers /\ CallOK(call[c], state[call[c].provider])
  <2>1. call[c] \in Call
    BY <1>3, CallFacts DEF Inv
  <2>2. call[c].pc = "sent" /\ call[c].age < Timeout
    BY <2>1 DEF Tick, Call
  <2>3. call'[c] = [call[c] EXCEPT !.age = call[c].age + 1]
    BY <2>2 DEF Tick
  <2>4. call[c].age + 1 \in 0..Timeout
    BY <2>1, <2>2, Times DEF Call
  <2>5. call'[c] \in Call /\ call'[c].pc = "sent" /\ call'[c].age = call[c].age + 1
        /\ call'[c].provider = call[c].provider /\ call'[c].probe = call[c].probe
    BY <2>1, <2>2, <2>3, <2>4 DEF Call
  <2>6. QED BY <1>3, <2>1, <2>2, <2>5, CallFacts DEF Inv, CallsOK, NoCall
<1>4. ASSUME NEW c \in Callers, call[c] = NoCall PROVE call'[c] = NoCall
  BY <1>4 DEF Tick, NoCall
<1>5. TypeOK'
  <2>1. call' \in [Callers -> Call \cup {NoCall}]
    BY <1>1, <1>3, <1>4 DEF Tick
  <2>2. state' \in [Providers -> State]
    BY <1>1, <1>2
  <2>3. QED BY <2>1, <2>2 DEF TypeOK
<1>6. StatesOK'
  <2>1. ASSUME NEW p \in Providers PROVE StateOK(state'[p])
    <3>1. StateOK(state[p]) /\ state[p].cool \in 0..MaxCooldown
      BY StateFacts DEF Inv, StatesOK
    <3>2. QED BY <1>2, <3>1, Times DEF StateOK
  <2>2. QED BY <2>1 DEF StatesOK
<1>7. CallsOK'
  <2>1. SUFFICES ASSUME NEW c \in Callers, call'[c] # NoCall
                 PROVE  CallOK(call'[c], state'[call'[c].provider])
    BY DEF CallsOK
  <2>2. call[c] # NoCall
    BY <1>4, <2>1
  <2> DEFINE p == call[c].provider
  <2>3. p \in Providers /\ CallOK(call[c], state[p]) /\ state[p].cool \in 0..MaxCooldown
    BY <1>3, <2>2, StateFacts DEF Inv
  <2>4. call'[c].provider = p
    BY <1>3, <2>2
  <2>5. CallOK(call'[c], state'[p])
    BY <1>2, <1>3, <2>2, <2>3, Times DEF CallOK
  <2>6. QED BY <2>4, <2>5
<1>8. OneProbe'
  BY <1>3, <1>4 DEF Inv, OneProbe, CallOn
<1>9. QED BY <1>5, <1>6, <1>7, <1>8 DEF Inv

LEMMA InvStep == Inv /\ [Next]_vars => Inv'
<1> SUFFICES ASSUME Inv, [Next]_vars PROVE Inv'
  OBVIOUS
<1>1. CASE Next
  BY <1>1, BeginKeeps, BuildKeeps, EndsKeeps, TickKeeps DEF Next
<1>2. CASE UNCHANGED vars
  BY <1>2 DEF vars, Inv, TypeOK, StatesOK, CallsOK, OneProbe, CallOn
<1>3. QED BY <1>1, <1>2

LEMMA InvAlways == Spec => []Inv
BY InitInv, InvStep, PTL DEF Spec

\* Backoffs, cooldowns and ages stay within their ceilings.
THEOREM TypeCorrect == Spec => []TypeOK
BY InvAlways, PTL DEF Inv

\* For any number of indexers and requests, and any timeout shorter than the default
\* cooldown: after a cooldown the granted probe is the only request under way.
THEOREM ProbeIsSoleTheorem == Spec => []ProbeIsSole
<1>1. Inv => ProbeIsSole
  <2> SUFFICES ASSUME Inv, NEW p \in Providers, IsOpen(p)
               PROVE  /\ state[p].probing => state[p].cool = 0
                      /\ state[p].cool = 0 =>
                            \A c \in Callers : CallOn(c, p) =>
                                /\ call[c].probe /\ state[p].probing
                                /\ \A d \in Callers : CallOn(d, p) => d = c
    BY DEF ProbeIsSole
  <2>1. StateOK(state[p]) /\ state[p].cool \in 0..MaxCooldown
    BY StateFacts DEF Inv, StatesOK
  <2>2. state[p].probing => state[p].cool = 0
    BY <2>1, Times DEF StateOK
  <2>3. QED BY <2>2, ProbeAlone DEF IsOpen
<1>2. QED BY <1>1, InvAlways, PTL

-----------------------------------------------------------------------------
(* The half-open gate. *)

View(k) == IF ~ (k.backoff > 0) THEN "closed"
           ELSE IF k.cool > 0 THEN "open"
           ELSE IF k.probing THEN "trial" ELSE "ready"

LEMMA Views == /\ GateView = [p \in Providers |-> View(state[p])]
               /\ GateView' = [p \in Providers |-> View(state'[p])]
BY DEF GateView, View, IsOpen

\* A step that changes one provider changes one gate.
LEMMA OneGate ==
    ASSUME NEW p \in Providers, \A q \in Providers \ {p} : state'[q] = state[q]
    PROVE  GateView' = [GateView EXCEPT ![p] = View(state'[p])]
BY Views

LEMMA GateBegins ==
    ASSUME Inv, NEW c \in Callers, NEW p \in Providers, Begin(c, p)
    PROVE  Gate!GateNext \/ UNCHANGED GateView
<1>1. CASE ~ IsOpen(p)
  BY <1>1, Views DEF Begin, Allow
<1>2. CASE IsOpen(p)
  <2>1. /\ state \in [Providers -> State] /\ state[p] \in State
        /\ state[p].cool = 0 /\ ~ state[p].probing /\ state[p].backoff > 0
        /\ state' = [state EXCEPT ![p].probing = TRUE]
    BY <1>2 DEF Begin, Allow, IsOpen, Inv, TypeOK
  <2>2. /\ state'[p].backoff > 0 /\ state'[p].cool = 0 /\ state'[p].probing
        /\ \A q \in Providers \ {p} : state'[q] = state[q]
    BY <2>1 DEF State
  <2>3. View(state[p]) = "ready" /\ View(state'[p]) = "trial"
    BY <2>1, <2>2 DEF View
  <2>4. Gate!Admit(p)
    BY <2>2, <2>3, Views, OneGate DEF Gate!Admit
  <2>5. QED BY <2>4 DEF Gate!GateNext
<1>3. QED BY <1>1, <1>2

\* A request that ends opens a circuit that was closed, gives the verdict of its probe,
\* or extends a cooldown, which leaves the gate where it is.
LEMMA GateEnds ==
    ASSUME Inv, NEW c \in Callers, Ends(c)
    PROVE  Gate!GateNext \/ UNCHANGED GateView
<1> DEFINE p == call[c].provider
<1>1. /\ call[c] # NoCall /\ p \in Providers
      /\ state' = state \/ Recovered(c, p) \/ Opened(c, p) \/ Released(c, p)
  BY EndsHow
<1>2. /\ state \in [Providers -> State] /\ state[p] \in State /\ StateOK(state[p])
      /\ CallOK(call[c], state[p]) /\ call[c].age \in 0..Timeout /\ call[c].probe \in BOOLEAN
      /\ state[p].cool \in 0..MaxCooldown
  BY <1>1, CallFacts, StateFacts DEF Inv, TypeOK, StatesOK, CallsOK
<1> HIDE DEF p
<1>3. \/ View(state[p]) = "closed" /\ ~ call[c].probe
      \/ View(state[p]) = "open" /\ ~ call[c].probe
      \/ View(state[p]) = "trial" /\ call[c].probe
  BY <1>2, Times DEF CallOK, View
<1>4. \A q \in Providers \ {p} : state'[q] = state[q]
  BY <1>1, <1>2 DEF Recovered, Opened, Released
<1>5. GateView' = [GateView EXCEPT ![p] = View(state'[p])]
  BY <1>1, <1>4, OneGate
<1>6. ASSUME call[c].probe, View(state'[p]) \in {"closed", "open", "ready"}
      PROVE  Gate!GateNext
  <2>1. Gate!Verdict(p)
    BY <1>1, <1>3, <1>5, <1>6, Views DEF Gate!Verdict
  <2>2. QED BY <1>1, <2>1 DEF Gate!GateNext
<1>7. CASE state' = state
  BY <1>7, Views
<1>8. CASE Recovered(c, p)
  <2>1. View(state'[p]) = "closed"
    BY <1>1, <1>2, <1>8, NoStateIsState DEF Recovered, View
  <2>2. QED BY <1>6, <1>8, <2>1 DEF Recovered
<1>9. CASE Opened(c, p)
  <2>1. state'[p].backoff > 0 /\ state'[p].cool > 0
    BY <1>1, <1>2, <1>9, Times DEF Opened
  <2>2. View(state'[p]) = "open"
    BY <2>1 DEF View
  <2>3. CASE View(state[p]) = "closed"
    <3>1. Gate!Trip(p)
      BY <1>1, <1>5, <2>2, <2>3, Views DEF Gate!Trip
    <3>2. QED BY <1>1, <3>1 DEF Gate!GateNext
  <2>4. CASE View(state[p]) = "open"
    BY <1>1, <1>5, <2>2, <2>4, Views
  <2>5. CASE call[c].probe
    BY <1>6, <2>2, <2>5
  <2>6. QED BY <1>3, <2>3, <2>4, <2>5
<1>10. CASE Released(c, p)
  <2>1. /\ call[c].probe /\ state'[p].backoff = state[p].backoff
        /\ state'[p].cool = state[p].cool /\ ~ state'[p].probing
    BY <1>1, <1>2, <1>10 DEF Released, State
  <2>2. View(state'[p]) = "ready"
    BY <1>2, <2>1 DEF CallOK, View
  <2>3. QED BY <1>6, <2>1, <2>2
<1>11. QED BY <1>1, <1>7, <1>8, <1>9, <1>10

LEMMA GateTicks ==
    ASSUME Inv, Tick
    PROVE  Gate!GateNext \/ UNCHANGED GateView
<1> DEFINE S == {p \in Providers : state[p].cool = 1}
<1>1. ASSUME NEW p \in Providers
      PROVE  /\ View(state'[p]) = IF p \in S THEN "ready" ELSE View(state[p])
             /\ p \in S => View(state[p]) = "open"
  <2>1. state[p] \in State /\ StateOK(state[p]) /\ state[p].cool \in Nat
    BY StateFacts, Times DEF Inv, StatesOK
  <2>2. state'[p].backoff = state[p].backoff /\ state'[p].probing = state[p].probing
        /\ state'[p].cool = IF state[p].cool > 0 THEN state[p].cool - 1 ELSE 0
    BY <2>1 DEF Tick, State
  <2>3. QED BY <2>1, <2>2 DEF View, StateOK
<1> HIDE DEF S
<1>2. S \in SUBSET Providers
  BY DEF S
<1>3. Gate!CooledDown(S)
  BY <1>1, <1>2, Views DEF Gate!CooledDown
<1>4. QED BY <1>2, <1>3 DEF Gate!GateNext

\* The breaker of the indexers implements the half-open gate: a provider in its cooldown
\* is left alone, and only the verdict of its one probe closes its circuit, however the
\* answers to the requests that were under way come in.
THEOREM GateTheorem == Spec => ImplementsGate
<1>1. Init => Gate!GateInit
  <2>1. ASSUME Init PROVE \A p \in Providers : state[p].backoff = 0
    BY <2>1, NoStateIsState DEF Init
  <2>2. QED BY <2>1 DEF Gate!GateInit, GateView, IsOpen
<1>2. ASSUME Inv, [Next]_vars PROVE [Gate!GateNext]_GateView
  <2>1. CASE UNCHANGED state
    BY <2>1, Views
  <2>2. QED
    BY <1>2, <2>1, GateBegins, GateEnds, GateTicks DEF Next, Unbuildable, Send, vars
<1>3. QED BY <1>1, <1>2, InvAlways, PTL DEF Spec, ImplementsGate, Gate!GateSpec
=============================================================================
