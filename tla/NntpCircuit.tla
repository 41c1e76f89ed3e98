----------------------------- MODULE NntpCircuit -----------------------------
(***************************************************************************)
(* The usenet health check of backend/services/usenet: several checks walk *)
(* the configured NNTP providers at the same time, carrying the segments    *)
(* still missing from one provider to the next, and share one circuit per   *)
(* provider (circuit_breaker.go). The lock of the breaker makes each of its *)
(* methods one step; a pass over a provider happens between two of them.    *)
(*                                                                         *)
(* Time is counted in ticks. A circuit holds the ticks left of its cooldown *)
(* (openUntil - now) and the length of the last one, which stands for the   *)
(* failure count the code computes that length from: 0 is no failure.       *)
(***************************************************************************)
EXTENDS Naturals, Sequences

CONSTANTS
    Providers,    \* enabled NNTP providers
    Order,        \* the order of the configuration: a sequence of providers
    Checks,       \* bound: health checks in progress at one time
    Segments,     \* the sampled segments
    Samples,      \* what checks are asked about: sets of segments
    Stored,       \* the segments each provider really has
    Timeout,      \* the longest pass: 12 s (defaultNNTPProviderTimeout), then 15 s
                  \* at most for the QUIT that closes its connections
    BaseBackoff,  \* defaultNNTPProviderCooldown: 30 s
    MaxBackoff,   \* defaultNNTPProviderMaxCooldown: 5 min
    MaxEpoch      \* bound: failures counted in one outage

ASSUME NntpAssumption ==
    /\ Order \in Seq(Providers)
    /\ Samples \subseteq (SUBSET Segments) \ {{}}
    /\ Stored \in [Providers -> SUBSET Segments]
    /\ Timeout \in Nat
    /\ BaseBackoff \in Nat
    /\ MaxBackoff \in Nat
    /\ MaxEpoch \in Nat
    /\ Timeout < BaseBackoff
    /\ BaseBackoff <= MaxBackoff

VARIABLES
    circuit,  \* states: the circuit of each provider
    check     \* the goroutines in checkSegmentsWithDialer

vars == <<circuit, check>>

-----------------------------------------------------------------------------
(* State *)

Circuit == [backoff : 0..MaxBackoff, cool : 0..MaxBackoff, probing : BOOLEAN,
            epoch : 0..MaxEpoch]

\* No entry in the map.
NoFailures == [backoff |-> 0, cool |-> 0, probing |-> FALSE, epoch |-> 0]

Verdicts == {"none", "present", "missing", "unknown"}

\* gone: the caller's context is done. failed, skipped, answered: what the code
\* keeps as lastErr, skippedAny and checkedAny.
Check == [pc : {"idle", "next", "pass"}, at : 1..(Len(Order) + 1),
          asked : SUBSET Segments, remaining : SUBSET Segments,
          answered : BOOLEAN, skipped : BOOLEAN, failed : BOOLEAN, gone : BOOLEAN,
          probe : BOOLEAN, epoch : 0..MaxEpoch, age : 0..Timeout, verdict : Verdicts]

IdleCheck == [pc |-> "idle", at |-> 1, asked |-> {}, remaining |-> {},
              answered |-> FALSE, skipped |-> FALSE, failed |-> FALSE, gone |-> FALSE,
              probe |-> FALSE, epoch |-> 0, age |-> 0, verdict |-> "none"]

TypeOK == circuit \in [Providers -> Circuit] /\ check \in [Checks -> Check]

Init ==
    /\ circuit = [p \in Providers |-> NoFailures]
    /\ check = [c \in Checks |-> IdleCheck]

-----------------------------------------------------------------------------
(* circuit_breaker.go *)

IsOpen(p) == circuit[p].backoff > 0

\* allow: admitted while closed, or as the one probe of a cooled-down circuit.
Allows(p) == \/ ~ IsOpen(p)
             \/ circuit[p].cool = 0 /\ ~ circuit[p].probing

\* Slip: the probing flag is not set.
GrantEveryProbe(p) == UNCHANGED circuit

GrantProbe(p) ==
    circuit' = IF IsOpen(p) THEN [circuit EXCEPT ![p].probing = TRUE] ELSE circuit

\* Slip: the cooldown has no ceiling.
LongerForEver(backoff) == IF backoff = 0 THEN BaseBackoff ELSE 2 * backoff

Longer(backoff) ==
    CASE backoff = 0 -> BaseBackoff
      [] backoff > 0 /\ 2 * backoff < MaxBackoff -> 2 * backoff
      [] OTHER -> MaxBackoff

\* Slip: a failure during the cooldown counts too.
RecordEveryFailure(p) ==
    LET to == Longer(circuit[p].backoff) IN
    /\ circuit[p].epoch < MaxEpoch
    /\ circuit' = [circuit EXCEPT ![p] =
          [backoff |-> to, cool |-> to, probing |-> FALSE, epoch |-> @.epoch + 1]]

\* recordFailure: nothing while the cooldown runs.
RecordFailure(p) ==
    LET to == Longer(circuit[p].backoff) IN
    IF circuit[p].cool > 0 THEN UNCHANGED circuit
    ELSE /\ circuit[p].epoch < MaxEpoch
         /\ circuit' = [circuit EXCEPT ![p] =
               [backoff |-> to, cool |-> to, probing |-> FALSE, epoch |-> @.epoch + 1]]

\* Slip: any success closes the circuit.
RecordAnySuccess(p, epoch) == circuit' = [circuit EXCEPT ![p] = NoFailures]

\* recordSuccess: a success of an older epoch is stale.
RecordSuccess(p, epoch) ==
    IF IsOpen(p) /\ circuit[p].epoch # epoch THEN UNCHANGED circuit
    ELSE circuit' = [circuit EXCEPT ![p] = NoFailures]

\* Slip: a cancelled probe is not given back.
KeepProbe(p, probe) == UNCHANGED circuit

ReleaseProbe(p, probe) ==
    IF probe /\ IsOpen(p) THEN circuit' = [circuit EXCEPT ![p].probing = FALSE]
                          ELSE UNCHANGED circuit

-----------------------------------------------------------------------------
(* checkSegmentsWithDialer *)

ProviderOf(c) == Order[check[c].at]

Begin(c, S) ==
    /\ check[c].pc = "idle"
    /\ check' = [check EXCEPT ![c] =
          [IdleCheck EXCEPT !.pc = "next", !.asked = S, !.remaining = S]]
    /\ UNCHANGED circuit

\* The caller's deadline passes, or it goes away.
CallerGone(c) ==
    /\ check[c].pc # "idle"
    /\ ~ check[c].gone
    /\ check' = [check EXCEPT ![c].gone = TRUE]
    /\ UNCHANGED circuit

More(c) == /\ check[c].pc = "next"
           /\ ~ check[c].gone
           /\ check[c].at <= Len(Order)

Skip(c) ==
    /\ More(c)
    /\ ~ Allows(ProviderOf(c))
    /\ check' = [check EXCEPT ![c].skipped = TRUE, ![c].at = @ + 1]
    /\ UNCHANGED circuit

StartPass(c) ==
    LET p == ProviderOf(c) IN
    /\ More(c)
    /\ Allows(p)
    /\ GrantProbe(p)
    /\ check' = [check EXCEPT ![c].pc = "pass", ![c].probe = IsOpen(p),
                              ![c].epoch = circuit[p].epoch, ![c].age = 0]

\* The variables of one turn of the loop go out of scope.
TurnOver(s) == [s EXCEPT !.at = @ + 1, !.probe = FALSE, !.epoch = 0, !.age = 0]

\* The check returns; what it was asked and what it reports stay for the reader.
Report(s, verdict, missing) ==
    [IdleCheck EXCEPT !.asked = s.asked, !.remaining = missing, !.verdict = verdict]

\* The pass has an error: no verdict on the provider when the caller is gone.
PassFails(c) ==
    /\ check[c].pc = "pass"
    /\ IF check[c].gone THEN ReleaseProbe(ProviderOf(c), check[c].probe)
                        ELSE RecordFailure(ProviderOf(c))
    /\ check' = [check EXCEPT ![c] = [TurnOver(@) EXCEPT !.pc = "next", !.failed = TRUE]]

\* The pass is complete: what this provider has is no longer missing.
PassAnswers(c) ==
    LET p == ProviderOf(c)
        missing == check[c].remaining \ Stored[p] IN
    /\ check[c].pc = "pass"
    /\ RecordSuccess(p, check[c].epoch)
    /\ check' = [check EXCEPT ![c] =
          IF missing = {} THEN Report(@, "present", {})
          ELSE [TurnOver(@) EXCEPT !.pc = "next", !.answered = TRUE, !.remaining = missing]]

\* Slip: providers inside a cooldown do not count as unavailable.
ConcludeDespiteSkips(c) ==
    LET s == check[c] IN
    /\ s.pc = "next"
    /\ s.gone \/ s.at > Len(Order)
    /\ check' = [check EXCEPT ![c] =
          IF s.gone \/ ~ s.answered \/ s.failed
          THEN Report(s, "unknown", {}) ELSE Report(s, "missing", s.remaining)]
    /\ UNCHANGED circuit

\* The end of the walk: an error unless every provider has answered.
Conclude(c) ==
    LET s == check[c] IN
    /\ s.pc = "next"
    /\ s.gone \/ s.at > Len(Order)
    /\ check' = [check EXCEPT ![c] =
          IF s.gone \/ ~ s.answered \/ s.skipped \/ s.failed
          THEN Report(s, "unknown", {}) ELSE Report(s, "missing", s.remaining)]
    /\ UNCHANGED circuit

\* A pass is over before its timeout has passed.
Tick ==
    /\ \A c \in Checks : check[c].pc = "pass" => check[c].age < Timeout
    /\ circuit' = [p \in Providers |->
                     [circuit[p] EXCEPT !.cool = IF @ > 0 THEN @ - 1 ELSE 0]]
    /\ check' = [c \in Checks |->
                   [check[c] EXCEPT !.age = IF check[c].pc = "pass" THEN @ + 1 ELSE @]]

CheckStep(c) == Skip(c) \/ StartPass(c) \/ PassFails(c) \/ PassAnswers(c) \/ Conclude(c)

Next ==
    \/ \E c \in Checks : CheckStep(c) \/ CallerGone(c)
    \/ \E c \in Checks, S \in Samples : Begin(c, S)
    \/ Tick

Spec == Init /\ [][Next]_vars

\* A check in progress goes on and time passes; nobody has to start another.
FairSpec == Spec /\ WF_vars(Tick) /\ \A c \in Checks : WF_vars(CheckStep(c))

-----------------------------------------------------------------------------
(* Properties *)

PassOn(c, p) == check[c].pc = "pass" /\ ProviderOf(c) = p
ProbeOn(c, p) == PassOn(c, p) /\ check[c].probe

\* "admits exactly one half-open recovery pass": once the cooldown is over, only
\* one pass over the provider can be under way, it is the granted probe of the
\* current epoch, and the grant is remembered for exactly as long as it runs. A
\* pass admitted before the outage cannot still be running then, because its
\* timeout is shorter than the shortest cooldown: allow, releaseProbe.
ProbeIsExclusive ==
    \A p \in Providers : IsOpen(p) =>
        /\ circuit[p].probing => circuit[p].cool = 0 /\ \E c \in Checks : PassOn(c, p)
        /\ circuit[p].cool = 0 =>
              \A c \in Checks : PassOn(c, p) =>
                  /\ circuit[p].probing /\ check[c].probe
                  /\ check[c].epoch = circuit[p].epoch
                  /\ \A d \in Checks : PassOn(d, p) => d = c

\* What the configured providers have between them.
Stock == UNION {Stored[Order[i]] : i \in 1..Len(Order)}

\* A release is reported missing, and so rejected, only when every provider has
\* been asked and has none of the remaining segments; it is reported present only
\* when its segments are there: checkSegmentsWithDialer fails open otherwise.
VerdictSound ==
    \A c \in Checks :
        LET s == check[c] IN
        /\ s.verdict = "present" => s.asked \subseteq Stock
        /\ s.verdict = "missing" => s.remaining # {} /\ s.remaining \cap Stock = {}

\* "only a failed half-open recovery probe advances the backoff": late failures of
\* passes admitted before an outage neither count nor extend the cooldown.
BackoffOnlyByProbe ==
    [][\A p \in Providers :
         (IsOpen(p) /\ (\/ circuit'[p].epoch > circuit[p].epoch
                       \/ circuit'[p].cool > circuit[p].cool))
         => \E c \in Checks : ProbeOn(c, p) /\ check'[c].pc # "pass"]_vars

\* The circuit implements the half-open gate: it is closed by the verdict of the
\* probe only, never by a stale success while the cooldown runs.
GateView ==
    [p \in Providers |->
        IF ~ IsOpen(p) THEN "closed"
        ELSE IF circuit[p].cool > 0 THEN "open"
        ELSE IF circuit[p].probing THEN "trial" ELSE "ready"]

Gate == INSTANCE HalfOpenGate WITH Keys <- Providers, gate <- GateView

ImplementsGate == Gate!GateSpec

\* A granted probe is always given back, whatever becomes of the pass and of its
\* caller, so a provider is not shut out for ever.
ProbeSettles ==
    \A p \in Providers : circuit[p].probing ~> ~ circuit[p].probing
=============================================================================
