--------------------------- MODULE ProviderBreaker ---------------------------
(***************************************************************************)
(* The rate-limit breaker of the indexers (internal/providerbreaker), as    *)
(* the two callers that share it use it: fetchNZB of services/playback and  *)
(* searchTorznab of services/indexer. Both ask Allow, build a request, send *)
(* it, and tell the breaker what became of it; any number of them is under  *)
(* way at one time, one search per query variant and one fetch per result.  *)
(*                                                                         *)
(* Time is counted in ticks. A provider holds the ticks left of its         *)
(* cooldown (until - now) and the exponential delay its failure count       *)
(* stands for: 0 is no entry in the map. A provider with an empty name,     *)
(* which the breaker always lets through, is left out.                      *)
(***************************************************************************)
EXTENDS Naturals

CONSTANTS
    Providers,  \* names of indexers, normalised
    Callers,    \* bound: requests under way at one time
    Hints,      \* what RetryHint can return; 0 is no Retry-After header
    Timeout,    \* of one request: 30 s in fetchNZB, 20 s in searchTorznab
    Cooldown,   \* defaultCooldown: an hour
    MaxCooldown \* maximumCooldown: a day

ASSUME BreakerAssumption ==
    /\ Hints \subseteq Nat
    /\ Timeout \in Nat
    /\ Cooldown \in Nat
    /\ MaxCooldown \in Nat
    /\ Timeout < Cooldown
    /\ Cooldown <= MaxCooldown

VARIABLES
    state,  \* states of the shared breaker
    call    \* the goroutines between Allow and the last call to the breaker

vars == <<state, call>>

State == [backoff : 0..MaxCooldown, cool : 0..MaxCooldown, probing : BOOLEAN]
NoState == [backoff |-> 0, cool |-> 0, probing |-> FALSE]

Call == [pc : {"build", "sent"}, provider : Providers, probe : BOOLEAN, age : 0..Timeout]
NoCall == [pc |-> "idle"]

TypeOK ==
    /\ state \in [Providers -> State]
    /\ call \in [Callers -> Call \cup {NoCall}]

Init ==
    /\ state = [p \in Providers |-> NoState]
    /\ call = [c \in Callers |-> NoCall]

-----------------------------------------------------------------------------
(* breaker.go *)

IsOpen(p) == state[p].backoff > 0

Least(a, b) == IF a < b THEN a ELSE b

\* The delay the loop of RecordRateLimit computes for one failure more.
Longer(backoff) == IF backoff = 0 THEN Cooldown ELSE Least(2 * backoff, MaxCooldown)

\* Slip: the probe is not remembered.
AllowEvery(p) == state[p].cool = 0 /\ UNCHANGED state

\* Allow, when it admits: while there is no entry, or as the one probe after it.
Allow(p) ==
    /\ state[p].cool = 0
    /\ ~ state[p].probing
    /\ state' = IF IsOpen(p) THEN [state EXCEPT ![p].probing = TRUE] ELSE state

\* Slip: no ceiling on what the provider asks for.
RecordHint(p, hint) ==
    LET delay == Longer(state[p].backoff) IN
    state' = [state EXCEPT ![p] =
        [backoff |-> delay, cool |-> IF hint > delay THEN hint ELSE delay, probing |-> FALSE]]

\* RecordRateLimit: whoever reports it. The hint is honoured when it is longer.
RecordRateLimit(p, hint) ==
    LET delay == Longer(state[p].backoff) IN
    state' = [state EXCEPT ![p] =
        [backoff |-> delay,
         cool    |-> Least(IF hint > delay THEN hint ELSE delay, MaxCooldown),
         probing |-> FALSE]]

\* Slip: an ordinary success closes the circuit too.
RecordAnySuccess(p, probe) == state' = [state EXCEPT ![p] = NoState]

RecordSuccess(p, probe) ==
    IF probe THEN state' = [state EXCEPT ![p] = NoState] ELSE UNCHANGED state

\* Slip: the probe is not given back.
KeepProbe(p, probe) == UNCHANGED state

ReleaseProbe(p, probe) ==
    IF probe /\ IsOpen(p) THEN state' = [state EXCEPT ![p].probing = FALSE]
                          ELSE UNCHANGED state

-----------------------------------------------------------------------------
(* fetchNZB, searchTorznab *)

Begin(c, p) ==
    /\ call[c] = NoCall
    /\ Allow(p)
    /\ call' = [call EXCEPT ![c] =
          [pc |-> "build", provider |-> p, probe |-> IsOpen(p), age |-> 0]]

\* An early return before the request is sent: no URL is configured, or the URL
\* does not make a request. The breaker is not told.
Unbuildable(c) ==
    /\ call[c].pc = "build"
    /\ call' = [call EXCEPT ![c] = NoCall]
    /\ UNCHANGED state

Send(c) ==
    /\ call[c].pc = "build"
    /\ call' = [call EXCEPT ![c].pc = "sent"]
    /\ UNCHANGED state

\* No answer, by the timeout at the latest, or an error status other than 429.
Fails(c) ==
    /\ call[c].pc = "sent"
    /\ ReleaseProbe(call[c].provider, call[c].probe)
    /\ call' = [call EXCEPT ![c] = NoCall]

RateLimited(c, hint) ==
    /\ call[c].pc = "sent"
    /\ RecordRateLimit(call[c].provider, hint)
    /\ call' = [call EXCEPT ![c] = NoCall]

Answered(c) ==
    /\ call[c].pc = "sent"
    /\ RecordSuccess(call[c].provider, call[c].probe)
    /\ call' = [call EXCEPT ![c] = NoCall]

\* A request is over before its timeout has passed; building one takes no time.
Tick ==
    /\ \A c \in Callers : /\ call[c].pc # "build"
                          /\ call[c].pc = "sent" => call[c].age < Timeout
    /\ state' = [p \in Providers |->
                   [state[p] EXCEPT !.cool = IF @ > 0 THEN @ - 1 ELSE 0]]
    /\ call' = [c \in Callers |->
                  IF call[c].pc = "sent" THEN [call[c] EXCEPT !.age = @ + 1] ELSE call[c]]

Ends(c) == Fails(c) \/ Answered(c) \/ \E hint \in Hints : RateLimited(c, hint)

Next ==
    \/ \E c \in Callers : Unbuildable(c) \/ Send(c) \/ Ends(c)
    \/ \E c \in Callers, p \in Providers : Begin(c, p)
    \/ Tick

Spec == Init /\ [][Next]_vars

\* A request under way goes on and time passes; nobody has to start another.
FairSpec ==
    /\ Spec
    /\ WF_vars(Tick)
    /\ \A c \in Callers : WF_vars(Unbuildable(c) \/ Send(c)) /\ WF_vars(Ends(c))

-----------------------------------------------------------------------------
(* Properties *)

CallOn(c, p) == call[c] # NoCall /\ call[c].provider = p

\* "probe is true when this is the sole half-open request allowed after an existing
\* cooldown" (Allow): once a cooldown is over, one request at most is under way,
\* and it is the granted probe. A request admitted before the outage cannot be
\* under way still, because its timeout is shorter than the shortest cooldown; if
\* it were, its late 429 would take the grant away from the probe.
ProbeIsSole ==
    \A p \in Providers : IsOpen(p) =>
        /\ state[p].probing => state[p].cool = 0
        /\ state[p].cool = 0 =>
              \A c \in Callers : CallOn(c, p) =>
                  /\ call[c].probe /\ state[p].probing
                  /\ \A d \in Callers : CallOn(d, p) => d = c

\* The breaker implements the half-open gate: "ordinary concurrent successes do not
\* erase a 429 recorded by another request" (RecordSuccess), and nobody is let
\* through during the cooldown, whatever the order of the answers.
GateView ==
    [p \in Providers |->
        IF ~ IsOpen(p) THEN "closed"
        ELSE IF state[p].cool > 0 THEN "open"
        ELSE IF state[p].probing THEN "trial" ELSE "ready"]

Gate == INSTANCE HalfOpenGate WITH Keys <- Providers, gate <- GateView

ImplementsGate == Gate!GateSpec

\* A probe that was sent is given back, whatever becomes of the request: every
\* return after the request is sent reports to the breaker.
SentProbeSettles ==
    \A p \in Providers :
        (\E c \in Callers : CallOn(c, p) /\ call[c].pc = "sent" /\ call[c].probe)
            ~> ~ state[p].probing

\* "A single request is allowed after the cooldown as a half-open probe" (Breaker):
\* a provider whose probe has been granted is not shut out for ever.
ProbeComesBack ==
    \A p \in Providers : state[p].probing ~> ~ state[p].probing
=============================================================================
