SPECIFICATION Spec
CONSTANTS
    Keys = {film}
    Requests = {r1, r2}
    Pollers = {p1}
    Nobody = Nobody
    MaxJobs = 2
INVARIANT OneSubmitter
INVARIANT AcceptedIsAnswered
PROPERTY LastJobIsReused
PROPERTY ClaimIsReleased
