SPECIFICATION Spec
CONSTANTS
    Keys = {film}
    Requests = {r1, r2}
    Pollers = {}
    Nobody = Nobody
    MaxJobs = 2
PROPERTY ActiveJobIsReused
