SPECIFICATION Spec
CONSTANTS
    Keys = {"film"}
    Users = {"ada"}
    Owner <- MCOwner
    Streams = {"found", "other"}
    NoStream = NoStream
    MaxEntries = 2
    MaxFaults = 0
    Begins = "done"
    Found = "found"
    Requests = {}
    Players = {"tv", "tablet"}
    Warmers = {w1}
    Brings <- MCBrings
    MaxRestarts = 0
CHECK_DEADLOCK FALSE
INVARIANT NoStrayWorker
INVARIANT TracksMatchStream
PROPERTY AdoptedStays
PROPERTY EntrySettles
