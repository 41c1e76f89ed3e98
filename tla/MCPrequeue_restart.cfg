SPECIFICATION Spec
CONSTANTS
    Keys = {"film", "series"}
    Users = {"ada", "bob"}
    Owner <- MCOwner
    Streams = {"found"}
    NoStream = NoStream
    MaxEntries = 2
    MaxFaults = 1
    Begins = "done"
    Found = "found"
    Requests = {r1}
    Players = {}
    Warmers = {}
    Brings <- MCBrings
    MaxRestarts = 2
CHECK_DEADLOCK FALSE
INVARIANT TypeOK
INVARIANT IndexIsExact
INVARIANT RowsFollowEntries
PROPERTY PinStays
