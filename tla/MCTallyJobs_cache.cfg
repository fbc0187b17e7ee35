CONSTANTS
    v1 = v1
    v2 = v2
    u1 = u1
    u2 = u2
    w1 = w1
    w2 = w2
    None = None
    Vouchers = {v1}
    Dates = {1, 2}
    Ranges = {{1}, {1, 2}}
    Askers = {u1, u2}
    MaxActive = 1
    MaxJobs = 2
    MaxEdits = 2
    MaxFaults = 1
    Workers = {w1, w2}
    First = w1
    MaxChecks = 3
SPECIFICATION QueueSpec
INVARIANTS Types QueueKept FreshAsAsked
PROPERTIES EveryJobEnds EveryCheckAnswered
