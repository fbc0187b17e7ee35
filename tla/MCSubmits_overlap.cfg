CONSTANTS
    b1 = b1
    b2 = b2
    b3 = b3
    c1 = c1
    c2 = c2
    s1 = s1
    t1 = t1
    t2 = t2
    None = None
    Serials = {1}
    Batches = {b1, b2, b3}
    TypeOf <- Lifecycle
    Damaged = {b3}
    Clerks = {c1, c2}
    Shelves = {s1}
    Interval = 1
    Requesters = {c1}
    Threads = {t1, t2}
    MaxJobs = 1
    MaxQueued = 1
    MaxChecks = 0
    MaxStarts = 2
    MaxFailures = 0
    Priced = TRUE
    Opening = {"GENERATED"}
SPECIFICATION SubmitsSpec
INVARIANTS TypeOK TakenInIsOnShelf OneRequest NoLostWakeup
PROPERTY LedgerKept
CHECK_DEADLOCK FALSE
