CONSTANTS
    r1 = r1
    r2 = r2
    t1 = t1
    t2 = t2
    None = None
    Requesters = {r1}
    Threads = {t1, t2}
    MaxJobs = 2
    MaxBatches = 2
    MaxChecks = 1
    MaxStarts = 1
    MaxFailures = 1
SPECIFICATION FairSpec
PROPERTY QueuesMove
