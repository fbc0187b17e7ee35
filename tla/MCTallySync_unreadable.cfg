CONSTANTS
    b1 = b1
    c1 = c1
    c2 = c2
    l1 = l1
    l2 = l2
    w1 = w1
    w2 = w2
    u1 = u1
    None = None
    Batches = {b1}
    Supported = {b1}
    Companies = {c1, c2}
    Ledgers = {l1, l2}
    BadLedgers = {l2}
    Users = {u1}
    Workers = {w1}
    Faults = {"unreadable"}
    MaxFaults = 1
SPECIFICATION Spec
INVARIANT FailedWasRejected
