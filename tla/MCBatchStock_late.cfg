CONSTANTS
    b2 = b2
    c1 = c1
    c2 = c2
    s1 = s1
    None = None
    Serials = {1, 2}
    Batches = {b2}
    TypeOf <- OneSale
    Damaged = {}
    Clerks = {c1, c2}
    Shelves = {s1}
    Interval = 1
    Priced = FALSE
    Opening = {"IN_STOCK"}
SPECIFICATION Spec
INVARIANT SubmittedBecomesSold
CHECK_DEADLOCK FALSE
