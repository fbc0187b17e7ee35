CONSTANTS
    l1 = l1
    l2 = l2
    c1 = c1
    c2 = c2
    d1 = d1
    s1 = s1
    s2 = s2
    auditor = auditor
    manager = manager
    p = p
    q = q
    w1 = w1
    w2 = w2
    None = None
    Locations = {l1, l2}
    Clerks = {c1, c2}
    Drafts = {d1}
    Printed = {1}
    Handed = {1}
    Toggled = {l1}
    MaxLabels = 2
    MaxMoves = 1
    Serials = {s1, s2}
    MaxAssignments = 1
    Auditors = {auditor}
    Managers = {manager}
    MaxTime = 3
    MaxBatches = 2
    Products = {p, q}
    Warehouses = {w1, w2}
    Expiries = {120, 190}
    Deliveries <- Orders
    Handled = {1}
    Dates = {89, 90, 121}
    MaxEntries = 2
SPECIFICATION MCSpec
INVARIANTS Types LabelsAreTrue FindingsTrue PagesAgree ProjectionIsExact
PROPERTIES LabelHistory ExpiredIsComplete
SYMMETRY Interchangeable
CHECK_DEADLOCK FALSE
