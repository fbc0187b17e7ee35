CONSTANTS
    b1 = b1
    b2 = b2
    b3 = b3
    b4 = b4
    c1 = c1
    c2 = c2
    s1 = s1
    d1 = d1
    d2 = d2
    p = p
    q = q
    super = super
    admin = admin
    k1 = k1
    k2 = k2
    None = None
    Serials = {1, 2}
    Batches = {b1, b2, b3, b4}
    TypeOf <- Resale
    Damaged = {}
    Clerks = {c1}
    Shelves = {s1}
    Interval = 2
    Priced = FALSE
    Opening = {"GENERATED", "IN_STOCK"}
    Threads = {d1, d2}
    Items = {1, 2}
    Deals <- Scanned
    Products = {p, q}
    Catalogues <- Priced_at
    Rates = {0, 3333}
    Mapped = {25, 500, 1200}
    WithIgst = {25, 500}
    Shared = {"cgst"}
    Named = {"round_off", "purchase", "cgst", "sgst"}
    MaxEdits = 1
    Accounts = {super, admin}
    Supers = {super}
    Admins = {admin}
    Companies = {k1, k2}
SPECIFICATION MCSpec
INVARIANTS OrderlyBatches TypedRateKept SumsAgree ManagerRemains AccessAsChosen
PROPERTIES ValuationKept DeletedStaysOut
CHECK_DEADLOCK FALSE
SYMMETRY Alike
