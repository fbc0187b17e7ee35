CONSTANTS
    w = w
    p = p
    r1 = r1
    None = None
    Writes = {w, p}
    Prints = {p}
    Requests = {r1}
    Folders = {"local"}
    MaxKeep = 1
    MaxFaults = 1
    MaxClicks = 2
SPECIFICATION Spec
INVARIANTS TypeOK RestoreIsUndoable RestoredIsChosen ServedIsCurrent
PROPERTY Protected
CHECK_DEADLOCK FALSE
