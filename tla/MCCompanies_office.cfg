CONSTANTS
    l1 = l1
    l2 = l2
    c1 = c1
    d = d
    g = g
    t1 = t1
    t2 = t2
    None = None
    Labels = {l1, l2}
    LegacyLabel = l1
    Configs = {d, g, c1}
    Incomplete = {d, g}
    Default = d
    Legacy = g
    Flags = {"purchase"}
    Clerks = {t1, t2}
SPECIFICATION Spec
INVARIANTS TypeOK SettingsFollowActive
PROPERTY SwitchedOnWhenReady
SYMMETRY Interchangeable
CHECK_DEADLOCK FALSE
