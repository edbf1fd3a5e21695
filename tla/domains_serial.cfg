\* One operation at a time, one namespace, no fault.
SPECIFICATION SerialSpec
CONSTANTS
    Names = {app, star}
    Namespaces = {s1}
    Targets = {g1, g2}
    AutoTargets = {g1}
    ApiStatuses = {}
    MaxId = 3
    Tasks = {t1, t2}
    Ops <- AllOps
    Faults = {}
    WildcardOf <- Stars
    Star = star
    None = None
    Unused = Unused
    Gone = Gone
INVARIANT SettledInSync
PROPERTY DeletedStaysDeleted
