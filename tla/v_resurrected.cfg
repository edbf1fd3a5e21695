\* A soft-deleted domain and the late status of its creation.
SPECIFICATION Spec
CONSTANTS
    Names = {n1}
    Namespaces = {s1}
    Targets = {g1}
    AutoTargets = {}
    ApiStatuses = {}
    MaxId = 1
    Tasks = {t1, t2, t3}
    Ops <- NoUpdate
    Faults = {}
    WildcardOf <- Stars
    Star = star
    None = None
    Unused = Unused
    Gone = Gone
PROPERTY DeletedStaysDeleted
