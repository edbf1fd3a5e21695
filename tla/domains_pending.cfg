\* No update, no crash, no database error: pending is temporary.
SPECIFICATION FairSpec
CONSTANTS
    Names = {n1}
    Namespaces = {s1}
    Targets = {g1}
    AutoTargets = {}
    ApiStatuses = {}
    MaxId = 2
    Tasks = {t1, t2, t3}
    Ops <- NoUpdate
    Faults = {"k8s"}
    WildcardOf <- Stars
    Star = star
    None = None
    Unused = Unused
    Gone = Gone
INVARIANT PendingIsAttended
PROPERTY PendingSettles
