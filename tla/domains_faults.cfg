\* Every operation and every fault, around one name.
SPECIFICATION Spec
CONSTANTS
    Names = {n1}
    Namespaces = {s1}
    Targets = {g1}
    AutoTargets = {}
    ApiStatuses = {"error"}
    MaxId = 2
    Tasks = {t1, t2, t3}
    Ops <- AllOps
    Faults <- AllFaults
    WildcardOf <- Stars
    Star = star
    None = None
    Unused = Unused
    Gone = Gone
SYMMETRY Symmetry
INVARIANTS TypeOK UniqueNames
PROPERTY NoReincarnation
