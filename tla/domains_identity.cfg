\* A name and its wildcard that contend for ids; calls to the cluster fail, and the process may
\* crash, but no lookup fails.
SPECIFICATION Spec
CONSTANTS
    Names = {app, star}
    Namespaces = {s1}
    Targets = {g1}
    AutoTargets = {g1}
    ApiStatuses = {}
    MaxId = 2
    Tasks = {t1, t2, t3}
    Ops <- NoUpdate
    Faults = {"k8s", "crash"}
    WildcardOf <- Stars
    Star = star
    None = None
    Unused = Unused
    Gone = Gone
SYMMETRY Symmetry
INVARIANTS OneIdentity CoveredShares
PROPERTY ImplementsRegistry
