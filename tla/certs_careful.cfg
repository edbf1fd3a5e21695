\* One operation at a time, and one certificate per domain at a time.
SPECIFICATION CarefulSpec
CONSTANTS
    Names = {n1, n2}
    SslModes = {"auto", "manual"}
    MaxId = 3
    MaxPem = 3
    Tasks = {t1, t2}
    Ops <- AllOps
    Faults = {"acme"}
    None = None
SYMMETRY Symmetry
INVARIANT SettledServed
