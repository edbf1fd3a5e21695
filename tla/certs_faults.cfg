\* Two domains, every operation and every fault.
SPECIFICATION Spec
CONSTANTS
    Names = {n1, n2}
    SslModes = {"manual"}
    MaxId = 2
    MaxPem = 2
    Tasks = {t1, t2}
    Ops <- AllOps
    Faults <- AllFaults
    None = None
SYMMETRY Symmetry
INVARIANTS TypeOK OwnCertificate
PROPERTIES NoReferenceBreaks UploadsAreKept
