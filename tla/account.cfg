\* Every start may fail, be cut off and be told another server, and the files may be removed.
SPECIFICATION Spec
CONSTANTS
    Servers = {staging, production}
    Keys = {k1, k2, k3}
    Torn = Torn
    None = None
INVARIANTS TypeOK OneAccount ClientIsRegistered
