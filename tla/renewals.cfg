\* One certificate that can always be renewed, one that may be refused.
SPECIFICATION FairSpec
CONSTANTS
    Ids = {c1, c2}
    Monitor = monitor
    Handlers = {h1}
    Reliable = {c1}
    None = None
INVARIANTS TypeOK LockHeldByRenewer BatchOverWhenStopped
PROPERTIES DeletedStaysDeleted RenewedInTheEnd StopEnds
