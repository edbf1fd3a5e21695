\* One domain that changes once while it is diagnosed.
SPECIFICATION FairSpec
CONSTANTS
    Domains = {d1}
    World <- MCWorld
    MaxChanges = 1
    None = None
INVARIANTS TypeOK HealthyWasSo UndisturbedIsExact ListedAtOnce
PROPERTY HealthIsAnswered
