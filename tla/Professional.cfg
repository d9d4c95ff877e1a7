\* One request and the scheduler's jobs at work together; the request may die.
SPECIFICATION FairSpec
CONSTANTS
    Slots = {r1}
    Ops <- AllOps
    Jobs <- AllJobs
    Dates = {1}
    Grace = 1
    Horizon = 1
    MaxInFlight = 2
INVARIANTS
    TypeOK
    StatusConsistent
PROPERTIES
    StatusUnlessStale
    TimedPauseLasts
    CompleteIsDecided
    ExpiredPauseEnds
