\* One request at a time, and no job.
SPECIFICATION AskedSpec
CONSTANTS
    Slots = {r1}
    Ops <- AllOps
    Jobs = {}
    Dates = {1}
    Grace = 1
    Horizon = 1
    MaxInFlight = 1
INVARIANT
    PauseIsIndefinite
