\* A request and the scheduler, fair, one of which may die; and each on its own.
SPECIFICATION FairSpec
CONSTANTS
    Sessions = {s1, s2}
    Slots = {r1}
    Crons = {c1}
    Stars = {1, 2}
    MaxInFlight = 2
    MaxDeaths = 1
INVARIANTS
    SerialReveal
PROPERTIES
    ExpiredIsRevealed
