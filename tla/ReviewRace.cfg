\* Two requests and the scheduler at work together on two sessions, one of which may die.
SPECIFICATION Spec
CONSTANTS
    Sessions = {s1, s2}
    Slots = {r1, r2}
    Crons = {c1}
    Stars = {1}
    MaxInFlight = 3
    MaxDeaths = 1
SYMMETRY Symmetry
INVARIANTS
    TypeOK
    BlindUntilDue
    HiddenOnlyLate
    CountsOnlyVisible
