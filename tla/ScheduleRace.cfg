\* Two requests in flight over two bookings on two days.
SPECIFICATION Spec
CONSTANTS
    Bookings = {b1, b2}
    Slots = {r1, r2}
    Days = 2
    DayLength = 5
    Minute = 2
    Durations = {1, 3}
    Buffer = 1
    SlotStep = 2
    HoursChoices <- EveryHours
SYMMETRY Symmetry
INVARIANTS
    TypeOK
    OfferedIsAccepted
    CountsDiffer
    WarningsAreRight
