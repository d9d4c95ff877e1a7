\* One request at a time over two bookings of two services, with fair subscribers; it, or an event, may die.
SPECIFICATION FairEventsSpec
CONSTANTS
    b1 = b1
    b2 = b2
    s1 = s1
    s2 = s2
    Bookings <- TwoBookings
    Services <- TwoServices
    ServiceOf <- OneEach
    Slots = {r1}
    ServiceOps = {"Activate", "Deactivate"}
    MaxDeaths = 1
INVARIANTS
    SerialEffects
PROPERTIES
    SerialLifecycle
    CompletedGetsSession
