\* Two requests in flight over one booking, with the subscribers; one may die.
SPECIFICATION EventsSpec
CONSTANTS
    b1 = b1
    b2 = b2
    s1 = s1
    s2 = s2
    Bookings <- OneBooking
    Services <- OneService
    ServiceOf <- AllForS1
    Slots = {r1, r2}
    ServiceOps = {"Deactivate", "Edit"}
    MaxDeaths = 1
SYMMETRY SlotSymmetry
INVARIANTS
    EventsTypeOK
    ColumnsAgree
    CountCoversConfirmed
    JournalAfterTheFact
PROPERTIES
    LifecycleUnlessStale
