\* Is the professional's own cancellation held against the client?
SPECIFICATION EventsSpec
CONSTANTS
    b1 = b1
    b2 = b2
    s1 = s1
    s2 = s2
    Bookings <- OneBooking
    Services <- OneService
    ServiceOf <- AllForS1
    Slots = {r1}
    ServiceOps = {"Activate", "Deactivate", "Delete", "Edit"}
    MaxDeaths = 0
PROPERTIES
    HeldAgainstItsAuthor
