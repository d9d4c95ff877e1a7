\* Can a booking be confirmed that is not pending?
SPECIFICATION Spec
CONSTANTS
    b1 = b1
    s1 = s1
    Bookings <- OneBooking
    Services <- OneService
    ServiceOf <- AllForS1
    Slots = {r1, r2}
    ServiceOps = {"Activate", "Deactivate", "Delete", "Edit"}
    MaxDeaths = 0
PROPERTIES
    OnlyPendingIsConfirmed
