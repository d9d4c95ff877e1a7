\* Two requests in flight, four in all.  A status decides on nothing here: days stay open.
SPECIFICATION Spec
CONSTANTS
    Days = {mon, tue}
    Hours <- LongAndLate
    Breaks <- EarlyBreak
    Slots = {r1, r2}
    Names = {n1, n2}
    Seeded = {n1}
    MaxListed = 2
    MaxRequests = 4
    Statuses = {"OPEN"}
SYMMETRY Alike
INVARIANTS
    TypeOK
PROPERTIES
    AvailabilityUnlessStale
    CatalogueUnlessStale
