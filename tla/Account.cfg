\* Two requests in flight, seven in all, of which one may die, over one phone.
SPECIFICATION FairSpec
CONSTANTS
    Slots = {r1, r2}
    MaxRequests = 7
    MaxDeaths = 1
    Steps <- DeferrableSteps
INVARIANTS
    TypeOK
    NewestCodeWorks
    OneAccountPerPhone
    OneSessionPerProof
    LoggedOutIsOut
PROPERTIES
    SkipsStay
    PhoneGetsAccount
