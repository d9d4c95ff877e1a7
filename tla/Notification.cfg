\* One event and the professional's notifications, two workers, one failure anywhere;
\* WhatsApp is live, SMS is in dry run.
SPECIFICATION FairSpec
CONSTANTS
    Events = {e1}
    Kinds = {"BookingConfirmed", "BookingCreated", "BookingCompleted", "Verified"}
    Followed = {"professional"}
    Workers = {w1, w2}
    DryRun = {"SMS"}
    Labels <- BothReminders
    Horizon = 3
    MaxFaults = 1
INVARIANTS
    TypeOK
    SentWasDelivered
    ResentOnlyAfterFault
    NotBeforeItsDate
    PendingIsQueued
PROPERTIES
    OneFaultIsSurvived
