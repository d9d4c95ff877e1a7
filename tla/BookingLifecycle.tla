-------------------------- MODULE BookingLifecycle --------------------------
(***************************************************************************)
(* What the booking handlers promise, taken one request at a time: each    *)
(* operation checks the stored status and changes it in one indivisible    *)
(* step.  The guards are the conditions under which the handlers answer    *)
(* something other than a BadRequestException.  Module Booking refines     *)
(* this one when a single request is in flight, and departs from it only   *)
(* through stale writes when several are.                                  *)
(***************************************************************************)
CONSTANTS
    Bookings,       \* identifiers a booking row may get
    Services,       \* the services of the professional
    ServiceOf       \* the primary service of each booking

VARIABLES
    status,         \* Booking.status, "ABSENT" before the row exists
    request         \* Booking.cancellationRequestStatus

lifecycleVars == <<status, request>>

Open == {"PENDING", "CONFIRMED"}

Init ==
    /\ status = [b \in Bookings |-> "ABSENT"]
    /\ request = [b \in Bookings |-> "NONE"]

\* Every operation that only moves the status does so from a set of statuses.
Move(b, from, to) ==
    /\ status[b] \in from
    /\ status' = [status EXCEPT ![b] = to]
    /\ UNCHANGED request

\* Every operation on a cancellation request needs a confirmed booking.
Review(b, from, to) ==
    /\ status[b] = "CONFIRMED"
    /\ request[b] \in from
    /\ request' = [request EXCEPT ![b] = to]

Create(b)   == Move(b, {"ABSENT"}, "PENDING")
Confirm(b)  == Move(b, {"PENDING"}, "CONFIRMED")
Reject(b)   == Move(b, {"PENDING"}, "REJECTED")
Complete(b) == Move(b, {"CONFIRMED"}, "COMPLETED")
NoShow(b)   == Move(b, {"CONFIRMED"}, "NO_SHOW")
Cancel(b)   == Move(b, Open, "CANCELLED")

RequestCancellation(b) ==
    /\ Review(b, {"NONE", "APPROVED"}, "PENDING")
    /\ UNCHANGED status

ApproveCancellation(b) ==
    /\ Review(b, {"PENDING"}, "APPROVED")
    /\ status' = [status EXCEPT ![b] = "CANCELLED"]

RejectCancellation(b) ==
    /\ Review(b, {"PENDING"}, "NONE")
    /\ UNCHANGED status

\* Deactivating a service cancels all its open bookings at once.
WithdrawService(s) ==
    /\ status' = [b \in Bookings |->
                    IF ServiceOf[b] = s /\ status[b] \in Open
                    THEN "CANCELLED" ELSE status[b]]
    /\ UNCHANGED request

BookingStep(b) ==
    \/ Create(b) \/ Confirm(b) \/ Reject(b) \/ Complete(b) \/ NoShow(b)
    \/ Cancel(b) \/ RequestCancellation(b) \/ ApproveCancellation(b)
    \/ RejectCancellation(b)

Next ==
    \/ \E b \in Bookings : BookingStep(b)
    \/ \E s \in Services : WithdrawService(s)

Spec == Init /\ [][Next]_lifecycleVars
=============================================================================
