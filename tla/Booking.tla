------------------------------- MODULE Booking -------------------------------
(***************************************************************************)
(* The bookings of one professional and every handler that changes them.   *)
(*                                                                         *)
(* A handler is a request in flight: it reads the row, checks its guards   *)
(* on what it read, writes the row with an update that names only the id,  *)
(* and publishes an event.  Each of these is a separate database call, no  *)
(* transaction spans them and the API runs as a cluster of processes, so   *)
(* the steps of different requests interleave freely.  A request may die   *)
(* between two of its steps (its process crashes, or the database refuses  *)
(* a statement and the handler throws).                                    *)
(*                                                                         *)
(* The wall-clock columns are modelled by whether they hold a date.        *)
(***************************************************************************)
EXTENDS Naturals, FiniteSets

CONSTANTS
    Bookings,       \* identifiers booking rows may get
    Services,       \* the professional's services
    ServiceOf,      \* Booking.serviceId, the primary service of a booking
    Slots,          \* requests the API can have in flight together
    ServiceOps,     \* the operations on services that users ask for
    MaxDeaths       \* bound on the requests that die half-way

ASSUME ServiceOfAssumption == ServiceOf \in [Bookings -> Services]
ASSUME ServiceOpsAssumption ==
    ServiceOps \subseteq {"Activate", "Deactivate", "Delete", "Edit"}
ASSUME MaxDeathsAssumption == MaxDeaths \in Nat

VARIABLES
    row,            \* the table of bookings
    service,        \* the state of each service offering
    bookable,       \* the professional is verified, ACTIVE, accepting, not paused
    bookingCount,   \* Professional.bookingCount
    req,            \* what each slot is doing
    deaths          \* how many requests died so far

vars == <<row, service, bookable, bookingCount, req, deaths>>

-----------------------------------------------------------------------------

Status == {"ABSENT", "PENDING", "CONFIRMED", "REJECTED", "CANCELLED",
           "COMPLETED", "NO_SHOW"}

\* REJECTED is in the database's enumeration too, and nothing ever writes it.
RequestStatus == {"NONE", "PENDING", "APPROVED"}

Row == [status : Status, confirmedAt : BOOLEAN, cancelledAt : BOOLEAN,
        request : RequestStatus, requestedAt : BOOLEAN, reviewedAt : BOOLEAN]

AbsentRow == [status |-> "ABSENT", confirmedAt |-> FALSE, cancelledAt |-> FALSE,
              request |-> "NONE", requestedAt |-> FALSE, reviewedAt |-> FALSE]

\* DELETED stands for a row whose deletedAt is set.
ServiceState == {"ACTIVE", "INACTIVE", "DELETED"}

Open == {"PENDING", "CONFIRMED"}

BookingOp == {"Create", "Confirm", "Reject", "Complete", "NoShow",
              "CancelByClient", "CancelByPro", "RequestCancellation",
              "ApproveCancellation", "RejectCancellation"}

\* "seen" is the row a handler holds in memory; "todo" the statements it has
\* not executed yet: its update of the row and, for Confirm, the increment of
\* the professional's counter, which are sent together.
BookingRequest == [op : BookingOp, booking : Bookings, seen : Row,
                   todo : SUBSET {"row", "count"}]

\* "seen" is here the services of the aggregate the handler loaded.
ServiceRequest == [op : ServiceOps, service : Services,
                   seen : [Services -> ServiceState],
                   step : {"save", "cancel", "refresh"}]

Idle == [op |-> "Idle"]

TypeOK ==
    /\ row \in [Bookings -> Row]
    /\ service \in [Services -> ServiceState]
    /\ bookable \in BOOLEAN
    /\ bookingCount \in Nat
    /\ req \in [Slots -> BookingRequest \cup ServiceRequest \cup {Idle}]
    /\ deaths \in 0..MaxDeaths

Init ==
    /\ row = [b \in Bookings |-> AbsentRow]
    /\ service = [s \in Services |-> "ACTIVE"]
    /\ bookable = TRUE
    /\ bookingCount = 0
    /\ req = [r \in Slots |-> Idle]
    /\ deaths = 0

-----------------------------------------------------------------------------
(***************************************************************************)
(* Reading: the handler finds the row and its guards hold.  A guard that   *)
(* fails answers an error and leaves no trace, so only the accepting       *)
(* branch is a step.                                                       *)
(***************************************************************************)

Read(r, op, b, todo) ==
    /\ req[r] = Idle
    /\ req' = [req EXCEPT ![r] = [op |-> op, booking |-> b, seen |-> row[b],
                                  todo |-> todo]]
    /\ UNCHANGED <<row, service, bookable, bookingCount, deaths>>

\* Defective variants, for the sensitivity runs: a completion that any open
\* booking allows, a confirmation too, an approval that no request precedes.
ReadToCompleteOpen(r, b) ==
    /\ row[b].status \in Open
    /\ Read(r, "Complete", b, {"row"})

ReadToConfirmOpen(r, b) ==
    /\ row[b].status \in Open
    /\ Read(r, "Confirm", b, {"row", "count"})

ReadToApproveUnasked(r, b) ==
    /\ row[b].status = "CONFIRMED"
    /\ Read(r, "ApproveCancellation", b, {"row"})

\* The id is drawn when the row is inserted: no two requests insert the same.
ReadToCreate(r, b) ==
    /\ row[b].status = "ABSENT"
    /\ \A q \in Slots : req[q].op = "Create" => req[q].booking # b
    /\ service[ServiceOf[b]] = "ACTIVE"
    /\ bookable
    /\ Read(r, "Create", b, {"row"})

ReadToConfirm(r, b) ==
    /\ row[b].status = "PENDING"
    /\ Read(r, "Confirm", b, {"row", "count"})

ReadToReject(r, b) ==
    /\ row[b].status = "PENDING"
    /\ Read(r, "Reject", b, {"row"})

ReadToComplete(r, b) ==
    /\ row[b].status = "CONFIRMED"
    /\ Read(r, "Complete", b, {"row"})

ReadToMarkNoShow(r, b) ==
    /\ row[b].status = "CONFIRMED"
    /\ Read(r, "NoShow", b, {"row"})

\* One handler serves both routes: DELETE clients/me/bookings/:id passes the
\* client's user id, PUT professionals/:id/bookings/:id/cancel the professional's.
ReadToCancel(r, b) ==
    /\ row[b].status \in Open
    /\ \/ Read(r, "CancelByClient", b, {"row"})
       \/ Read(r, "CancelByPro", b, {"row"})

ReadToRequestCancellation(r, b) ==
    /\ row[b].status = "CONFIRMED"
    /\ row[b].request # "PENDING"
    /\ Read(r, "RequestCancellation", b, {"row"})

ReadToApproveCancellation(r, b) ==
    /\ row[b].status = "CONFIRMED"
    /\ row[b].request = "PENDING"
    /\ Read(r, "ApproveCancellation", b, {"row"})

ReadToRejectCancellation(r, b) ==
    /\ row[b].status = "CONFIRMED"
    /\ row[b].request = "PENDING"
    /\ Read(r, "RejectCancellation", b, {"row"})

-----------------------------------------------------------------------------
(***************************************************************************)
(* Writing: an update by id that sets a few columns of whatever the row    *)
(* has become since it was read.                                           *)
(***************************************************************************)

Write(r, ops, new) ==
    /\ req[r].op \in ops
    /\ "row" \in req[r].todo
    /\ row' = [row EXCEPT ![req[r].booking] = new]
    /\ req' = [req EXCEPT ![r].todo = @ \ {"row"}]
    /\ UNCHANGED <<service, bookable, bookingCount, deaths>>

Target(r) == row[req[r].booking]

\* Defective variants: a new request that keeps the date of the last review, a
\* refusal that stores the database's REJECTED, an event sent before the counter.
WriteRequestedKeepingReview(r) ==
    Write(r, {"RequestCancellation"},
          [Target(r) EXCEPT !.request = "PENDING", !.requestedAt = TRUE])

WriteRejectedAsStatus(r) ==
    Write(r, {"RejectCancellation"},
          [Target(r) EXCEPT !.request = "REJECTED", !.reviewedAt = TRUE])

PublishBeforeCount(r) ==
    /\ req[r].op \in BookingOp
    /\ "row" \notin req[r].todo
    /\ req' = [req EXCEPT ![r] = Idle]
    /\ UNCHANGED <<row, service, bookable, bookingCount, deaths>>

WriteCreated(r) ==
    Write(r, {"Create"}, [AbsentRow EXCEPT !.status = "PENDING"])

WriteConfirmed(r) ==
    Write(r, {"Confirm"},
          [Target(r) EXCEPT !.status = "CONFIRMED", !.confirmedAt = TRUE])

WriteRejected(r) ==
    Write(r, {"Reject"},
          [Target(r) EXCEPT !.status = "REJECTED", !.cancelledAt = TRUE])

WriteCompleted(r) ==
    Write(r, {"Complete"}, [Target(r) EXCEPT !.status = "COMPLETED"])

WriteNoShow(r) ==
    Write(r, {"NoShow"}, [Target(r) EXCEPT !.status = "NO_SHOW"])

WriteCancelled(r) ==
    Write(r, {"CancelByClient", "CancelByPro"},
          [Target(r) EXCEPT !.status = "CANCELLED", !.cancelledAt = TRUE])

WriteCancellationRequested(r) ==
    Write(r, {"RequestCancellation"},
          [Target(r) EXCEPT !.request = "PENDING", !.requestedAt = TRUE,
                            !.reviewedAt = FALSE])

WriteCancellationApproved(r) ==
    Write(r, {"ApproveCancellation"},
          [Target(r) EXCEPT !.status = "CANCELLED", !.cancelledAt = TRUE,
                            !.request = "APPROVED", !.reviewedAt = TRUE])

WriteCancellationRejected(r) ==
    Write(r, {"RejectCancellation"},
          [Target(r) EXCEPT !.request = "NONE", !.reviewedAt = TRUE])

\* The second statement of Confirm, sent together with the first.
CountConfirmed(r) ==
    /\ req[r].op = "Confirm"
    /\ "count" \in req[r].todo
    /\ bookingCount' = bookingCount + 1
    /\ req' = [req EXCEPT ![r].todo = @ \ {"count"}]
    /\ UNCHANGED <<row, service, bookable, deaths>>

\* All statements answered: the event is published and the request is over.
Publish(r) ==
    /\ req[r].op \in BookingOp
    /\ req[r].todo = {}
    /\ req' = [req EXCEPT ![r] = Idle]
    /\ UNCHANGED <<row, service, bookable, bookingCount, deaths>>

-----------------------------------------------------------------------------
(***************************************************************************)
(* The handlers that load the professional's aggregate, change one service *)
(* in memory and save the whole aggregate: the save rewrites the state of  *)
(* every service that was loaded, and the gates as they were then.         *)
(* Soft-deleted services are not loaded.                                   *)
(***************************************************************************)

Load(r, op, s) ==
    /\ req[r] = Idle
    /\ service[s] # "DELETED"
    /\ req' = [req EXCEPT ![r] = [op |-> op, service |-> s, seen |-> service,
                                  step |-> "save"]]
    /\ UNCHANGED <<row, service, bookable, bookingCount, deaths>>

\* The state the handler gives to its service before it saves.
Changed(op, s, seen) ==
    CASE op = "Activate"   -> [seen EXCEPT ![s] = "ACTIVE"]
      [] op = "Deactivate" -> [seen EXCEPT ![s] = "INACTIVE"]
      [] op = "Delete"     -> [seen EXCEPT ![s] = "DELETED"]
      [] op = "Edit"       -> seen

\* What is left to do: an edit is over, the others recompute the gates, and a
\* deactivation cancels the service's bookings first.
AfterSave(q) ==
    CASE q.op = "Edit"       -> Idle
      [] q.op = "Deactivate" -> [q EXCEPT !.step = "cancel"]
      [] OTHER               -> [q EXCEPT !.step = "refresh"]

Save(r) ==
    /\ req[r].op \in ServiceOps
    /\ req[r].step = "save"
    /\ service' =
        LET saved == Changed(req[r].op, req[r].service, req[r].seen)
        IN  [s \in Services |->
                IF req[r].seen[s] = "DELETED" THEN service[s] ELSE saved[s]]
    /\ bookable' \in BOOLEAN
    /\ req' = [req EXCEPT ![r] = AfterSave(@)]
    /\ UNCHANGED <<row, bookingCount, deaths>>

\* One UPDATE statement: the status is tested on the rows it changes.
CancelBookingsIn(r, statuses) ==
    /\ req[r].op = "Deactivate"
    /\ req[r].step = "cancel"
    /\ row' = [b \in Bookings |->
                IF ServiceOf[b] = req[r].service /\ row[b].status \in statuses
                THEN [row[b] EXCEPT !.status = "CANCELLED", !.cancelledAt = TRUE]
                ELSE row[b]]
    /\ req' = [req EXCEPT ![r].step = "refresh"]
    /\ UNCHANGED <<service, bookable, bookingCount, deaths>>

\* Defective variants: all bookings of the service, and the pending ones only.
CancelAllBookings(r) == CancelBookingsIn(r, Status \ {"ABSENT"})
CancelPendingBookings(r) == CancelBookingsIn(r, {"PENDING"})

CancelOpenBookings(r) == CancelBookingsIn(r, Open)

\* Recomputes the professional's listing and booking gates from the whole
\* profile; no event is published.
RefreshEligibility(r) ==
    /\ req[r].op \in ServiceOps
    /\ req[r].step = "refresh"
    /\ bookable' \in BOOLEAN
    /\ req' = [req EXCEPT ![r] = Idle]
    /\ UNCHANGED <<row, service, bookingCount, deaths>>

-----------------------------------------------------------------------------

\* Verification, suspension, pauses and their expiry change the gate at any time.
ChangeGate ==
    /\ bookable' = ~bookable
    /\ UNCHANGED <<row, service, bookingCount, req, deaths>>

\* A crash or a failed statement: what was not executed never will be.
Die(r) ==
    /\ req[r] # Idle
    /\ deaths < MaxDeaths
    /\ deaths' = deaths + 1
    /\ req' = [req EXCEPT ![r] = Idle]
    /\ UNCHANGED <<row, service, bookable, bookingCount>>

ReadStep(r) ==
    \E b \in Bookings :
        \/ ReadToCreate(r, b)
        \/ ReadToConfirm(r, b)
        \/ ReadToReject(r, b)
        \/ ReadToComplete(r, b)
        \/ ReadToMarkNoShow(r, b)
        \/ ReadToCancel(r, b)
        \/ ReadToRequestCancellation(r, b)
        \/ ReadToApproveCancellation(r, b)
        \/ ReadToRejectCancellation(r, b)

WriteStep(r) ==
    \/ WriteCreated(r)
    \/ WriteConfirmed(r)
    \/ WriteRejected(r)
    \/ WriteCompleted(r)
    \/ WriteNoShow(r)
    \/ WriteCancelled(r)
    \/ WriteCancellationRequested(r)
    \/ WriteCancellationApproved(r)
    \/ WriteCancellationRejected(r)

ServiceStep(r) ==
    \/ \E op \in ServiceOps, s \in Services : Load(r, op, s)
    \/ Save(r)
    \/ CancelOpenBookings(r)
    \/ RefreshEligibility(r)

\* All that happens but the publication of events, which other modules hear.
SilentStep ==
    \/ \E r \in Slots : ReadStep(r) \/ WriteStep(r) \/ CountConfirmed(r)
                        \/ ServiceStep(r) \/ Die(r)
    \/ ChangeGate

Next == SilentStep \/ \E r \in Slots : Publish(r)

Spec == Init /\ [][Next]_vars

-----------------------------------------------------------------------------
(***************************************************************************)
(* Properties that hold whatever the interleaving.                         *)
(***************************************************************************)

\* A booking that is confirmed, completed or a no-show, or whose client ever
\* asked to cancel it, carries its confirmation date: nothing confirms it
\* behind the confirm handler's back, and no stale write erases the date.
ConfirmedFirst ==
    \A b \in Bookings :
        (\/ row[b].status \in {"CONFIRMED", "COMPLETED", "NO_SHOW"}
         \/ row[b].request # "NONE"
         \/ row[b].reviewedAt) => row[b].confirmedAt

\* The columns of a cancellation request tell one story: a pending request is
\* dated and not reviewed, a review follows a request, an approved request is
\* reviewed and its booking carries a cancellation date.  A booking that does
\* not exist has no request.
RequestTimeline ==
    \A b \in Bookings :
        /\ row[b].request = "PENDING" => row[b].requestedAt /\ ~row[b].reviewedAt
        /\ row[b].reviewedAt => row[b].requestedAt
        /\ row[b].request = "APPROVED" => row[b].reviewedAt /\ row[b].cancelledAt
        /\ row[b].status = "ABSENT" => row[b].request = "NONE"

\* Together: whatever requests overlap, and wherever one dies, the dates of a booking
\* and of its cancellation request never contradict its status.
ColumnsAgree == ConfirmedFirst /\ RequestTimeline

\* What a request in flight may rely on however long it is delayed.  What it
\* holds in memory satisfied its guards; no other request creates the row it
\* is about to insert; a row it read does not vanish; the confirmation date of
\* a booking it found confirmed, and the date of a request it reviews, are
\* still there when it writes.
HeldAtRead(op, seen) ==
    /\ op = "Create" => seen.status = "ABSENT"
    /\ op \in {"Confirm", "Reject"} => seen.status = "PENDING"
    /\ op \in {"CancelByClient", "CancelByPro"} => seen.status \in Open
    /\ op \in {"Complete", "NoShow", "RequestCancellation",
               "ApproveCancellation", "RejectCancellation"}
        => seen.status = "CONFIRMED"
    /\ op = "RequestCancellation" => seen.request # "PENDING"
    /\ op \in {"ApproveCancellation", "RejectCancellation"}
        => seen.request = "PENDING"

HoldsAtWrite(op, todo, now) ==
    /\ op = "Create" /\ "row" \in todo => now.status = "ABSENT"
    /\ op # "Create" => now.status # "ABSENT"
    /\ op \in {"Complete", "NoShow", "RequestCancellation",
               "ApproveCancellation", "RejectCancellation"}
        => now.confirmedAt
    /\ op \in {"ApproveCancellation", "RejectCancellation"} => now.requestedAt

InFlight ==
    \A r \in Slots : req[r].op \in BookingOp =>
        /\ HeldAtRead(req[r].op, req[r].seen)
        /\ HoldsAtWrite(req[r].op, req[r].todo, Target(r))
        /\ \A q \in Slots :
            (req[r].op = "Create" /\ req[q].op = "Create"
                /\ req[q].booking = req[r].booking) => q = r

Lifecycle == INSTANCE BookingLifecycle WITH
    status  <- [b \in Bookings |-> row[b].status],
    request <- [b \in Bookings |-> row[b].request]

\* A request writes a row that is no longer the one it read.
StaleWrite(r) ==
    /\ req[r].op \in BookingOp
    /\ req[r].seen # Target(r)
    /\ WriteStep(r)

\* Every change of a booking is a step of the promised lifecycle, unless it is
\* the write of a handler whose row changed since the handler read it: the
\* missing test of the status in "update ... where id" is the only way out of
\* the lifecycle, no crash, bulk cancellation or service change is another.
LifecycleUnlessStale ==
    [][Lifecycle!Next \/ \E r \in Slots : StaleWrite(r)]_(Lifecycle!lifecycleVars)

\* While no request dies, every confirmation date is paid for in bookingCount,
\* by an increment done or still on its way.
CountCoversConfirmed ==
    deaths = 0 =>
        Cardinality({b \in Bookings : row[b].confirmedAt})
            <= bookingCount + Cardinality({r \in Slots :
                    req[r].op = "Confirm" /\ "count" \in req[r].todo})

(***************************************************************************)
(* Properties of the handlers taken one at a time (a single slot).         *)
(***************************************************************************)

\* With one request in flight the handlers implement the lifecycle: reading,
\* then writing, is as good as one indivisible step.
SerialLifecycle == Lifecycle!Spec

\* With one request in flight and none dead, bookingCount counts exactly the
\* bookings that were confirmed once the confirming request is over.
SerialCount ==
    (\A r \in Slots : req[r] = Idle) /\ deaths = 0 =>
        bookingCount = Cardinality({b \in Bookings : row[b].confirmedAt})

\* With one request in flight and none dead, a deactivated service has no open
\* booking once the deactivation has run its bulk cancellation.
SerialDeactivation ==
    deaths = 0 => \A s \in Services :
        \/ service[s] # "INACTIVE"
        \/ \E r \in Slots : req[r].op = "Deactivate" /\ req[r].service = s
                             /\ req[r].step = "cancel"
        \/ \A b \in Bookings : ServiceOf[b] = s => row[b].status \notin Open

(***************************************************************************)
(* What the code's own messages say, which interleavings break.            *)
(***************************************************************************)

\* ConfirmBookingHandler: "Seules les reservations en attente peuvent etre
\* confirmees" (only pending bookings can be confirmed).
OnlyPendingIsConfirmed ==
    [][\A b \in Bookings :
        row'[b].status = "CONFIRMED" /\ row[b].status # "CONFIRMED"
            => row[b].status = "PENDING"]_row
=============================================================================
