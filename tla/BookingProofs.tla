---------------------------- MODULE BookingProofs ----------------------------
(***************************************************************************)
(* Proofs about Booking: for any number of bookings, services, requests in *)
(* flight and deaths, the columns stay well typed and tell one story, each *)
(* confirmation date is paid for in the counter, and only a stale write    *)
(* leaves the promised lifecycle; one request at a time implements it.     *)
(***************************************************************************)
EXTENDS Booking, FiniteSetTheorems, TLAPS

-----------------------------------------------------------------------------
(***************************************************************************)
(* The three kinds of request are told apart by their op.                  *)
(***************************************************************************)

\* A request whose op is a booking operation is a booking request, and one
\* whose op is a service operation is a service request.
LEMMA RequestKinds ==
    ASSUME TypeOK, NEW r \in Slots
    PROVE  /\ req[r].op \in BookingOp => req[r] \in BookingRequest
           /\ req[r].op \in ServiceOps => req[r] \in ServiceRequest
           /\ req[r].op = "Deactivate" => req[r] \in ServiceRequest
BY ServiceOpsAssumption
   DEF TypeOK, BookingOp, BookingRequest, ServiceRequest, Idle

\* A handler that read row b holds a well typed request.
LEMMA ReadType ==
    ASSUME TypeOK, NEW r \in Slots, NEW op \in BookingOp, NEW b \in Bookings,
           NEW todo \in SUBSET {"row", "count"}, Read(r, op, b, todo)
    PROVE  TypeOK'
<1>1. [op |-> op, booking |-> b, seen |-> row[b], todo |-> todo] \in BookingRequest
    BY DEF TypeOK, BookingRequest
<1>2. QED
    BY <1>1 DEF Read, TypeOK

\* An update of the row keeps it well typed when what it stores is.
LEMMA WriteType ==
    ASSUME TypeOK, NEW r \in Slots, NEW ops \in SUBSET BookingOp,
           NEW new, req[r] \in BookingRequest => new \in Row,
           Write(r, ops, new)
    PROVE  TypeOK'
<1>1. req[r] \in BookingRequest
    BY RequestKinds DEF Write
<1>2. [req[r] EXCEPT !.todo = @ \ {"row"}] \in BookingRequest
    BY <1>1 DEF BookingRequest
<1>3. row' \in [Bookings -> Row]
    BY <1>1 DEF Write, TypeOK, BookingRequest
<1>4. req' \in [Slots -> BookingRequest \cup ServiceRequest \cup {Idle}]
    BY <1>2 DEF Write, TypeOK
<1>5. QED
    BY <1>3, <1>4 DEF Write, TypeOK

\* Cancelling a service's bookings keeps the rows well typed.
LEMMA BulkType ==
    ASSUME TypeOK, NEW r \in Slots, CancelOpenBookings(r)
    PROVE  TypeOK'
<1>. USE DEF CancelOpenBookings, CancelBookingsIn
<1>1. req[r] \in ServiceRequest
    BY RequestKinds
<1>2. row' \in [Bookings -> Row]
    BY DEF TypeOK, Row, Status
<1>3. [req[r] EXCEPT !.step = "refresh"] \in ServiceRequest
    BY <1>1 DEF ServiceRequest
<1>4. QED
    BY <1>2, <1>3 DEF TypeOK

\* The aggregate saved by a service handler is a state of every service.
LEMMA SaveType ==
    ASSUME TypeOK, NEW r \in Slots, Save(r)
    PROVE  TypeOK'
<1>1. req[r] \in ServiceRequest
    BY RequestKinds DEF Save
<1>2. Changed(req[r].op, req[r].service, req[r].seen) \in [Services -> ServiceState]
    BY <1>1, ServiceOpsAssumption DEF Changed, ServiceRequest, ServiceState
<1>3. service' \in [Services -> ServiceState]
    BY <1>2 DEF Save, TypeOK
<1>4. AfterSave(req[r]) \in ServiceRequest \cup {Idle}
    BY <1>1 DEF AfterSave, ServiceRequest
<1>5. QED
    BY <1>3, <1>4 DEF Save, TypeOK

\* Every step keeps the tables and the requests in flight well typed.
LEMMA StepType ==
    ASSUME TypeOK, [Next]_vars
    PROVE  TypeOK'
<1>1. ASSUME NEW r \in Slots, ReadStep(r) PROVE TypeOK'
    BY <1>1, ReadType
       DEF ReadStep, ReadToCreate, ReadToConfirm, ReadToReject, ReadToComplete,
           ReadToMarkNoShow, ReadToCancel, ReadToRequestCancellation,
           ReadToApproveCancellation, ReadToRejectCancellation, BookingOp
<1>2. ASSUME NEW r \in Slots, WriteStep(r) PROVE TypeOK'
    <2>1. req[r] \in BookingRequest => Target(r) \in Row
        BY DEF TypeOK, BookingRequest, Target
    <2>. USE <2>1, WriteType DEF Row, Status, RequestStatus, BookingOp
    <2>2. CASE WriteCreated(r)
        BY <2>2 DEF WriteCreated, AbsentRow
    <2>3. CASE WriteConfirmed(r)
        BY <2>3 DEF WriteConfirmed
    <2>4. CASE WriteRejected(r)
        BY <2>4 DEF WriteRejected
    <2>5. CASE WriteCompleted(r)
        BY <2>5 DEF WriteCompleted
    <2>6. CASE WriteNoShow(r)
        BY <2>6 DEF WriteNoShow
    <2>7. CASE WriteCancelled(r)
        BY <2>7 DEF WriteCancelled
    <2>8. CASE WriteCancellationRequested(r)
        BY <2>8 DEF WriteCancellationRequested
    <2>9. CASE WriteCancellationApproved(r)
        BY <2>9 DEF WriteCancellationApproved
    <2>10. CASE WriteCancellationRejected(r)
        BY <2>10 DEF WriteCancellationRejected
    <2>11. QED
        BY <1>2, <2>2, <2>3, <2>4, <2>5, <2>6, <2>7, <2>8, <2>9, <2>10 DEF WriteStep
<1>3. ASSUME NEW r \in Slots, CountConfirmed(r) PROVE TypeOK'
    <2>1. req[r] \in BookingRequest
        BY <1>3, RequestKinds DEF CountConfirmed, BookingOp
    <2>2. [req[r] EXCEPT !.todo = @ \ {"count"}] \in BookingRequest
        BY <2>1 DEF BookingRequest
    <2>3. QED
        BY <1>3, <2>2 DEF CountConfirmed, TypeOK
<1>4. ASSUME NEW r \in Slots, Publish(r) PROVE TypeOK'
    BY <1>4 DEF Publish, TypeOK
<1>5. ASSUME NEW r \in Slots, ServiceStep(r) PROVE TypeOK'
    <2>1. ASSUME NEW op \in ServiceOps, NEW s \in Services, Load(r, op, s)
          PROVE  TypeOK'
        BY <2>1 DEF Load, TypeOK, ServiceRequest
    <2>2. ASSUME RefreshEligibility(r) PROVE TypeOK'
        BY <2>2 DEF RefreshEligibility, TypeOK
    <2>3. QED
        BY <1>5, <2>1, <2>2, SaveType, BulkType DEF ServiceStep
<1>6. ASSUME ChangeGate PROVE TypeOK'
    BY <1>6 DEF ChangeGate, TypeOK
<1>7. ASSUME NEW r \in Slots, Die(r) PROVE TypeOK'
    BY <1>7, MaxDeathsAssumption DEF Die, TypeOK
<1>8. ASSUME UNCHANGED vars PROVE TypeOK'
    BY <1>8 DEF vars, TypeOK
<1>9. QED
    BY <1>1, <1>2, <1>3, <1>4, <1>5, <1>6, <1>7, <1>8 DEF Next, SilentStep

\* The initial state is well typed: no booking exists, nothing is in flight.
LEMMA InitType == Init => TypeOK
BY MaxDeathsAssumption
   DEF Init, TypeOK, Row, Status, RequestStatus, AbsentRow, ServiceState

\* Whatever the interleaving and the deaths, no handler stores a status, a
\* request status or a combination of columns the schema does not know.
THEOREM TypeCorrect == Spec => []TypeOK
BY InitType, StepType, PTL DEF Spec

-----------------------------------------------------------------------------
(***************************************************************************)
(* The columns of a row tell one story.  Neither ConfirmedFirst nor        *)
(* RequestTimeline is inductive: a completion whose guard held when it     *)
(* read must still find the confirmation date when it writes.  InFlight    *)
(* says that of every request in flight.                                   *)
(***************************************************************************)

IInv == TypeOK /\ InFlight /\ ConfirmedFirst /\ RequestTimeline

\* ConfirmedFirst and RequestTimeline, said of one row.
OneStory(x) ==
    /\ (\/ x.status \in {"CONFIRMED", "COMPLETED", "NO_SHOW"}
        \/ x.request # "NONE"
        \/ x.reviewedAt) => x.confirmedAt
    /\ x.request = "PENDING" => x.requestedAt /\ ~x.reviewedAt
    /\ x.reviewedAt => x.requestedAt
    /\ x.request = "APPROVED" => x.reviewedAt /\ x.cancelledAt
    /\ x.status = "ABSENT" => x.request = "NONE"

\* What no write takes from a row that exists: its existence and its dates.
Kept(old, new) ==
    /\ new.status # "ABSENT"
    /\ old.confirmedAt => new.confirmedAt
    /\ old.requestedAt => new.requestedAt

\* What is claimed of the rows is one claim of each row.
LEMMA EveryRow ==
    (ConfirmedFirst /\ RequestTimeline) <=> \A b \in Bookings : OneStory(row[b])
BY DEF ConfirmedFirst, RequestTimeline, OneStory

\* The same after a step.
LEMMA EveryRowNext ==
    (ConfirmedFirst' /\ RequestTimeline') <=> \A b \in Bookings : OneStory(row'[b])
BY DEF ConfirmedFirst, RequestTimeline, OneStory

\* Taking a request in whose guards hold keeps the invariant.
LEMMA ReadKeeps ==
    ASSUME IInv, NEW r \in Slots, NEW op \in BookingOp, NEW b \in Bookings,
           NEW todo \in SUBSET {"row", "count"}, Read(r, op, b, todo),
           HeldAtRead(op, row[b]), HoldsAtWrite(op, todo, row[b]),
           op = "Create" => \A q \in Slots : req[q].op = "Create" => req[q].booking # b
    PROVE  InFlight' /\ ConfirmedFirst' /\ RequestTimeline'
<1>1. /\ req' = [req EXCEPT ![r] = [op |-> op, booking |-> b, seen |-> row[b],
                                   todo |-> todo]]
      /\ row' = row
    BY DEF Read
<1>2. req \in [Slots -> BookingRequest \cup ServiceRequest \cup {Idle}]
    BY DEF IInv, TypeOK
<1>3. InFlight'
    <2>1. SUFFICES ASSUME NEW q \in Slots, req'[q].op \in BookingOp
                   PROVE  /\ HeldAtRead(req'[q].op, req'[q].seen)
                          /\ HoldsAtWrite(req'[q].op, req'[q].todo, row'[req'[q].booking])
                          /\ \A p \in Slots :
                                (req'[q].op = "Create" /\ req'[p].op = "Create"
                                    /\ req'[p].booking = req'[q].booking) => p = q
        BY DEF InFlight, Target
    <2>2. CASE q = r
        BY <1>1, <1>2, <2>2
    <2>3. CASE q # r
        <3>1. req'[q] = req[q]
            BY <1>1, <1>2, <2>3
        <3>2. \A p \in Slots : p # r => req'[p] = req[p]
            BY <1>1, <1>2
        <3>3. req'[r].op = op /\ req'[r].booking = b
            BY <1>1, <1>2
        <3>4. QED
            BY <1>1, <2>1, <2>3, <3>1, <3>2, <3>3 DEF IInv, InFlight, Target
    <2>4. QED
        BY <2>2, <2>3
<1>4. ConfirmedFirst' /\ RequestTimeline'
    BY <1>1 DEF IInv, ConfirmedFirst, RequestTimeline
<1>5. QED
    BY <1>3, <1>4

\* Finishing a request, or one of its statements, keeps the invariant as long
\* as the rows are left alone.
LEMMA ForgetKeeps ==
    ASSUME IInv, row' = row,
           \A q \in Slots : \/ req'[q].op \notin BookingOp
                            \/ /\ req'[q].op = req[q].op
                               /\ req'[q].booking = req[q].booking
                               /\ req'[q].seen = req[q].seen
                               /\ req'[q].todo \subseteq req[q].todo
    PROVE  InFlight' /\ ConfirmedFirst' /\ RequestTimeline'
<1>1. InFlight'
    BY DEF IInv, InFlight, Target, HoldsAtWrite, BookingOp
<1>2. ConfirmedFirst' /\ RequestTimeline'
    BY DEF IInv, ConfirmedFirst, RequestTimeline
<1>3. QED
    BY <1>1, <1>2

\* A write that stores a row of one story, and takes no date from a row that
\* exists, keeps the invariant: the only writes to a row that does not exist
\* are creations, and no two requests create the same.
LEMMA WriteKeeps ==
    ASSUME IInv, NEW r \in Slots, NEW ops \in SUBSET BookingOp, NEW new,
           Write(r, ops, new), OneStory(new), new.status # "ABSENT",
           req[r].op # "Create" => Kept(Target(r), new)
    PROVE  InFlight' /\ ConfirmedFirst' /\ RequestTimeline'
<1>1. req[r] \in BookingRequest
    BY RequestKinds DEF Write, IInv
<1>. DEFINE b == req[r].booking
<1>2. /\ req' = [req EXCEPT ![r].todo = @ \ {"row"}]
      /\ row' = [row EXCEPT ![b] = new]
      /\ b \in Bookings
      /\ req[r].op \in BookingOp
      /\ "row" \in req[r].todo
    BY <1>1 DEF Write, BookingRequest
<1>3. /\ req \in [Slots -> BookingRequest \cup ServiceRequest \cup {Idle}]
      /\ row \in [Bookings -> Row]
    BY DEF IInv, TypeOK
<1>4. \A q \in Slots : /\ req'[q].op = req[q].op
                       /\ req[q].op \in BookingOp =>
                            /\ req'[q].booking = req[q].booking
                            /\ req'[q].seen = req[q].seen
                            /\ req'[q].todo \subseteq req[q].todo
                       /\ q = r => "row" \notin req'[q].todo
    BY <1>1, <1>2, <1>3 DEF BookingRequest
<1>5. \A c \in Bookings : row'[c] = IF c = b THEN new ELSE row[c]
    BY <1>2, <1>3
<1>6. InFlight'
    <2>1. SUFFICES ASSUME NEW q \in Slots, req[q].op \in BookingOp
                   PROVE  HoldsAtWrite(req'[q].op, req'[q].todo, row'[req'[q].booking])
        BY <1>4, <2>1 DEF IInv, InFlight, Target
    <2>2. req[q] \in BookingRequest
        BY <2>1, RequestKinds DEF IInv
    <2>3. /\ HoldsAtWrite(req[q].op, req[q].todo, row[req[q].booking])
          /\ HoldsAtWrite(req[r].op, req[r].todo, row[b])
          /\ (req[r].op = "Create" /\ req[q].op = "Create"
                /\ req[q].booking = b) => q = r
        BY <1>2, <2>1 DEF IInv, InFlight, Target
    <2>4. CASE req[q].booking # b
        BY <1>4, <1>5, <2>1, <2>2, <2>3, <2>4 DEF HoldsAtWrite, BookingRequest
    <2>5. CASE req[q].booking = b /\ req[r].op = "Create"
        BY <1>2, <1>4, <1>5, <2>1, <2>3, <2>5 DEF HoldsAtWrite
    <2>6. CASE req[q].booking = b /\ req[r].op # "Create"
        <3>1. req[q].op = "Create" => "row" \notin req[q].todo
            BY <2>3, <2>6 DEF HoldsAtWrite
        <3>2. QED
            BY <1>2, <1>4, <1>5, <2>1, <2>3, <2>6, <3>1
               DEF HoldsAtWrite, Kept, Target
    <2>7. QED
        BY <2>4, <2>5, <2>6
<1>7. \A c \in Bookings : OneStory(row'[c])
    BY <1>5, EveryRow DEF IInv
<1>8. QED
    BY <1>6, <1>7, EveryRowNext

\* The bulk cancellation keeps the dates, the requests and the story of a row.
LEMMA BulkKeeps ==
    ASSUME IInv, NEW r \in Slots, CancelOpenBookings(r)
    PROVE  InFlight' /\ ConfirmedFirst' /\ RequestTimeline'
<1>1. /\ row \in [Bookings -> Row]
      /\ req \in [Slots -> BookingRequest \cup ServiceRequest \cup {Idle}]
    BY DEF IInv, TypeOK
<1>2. \A b \in Bookings : /\ row[b].status = "ABSENT" <=> row'[b].status = "ABSENT"
                          /\ row'[b].confirmedAt = row[b].confirmedAt
                          /\ row'[b].requestedAt = row[b].requestedAt
    BY <1>1 DEF Row, Open, CancelOpenBookings, CancelBookingsIn
<1>3. \A q \in Slots : req'[q].op \in BookingOp => req'[q] = req[q]
    BY <1>1, RequestKinds
       DEF IInv, BookingOp, ServiceRequest, CancelOpenBookings, CancelBookingsIn
<1>4. \A q \in Slots : req[q].op \in BookingOp => req[q].booking \in Bookings
    BY RequestKinds DEF IInv, BookingRequest
<1>5. InFlight'
    <2>1. SUFFICES ASSUME NEW q \in Slots, req'[q].op \in BookingOp
                   PROVE  HoldsAtWrite(req[q].op, req[q].todo, row'[req[q].booking])
        <3>1. "Create" \in BookingOp
            BY DEF BookingOp
        <3>2. QED
            BY <1>3, <3>1 DEF IInv, InFlight, Target
    <2>2. HoldsAtWrite(req[q].op, req[q].todo, row[req[q].booking])
        BY <1>3, <2>1 DEF IInv, InFlight, Target
    <2>3. QED
        BY <1>2, <1>3, <1>4, <2>1, <2>2 DEF HoldsAtWrite
<1>6. \A b \in Bookings : OneStory(row'[b])
    BY <1>1, EveryRow
       DEF IInv, OneStory, Row, Open, CancelOpenBookings, CancelBookingsIn
<1>7. QED
    BY <1>5, <1>6, EveryRowNext

\* A handler that reads takes in a request whose guards hold.
LEMMA ReadStepKeeps ==
    ASSUME IInv, NEW r \in Slots, ReadStep(r)
    PROVE  InFlight' /\ ConfirmedFirst' /\ RequestTimeline'
<1>1. PICK b \in Bookings :
        \/ ReadToCreate(r, b)
        \/ ReadToConfirm(r, b)
        \/ ReadToReject(r, b)
        \/ ReadToComplete(r, b)
        \/ ReadToMarkNoShow(r, b)
        \/ ReadToCancel(r, b)
        \/ ReadToRequestCancellation(r, b)
        \/ ReadToApproveCancellation(r, b)
        \/ ReadToRejectCancellation(r, b)
    BY DEF ReadStep
<1>2. OneStory(row[b])
    BY EveryRow DEF IInv
<1>. USE <1>2, ReadKeeps DEF HeldAtRead, HoldsAtWrite, BookingOp
<1>3. CASE ReadToCreate(r, b)
    BY <1>3 DEF ReadToCreate
<1>4. CASE ReadToConfirm(r, b)
    BY <1>4 DEF ReadToConfirm
<1>5. CASE ReadToReject(r, b)
    BY <1>5 DEF ReadToReject
<1>6. CASE ReadToComplete(r, b)
    BY <1>6 DEF ReadToComplete, OneStory
<1>7. CASE ReadToMarkNoShow(r, b)
    BY <1>7 DEF ReadToMarkNoShow, OneStory
<1>8. CASE ReadToCancel(r, b)
    BY <1>8 DEF ReadToCancel, Open
<1>9. CASE ReadToRequestCancellation(r, b)
    BY <1>9 DEF ReadToRequestCancellation, OneStory
<1>10. CASE ReadToApproveCancellation(r, b)
    BY <1>10 DEF ReadToApproveCancellation, OneStory
<1>11. CASE ReadToRejectCancellation(r, b)
    BY <1>11 DEF ReadToRejectCancellation, OneStory
<1>12. QED
    BY <1>1, <1>3, <1>4, <1>5, <1>6, <1>7, <1>8, <1>9, <1>10, <1>11

\* A handler that writes leaves a row whose columns tell one story.
LEMMA WriteStepKeeps ==
    ASSUME IInv, NEW r \in Slots, WriteStep(r)
    PROVE  InFlight' /\ ConfirmedFirst' /\ RequestTimeline'
<1>1. req[r].op \in BookingOp
    BY DEF WriteStep, Write, WriteCreated, WriteConfirmed, WriteRejected,
           WriteCompleted, WriteNoShow, WriteCancelled, WriteCancellationRequested,
           WriteCancellationApproved, WriteCancellationRejected, BookingOp
<1>2. /\ req[r].booking \in Bookings
      /\ Target(r) \in Row
      /\ OneStory(Target(r))
    BY <1>1, RequestKinds, EveryRow DEF IInv, TypeOK, BookingRequest, Target
<1>3. HoldsAtWrite(req[r].op, req[r].todo, Target(r))
    BY <1>1 DEF IInv, InFlight
<1>4. CASE WriteCreated(r)
    <2>. DEFINE new == [AbsentRow EXCEPT !.status = "PENDING"]
    <2>1. Write(r, {"Create"}, new)
        BY <1>4 DEF WriteCreated
    <2>2. req[r].op \in {"Create"}
        BY <2>1 DEF Write
    <2>3. /\ OneStory(new)
          /\ new.status # "ABSENT"
          /\ req[r].op # "Create" => Kept(Target(r), new)
        BY <1>2, <1>3, <2>2 DEF OneStory, Kept, HoldsAtWrite, Row, AbsentRow
    <2>. HIDE DEF new
    <2>4. QED
        BY <2>1, <2>3, WriteKeeps DEF BookingOp
<1>5. CASE WriteConfirmed(r)
    <2>. DEFINE new == [Target(r) EXCEPT !.status = "CONFIRMED", !.confirmedAt = TRUE]
    <2>1. Write(r, {"Confirm"}, new)
        BY <1>5 DEF WriteConfirmed
    <2>2. req[r].op \in {"Confirm"}
        BY <2>1 DEF Write
    <2>3. /\ OneStory(new)
          /\ new.status # "ABSENT"
          /\ req[r].op # "Create" => Kept(Target(r), new)
        BY <1>2, <1>3, <2>2 DEF OneStory, Kept, HoldsAtWrite, Row
    <2>. HIDE DEF new
    <2>4. QED
        BY <2>1, <2>3, WriteKeeps DEF BookingOp
<1>6. CASE WriteRejected(r)
    <2>. DEFINE new == [Target(r) EXCEPT !.status = "REJECTED", !.cancelledAt = TRUE]
    <2>1. Write(r, {"Reject"}, new)
        BY <1>6 DEF WriteRejected
    <2>2. req[r].op \in {"Reject"}
        BY <2>1 DEF Write
    <2>3. /\ OneStory(new)
          /\ new.status # "ABSENT"
          /\ req[r].op # "Create" => Kept(Target(r), new)
        BY <1>2, <1>3, <2>2 DEF OneStory, Kept, HoldsAtWrite, Row
    <2>. HIDE DEF new
    <2>4. QED
        BY <2>1, <2>3, WriteKeeps DEF BookingOp
<1>7. CASE WriteCompleted(r)
    <2>. DEFINE new == [Target(r) EXCEPT !.status = "COMPLETED"]
    <2>1. Write(r, {"Complete"}, new)
        BY <1>7 DEF WriteCompleted
    <2>2. req[r].op \in {"Complete"}
        BY <2>1 DEF Write
    <2>3. /\ OneStory(new)
          /\ new.status # "ABSENT"
          /\ req[r].op # "Create" => Kept(Target(r), new)
        BY <1>2, <1>3, <2>2 DEF OneStory, Kept, HoldsAtWrite, Row
    <2>. HIDE DEF new
    <2>4. QED
        BY <2>1, <2>3, WriteKeeps DEF BookingOp
<1>8. CASE WriteNoShow(r)
    <2>. DEFINE new == [Target(r) EXCEPT !.status = "NO_SHOW"]
    <2>1. Write(r, {"NoShow"}, new)
        BY <1>8 DEF WriteNoShow
    <2>2. req[r].op \in {"NoShow"}
        BY <2>1 DEF Write
    <2>3. /\ OneStory(new)
          /\ new.status # "ABSENT"
          /\ req[r].op # "Create" => Kept(Target(r), new)
        BY <1>2, <1>3, <2>2 DEF OneStory, Kept, HoldsAtWrite, Row
    <2>. HIDE DEF new
    <2>4. QED
        BY <2>1, <2>3, WriteKeeps DEF BookingOp
<1>9. CASE WriteCancelled(r)
    <2>. DEFINE new == [Target(r) EXCEPT !.status = "CANCELLED", !.cancelledAt = TRUE]
    <2>1. Write(r, {"CancelByClient", "CancelByPro"}, new)
        BY <1>9 DEF WriteCancelled
    <2>2. req[r].op \in {"CancelByClient", "CancelByPro"}
        BY <2>1 DEF Write
    <2>3. /\ OneStory(new)
          /\ new.status # "ABSENT"
          /\ req[r].op # "Create" => Kept(Target(r), new)
        BY <1>2, <1>3, <2>2 DEF OneStory, Kept, HoldsAtWrite, Row
    <2>. HIDE DEF new
    <2>4. QED
        BY <2>1, <2>3, WriteKeeps DEF BookingOp
<1>10. CASE WriteCancellationRequested(r)
    <2>. DEFINE new == [Target(r) EXCEPT !.request = "PENDING", !.requestedAt = TRUE,
                                  !.reviewedAt = FALSE]
    <2>1. Write(r, {"RequestCancellation"}, new)
        BY <1>10 DEF WriteCancellationRequested
    <2>2. req[r].op \in {"RequestCancellation"}
        BY <2>1 DEF Write
    <2>3. /\ OneStory(new)
          /\ new.status # "ABSENT"
          /\ req[r].op # "Create" => Kept(Target(r), new)
        BY <1>2, <1>3, <2>2 DEF OneStory, Kept, HoldsAtWrite, Row
    <2>. HIDE DEF new
    <2>4. QED
        BY <2>1, <2>3, WriteKeeps DEF BookingOp
<1>11. CASE WriteCancellationApproved(r)
    <2>. DEFINE new == [Target(r) EXCEPT !.status = "CANCELLED", !.cancelledAt = TRUE,
                                  !.request = "APPROVED", !.reviewedAt = TRUE]
    <2>1. Write(r, {"ApproveCancellation"}, new)
        BY <1>11 DEF WriteCancellationApproved
    <2>2. req[r].op \in {"ApproveCancellation"}
        BY <2>1 DEF Write
    <2>3. /\ OneStory(new)
          /\ new.status # "ABSENT"
          /\ req[r].op # "Create" => Kept(Target(r), new)
        BY <1>2, <1>3, <2>2 DEF OneStory, Kept, HoldsAtWrite, Row
    <2>. HIDE DEF new
    <2>4. QED
        BY <2>1, <2>3, WriteKeeps DEF BookingOp
<1>12. CASE WriteCancellationRejected(r)
    <2>. DEFINE new == [Target(r) EXCEPT !.request = "NONE", !.reviewedAt = TRUE]
    <2>1. Write(r, {"RejectCancellation"}, new)
        BY <1>12 DEF WriteCancellationRejected
    <2>2. req[r].op \in {"RejectCancellation"}
        BY <2>1 DEF Write
    <2>3. /\ OneStory(new)
          /\ new.status # "ABSENT"
          /\ req[r].op # "Create" => Kept(Target(r), new)
        BY <1>2, <1>3, <2>2 DEF OneStory, Kept, HoldsAtWrite, Row
    <2>. HIDE DEF new
    <2>4. QED
        BY <2>1, <2>3, WriteKeeps DEF BookingOp
<1>13. QED
    BY <1>4, <1>5, <1>6, <1>7, <1>8, <1>9, <1>10, <1>11, <1>12 DEF WriteStep

\* No booking, no request.
LEMMA InitStory == Init => IInv
<1>1. Init => ConfirmedFirst /\ RequestTimeline
    BY DEF Init, ConfirmedFirst, RequestTimeline, AbsentRow
<1>2. Init => InFlight
    BY DEF Init, InFlight, Idle, BookingOp
<1>3. QED
    BY <1>1, <1>2, InitType DEF IInv

\* Every step keeps the invariant: a step either takes a request in, writes one
\* row, cancels in bulk, or leaves the rows and the other requests alone.
LEMMA StepStory ==
    ASSUME IInv, [Next]_vars
    PROVE  IInv'
<1>1. TypeOK'
    BY StepType DEF IInv
<1>2. req \in [Slots -> BookingRequest \cup ServiceRequest \cup {Idle}]
    BY DEF IInv, TypeOK
<1>3. ASSUME NEW r \in Slots, CountConfirmed(r)
      PROVE  InFlight' /\ ConfirmedFirst' /\ RequestTimeline'
    <2>1. req[r] \in BookingRequest
        BY <1>3, RequestKinds DEF CountConfirmed, BookingOp, IInv
    <2>2. QED
        BY <1>2, <1>3, <2>1, ForgetKeeps DEF CountConfirmed, BookingRequest
<1>4. ASSUME NEW r \in Slots, req' = [req EXCEPT ![r] = Idle], row' = row
      PROVE  InFlight' /\ ConfirmedFirst' /\ RequestTimeline'
    BY <1>2, <1>4, ForgetKeeps DEF Idle, BookingOp
<1>5. ASSUME NEW r \in Slots, ServiceStep(r)
      PROVE  InFlight' /\ ConfirmedFirst' /\ RequestTimeline'
    <2>1. ASSUME NEW op \in ServiceOps, NEW s \in Services, Load(r, op, s)
          PROVE  InFlight' /\ ConfirmedFirst' /\ RequestTimeline'
        BY <1>2, <2>1, ServiceOpsAssumption, ForgetKeeps DEF Load, BookingOp
    <2>2. CASE Save(r)
        <3>1. req[r] \in ServiceRequest
            BY <2>2, RequestKinds DEF Save, IInv
        <3>2. AfterSave(req[r]).op \notin BookingOp
            BY <3>1, ServiceOpsAssumption
               DEF AfterSave, ServiceRequest, BookingOp, Idle
        <3>3. QED
            BY <1>2, <2>2, <3>2, ForgetKeeps DEF Save
    <2>3. CASE RefreshEligibility(r)
        BY <1>4, <2>3 DEF RefreshEligibility
    <2>4. QED
        BY <1>5, <2>1, <2>2, <2>3, BulkKeeps DEF ServiceStep
<1>6. CASE ChangeGate \/ UNCHANGED vars
    <2>1. row' = row /\ req' = req
        BY <1>6 DEF ChangeGate, vars
    <2>2. QED
        BY <1>1, <2>1, ForgetKeeps DEF IInv
<1>7. QED
    BY <1>1, <1>3, <1>4, <1>5, <1>6, ReadStepKeeps, WriteStepKeeps
       DEF IInv, Next, SilentStep, Publish, Die

\* For any number of concurrent requests: a booking that is confirmed, completed
\* or a no-show, or whose client ever asked to cancel it, was confirmed; and the
\* columns of a cancellation request tell one story.
THEOREM AlwaysColumnsAgree == Spec => []ColumnsAgree
<1>1. IInv => ColumnsAgree
    BY DEF IInv, ColumnsAgree
<1>2. QED
    BY <1>1, InitStory, StepStory, PTL DEF Spec

\* For any number of concurrent requests: what a delayed request relies on is
\* still there when it writes, creations never meet.
THEOREM AlwaysInFlight == Spec => []InFlight
<1>1. IInv => InFlight
    BY DEF IInv
<1>2. QED
    BY <1>1, InitStory, StepStory, PTL DEF Spec

-----------------------------------------------------------------------------
(***************************************************************************)
(* Only a stale write leaves the lifecycle.                                *)
(***************************************************************************)

\* A step that leaves the rows alone leaves the lifecycle alone.
LEMMA SameRows ==
    ASSUME row' = row
    PROVE  UNCHANGED Lifecycle!lifecycleVars
BY DEF Lifecycle!lifecycleVars

\* A write shows in the lifecycle as a change of its own booking.
LEMMA OneRow ==
    ASSUME TypeOK, NEW r \in Slots, NEW ops \in SUBSET BookingOp, NEW new,
           Write(r, ops, new)
    PROVE  /\ req[r].booking \in Bookings
           /\ row \in [Bookings -> Row]
           /\ row' = [row EXCEPT ![req[r].booking] = new]
BY RequestKinds DEF Write, BookingRequest, TypeOK

\* Storing another status, from one of those the lifecycle allows, is a Move.
LEMMA WriteMoves ==
    ASSUME TypeOK, NEW r \in Slots, NEW ops \in SUBSET BookingOp, NEW new,
           Write(r, ops, new), NEW b, b = req[r].booking,
           NEW from, Target(r).status \in from, new.request = Target(r).request,
           NEW to, new.status = to
    PROVE  Lifecycle!Move(b, from, to)
<1>1. /\ b \in Bookings
      /\ row \in [Bookings -> Row]
      /\ row' = [row EXCEPT ![b] = new]
      /\ Target(r) = row[b]
    BY OneRow DEF Target
<1>2. [c \in Bookings |-> row[c].status][b] \in from
    BY <1>1
<1>3. [c \in Bookings |-> row'[c].status] =
        [[c \in Bookings |-> row[c].status] EXCEPT ![b] = new.status]
    BY <1>1
<1>4. [c \in Bookings |-> row'[c].request] = [c \in Bookings |-> row[c].request]
    BY <1>1
<1>5. QED
    BY <1>2, <1>3, <1>4 DEF Lifecycle!Move

\* Storing another request status in a confirmed booking is a Review.
LEMMA WriteReviews ==
    ASSUME TypeOK, NEW r \in Slots, NEW ops \in SUBSET BookingOp, NEW new,
           Write(r, ops, new), NEW b, b = req[r].booking,
           NEW from, Target(r).request \in from, Target(r).status = "CONFIRMED",
           NEW to, new.request = to
    PROVE  Lifecycle!Review(b, from, to)
<1>1. /\ b \in Bookings
      /\ row \in [Bookings -> Row]
      /\ row' = [row EXCEPT ![b] = new]
      /\ Target(r) = row[b]
    BY OneRow DEF Target
<1>2. /\ [c \in Bookings |-> row[c].status][b] = "CONFIRMED"
      /\ [c \in Bookings |-> row[c].request][b] \in from
    BY <1>1
<1>3. [c \in Bookings |-> row'[c].request] =
        [[c \in Bookings |-> row[c].request] EXCEPT ![b] = new.request]
    BY <1>1
<1>4. QED
    BY <1>2, <1>3 DEF Lifecycle!Review

\* A write whose handler saw the row as it is now is a step of the lifecycle.
LEMMA FreshWrite ==
    ASSUME IInv, NEW r \in Slots, WriteStep(r), req[r].seen = Target(r)
    PROVE  Lifecycle!Next
<1>1. req[r].op \in BookingOp
    BY DEF WriteStep, Write, WriteCreated, WriteConfirmed, WriteRejected,
           WriteCompleted, WriteNoShow, WriteCancelled, WriteCancellationRequested,
           WriteCancellationApproved, WriteCancellationRejected, BookingOp
<1>2. /\ req[r].booking \in Bookings
      /\ Target(r) \in Row
      /\ TypeOK
    BY <1>1, RequestKinds DEF IInv, TypeOK, BookingRequest, Target
<1>3. HeldAtRead(req[r].op, Target(r))
    BY <1>1 DEF IInv, InFlight
<1>. PICK b \in Bookings : b = req[r].booking
    BY <1>2
<1>4. CASE WriteCreated(r)
    <2>1. PICK new : /\ new = [AbsentRow EXCEPT !.status = "PENDING"]
                     /\ Write(r, {"Create"}, new)
        BY <1>4 DEF WriteCreated
    <2>2. req[r].op \in {"Create"}
        BY <2>1 DEF Write
    <2>3. /\ new.status = "PENDING"
          /\ new.request = Target(r).request
          /\ Target(r).status \in {"ABSENT"}
        BY <1>2, <1>3, <2>1, <2>2, EveryRow DEF IInv, OneStory, HeldAtRead, AbsentRow, Target
    <2>4. Lifecycle!Move(b, {"ABSENT"}, "PENDING")
        BY <1>2, <2>1, <2>3, WriteMoves DEF BookingOp
    <2>5. Lifecycle!Create(b)
        BY <2>4 DEF Lifecycle!Create
    <2>6. QED
        BY <1>2, <2>5 DEF Lifecycle!Next, Lifecycle!BookingStep
<1>5. CASE WriteConfirmed(r)
    <2>1. PICK new : /\ new = [Target(r) EXCEPT !.status = "CONFIRMED", !.confirmedAt = TRUE]
                     /\ Write(r, {"Confirm"}, new)
        BY <1>5 DEF WriteConfirmed
    <2>2. req[r].op \in {"Confirm"}
        BY <2>1 DEF Write
    <2>3. /\ new.status = "CONFIRMED"
          /\ new.request = Target(r).request
          /\ Target(r).status \in {"PENDING"}
        BY <1>2, <1>3, <2>1, <2>2 DEF HeldAtRead, Row
    <2>4. Lifecycle!Move(b, {"PENDING"}, "CONFIRMED")
        BY <1>2, <2>1, <2>3, WriteMoves DEF BookingOp
    <2>5. Lifecycle!Confirm(b)
        BY <2>4 DEF Lifecycle!Confirm
    <2>6. QED
        BY <1>2, <2>5 DEF Lifecycle!Next, Lifecycle!BookingStep
<1>6. CASE WriteRejected(r)
    <2>1. PICK new : /\ new = [Target(r) EXCEPT !.status = "REJECTED", !.cancelledAt = TRUE]
                     /\ Write(r, {"Reject"}, new)
        BY <1>6 DEF WriteRejected
    <2>2. req[r].op \in {"Reject"}
        BY <2>1 DEF Write
    <2>3. /\ new.status = "REJECTED"
          /\ new.request = Target(r).request
          /\ Target(r).status \in {"PENDING"}
        BY <1>2, <1>3, <2>1, <2>2 DEF HeldAtRead, Row
    <2>4. Lifecycle!Move(b, {"PENDING"}, "REJECTED")
        BY <1>2, <2>1, <2>3, WriteMoves DEF BookingOp
    <2>5. Lifecycle!Reject(b)
        BY <2>4 DEF Lifecycle!Reject
    <2>6. QED
        BY <1>2, <2>5 DEF Lifecycle!Next, Lifecycle!BookingStep
<1>7. CASE WriteCompleted(r)
    <2>1. PICK new : /\ new = [Target(r) EXCEPT !.status = "COMPLETED"]
                     /\ Write(r, {"Complete"}, new)
        BY <1>7 DEF WriteCompleted
    <2>2. req[r].op \in {"Complete"}
        BY <2>1 DEF Write
    <2>3. /\ new.status = "COMPLETED"
          /\ new.request = Target(r).request
          /\ Target(r).status \in {"CONFIRMED"}
        BY <1>2, <1>3, <2>1, <2>2 DEF HeldAtRead, Row
    <2>4. Lifecycle!Move(b, {"CONFIRMED"}, "COMPLETED")
        BY <1>2, <2>1, <2>3, WriteMoves DEF BookingOp
    <2>5. Lifecycle!Complete(b)
        BY <2>4 DEF Lifecycle!Complete
    <2>6. QED
        BY <1>2, <2>5 DEF Lifecycle!Next, Lifecycle!BookingStep
<1>8. CASE WriteNoShow(r)
    <2>1. PICK new : /\ new = [Target(r) EXCEPT !.status = "NO_SHOW"]
                     /\ Write(r, {"NoShow"}, new)
        BY <1>8 DEF WriteNoShow
    <2>2. req[r].op \in {"NoShow"}
        BY <2>1 DEF Write
    <2>3. /\ new.status = "NO_SHOW"
          /\ new.request = Target(r).request
          /\ Target(r).status \in {"CONFIRMED"}
        BY <1>2, <1>3, <2>1, <2>2 DEF HeldAtRead, Row
    <2>4. Lifecycle!Move(b, {"CONFIRMED"}, "NO_SHOW")
        BY <1>2, <2>1, <2>3, WriteMoves DEF BookingOp
    <2>5. Lifecycle!NoShow(b)
        BY <2>4 DEF Lifecycle!NoShow
    <2>6. QED
        BY <1>2, <2>5 DEF Lifecycle!Next, Lifecycle!BookingStep
<1>9. CASE WriteCancelled(r)
    <2>1. PICK new : /\ new = [Target(r) EXCEPT !.status = "CANCELLED", !.cancelledAt = TRUE]
                     /\ Write(r, {"CancelByClient", "CancelByPro"}, new)
        BY <1>9 DEF WriteCancelled
    <2>2. req[r].op \in {"CancelByClient", "CancelByPro"}
        BY <2>1 DEF Write
    <2>3. /\ new.status = "CANCELLED"
          /\ new.request = Target(r).request
          /\ Target(r).status \in Open
        BY <1>2, <1>3, <2>1, <2>2 DEF HeldAtRead, Row
    <2>4. Lifecycle!Move(b, Open, "CANCELLED")
        BY <1>2, <2>1, <2>3, WriteMoves DEF BookingOp
    <2>5. Lifecycle!Cancel(b)
        BY <2>4 DEF Lifecycle!Cancel, Lifecycle!Open, Open
    <2>6. QED
        BY <1>2, <2>5 DEF Lifecycle!Next, Lifecycle!BookingStep
<1>10. CASE WriteCancellationRequested(r)
    <2>1. PICK new : /\ new = [Target(r) EXCEPT !.request = "PENDING", !.requestedAt = TRUE,
                                  !.reviewedAt = FALSE]
                     /\ Write(r, {"RequestCancellation"}, new)
        BY <1>10 DEF WriteCancellationRequested
    <2>2. req[r].op \in {"RequestCancellation"}
        BY <2>1 DEF Write
    <2>3. /\ new.status = Target(r).status
          /\ new.request = "PENDING"
          /\ Target(r).status = "CONFIRMED"
          /\ Target(r).request \in {"NONE", "APPROVED"}
        BY <1>2, <1>3, <2>1, <2>2 DEF HeldAtRead, Row, RequestStatus
    <2>4. Lifecycle!Review(b, {"NONE", "APPROVED"}, "PENDING")
        BY <1>2, <2>1, <2>3, WriteReviews DEF BookingOp
    <2>5. [c \in Bookings |-> row'[c].status] =
            [c \in Bookings |-> row[c].status]
        <3>1. /\ row \in [Bookings -> Row]
              /\ row' = [row EXCEPT ![b] = new]
            BY <1>2, <2>1, OneRow DEF BookingOp
        <3>2. QED
            BY <2>3, <3>1 DEF Target
    <2>6. Lifecycle!RequestCancellation(b)
        BY <2>4, <2>5 DEF Lifecycle!RequestCancellation
    <2>7. QED
        BY <1>2, <2>6 DEF Lifecycle!Next, Lifecycle!BookingStep
<1>11. CASE WriteCancellationApproved(r)
    <2>1. PICK new : /\ new = [Target(r) EXCEPT !.status = "CANCELLED", !.cancelledAt = TRUE,
                                  !.request = "APPROVED", !.reviewedAt = TRUE]
                     /\ Write(r, {"ApproveCancellation"}, new)
        BY <1>11 DEF WriteCancellationApproved
    <2>2. req[r].op \in {"ApproveCancellation"}
        BY <2>1 DEF Write
    <2>3. /\ new.status = "CANCELLED"
          /\ new.request = "APPROVED"
          /\ Target(r).status = "CONFIRMED"
          /\ Target(r).request \in {"PENDING"}
        BY <1>2, <1>3, <2>1, <2>2 DEF HeldAtRead, Row, RequestStatus
    <2>4. Lifecycle!Review(b, {"PENDING"}, "APPROVED")
        BY <1>2, <2>1, <2>3, WriteReviews DEF BookingOp
    <2>5. [c \in Bookings |-> row'[c].status] =
            [[c \in Bookings |-> row[c].status] EXCEPT ![b] = "CANCELLED"]
        <3>1. /\ row \in [Bookings -> Row]
              /\ row' = [row EXCEPT ![b] = new]
            BY <1>2, <2>1, OneRow DEF BookingOp
        <3>2. QED
            BY <2>3, <3>1 DEF Target
    <2>6. Lifecycle!ApproveCancellation(b)
        BY <2>4, <2>5 DEF Lifecycle!ApproveCancellation
    <2>7. QED
        BY <1>2, <2>6 DEF Lifecycle!Next, Lifecycle!BookingStep
<1>12. CASE WriteCancellationRejected(r)
    <2>1. PICK new : /\ new = [Target(r) EXCEPT !.request = "NONE", !.reviewedAt = TRUE]
                     /\ Write(r, {"RejectCancellation"}, new)
        BY <1>12 DEF WriteCancellationRejected
    <2>2. req[r].op \in {"RejectCancellation"}
        BY <2>1 DEF Write
    <2>3. /\ new.status = Target(r).status
          /\ new.request = "NONE"
          /\ Target(r).status = "CONFIRMED"
          /\ Target(r).request \in {"PENDING"}
        BY <1>2, <1>3, <2>1, <2>2 DEF HeldAtRead, Row, RequestStatus
    <2>4. Lifecycle!Review(b, {"PENDING"}, "NONE")
        BY <1>2, <2>1, <2>3, WriteReviews DEF BookingOp
    <2>5. [c \in Bookings |-> row'[c].status] =
            [c \in Bookings |-> row[c].status]
        <3>1. /\ row \in [Bookings -> Row]
              /\ row' = [row EXCEPT ![b] = new]
            BY <1>2, <2>1, OneRow DEF BookingOp
        <3>2. QED
            BY <2>3, <3>1 DEF Target
    <2>6. Lifecycle!RejectCancellation(b)
        BY <2>4, <2>5 DEF Lifecycle!RejectCancellation
    <2>7. QED
        BY <1>2, <2>6 DEF Lifecycle!Next, Lifecycle!BookingStep
<1>13. QED
    BY <1>4, <1>5, <1>6, <1>7, <1>8, <1>9, <1>10, <1>11, <1>12 DEF WriteStep

\* The bulk cancellation of a deactivation is the lifecycle's WithdrawService.
LEMMA BulkWithdraws ==
    ASSUME IInv, NEW r \in Slots, CancelOpenBookings(r)
    PROVE  Lifecycle!Next
<1>1. PICK s \in Services : s = req[r].service
    BY RequestKinds DEF IInv, CancelOpenBookings, CancelBookingsIn, ServiceRequest
<1>2. row \in [Bookings -> Row]
    BY DEF IInv, TypeOK
<1>3. row' = [b \in Bookings |->
                IF ServiceOf[b] = req[r].service /\ row[b].status \in Open
                THEN [row[b] EXCEPT !.status = "CANCELLED", !.cancelledAt = TRUE]
                ELSE row[b]]
    BY DEF CancelOpenBookings, CancelBookingsIn
<1>4. \A b \in Bookings :
        /\ row'[b].status = IF ServiceOf[b] = req[r].service /\ row[b].status \in Open
                            THEN "CANCELLED" ELSE row[b].status
        /\ row'[b].request = row[b].request
    BY <1>2, <1>3 DEF Row
<1>5. Lifecycle!WithdrawService(s)
    BY <1>1, <1>4 DEF Lifecycle!WithdrawService, Lifecycle!Open, Open
<1>6. QED
    BY <1>1, <1>5 DEF Lifecycle!Next

\* One step: a step of the lifecycle, a stale write, or no change of it.
LEMMA StepLifecycle ==
    ASSUME IInv, [Next]_vars
    PROVE  \/ Lifecycle!Next
           \/ \E r \in Slots : StaleWrite(r)
           \/ UNCHANGED Lifecycle!lifecycleVars
<1>1. ASSUME NEW r \in Slots, WriteStep(r)
      PROVE  Lifecycle!Next \/ StaleWrite(r)
    <2>1. req[r].op \in BookingOp
        BY <1>1
           DEF WriteStep, Write, WriteCreated, WriteConfirmed, WriteRejected,
               WriteCompleted, WriteNoShow, WriteCancelled,
               WriteCancellationRequested, WriteCancellationApproved,
               WriteCancellationRejected, BookingOp
    <2>2. QED
        BY <1>1, <2>1, FreshWrite DEF StaleWrite
<1>2. ASSUME NEW r \in Slots, CancelOpenBookings(r)
      PROVE  Lifecycle!Next
    BY <1>2, BulkWithdraws
<1>3. \/ \E r \in Slots : WriteStep(r) \/ CancelOpenBookings(r)
      \/ row' = row
    BY DEF Next, SilentStep, ReadStep, ServiceStep, CountConfirmed, Publish, Die,
           ChangeGate, Load, Save, RefreshEligibility, vars, Read, ReadToCreate,
           ReadToConfirm, ReadToReject, ReadToComplete, ReadToMarkNoShow,
           ReadToCancel, ReadToRequestCancellation, ReadToApproveCancellation,
           ReadToRejectCancellation
<1>4. QED
    BY <1>1, <1>2, <1>3, SameRows

\* For any number of bookings, services, concurrent requests and deaths: every
\* change of a booking is a step of the promised lifecycle, or the write of a
\* handler whose row changed after the handler read it.
THEOREM OnlyStaleWritesStray == Spec => LifecycleUnlessStale
BY InitStory, StepStory, StepLifecycle, PTL DEF Spec, LifecycleUnlessStale

-----------------------------------------------------------------------------
(***************************************************************************)
(* What each kind of step does to the rows and to the requests, once for   *)
(* all the proofs below.                                                   *)
(***************************************************************************)

Cancelling == {"CancelByClient", "CancelByPro", "ApproveCancellation"}

\* The columns that the update of an operation leaves in its row.
Stored(op, old, new) ==
    /\ op = "Create" => new.status = "PENDING" /\ ~new.confirmedAt /\ ~new.cancelledAt
    /\ op # "Create" => /\ old.cancelledAt => new.cancelledAt
                        /\ new.confirmedAt = (op = "Confirm" \/ old.confirmedAt)
    /\ op = "Confirm" => new.status = "CONFIRMED"
    /\ op = "Reject" => new.status = "REJECTED"
    /\ op = "Complete" => new.status = "COMPLETED"
    /\ op = "NoShow" => new.status = "NO_SHOW"
    /\ op \in Cancelling => new.status = "CANCELLED" /\ new.cancelledAt
    /\ op \in {"RequestCancellation", "RejectCancellation"} => new.status = old.status

\* One request executes its update.
Writes(r, b, new) ==
    /\ "row" \in req[r].todo
    /\ b = req[r].booking
    /\ Stored(req[r].op, row[b], new)
    /\ \A c \in Bookings : row'[c] = IF c = b THEN new ELSE row[c]
    /\ req'[r] = [req[r] EXCEPT !.todo = @ \ {"row"}]
    /\ \A q \in Slots \ {r} : req'[q] = req[q]
    /\ UNCHANGED <<service, bookable, bookingCount, deaths>>

\* A step of a booking's handler that writes is the update of its own row.
LEMMA WriteEffect ==
    ASSUME TypeOK, NEW r \in Slots, WriteStep(r)
    PROVE  /\ req[r] \in BookingRequest
           /\ \E b \in Bookings, new \in Row : Writes(r, b, new)
<1>1. req[r].op \in BookingOp
    BY DEF WriteStep, Write, WriteCreated, WriteConfirmed, WriteRejected,
           WriteCompleted, WriteNoShow, WriteCancelled, WriteCancellationRequested,
           WriteCancellationApproved, WriteCancellationRejected, BookingOp
<1>2. /\ req[r] \in BookingRequest
      /\ req[r].booking \in Bookings
      /\ Target(r) \in Row
      /\ row \in [Bookings -> Row]
      /\ req \in [Slots -> BookingRequest \cup ServiceRequest \cup {Idle}]
    BY <1>1, RequestKinds DEF TypeOK, BookingRequest, Target
<1>3. ASSUME NEW ops \in SUBSET BookingOp, NEW new \in Row, Write(r, ops, new),
             Stored(req[r].op, Target(r), new)
      PROVE  Writes(r, req[r].booking, new)
    BY <1>2, <1>3 DEF Write, Writes, Target
<1>4. ASSUME NEW ops \in SUBSET BookingOp, NEW new, Write(r, ops, new),
             new \in Row, req[r].op \in ops => Stored(req[r].op, Target(r), new)
      PROVE  \E b \in Bookings, x \in Row : Writes(r, b, x)
    BY <1>2, <1>3, <1>4 DEF Write
<1>. USE <1>2 DEF Stored, Cancelling, Row, Status, RequestStatus
<1>5. CASE WriteCreated(r)
    <2>. DEFINE new == [AbsentRow EXCEPT !.status = "PENDING"]
    <2>1. /\ new \in Row
          /\ Write(r, {"Create"}, new)
          /\ req[r].op \in {"Create"} => Stored(req[r].op, Target(r), new)
        BY <1>5 DEF WriteCreated, AbsentRow
    <2>. HIDE DEF new
    <2>2. QED
        BY <1>4, <2>1 DEF BookingOp
<1>6. CASE WriteConfirmed(r)
    <2>. DEFINE new == [Target(r) EXCEPT !.status = "CONFIRMED", !.confirmedAt = TRUE]
    <2>1. /\ new \in Row
          /\ Write(r, {"Confirm"}, new)
          /\ req[r].op \in {"Confirm"} => Stored(req[r].op, Target(r), new)
        BY <1>6 DEF WriteConfirmed
    <2>. HIDE DEF new
    <2>2. QED
        BY <1>4, <2>1 DEF BookingOp
<1>7. CASE WriteRejected(r)
    <2>. DEFINE new == [Target(r) EXCEPT !.status = "REJECTED", !.cancelledAt = TRUE]
    <2>1. /\ new \in Row
          /\ Write(r, {"Reject"}, new)
          /\ req[r].op \in {"Reject"} => Stored(req[r].op, Target(r), new)
        BY <1>7 DEF WriteRejected
    <2>. HIDE DEF new
    <2>2. QED
        BY <1>4, <2>1 DEF BookingOp
<1>8. CASE WriteCompleted(r)
    <2>. DEFINE new == [Target(r) EXCEPT !.status = "COMPLETED"]
    <2>1. /\ new \in Row
          /\ Write(r, {"Complete"}, new)
          /\ req[r].op \in {"Complete"} => Stored(req[r].op, Target(r), new)
        BY <1>8 DEF WriteCompleted
    <2>. HIDE DEF new
    <2>2. QED
        BY <1>4, <2>1 DEF BookingOp
<1>9. CASE WriteNoShow(r)
    <2>. DEFINE new == [Target(r) EXCEPT !.status = "NO_SHOW"]
    <2>1. /\ new \in Row
          /\ Write(r, {"NoShow"}, new)
          /\ req[r].op \in {"NoShow"} => Stored(req[r].op, Target(r), new)
        BY <1>9 DEF WriteNoShow
    <2>. HIDE DEF new
    <2>2. QED
        BY <1>4, <2>1 DEF BookingOp
<1>10. CASE WriteCancelled(r)
    <2>. DEFINE new == [Target(r) EXCEPT !.status = "CANCELLED", !.cancelledAt = TRUE]
    <2>1. /\ new \in Row
          /\ Write(r, {"CancelByClient", "CancelByPro"}, new)
          /\ req[r].op \in {"CancelByClient", "CancelByPro"}
                => Stored(req[r].op, Target(r), new)
        BY <1>10 DEF WriteCancelled
    <2>. HIDE DEF new
    <2>2. QED
        BY <1>4, <2>1 DEF BookingOp
<1>11. CASE WriteCancellationRequested(r)
    <2>. DEFINE new == [Target(r) EXCEPT !.request = "PENDING", !.requestedAt = TRUE,
                                         !.reviewedAt = FALSE]
    <2>1. /\ new \in Row
          /\ Write(r, {"RequestCancellation"}, new)
          /\ req[r].op \in {"RequestCancellation"} => Stored(req[r].op, Target(r), new)
        BY <1>11 DEF WriteCancellationRequested
    <2>. HIDE DEF new
    <2>2. QED
        BY <1>4, <2>1 DEF BookingOp
<1>12. CASE WriteCancellationApproved(r)
    <2>. DEFINE new == [Target(r) EXCEPT !.status = "CANCELLED", !.cancelledAt = TRUE,
                                         !.request = "APPROVED", !.reviewedAt = TRUE]
    <2>1. /\ new \in Row
          /\ Write(r, {"ApproveCancellation"}, new)
          /\ req[r].op \in {"ApproveCancellation"} => Stored(req[r].op, Target(r), new)
        BY <1>12 DEF WriteCancellationApproved
    <2>. HIDE DEF new
    <2>2. QED
        BY <1>4, <2>1 DEF BookingOp
<1>13. CASE WriteCancellationRejected(r)
    <2>. DEFINE new == [Target(r) EXCEPT !.request = "NONE", !.reviewedAt = TRUE]
    <2>1. /\ new \in Row
          /\ Write(r, {"RejectCancellation"}, new)
          /\ req[r].op \in {"RejectCancellation"} => Stored(req[r].op, Target(r), new)
        BY <1>13 DEF WriteCancellationRejected
    <2>. HIDE DEF new
    <2>2. QED
        BY <1>4, <2>1 DEF BookingOp
<1>14. QED
    BY <1>5, <1>6, <1>7, <1>8, <1>9, <1>10, <1>11, <1>12, <1>13 DEF WriteStep

\* A bulk cancellation cancels the open bookings of its service, and only them.
LEMMA BulkEffect ==
    ASSUME TypeOK, NEW r \in Slots, CancelOpenBookings(r)
    PROVE  /\ req[r] \in ServiceRequest
           /\ req[r].op = "Deactivate"
           /\ req'[r].op = "Deactivate"
           /\ req'[r].step = "refresh"
           /\ \A q \in Slots \ {r} : req'[q] = req[q]
           /\ \A b \in Bookings :
                /\ row'[b].confirmedAt = row[b].confirmedAt
                /\ row[b].cancelledAt => row'[b].cancelledAt
                /\ row'[b].status = IF ServiceOf[b] = req[r].service /\ row[b].status \in Open
                                    THEN "CANCELLED" ELSE row[b].status
                /\ row[b].status \notin Open => row'[b] = row[b]
           /\ UNCHANGED <<service, bookable, bookingCount, deaths>>
<1>1. /\ row \in [Bookings -> Row]
      /\ req \in [Slots -> BookingRequest \cup ServiceRequest \cup {Idle}]
    BY DEF TypeOK
<1>2. /\ req[r] \in ServiceRequest
      /\ req[r].op = "Deactivate"
    BY RequestKinds DEF CancelOpenBookings, CancelBookingsIn
<1>3. /\ req' = [req EXCEPT ![r].step = "refresh"]
      /\ row' = [b \in Bookings |->
                    IF ServiceOf[b] = req[r].service /\ row[b].status \in Open
                    THEN [row[b] EXCEPT !.status = "CANCELLED", !.cancelledAt = TRUE]
                    ELSE row[b]]
      /\ UNCHANGED <<service, bookable, bookingCount, deaths>>
    BY DEF CancelOpenBookings, CancelBookingsIn
<1>4. /\ req'[r].op = "Deactivate"
      /\ req'[r].step = "refresh"
      /\ \A q \in Slots \ {r} : req'[q] = req[q]
    BY <1>1, <1>2, <1>3 DEF ServiceRequest
<1>5. ASSUME NEW b \in Bookings
      PROVE  /\ row'[b].confirmedAt = row[b].confirmedAt
             /\ row[b].cancelledAt => row'[b].cancelledAt
             /\ row'[b].status = IF ServiceOf[b] = req[r].service /\ row[b].status \in Open
                                 THEN "CANCELLED" ELSE row[b].status
             /\ row[b].status \notin Open => row'[b] = row[b]
    BY <1>1, <1>3 DEF Row
<1>6. QED
    BY <1>2, <1>3, <1>4, <1>5

\* A request begins with nothing done, and with a row that satisfies its guards.
Begins(r, op, b) ==
    /\ req[r] = Idle
    /\ HeldAtRead(op, row[b])
    /\ op = "Create" => service[ServiceOf[b]] = "ACTIVE"
    /\ req'[r] = [op |-> op, booking |-> b, seen |-> row[b],
                  todo |-> IF op = "Confirm" THEN {"row", "count"} ELSE {"row"}]
    /\ \A q \in Slots \ {r} : req'[q] = req[q]
    /\ UNCHANGED <<row, service, bookable, bookingCount, deaths>>

\* A step of a booking's handler that reads takes in such a request.
LEMMA ReadEffect ==
    ASSUME TypeOK, NEW r \in Slots, ReadStep(r)
    PROVE  \E op \in BookingOp, b \in Bookings : Begins(r, op, b)
<1>1. req \in [Slots -> BookingRequest \cup ServiceRequest \cup {Idle}]
    BY DEF TypeOK
<1>2. ASSUME NEW op \in BookingOp, NEW b \in Bookings, NEW todo, Read(r, op, b, todo),
             HeldAtRead(op, row[b]), op = "Create" => service[ServiceOf[b]] = "ACTIVE",
             todo = IF op = "Confirm" THEN {"row", "count"} ELSE {"row"}
      PROVE  Begins(r, op, b)
    BY <1>1, <1>2 DEF Read, Begins
<1>3. PICK b \in Bookings :
        \/ ReadToCreate(r, b)
        \/ ReadToConfirm(r, b)
        \/ ReadToReject(r, b)
        \/ ReadToComplete(r, b)
        \/ ReadToMarkNoShow(r, b)
        \/ ReadToCancel(r, b)
        \/ ReadToRequestCancellation(r, b)
        \/ ReadToApproveCancellation(r, b)
        \/ ReadToRejectCancellation(r, b)
    BY DEF ReadStep
<1>. USE <1>2 DEF HeldAtRead, BookingOp
<1>4. CASE ReadToCreate(r, b)
    BY <1>4 DEF ReadToCreate
<1>5. CASE ReadToConfirm(r, b)
    BY <1>5 DEF ReadToConfirm
<1>6. CASE ReadToReject(r, b)
    BY <1>6 DEF ReadToReject
<1>7. CASE ReadToComplete(r, b)
    BY <1>7 DEF ReadToComplete
<1>8. CASE ReadToMarkNoShow(r, b)
    BY <1>8 DEF ReadToMarkNoShow
<1>9. CASE ReadToCancel(r, b)
    BY <1>9 DEF ReadToCancel
<1>10. CASE ReadToRequestCancellation(r, b)
    BY <1>10 DEF ReadToRequestCancellation
<1>11. CASE ReadToApproveCancellation(r, b)
    BY <1>11 DEF ReadToApproveCancellation
<1>12. CASE ReadToRejectCancellation(r, b)
    BY <1>12 DEF ReadToRejectCancellation
<1>13. QED
    BY <1>3, <1>4, <1>5, <1>6, <1>7, <1>8, <1>9, <1>10, <1>11, <1>12

\* A confirmation pays for its date.
Counts(r) ==
    /\ req[r] \in BookingRequest
    /\ req[r].op = "Confirm"
    /\ "count" \in req[r].todo
    /\ req'[r] = [req[r] EXCEPT !.todo = @ \ {"count"}]
    /\ \A q \in Slots \ {r} : req'[q] = req[q]
    /\ bookingCount' = bookingCount + 1
    /\ UNCHANGED <<row, service, bookable, deaths>>

\* A request is over, or dead.
Forgets(r) ==
    /\ req'[r] = Idle
    /\ \A q \in Slots \ {r} : req'[q] = req[q]
    /\ UNCHANGED <<row, service, bookable, bookingCount>>

\* A step of a service's handler other than the bulk cancellation.
Serves(r) ==
    /\ \/ \E op \in ServiceOps, s \in Services : Load(r, op, s)
       \/ Save(r)
       \/ RefreshEligibility(r)
    /\ req[r].op \notin BookingOp
    /\ req'[r].op \notin BookingOp
    /\ \A q \in Slots \ {r} : req'[q] = req[q]
    /\ UNCHANGED <<row, bookingCount, deaths>>

\* A step of a service's handler is one of these or the bulk cancellation.
LEMMA ServiceEffect ==
    ASSUME TypeOK, NEW r \in Slots, ServiceStep(r)
    PROVE  Serves(r) \/ CancelOpenBookings(r)
<1>1. req \in [Slots -> BookingRequest \cup ServiceRequest \cup {Idle}]
    BY DEF TypeOK
<1>2. ASSUME NEW op \in ServiceOps, NEW s \in Services, Load(r, op, s)
      PROVE  Serves(r)
    <2>1. /\ req[r].op \notin BookingOp
          /\ req'[r].op \notin BookingOp
          /\ \A q \in Slots \ {r} : req'[q] = req[q]
          /\ UNCHANGED <<row, bookingCount, deaths>>
        BY <1>1, <1>2, ServiceOpsAssumption DEF Load, Idle, BookingOp
    <2>2. QED
        BY <1>2, <2>1 DEF Serves
<1>3. CASE Save(r)
    <2>1. req[r] \in ServiceRequest
        BY <1>3, RequestKinds DEF Save
    <2>2. AfterSave(req[r]).op \notin BookingOp
        BY <2>1, ServiceOpsAssumption DEF AfterSave, ServiceRequest, BookingOp, Idle
    <2>3. QED
        BY <1>1, <1>3, <2>1, <2>2, ServiceOpsAssumption DEF Save, Serves, BookingOp
<1>4. CASE RefreshEligibility(r)
    BY <1>1, <1>4, ServiceOpsAssumption DEF RefreshEligibility, Serves, Idle, BookingOp
<1>5. QED
    BY <1>2, <1>3, <1>4 DEF ServiceStep

\* The kinds of steps there are.
StepKind ==
    \/ \E r \in Slots, op \in BookingOp, b \in Bookings : Begins(r, op, b)
    \/ \E r \in Slots, b \in Bookings, new \in Row :
            req[r] \in BookingRequest /\ Writes(r, b, new)
    \/ \E r \in Slots : Counts(r) \/ Serves(r) \/ CancelOpenBookings(r)
    \/ \E r \in Slots : req[r] \in BookingRequest /\ req[r].todo = {} /\ Forgets(r)
                        /\ deaths' = deaths
    \/ \E r \in Slots : Forgets(r) /\ deaths' = deaths + 1
    \/ UNCHANGED <<row, service, bookingCount, req, deaths>>

\* Every step is of one of these kinds.
LEMMA EveryStepKind ==
    ASSUME TypeOK, [Next]_vars
    PROVE  StepKind
<1>1. req \in [Slots -> BookingRequest \cup ServiceRequest \cup {Idle}]
    BY DEF TypeOK
<1>2. ASSUME NEW r \in Slots, ReadStep(r) PROVE StepKind
    BY <1>2, ReadEffect DEF StepKind
<1>3. ASSUME NEW r \in Slots, WriteStep(r) PROVE StepKind
    BY <1>3, WriteEffect DEF StepKind
<1>4. ASSUME NEW r \in Slots, CountConfirmed(r) PROVE StepKind
    <2>1. req[r] \in BookingRequest
        BY <1>4, RequestKinds DEF CountConfirmed, BookingOp
    <2>2. Counts(r)
        BY <1>1, <1>4, <2>1 DEF CountConfirmed, Counts
    <2>3. QED
        BY <2>2 DEF StepKind
<1>5. ASSUME NEW r \in Slots, ServiceStep(r) PROVE StepKind
    BY <1>5, ServiceEffect DEF StepKind
<1>6. ASSUME NEW r \in Slots, Publish(r) PROVE StepKind
    BY <1>1, <1>6, RequestKinds DEF Publish, Forgets, StepKind
<1>7. ASSUME NEW r \in Slots, Die(r) PROVE StepKind
    BY <1>1, <1>7 DEF Die, Forgets, StepKind
<1>8. ASSUME ChangeGate \/ UNCHANGED vars PROVE StepKind
    BY <1>8 DEF ChangeGate, vars, StepKind
<1>9. QED
    BY <1>2, <1>3, <1>4, <1>5, <1>6, <1>7, <1>8 DEF Next, SilentStep

-----------------------------------------------------------------------------
(***************************************************************************)
(* Dates stay: no step takes the date of its confirmation, or of its       *)
(* cancellation, from a booking.  The only update that clears columns is   *)
(* the insertion of a row, and what is not there yet has no dates.         *)
(***************************************************************************)

NewRows ==
    \A b \in Bookings :
        /\ row[b].status = "ABSENT" => ~row[b].confirmedAt /\ ~row[b].cancelledAt
        /\ row[b].status = "PENDING" => ~row[b].confirmedAt

\* The request that executes an update finds what it relies on.
LEMMA WritesHolds ==
    ASSUME IInv, NEW r \in Slots, NEW b \in Bookings, NEW new \in Row,
           req[r] \in BookingRequest, Writes(r, b, new)
    PROVE  /\ req[r].op = "Create" => row[b].status = "ABSENT"
           /\ req[r].op # "Create" => row[b].status # "ABSENT"
           /\ HeldAtRead(req[r].op, req[r].seen)
           /\ req[r].op \in BookingOp
BY DEF IInv, InFlight, HoldsAtWrite, Target, Writes, BookingRequest

\* No step takes a date from a booking, and a new row has none.
LEMMA RowsStep ==
    ASSUME IInv, NewRows, [Next]_vars
    PROVE  /\ NewRows'
           /\ \A b \in Bookings : /\ row[b].confirmedAt => row'[b].confirmedAt
                                  /\ row[b].cancelledAt => row'[b].cancelledAt
<1>1. TypeOK /\ StepKind
    BY EveryStepKind DEF IInv
<1>2. ASSUME NEW r \in Slots, NEW b \in Bookings, NEW new \in Row,
             req[r] \in BookingRequest, Writes(r, b, new)
      PROVE  /\ NewRows'
             /\ \A c \in Bookings : /\ row[c].confirmedAt => row'[c].confirmedAt
                                    /\ row[c].cancelledAt => row'[c].cancelledAt
    <2>1. /\ req[r].op = "Create" => row[b].status = "ABSENT"
          /\ req[r].op # "Create" => row[b].status # "ABSENT"
          /\ req[r].op \in BookingOp
        BY <1>2, WritesHolds
    <2>2. /\ Stored(req[r].op, row[b], new)
          /\ \A c \in Bookings : row'[c] = IF c = b THEN new ELSE row[c]
        BY <1>2 DEF Writes
    <2>3. /\ row[b].confirmedAt => new.confirmedAt
          /\ row[b].cancelledAt => new.cancelledAt
        BY <2>1, <2>2 DEF Stored, NewRows, BookingOp
    <2>4. /\ new.status # "ABSENT"
          /\ new.status = "PENDING" => ~new.confirmedAt
        BY <2>1, <2>2 DEF Stored, NewRows, BookingOp, Cancelling
    <2>5. NewRows'
        BY <2>2, <2>4 DEF NewRows
    <2>6. QED
        BY <2>2, <2>3, <2>5
<1>3. ASSUME NEW r \in Slots, CancelOpenBookings(r)
      PROVE  /\ NewRows'
             /\ \A c \in Bookings : /\ row[c].confirmedAt => row'[c].confirmedAt
                                    /\ row[c].cancelledAt => row'[c].cancelledAt
    <2>1. \A b \in Bookings :
            /\ row'[b].confirmedAt = row[b].confirmedAt
            /\ row[b].cancelledAt => row'[b].cancelledAt
            /\ row'[b].status \in {row[b].status, "CANCELLED"}
            /\ row[b].status = "ABSENT" => row'[b] = row[b]
        BY <1>1, <1>3, BulkEffect DEF Open
    <2>2. QED
        BY <2>1 DEF NewRows
<1>4. ASSUME row' = row
      PROVE  /\ NewRows'
             /\ \A c \in Bookings : /\ row[c].confirmedAt => row'[c].confirmedAt
                                    /\ row[c].cancelledAt => row'[c].cancelledAt
    BY <1>4 DEF NewRows
<1>5. QED
    BY <1>1, <1>2, <1>3, <1>4 DEF StepKind, Begins, Counts, Serves, Forgets

\* A row that is not there has no dates.
LEMMA InitRows == Init => NewRows
BY DEF Init, NewRows, AbsentRow

-----------------------------------------------------------------------------
(***************************************************************************)
(* The counter.  CountCoversConfirmed is not inductive: the update of a    *)
(* confirmation may be executed before or after its increment, so a        *)
(* booking counts as dated from the moment the request is taken in.        *)
(***************************************************************************)

\* The bookings that carry a confirmation date; the increments on their way.
Dated == {b \in Bookings : row[b].confirmedAt}

Counting == {r \in Slots : req[r].op = "Confirm" /\ "count" \in req[r].todo}

Confirming(b) == \E r \in Slots : /\ req[r].op = "Confirm"
                                  /\ req[r].booking = b
                                  /\ "row" \in req[r].todo

Promised == {b \in Bookings : row[b].confirmedAt \/ Confirming(b)}

Paid ==
    deaths = 0 =>
        /\ IsFiniteSet(Promised)
        /\ IsFiniteSet(Counting)
        /\ Cardinality(Promised) <= bookingCount + Cardinality(Counting)

\* Nothing new is promised, and what is being counted is the same.
LEMMA PaidStays ==
    ASSUME TypeOK, Paid, deaths' = deaths, bookingCount' = bookingCount,
           Promised' \subseteq Promised, Counting' = Counting
    PROVE  Paid'
<1>1. CASE deaths = 0
    <2>1. /\ IsFiniteSet(Promised')
          /\ Cardinality(Promised') <= Cardinality(Promised)
          /\ Cardinality(Promised') \in Nat
          /\ Cardinality(Promised) \in Nat
          /\ Cardinality(Counting) \in Nat
        BY <1>1, FS_Subset, FS_CardinalityType DEF Paid
    <2>2. QED
        BY <1>1, <2>1 DEF Paid, TypeOK
<1>2. QED
    BY <1>1 DEF Paid

\* Every step keeps the promise: a date, or a request that will set it, is paid for
\* by an increment done or on its way.
LEMMA PaidStep ==
    ASSUME IInv, Paid, [Next]_vars
    PROVE  Paid'
<1>1. TypeOK /\ StepKind
    BY EveryStepKind DEF IInv
<1>2. bookingCount \in Nat /\ deaths \in Nat
    BY <1>1 DEF TypeOK
<1>3. ASSUME NEW r \in Slots, NEW op \in BookingOp, NEW b \in Bookings, Begins(r, op, b)
      PROVE  Paid'
    <2>1. CASE op # "Confirm"
        <3>1. Promised' \subseteq Promised /\ Counting' = Counting
            BY <1>3, <2>1 DEF Begins, Promised, Counting, Confirming, Idle
        <3>2. QED
            BY <1>1, <1>3, <3>1, PaidStays DEF Begins
    <2>2. CASE op = "Confirm" /\ deaths = 0
        <3>1. /\ Promised' = Promised \cup {b}
              /\ Counting' = Counting \cup {r}
              /\ r \notin Counting
            BY <1>3, <2>2 DEF Begins, Promised, Counting, Confirming, Idle
        <3>2. /\ IsFiniteSet(Promised') /\ IsFiniteSet(Counting')
              /\ Cardinality(Counting') = Cardinality(Counting) + 1
              /\ \/ Cardinality(Promised') = Cardinality(Promised)
                 \/ Cardinality(Promised') = Cardinality(Promised) + 1
              /\ Cardinality(Promised) \in Nat /\ Cardinality(Counting) \in Nat
            BY <2>2, <3>1, FS_AddElement, FS_CardinalityType DEF Paid
        <3>3. QED
            BY <1>2, <1>3, <2>2, <3>2 DEF Paid, Begins
    <2>3. QED
        BY <1>3, <2>1, <2>2 DEF Begins, Paid
<1>4. ASSUME NEW r \in Slots, NEW b \in Bookings, NEW new \in Row,
             req[r] \in BookingRequest, Writes(r, b, new)
      PROVE  Paid'
    <2>1. /\ req'[r].op = req[r].op
          /\ req'[r].booking = b
          /\ req[r].booking = b
          /\ "count" \in req'[r].todo <=> "count" \in req[r].todo
          /\ "row" \notin req'[r].todo /\ "row" \in req[r].todo
        BY <1>4 DEF Writes, BookingRequest
    <2>2. new.confirmedAt => row[b].confirmedAt \/ Confirming(b)
        BY <1>4, <2>1 DEF Writes, Stored, Confirming
    <2>3. Counting' = Counting
        <3>1. \A q \in Slots : q \in Counting' <=> q \in Counting
            BY <1>4, <2>1 DEF Writes, Counting
        <3>2. QED
            BY <3>1 DEF Counting
    <2>4. \A c \in Bookings : Confirming(c)' => Confirming(c)
        BY <1>4, <2>1 DEF Writes, Confirming
    <2>5. Promised' \subseteq Promised
        BY <1>4, <2>2, <2>4 DEF Writes, Promised
    <2>6. QED
        BY <1>1, <1>4, <2>3, <2>5, PaidStays DEF Writes
<1>5. ASSUME NEW r \in Slots, Counts(r) PROVE Paid'
    <2>1. /\ req'[r].op = req[r].op
          /\ req'[r].booking = req[r].booking
          /\ "count" \notin req'[r].todo
          /\ "row" \in req'[r].todo <=> "row" \in req[r].todo
        BY <1>5 DEF Counts, BookingRequest
    <2>2. /\ Counting' = Counting \ {r}
          /\ r \in Counting
        BY <1>5, <2>1 DEF Counts, Counting
    <2>3. Promised' = Promised
        <3>1. \A c \in Bookings : Confirming(c)' <=> Confirming(c)
            BY <1>5, <2>1 DEF Counts, Confirming
        <3>2. QED
            BY <1>5, <3>1 DEF Counts, Promised
    <2>4. deaths = 0 =>
            /\ IsFiniteSet(Counting')
            /\ Cardinality(Counting') = Cardinality(Counting) - 1
            /\ Cardinality(Promised) \in Nat /\ Cardinality(Counting) \in Nat
        BY <2>2, FS_RemoveElement, FS_CardinalityType DEF Paid
    <2>5. QED
        BY <1>2, <1>5, <2>3, <2>4 DEF Paid, Counts
<1>6. ASSUME NEW r \in Slots, Serves(r) PROVE Paid'
    <2>1. Promised' \subseteq Promised /\ Counting' = Counting
        BY <1>6 DEF Serves, Promised, Counting, Confirming, BookingOp
    <2>2. QED
        BY <1>1, <1>6, <2>1, PaidStays DEF Serves
<1>7. ASSUME NEW r \in Slots, CancelOpenBookings(r) PROVE Paid'
    <2>1. /\ req[r].op # "Confirm" /\ req'[r].op # "Confirm"
          /\ \A q \in Slots \ {r} : req'[q] = req[q]
          /\ \A b \in Bookings : row'[b].confirmedAt = row[b].confirmedAt
          /\ UNCHANGED <<bookingCount, deaths>>
        BY <1>1, <1>7, BulkEffect
    <2>2. Promised' \subseteq Promised /\ Counting' = Counting
        BY <2>1 DEF Promised, Counting, Confirming
    <2>3. QED
        BY <1>1, <2>1, <2>2, PaidStays
<1>8. ASSUME NEW r \in Slots, req[r] \in BookingRequest, req[r].todo = {},
             Forgets(r), deaths' = deaths
      PROVE  Paid'
    <2>1. Promised' \subseteq Promised /\ Counting' = Counting
        BY <1>8 DEF Forgets, Promised, Counting, Confirming, Idle
    <2>2. QED
        BY <1>1, <1>8, <2>1, PaidStays DEF Forgets
<1>9. CASE deaths' = deaths + 1
    BY <1>2, <1>9 DEF Paid
<1>10. CASE UNCHANGED <<row, service, bookingCount, req, deaths>>
    <2>1. Promised' = Promised /\ Counting' = Counting
        BY <1>10 DEF Promised, Counting, Confirming
    <2>2. QED
        BY <1>10, <2>1 DEF Paid
<1>11. QED
    BY <1>1, <1>3, <1>4, <1>5, <1>6, <1>7, <1>8, <1>9, <1>10 DEF StepKind

\* Nothing is promised at first.
LEMMA InitPaid == Init => Paid
<1>1. ASSUME Init PROVE Promised = {} /\ Counting = {}
    BY <1>1 DEF Init, Promised, Counting, Confirming, AbsentRow, Idle
<1>2. QED
    BY <1>1, FS_EmptySet DEF Init, Paid

\* What is promised covers what is dated.
LEMMA PaidCovers == TypeOK /\ Paid => CountCoversConfirmed
<1>1. SUFFICES ASSUME TypeOK, Paid, deaths = 0
               PROVE  Cardinality(Dated) <= bookingCount + Cardinality(Counting)
    BY DEF CountCoversConfirmed, Dated, Counting
<1>2. Dated \subseteq Promised
    BY DEF Dated, Promised
<1>3. /\ Cardinality(Dated) <= Cardinality(Promised)
      /\ Cardinality(Dated) \in Nat
      /\ Cardinality(Promised) \in Nat
      /\ Cardinality(Counting) \in Nat
    BY <1>1, <1>2, FS_Subset, FS_CardinalityType DEF Paid
<1>4. QED
    BY <1>1, <1>3 DEF Paid, TypeOK

\* For any number of concurrent confirmations: while no request dies, every
\* confirmation date is paid for in bookingCount, by an increment done or still on
\* its way, though two confirmations may date one booking (ConfirmBookingHandler
\* sends its update and its increment together, in either order).
THEOREM AlwaysCountCovers == Spec => []CountCoversConfirmed
<1>1. IInv /\ Paid => CountCoversConfirmed
    BY PaidCovers DEF IInv
<1>2. QED
    BY <1>1, InitStory, StepStory, InitPaid, PaidStep, PTL DEF Spec

-----------------------------------------------------------------------------
(***************************************************************************)
(* One request at a time.  With a single slot nothing changes between the  *)
(* read of a handler and its write, so no write is stale, and what the     *)
(* handlers do beside the row is done exactly once.                        *)
(***************************************************************************)

\* What the request in flight read is what it finds when it writes.
Undisturbed(r) ==
    /\ req[r].op \in BookingOp /\ "row" \in req[r].todo => req[r].seen = Target(r)
    /\ req[r].op \in ServiceOps /\ req[r].step = "save" => req[r].seen = service
    /\ req[r].op = "Create" /\ "row" \in req[r].todo
        => service[ServiceOf[req[r].booking]] = "ACTIVE"

\* Service operations are not booking operations.
LEMMA TwoKindsOfOps == BookingOp \cap ServiceOps = {}
BY ServiceOpsAssumption DEF BookingOp

\* Nothing is in flight at first.
LEMMA InitUndisturbed ==
    ASSUME NEW only \in Slots
    PROVE  Init => Undisturbed(only)
BY ServiceOpsAssumption DEF Init, Undisturbed, Idle, BookingOp

\* With a single slot, nobody else changes what the request in flight has read.
LEMMA UndisturbedStep ==
    ASSUME NEW only, Slots = {only}, TypeOK, Undisturbed(only), [Next]_vars
    PROVE  Undisturbed(only)'
<1>1. StepKind
    BY EveryStepKind
<1>2. ASSUME NEW op \in BookingOp, NEW b \in Bookings, Begins(only, op, b)
      PROVE  Undisturbed(only)'
    <2>1. /\ req'[only].op = op
          /\ req'[only].booking = b
          /\ req'[only].seen = row[b]
          /\ row' = row /\ service' = service
          /\ op = "Create" => service[ServiceOf[b]] = "ACTIVE"
        BY <1>2 DEF Begins
    <2>2. QED
        BY <1>2, <2>1, TwoKindsOfOps DEF Undisturbed, Target
<1>3. ASSUME NEW b \in Bookings, NEW new \in Row, req[only] \in BookingRequest,
             Writes(only, b, new)
      PROVE  Undisturbed(only)'
    <2>1. /\ req'[only].op = req[only].op
          /\ "row" \notin req'[only].todo
          /\ req[only].op \in BookingOp
        BY <1>3 DEF Writes, BookingRequest
    <2>2. QED
        BY <2>1, TwoKindsOfOps DEF Undisturbed
<1>4. CASE Counts(only)
    <2>1. /\ req'[only].op = req[only].op
          /\ req'[only].booking = req[only].booking
          /\ req'[only].seen = req[only].seen
          /\ "row" \in req'[only].todo <=> "row" \in req[only].todo
          /\ req[only].op \in BookingOp
          /\ row' = row /\ service' = service
        BY <1>4 DEF Counts, BookingRequest
    <2>2. QED
        BY <2>1, TwoKindsOfOps DEF Undisturbed, Target
<1>5. CASE Serves(only)
    <2>1. req'[only].op \notin BookingOp
        BY <1>5 DEF Serves
    <2>2. ASSUME req'[only].op \in ServiceOps, req'[only].step = "save"
          PROVE  req'[only].seen = service'
        <3>1. req \in [Slots -> BookingRequest \cup ServiceRequest \cup {Idle}]
            BY DEF TypeOK
        <3>2. ASSUME NEW op \in ServiceOps, NEW s \in Services, Load(only, op, s)
              PROVE  req'[only].seen = service'
            BY <3>1, <3>2 DEF Load
        <3>3. ASSUME Save(only) PROVE FALSE
            <4>1. req[only] \in ServiceRequest
                BY <3>3, RequestKinds DEF Save
            <4>2. req'[only] = AfterSave(req[only])
                BY <3>1, <3>3 DEF Save
            <4>3. req'[only] # Idle
                BY <2>2, ServiceOpsAssumption DEF Idle
            <4>4. req'[only].step # "save"
                BY <4>1, <4>2, <4>3 DEF AfterSave, ServiceRequest
            <4>5. QED
                BY <2>2, <4>4
        <3>4. ASSUME RefreshEligibility(only) PROVE FALSE
            BY <2>2, <3>1, <3>4, ServiceOpsAssumption DEF RefreshEligibility, Idle
        <3>5. QED
            BY <1>5, <3>2, <3>3, <3>4 DEF Serves
    <2>3. QED
        BY <2>1, <2>2 DEF Undisturbed, BookingOp
<1>6. CASE CancelOpenBookings(only)
    BY <1>6, BulkEffect DEF Undisturbed, BookingOp
<1>7. CASE Forgets(only)
    BY <1>7, ServiceOpsAssumption DEF Forgets, Undisturbed, Idle, BookingOp
<1>8. CASE UNCHANGED <<row, service, bookingCount, req, deaths>>
    BY <1>8 DEF Undisturbed, Target
<1>9. QED
    BY <1>1, <1>2, <1>3, <1>4, <1>5, <1>6, <1>7, <1>8 DEF StepKind

\* One request at a time (a single slot), the handlers of BookingOp and the
\* deactivation of a service implement the promised lifecycle: reading, then
\* writing, is as good as one indivisible step, for any bookings and services
\* and wherever the request dies.
THEOREM OneAtATimeImplements ==
    ASSUME NEW only, Slots = {only}
    PROVE  Spec => SerialLifecycle
<1>1. Init => IInv /\ Undisturbed(only)
    BY InitStory, InitUndisturbed
<1>2. IInv /\ Undisturbed(only) /\ [Next]_vars => IInv' /\ Undisturbed(only)'
    BY StepStory, UndisturbedStep DEF IInv
<1>3. Init => Lifecycle!Init
    BY DEF Init, Lifecycle!Init, AbsentRow
<1>4. IInv /\ Undisturbed(only) /\ [Next]_vars
        => [Lifecycle!Next]_(Lifecycle!lifecycleVars)
    <2>1. ASSUME IInv, Undisturbed(only), NEW r \in Slots, StaleWrite(r)
          PROVE  FALSE
        <3>1. "row" \in req[r].todo /\ r = only
            BY <2>1, WriteEffect DEF IInv, StaleWrite, Writes
        <3>2. QED
            BY <2>1, <3>1 DEF StaleWrite, Undisturbed
    <2>2. QED
        BY <2>1, StepLifecycle
<1>5. QED
    BY <1>1, <1>2, <1>3, <1>4, PTL DEF Spec, SerialLifecycle, Lifecycle!Spec

-----------------------------------------------------------------------------
(***************************************************************************)
(* What the lifecycle is worth to whoever relies on it.                    *)
(***************************************************************************)

\* Any number of requests implements the lifecycle as long as none writes a row
\* that changed since it read it: an update that tested what was read would be
\* repair enough, no lock and no transaction around a handler is needed.
THEOREM FreshWritesImplement ==
    Spec /\ [][\A r \in Slots : ~StaleWrite(r)]_vars => SerialLifecycle
<1>1. Init => IInv /\ Lifecycle!Init
    BY InitStory DEF Init, Lifecycle!Init, AbsentRow
<1>2. IInv /\ [Next]_vars => IInv'
    BY StepStory
<1>3. IInv /\ [Next]_vars /\ [\A r \in Slots : ~StaleWrite(r)]_vars
        => [Lifecycle!Next]_(Lifecycle!lifecycleVars)
    BY StepLifecycle, SameRows DEF vars
<1>4. QED
    BY <1>1, <1>2, <1>3, PTL DEF Spec, SerialLifecycle, Lifecycle!Spec

Outcome == {"REJECTED", "CANCELLED", "COMPLETED", "NO_SHOW"}

\* A step of the lifecycle leaves a booking that has an outcome as it is, and
\* approves the request of a booking only by cancelling it.
LEMMA LifecycleOutcomes ==
    ASSUME [Lifecycle!Next]_(Lifecycle!lifecycleVars), NEW b \in Bookings
    PROVE  /\ row[b].status \in Outcome => row'[b].status = row[b].status
           /\ (row[b].request = "APPROVED" => row[b].status = "CANCELLED")
                => (row'[b].request = "APPROVED" => row'[b].status = "CANCELLED")
<1>. DEFINE status == [c \in Bookings |-> row[c].status]
            request == [c \in Bookings |-> row[c].request]
<1>1. /\ status[b] = row[b].status /\ status'[b] = row'[b].status
      /\ request[b] = row[b].request /\ request'[b] = row'[b].request
    OBVIOUS
<1>2. CASE UNCHANGED <<status, request>>
    <2>. HIDE DEF status, request
    <2>1. QED
        BY <1>1, <1>2
<1>3. ASSUME NEW c \in Bookings, Lifecycle!BookingStep(c)
      PROVE  /\ status[b] \in Outcome => status'[b] = status[b]
             /\ (request[b] = "APPROVED" => status[b] = "CANCELLED")
                  => (request'[b] = "APPROVED" => status'[b] = "CANCELLED")
    BY <1>3
       DEF Lifecycle!BookingStep, Lifecycle!Create, Lifecycle!Confirm, Lifecycle!Reject,
           Lifecycle!Complete, Lifecycle!NoShow, Lifecycle!Cancel, Lifecycle!Move,
           Lifecycle!RequestCancellation, Lifecycle!ApproveCancellation,
           Lifecycle!RejectCancellation, Lifecycle!Review, Lifecycle!Open, Outcome
<1>4. ASSUME NEW s \in Services, Lifecycle!WithdrawService(s)
      PROVE  /\ status[b] \in Outcome => status'[b] = status[b]
             /\ (request[b] = "APPROVED" => status[b] = "CANCELLED")
                  => (request'[b] = "APPROVED" => status'[b] = "CANCELLED")
    BY <1>4 DEF Lifecycle!WithdrawService, Lifecycle!Open, Outcome
<1>5. QED
    BY <1>1, <1>2, <1>3, <1>4 DEF Lifecycle!Next, Lifecycle!lifecycleVars

\* One request at a time, or several that never write over each other: a booking
\* that was rejected, cancelled, completed or missed stays so.
THEOREM OutcomesLast ==
    SerialLifecycle
        => [][\A b \in Bookings : row[b].status \in Outcome
                => row'[b].status = row[b].status]_(Lifecycle!lifecycleVars)
<1>1. [Lifecycle!Next]_(Lifecycle!lifecycleVars)
        => [\A b \in Bookings : row[b].status \in Outcome
                => row'[b].status = row[b].status]_(Lifecycle!lifecycleVars)
    BY LifecycleOutcomes
<1>2. QED
    BY <1>1, PTL DEF SerialLifecycle, Lifecycle!Spec

\* And an approved cancellation request is the request of a cancelled booking.
THEOREM ApprovedIsCancelled ==
    SerialLifecycle
        => [](\A b \in Bookings : row[b].request = "APPROVED" => row[b].status = "CANCELLED")
<1>. DEFINE Inv == \A b \in Bookings :
                row[b].request = "APPROVED" => row[b].status = "CANCELLED"
<1>1. Lifecycle!Init => Inv
    <2>1. ASSUME Lifecycle!Init, NEW b \in Bookings PROVE row[b].request = "NONE"
        <3>1. [c \in Bookings |-> row[c].request][b] = "NONE"
            BY <2>1 DEF Lifecycle!Init
        <3>2. QED
            BY <3>1
    <2>2. QED
        BY <2>1
<1>2. Inv /\ [Lifecycle!Next]_(Lifecycle!lifecycleVars) => Inv'
    BY LifecycleOutcomes
<1>3. QED
    BY <1>1, <1>2, PTL DEF SerialLifecycle, Lifecycle!Spec

-----------------------------------------------------------------------------
(***************************************************************************)
(* What one request at a time does beside its row.                         *)
(***************************************************************************)

\* The increment, and the date, that a confirmation still owes.
OwedCount(r) == IF req[r].op = "Confirm" /\ "count" \in req[r].todo THEN 1 ELSE 0
OwedDate(r) == IF req[r].op = "Confirm" /\ "row" \in req[r].todo THEN 1 ELSE 0

Counted(r) ==
    deaths = 0 =>
        /\ IsFiniteSet(Dated)
        /\ bookingCount + OwedCount(r) = Cardinality(Dated) + OwedDate(r)

\* Nothing is counted at first, and nothing to count.
LEMMA InitCounted ==
    ASSUME NEW only \in Slots
    PROVE  Init => Counted(only)
<1>1. ASSUME Init PROVE Dated = {} /\ OwedCount(only) = 0 /\ OwedDate(only) = 0
    BY <1>1 DEF Init, Dated, OwedCount, OwedDate, AbsentRow, Idle
<1>2. QED
    BY <1>1, FS_EmptySet DEF Init, Counted

\* A step sets a date together with the debt of its increment, or pays it.
LEMMA CountedStep ==
    ASSUME NEW only, Slots = {only}, IInv, NewRows, Undisturbed(only), Counted(only),
           [Next]_vars
    PROVE  Counted(only)'
<1>1. TypeOK /\ StepKind
    BY EveryStepKind DEF IInv
<1>2. bookingCount \in Nat /\ deaths \in Nat
    BY <1>1 DEF TypeOK
<1>3. ASSUME NEW op \in BookingOp, NEW b \in Bookings, Begins(only, op, b)
      PROVE  Counted(only)'
    <2>1. Dated' = Dated /\ OwedCount(only) = 0 /\ OwedDate(only) = 0
        BY <1>3 DEF Begins, Dated, OwedCount, OwedDate, Idle
    <2>2. OwedCount(only)' = OwedDate(only)'
        BY <1>3 DEF Begins, OwedCount, OwedDate
    <2>3. OwedCount(only)' \in {0, 1}
        BY DEF OwedCount
    <2>4. deaths = 0 => Cardinality(Dated) \in Nat
        BY FS_CardinalityType DEF Counted
    <2>5. QED
        BY <1>2, <1>3, <2>1, <2>2, <2>3, <2>4 DEF Counted, Begins
<1>4. ASSUME NEW b \in Bookings, NEW new \in Row, req[only] \in BookingRequest,
             Writes(only, b, new)
      PROVE  Counted(only)'
    <2>1. /\ req'[only].op = req[only].op
          /\ "row" \notin req'[only].todo
          /\ "row" \in req[only].todo
          /\ "count" \in req'[only].todo <=> "count" \in req[only].todo
        BY <1>4 DEF Writes, BookingRequest
    <2>2. /\ req[only].op \in BookingOp
          /\ req[only].op \in {"Create", "Confirm"} => ~row[b].confirmedAt
        <3>1. /\ req[only].op \in BookingOp
              /\ req[only].op = "Create" => row[b].status = "ABSENT"
              /\ HeldAtRead(req[only].op, req[only].seen)
            BY <1>4, WritesHolds
        <3>2. req[only].seen = row[b]
            BY <1>4, <2>1, <3>1 DEF Undisturbed, Target, Writes
        <3>3. QED
            BY <3>1, <3>2 DEF HeldAtRead, NewRows
    <2>3. OwedCount(only)' = OwedCount(only) /\ OwedDate(only)' = 0
        BY <2>1 DEF OwedCount, OwedDate
    <2>4. CASE req[only].op = "Confirm"
        <3>1. Dated' = Dated \cup {b} /\ b \notin Dated
            BY <1>4, <2>2, <2>4 DEF Writes, Stored, Dated
        <3>2. OwedDate(only) = 1
            BY <2>1, <2>4 DEF OwedDate
        <3>3. deaths = 0 => /\ IsFiniteSet(Dated')
                            /\ Cardinality(Dated') = Cardinality(Dated) + 1
                            /\ Cardinality(Dated) \in Nat
            BY <3>1, FS_AddElement, FS_CardinalityType DEF Counted
        <3>4. OwedCount(only) \in {0, 1}
            BY DEF OwedCount
        <3>5. QED
            BY <1>2, <1>4, <2>3, <3>2, <3>3, <3>4 DEF Counted, Writes
    <2>5. CASE req[only].op # "Confirm"
        <3>1. new.confirmedAt = row[b].confirmedAt
            BY <1>4, <2>2, <2>5 DEF Writes, Stored, NewRows, Row, IInv, TypeOK
        <3>2. Dated' = Dated
            BY <1>4, <3>1 DEF Writes, Dated
        <3>3. OwedDate(only) = 0
            BY <2>5 DEF OwedDate
        <3>4. QED
            BY <1>4, <2>3, <3>2, <3>3 DEF Counted, Writes
    <2>6. QED
        BY <2>4, <2>5
<1>5. CASE Counts(only)
    <2>1. /\ OwedCount(only) = 1 /\ OwedCount(only)' = 0
          /\ OwedDate(only)' = OwedDate(only)
        BY <1>5 DEF Counts, OwedCount, OwedDate, BookingRequest
    <2>2. Dated' = Dated
        BY <1>5 DEF Counts, Dated
    <2>3. QED
        BY <1>2, <1>5, <2>1, <2>2 DEF Counted, Counts
<1>6. CASE Serves(only) \/ CancelOpenBookings(only)
    <2>1. /\ req[only].op # "Confirm" /\ req'[only].op # "Confirm"
          /\ bookingCount' = bookingCount /\ deaths' = deaths
          /\ \A b \in Bookings : row'[b].confirmedAt = row[b].confirmedAt
        BY <1>1, <1>6, BulkEffect DEF Serves, BookingOp
    <2>2. Dated' = Dated
        BY <2>1 DEF Dated
    <2>3. QED
        BY <2>1, <2>2 DEF Counted, OwedCount, OwedDate
<1>7. CASE req[only] \in BookingRequest /\ req[only].todo = {} /\ Forgets(only)
            /\ deaths' = deaths
    <2>1. Dated' = Dated
        BY <1>7 DEF Forgets, Dated
    <2>2. /\ OwedCount(only) = 0 /\ OwedCount(only)' = 0
          /\ OwedDate(only) = 0 /\ OwedDate(only)' = 0
        BY <1>7 DEF Forgets, Idle, OwedCount, OwedDate
    <2>3. QED
        BY <1>7, <2>1, <2>2 DEF Counted, Forgets
<1>8. CASE deaths' = deaths + 1
    BY <1>2, <1>8 DEF Counted
<1>9. CASE UNCHANGED <<row, service, bookingCount, req, deaths>>
    <2>1. /\ Dated' = Dated
          /\ OwedCount(only)' = OwedCount(only) /\ OwedDate(only)' = OwedDate(only)
        BY <1>9 DEF Dated, OwedCount, OwedDate
    <2>2. QED
        BY <1>9, <2>1 DEF Counted
<1>10. QED
    BY <1>1, <1>3, <1>4, <1>5, <1>6, <1>7, <1>8, <1>9 DEF StepKind

\* No service is deactivated at first.
LEMMA InitWithdrawn == Init => SerialDeactivation
BY DEF Init, SerialDeactivation

\* A save marks as inactive only the service it deactivates.
LEMMA SaveDeactivates ==
    ASSUME NEW only \in Slots, TypeOK, Undisturbed(only), Save(only),
           NEW s \in Services, service'[s] = "INACTIVE"
    PROVE  \/ service[s] = "INACTIVE"
           \/ /\ req'[only].op = "Deactivate"
              /\ req'[only].service = s
              /\ req'[only].step = "cancel"
<1>1. /\ req[only] \in ServiceRequest
      /\ req[only].op \in ServiceOps
      /\ req[only].seen = service
    BY RequestKinds DEF Save, Undisturbed
<1>2. service \in [Services -> ServiceState]
    BY DEF TypeOK
<1>3. CASE req[only].op = "Deactivate" /\ req[only].service = s
    <2>1. req'[only] = [req[only] EXCEPT !.step = "cancel"]
        BY <1>3 DEF Save, AfterSave, TypeOK
    <2>2. QED
        BY <1>1, <1>3, <2>1 DEF ServiceRequest
<1>4. CASE ~(req[only].op = "Deactivate" /\ req[only].service = s)
    <2>1. Changed(req[only].op, req[only].service, service)[s] = "INACTIVE"
            => service[s] = "INACTIVE"
        BY <1>1, <1>2, <1>4, ServiceOpsAssumption DEF Changed, ServiceRequest
    <2>2. service'[s] = IF service[s] = "DELETED" THEN service[s]
                        ELSE Changed(req[only].op, req[only].service, service)[s]
        BY <1>1 DEF Save
    <2>3. QED
        BY <2>1, <2>2
<1>5. QED
    BY <1>3, <1>4

\* Nothing opens a booking of a service that is deactivated.
LEMMA WithdrawnStep ==
    ASSUME NEW only, Slots = {only}, IInv, Undisturbed(only), SerialDeactivation,
           [Next]_vars
    PROVE  SerialDeactivation'
<1>1. TypeOK /\ StepKind /\ deaths \in Nat
    BY EveryStepKind DEF IInv, TypeOK
<1>. DEFINE Closed(s) == \A b \in Bookings : ServiceOf[b] = s => row[b].status \notin Open
            AtWork(s) == /\ req[only].op = "Deactivate"
                         /\ req[only].service = s
                         /\ req[only].step = "cancel"
<1>2. SerialDeactivation
        <=> (deaths = 0 => \A s \in Services : service[s] # "INACTIVE" \/ AtWork(s) \/ Closed(s))
    BY DEF SerialDeactivation
<1>3. SerialDeactivation'
        <=> (deaths' = 0 => \A s \in Services :
                service'[s] # "INACTIVE" \/ AtWork(s)' \/ Closed(s)')
    BY DEF SerialDeactivation
<1>4. ASSUME \A s \in Services : service'[s] = "INACTIVE" => service[s] = "INACTIVE" \/ AtWork(s)',
             \A s \in Services : AtWork(s) => AtWork(s)' \/ Closed(s)',
             \A s \in Services : service[s] = "INACTIVE" /\ Closed(s) => Closed(s)',
             deaths' = deaths
      PROVE  SerialDeactivation'
    BY <1>2, <1>3, <1>4
<1>5. ASSUME NEW op \in BookingOp, NEW b \in Bookings, Begins(only, op, b)
      PROVE  SerialDeactivation'
    <2>1. \A s \in Services : ~AtWork(s)
        BY <1>5 DEF Begins, Idle
    <2>2. QED
        BY <1>4, <1>5, <2>1 DEF Begins
<1>6. ASSUME NEW b \in Bookings, NEW new \in Row, req[only] \in BookingRequest,
             Writes(only, b, new)
      PROVE  SerialDeactivation'
    <2>1. /\ req[only].op \in BookingOp
          /\ HeldAtRead(req[only].op, req[only].seen)
        BY <1>6, WritesHolds
    <2>2. \A s \in Services : ~AtWork(s)
        BY <2>1 DEF BookingOp
    <2>3. /\ "row" \in req[only].todo
          /\ b = req[only].booking
          /\ req[only].seen = row[b]
          /\ req[only].op = "Create" => service[ServiceOf[b]] = "ACTIVE"
        BY <1>6, <2>1 DEF Writes, Undisturbed, Target
    <2>4. ASSUME NEW s \in Services, service[s] = "INACTIVE", Closed(s)
          PROVE  Closed(s)'
        <3>1. ServiceOf[b] = s => new.status \notin Open
            BY <1>6, <2>1, <2>3, <2>4
               DEF Writes, Stored, HeldAtRead, BookingOp, Cancelling, Open
        <3>2. QED
            BY <1>6, <2>4, <3>1 DEF Writes
    <2>5. QED
        BY <1>4, <1>6, <2>2, <2>4 DEF Writes
<1>7. CASE Counts(only)
    <2>1. \A s \in Services : ~AtWork(s)
        BY <1>7 DEF Counts
    <2>2. QED
        BY <1>4, <1>7, <2>1 DEF Counts
<1>8. CASE Serves(only)
    <2>1. ASSUME NEW s \in Services, AtWork(s) PROVE FALSE
        BY <1>8, <2>1 DEF Serves, Load, Save, RefreshEligibility, Idle
    <2>2. ASSUME NEW s \in Services, service'[s] = "INACTIVE"
          PROVE  service[s] = "INACTIVE" \/ AtWork(s)'
        <3>1. CASE Save(only)
            BY <1>1, <2>2, <3>1, SaveDeactivates
        <3>2. CASE service' = service
            BY <2>2, <3>2
        <3>3. QED
            BY <1>8, <3>1, <3>2 DEF Serves, Load, RefreshEligibility
    <2>3. QED
        BY <1>4, <1>8, <2>1, <2>2 DEF Serves
<1>9. CASE CancelOpenBookings(only)
    <2>1. /\ req[only] \in ServiceRequest
          /\ \A b \in Bookings :
                row'[b].status = IF ServiceOf[b] = req[only].service /\ row[b].status \in Open
                                 THEN "CANCELLED" ELSE row[b].status
          /\ service' = service /\ deaths' = deaths
        BY <1>1, <1>9, BulkEffect
    <2>2. \A s \in Services : AtWork(s) => Closed(s)'
        BY <2>1 DEF Open
    <2>3. \A s \in Services : Closed(s) => Closed(s)'
        BY <2>1 DEF Open
    <2>4. QED
        BY <1>4, <2>1, <2>2, <2>3
<1>10. CASE req[only] \in BookingRequest /\ Forgets(only) /\ deaths' = deaths
    <2>1. \A s \in Services : ~AtWork(s)
        BY <1>10 DEF BookingRequest, BookingOp
    <2>2. QED
        BY <1>4, <1>10, <2>1 DEF Forgets
<1>11. CASE deaths' = deaths + 1
    BY <1>1, <1>11 DEF SerialDeactivation
<1>12. CASE UNCHANGED <<row, service, bookingCount, req, deaths>>
    BY <1>12 DEF SerialDeactivation
<1>13. QED
    BY <1>1, <1>5, <1>6, <1>7, <1>8, <1>9, <1>10, <1>11, <1>12 DEF StepKind

\* One request at a time: the invariant behind the two properties.
SerialInv(r) == IInv /\ NewRows /\ Undisturbed(r) /\ Counted(r) /\ SerialDeactivation

\* The invariant holds at first.
LEMMA InitSerial ==
    ASSUME NEW only \in Slots
    PROVE  Init => SerialInv(only)
BY InitStory, InitRows, InitUndisturbed, InitCounted, InitWithdrawn DEF SerialInv

\* Every step keeps it.
LEMMA SerialStep ==
    ASSUME NEW only, Slots = {only}, SerialInv(only), [Next]_vars
    PROVE  SerialInv(only)'
BY StepStory, RowsStep, UndisturbedStep, CountedStep, WithdrawnStep
   DEF SerialInv, IInv

\* When nothing is in flight, nothing is owed.
LEMMA CountedCounts ==
    ASSUME NEW only \in Slots, SerialInv(only)
    PROVE  SerialCount
BY FS_CardinalityType
   DEF SerialInv, IInv, TypeOK, Counted, OwedCount, OwedDate, Dated, SerialCount, Idle

\* One request at a time, while none has died: bookingCount is the number of
\* bookings that were confirmed, whenever no confirmation is under way.
THEOREM OneAtATimeCounts ==
    ASSUME NEW only, Slots = {only}
    PROVE  Spec => []SerialCount
<1>1. SerialInv(only) => SerialCount
    BY CountedCounts
<1>2. SerialInv(only) /\ [Next]_vars => SerialInv(only)'
    BY SerialStep
<1>3. Init => SerialInv(only)
    BY InitSerial
<1>4. QED
    BY <1>1, <1>2, <1>3, PTL DEF Spec

\* One request at a time, while none has died: a deactivated service has no open
\* booking, once the deactivation has cancelled them (DeactivateServiceHandler).
THEOREM OneAtATimeWithdraws ==
    ASSUME NEW only, Slots = {only}
    PROVE  Spec => []SerialDeactivation
<1>1. SerialInv(only) => SerialDeactivation
    BY DEF SerialInv
<1>2. SerialInv(only) /\ [Next]_vars => SerialInv(only)'
    BY SerialStep
<1>3. Init => SerialInv(only)
    BY InitSerial
<1>4. QED
    BY <1>1, <1>2, <1>3, PTL DEF Spec
=============================================================================
