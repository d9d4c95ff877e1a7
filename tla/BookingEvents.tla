---------------------------- MODULE BookingEvents ----------------------------
(***************************************************************************)
(* Booking composed with the subscribers of the review module: they open   *)
(* the review session of a completed booking and keep the journal of       *)
(* cancellations.                                                          *)
(*                                                                         *)
(* The event bus is in memory: publishing hands the event to each handler  *)
(* at once, the handlers run concurrently with everything else, in no      *)
(* particular order, and an event whose process dies is gone.              *)
(***************************************************************************)
EXTENDS Booking

VARIABLES
    inbox,              \* how many handlers are at work, by event and booking
    session,            \* the bookings that have a ReviewSession
    journal             \* CancellationEvent rows, counted by booking and initiator

eventVars == <<inbox, session, journal>>
allVars == <<vars, eventVars>>

\* "OpenSession" is the completion handler once it has found its booking
\* completed; it still has to write the session.
Task == {"Completed", "OpenSession", "CancelledByClient", "CancelledByPro",
         "CancellationApproved"}

Initiator == {"CLIENT", "PROFESSIONAL"}

EventsTypeOK ==
    /\ TypeOK
    /\ inbox \in [Bookings -> [Task -> Nat]]
    /\ session \in SUBSET Bookings
    /\ journal \in [Bookings -> [Initiator -> Nat]]

EventsInit ==
    /\ Init
    /\ inbox = [b \in Bookings |-> [t \in Task |-> 0]]
    /\ session = {}
    /\ journal = [b \in Bookings |-> [i \in Initiator |-> 0]]

-----------------------------------------------------------------------------

\* Defective variants: a refused cancellation announced as an approved one, an
\* approved one announced as the client's own cancellation as well.
TasksOfRefusal(op) ==
    IF op = "RejectCancellation" THEN {"CancellationApproved"} ELSE {}

TasksOfApproval(op) ==
    IF op = "ApproveCancellation" THEN {"CancelledByClient", "CancellationApproved"}
    ELSE {}

\* The events of a finished request that the review module subscribes to.
TasksOf(op) ==
    CASE op = "Complete"            -> {"Completed"}
      [] op = "CancelByClient"      -> {"CancelledByClient"}
      [] op = "CancelByPro"         -> {"CancelledByPro"}
      [] op = "ApproveCancellation" -> {"CancellationApproved"}
      [] OTHER                      -> {}

\* Nothing but a publication reaches the subscribers.
Quietly ==
    /\ SilentStep
    /\ UNCHANGED eventVars

PublishEvent(r) ==
    /\ Publish(r)
    /\ inbox' = [inbox EXCEPT ![req[r].booking] =
                    [t \in Task |-> IF t \in TasksOf(req[r].op)
                                    THEN @[t] + 1 ELSE @[t]]]
    /\ UNCHANGED <<session, journal>>

\* Defective variant: a handler that drops the event of a completed booking.
CheckCompletedAndDrop(b) ==
    /\ inbox[b]["Completed"] > 0
    /\ inbox' = [inbox EXCEPT ![b]["Completed"] = @ - 1]
    /\ UNCHANGED <<vars, session, journal>>

\* The completion handler reads the booking again and gives up when it is not
\* completed any more.
CheckCompleted(b) ==
    /\ inbox[b]["Completed"] > 0
    /\ inbox' = [inbox EXCEPT ![b] =
                    [inbox[b] EXCEPT
                        !["Completed"] = @ - 1,
                        !["OpenSession"] = IF row[b].status = "COMPLETED"
                                           THEN @ + 1 ELSE @]]
    /\ UNCHANGED <<vars, session, journal>>

\* An upsert on the unique bookingId: a second one changes nothing.
OpenSession(b) ==
    /\ inbox[b]["OpenSession"] > 0
    /\ inbox' = [inbox EXCEPT ![b]["OpenSession"] = @ - 1]
    /\ session' = session \cup {b}
    /\ UNCHANGED <<vars, journal>>

\* The event carries the command's userId: the client's user id, or, on the
\* professional's route, the id of the Professional row.
CancelledBy(t) == IF t = "CancelledByClient" THEN "client user" ELSE "professional row"

\* The handler compares it with the user id of the professional's owner.
InitiatedBy(id) == IF id = "professional user" THEN "PROFESSIONAL" ELSE "CLIENT"

Journalise(b, t, initiator) ==
    /\ inbox[b][t] > 0
    /\ inbox' = [inbox EXCEPT ![b][t] = @ - 1]
    /\ journal' = [journal EXCEPT ![b][initiator] = @ + 1]
    /\ UNCHANGED <<vars, session>>

JournaliseCancelled(b) ==
    \E t \in {"CancelledByClient", "CancelledByPro"} :
        Journalise(b, t, InitiatedBy(CancelledBy(t)))

JournaliseApproved(b) == Journalise(b, "CancellationApproved", "CLIENT")

Handle(b) ==
    \/ CheckCompleted(b)
    \/ OpenSession(b)
    \/ JournaliseCancelled(b)
    \/ JournaliseApproved(b)

\* The process of a handler dies, or its statement fails.
LoseEvent(b) ==
    /\ deaths < MaxDeaths
    /\ \E t \in Task :
        /\ inbox[b][t] > 0
        /\ inbox' = [inbox EXCEPT ![b][t] = @ - 1]
    /\ deaths' = deaths + 1
    /\ UNCHANGED <<row, service, bookable, bookingCount, req>>
    /\ UNCHANGED <<session, journal>>

EventsNext ==
    \/ Quietly
    \/ \E r \in Slots : PublishEvent(r)
    \/ \E b \in Bookings : Handle(b) \/ LoseEvent(b)

EventsSpec == EventsInit /\ [][EventsNext]_allVars

(***************************************************************************)
(* Node runs the continuation of every statement the database answers, and *)
(* the handlers of every event that was published: a request in flight and *)
(* a handler at work always get to their next step.  Which requests arrive *)
(* is up to the users.                                                     *)
(***************************************************************************)
Proceed(r) == (WriteStep(r) \/ CountConfirmed(r)) /\ UNCHANGED eventVars

Fairness ==
    /\ \A r \in Slots : WF_allVars(Proceed(r) \/ PublishEvent(r))
    /\ \A b \in Bookings : WF_allVars(CheckCompleted(b)) /\ WF_allVars(OpenSession(b))

FairEventsSpec == EventsSpec /\ Fairness

-----------------------------------------------------------------------------

\* The journal never runs ahead of the table: a cancellation that is recorded,
\* or about to be, belongs to a booking that carries a cancellation date, and
\* a review session, open or about to be, to one that was confirmed.
JournalAfterTheFact ==
    \A b \in Bookings :
        /\ (\E i \in Initiator : journal[b][i] > 0) \/ inbox[b]["CancellationApproved"] > 0
            => row[b].cancelledAt
        /\ b \in session \/ inbox[b]["OpenSession"] > 0 => row[b].confirmedAt

\* While nothing dies, a completed booking gets its review session, unless a
\* stale write takes it out of COMPLETED again.
CompletedGetsSession ==
    \A b \in Bookings :
        row[b].status = "COMPLETED"
            ~> (b \in session \/ row[b].status # "COMPLETED" \/ deaths > 0)

\* One request at a time journalises at most one cancellation of a booking,
\* whichever way it was cancelled.
SerialJournal ==
    \A b \in Bookings : journal[b]["CLIENT"] + journal[b]["PROFESSIONAL"] <= 1

\* Together: what a request does beside its booking - the counter, the bookings of the
\* service, the journal - is done once and not forgotten.
SerialEffects == SerialCount /\ SerialDeactivation /\ SerialJournal

\* A cancellation is entered against the client only by the handler of an event
\* the client caused.  CancelBookingCommand.userId: "Could be pro or client".
HeldAgainstItsAuthor ==
    [][\A b \in Bookings :
        journal'[b]["CLIENT"] > journal[b]["CLIENT"]
            => inbox'[b]["CancelledByPro"] = inbox[b]["CancelledByPro"]]_eventVars
=============================================================================
