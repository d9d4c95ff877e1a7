------------------------- MODULE BookingEventsProofs -------------------------
(***************************************************************************)
(* Proofs about Booking composed with the subscribers of the review        *)
(* module: for any number of bookings, services, requests in flight,       *)
(* handlers at work and deaths, what BookingProofs shows of the bookings   *)
(* still holds, the subscribers record only what happened, and one request *)
(* at a time records it once.                                              *)
(***************************************************************************)
EXTENDS BookingEvents, BookingProofs

-----------------------------------------------------------------------------
(***************************************************************************)
(* What each action does to the handlers at work and to the journal.       *)
(***************************************************************************)

Inbox == [Bookings -> [Task -> Nat]]
Journal == [Bookings -> [Initiator -> Nat]]

\* Publishing puts the handlers of the event to work, for the request's booking.
LEMMA PublishEffect ==
    ASSUME EventsTypeOK, NEW r \in Slots, PublishEvent(r)
    PROVE  /\ req[r] \in BookingRequest
           /\ inbox' \in Inbox
           /\ \A b \in Bookings, t \in Task :
                inbox'[b][t] = IF b = req[r].booking /\ t \in TasksOf(req[r].op)
                               THEN inbox[b][t] + 1 ELSE inbox[b][t]
<1>1. req[r] \in BookingRequest /\ req[r].booking \in Bookings
    BY RequestKinds DEF EventsTypeOK, PublishEvent, Publish, BookingRequest
<1>2. inbox \in Inbox
    BY DEF EventsTypeOK, Inbox
<1>3. inbox' = [inbox EXCEPT ![req[r].booking] =
                    [t \in Task |-> IF t \in TasksOf(req[r].op)
                                    THEN inbox[req[r].booking][t] + 1
                                    ELSE inbox[req[r].booking][t]]]
    BY DEF PublishEvent
<1>4. QED
    BY <1>1, <1>2, <1>3 DEF Inbox

\* A handler that ends, or dies, is at work no more.
LEMMA TakeOne ==
    ASSUME EventsTypeOK, NEW b \in Bookings, NEW t \in Task, inbox[b][t] > 0,
           inbox' = [inbox EXCEPT ![b][t] = @ - 1]
    PROVE  /\ inbox' \in Inbox
           /\ \A c \in Bookings, u \in Task :
                inbox'[c][u] = IF c = b /\ u = t THEN inbox[c][u] - 1 ELSE inbox[c][u]
BY DEF EventsTypeOK, Inbox

\* An entry of the journal is one more.
LEMMA AddOne ==
    ASSUME EventsTypeOK, NEW b \in Bookings, NEW i \in Initiator,
           journal' = [journal EXCEPT ![b][i] = @ + 1]
    PROVE  /\ journal' \in Journal
           /\ \A c \in Bookings, j \in Initiator :
                journal'[c][j] = IF c = b /\ j = i THEN journal[c][j] + 1 ELSE journal[c][j]
BY DEF EventsTypeOK, Journal

\* The completion handler goes on to open a session only if it finds its booking
\* completed.
LEMMA CheckEffect ==
    ASSUME EventsTypeOK, NEW b \in Bookings, CheckCompleted(b)
    PROVE  /\ inbox[b]["Completed"] > 0
           /\ inbox' \in Inbox
           /\ \A c \in Bookings, t \in Task :
                /\ t \notin {"Completed", "OpenSession"} => inbox'[c][t] = inbox[c][t]
                /\ \/ inbox'[c][t] <= inbox[c][t]
                   \/ c = b /\ row[b].status = "COMPLETED"
<1>1. inbox \in Inbox
    BY DEF EventsTypeOK, Inbox
<1>2. /\ inbox[b]["Completed"] \in Nat \ {0}
      /\ inbox[b]["OpenSession"] \in Nat
    BY <1>1 DEF CheckCompleted, Inbox, Task
<1>. PICK waiting \in [Task -> Nat] : waiting = inbox[b]
    BY <1>1 DEF Inbox
<1>. PICK left : left = [waiting EXCEPT !["Completed"] = @ - 1,
                                        !["OpenSession"] = IF row[b].status = "COMPLETED"
                                                           THEN @ + 1 ELSE @]
    OBVIOUS
<1>3. inbox' = [inbox EXCEPT ![b] = left]
    BY DEF CheckCompleted
<1>4. /\ left \in [Task -> Nat]
      /\ \A t \in Task : t \notin {"Completed", "OpenSession"} => left[t] = waiting[t]
      /\ row[b].status # "COMPLETED" => \A t \in Task : left[t] <= waiting[t]
    BY <1>2 DEF Task
<1>5. \A c \in Bookings : inbox'[c] = IF c = b THEN left ELSE inbox[c]
    BY <1>1, <1>3 DEF Inbox
<1>6. inbox' \in Inbox
    BY <1>1, <1>3, <1>4 DEF Inbox
<1>7. QED
    BY <1>1, <1>2, <1>4, <1>5, <1>6 DEF Inbox

CancellationTask == {"CancelledByClient", "CancelledByPro", "CancellationApproved"}

\* A death among the handlers: the bookings are left alone.
Loses ==
    /\ deaths < MaxDeaths
    /\ deaths' = deaths + 1
    /\ UNCHANGED <<row, service, bookable, bookingCount, req>>

\* Every step: one of the bookings that no subscriber hears of, a publication, a
\* step of a handler, or the death of one.
EventsKind ==
    \/ [Next]_vars /\ UNCHANGED eventVars
    \/ \E r \in Slots : PublishEvent(r)
    \/ \E b \in Bookings : CheckCompleted(b) \/ OpenSession(b) \/ LoseEvent(b)
    \/ \E b \in Bookings, t \in CancellationTask, i \in Initiator : Journalise(b, t, i)

\* Every step is of one of these kinds.
LEMMA EveryEventsKind ==
    ASSUME [EventsNext]_allVars
    PROVE  EventsKind
<1>1. ASSUME NEW b \in Bookings, Handle(b) PROVE EventsKind
    BY <1>1 DEF Handle, JournaliseCancelled, JournaliseApproved, InitiatedBy,
                Initiator, CancellationTask, EventsKind
<1>2. QED
    BY <1>1 DEF EventsNext, Quietly, Next, allVars, eventVars, vars, EventsKind

\* On the bookings themselves, such a step is one of Booking, or a death.
LEMMA BookingSide ==
    ASSUME [EventsNext]_allVars
    PROVE  [Next]_vars \/ Loses
BY EveryEventsKind
   DEF EventsKind, PublishEvent, Next, CheckCompleted, OpenSession, LoseEvent,
       Journalise, Loses

\* A death among the handlers takes nothing from what BookingProofs keeps.
LEMMA LosesKeeps ==
    ASSUME Loses
    PROVE  /\ IInv => IInv'
           /\ NewRows => NewRows'
           /\ TypeOK => Paid'
<1>1. TypeOK => TypeOK'
    BY MaxDeathsAssumption DEF Loses, TypeOK
<1>2. InFlight => InFlight'
    BY DEF Loses, InFlight, Target
<1>3. /\ ConfirmedFirst => ConfirmedFirst'
      /\ RequestTimeline => RequestTimeline'
      /\ NewRows => NewRows'
    BY DEF Loses, ConfirmedFirst, RequestTimeline, NewRows
<1>4. TypeOK => Paid'
    BY DEF Loses, TypeOK, Paid
<1>5. QED
    BY <1>1, <1>2, <1>3, <1>4 DEF IInv

\* What BookingProofs shows of a step of the bookings holds of every step.
LEMMA EventsStory ==
    ASSUME IInv, NewRows, [EventsNext]_allVars
    PROVE  /\ IInv' /\ NewRows'
           /\ Paid => Paid'
           /\ \A b \in Bookings : /\ row[b].confirmedAt => row'[b].confirmedAt
                                  /\ row[b].cancelledAt => row'[b].cancelledAt
<1>1. CASE [Next]_vars
    BY <1>1, StepStory, RowsStep, PaidStep
<1>2. CASE Loses
    BY <1>2, LosesKeeps DEF Loses, IInv
<1>3. QED
    BY <1>1, <1>2, BookingSide

\* The invariants of the bookings hold at first.
LEMMA EventsInitStory == EventsInit => IInv /\ NewRows /\ Paid
BY InitStory, InitRows, InitPaid DEF EventsInit

\* For any number of handlers at work, their deaths included: the columns of a
\* booking tell one story.
THEOREM EventsColumnsAgree == EventsSpec => []ColumnsAgree
<1>1. IInv => ColumnsAgree
    BY DEF IInv, ColumnsAgree
<1>2. QED
    BY <1>1, EventsInitStory, EventsStory, PTL DEF EventsSpec

\* While neither a request nor a handler dies, every confirmation date is paid for.
THEOREM EventsCountCovers == EventsSpec => []CountCoversConfirmed
<1>1. IInv /\ Paid => CountCoversConfirmed
    BY PaidCovers DEF IInv
<1>2. QED
    BY <1>1, EventsInitStory, EventsStory, PTL DEF EventsSpec

\* No handler of an event changes a booking: with the subscribers at work too, only
\* a stale write leaves the lifecycle.
THEOREM EventsOnlyStaleWritesStray == EventsSpec => LifecycleUnlessStale
<1>1. IInv /\ [EventsNext]_allVars
        => [Lifecycle!Next \/ \E r \in Slots : StaleWrite(r)]_(Lifecycle!lifecycleVars)
    BY BookingSide, StepLifecycle, SameRows DEF Loses
<1>2. QED
    BY <1>1, EventsInitStory, EventsStory, PTL DEF EventsSpec, LifecycleUnlessStale

-----------------------------------------------------------------------------
(***************************************************************************)
(* Types.                                                                  *)
(***************************************************************************)

\* No handler is at work at first, nothing is recorded.
LEMMA EventsInitType == EventsInit => EventsTypeOK
BY InitType DEF EventsInit, EventsTypeOK

\* Every step keeps the types.
LEMMA EventsStepType ==
    ASSUME EventsTypeOK, [EventsNext]_allVars
    PROVE  EventsTypeOK'
<1>1. TypeOK'
    <2>1. CASE [Next]_vars
        BY <2>1, StepType DEF EventsTypeOK
    <2>2. CASE Loses
        BY <2>2, MaxDeathsAssumption DEF Loses, EventsTypeOK, TypeOK
    <2>3. QED
        BY <2>1, <2>2, BookingSide
<1>2. /\ inbox \in Inbox /\ journal \in Journal
      /\ session \in SUBSET Bookings
      /\ EventsTypeOK' <=> TypeOK' /\ inbox' \in Inbox /\ session' \in SUBSET Bookings
                            /\ journal' \in Journal
    BY DEF EventsTypeOK, Inbox, Journal
<1>3. ASSUME UNCHANGED eventVars PROVE EventsTypeOK'
    BY <1>1, <1>2, <1>3 DEF eventVars
<1>4. ASSUME NEW r \in Slots, PublishEvent(r) PROVE EventsTypeOK'
    BY <1>1, <1>2, <1>4, PublishEffect DEF PublishEvent
<1>5. ASSUME NEW b \in Bookings, CheckCompleted(b) PROVE EventsTypeOK'
    BY <1>1, <1>2, <1>5, CheckEffect DEF CheckCompleted
<1>6. ASSUME NEW b \in Bookings, OpenSession(b) PROVE EventsTypeOK'
    BY <1>1, <1>2, <1>6, TakeOne DEF OpenSession, Task
<1>7. ASSUME NEW b \in Bookings, LoseEvent(b) PROVE EventsTypeOK'
    BY <1>1, <1>2, <1>7, TakeOne DEF LoseEvent
<1>8. ASSUME NEW b \in Bookings, NEW t \in CancellationTask, NEW i \in Initiator,
             Journalise(b, t, i)
      PROVE  EventsTypeOK'
    BY <1>1, <1>2, <1>8, TakeOne, AddOne DEF Journalise, CancellationTask, Task
<1>9. QED
    BY <1>3, <1>4, <1>5, <1>6, <1>7, <1>8, EveryEventsKind DEF EventsKind

\* A handler that ends was at work: no count of handlers goes below zero, whatever
\* dies; sessions and journal are of the bookings there are.
THEOREM EventsTypeCorrect == EventsSpec => []EventsTypeOK
BY EventsInitType, EventsStepType, PTL DEF EventsSpec

-----------------------------------------------------------------------------
(***************************************************************************)
(* The journal holds only facts.  JournalAfterTheFact is not inductive:    *)
(* what the journal will say is in the inbox first, and before that in a   *)
(* request that has written its booking and not yet told.                  *)
(***************************************************************************)

AboutToTell ==
    \A r \in Slots : req[r].op \in Cancelling /\ "row" \notin req[r].todo
                        => Target(r).cancelledAt

OnlyFacts ==
    \A b \in Bookings :
        /\ \A t \in CancellationTask : inbox[b][t] > 0 => row[b].cancelledAt
        /\ \A t \in Task \ CancellationTask : inbox[b][t] > 0 => row[b].confirmedAt
        /\ \A i \in Initiator : journal[b][i] > 0 => row[b].cancelledAt
        /\ b \in session => row[b].confirmedAt

FactsInv == EventsTypeOK /\ IInv /\ NewRows /\ AboutToTell /\ OnlyFacts

\* Nothing is told at first.
LEMMA InitFacts == EventsInit => FactsInv
<1>1. EventsInit => AboutToTell
    BY DEF EventsInit, Init, AboutToTell, Cancelling, Idle
<1>2. EventsInit => OnlyFacts
    BY DEF EventsInit, OnlyFacts, CancellationTask, Task
<1>3. QED
    BY <1>1, <1>2, EventsInitStory, EventsInitType DEF FactsInv

\* A request that tells of a cancellation has written its date, and no later write
\* takes it away.
LEMMA AboutToTellStep ==
    ASSUME FactsInv, [EventsNext]_allVars
    PROVE  AboutToTell'
<1>1. \A b \in Bookings : row[b].cancelledAt => row'[b].cancelledAt
    BY EventsStory DEF FactsInv
<1>2. ASSUME NEW r \in Slots, req'[r].op \in Cancelling, "row" \notin req'[r].todo,
             req'[r].op = req[r].op, req'[r].booking = req[r].booking,
             "row" \notin req[r].todo
      PROVE  Target(r)'.cancelledAt
    <2>1. req[r].booking \in Bookings
        BY <1>2, RequestKinds DEF FactsInv, EventsTypeOK, Cancelling, BookingOp, BookingRequest
    <2>2. QED
        BY <1>1, <1>2, <2>1 DEF FactsInv, AboutToTell, Target
<1>3. SUFFICES ASSUME NEW q \in Slots, req'[q].op \in Cancelling,
                      "row" \notin req'[q].todo
               PROVE  Target(q)'.cancelledAt
    BY DEF AboutToTell
<1>4. CASE req'[q] = req[q]
    BY <1>2, <1>3, <1>4
<1>5. CASE Loses
    BY <1>4, <1>5 DEF Loses
<1>6. CASE [Next]_vars
    <2>1. TypeOK /\ StepKind
        BY <1>6, EveryStepKind DEF FactsInv, EventsTypeOK
    <2>2. ASSUME NEW op \in BookingOp, NEW b \in Bookings, Begins(q, op, b)
          PROVE  FALSE
        BY <1>3, <2>2 DEF Begins
    <2>3. ASSUME NEW b \in Bookings, NEW new \in Row, req[q] \in BookingRequest,
                 Writes(q, b, new)
          PROVE  Target(q)'.cancelledAt
        <3>1. req'[q].op = req[q].op /\ req'[q].booking = b
            BY <2>3 DEF Writes, BookingRequest
        <3>2. new.cancelledAt
            BY <1>3, <2>3, <3>1 DEF Writes, Stored
        <3>3. QED
            BY <2>3, <3>1, <3>2 DEF Writes, Target
    <2>4. ASSUME Counts(q) PROVE FALSE
        BY <1>3, <2>4 DEF Counts, Cancelling, BookingRequest
    <2>5. ASSUME Serves(q) PROVE FALSE
        BY <1>3, <2>5 DEF Serves, Cancelling, BookingOp
    <2>6. ASSUME CancelOpenBookings(q) PROVE FALSE
        BY <1>3, <2>1, <2>6, BulkEffect DEF Cancelling
    <2>7. ASSUME Forgets(q) PROVE FALSE
        BY <1>3, <2>7 DEF Forgets, Cancelling, Idle
    <2>8. req'[q] = req[q] \/ Target(q)'.cancelledAt
        <3>1. ASSUME NEW r \in Slots \ {q}, CancelOpenBookings(r)
              PROVE  req'[q] = req[q]
            BY <2>1, <3>1, BulkEffect
        <3>2. \A r \in Slots \ {q} :
                /\ \A op \in BookingOp, b \in Bookings : Begins(r, op, b) => req'[q] = req[q]
                /\ \A b \in Bookings, new \in Row : Writes(r, b, new) => req'[q] = req[q]
                /\ Counts(r) \/ Serves(r) \/ Forgets(r) => req'[q] = req[q]
            BY DEF Begins, Writes, Counts, Serves, Forgets
        <3>3. QED
            BY <2>1, <2>2, <2>3, <2>4, <2>5, <2>6, <2>7, <3>1, <3>2 DEF StepKind
    <2>9. QED
        BY <1>4, <2>8
<1>7. QED
    BY <1>5, <1>6, BookingSide

\* What a step adds to the inbox, the journal or the sessions is a fact.
LEMMA OnlyFactsStep ==
    ASSUME FactsInv, [EventsNext]_allVars
    PROVE  OnlyFacts'
<1>1. \A b \in Bookings : /\ row[b].confirmedAt => row'[b].confirmedAt
                          /\ row[b].cancelledAt => row'[b].cancelledAt
    BY EventsStory DEF FactsInv
<1>2. /\ EventsTypeOK /\ EventsTypeOK' /\ OnlyFacts
      /\ inbox \in Inbox /\ journal \in Journal
      /\ inbox' \in Inbox /\ journal' \in Journal
    BY EventsStepType DEF FactsInv, EventsTypeOK, Inbox, Journal
\* It is enough that nothing new is told, unless it is a fact.
<1>3. ASSUME \A b \in Bookings : \A t \in CancellationTask :
                inbox'[b][t] > inbox[b][t] => row[b].cancelledAt,
             \A b \in Bookings : \A t \in Task \ CancellationTask :
                inbox'[b][t] > inbox[b][t] => row[b].confirmedAt,
             \A b \in Bookings : \A i \in Initiator :
                journal'[b][i] > journal[b][i] => row[b].cancelledAt,
             \A b \in session' \ session : row[b].confirmedAt
      PROVE  OnlyFacts'
    <2>1. SUFFICES ASSUME NEW b \in Bookings
                   PROVE  /\ \A t \in CancellationTask : inbox'[b][t] > 0 => row[b].cancelledAt
                          /\ \A t \in Task \ CancellationTask : inbox'[b][t] > 0 => row[b].confirmedAt
                          /\ \A i \in Initiator : journal'[b][i] > 0 => row[b].cancelledAt
                          /\ b \in session' => row[b].confirmedAt
        BY <1>1 DEF OnlyFacts
    <2>2. /\ \A t \in Task : inbox[b][t] \in Nat /\ inbox'[b][t] \in Nat
          /\ \A i \in Initiator : journal[b][i] \in Nat /\ journal'[b][i] \in Nat
          /\ CancellationTask \subseteq Task
        BY <1>2 DEF Inbox, Journal, CancellationTask, Task
    <2>3. QED
        BY <1>2, <1>3, <2>2 DEF OnlyFacts
<1>4. CASE UNCHANGED eventVars
    <2>1. \A b \in Bookings : \A t \in Task : ~(inbox'[b][t] > inbox[b][t])
        BY <1>2, <1>4 DEF eventVars, Inbox
    <2>2. \A b \in Bookings : \A i \in Initiator : ~(journal'[b][i] > journal[b][i])
        BY <1>2, <1>4 DEF eventVars, Journal
    <2>3. QED
        BY <1>3, <1>4, <2>1, <2>2 DEF eventVars, CancellationTask, Task
\* A handler that ends, or dies, tells nothing.
<1>5. ASSUME NEW b \in Bookings, NEW t \in Task, inbox[b][t] > 0,
             inbox' = [inbox EXCEPT ![b][t] = @ - 1]
      PROVE  \A c \in Bookings : \A u \in Task : ~(inbox'[c][u] > inbox[c][u])
    BY <1>2, <1>5 DEF Inbox
<1>6. UNCHANGED journal => \A b \in Bookings : \A i \in Initiator : ~(journal'[b][i] > journal[b][i])
    BY <1>2 DEF Journal
<1>7. ASSUME NEW r \in Slots, PublishEvent(r)
      PROVE  OnlyFacts'
    <2>1. /\ req[r] \in BookingRequest
          /\ req[r].todo = {}
          /\ UNCHANGED <<session, journal>>
          /\ \A b \in Bookings : \A t \in Task :
                inbox'[b][t] > inbox[b][t] => b = req[r].booking /\ t \in TasksOf(req[r].op)
        <3>1. /\ req[r] \in BookingRequest
              /\ \A b \in Bookings, t \in Task :
                    inbox'[b][t] = IF b = req[r].booking /\ t \in TasksOf(req[r].op)
                                   THEN inbox[b][t] + 1 ELSE inbox[b][t]
            BY <1>2, <1>7, PublishEffect
        <3>2. QED
            BY <1>2, <1>7, <3>1 DEF PublishEvent, Publish, Inbox
    <2>2. ASSUME NEW t \in CancellationTask, t \in TasksOf(req[r].op)
          PROVE  Target(r).cancelledAt
        <3>1. req[r].op \in Cancelling
            BY <2>1, <2>2 DEF TasksOf, CancellationTask, Cancelling, BookingRequest, BookingOp
        <3>2. QED
            BY <2>1, <3>1 DEF FactsInv, AboutToTell
    <2>3. ASSUME NEW t \in Task \ CancellationTask, t \in TasksOf(req[r].op)
          PROVE  Target(r).confirmedAt
        <3>1. req[r].op = "Complete"
            BY <2>1, <2>3 DEF TasksOf, CancellationTask, Task, BookingRequest, BookingOp
        <3>2. QED
            BY <3>1 DEF FactsInv, IInv, InFlight, HoldsAtWrite, BookingOp
    <2>4. QED
        BY <1>3, <1>6, <2>1, <2>2, <2>3 DEF Target, CancellationTask, Task
<1>8. ASSUME NEW b \in Bookings, CheckCompleted(b)
      PROVE  OnlyFacts'
    <2>1. /\ UNCHANGED <<session, journal>>
          /\ \A c \in Bookings : \A t \in Task :
                /\ t \notin {"Completed", "OpenSession"} => inbox'[c][t] = inbox[c][t]
                /\ inbox'[c][t] <= inbox[c][t] \/ (c = b /\ row[b].status = "COMPLETED")
        BY <1>2, <1>8, CheckEffect DEF CheckCompleted
    <2>2. row[b].status = "COMPLETED" => row[b].confirmedAt
        BY DEF FactsInv, IInv, ConfirmedFirst
    <2>3. \A c \in Bookings : \A t \in CancellationTask : ~(inbox'[c][t] > inbox[c][t])
        BY <1>2, <2>1 DEF CancellationTask, Task, Inbox
    <2>4. \A c \in Bookings : \A t \in Task : inbox'[c][t] > inbox[c][t] => row[c].confirmedAt
        BY <1>2, <2>1, <2>2 DEF Inbox
    <2>5. QED
        BY <1>3, <1>6, <2>1, <2>3, <2>4
<1>9. ASSUME NEW b \in Bookings, OpenSession(b)
      PROVE  OnlyFacts'
    <2>1. \A c \in Bookings : \A t \in Task : ~(inbox'[c][t] > inbox[c][t])
        BY <1>5, <1>9 DEF OpenSession, Task
    <2>2. row[b].confirmedAt
        BY <1>2, <1>9 DEF OpenSession, OnlyFacts, Task, CancellationTask
    <2>3. QED
        BY <1>3, <1>6, <1>9, <2>1, <2>2 DEF OpenSession, CancellationTask, Task
<1>10. ASSUME NEW b \in Bookings, LoseEvent(b)
       PROVE  OnlyFacts'
    <2>1. \A c \in Bookings : \A t \in Task : ~(inbox'[c][t] > inbox[c][t])
        BY <1>5, <1>10 DEF LoseEvent
    <2>2. QED
        BY <1>3, <1>6, <1>10, <2>1 DEF LoseEvent, CancellationTask, Task
<1>11. ASSUME NEW b \in Bookings, NEW t \in CancellationTask, NEW i \in Initiator,
              Journalise(b, t, i)
       PROVE  OnlyFacts'
    <2>1. \A c \in Bookings : \A u \in Task : ~(inbox'[c][u] > inbox[c][u])
        BY <1>5, <1>11 DEF Journalise, CancellationTask, Task
    <2>2. \A c \in Bookings : \A j \in Initiator : journal'[c][j] > journal[c][j] => c = b
        BY <1>2, <1>11, AddOne DEF Journalise, Journal
    <2>3. row[b].cancelledAt
        BY <1>2, <1>11 DEF Journalise, OnlyFacts
    <2>4. QED
        BY <1>3, <1>11, <2>1, <2>2, <2>3 DEF Journalise, CancellationTask, Task
<1>12. QED
    BY <1>4, <1>7, <1>8, <1>9, <1>10, <1>11, EveryEventsKind DEF EventsKind

\* Every step keeps the invariant.
LEMMA FactsStep ==
    ASSUME FactsInv, [EventsNext]_allVars
    PROVE  FactsInv'
BY EventsStory, EventsStepType, AboutToTellStep, OnlyFactsStep DEF FactsInv

\* Whatever overlaps or dies, the review module records nothing that did not
\* happen: a cancellation in the journal, or on its way there, is of a booking
\* that carries a cancellation date, a session of one that was confirmed.
THEOREM AlwaysAfterTheFact == EventsSpec => []JournalAfterTheFact
<1>1. FactsInv => JournalAfterTheFact
    BY DEF FactsInv, OnlyFacts, JournalAfterTheFact, CancellationTask, Task
<1>2. FactsInv /\ [EventsNext]_allVars => FactsInv'
    BY FactsStep
<1>3. QED
    BY <1>1, <1>2, InitFacts, PTL DEF EventsSpec

-----------------------------------------------------------------------------
(***************************************************************************)
(* One request at a time.  The handlers of its events still overlap with   *)
(* the requests that follow and with each other, and may die.              *)
(***************************************************************************)

\* The handlers of events take nothing from what BookingProofs shows of one
\* request at a time.
LEMMA EventsSerialStep ==
    ASSUME NEW only, Slots = {only}, SerialInv(only), [EventsNext]_allVars
    PROVE  SerialInv(only)'
<1>1. CASE [Next]_vars
    BY <1>1, SerialStep
<1>2. CASE Loses
    <2>1. IInv' /\ NewRows'
        BY <1>2, LosesKeeps DEF SerialInv
    <2>2. Undisturbed(only)'
        BY <1>2 DEF Loses, SerialInv, Undisturbed, Target
    <2>3. deaths' # 0
        BY <1>2 DEF Loses, SerialInv, IInv, TypeOK
    <2>4. Counted(only)' /\ SerialDeactivation'
        BY <2>3 DEF Counted, SerialDeactivation
    <2>5. QED
        BY <2>1, <2>2, <2>4 DEF SerialInv
<1>3. QED
    BY <1>1, <1>2, BookingSide

\* A cancellation on its way to the journal: written and not yet told, or told;
\* its handler at work, or its entry made.
Untold(r, b) ==
    IF req[r].op \in Cancelling /\ req[r].booking = b /\ "row" \notin req[r].todo
    THEN 1 ELSE 0

Waiting(b) ==
    inbox[b]["CancelledByClient"] + inbox[b]["CancelledByPro"]
        + inbox[b]["CancellationApproved"]

Entered(b) == journal[b]["CLIENT"] + journal[b]["PROFESSIONAL"]

\* SerialJournal is not inductive: a booking is cancelled once because the request
\* that cancels it finds it not cancelled, and then nothing was told of it yet.
Once(r) ==
    \A b \in Bookings :
        /\ Untold(r, b) + Waiting(b) + Entered(b) <= 1
        /\ Untold(r, b) + Waiting(b) + Entered(b) > 0 => row[b].status = "CANCELLED"

\* Nothing is told at first.
LEMMA InitOnce ==
    ASSUME NEW only \in Slots
    PROVE  EventsInit => Once(only)
<1>1. SUFFICES ASSUME EventsInit, NEW b \in Bookings
               PROVE  Untold(only, b) = 0 /\ Waiting(b) = 0 /\ Entered(b) = 0
    BY DEF Once
<1>2. QED
    BY <1>1 DEF EventsInit, Init, Idle, Untold, Cancelling, Waiting, Entered, Task, Initiator

\* It is enough that what is on its way does not grow, unless the row was not
\* cancelled and is now, and that a cancelled booking stays cancelled.
LEMMA OnceKept ==
    ASSUME NEW r \in Slots, EventsTypeOK, EventsTypeOK', Once(r),
           \A b \in Bookings :
                \/ /\ Untold(r, b)' + Waiting(b)' + Entered(b)'
                        <= Untold(r, b) + Waiting(b) + Entered(b)
                   /\ row[b].status = "CANCELLED" => row'[b].status = "CANCELLED"
                \/ /\ Waiting(b)' = Waiting(b)
                   /\ Entered(b)' = Entered(b)
                   /\ row[b].status # "CANCELLED"
                   /\ Untold(r, b)' = 1 => row'[b].status = "CANCELLED"
    PROVE  Once(r)'
<1>1. SUFFICES ASSUME NEW b \in Bookings
               PROVE  /\ Untold(r, b)' + Waiting(b)' + Entered(b)' <= 1
                      /\ Untold(r, b)' + Waiting(b)' + Entered(b)' > 0
                            => row'[b].status = "CANCELLED"
    BY DEF Once
<1>2. /\ Waiting(b) \in Nat /\ Waiting(b)' \in Nat
      /\ Entered(b) \in Nat /\ Entered(b)' \in Nat
    BY DEF EventsTypeOK, Waiting, Entered, Task, Initiator
<1>3. Untold(r, b) \in {0, 1} /\ Untold(r, b)' \in {0, 1}
    BY DEF Untold
<1>4. QED
    BY <1>2, <1>3 DEF Once

\* A step of the bookings that no subscriber hears of.
LEMMA OnceQuietly ==
    ASSUME NEW only, Slots = {only}, EventsTypeOK, EventsTypeOK', SerialInv(only),
           Once(only), [Next]_vars, UNCHANGED eventVars
    PROVE  Once(only)'
<1>1. /\ StepKind /\ TypeOK /\ IInv /\ Undisturbed(only)
    BY EveryStepKind DEF EventsTypeOK, SerialInv
<1>2. \A b \in Bookings :
        /\ Waiting(b) \in Nat /\ Waiting(b)' = Waiting(b)
        /\ Entered(b) \in Nat /\ Entered(b)' = Entered(b)
    BY DEF eventVars, Waiting, Entered, EventsTypeOK, Task, Initiator
<1>3. \A b \in Bookings : Untold(only, b) \in {0, 1} /\ Untold(only, b)' \in {0, 1}
    BY DEF Untold
<1>4. ASSUME \A b \in Bookings :
                /\ Untold(only, b)' <= Untold(only, b)
                /\ row[b].status = "CANCELLED" => row'[b].status = "CANCELLED"
      PROVE  Once(only)'
    BY <1>2, <1>3, <1>4, OnceKept
<1>5. ASSUME NEW op \in BookingOp, NEW b \in Bookings, Begins(only, op, b)
      PROVE  Once(only)'
    <2>1. \A c \in Bookings : Untold(only, c)' = 0
        BY <1>5 DEF Begins, Untold
    <2>2. QED
        BY <1>3, <1>4, <1>5, <2>1 DEF Begins
<1>6. ASSUME NEW b \in Bookings, NEW new \in Row, req[only] \in BookingRequest,
             Writes(only, b, new)
      PROVE  Once(only)'
    <2>1. /\ req[only].op \in BookingOp
          /\ HeldAtRead(req[only].op, req[only].seen)
        BY <1>1, <1>6, WritesHolds
    <2>2. req[only].seen = row[b]
        BY <1>1, <1>6, <2>1 DEF Writes, Undisturbed, Target
    <2>3. row[b].status # "CANCELLED"
        BY <2>1, <2>2 DEF HeldAtRead, BookingOp, Open
    <2>4. req'[only].op = req[only].op /\ req'[only].booking = b /\ req[only].booking = b
        BY <1>6 DEF Writes, BookingRequest
    <2>5. Untold(only, b)' = 1 => row'[b].status = "CANCELLED"
        BY <1>6, <2>4 DEF Writes, Stored, Untold
    <2>6. \A c \in Bookings \ {b} : Untold(only, c)' = 0 /\ row'[c] = row[c]
        BY <1>6, <2>4 DEF Writes, Untold
    <2>7. QED
        BY <1>2, <1>3, <2>3, <2>5, <2>6, OnceKept
<1>7. CASE Counts(only)
    <2>1. \A c \in Bookings : Untold(only, c)' = 0
        BY <1>7 DEF Counts, Untold, BookingRequest, Cancelling
    <2>2. QED
        BY <1>3, <1>4, <1>7, <2>1 DEF Counts
<1>8. CASE Serves(only)
    <2>1. \A c \in Bookings : Untold(only, c)' = 0
        BY <1>8 DEF Serves, Untold, BookingOp, Cancelling
    <2>2. QED
        BY <1>3, <1>4, <1>8, <2>1 DEF Serves
<1>9. CASE CancelOpenBookings(only)
    <2>1. /\ req'[only].op = "Deactivate"
          /\ \A c \in Bookings : row[c].status \notin Open => row'[c] = row[c]
        BY <1>1, <1>9, BulkEffect
    <2>2. \A c \in Bookings : Untold(only, c)' = 0
        BY <2>1 DEF Untold, Cancelling
    <2>3. QED
        BY <1>3, <1>4, <2>1, <2>2 DEF Open
<1>10. CASE Forgets(only)
    <2>1. \A c \in Bookings : Untold(only, c)' = 0
        BY <1>10 DEF Forgets, Untold, Idle, Cancelling
    <2>2. QED
        BY <1>3, <1>4, <1>10, <2>1 DEF Forgets
<1>11. CASE UNCHANGED <<row, service, bookingCount, req, deaths>>
    BY <1>3, <1>4, <1>11 DEF Untold
<1>12. QED
    BY <1>1, <1>5, <1>6, <1>7, <1>8, <1>9, <1>10, <1>11 DEF StepKind

\* An event that is published was untold, and waits for its one handler.
LEMMA OncePublished ==
    ASSUME NEW only, Slots = {only}, EventsTypeOK, EventsTypeOK', Once(only),
           PublishEvent(only)
    PROVE  Once(only)'
<1>1. /\ req[only] \in BookingRequest
      /\ inbox \in Inbox
      /\ \A b \in Bookings, t \in Task :
            inbox'[b][t] = IF b = req[only].booking /\ t \in TasksOf(req[only].op)
                           THEN inbox[b][t] + 1 ELSE inbox[b][t]
    BY PublishEffect DEF EventsTypeOK, Inbox
<1>2. /\ req[only].todo = {}
      /\ req'[only] = Idle
      /\ row' = row
      /\ journal' = journal
    BY DEF PublishEvent, Publish, EventsTypeOK, TypeOK
<1>3. ASSUME NEW b \in Bookings
      PROVE  Waiting(b)' <= Waiting(b) + Untold(only, b)
    <2>1. /\ inbox[b]["CancelledByClient"] \in Nat
          /\ inbox[b]["CancelledByPro"] \in Nat
          /\ inbox[b]["CancellationApproved"] \in Nat
        BY <1>1 DEF Inbox, Task
    <2>2. CASE req[only].booking = b /\ req[only].op = "CancelByClient"
        <3>1. TasksOf(req[only].op) = {"CancelledByClient"} /\ Untold(only, b) = 1
            BY <1>2, <2>2 DEF TasksOf, Untold, Cancelling
        <3>2. QED
            BY <1>1, <2>1, <2>2, <3>1 DEF Waiting, Task
    <2>3. CASE req[only].booking = b /\ req[only].op = "CancelByPro"
        <3>1. TasksOf(req[only].op) = {"CancelledByPro"} /\ Untold(only, b) = 1
            BY <1>2, <2>3 DEF TasksOf, Untold, Cancelling
        <3>2. QED
            BY <1>1, <2>1, <2>3, <3>1 DEF Waiting, Task
    <2>4. CASE req[only].booking = b /\ req[only].op = "ApproveCancellation"
        <3>1. TasksOf(req[only].op) = {"CancellationApproved"} /\ Untold(only, b) = 1
            BY <1>2, <2>4 DEF TasksOf, Untold, Cancelling
        <3>2. QED
            BY <1>1, <2>1, <2>4, <3>1 DEF Waiting, Task
    <2>5. CASE ~(req[only].booking = b /\ req[only].op \in Cancelling)
        <3>1. \/ req[only].booking # b
              \/ TasksOf(req[only].op) \subseteq {"Completed"}
            BY <1>1, <2>5 DEF TasksOf, Cancelling, BookingRequest, BookingOp
        <3>2. Waiting(b)' = Waiting(b)
            BY <1>1, <3>1 DEF Waiting, Task
        <3>3. Untold(only, b) = 0
            BY <2>5 DEF Untold
        <3>4. QED
            BY <2>1, <3>2, <3>3 DEF Waiting
    <2>6. QED
        BY <2>2, <2>3, <2>4, <2>5 DEF Cancelling
<1>4. ASSUME NEW b \in Bookings
      PROVE  /\ Untold(only, b)' = 0
             /\ Untold(only, b) \in {0, 1}
             /\ Waiting(b) \in Nat /\ Waiting(b)' \in Nat
             /\ Entered(b) \in Nat /\ Entered(b)' = Entered(b)
    BY <1>2 DEF Untold, Idle, Cancelling, EventsTypeOK, Waiting, Entered, Task, Initiator
<1>5. QED
    BY <1>2, <1>3, <1>4, OnceKept

\* A handler that ends has made its one entry; one that dies, none.
LEMMA OnceHandled ==
    ASSUME NEW only, Slots = {only}, EventsTypeOK, EventsTypeOK', Once(only),
           NEW b \in Bookings,
           \/ CheckCompleted(b) \/ OpenSession(b) \/ LoseEvent(b)
           \/ \E t \in CancellationTask, i \in Initiator : Journalise(b, t, i)
    PROVE  Once(only)'
<1>1. row' = row /\ req' = req
    BY DEF CheckCompleted, OpenSession, LoseEvent, Journalise, vars
<1>2. ASSUME NEW c \in Bookings
      PROVE  /\ Untold(only, c)' = Untold(only, c)
             /\ Untold(only, c) \in {0, 1}
             /\ Waiting(c) \in Nat /\ Waiting(c)' \in Nat
             /\ Entered(c) \in Nat /\ Entered(c)' \in Nat
    BY <1>1 DEF Untold, EventsTypeOK, Waiting, Entered, Task, Initiator
\* It is enough that waiting and entered together do not grow.
<1>3. ASSUME \A c \in Bookings : Waiting(c)' + Entered(c)' <= Waiting(c) + Entered(c)
      PROVE  Once(only)'
    BY <1>1, <1>2, <1>3, OnceKept
<1>4. /\ \A c \in Bookings, t \in Task : inbox[c][t] \in Nat /\ inbox'[c][t] \in Nat
      /\ \A c \in Bookings, i \in Initiator : journal[c][i] \in Nat
    BY DEF EventsTypeOK
<1>5. ASSUME journal' = journal,
             \A c \in Bookings : \A t \in CancellationTask : inbox'[c][t] <= inbox[c][t]
      PROVE  Once(only)'
    <2>1. ASSUME NEW c \in Bookings
          PROVE  Waiting(c)' <= Waiting(c) /\ Entered(c)' = Entered(c)
        BY <1>4, <1>5 DEF Waiting, Entered, CancellationTask, Task
    <2>2. QED
        BY <1>2, <1>3, <2>1
<1>6. CASE CheckCompleted(b)
    <2>1. \A c \in Bookings : \A t \in CancellationTask : inbox'[c][t] = inbox[c][t]
        BY <1>6, CheckEffect DEF CancellationTask, Task
    <2>2. journal' = journal
        BY <1>6 DEF CheckCompleted
    <2>3. QED
        BY <1>4, <1>5, <2>1, <2>2 DEF CancellationTask, Task
<1>7. ASSUME NEW t \in Task, inbox[b][t] > 0, inbox' = [inbox EXCEPT ![b][t] = @ - 1]
      PROVE  \A c \in Bookings : \A u \in CancellationTask : inbox'[c][u] <= inbox[c][u]
    BY <1>4, <1>7, TakeOne DEF CancellationTask, Task
<1>8. CASE OpenSession(b)
    BY <1>5, <1>7, <1>8 DEF OpenSession, Task
<1>9. CASE LoseEvent(b)
    BY <1>5, <1>7, <1>9 DEF LoseEvent
<1>10. ASSUME NEW t \in CancellationTask, NEW i \in Initiator, Journalise(b, t, i)
       PROVE  Once(only)'
    <2>1. /\ t \in Task
          /\ inbox[b][t] > 0
          /\ inbox' = [inbox EXCEPT ![b][t] = @ - 1]
          /\ journal' = [journal EXCEPT ![b][i] = @ + 1]
        BY <1>10 DEF Journalise, CancellationTask, Task
    <2>2. /\ \A c \in Bookings, u \in Task :
                inbox'[c][u] = IF c = b /\ u = t THEN inbox[c][u] - 1 ELSE inbox[c][u]
          /\ \A c \in Bookings, j \in Initiator :
                journal'[c][j] = IF c = b /\ j = i THEN journal[c][j] + 1 ELSE journal[c][j]
        BY <2>1, TakeOne, AddOne
    <2>3. ASSUME NEW c \in Bookings
          PROVE  /\ Waiting(c)' = IF c = b THEN Waiting(c) - 1 ELSE Waiting(c)
                 /\ Entered(c)' = IF c = b THEN Entered(c) + 1 ELSE Entered(c)
        BY <1>4, <2>2 DEF Waiting, Entered, CancellationTask, Task, Initiator
    <2>4. QED
        BY <1>2, <1>3, <2>3
<1>11. QED
    BY <1>6, <1>8, <1>9, <1>10

EventsSerialInv(r) == EventsTypeOK /\ SerialInv(r) /\ Once(r)

\* The invariant holds at first.
LEMMA InitEventsSerial ==
    ASSUME NEW only \in Slots
    PROVE  EventsInit => EventsSerialInv(only)
BY EventsInitType, InitSerial, InitOnce DEF EventsInit, EventsSerialInv

\* Every step keeps it.
LEMMA EventsSerialInvStep ==
    ASSUME NEW only, Slots = {only}, EventsSerialInv(only), [EventsNext]_allVars
    PROVE  EventsSerialInv(only)'
<1>1. EventsTypeOK' /\ SerialInv(only)'
    BY EventsStepType, EventsSerialStep DEF EventsSerialInv
<1>2. Once(only)'
    BY <1>1, EveryEventsKind, OnceQuietly, OncePublished, OnceHandled
       DEF EventsSerialInv, EventsKind
<1>3. QED
    BY <1>1, <1>2 DEF EventsSerialInv

\* One request at a time, its events handled whenever they are: the counter, the
\* withdrawal of a deactivated service's bookings and the journal are each brought
\* up to date once.  A booking has at most one entry in the journal even if handlers
\* and requests die.
THEOREM OneAtATimeEffects ==
    ASSUME NEW only, Slots = {only}
    PROVE  EventsSpec => []SerialEffects
<1>1. EventsSerialInv(only) => SerialEffects
    <2>1. SUFFICES ASSUME EventsSerialInv(only) PROVE SerialJournal
        BY CountedCounts DEF EventsSerialInv, SerialInv, SerialEffects
    <2>2. QED
        BY <2>1 DEF EventsSerialInv, EventsTypeOK, Once, Untold, Waiting, Entered,
                    SerialJournal, Task, Initiator
<1>2. EventsSerialInv(only) /\ [EventsNext]_allVars => EventsSerialInv(only)'
    BY EventsSerialInvStep
<1>3. EventsInit => EventsSerialInv(only)
    BY InitEventsSerial
<1>4. QED
    BY <1>1, <1>2, <1>3, PTL DEF EventsSpec

\* One request at a time, and whatever the subscribers do: every change of a
\* booking is a step of the promised lifecycle.
THEOREM EventsOneAtATimeImplements ==
    ASSUME NEW only, Slots = {only}
    PROVE  EventsSpec => SerialLifecycle
<1>1. EventsInit => Lifecycle!Init /\ SerialInv(only)
    BY InitSerial DEF EventsInit, Init, Lifecycle!Init, AbsentRow
<1>2. SerialInv(only) /\ [EventsNext]_allVars => SerialInv(only)'
    BY EventsSerialStep
<1>3. SerialInv(only) /\ [EventsNext]_allVars
        => [Lifecycle!Next]_(Lifecycle!lifecycleVars)
    <2>1. ASSUME IInv, Undisturbed(only), NEW r \in Slots, StaleWrite(r)
          PROVE  FALSE
        <3>1. "row" \in req[r].todo /\ r = only
            BY <2>1, WriteEffect DEF IInv, StaleWrite, Writes
        <3>2. QED
            BY <2>1, <3>1 DEF StaleWrite, Undisturbed
    <2>2. QED
        BY <2>1, BookingSide, StepLifecycle, SameRows DEF SerialInv, Loses
<1>4. QED
    BY <1>1, <1>2, <1>3, PTL DEF EventsSpec, SerialLifecycle, Lifecycle!Spec

-----------------------------------------------------------------------------
(***************************************************************************)
(* Completed bookings get their session.  That they do is liveness, which  *)
(* TLC checks with one request at a time; that nothing but a death stops   *)
(* it on the way is an invariant, for any number of requests.              *)
(***************************************************************************)

\* The request that completed a booking, between its update and its event.
Completing(r, b) ==
    req[r].op = "Complete" /\ req[r].booking = b /\ "row" \notin req[r].todo

OnItsWay(b) ==
    \/ b \in session
    \/ inbox[b]["Completed"] > 0
    \/ inbox[b]["OpenSession"] > 0
    \/ \E r \in Slots : Completing(r, b)

CompletionsFollowed ==
    deaths = 0 => \A b \in Bookings : row[b].status = "COMPLETED" => OnItsWay(b)

\* Unless it dies, a request that completed a booking is forgotten only when its
\* event is published, and only such a request makes a booking completed.
LEMMA SilentCompletes ==
    ASSUME IInv, SilentStep, deaths' = deaths, NEW b \in Bookings
    PROVE  /\ \A r \in Slots : Completing(r, b) => Completing(r, b)'
           /\ row'[b].status = "COMPLETED"
                => row[b].status = "COMPLETED" \/ \E r \in Slots : Completing(r, b)'
<1>1. /\ TypeOK
      /\ req \in [Slots -> BookingRequest \cup ServiceRequest \cup {Idle}]
    BY DEF IInv, TypeOK
<1>2. ASSUME NEW r \in Slots, ~\E c \in Bookings : Completing(r, c),
             \A q \in Slots \ {r} : req'[q] = req[q]
      PROVE  \A q \in Slots : Completing(q, b) => Completing(q, b)'
    BY <1>2 DEF Completing
<1>3. ASSUME NEW r \in Slots, ReadStep(r)
      PROVE  /\ \A q \in Slots : Completing(q, b) => Completing(q, b)'
             /\ row' = row
    <2>1. PICK op \in BookingOp, c \in Bookings : Begins(r, op, c)
        BY <1>1, <1>3, ReadEffect
    <2>2. \A c2 \in Bookings : ~Completing(r, c2)
        BY <2>1 DEF Begins, Completing, Idle
    <2>3. QED
        BY <1>2, <2>1, <2>2 DEF Begins
<1>4. ASSUME NEW r \in Slots, WriteStep(r)
      PROVE  /\ \A q \in Slots : Completing(q, b) => Completing(q, b)'
             /\ row'[b].status = "COMPLETED"
                  => row[b].status = "COMPLETED" \/ Completing(r, b)'
    <2>1. PICK c \in Bookings, new \in Row : Writes(r, c, new)
        BY <1>1, <1>4, WriteEffect
    <2>2. req[r] \in BookingRequest /\ req[r].op \in BookingOp
        BY <1>1, <1>4, WriteEffect DEF BookingRequest
    <2>3. \A c2 \in Bookings : ~Completing(r, c2)
        BY <2>1 DEF Writes, Completing
    <2>4. /\ req'[r].op = req[r].op
          /\ req'[r].booking = c
          /\ "row" \notin req'[r].todo
        BY <2>1, <2>2 DEF Writes, BookingRequest
    <2>5. new.status = "COMPLETED" => req[r].op = "Complete" \/ row[c].status = "COMPLETED"
        BY <2>1, <2>2 DEF Writes, Stored, BookingOp, Cancelling
    <2>6. row'[b] = IF b = c THEN new ELSE row[b]
        BY <2>1 DEF Writes
    <2>7. QED
        BY <1>2, <2>1, <2>3, <2>4, <2>5, <2>6 DEF Writes, Completing
<1>5. ASSUME NEW r \in Slots, CountConfirmed(r)
      PROVE  /\ \A q \in Slots : Completing(q, b) => Completing(q, b)'
             /\ row' = row
    <2>1. \A c \in Bookings : ~Completing(r, c)
        BY <1>5 DEF CountConfirmed, Completing
    <2>2. QED
        BY <1>1, <1>2, <1>5, <2>1 DEF CountConfirmed
<1>6. ASSUME NEW r \in Slots, ServiceStep(r)
      PROVE  /\ \A q \in Slots : Completing(q, b) => Completing(q, b)'
             /\ row'[b].status = "COMPLETED" => row[b].status = "COMPLETED"
    <2>1. CASE Serves(r)
        <3>1. \A c \in Bookings : ~Completing(r, c)
            BY <2>1 DEF Serves, Completing, BookingOp
        <3>2. QED
            BY <1>2, <2>1, <3>1 DEF Serves
    <2>2. CASE CancelOpenBookings(r)
        <3>1. \A c \in Bookings : ~Completing(r, c)
            BY <1>1, <2>2, BulkEffect DEF Completing
        <3>2. QED
            BY <1>1, <1>2, <2>2, <3>1, BulkEffect
    <2>3. QED
        BY <1>1, <1>6, <2>1, <2>2, ServiceEffect
<1>7. ASSUME NEW r \in Slots, Die(r) PROVE FALSE
    BY <1>1, <1>7 DEF Die, TypeOK
<1>8. CASE ChangeGate
    BY <1>8 DEF ChangeGate, Completing
<1>9. QED
    BY <1>3, <1>4, <1>5, <1>6, <1>7, <1>8 DEF SilentStep

\* A step that leaves the bookings alone and takes nothing from what is on its way.
LEMMA OnItsWayStays ==
    ASSUME CompletionsFollowed, UNCHANGED <<row, deaths>>,
           \A b \in Bookings : row[b].status = "COMPLETED" /\ OnItsWay(b) => OnItsWay(b)'
    PROVE  CompletionsFollowed'
BY DEF CompletionsFollowed

\* Every step but a death follows a completion up.
LEMMA FollowedStep ==
    ASSUME EventsTypeOK, IInv, CompletionsFollowed, [EventsNext]_allVars
    PROVE  CompletionsFollowed'
<1>1. /\ deaths \in Nat
      /\ inbox \in Inbox
    BY DEF EventsTypeOK, TypeOK, Inbox
<1>2. CASE Quietly
    <2>1. /\ SilentStep
          /\ session' = session /\ inbox' = inbox
        BY <1>2 DEF Quietly, eventVars
    <2>2. deaths' = deaths \/ deaths' # 0
        <3>1. ASSUME NEW r \in Slots, ReadStep(r) \/ WriteStep(r) \/ CountConfirmed(r)
                                                \/ ServiceStep(r)
              PROVE  deaths' = deaths
            <4>1. CASE ReadStep(r)
                BY <2>1, <4>1, ReadEffect DEF Begins, EventsTypeOK
            <4>2. CASE WriteStep(r)
                BY <2>1, <4>2, WriteEffect DEF Writes, EventsTypeOK
            <4>3. CASE CountConfirmed(r)
                BY <4>3 DEF CountConfirmed
            <4>4. CASE ServiceStep(r)
                BY <2>1, <4>4, ServiceEffect, BulkEffect DEF Serves, EventsTypeOK
            <4>5. QED
                BY <3>1, <4>1, <4>2, <4>3, <4>4
        <3>2. ASSUME NEW r \in Slots, Die(r)
              PROVE  deaths' # 0
            BY <1>1, <3>2 DEF Die
        <3>3. ASSUME ChangeGate
              PROVE  deaths' = deaths
            BY <3>3 DEF ChangeGate
        <3>4. QED
            BY <2>1, <3>1, <3>2, <3>3 DEF SilentStep
    <2>3. CASE deaths' # 0
        BY <2>3 DEF CompletionsFollowed
    <2>4. CASE deaths' = deaths
        <3>1. SUFFICES ASSUME deaths = 0, NEW b \in Bookings, row'[b].status = "COMPLETED"
                       PROVE  OnItsWay(b)'
            BY <2>4 DEF CompletionsFollowed
        <3>2. row[b].status = "COMPLETED" \/ \E r \in Slots : Completing(r, b)'
            BY <2>1, <2>4, <3>1, SilentCompletes
        <3>3. OnItsWay(b) => OnItsWay(b)'
            BY <2>1, <2>4, SilentCompletes DEF OnItsWay
        <3>4. QED
            BY <3>1, <3>2, <3>3 DEF CompletionsFollowed, OnItsWay
    <2>5. QED
        BY <2>2, <2>3, <2>4
<1>3. ASSUME NEW r \in Slots, PublishEvent(r)
      PROVE  CompletionsFollowed'
    <2>1. /\ UNCHANGED <<row, deaths, session>>
          /\ \A q \in Slots \ {r} : req'[q] = req[q]
          /\ \A b \in Bookings, t \in Task :
                inbox'[b][t] = IF b = req[r].booking /\ t \in TasksOf(req[r].op)
                               THEN inbox[b][t] + 1 ELSE inbox[b][t]
        BY <1>3, PublishEffect DEF PublishEvent, Publish, EventsTypeOK, TypeOK
    <2>2. ASSUME NEW b \in Bookings, OnItsWay(b)
          PROVE  OnItsWay(b)'
        <3>1. inbox[b]["Completed"] \in Nat /\ inbox[b]["OpenSession"] \in Nat
            BY <1>1 DEF Inbox, Task
        <3>2. CASE Completing(r, b)
            <4>1. "Completed" \in TasksOf(req[r].op) /\ b = req[r].booking
                BY <3>2 DEF Completing, TasksOf
            <4>2. inbox'[b]["Completed"] = inbox[b]["Completed"] + 1
                BY <2>1, <4>1 DEF Task
            <4>3. QED
                BY <3>1, <4>2 DEF OnItsWay
        <3>3. CASE \E q \in Slots \ {r} : Completing(q, b)
            BY <2>1, <3>3 DEF Completing, OnItsWay
        <3>4. CASE b \in session
            BY <2>1, <3>4 DEF OnItsWay
        <3>5. CASE inbox[b]["Completed"] > 0 \/ inbox[b]["OpenSession"] > 0
            <4>1. \A t \in Task : inbox'[b][t] = inbox[b][t] + 1 \/ inbox'[b][t] = inbox[b][t]
                BY <2>1
            <4>2. /\ inbox'[b]["Completed"] = inbox[b]["Completed"] + 1
                     \/ inbox'[b]["Completed"] = inbox[b]["Completed"]
                  /\ inbox'[b]["OpenSession"] = inbox[b]["OpenSession"] + 1
                     \/ inbox'[b]["OpenSession"] = inbox[b]["OpenSession"]
                BY <4>1 DEF Task
            <4>3. inbox'[b]["Completed"] > 0 \/ inbox'[b]["OpenSession"] > 0
                BY <3>1, <3>5, <4>2
            <4>4. QED
                BY <4>3 DEF OnItsWay
        <3>6. QED
            BY <2>2, <3>2, <3>3, <3>4, <3>5 DEF OnItsWay
    <2>3. QED
        BY <2>1, <2>2, OnItsWayStays
\* What a handler does to other tasks and bookings is of no matter.
<1>4. ASSUME UNCHANGED <<row, req, deaths>>, session \subseteq session', NEW b \in Bookings,
             \A c \in Bookings \ {b} : \A t \in Task : inbox'[c][t] = inbox[c][t],
             row[b].status = "COMPLETED" /\ OnItsWay(b) => OnItsWay(b)'
      PROVE  CompletionsFollowed'
    <2>1. \A c \in Bookings \ {b} : OnItsWay(c) => OnItsWay(c)'
        BY <1>4 DEF OnItsWay, Completing, Task
    <2>2. QED
        BY <1>4, <2>1, OnItsWayStays
<1>5. ASSUME NEW b \in Bookings, CheckCompleted(b)
      PROVE  CompletionsFollowed'
    <2>1. /\ UNCHANGED <<row, req, deaths, session>>
          /\ inbox' = [inbox EXCEPT ![b] =
                [inbox[b] EXCEPT !["Completed"] = @ - 1,
                                 !["OpenSession"] = IF row[b].status = "COMPLETED"
                                                    THEN @ + 1 ELSE @]]
        BY <1>5 DEF CheckCompleted, vars
    <2>2. row[b].status = "COMPLETED" => inbox'[b]["OpenSession"] > 0
        <3>1. PICK left : left = [inbox[b] EXCEPT !["Completed"] = @ - 1,
                                     !["OpenSession"] = IF row[b].status = "COMPLETED"
                                                        THEN @ + 1 ELSE @]
            OBVIOUS
        <3>2. inbox'[b] = left
            BY <1>1, <2>1, <3>1 DEF Inbox
        <3>3. inbox[b] \in [Task -> Nat]
            BY <1>1 DEF Inbox
        <3>4. row[b].status = "COMPLETED" => left["OpenSession"] = inbox[b]["OpenSession"] + 1
            BY <3>1, <3>3 DEF Task
        <3>5. QED
            BY <3>2, <3>3, <3>4 DEF Task
    <2>3. \A c \in Bookings \ {b} : inbox'[c] = inbox[c]
        <3>1. PICK left : left = [inbox[b] EXCEPT !["Completed"] = @ - 1,
                                     !["OpenSession"] = IF row[b].status = "COMPLETED"
                                                        THEN @ + 1 ELSE @]
            OBVIOUS
        <3>2. inbox' = [inbox EXCEPT ![b] = left]
            BY <2>1, <3>1
        <3>3. QED
            BY <1>1, <3>2 DEF Inbox
    <2>4. QED
        BY <1>4, <2>1, <2>2, <2>3 DEF OnItsWay
<1>6. ASSUME NEW b \in Bookings, OpenSession(b)
      PROVE  CompletionsFollowed'
    <2>1. /\ UNCHANGED <<row, req, deaths>>
          /\ session' = session \cup {b}
          /\ \A c \in Bookings \ {b} : \A t \in Task : inbox'[c][t] = inbox[c][t]
        BY <1>6, TakeOne DEF OpenSession, vars, Task
    <2>2. QED
        BY <1>4, <2>1 DEF OnItsWay
<1>7. ASSUME NEW b \in Bookings, NEW t \in CancellationTask, NEW i \in Initiator,
             Journalise(b, t, i)
      PROVE  CompletionsFollowed'
    <2>1. UNCHANGED <<row, req, deaths, session>>
        BY <1>7 DEF Journalise, vars
    <2>2. \A c \in Bookings, u \in Task :
                inbox'[c][u] = IF c = b /\ u = t THEN inbox[c][u] - 1 ELSE inbox[c][u]
        <3>1. t \in Task
            BY DEF CancellationTask, Task
        <3>2. inbox[b][t] > 0 /\ inbox' = [inbox EXCEPT ![b][t] = @ - 1]
            BY <1>7 DEF Journalise
        <3>3. QED
            BY <3>1, <3>2, TakeOne
    <2>3. OnItsWay(b) => OnItsWay(b)'
        BY <2>1, <2>2 DEF OnItsWay, Completing, CancellationTask, Task
    <2>4. QED
        BY <1>4, <2>1, <2>2, <2>3
<1>8. ASSUME NEW b \in Bookings, LoseEvent(b)
      PROVE  CompletionsFollowed'
    BY <1>1, <1>8 DEF LoseEvent, CompletionsFollowed
<1>9. CASE UNCHANGED allVars
    <2>1. UNCHANGED <<row, req, deaths, session, inbox>>
        BY <1>9 DEF allVars, vars, eventVars
    <2>2. \A b \in Bookings : OnItsWay(b) => OnItsWay(b)'
        BY <2>1 DEF OnItsWay, Completing
    <2>3. QED
        BY <2>1, <2>2, OnItsWayStays
<1>10. ASSUME NEW b \in Bookings, Handle(b)
       PROVE  CompletionsFollowed'
    BY <1>5, <1>6, <1>7, <1>10
       DEF Handle, JournaliseCancelled, JournaliseApproved, InitiatedBy, Initiator,
           CancellationTask
<1>11. QED
    BY <1>2, <1>3, <1>8, <1>9, <1>10 DEF EventsNext

\* However requests overlap, and until one or a handler dies: a completed booking has
\* its review session, or a request or a handler that is still at work will see to it.
\* No stale write makes a booking completed behind the subscriber's back.
THEOREM CompletionsAreFollowed == EventsSpec => []CompletionsFollowed
<1>1. EventsInit => EventsTypeOK /\ IInv /\ NewRows /\ CompletionsFollowed
    <2>1. EventsInit => CompletionsFollowed
        BY DEF EventsInit, Init, AbsentRow, CompletionsFollowed
    <2>2. QED
        BY <2>1, EventsInitType, EventsInitStory
<1>2. EventsTypeOK /\ IInv /\ NewRows /\ CompletionsFollowed /\ [EventsNext]_allVars
        => (EventsTypeOK /\ IInv /\ NewRows /\ CompletionsFollowed)'
    BY EventsStepType, EventsStory, FollowedStep
<1>3. QED
    BY <1>1, <1>2, PTL DEF EventsSpec
=============================================================================
