# A verification project for the Sefaizo API

The Sefaizo API (`src/`, NestJS, Prisma on PostgreSQL, BullMQ on Redis) lets
clients book beauty professionals: a professional publishes services and working
hours, a client books, the professional confirms, both review each other.  This
directory holds TLA+ models of it, the TLC runs that check them on small
instances, and TLAPS proofs for every size of instance.

Paths are relative to the repository; the sources are under `src/`.

## 1. How the program runs, and why that is hard

* `ecosystem.config.js` starts one API process per core (PM2 cluster) and one
  worker.  Every API process answers requests, runs every `@Cron` job, consumes
  the notification queue and has its **own** in-memory event bus.
* A command handler reads rows, tests its guards on what it read, then writes with
  an `update` that names only the id.  Apart from the reveal of reviews, the
  registration of a user and the save of the professional's aggregate, no
  transaction spans two statements.  **Every `await` is a point where any other
  request may run.**
* PostgreSQL runs at READ COMMITTED (Prisma's default): a transaction's updates lock
  their rows until it commits; each statement sees what is committed when it starts.
* The timeout interceptor answers 408 after 30 seconds, but the handler goes on.
* An event that is published and whose process dies is lost: nothing is persisted.
* Handlers of the professional module load an aggregate, change it in memory and
  save it whole, so a save writes back every column as it was loaded.
* A plain `select` in a transaction locks nothing; an insertion shares the rows its
  foreign keys name (KEY SHARE) until the commit, and a change of a unique column
  waits until nobody shares the row.

## 2. Inventory

| component | code | state | operations | correct when | status |
|---|---|---|---|---|---|
| Booking lifecycle | `professional/interface/handlers/booking.handlers.ts`, `client/interface/handlers/booking.handlers.ts`, `DeactivateServiceHandler` | `Booking`, `ServiceOffering`, `bookingCount` | create, confirm, reject, complete, no-show, cancel by either side, request / approve / reject a cancellation, deactivate / activate / delete / edit a service | only the documented changes of status; the dates and the request's columns agree with the status; the counter counts confirmations | modelled |
| Subscribers of the review module | `review/interface/handlers/booking-event.handlers.ts` | `ReviewSession`, `CancellationEvent` | open a session, enter a cancellation | completed bookings get a session; the journal holds only facts, and names their author | modelled |
| Schedule | `validateBookingSlot`, `findOverlappingBookings`, `ConfirmBookingHandler`, `GetAvailableSlotsHandler` | `Booking`, `Availability` | offer, accept, warn of overlaps | what is offered is accepted; the professional knows of each overlap | modelled |
| Reviews | `submit-review.handler.ts`, `edit-review.handler.ts`, `review.scheduler.ts` | `ReviewSession`, `Review`, rating and count | submit, edit, reveal, reveal the expired | reviews are blind until both are in or 48 hours passed; the rating is that of the visible reviews | modelled |
| Notifications | `pulse/` | `Notification`, the BullMQ queue | fan out, enqueue, dispatch, mark read, reminders | each notification is sent once or known to have failed; no reminder before its date | partly: all but the registration of devices |
| Professional's aggregate | `professional.entity.ts`, `professional.repository.ts`, `profile.handlers.ts`, `professional.scheduler.ts`, `professional-eligibility.service.ts` | `Professional` | verify, reject, resubmit, suspend, reactivate, pause, resume, toggle the listing, three jobs, the eligibility refresh | a suspension lasts; a pause lasts; the gates follow the profile | partly: all but the listing in `Professional`; services in `Booking` and `Catalogue`, rating in `Review` |
| Availability | `availability.handlers.ts`, `availability.entity.ts`, the methods of the aggregate | `Availability` | set, set several or the whole week, update, remove, close, leave | one row per day; a removed day stays removed; a break lies in its hours | modelled |
| Categories and services | `service.handlers.ts` 53-535, 656-759 | `ServiceCategory`, `ServiceCategoryRequest`, `ServiceOffering` | create, rename, delete a category; request one, approve, reject; add, move, remove a service, or replace the whole list | a service is in a category that is there, the one it was given; a request is decided once | modelled |
| Gallery, profile images | `gallery.handlers.ts`, `profile.handlers.ts` 384-468 | `GalleryItem`, `profileImageUrls` | add, remove, reorder, primary | the cap holds; the primary is among them | not modelled: lists that nothing else decides on; their saves are the `Edit` of `Booking`, `Professional` and `Catalogue` |
| Sentinel | `sentinel/` | `User`, `PhoneNumber`, `OtpCode`, `RefreshToken`, onboarding metadata | send and verify a code, register, log in, refresh, log out here or everywhere, skip a step, reset the PIN | the last code sent is the one that works; one account per phone and app; a session has one valid token; no step is lost | partly: what section 3 lists |
| Media | `media/` | none of its own | upload, sign | — | not modelled: input/output to an external store |
| Queries, presenters, controllers, `libs/` | the rest | none | read, route, configure | — | not modelled, but for the slots query and the routes' arguments |
| `generated/`, `prisma/migrations`, `scripts/`, `postman/` | — | — | — | — | generated or one-off |

The components meet in four ways: through shared rows (a booking's status is read
by the schedule, the reviews and the notifications); through the event bus (the
booking handlers publish, `review` and `pulse` subscribe); through calls (every
change of a service ends in `ProfessionalEligibilityService.refresh`); and through the
aggregate, which each save rewrites whole.

`PROJECT.json` lists the hazards of each component at the line where they bite.

## 3. The models

### `BookingLifecycle`: what the handlers promise

The state is the status and the cancellation request of each booking; each
operation tests and changes it in one step.  The guards are those under which the
handlers answer something else than an error.

### `Booking`: what the handlers do

| model | code |
|---|---|
| `row[b]` | the `Booking` row: status, whether `confirmedAt`, `cancelledAt`, `cancellationRequestedAt`, `cancellationReviewedAt` hold a date, and the request's status |
| `service[s]` | `ServiceOffering.isActive` and `deletedAt` |
| `bookable` | the conjunction of the gates `CreateClientBookingHandler` tests |
| `bookingCount` | `Professional.bookingCount` |
| `req[r]` | a request in flight: its operation, its booking, the row it read (`seen`), the statements it has not executed (`todo`) |
| `ReadTo...` | from the handler's first line to the last guard |
| `Write...` | the `update` (or `create`) |
| `CountConfirmed` | the second statement of Confirm's `Promise.all`, in either order |
| `Publish` | `eventBus.publish` and the answer |
| `Load`, `Save`, `CancelOpenBookings`, `RefreshEligibility` | `findById`, `save`, `updateMany` and `refresh` of the service handlers |
| `Die` | a crash, or a statement that fails: the remaining steps never run |

A guard that fails answers an error and leaves no trace; only the accepting
branch is a step.  `Edit` stands for all handlers that save the aggregate without
changing whether a service is active (edit, commune fee, image, availability,
gallery).  A save leaves the gates arbitrary, because it writes them as they were
loaded; so does the refresh, which recomputes them from a profile that this
module does not have.  `MaxDeaths` bounds `Die`; nothing else is bounded but by
the constants.

### `BookingEvents`: Booking and its subscribers

Adds `inbox` (handlers at work, per booking and event), `session` and `journal`.
Publishing hands the event to the handler at once; the handlers then run in any
order; the completion handler reads the booking again (`CheckCompleted`) before it
upserts (`OpenSession`).  `LoseEvent` is the death of a handler.  The two routes
that cancel a booking put two kinds of id in the event: `CancelledBy` and
`InitiatedBy` keep them apart.

### `Schedule`: offers, acceptance and overlaps

The code keeps instants in milliseconds and durations and hours in minutes.  In the
model an instant is a number of ticks, `Minute` of which are a minute (60000 in the
code), and a booking may start at any tick, since the DTO accepts any date string.
`Accepted`, `CreationOverlaps`, `ConfirmationOverlaps`, `Offered` and `Counted`
translate the five pieces of code that compare intervals, with the windows of their
queries and in their own units: the two checks compare ticks, while the acceptance and
the slots query compare minutes and take of a start what `MinuteOf` leaves of it, its
seconds dropped.  Two history variables
say which overlaps a confirmation reported (`told`) and which confirmations ran
together (`together`).  The hours are the same every day, end within it (the entity
refuses any other time), change at any time, and
need not be kept by bookings already made.  The travel buffer is constant.
Creation's warnings change no state and appear in `CountsDiffer` only.

### `Review`: blind reviews and their reveal

`written`, `edited`, `visible` are sets of `<<session, side>>`; `score` is the
rating and count as a sum and a count.  The reveal is a transaction of three
steps (`MarkVisible`, `TallyVisible`, `CommitReveal`): its rows stay locked from
the first to the last, and its aggregate sees what others committed plus its own
updates.  `StartJob` is the scheduler's one query; the job then treats its
sessions in any order, in one of the two ways of the code, and publishes each.
`SaveProfile` is any save of the aggregate: it writes the rating it loaded.
`Expire` is the passing of the 48 hours; the 30 minutes of an edit are left to the
environment, since a request may come at any time.

### `Notification`: from an event to what it sends

| model | code |
|---|---|
| `Fanouts` | which event tells whom, on which channels (`notifications-event.handlers.ts`) |
| `DryRun` | the channels in dry run |
| `handler[e]` | the handler of event `e`: its calls of `createFanoutNotification` at work (one `Promise.all`), the reminders to plan |
| `row[n]` | the status of a notification's row; a notification is its event, type, recipient and channel |
| `queue[n]` | its BullMQ entry: state, due date, attempts made, stalls, the worker that holds it |
| `worker[w]` | the dispatch a worker is in: before the read, the provider, or the last update |
| `CreateRow`, `Enqueue`, `NextChannel` | the body of the loop over channels |
| `FailCall`, `CrashHandler`, `FailStatement`, `Die`, `LoseLock` | a failure: of a statement, a process, the renewal of a lock; `MaxFaults` bounds them |
| `Throw`, `Return`, `RecoverStalled` | BullMQ: three attempts, one recovery from a stall |

In dry run a channel's provider is not called: `sendPush`, `sendWhatsApp` and
`sendSms` log what they would send and return, and `dispatch` marks the row SENT
(`Deliver` leaves `sent` alone).  All three channels are in dry run unless
`NOTIFICATIONS_DRY_RUN` is set, and to something else than 1, true, yes or on, so that
it is the default and what `.env.example` asks for; WhatsApp or SMS alone is so too when its
token is missing or contains "fake".  A row marked SENT therefore says that a message
left the application only on a live channel, and this is what `SentWasDelivered`
claims.  The API and the worker are taken to run with the same environment.
On a live channel the provider may deliver and yet fail to answer; a push may be
answered and reach no device.  `sent` is a history variable: how often each notification went out.
The clock runs to `Horizon`, the appointment; a reminder is due one or two ticks
before.  The backoff between attempts and the deletion of old entries are left
out: an entry waits and is taken later anyway.

### `Professional`: status, pauses, jobs and the refresh

| model | code |
|---|---|
| `pro` | the `Professional` row: status, flag, reason, the two columns of the pause; and how complete the profile is, as far as the jobs and the refresh look (`profile`: filled, blank, empty; `availability`) |
| `proc[p]` | a request or a job: the aggregate it loaded (`seen`), or how far its refresh is |
| `Load`, `Save` | `findById` and `save` of every handler of the aggregate; a query with its `include`s counts as one read, the save is one transaction |
| `Changed` | the entity's method between them: the set of its results, empty when it throws |
| `Write` | what a save does to columns that are undefined in memory, and to rows it does not know |
| `StartJob` | the query of one of the three jobs, which is also its load |
| `ReadEligible`, `WriteEligible` | the two statements of the refresh |

A blank bio is kept apart from none: the auto-verification asks for a bio that is
not null, the auto-rejection for one that is not blank, so both jobs may choose one
professional.  A slot runs a request or another process's copy of a job.
Services, images, name and category are folded into `profile`, which an update sets
to anything.  The listing, which no job reads, is not followed.

### `Availability` and `Catalogue`: what a professional offers

`Availability` has the days: `Row` is an entity and its row at once, with the id it
is given in memory.  Each method of the aggregate is the set of its results, empty
when it throws; `Saved` is what the transaction makes of the table.

| model | code |
|---|---|
| `days`, `services` | `Availability` and `ServiceOffering` of one professional; of a service its category and its mark |
| `categories`, `proposals` | `ServiceCategory` and `ServiceCategoryRequest` |
| `req[r]` | a request in flight: what it loaded and changed, or what it will write |
| `stale` | history: the tables that others wrote since the request's first read |
| `moved` | history: the services the request gave a category of its own choice |
| `Load`, `Save` | `findById` and `save`, one transaction that also connects each service to the category of its name |
| `ReadTo...`, the rest | the queries of the handlers of the catalogue up to a write, and the write |
| `ReadToPlace`, `ReadToPlaceAll`, `PlaceService` | `AddServiceHandler` and `UpdateServiceHandler`, `UpsertServicesBulkHandler`: the aggregate, changed by what the request asks (`placed`; the bulk update removes what it does not list), then the lookup of the categories |
| `ReadToRename`, `WriteName` | the update of a category; one that brings no name, or the one there is, writes back the name as it was read, and so undoes a renaming in between |
| `Throw` | what a request finds makes it fail: a name that is gone, or taken, a category in use |

A name is unique among deleted rows too, while the handlers look for it among the
others only; so the name of a deleted category can be neither created again nor
approved, and the request throws.  `isActive` of a day, descriptions, fees and
images are not followed; two services of one professional are taken to differ in
name.  The status of a day is kept through every update; it decides on nothing in this
module, so the run leaves all days open and the theorems take any status.

### `Challenge` and `Account`: codes, registration, sessions, skipped steps

One phone number in one app.

| model | code |
|---|---|
| `codes[p]` | the `OtpCode` rows of a purpose in the order of `createdAt`; `sent[p]` counts the messages |
| `granted` | the users that the challenge tokens handed out name, 0 for the token of a registration |
| `slot` | the column of `PhoneNumber` for the app: the user, or 0 |
| `users`, `skippedSteps` | the `User` rows and the skipped steps in their metadata |
| `tokens` | the `RefreshToken` rows; `proof` is the registration or the login's code a token descends from |
| `req[r]` | a request in flight; `on` is what it must not share with another |
| `crossed`, `swept` | history: what two requests were at together; which sessions a logout of all devices ended |
| `InvalidatePrevious`, `SendMessage`, `InsertCode` | the three statements of sending a code, in this order |
| `ReadPhone`, `InsertUser`, `LinkPhone`, `AbortDeadlocked` | the transaction of the registration, with the locks of section 1 |
| `ReadToComplete`, `MarkCompleted`, `CreateSession` | completing a login; likewise `Refresh` |
| `ReadToSkip`, `ReadToReset`, `WriteMetadata` | the two handlers that write the metadata they read |

That a code expires or is blocked, that the PIN is right, that a minute has passed
since the last message: each is left to the environment, which may ask in time or
not at all.  Two registrations that both inserted their user block each other, and
PostgreSQL rolls one back; if one linked the phone before the other inserted, the
second waits, links it too, and the first account is left behind.  The PIN's
failures, devices, terms, the rate limit and the completion of the onboarding are
not followed.  `Rest` is the quiet end of a bounded behaviour, so deadlock is
checked.

## 4. The runs

| run | instance | question | answer |
|---|---|---|---|
| `booking_race` | 1 booking, 1 service, 2 requests and the event handlers, 1 death; the service is edited or deactivated | what holds under every interleaving | the columns of a booking agree (`ColumnsAgree`), the counter covers the confirmed bookings until a death (`CountCoversConfirmed`), `JournalAfterTheFact`; only stale writes leave the lifecycle (`LifecycleUnlessStale`) |
| `booking_serial` | 2 bookings, 2 services, 1 request, fair event handlers, 1 death | do the handlers, one at a time, keep their promise | they implement `BookingLifecycle` (`SerialLifecycle`); `SerialEffects`: a booking is entered in the journal once, and while nothing has died they count exactly and leave no open booking on a deactivated service; a completed booking gets its session |
| `booking_confirm_guard` | 2 requests | is only a pending booking ever confirmed | **no** |
| `events_author` | 1 request | is an entry against the client the client's doing | **no** |
| `schedule_race` | 2 bookings, 2 requests, 2 days of 5 minutes of 2 ticks, durations 1 and 3, buffer 1, three kinds of hours | offers, acceptance and warnings | they agree up to the exceptions that `CountsDiffer` and `WarningsAreRight` spell out |
| `review_race` | 2 sessions, 2 requests, 1 scheduler, 1 death | what holds under every interleaving | reviews are blind until due; one stays hidden only if the window passed while it was submitted; no hidden review counts |
| `review_live` | 2 sessions, 1 request, 1 scheduler, 2 ratings, 1 death, fair | is an expired session revealed; and, until the two overlap, is the rating right, is each reveal announced once | yes |
| `notification` | 1 event of 4 kinds, the professional's notifications, 2 workers, WhatsApp and push live, SMS in dry run, 1 failure | are the rows right about what was sent, is each sent once, in time, with an outcome | yes, on a live channel: again only after a failure, and one failure, wherever it strikes, leaves nothing queued without an outcome; a handler that dies loses one notification of each message to each recipient (`PendingIsQueued`) |
| `professional` | 1 request or foreign job and 1 job at a time (of three), a pause until 1, a clock of 0 and 1, a grace period of 1, fair jobs | do status, flag and reason agree; who may move them, and a pause; do the jobs get their work done | yes; only the save of an aggregate loaded before the last change does what nobody asked for |
| `pause_indefinite` | 1 request, no job | does a pause without a date last until it is ended | **no** |
| `account` | 2 requests in flight, 7 in all, 1 death, 2 steps to skip, fair | codes, registration, sessions, skipped steps: what stays one of each | each does, unless two requests were at the same thing (`crossed`), and then only what the properties say is lost; a registration gets its account even through a deadlock |
| `catalogue` | 2 days, 2 kinds of hours, 1 break, 2 names of which 1 was migrated, 2 requests in flight, 4 in all, bulk updates of up to 2 services, deaths anywhere | what may a save or a review of a proposal do that nobody asked for | nothing, if no other request wrote the tables it had read (`AvailabilityUnlessStale`, `CatalogueUnlessStale`); but a break left out stays |

Why these bounds are enough.  The handlers of a booking meet in its row only (and
in its service's), so what goes wrong between two of them shows on one booking and
two requests; a third adds no kind of conflict, since a write depends on the row
and on what its own request read.  Two services are needed to see that a
deactivation touches its own bookings only, and one request is then enough.  Two
days, a duration of three ticks and a buffer of one make every case of the
interval tests occur: touching, overlapping, containing, past midnight, longer
than the window.  Two ticks to the minute tell a start on the minute from one on a
second, and an overlap of whole minutes from one of less.  Two sessions and a submission against a job are what it takes
for two reveals to race for one rating.  Two requests and a job in flight
(`MaxInFlight = 3`) give each its reveal and one to disturb them.  The calls of two
recipients share no row and no queue entry, so one recipient (`Followed`) suffices;
one event already gives five rows and four entries to two workers, the second of
which is needed when the first loses its lock; one live channel and one in dry run
show both ways to a row marked SENT.  With two failures the second can
undo what the queue does about the first: `OneFaultIsSurvived` says one.
A professional's row is met by two at a time: one load is between another's load
and save, or it is not (`MaxInFlight = 2`); any request may follow it.  The clock
needs one tick before and one after a pause runs out and the grace period ends.
In `account`, seven requests are a code sent, verified and used to register, a login
sent and completed, and two more to disturb any of them.  In `catalogue`, four are a
service that is placed and its category deleted with a save and a renaming around,
or a day that is set, loaded twice and removed; two names tell a renaming from a
swap, the second kind of hours leaves the break outside, and a bulk update of two
services (`MaxListed`) can keep one, add one and remove another.
The proofs of section 5 lift these bounds for most of what the runs check.

`booking_serial` and the serial properties of `review_live` (which hold until
`overlapped`, a history variable, turns true) say what the code does when requests do
not overlap; they are the reference against which the races are read, not a claim that
requests never overlap.  Deadlock is checked in every run.

### Where the code and its own words differ

* **A confirmation revives a cancelled booking** (`booking_confirm_guard`).  Confirm
  reads PENDING; the client cancels; Confirm writes CONFIRMED.  The message says
  "Seules les reservations en attente peuvent etre confirmees".
* **The professional's cancellation counts against the client** (`events_author`).
  The route passes the id of the `Professional` row, the subscriber compares it
  with the owner's user id.
* **A pause without a date ends by itself** (`pause_indefinite`).  "If no date is
  given, the pause is indefinite", but the refresh takes a null date for no pause:
  the next update of a complete profile, or of a service, reopens the bookings.

Races, and other gaps, without a word of the code against them are stated by the
properties that hold.

* `StatusUnlessStale`: a profile edit loaded before a suspension undoes it.
* `HiddenOnlyLate`: a submission that passed its guards before the reveal may insert
  a review that no job will ever show; an edit may be written after it likewise.
* `CountsDiffer`: the overlaps of which the client is not told.  The creation misses a
  booking that began earlier than its window; the slots query misses one of another day,
  and one that starts on a second and runs less than a minute into the slot (one at
  10:00:30 for 30 minutes, seen from the slot of 10:30).
* `WarningsAreRight`: the overlaps of which the professional is not told.
* `SentWasDelivered`: in dry run a row is SENT though nothing left the application.
* `PendingIsQueued`: a death between a row and its queue entry leaves the row PENDING for
  ever, one at most for each message to each recipient.
* `AvailabilityUnlessStale`: two saves give a day two rows, or bring a removed day
  back; and an update that takes the break away leaves the two columns as they were,
  maybe outside the new hours.
* `CatalogueUnlessStale`: a service is saved into a category that was deleted since
  it was looked up, or follows a name to another category after two renamings; a
  rejection that read PENDING overrules an approval, whose category stays.
* `OneAccountPerPhone`, `OneSessionPerProof`, `LoggedOutIsOut`, `SkipsStay`,
  `NewestCodeWorks`: what two requests that work on the same thing may leave behind.

Two more that no property states: the name of a deleted category (or service) cannot
be used again, because it is unique among the deleted ones too; and the row of a
reminder in the application is SENT, hence listed, as soon as it is made.

### Fairness

`BookingEvents!Fairness`: Node runs the continuation of every answered statement
and the subscribers of every published event, so each request in flight, and each
handler at work, takes its next step (weak fairness per request slot and per
booking).  No request is ever made to arrive.  `Review!Fairness`: the same for
each process, and cron starts its job every ten minutes.  A lock is granted once
released, and each reveal is finite, so weak fairness is enough.  `review_live`
and `booking_serial` allow one death; `CompletedGetsSession` is claimed only when
there was none, for a lost event is lost.
`Notification!Fairness`: time passes, a worker takes what is due and goes on, and
BullMQ looks for stalled entries every 30 seconds.  The handler of the event is not
assumed to go on: what it never enqueued is not promised anything.
`Account!Fairness`: a request in flight takes its next step, and PostgreSQL looks for
deadlocks (weak fairness of each).  That a waiting registration gets the row rests
on the others ending: requests are finitely many.
`Catalogue` claims nothing that needs fairness.
`Professional!Fairness`: who is at work goes on, and each job starts again and
again.  Cron starts a job whatever else is at work; in the model `MaxInFlight` may
make it wait for a request to end, hence strong fairness for `StartJob`.

## 5. The proofs

`BookingProofs` proves, for every set of bookings, services and request slots and
every bound on deaths, from the named assumptions of `Booking` alone
(`ServiceOfAssumption`, `ServiceOpsAssumption`, `MaxDeathsAssumption`):

* `TypeCorrect`, `AlwaysColumnsAgree` and `AlwaysInFlight`, which says what a delayed
  handler may rely on when it writes;
* `OnlyStaleWritesStray`: every step changes the bookings as `BookingLifecycle`
  allows, or not at all, or is the write of a request whose row is no longer the
  one it read;
* `AlwaysCountCovers` (`CountCoversConfirmed`);
* `OneAtATimeImplements`, `FreshWritesImplement` (`SerialLifecycle`): the refinement
  of `BookingLifecycle`, for one slot, and for any number of slots while no request
  writes a row that changed since it read it;
* `OneAtATimeCounts`, `OneAtATimeWithdraws`: the counter and the deactivation of a
  service, for one slot;
* `OutcomesLast`, `ApprovedIsCancelled`: what the lifecycle gives to whoever
  implements it.

`ColumnsAgree` is `ConfirmedFirst /\ RequestTimeline`.  It is not inductive: that a
completion writes COMPLETED on a dated row needs to know that the row it read was
confirmed, *and* that no write since has erased the date.  `InFlight` says just that of
each request, and `IInv == TypeOK /\ InFlight /\ ConfirmedFirst /\ RequestTimeline` is
inductive.  The conjuncts lean on one another: a created row must not overwrite a
confirmed one (at most one creation per id in flight), and an approved request needs its
date to have survived (`RequestTimeline`).  The proof has one lemma per kind of step
and, under it, one step per action.  `OnlyStaleWritesStray` then looks at each write
whose row is still the one it read: `HeldAtRead` gives the guard of the abstract action.

The count rests on `Paid`: the bookings with a confirmation date or with a
confirmation that is about to write one (`Promised`) are no more than `bookingCount`
and the confirmations that have not added theirs (`Counting`).  A confirmation enters both sides
when it reads, its two statements keep the sum in either order, and a confirmation that
finds the booking dated already only pays twice.  `NewRows` says that what is not there
yet has no dates, so that the insertion of a row takes none away and every date stays;
the counter with one slot and the journal rest on it.

With one slot the request in flight finds what it read (`Undisturbed`), so its write is
the step of the lifecycle that its guard announced; the aggregate a service's handler
saves is the one in the table for the same reason.  For the counter `Counted` says
that it equals the dated bookings, short of what the request in flight still owes
(`OwedCount`) or was paid in advance (`OwedDate`).  `FreshWritesImplement` needs no
such invariant: with `StaleWrite` excluded, what `OnlyStaleWritesStray` leaves is
the lifecycle.  It says which repair would be enough: updates that test what
was read, no lock and no transaction around a handler.

`BookingEventsProofs` proves the same of `BookingEvents`, where handlers of events run
beside the requests, and what the handlers record:

* `EventsTypeCorrect`, `EventsColumnsAgree`, `EventsCountCovers`,
  `EventsOnlyStaleWritesStray`, `EventsOneAtATimeImplements`;
* `AlwaysAfterTheFact` (`JournalAfterTheFact`);
* `OneAtATimeEffects` (`SerialEffects`);
* `CompletionsAreFollowed`: until something dies, a completed booking has its session
  or is still on its way to it.

A step of the composition is a step of `Booking`, or touches only handlers, or is a
handler's death, which counts among the deaths (`EventsKind`, `Loses`); the invariants
of `BookingProofs` survive all three, so none is proved twice.  `JournalAfterTheFact` is not
inductive: what a request is about to publish must already be true (`AboutToTell`),
and so must what handlers are still working on (`OnlyFacts`); a row once cancelled
keeps its date through every stale write, and this is why the property holds though
the status may be overwritten.  That one request at a time enters a cancellation once is a budget
(`Once`): the request that has not published yet, the handlers at work and the entries
made are together at most one per booking.  `CompletionsFollowed` is the safety half of
`CompletedGetsSession`, and needs no bound on the requests: only its own request makes
a booking completed, that request ends by publishing, and the subscriber it wakes
reads a row that is still completed or one that has left that status.

`ProfessionalProofs` proves, for all sets of requests, operations, jobs and dates and
every bound, from `ProfessionalAssumption` alone:

* `TypeCorrect` and `AlwaysConsistent`, the invariants of `professional`;
* `OnlyStaleSavesStray` (`StatusUnlessStale`): who moves the status, and whereto;
* `TimedPausesLast` (`TimedPauseLasts`): who takes a date from a pause.

`StatusConsistent` is not inductive, because a method is called on what its process
loaded earlier: `SeenConsistent` says the same of each aggregate in memory, and
`IInv == TypeOK /\ StatusConsistent /\ SeenConsistent` is inductive.  The lemmas
`ChangedType`, `ChangedConsistent`, `ChangedMoves` and `ChangedPause` say what the
entity's methods do, `WrittenColumns` what a save writes of their result.
`TimedPausesLast` needs one thing more: that the job which ends pauses holds only
such as had run out when it read them (`PauseWasOver`), and the clock does not
turn back.

`AccountProofs` proves, for any slots, steps and bounds, from `ChallengeAssumption`
alone:

* `TypeCorrect`, `AlwaysNewest`, `AlwaysOneAccount`, `AlwaysOneSession`,
  `AlwaysLoggedOut`: the invariants of `account`;
* `StaleWritesUnskip`: the action property `SkipsStay`.

Its `IInv` has three parts.  `Typed` says which things a request of each kind can be
at.  `Numbers` says that no login's code has a number that was not drawn, and that a
number is in one row.  `Sessions` says that two requests at one thing have crossed it
(`Alone`), that every proof a token descends from is used up (`Spent`), and what a
request that holds a proof may rely on (`Claim`): while it has it alone, no
other token that descends from the proof is valid.  Two more invariants rest on it:
`SlotFree`, that while a registration is at the phone alone the phone is free, and
`NothingElseSent`, where the sending of a code stands.  The proof of `AlwaysLoggedOut`
is why `swept` names the user with the proof: a login's code can be completed for two
accounts, when two registrations crossed before.

`CatalogueProofs` proves, for any days, hours, breaks, names, slots and number of
requests, from `AvailabilityAssumption` and `CatalogueAssumption`:

* `TypeCorrect`;
* `DaysAreSafeUnlessStale` (`AvailabilityUnlessStale`) and
  `CatalogueIsSafeUnlessStale` (`CatalogueUnlessStale`).

The first half is about the methods: `Good` says of days in memory that they come
from the table (`FromDays`: no day gets a second row that had none, no removed row is
live, a break is outside its hours only if it was), and that what the request itself
added has its own id.  One lemma per method shows that it preserves `Good`, and
`SavedFromDays` that saving such days does no harm.  The second half shows inductive
`IInv == TypeOK /\ Tables /\ Distinct /\ \A r \in Slots : Claim(req[r])`: `Tables` are
the database's constraints (ids, unique names, a service's category is there),
`Distinct` that no two requests draw one id for a category, and `Claim` what a request
may rely on about the tables that are not in its `stale`.  `ClaimKept` shows once that
a claim outlives every write of others; each action then owes its own claim.
A bulk update is one more way to prepare such a save, with several services placed at
once, of which `Claim` says that each has one category.  `HowItEnds` leaves the seven actions by which a request ends, and for these the
properties follow from the claims.

`ScheduleProofs` proves, for every length of day, step of the grid, buffer, set of
durations and hours, and any number of bookings and requests, from
`ScheduleAssumption`, all of `schedule_race`:

* `TypeCorrect`, `AlwaysOfferedIsAccepted`, `AlwaysCountsDiffer`, `AlwaysWarned`.

The first half is arithmetic: minutes in ticks (`TicksPlus`, `TicksOrder`), the day and
the minute of a start (`DayAndMinute`, `SlotMinute`), the interval tests as sharing of
ticks (`MeetIsShared`, `TouchesIsMeet`), and from these what is offered
(`OfferIsRight`), what the creation counts (`CreationIsRight`) and what the query does
(`QueryIsRight`).  The last needs to compare minutes with ticks: `CountedOne` shows that
dropping the seconds of a start loses exactly the overlaps of less than a minute at the
beginning of a slot, and adds none.  The second half is the interleaving of
confirmations.  `WarningsAreRight` is not inductive: `InFlightMet` says that two
confirmations in flight are in `together`, `SeenAll` that each confirmed overlap of a
booking being confirmed is in what its request saw, or in `together`, or out of the
window, and `SeenOverlaps` that nothing else is.

`ReviewProofs` proves, for any sessions, ratings, processes and deaths, from
`ReviewAssumption`:

* `TypeCorrect`, `AlwaysBlind`, `AlwaysShown`, `AlwaysCountsVisible`;
* `AlwaysSerialReveal` (`SerialReveal`).

`Shown` strengthens the first two: what shows is due, and a session revealed before
its time shows both reviews.  `WorkHolds` says what a process carries between two
steps (that both reviews are in, that the sessions of a job have expired, that the
score of a loaded aggregate counts visible reviews), `TxHolds` the same of an open
transaction, whose tally counts what is visible to others and its own rows.

`SerialReveal` needs to know what the one process at work holds while nothing has
overlapped (`OneAtATime`): that it is alone, that score, visibility and announcements are
settled between its transactions, and that what it has read is still so (`Fresh`):
its session is not revealed yet, its tally is that of what shows and of its own rows,
the aggregate it will save has the score of the table.  A death may strike anywhere
and leaves all of this true, because it leaves whole transactions.  The sum of the ratings is
written without recursion, as a count of the pairs of a review and a star it has; `Total` says
what adding a session's rows does to it.

`NotificationProofs` proves, for any events, kinds, recipients, number of workers,
date of the appointment and number of failures, from `NotificationAssumption`:

* `TypeCorrect`, `AlwaysDelivered`, `AlwaysPaidFor`, `AlwaysInTime`, `AlwaysQueued`.

That a notification is sent again only after a failure rests on a budget: the
deliveries made, the workers that may still make one (`Trying`), and one more if the
entry is to be handed out again (`ToCome`), are together at most one more than the
failures.  A take moves one from `ToCome` to `Trying`, a delivery from `Trying` to
`sent`; only a failure, which pays for it, adds one.  Steps of workers and of the queue
are each about one notification (`Local`), so that one lemma (`StepAbout`) keeps
everything else.  In dry run `sent` stays 0: a delivery is the only step that adds to it
(`DeliverOrNot`), and on such a channel it does not.  For `AlwaysQueued` two facts are
needed: without a failure each row is in the queue or owed by a call (`AllQueued`, in
`IInv`), and with failures a message to a recipient is one call, with one channel at a
time between its row and its entry (`Apart`), so that what ends the call loses that one.

Every invariant and every action property of a passing run is the conclusion of one of
these theorems.  Only model-checked is what is out of the prover's reach, liveness:
`CompletedGetsSession`, `ExpiredIsRevealed`, `OneFaultIsSurvived`, `CompleteIsDecided`,
`ExpiredPauseEnds` and `PhoneGetsAccount`; and the statements of section 4 that the
code does not keep.

## 6. What is left out, and the plan

Not modelled anywhere: prices and travel fees, texts, pagination, authorisation
of a route, deletion of bookings (no code sets `Booking.deletedAt`), the toggle of
the listing, devices, the PIN and its failures, the gallery and the
profile images, and the moment a timeout answers 408 (it changes no state).
Of the catalogue: a name of blanks, which the update of a category stores as an empty
one without a test of duplicates (`command.name?.trim()` is then not null), and two
items of one bulk update that carry the same id.

Hazards without a property (`PROJECT.json` says why at each): mostly races whose bad
outcome is what the code does and nothing promises to prevent, such as a booking on a
service deactivated meanwhile, a double entry in the journal, an event lost by a death,
a rating that an edit left behind.  The serial properties say only that one request at
a time does not cause them.

In order:

1. An abstract status machine for `Professional`, refined by one operation at a time,
   and the reminders of `Notification` composed with the lifecycle of a booking.
2. The images of a profile, against their specification; the listing, added to
   `Professional`.
