----------------------------- MODULE Notification -----------------------------
(***************************************************************************)
(* Pulse: from an event to the notifications it sends.                     *)
(*                                                                         *)
(* The handler of an event makes notifications: a row each, and an entry   *)
(* in the BullMQ queue for those that leave the application.  The workers, *)
(* in every API process and one of their own, take the entries that are    *)
(* due and dispatch them: read the row, call the provider, write the       *)
(* outcome.  Anything may stop between two of these steps.                 *)
(*                                                                         *)
(* Time is counted in steps: an appointment lies at Horizon, its reminders *)
(* are due one and two steps before.                                       *)
(***************************************************************************)
EXTENDS Naturals, Sequences, FiniteSets, FiniteSetsExt

CONSTANTS
    Events,         \* the events published
    Kinds,          \* what they may be about
    Followed,       \* the recipients whose notifications are followed
    Workers,        \* dispatches that can run together
    DryRun,         \* the channels in dry run: their provider is not called
    Labels,         \* the reminders of a confirmed booking
    Horizon,        \* when the appointments take place; bounds the clock
    MaxFaults       \* bound on the failures of a process or a statement

VARIABLES
    now,            \* the clock
    handler,        \* what the handler of each event has left to do
    row,            \* status of each notification's row, for those that have one
    queue,          \* the queue entry of each notification, for those that have one
    worker,         \* what each worker is doing
    sent,           \* history: how often the provider delivered each notification
    faults          \* how many failures there were

vars == <<now, handler, row, queue, worker, sent, faults>>

-----------------------------------------------------------------------------

Channel == {"IN_APP", "PUSH", "WHATSAPP", "SMS"}
Recipient == {"client", "professional", "admin"}
Status == {"PENDING", "SENT", "FAILED", "READ"}

CH_APP_PUSH_WA  == <<"IN_APP", "PUSH", "WHATSAPP">>
CH_APP_PUSH_SMS == <<"IN_APP", "PUSH", "SMS">>
CH_APP_PUSH     == <<"IN_APP", "PUSH">>
CH_APP          == <<"IN_APP">>

\* What the handlers make at once for their events: <<event, for whom, on which
\* channels>>.
BookingFanouts == {
    <<"BookingCreated", "professional", CH_APP_PUSH_WA>>,
    <<"CancellationRequested", "professional", CH_APP_PUSH_WA>>,
    <<"BookingConfirmed", "client", CH_APP_PUSH_WA>>}

\* A professional who cancels is known to the event by another id than the one
\* it is compared with, and is told as well.
EndFanouts == {
    <<"BookingRejected", "client", CH_APP_PUSH_SMS>>,
    <<"BookingCompleted", "client", CH_APP>>,
    <<"BookingCompleted", "professional", CH_APP>>,
    <<"CancelledByClient", "professional", CH_APP_PUSH>>,
    <<"CancelledByProfessional", "client", CH_APP_PUSH>>,
    <<"CancelledByProfessional", "professional", CH_APP_PUSH>>}

AnswerFanouts == {
    <<"CancellationApproved", "client", CH_APP_PUSH>>,
    <<"CancellationRejected", "client", CH_APP_PUSH>>,
    <<"NoShow", "client", CH_APP_PUSH>>}

ProfessionalFanouts == {
    <<"ProfessionalCreated", "admin", CH_APP_PUSH>>,
    <<"Verified", "professional", CH_APP_PUSH_SMS>>,
    <<"Suspended", "professional", CH_APP_PUSH_SMS>>,
    <<"Reactivated", "professional", CH_APP_PUSH>>,
    <<"Rejected", "professional", CH_APP_PUSH_SMS>>}

Fanouts == BookingFanouts \cup EndFanouts \cup AnswerFanouts \cup ProfessionalFanouts
Kind == {f[1] : f \in Fanouts}
FanoutOf(kind) == {<<f[2], f[3]>> : f \in {g \in Fanouts : g[1] = kind}}

\* NOTIFICATIONS_DRY_RUN, on unless it is set to something else, puts the three
\* channels that leave the application in dry run; WhatsApp and SMS are so each on
\* its own when the token is missing or a fake one.  The API and the worker are
\* taken to have the same environment.
Outside == {"PUSH", "WHATSAPP", "SMS"}

ASSUME NotificationAssumption ==
    /\ Kinds \subseteq Kind
    /\ Followed \subseteq Recipient
    /\ Labels \subseteq {"RAPPEL_24H", "RAPPEL_2H"}
    /\ IsFiniteSet(Workers) /\ "none" \notin Workers
    /\ DryRun \subseteq Outside
    /\ "PUSH" \in DryRun => DryRun = Outside
    /\ Horizon \in Nat /\ Horizon >= 2
    /\ MaxFaults \in Nat

\* "type" tells a reminder from the notification of the event itself.
Type == {"EVENT", "RAPPEL_24H", "RAPPEL_2H"}

ScheduledFor(type) ==
    CASE type = "EVENT"      -> 0
      [] type = "RAPPEL_24H" -> Horizon - 2
      [] type = "RAPPEL_2H"  -> Horizon - 1

Notice == [event : Events, type : Type, to : Recipient, channel : Channel]

\* A call of createFanoutNotification at work, and the handler of an event: its
\* calls, the reminders planned, whether they are still to be planned.
Call == [type : Type, to : Recipient, left : Seq(Channel) \ {<<>>},
         step : {"create", "enqueue"}]
Handler == [calls : SUBSET Call, todo : SUBSET Type, confirmed : BOOLEAN]

\* The calls of two recipients do not meet, so that some can be left out.
CallsOf(type, fanout) ==
    {[type |-> type, to |-> f[1], left |-> f[2], step |-> "create"] :
        f \in {g \in fanout : g[1] \in Followed}}

Job == [state : {"waiting", "active", "completed", "failed"}, due : Nat,
        attempts : 0..3, stalls : 0..1, owner : Workers \cup {"none"}]
Attempts == 3
MaxStalledCount == 1

Off == [step |-> "off"]
Dispatch == [step : {"read", "send", "markSent", "markFailed"}, notice : Notice]

TypeOK ==
    /\ now \in 0..Horizon
    /\ DOMAIN handler \subseteq Events
    /\ \A e \in DOMAIN handler : handler[e] \in Handler
    /\ DOMAIN row \subseteq Notice
    /\ \A n \in DOMAIN row : row[n] \in Status
    /\ DOMAIN queue \subseteq DOMAIN row
    /\ \A n \in DOMAIN queue : queue[n] \in Job
    /\ worker \in [Workers -> Dispatch \cup {Off}]
    /\ DOMAIN sent = DOMAIN row
    /\ \A n \in DOMAIN sent : sent[n] \in Nat
    /\ faults \in 0..MaxFaults

Nothing == [x \in {} |-> 0]

\* The function f, with one more element in its domain.
With(f, new, value) ==
    [x \in DOMAIN f \cup {new} |-> IF x \in DOMAIN f THEN f[x] ELSE value]

Init ==
    /\ now = 0
    /\ handler = Nothing
    /\ row = Nothing
    /\ queue = Nothing
    /\ worker = [w \in Workers |-> Off]
    /\ sent = Nothing
    /\ faults = 0

\* A failure: of a process, of a statement, of the connection to Redis.
Fault ==
    /\ faults < MaxFaults
    /\ faults' = faults + 1

-----------------------------------------------------------------------------
(***************************************************************************)
(* The handler of an event.                                                *)
(***************************************************************************)

Publish(e, kind) ==
    /\ e \notin DOMAIN handler
    /\ handler' = With(handler, e, [calls |-> CallsOf("EVENT", FanoutOf(kind)),
                                    todo |-> {},
                                    confirmed |-> kind = "BookingConfirmed"])
    /\ UNCHANGED <<now, row, queue, worker, sent, faults>>

\* The reminders whose date is still ahead.
PlanReminders(e) ==
    /\ handler[e].calls = {}
    /\ handler[e].confirmed
    /\ handler' = [handler EXCEPT ![e] =
            [calls |-> {}, confirmed |-> FALSE,
             todo |-> {label \in Labels : ScheduledFor(label) > now}]]
    /\ UNCHANGED <<now, row, queue, worker, sent, faults>>

\* One after the other: the code lists them in the order of their dates.
Remind(e) ==
    /\ handler[e].calls = {}
    /\ \E label \in handler[e].todo :
        /\ \A other \in handler[e].todo : ScheduledFor(label) <= ScheduledFor(other)
        /\ handler' = [handler EXCEPT ![e] =
                [calls |-> CallsOf(label, {"client", "professional"} \X {CH_APP_PUSH}),
                 confirmed |-> FALSE,
                 todo |-> handler[e].todo \ {label}]]
    /\ UNCHANGED <<now, row, queue, worker, sent, faults>>

NoticeOf(e, c) == [event |-> e, type |-> c.type, to |-> c.to, channel |-> Head(c.left)]

\* Defective variant: a call that goes on after its last channel.
NextChannelOffByOne(c) ==
    IF Len(c.left) = 0 THEN {}
    ELSE {[c EXCEPT !.left = Tail(@), !.step = "create"]}

\* A call goes on to its next channel, or is over.
NextChannel(c) ==
    IF Len(c.left) = 1 THEN {}
    ELSE {[c EXCEPT !.left = Tail(@), !.step = "create"]}

ReplaceCall(e, c, next) ==
    handler' = [handler EXCEPT ![e].calls = (handler[e].calls \ {c}) \cup next]

CreateRow(e, c) ==
    /\ c.step = "create"
    /\ LET n == NoticeOf(e, c)
           inApp == n.channel = "IN_APP"
       IN  /\ row' = With(row, n, IF inApp THEN "SENT" ELSE "PENDING")
           /\ sent' = With(sent, n, 0)
           /\ ReplaceCall(e, c, IF inApp THEN NextChannel(c)
                                ELSE {[c EXCEPT !.step = "enqueue"]})
    /\ UNCHANGED <<now, queue, worker, faults>>

NewJob(due) ==
    [state |-> "waiting", due |-> due, attempts |-> 0, stalls |-> 0, owner |-> "none"]

\* Defective variants: an entry without its delay, reminders without an entry.
EnqueueAtOnce(e, c) ==
    /\ c.step = "enqueue"
    /\ queue' = With(queue, NoticeOf(e, c), NewJob(now))
    /\ ReplaceCall(e, c, NextChannel(c))
    /\ UNCHANGED <<now, row, worker, sent, faults>>

EnqueueUnscheduled(e, c) ==
    /\ c.step = "enqueue"
    /\ queue' = IF c.type # "EVENT" THEN queue
                ELSE With(queue, NoticeOf(e, c), NewJob(now))
    /\ ReplaceCall(e, c, NextChannel(c))
    /\ UNCHANGED <<now, row, worker, sent, faults>>

\* enqueueDispatch: the entry waits until scheduledFor.
Enqueue(e, c) ==
    /\ c.step = "enqueue"
    /\ queue' = With(queue, NoticeOf(e, c), NewJob(Max({now, ScheduledFor(c.type)})))
    /\ ReplaceCall(e, c, NextChannel(c))
    /\ UNCHANGED <<now, row, worker, sent, faults>>

\* A statement of a call fails: the other calls go on, but the handler, whose
\* catch only logs, plans nothing more.
FailCall(e, c) ==
    /\ Fault
    /\ handler' = [handler EXCEPT ![e] =
            [calls |-> handler[e].calls \ {c}, todo |-> {}, confirmed |-> FALSE]]
    /\ UNCHANGED <<now, row, queue, worker, sent>>

\* The process of the handler dies.
CrashHandler(e) ==
    /\ Fault
    /\ handler' = [handler EXCEPT ![e] =
            [calls |-> {}, todo |-> {}, confirmed |-> FALSE]]
    /\ UNCHANGED <<now, row, queue, worker, sent>>

-----------------------------------------------------------------------------
(***************************************************************************)
(* The worker.  BullMQ hands an entry that is due to one worker; when the  *)
(* processor throws, the entry waits again, up to three attempts; when the *)
(* worker's lock is not renewed, the entry has stalled and another worker  *)
(* takes it over, once.                                                    *)
(***************************************************************************)

Taken(job, w) == [job EXCEPT !.state = "active", !.owner = w]
Ended(job, state) == [job EXCEPT !.state = state, !.owner = "none"]

\* An attempt more has failed, or the lock was lost once more.
Failed(job) ==
    LET attempts == job.attempts + 1
    IN  [job EXCEPT !.attempts = attempts, !.owner = "none",
                    !.state = IF attempts < Attempts THEN "waiting" ELSE "failed"]
Released(job) ==
    IF job.stalls < MaxStalledCount
    THEN [job EXCEPT !.state = "waiting", !.owner = "none", !.stalls = job.stalls + 1]
    ELSE Ended(job, "failed")

Take(w, n) ==
    /\ worker[w] = Off
    /\ queue[n].state = "waiting"
    /\ queue[n].due <= now
    /\ queue' = [queue EXCEPT ![n] = Taken(queue[n], w)]
    /\ worker' = [worker EXCEPT ![w] = [step |-> "read", notice |-> n]]
    /\ UNCHANGED <<now, handler, row, sent, faults>>

Goto(w, step) == worker' = [worker EXCEPT ![w].step = step]

\* The processor returns, or throws; an entry that was taken over is not
\* this worker's any more.
Leave(w, job) ==
    LET n == worker[w].notice
    IN  /\ worker' = [worker EXCEPT ![w] = Off]
        /\ queue' = IF queue[n].owner = w THEN [queue EXCEPT ![n] = job] ELSE queue

Return(w) == Leave(w, Ended(queue[worker[w].notice], "completed"))

\* Defective variant: an entry that is tried once.
ThrowForGood(w) == Leave(w, Ended(queue[worker[w].notice], "failed"))

Throw(w) == Leave(w, Failed(queue[worker[w].notice]))

ReadRow(w) ==
    /\ worker[w].step = "read"
    /\ IF row[worker[w].notice] = "PENDING"
       THEN Goto(w, "send") /\ UNCHANGED queue
       ELSE Return(w)
    /\ UNCHANGED <<now, handler, row, sent, faults>>

\* Defective variant: a provider called in dry run too.
DeliverAlways(w) ==
    LET n == worker[w].notice
    IN  sent' = [sent EXCEPT ![n] = sent[n] + 1]

\* The provider is called and delivers; in dry run the call is only logged.
Deliver(w) ==
    LET n == worker[w].notice
    IN  sent' = IF n.channel \in DryRun THEN sent
                ELSE [sent EXCEPT ![n] = sent[n] + 1]

Sending(w) == worker[w].step = "send"
IsPush(w) == worker[w].notice.channel = "PUSH"

\* Defective variants: an error of the provider taken for an answer, or left to
\* the queue to retry.
SendMessageRegardless(w) ==
    /\ Sending(w) /\ ~IsPush(w)
    /\ Deliver(w) \/ UNCHANGED sent
    /\ Goto(w, "markSent")
    /\ UNCHANGED <<now, handler, row, queue, faults>>

SendMessageUncaught(w) ==
    /\ Sending(w) /\ ~IsPush(w)
    /\ \/ Deliver(w) /\ Goto(w, "markSent") /\ UNCHANGED queue
       \/ (Deliver(w) \/ UNCHANGED sent) /\ Throw(w)
    /\ UNCHANGED <<now, handler, row, faults>>

\* WhatsApp and SMS: the provider delivers and answers, or the call fails,
\* delivered or not, or there is no phone number to send to.  Dry run returns as
\* if the provider had answered, and the row will be marked SENT.
SendMessage(w) ==
    /\ Sending(w) /\ ~IsPush(w)
    /\ \/ Deliver(w) /\ Goto(w, "markSent")
       \/ (Deliver(w) \/ UNCHANGED sent) /\ Goto(w, "markFailed")
    /\ UNCHANGED <<now, handler, row, queue, faults>>

\* Push: the same, and an answer that lists a failure for every device is still
\* an answer.
SendPush(w) ==
    /\ Sending(w) /\ IsPush(w)
    /\ Deliver(w) \/ UNCHANGED sent
    /\ Goto(w, "markSent") \/ Goto(w, "markFailed")
    /\ UNCHANGED <<now, handler, row, queue, faults>>

\* The last update, when it succeeds.
Mark(w) ==
    /\ worker[w].step \in {"markSent", "markFailed"}
    /\ row' = [row EXCEPT ![worker[w].notice] =
                IF worker[w].step = "markSent" THEN "SENT" ELSE "FAILED"]
    /\ Return(w)
    /\ UNCHANGED <<now, handler, sent, faults>>

\* A statement fails: within the try, the row is to be marked FAILED; outside
\* it, the error reaches BullMQ.
FailStatement(w) ==
    /\ worker[w] # Off
    /\ Fault
    /\ CASE worker[w].step = "markSent" -> Goto(w, "markFailed") /\ UNCHANGED queue
         [] worker[w].step \in {"read", "markFailed"} -> Throw(w)
         [] OTHER -> FALSE
    /\ UNCHANGED <<now, handler, row, sent>>

\* The worker's process dies.
Die(w) ==
    /\ worker[w] # Off
    /\ Fault
    /\ worker' = [worker EXCEPT ![w] = Off]
    /\ UNCHANGED <<now, handler, row, queue, sent>>

Stalled(n) == queue' = [queue EXCEPT ![n] = Released(queue[n])]

AtWork(w, n) == worker[w] # Off /\ worker[w].notice = n

\* The entry of a worker that died is taken back.
RecoverStalled(n) ==
    /\ queue[n].state = "active"
    /\ ~AtWork(queue[n].owner, n)
    /\ Stalled(n)
    /\ UNCHANGED <<now, handler, row, worker, sent, faults>>

\* A worker too slow to renew its lock loses its entry, and goes on.
LoseLock(n) ==
    /\ queue[n].state = "active"
    /\ AtWork(queue[n].owner, n)
    /\ Fault
    /\ Stalled(n)
    /\ UNCHANGED <<now, handler, row, worker, sent>>

-----------------------------------------------------------------------------

\* The user reads a notification in the application, or all of them.
MarkAsRead(n) ==
    /\ n.channel = "IN_APP"
    /\ row' = [row EXCEPT ![n] = "READ"]
    /\ UNCHANGED <<now, handler, queue, worker, sent, faults>>

MarkAllAsRead(user) ==
    /\ row' = [n \in DOMAIN row |->
                IF n.to = user /\ n.channel = "IN_APP" THEN "READ" ELSE row[n]]
    /\ UNCHANGED <<now, handler, queue, worker, sent, faults>>

Tick ==
    /\ now < Horizon
    /\ now' = now + 1
    /\ UNCHANGED <<handler, row, queue, worker, sent, faults>>

HandlerStep(e) ==
    \/ PlanReminders(e)
    \/ Remind(e)
    \/ \E c \in handler[e].calls : CreateRow(e, c) \/ Enqueue(e, c) \/ FailCall(e, c)
    \/ CrashHandler(e)

\* What a worker does when nothing fails.
WorkerStep(w) == ReadRow(w) \/ SendMessage(w) \/ SendPush(w) \/ Mark(w)
TakeNext(w) == \E n \in DOMAIN queue : Take(w, n)
Recover == \E n \in DOMAIN queue : RecoverStalled(n)

Next ==
    \/ \E e \in Events, kind \in Kinds : Publish(e, kind)
    \/ \E e \in DOMAIN handler : HandlerStep(e)
    \/ \E w \in Workers : TakeNext(w) \/ WorkerStep(w) \/ FailStatement(w) \/ Die(w)
    \/ Recover
    \/ \E n \in DOMAIN queue : LoseLock(n)
    \/ \E n \in DOMAIN row : MarkAsRead(n)
    \/ \E user \in Recipient : MarkAllAsRead(user)
    \/ Tick

Spec == Init /\ [][Next]_vars

\* Time passes, workers take what is due and go on, BullMQ looks for stalled
\* entries every 30 seconds.  That a handler of events goes on is not assumed.
Fairness ==
    /\ WF_vars(Tick)
    /\ \A w \in Workers : WF_vars(TakeNext(w)) /\ WF_vars(WorkerStep(w))
    /\ WF_vars(Recover)

FairSpec == Spec /\ Fairness

-----------------------------------------------------------------------------

\* A WhatsApp message or an SMS marked SENT was delivered to its provider, unless
\* its channel is in dry run, and then nothing of the channel ever leaves the
\* application; only a live push may be SENT though it reached no device.
SentWasDelivered ==
    \A n \in DOMAIN row :
        /\ row[n] = "SENT" /\ n.channel \in {"WHATSAPP", "SMS"} \ DryRun => sent[n] > 0
        /\ n.channel \in DryRun => sent[n] = 0

\* A notification goes out once; each further time is paid with a failure.
ResentOnlyAfterFault == \A n \in DOMAIN sent : sent[n] <= 1 + faults

\* No reminder leaves the application before its date.
NotBeforeItsDate == \A n \in DOMAIN sent : sent[n] > 0 => now >= ScheduledFor(n.type)

\* A row for the outside has its queue entry, or is the one a call is at; the others
\* stay PENDING for ever.
Owed(n) == \E c \in handler[n.event].calls : c.step = "enqueue" /\ NoticeOf(n.event, c) = n
Lost == {n \in DOMAIN row : n.channel # "IN_APP" /\ n \notin DOMAIN queue /\ ~Owed(n)}

\* Without a failure no notification is lost between its row and its queue entry, and
\* a handler that dies loses at most one of each message to each recipient.
PendingIsQueued ==
    /\ faults = 0 => Lost = {}
    /\ \A m, n \in Lost : m.event = n.event /\ m.type = n.type /\ m.to = n.to => m = n

\* One failure, wherever it strikes, leaves no notification of the queue without
\* an outcome in the end.
OneFaultIsSurvived ==
    <>[](faults > 1 \/ \A n \in DOMAIN queue : row[n] # "PENDING")
=============================================================================
