-------------------------- MODULE NotificationProofs --------------------------
(***************************************************************************)
(* Proofs about Notification, for any events, recipients, workers, bounds, *)
(* failures and channels in dry run: what is SENT on a live channel was    *)
(* delivered, a notification goes out once and once more per failure, no   *)
(* reminder before its date, and without a failure nothing is lost between *)
(* the row and the queue.                                                  *)
(***************************************************************************)
EXTENDS Notification, FiniteSetTheorems, TLAPS

-----------------------------------------------------------------------------
(***************************************************************************)
(* Helpers of the library.                                                 *)
(***************************************************************************)

\* g is f with one more element.
Longer(g, f, n, v) ==
    /\ DOMAIN g = DOMAIN f \cup {n}
    /\ \A x \in DOMAIN f : g[x] = f[x]
    /\ n \notin DOMAIN f => g[n] = v

LEMMA Extended == \A f, n, v : Longer(With(f, n, v), f, n, v)
BY DEF With, Longer

LEMMA MaxOfTwo ==
    ASSUME NEW a \in Nat, NEW b \in Nat
    PROVE  Max({a, b}) \in Nat /\ Max({a, b}) >= b
<1>1. PICK m \in {a, b} : \A y \in {a, b} : m >= y
  OBVIOUS
<1>2. Max({a, b}) \in {a, b} /\ \A y \in {a, b} : Max({a, b}) >= y
  BY <1>1 DEF Max
<1> QED
  BY <1>2

LEMMA Dates ==
    ASSUME NEW type \in Type
    PROVE  ScheduledFor(type) \in 0 .. Horizon
BY NotificationAssumption DEF Type, ScheduledFor

-----------------------------------------------------------------------------
(***************************************************************************)
(* The handlers' calls.                                                    *)
(***************************************************************************)

LEMMA Channels ==
    /\ CH_APP_PUSH_WA \in Seq(Channel) \ {<<>>}
    /\ CH_APP_PUSH_SMS \in Seq(Channel) \ {<<>>}
    /\ CH_APP_PUSH \in Seq(Channel) \ {<<>>}
    /\ CH_APP \in Seq(Channel) \ {<<>>}
BY DEF CH_APP_PUSH_WA, CH_APP_PUSH_SMS, CH_APP_PUSH, CH_APP, Channel

LEMMA FanoutTypes ==
    ASSUME NEW f \in Fanouts
    PROVE  f[2] \in Recipient /\ f[3] \in Seq(Channel) \ {<<>>}
<1>1. CASE f \in BookingFanouts
  BY <1>1, Channels DEF BookingFanouts, Recipient
<1>2. CASE f \in EndFanouts
  BY <1>2, Channels DEF EndFanouts, Recipient
<1>3. CASE f \in AnswerFanouts
  BY <1>3, Channels DEF AnswerFanouts, Recipient
<1>4. CASE f \in ProfessionalFanouts
  BY <1>4, Channels DEF ProfessionalFanouts, Recipient
<1> QED
  BY <1>1, <1>2, <1>3, <1>4 DEF Fanouts

LEMMA CallTypes ==
    ASSUME NEW type \in Type, NEW fanout,
           \A f \in fanout : f[1] \in Recipient /\ f[2] \in Seq(Channel) \ {<<>>}
    PROVE  /\ CallsOf(type, fanout) \subseteq Call
           /\ \A c \in CallsOf(type, fanout) : c.step = "create"
BY DEF CallsOf, Call

LEMMA NoticeTypes ==
    ASSUME NEW e \in Events, NEW c \in Call
    PROVE  /\ NoticeOf(e, c) \in Notice
           /\ NoticeOf(e, c).event = e
           /\ NoticeOf(e, c).type = c.type
<1>1. c.type \in Type /\ c.to \in Recipient /\ c.left \in Seq(Channel) /\ c.left # <<>>
  BY DEF Call
<1>2. Head(c.left) \in Channel
  BY <1>1
<1> QED
  BY <1>1, <1>2 DEF NoticeOf, Notice

LEMMA EmptyLength == \A s : s = <<>> => Len(s) = 0
OBVIOUS

LEMMA NextTypes ==
    ASSUME NEW c \in Call
    PROVE  NextChannel(c) \subseteq Call /\ \A d \in NextChannel(c) : d.step = "create"
<1>1. c.left \in Seq(Channel) /\ c.left # <<>>
  BY DEF Call
<1>2. Len(c.left) # 1 => Tail(c.left) \in Seq(Channel) /\ Tail(c.left) # <<>>
  <2>1. Len(c.left) \in Nat /\ Len(c.left) # 0
    BY <1>1
  <2>2. Tail(c.left) \in Seq(Channel) /\ Len(Tail(c.left)) = Len(c.left) - 1
    BY <1>1
  <2>3. Tail(c.left) = <<>> => Len(c.left) = 1
    <3>1. Tail(c.left) = <<>> => Len(Tail(c.left)) = 0
      BY EmptyLength
    <3> QED
      BY <2>1, <2>2, <3>1
  <2> QED
    BY <2>2, <2>3
<1> DEFINE next == [c EXCEPT !.left = Tail(c.left), !.step = "create"]
<1>3. Len(c.left) # 1 => next \in Call /\ next.step = "create"
  BY <1>2 DEF Call
<1>4. NextChannel(c) = IF Len(c.left) = 1 THEN {} ELSE {next}
  BY DEF NextChannel
<1> HIDE DEF next
<1> QED
  BY <1>3, <1>4

\* The same call, with its row made and its entry to come.
Awaiting(c) == [c EXCEPT !.step = "enqueue"]

LEMMA AwaitingTypes ==
    ASSUME NEW c \in Call
    PROVE  /\ Awaiting(c) \in Call
           /\ Awaiting(c).step = "enqueue"
           /\ \A e : NoticeOf(e, Awaiting(c)) = NoticeOf(e, c)
BY DEF Awaiting, Call, NoticeOf

-----------------------------------------------------------------------------
(***************************************************************************)
(* The inductive invariant: the handlers, then the tables and the workers. *)
(***************************************************************************)

AllQueued ==
    faults = 0 =>
        \A n \in DOMAIN row : n.channel # "IN_APP" =>
            \/ n \in DOMAIN queue
            \/ \E c \in handler[n.event].calls :
                    c.step = "enqueue" /\ NoticeOf(n.event, c) = n

\* A handler makes the row of a notification, then its entry, and owes the entry
\* of a row it made.
Handlers ==
    /\ DOMAIN handler \subseteq Events
    /\ \A e \in DOMAIN handler : handler[e] \in Handler
    /\ \A n \in DOMAIN row : n.event \in DOMAIN handler
    /\ \A e \in DOMAIN handler : \A c \in handler[e].calls :
            c.step = "enqueue" => NoticeOf(e, c) \in DOMAIN row
    /\ AllQueued

Tables ==
    /\ now \in 0 .. Horizon
    /\ faults \in 0 .. MaxFaults
    /\ DOMAIN row \subseteq Notice
    /\ DOMAIN queue \subseteq DOMAIN row
    /\ DOMAIN sent = DOMAIN row
    /\ worker \in [Workers -> Dispatch \cup {Off}]

\* An entry that is still to be worked on has attempts left, one that is active
\* has a worker's name on it, and none is due before its date.
EntryHolds(n) ==
    /\ queue[n] \in Job
    /\ queue[n].state \in {"waiting", "active"} => queue[n].attempts < Attempts
    /\ queue[n].state = "active" <=> queue[n].owner # "none"
    /\ queue[n].due >= ScheduledFor(n.type)

\* A notification whose provider is called, and answers for it.
Answered(n) == n.channel \in {"WHATSAPP", "SMS"} \ DryRun

WorkerHolds(w) ==
    worker[w] # Off =>
        LET n == worker[w].notice
        IN  /\ n \in DOMAIN queue
            /\ now >= ScheduledFor(n.type)
            /\ worker[w].step = "markSent" /\ Answered(n) => sent[n] > 0

\* The workers that may still deliver a notification, and whether one more will
\* be given it.
Trying(n) ==
    {w \in Workers : AtWork(w, n) /\ worker[w].step \in {"read", "send"}}

ToCome(n) ==
    IF /\ n \in DOMAIN queue
       /\ \/ queue[n].state = "waiting"
          \/ queue[n].state = "active" /\ ~AtWork(queue[n].owner, n)
    THEN 1 ELSE 0

Left(n) == sent[n] + Cardinality(Trying(n)) + ToCome(n)

RowHolds(n) ==
    /\ row[n] \in Status
    /\ n.channel \in DryRun => sent[n] = 0
    /\ sent[n] \in Nat
    /\ sent[n] > 0 => n \in DOMAIN queue /\ now >= ScheduledFor(n.type)
    /\ row[n] = "SENT" /\ Answered(n) => sent[n] > 0
    /\ Left(n) <= 1 + faults

IInv ==
    /\ Handlers
    /\ Tables
    /\ \A n \in DOMAIN queue : EntryHolds(n)
    /\ \A w \in Workers : WorkerHolds(w)
    /\ \A n \in DOMAIN row : RowHolds(n)

-----------------------------------------------------------------------------
(***************************************************************************)
(* Entries of the queue.                                                   *)
(***************************************************************************)

\* What stays of an entry in all its changes.
SameEntry(next, job) ==
    /\ next \in Job
    /\ next.due = job.due
    /\ next.state \in {"waiting", "active"} => next.attempts < Attempts
    /\ next.state = "active" <=> next.owner # "none"

LEMMA TakenEntry ==
    ASSUME NEW job \in Job, job.attempts < Attempts, NEW w \in Workers
    PROVE  /\ SameEntry(Taken(job, w), job)
           /\ Taken(job, w).state = "active" /\ Taken(job, w).owner = w
<1> DEFINE next == [job EXCEPT !.state = "active", !.owner = w]
<1>1. next \in Job /\ next.due = job.due /\ next.attempts = job.attempts
      /\ next.state = "active" /\ next.owner = w
  BY DEF Job
<1>2. Taken(job, w) = next
  BY DEF Taken
<1> HIDE DEF next
<1> QED
  BY <1>1, <1>2, NotificationAssumption DEF SameEntry

LEMMA EndedEntry ==
    ASSUME NEW job \in Job, NEW state \in {"completed", "failed"}
    PROVE  /\ SameEntry(Ended(job, state), job)
           /\ Ended(job, state).state = state
<1> DEFINE next == [job EXCEPT !.state = state, !.owner = "none"]
<1>1. next \in Job /\ next.due = job.due /\ next.state = state /\ next.owner = "none"
  BY DEF Job
<1>2. Ended(job, state) = next
  BY DEF Ended
<1> HIDE DEF next
<1> QED
  BY <1>1, <1>2 DEF SameEntry

LEMMA FailedEntry ==
    ASSUME NEW job \in Job, job.attempts < Attempts
    PROVE  SameEntry(Failed(job), job)
<1> DEFINE attempts == job.attempts + 1
           state == IF attempts < Attempts THEN "waiting" ELSE "failed"
           next == [job EXCEPT !.attempts = attempts, !.owner = "none", !.state = state]
<1>1. attempts \in 0 .. 3
  BY DEF Job, Attempts
<1>2. state \in {"waiting", "failed"} /\ (state = "waiting" => attempts < Attempts)
  OBVIOUS
<1>3. Failed(job) = next
  BY DEF Failed
<1> HIDE DEF attempts, state
<1>4. next \in Job /\ next.due = job.due /\ next.attempts = attempts
      /\ next.state = state /\ next.owner = "none"
  BY <1>1, <1>2 DEF Job
<1> HIDE DEF next
<1> QED
  BY <1>2, <1>3, <1>4 DEF SameEntry

LEMMA ReleasedEntry ==
    ASSUME NEW job \in Job, job.attempts < Attempts
    PROVE  SameEntry(Released(job), job)
<1>1. CASE job.stalls < MaxStalledCount
  <2> DEFINE stalls == job.stalls + 1
             next == [job EXCEPT !.state = "waiting", !.owner = "none", !.stalls = stalls]
  <2>1. stalls \in 0 .. 1
    BY <1>1 DEF Job, MaxStalledCount
  <2>2. Released(job) = next
    BY <1>1 DEF Released
  <2> HIDE DEF stalls
  <2>3. next \in Job /\ next.due = job.due /\ next.attempts = job.attempts
        /\ next.state = "waiting" /\ next.owner = "none"
    BY <2>1 DEF Job
  <2> HIDE DEF next
  <2> QED
    BY <2>2, <2>3 DEF SameEntry
<1>2. CASE ~(job.stalls < MaxStalledCount)
  BY <1>2, EndedEntry DEF Released
<1> QED
  BY <1>1, <1>2

\* An entry changed that way still holds what it has to.
LEMMA EntryKept ==
    ASSUME NEW n \in DOMAIN queue, EntryHolds(n), SameEntry(queue'[n], queue[n])
    PROVE  EntryHolds(n)'
BY DEF EntryHolds, SameEntry

-----------------------------------------------------------------------------
(***************************************************************************)
(* How many may still deliver.                                             *)
(***************************************************************************)

LEMMA TryingFinite ==
    ASSUME NEW n
    PROVE  IsFiniteSet(Trying(n)) /\ Cardinality(Trying(n)) \in Nat
<1>1. Trying(n) \subseteq Workers
  BY DEF Trying
<1>2. IsFiniteSet(Trying(n))
  BY <1>1, NotificationAssumption, FS_Subset
<1> QED
  BY <1>2, FS_CardinalityType

LEMMA ToComeType == \A n : ToCome(n) \in 0 .. 1
BY DEF ToCome

LEMMA FewerTry ==
    ASSUME NEW n, Trying(n)' \subseteq Trying(n)
    PROVE  Cardinality(Trying(n)') \in Nat
           /\ Cardinality(Trying(n)') <= Cardinality(Trying(n))
<1>1. IsFiniteSet(Trying(n)) /\ Cardinality(Trying(n)) \in Nat
  BY TryingFinite
<1>2. IsFiniteSet(Trying(n)') /\ Cardinality(Trying(n)') <= Cardinality(Trying(n))
  BY <1>1, FS_Subset
<1> QED
  BY <1>2, FS_CardinalityType

LEMMA OneTriesNoMore ==
    ASSUME NEW n, NEW w \in Trying(n), Trying(n)' \subseteq Trying(n) \ {w}
    PROVE  Cardinality(Trying(n)') \in Nat
           /\ Cardinality(Trying(n)') + 1 <= Cardinality(Trying(n))
<1>1. IsFiniteSet(Trying(n)) /\ Cardinality(Trying(n)) \in Nat
  BY TryingFinite
<1>2. IsFiniteSet(Trying(n) \ {w})
      /\ Cardinality(Trying(n) \ {w}) = Cardinality(Trying(n)) - 1
  BY <1>1, FS_RemoveElement
<1>3. IsFiniteSet(Trying(n)') /\ Cardinality(Trying(n)') <= Cardinality(Trying(n) \ {w})
  BY <1>2, FS_Subset
<1>4. Cardinality(Trying(n)') \in Nat
  BY <1>3, FS_CardinalityType
<1> QED
  BY <1>1, <1>2, <1>3, <1>4

LEMMA OneTriesMore ==
    ASSUME NEW n, NEW w, Trying(n)' \subseteq Trying(n) \cup {w}
    PROVE  Cardinality(Trying(n)') \in Nat
           /\ Cardinality(Trying(n)') <= Cardinality(Trying(n)) + 1
<1>1. IsFiniteSet(Trying(n)) /\ Cardinality(Trying(n)) \in Nat
  BY TryingFinite
<1>2. /\ IsFiniteSet(Trying(n) \cup {w})
      /\ Cardinality(Trying(n) \cup {w}) <= Cardinality(Trying(n)) + 1
      /\ Cardinality(Trying(n) \cup {w}) \in Nat
  BY <1>1, FS_AddElement, FS_CardinalityType
<1>3. IsFiniteSet(Trying(n)')
      /\ Cardinality(Trying(n)') <= Cardinality(Trying(n) \cup {w})
  BY <1>2, FS_Subset
<1>4. Cardinality(Trying(n)') \in Nat
  BY <1>3, FS_CardinalityType
<1> QED
  BY <1>1, <1>2, <1>3, <1>4

-----------------------------------------------------------------------------
(***************************************************************************)
(* Steps of the workers and of the queue: each is about one notification.  *)
(***************************************************************************)

At(w, n) == worker[w] = Off \/ worker[w].notice = n

\* What a step about the notification m leaves alone.
Local(m) ==
    /\ UNCHANGED <<now, handler>>
    /\ DOMAIN row' = DOMAIN row
    /\ DOMAIN queue' = DOMAIN queue
    /\ DOMAIN sent' = DOMAIN sent
    /\ \A n \in DOMAIN row \ {m} : row'[n] = row[n] /\ sent'[n] = sent[n]
    /\ \A n \in DOMAIN queue \ {m} : queue'[n] = queue[n]
    /\ \A w \in Workers : worker'[w] = worker[w] \/ (At(w, m) /\ At(w, m)')
    /\ worker' \in [Workers -> Dispatch \cup {Off}]
    /\ faults' \in 0 .. MaxFaults /\ faults <= faults'

LEMMA HandlersKept ==
    ASSUME IInv, UNCHANGED handler, DOMAIN row' = DOMAIN row, DOMAIN queue' = DOMAIN queue,
           faults' \in Nat, faults <= faults'
    PROVE  Handlers'
<1>1. faults \in Nat /\ (faults' = 0 => faults = 0)
  BY NotificationAssumption DEF IInv, Tables
<1>2. AllQueued'
  BY <1>1 DEF IInv, Handlers, AllQueued, NoticeOf
<1> QED
  BY <1>2 DEF IInv, Handlers, NoticeOf

\* At the other notifications nothing changes.
LEMMA OthersKept ==
    ASSUME IInv, NEW m, Local(m), NEW n \in DOMAIN row, n # m
    PROVE  RowHolds(n)' /\ (n \in DOMAIN queue => EntryHolds(n)')
<1>1. n \in DOMAIN queue => queue'[n] = queue[n] /\ EntryHolds(n)
  BY DEF IInv, Local
<1>2. n \in DOMAIN queue => EntryHolds(n)'
  BY <1>1 DEF EntryHolds
<1>3. ASSUME NEW w \in Workers
      PROVE  /\ AtWork(w, n)' <=> AtWork(w, n)
             /\ AtWork(w, n) => worker'[w] = worker[w]
  BY DEF Local, At, AtWork
<1>4. Trying(n)' = Trying(n)
  BY <1>3 DEF Trying, AtWork
<1>5. ToCome(n)' = ToCome(n)
  <2>1. n \in DOMAIN queue' <=> n \in DOMAIN queue
    BY DEF Local
  <2>2. n \in DOMAIN queue /\ queue[n].state = "active" => queue[n].owner \in Workers
    BY <1>1 DEF EntryHolds, Job
  <2>3. n \in DOMAIN queue /\ queue[n].state = "active" =>
            (AtWork(queue[n].owner, n)' <=> AtWork(queue[n].owner, n))
    BY <1>1, <1>3, <2>2
  <2> QED
    BY <1>1, <2>1, <2>3 DEF ToCome
<1>6. RowHolds(n) /\ row'[n] = row[n] /\ sent'[n] = sent[n]
  BY DEF IInv, Local
<1>7. Left(n)' = Left(n)
  BY <1>4, <1>5, <1>6 DEF Left
<1>8. Left(n) \in Nat
  BY <1>6, TryingFinite, ToComeType DEF Left, RowHolds
<1>9. faults \in Nat /\ faults' \in Nat /\ faults <= faults'
  BY NotificationAssumption DEF IInv, Tables, Local
<1>10. Left(n)' <= 1 + faults'
  BY <1>6, <1>7, <1>8, <1>9 DEF RowHolds
<1> QED
  BY <1>2, <1>6, <1>10 DEF RowHolds, Local

LEMMA LocalStep ==
    ASSUME IInv, NEW m \in DOMAIN row, Local(m), sent'[m] >= sent[m],
           m \in DOMAIN queue => EntryHolds(m)', RowHolds(m)',
           \A w \in Workers : worker'[w] # worker[w] => WorkerHolds(w)'
    PROVE  IInv'
<1>1. faults' \in Nat /\ faults <= faults'
  BY NotificationAssumption DEF IInv, Tables, Local
<1>2. Handlers'
  BY <1>1, HandlersKept DEF Local
<1>3. Tables'
  BY DEF IInv, Tables, Local
<1>4. \A n \in DOMAIN queue' : EntryHolds(n)'
  <2>1. \A n \in DOMAIN queue : n \in DOMAIN row
    BY DEF IInv, Tables
  <2> QED
    BY <2>1, OthersKept DEF Local
<1>5. \A n \in DOMAIN row' : RowHolds(n)'
  BY OthersKept DEF Local
<1>6. ASSUME NEW w \in Workers, worker'[w] = worker[w]
      PROVE  WorkerHolds(w)'
  <2> SUFFICES ASSUME worker[w] # Off
               PROVE  WorkerHolds(w)'
    BY <1>6 DEF WorkerHolds
  <2> DEFINE n == worker[w].notice
  <2>1. /\ n \in DOMAIN queue
        /\ now >= ScheduledFor(n.type)
        /\ worker[w].step = "markSent" /\ Answered(n) => sent[n] > 0
    BY DEF IInv, WorkerHolds
  <2>2. n \in DOMAIN row /\ RowHolds(n)
    BY <2>1 DEF IInv, Tables
  <2>3. n # m => sent'[n] = sent[n]
    BY <2>2 DEF Local
  <2>4. sent[n] \in Nat /\ sent'[n] \in Nat
    BY <1>5, <2>2 DEF RowHolds, Local
  <2>5. sent[n] > 0 => sent'[n] > 0
    <3>1. CASE n = m
      BY <2>4, <3>1
    <3>2. CASE n # m
      BY <2>3, <3>2
    <3> QED
      BY <3>1, <3>2
  <2> HIDE DEF n
  <2>6. worker'[w].notice = n /\ worker'[w].step = worker[w].step
    BY <1>6 DEF n
  <2> QED
    BY <2>1, <2>5, <2>6 DEF WorkerHolds, Local
<1>7. \A w \in Workers : WorkerHolds(w)'
  BY <1>6
<1> QED
  BY <1>2, <1>3, <1>4, <1>5, <1>7 DEF IInv

\* The budget of a notification: what a step adds has been paid for.
LEMMA Paid ==
    ASSUME IInv, NEW m \in DOMAIN row, NEW paid \in Nat,
           faults' = faults + paid, sent'[m] \in Nat,
           Cardinality(Trying(m)') \in Nat,
           sent'[m] + Cardinality(Trying(m)') + ToCome(m)' <= Left(m) + paid
    PROVE  Left(m)' <= 1 + faults'
<1>1. Left(m) <= 1 + faults /\ sent[m] \in Nat
  BY DEF IInv, RowHolds
<1>2. ToCome(m) \in 0 .. 1 /\ ToCome(m)' \in 0 .. 1
  BY DEF ToCome
<1>3. Left(m) \in Nat
  BY <1>1, <1>2, TryingFinite DEF Left
<1>4. Left(m)' = sent'[m] + Cardinality(Trying(m)') + ToCome(m)'
  BY DEF Left
<1>5. faults \in Nat
  BY NotificationAssumption DEF IInv, Tables
<1> QED
  BY <1>1, <1>2, <1>3, <1>4, <1>5

LEMMA AtNotice ==
    ASSUME IInv, NEW w \in Workers, worker[w] # Off
    PROVE  /\ worker[w] \in Dispatch
           /\ worker[w].notice \in DOMAIN row
           /\ worker[w].notice \in DOMAIN queue
           /\ worker[w].notice \in DOMAIN sent
           /\ now >= ScheduledFor(worker[w].notice.type)
           /\ EntryHolds(worker[w].notice)
           /\ RowHolds(worker[w].notice)
           /\ AtWork(w, worker[w].notice)
<1>1. worker[w] \in Dispatch
  BY DEF IInv, Tables
<1>2. worker[w].notice \in DOMAIN queue /\ now >= ScheduledFor(worker[w].notice.type)
  BY DEF IInv, WorkerHolds
<1> QED
  BY <1>1, <1>2 DEF IInv, Tables, AtWork

\* A step about m that leaves m's entry and row in order, and pays its failures.
LEMMA StepAbout ==
    ASSUME IInv, NEW m \in DOMAIN queue, Local(m), EntryHolds(m)',
           sent'[m] > sent[m] => now >= ScheduledFor(m.type),
           m.channel \in DryRun => sent'[m] = 0,
           row'[m] \in Status,
           row'[m] = "SENT" /\ Answered(m) =>
                row[m] = "SENT" \/ sent'[m] > 0,
           sent'[m] \in Nat, sent'[m] >= sent[m],
           NEW paid \in Nat, faults' = faults + paid,
           Cardinality(Trying(m)') \in Nat,
           sent'[m] + Cardinality(Trying(m)') + ToCome(m)' <= Left(m) + paid,
           \A w \in Workers : worker'[w] # worker[w] => WorkerHolds(w)'
    PROVE  IInv'
<1>1. m \in DOMAIN row /\ RowHolds(m)
  BY DEF IInv, Tables
<1>2. Left(m)' <= 1 + faults'
  BY <1>1, Paid
<1>3. sent[m] \in Nat
  BY <1>1 DEF RowHolds
<1>4. row'[m] = "SENT" /\ Answered(m) => sent'[m] > 0
  <2>1. row[m] = "SENT" /\ Answered(m) => sent[m] > 0
    BY <1>1 DEF RowHolds
  <2>2. sent[m] > 0 => sent'[m] > 0
    BY <1>3
  <2> QED
    BY <2>1, <2>2
<1>5. sent'[m] > 0 => now >= ScheduledFor(m.type)
  BY <1>1, <1>3 DEF RowHolds
<1>6. RowHolds(m)'
  BY <1>2, <1>4, <1>5 DEF RowHolds, Local
<1> QED
  BY <1>1, <1>6, LocalStep

-----------------------------------------------------------------------------
(***************************************************************************)
(* A worker goes on with its notification, or leaves it.                   *)
(***************************************************************************)

LEMMA Going ==
    ASSUME IInv, NEW w \in Workers, worker[w] # Off,
           NEW step \in {"read", "send", "markSent", "markFailed"}, Goto(w, step)
    PROVE  /\ worker' \in [Workers -> Dispatch \cup {Off}]
           /\ \A v \in Workers \ {w} : worker'[v] = worker[v]
           /\ worker'[w] # Off /\ worker'[w].step = step
           /\ worker'[w].notice = worker[w].notice
<1>1. worker[w] \in Dispatch /\ worker \in [Workers -> Dispatch \cup {Off}]
  BY AtNotice DEF IInv, Tables
<1> DEFINE next == [worker[w] EXCEPT !.step = step]
<1>2. next \in Dispatch /\ next.step = step /\ next.notice = worker[w].notice
  BY <1>1 DEF Dispatch
<1>3. next # Off
  BY <1>2 DEF Off
<1>4. worker' = [worker EXCEPT ![w] = next]
  BY DEF Goto
<1> HIDE DEF next
<1> QED
  BY <1>1, <1>2, <1>3, <1>4

LEMMA GoingOn ==
    ASSUME IInv, NEW w \in Workers, worker[w] # Off, NEW m, worker[w].notice = m,
           NEW step \in {"read", "send", "markSent", "markFailed"}, Goto(w, step),
           UNCHANGED queue
    PROVE  /\ ToCome(m)' = ToCome(m)
           /\ step \in {"read", "send"} /\ worker[w].step \in {"read", "send"} =>
                Trying(m)' \subseteq Trying(m)
           /\ step \notin {"read", "send"} => Trying(m)' \subseteq Trying(m) \ {w}
<1>1. /\ \A v \in Workers \ {w} : worker'[v] = worker[v]
      /\ worker'[w] # Off /\ worker'[w].step = step
      /\ worker'[w].notice = m
  BY Going
<1>2. \A v \in Workers : AtWork(v, m)' <=> AtWork(v, m)
  BY <1>1 DEF AtWork
<1>3. m \in DOMAIN queue /\ EntryHolds(m) /\ AtWork(w, m)
  BY AtNotice
<1>4. queue[m].state = "active" => queue[m].owner \in Workers
  BY <1>3 DEF EntryHolds, Job
<1>5. ToCome(m)' = ToCome(m)
  <2>1. queue[m].state = "active" =>
            (AtWork(queue[m].owner, m)' <=> AtWork(queue[m].owner, m))
    BY <1>2, <1>4
  <2> QED
    BY <2>1 DEF ToCome
<1>6. \A v \in Workers \ {w} : v \in Trying(m)' => v \in Trying(m)
  BY <1>1, <1>2 DEF Trying
<1>7. Trying(m)' \subseteq Workers
  BY DEF Trying
<1>8. w \in Trying(m)' => step \in {"read", "send"}
  BY <1>1 DEF Trying
<1>9. worker[w].step \in {"read", "send"} => w \in Trying(m)
  BY <1>3 DEF Trying
<1>10. step \in {"read", "send"} /\ worker[w].step \in {"read", "send"} =>
            Trying(m)' \subseteq Trying(m)
  BY <1>6, <1>7, <1>9
<1>11. step \notin {"read", "send"} => Trying(m)' \subseteq Trying(m) \ {w}
  BY <1>6, <1>7, <1>8
<1> QED
  BY <1>5, <1>10, <1>11

\* An entry is given back only by the worker whose it is, and is to come again
\* only if it waits.
LEMMA Leaving ==
    ASSUME IInv, NEW w \in Workers, worker[w] # Off, NEW m, worker[w].notice = m,
           NEW job, queue[m].owner = w => SameEntry(job, queue[m]), Leave(w, job)
    PROVE  /\ worker' \in [Workers -> Dispatch \cup {Off}]
           /\ \A v \in Workers \ {w} : worker'[v] = worker[v]
           /\ worker'[w] = Off
           /\ DOMAIN queue' = DOMAIN queue
           /\ \A n \in DOMAIN queue \ {m} : queue'[n] = queue[n]
           /\ EntryHolds(m)'
           /\ Trying(m)' \subseteq Trying(m) \ {w}
           /\ ToCome(m)' <= ToCome(m) + 1
           /\ job.state \notin {"waiting", "active"} => ToCome(m)' <= ToCome(m)
<1>1. /\ worker' = [worker EXCEPT ![w] = Off]
      /\ queue' = IF queue[m].owner = w THEN [queue EXCEPT ![m] = job] ELSE queue
  BY DEF Leave
<1>2. m \in DOMAIN queue /\ EntryHolds(m) /\ AtWork(w, m)
  BY AtNotice
<1>4. /\ worker' \in [Workers -> Dispatch \cup {Off}]
      /\ \A v \in Workers \ {w} : worker'[v] = worker[v]
      /\ worker'[w] = Off
  BY <1>1 DEF IInv, Tables
<1>5. DOMAIN queue' = DOMAIN queue /\ \A n \in DOMAIN queue \ {m} : queue'[n] = queue[n]
  BY <1>1
<1>6. queue'[m] = (IF queue[m].owner = w THEN job ELSE queue[m])
  BY <1>1, <1>2
<1>7. EntryHolds(m)'
  <2>1. CASE queue[m].owner = w
    BY <1>2, <1>6, <2>1, EntryKept
  <2>2. CASE queue[m].owner # w
    BY <1>2, <1>6, <2>2 DEF EntryHolds
  <2> QED
    BY <2>1, <2>2
<1>8. Trying(m)' \subseteq Trying(m) \ {w}
  BY <1>4 DEF Trying, AtWork
<1>9. queue[m].state = "active" => queue[m].owner \in Workers
  BY <1>2 DEF EntryHolds, Job
<1>10. CASE queue[m].owner # w
  <2>1. queue'[m] = queue[m]
    BY <1>6, <1>10
  <2>2. queue[m].state = "active" =>
            (AtWork(queue[m].owner, m)' <=> AtWork(queue[m].owner, m))
    BY <1>4, <1>9, <1>10, <2>1 DEF AtWork
  <2>3. ToCome(m)' = ToCome(m)
    BY <1>5, <2>1, <2>2 DEF ToCome
  <2>4. ToCome(m) \in 0 .. 1
    BY ToComeType
  <2>5. ToCome(m)' <= ToCome(m) /\ ToCome(m)' <= ToCome(m) + 1
    BY <2>3, <2>4
  <2> QED
    BY <1>4, <1>5, <1>7, <1>8, <2>5
<1>11. CASE queue[m].owner = w
  <2>1. ToCome(m) \in 0 .. 1 /\ ToCome(m)' \in 0 .. 1
    BY DEF ToCome
  <2>2. queue'[m] = job
    BY <1>6, <1>11
  <2>3. job.state \notin {"waiting", "active"} => ToCome(m)' = 0
    BY <2>2 DEF ToCome
  <2>4. ToCome(m)' <= ToCome(m) + 1
        /\ (job.state \notin {"waiting", "active"} => ToCome(m)' <= ToCome(m))
    BY <2>1, <2>3
  <2> QED
    BY <1>4, <1>5, <1>7, <1>8, <2>4
<1> QED
  BY <1>10, <1>11

-----------------------------------------------------------------------------
(***************************************************************************)
(* The steps of the workers and of the queue.                              *)
(***************************************************************************)

\* At m alone, the function has a new value.
Written(next, f, m, value) ==
    /\ DOMAIN next = DOMAIN f
    /\ next[m] = value
    /\ \A n \in DOMAIN f \ {m} : next[n] = f[n]

\* The processor returns, or throws, after having left the row alone or written
\* an outcome to it.
LEMMA LeaveHolds ==
    ASSUME IInv, NEW w \in Workers, worker[w] # Off, NEW m, worker[w].notice = m,
           NEW job, queue[m].owner = w => SameEntry(job, queue[m]), Leave(w, job),
           NEW paid \in 0 .. 1, faults' = faults + paid, faults' \in 0 .. MaxFaults,
           job.state \in {"waiting", "active"} => paid = 1,
           UNCHANGED <<now, handler, sent>>,
           NEW status, Written(row', row, m, status), status \in Status,
           status = "SENT" /\ Answered(m) =>
                row[m] = "SENT" \/ sent[m] > 0
    PROVE  IInv'
<1>1. /\ m \in DOMAIN row /\ m \in DOMAIN queue /\ now >= ScheduledFor(m.type)
      /\ EntryHolds(m) /\ RowHolds(m) /\ AtWork(w, m)
  BY AtNotice
<1>2. /\ worker' \in [Workers -> Dispatch \cup {Off}]
      /\ \A v \in Workers \ {w} : worker'[v] = worker[v]
      /\ worker'[w] = Off
      /\ DOMAIN queue' = DOMAIN queue
      /\ \A n \in DOMAIN queue \ {m} : queue'[n] = queue[n]
      /\ EntryHolds(m)'
      /\ Trying(m)' \subseteq Trying(m) \ {w}
      /\ ToCome(m)' <= ToCome(m) + 1
      /\ job.state \notin {"waiting", "active"} => ToCome(m)' <= ToCome(m)
  BY Leaving
<1>3. sent[m] \in Nat /\ faults \in Nat
  BY <1>1, NotificationAssumption DEF RowHolds, IInv, Tables
<1>4. Cardinality(Trying(m)') \in Nat /\ Cardinality(Trying(m)') <= Cardinality(Trying(m))
  BY <1>2, FewerTry
<1>5. ToCome(m)' <= ToCome(m) + paid /\ ToCome(m) \in 0 .. 1 /\ ToCome(m)' \in 0 .. 1
  <2>1. ToCome(m) \in 0 .. 1 /\ ToCome(m)' \in 0 .. 1
    BY DEF ToCome
  <2> QED
    BY <1>2, <2>1
<1>6. sent[m] + Cardinality(Trying(m)') + ToCome(m)' <= Left(m) + paid
  <2>1. Cardinality(Trying(m)) \in Nat
    BY TryingFinite
  <2> QED
    BY <1>3, <1>4, <1>5, <2>1 DEF Left
<1>7. \A v \in Workers : worker'[v] # worker[v] => WorkerHolds(v)'
  BY <1>2 DEF WorkerHolds
<1>8. Local(m)
  BY <1>1, <1>2, <1>3 DEF Local, At, AtWork, Written
<1>9. row'[m] = status /\ (m.channel \in DryRun => sent'[m] = 0)
  BY <1>1 DEF Written, RowHolds
<1> QED
  BY <1>1, <1>2, <1>3, <1>4, <1>6, <1>7, <1>8, <1>9, StepAbout

\* A worker goes on to another step, after a delivery or without one.
LEMMA GotoHolds ==
    ASSUME IInv, NEW w \in Workers, worker[w] # Off, NEW m, worker[w].notice = m,
           NEW step \in {"read", "send", "markSent", "markFailed"}, Goto(w, step),
           NEW paid \in 0 .. 1, faults' = faults + paid, faults' \in 0 .. MaxFaults,
           UNCHANGED <<now, handler, row, queue>>,
           NEW more \in 0 .. 1, Written(sent', sent, m, sent[m] + more),
           step \in {"read", "send"} => worker[w].step \in {"read", "send"},
           more = 1 => worker[w].step = "send" /\ step \notin {"read", "send"},
           step = "markSent" /\ Answered(m) => more = 1,
           m.channel \in DryRun => more = 0
    PROVE  IInv'
<1>1. /\ m \in DOMAIN row /\ m \in DOMAIN queue /\ m \in DOMAIN sent
      /\ now >= ScheduledFor(m.type)
      /\ EntryHolds(m) /\ RowHolds(m) /\ AtWork(w, m)
  BY AtNotice
<1>2. /\ worker' \in [Workers -> Dispatch \cup {Off}]
      /\ \A v \in Workers \ {w} : worker'[v] = worker[v]
      /\ worker'[w] # Off /\ worker'[w].step = step
      /\ worker'[w].notice = m
  BY Going
<1>3. /\ ToCome(m)' = ToCome(m)
      /\ step \in {"read", "send"} /\ worker[w].step \in {"read", "send"} =>
            Trying(m)' \subseteq Trying(m)
      /\ step \notin {"read", "send"} => Trying(m)' \subseteq Trying(m) \ {w}
  BY GoingOn
<1>4. /\ sent[m] \in Nat /\ faults \in Nat
      /\ Cardinality(Trying(m)) \in Nat /\ ToCome(m) \in 0 .. 1
  BY <1>1, TryingFinite, ToComeType, NotificationAssumption DEF RowHolds, IInv, Tables
<1>5. /\ Cardinality(Trying(m)') \in Nat
      /\ Cardinality(Trying(m)') + more <= Cardinality(Trying(m))
  <2>1. CASE more = 1
    <3>1. w \in Trying(m)
      BY <1>1, <2>1 DEF Trying
    <3> QED
      BY <1>3, <2>1, <3>1, OneTriesNoMore
  <2>2. CASE more = 0
    <3>1. Trying(m)' \subseteq Trying(m)
      BY <1>3
    <3>2. Cardinality(Trying(m)') \in Nat
          /\ Cardinality(Trying(m)') <= Cardinality(Trying(m))
      BY <3>1, FewerTry
    <3> QED
      BY <1>4, <2>2, <3>2
  <2> QED
    BY <2>1, <2>2
<1>6. sent'[m] = sent[m] + more /\ sent'[m] \in Nat /\ sent'[m] >= sent[m]
  BY <1>1, <1>4 DEF Written
<1>7. sent'[m] + Cardinality(Trying(m)') + ToCome(m)' <= Left(m) + paid
  BY <1>3, <1>4, <1>5, <1>6 DEF Left
<1>8. EntryHolds(m)'
  BY <1>1 DEF EntryHolds
<1>9. step = "markSent" /\ Answered(m) => sent'[m] > 0
  BY <1>4, <1>6
<1>10. \A v \in Workers : worker'[v] # worker[v] => WorkerHolds(v)'
  BY <1>1, <1>2, <1>9 DEF WorkerHolds
<1>11. Local(m)
  BY <1>1, <1>2, <1>4 DEF Local, At, AtWork, Written, IInv, Tables
<1>12. row'[m] = row[m] /\ row[m] \in Status
  BY <1>1 DEF RowHolds
<1>13. m.channel \in DryRun => sent'[m] = 0
  BY <1>1, <1>6 DEF RowHolds
<1> QED
  BY <1>1, <1>4, <1>5, <1>6, <1>7, <1>8, <1>10, <1>11, <1>12, <1>13, StepAbout

LEMMA AtWorkSteps ==
    ASSUME NEW w \in Workers
    PROVE  worker[w].step \in {"read", "send", "markSent", "markFailed"} => worker[w] # Off
BY DEF Off

LEMMA StatusKept ==
    ASSUME IInv, NEW m \in DOMAIN row, UNCHANGED row
    PROVE  Written(row', row, m, row[m]) /\ row[m] \in Status
BY DEF IInv, RowHolds, Written

LEMMA SentKept ==
    ASSUME IInv, NEW m \in DOMAIN row, UNCHANGED sent
    PROVE  Written(sent', sent, m, sent[m] + 0)
<1>1. sent[m] \in Nat
  BY DEF IInv, RowHolds
<1> QED
  BY <1>1 DEF Written

LEMMA NoFailure ==
    ASSUME IInv, UNCHANGED faults
    PROVE  faults' = faults + 0 /\ faults' \in 0 .. MaxFaults
BY NotificationAssumption DEF IInv, Tables

LEMMA OneFailure ==
    ASSUME IInv, Fault
    PROVE  faults' = faults + 1 /\ faults' \in 0 .. MaxFaults
BY NotificationAssumption DEF IInv, Tables, Fault

LEMMA ReadRowHolds ==
    ASSUME IInv, NEW w \in Workers, ReadRow(w)
    PROVE  IInv'
<1>1. worker[w].step = "read" /\ UNCHANGED <<now, handler, row, sent, faults>>
  BY DEF ReadRow
<1>2. worker[w] # Off
  BY <1>1, AtWorkSteps
<1>3. PICK m : m = worker[w].notice
  OBVIOUS
<1>4. m \in DOMAIN row /\ EntryHolds(m)
  BY <1>2, <1>3, AtNotice
<1>5. faults' = faults + 0 /\ faults' \in 0 .. MaxFaults
  BY <1>1, NoFailure
<1>6. CASE Goto(w, "send") /\ UNCHANGED queue
  <2>1. Written(sent', sent, m, sent[m] + 0)
    BY <1>1, <1>4, SentKept
  <2> QED
    BY <1>1, <1>2, <1>3, <1>5, <1>6, <2>1, GotoHolds
<1>7. CASE Return(w)
  <2>1. PICK job : job = Ended(queue[m], "completed")
    OBVIOUS
  <2>2. SameEntry(job, queue[m]) /\ job.state = "completed"
    BY <1>4, <2>1, EndedEntry DEF EntryHolds
  <2>3. Leave(w, job)
    BY <1>3, <1>7, <2>1 DEF Return
  <2>4. Written(row', row, m, row[m]) /\ row[m] \in Status
    BY <1>1, <1>4, StatusKept
  <2> QED
    BY <1>1, <1>2, <1>3, <1>5, <2>2, <2>3, <2>4, LeaveHolds
<1> QED
  BY <1>6, <1>7 DEF ReadRow

LEMMA MarkHolds ==
    ASSUME IInv, NEW w \in Workers, Mark(w)
    PROVE  IInv'
<1>1. /\ worker[w].step \in {"markSent", "markFailed"} /\ Return(w)
      /\ UNCHANGED <<now, handler, sent, faults>>
  BY DEF Mark
<1>2. worker[w] # Off
  BY <1>1, AtWorkSteps
<1>3. PICK m : m = worker[w].notice
  OBVIOUS
<1>4. m \in DOMAIN row /\ EntryHolds(m)
  BY <1>2, <1>3, AtNotice
<1>5. faults' = faults + 0 /\ faults' \in 0 .. MaxFaults
  BY <1>1, NoFailure
<1>6. PICK status : status = IF worker[w].step = "markSent" THEN "SENT" ELSE "FAILED"
  OBVIOUS
<1>7. row' = [row EXCEPT ![m] = status]
  BY <1>3, <1>6 DEF Mark
<1>8. Written(row', row, m, status) /\ status \in Status
  BY <1>4, <1>6, <1>7 DEF Written, Status
<1>9. status = "SENT" /\ Answered(m) => sent[m] > 0
  BY <1>2, <1>3, <1>6 DEF IInv, WorkerHolds
<1>10. PICK job : job = Ended(queue[m], "completed")
  OBVIOUS
<1>11. SameEntry(job, queue[m]) /\ job.state = "completed"
  BY <1>4, <1>10, EndedEntry DEF EntryHolds
<1>12. Leave(w, job)
  BY <1>1, <1>3, <1>10 DEF Return
<1> QED
  BY <1>1, <1>2, <1>3, <1>5, <1>8, <1>9, <1>11, <1>12, LeaveHolds

LEMMA DeliverOrNot ==
    ASSUME IInv, NEW w \in Workers, worker[w] # Off, NEW m, worker[w].notice = m,
           Deliver(w) \/ UNCHANGED sent
    PROVE  \E more \in 0 .. 1 :
                /\ Written(sent', sent, m, sent[m] + more)
                /\ Deliver(w) /\ m.channel \notin DryRun => more = 1
                /\ m.channel \in DryRun => more = 0
<1>1. m \in DOMAIN row /\ m \in DOMAIN sent
  BY AtNotice
<1>2. CASE Deliver(w) /\ m.channel \notin DryRun
  <2>1. sent' = [sent EXCEPT ![m] = sent[m] + 1]
    BY <1>2 DEF Deliver
  <2>2. Written(sent', sent, m, sent[m] + 1)
    BY <1>1, <2>1 DEF Written
  <2> QED
    BY <1>2, <2>2
<1>3. CASE UNCHANGED sent /\ ~(Deliver(w) /\ m.channel \notin DryRun)
  BY <1>1, <1>3, SentKept
<1>4. Deliver(w) /\ m.channel \in DryRun => UNCHANGED sent
  BY DEF Deliver
<1> QED
  BY <1>2, <1>3, <1>4

LEMMA SendHolds ==
    ASSUME IInv, NEW w \in Workers, SendMessage(w) \/ SendPush(w)
    PROVE  IInv'
<1>1. /\ worker[w].step = "send" /\ UNCHANGED <<now, handler, row, queue, faults>>
      /\ Deliver(w) \/ UNCHANGED sent
      /\ Goto(w, "markSent") \/ Goto(w, "markFailed")
  BY DEF SendMessage, SendPush, Sending
<1>2. worker[w] # Off
  BY <1>1, AtWorkSteps
<1>3. PICK m : m = worker[w].notice
  OBVIOUS
<1>4. PICK step \in {"markSent", "markFailed"} :
            /\ Goto(w, step)
            /\ step = "markSent" /\ SendMessage(w) => Deliver(w)
  <2>1. CASE SendMessage(w)
    BY <2>1 DEF SendMessage
  <2>2. CASE SendPush(w) /\ ~SendMessage(w)
    BY <2>2 DEF SendPush
  <2> QED
    BY <2>1, <2>2
<1>5. PICK more \in 0 .. 1 :
            /\ Written(sent', sent, m, sent[m] + more)
            /\ Deliver(w) /\ m.channel \notin DryRun => more = 1
            /\ m.channel \in DryRun => more = 0
  BY <1>1, <1>2, <1>3, DeliverOrNot
<1>6. Answered(m) => SendMessage(w) /\ m.channel \notin DryRun
  BY <1>3 DEF SendPush, IsPush, Answered
<1>7. faults' = faults + 0 /\ faults' \in 0 .. MaxFaults
  BY <1>1, NoFailure
<1>8. step = "markSent" /\ Answered(m) => more = 1
  BY <1>4, <1>5, <1>6
<1> QED
  BY <1>1, <1>2, <1>3, <1>4, <1>5, <1>7, <1>8, GotoHolds

LEMMA FailStatementHolds ==
    ASSUME IInv, NEW w \in Workers, FailStatement(w)
    PROVE  IInv'
<1>1. worker[w] # Off /\ Fault /\ UNCHANGED <<now, handler, row, sent>>
  BY DEF FailStatement
<1>2. \/ Goto(w, "markFailed") /\ UNCHANGED queue
      \/ Throw(w)
  BY DEF FailStatement
<1>3. PICK m : m = worker[w].notice
  OBVIOUS
<1>4. m \in DOMAIN row /\ EntryHolds(m) /\ m \in DOMAIN queue
  BY <1>1, <1>3, AtNotice
<1>5. faults' = faults + 1 /\ faults' \in 0 .. MaxFaults
  BY <1>1, OneFailure
<1>6. CASE Goto(w, "markFailed") /\ UNCHANGED queue
  <2>1. Written(sent', sent, m, sent[m] + 0)
    BY <1>1, <1>4, SentKept
  <2> QED
    BY <1>1, <1>3, <1>5, <1>6, <2>1, GotoHolds
<1>7. CASE Throw(w)
  <2>1. PICK job : job = Failed(queue[m])
    OBVIOUS
  <2>2. queue[m].owner = w => SameEntry(job, queue[m])
    BY <1>4, <2>1, FailedEntry, NotificationAssumption DEF EntryHolds
  <2>3. Leave(w, job)
    BY <1>3, <1>7, <2>1 DEF Throw
  <2>4. Written(row', row, m, row[m]) /\ row[m] \in Status
    BY <1>1, <1>4, StatusKept
  <2> QED
    BY <1>1, <1>3, <1>5, <2>2, <2>3, <2>4, LeaveHolds
<1> QED
  BY <1>2, <1>6, <1>7

\* What the workers and the queue do to m is about m alone, and leaves its row.
LEMMA QueueHolds ==
    ASSUME IInv, NEW m \in DOMAIN queue, UNCHANGED <<now, handler, row, sent>>,
           NEW job, SameEntry(job, queue[m]), Written(queue', queue, m, job),
           worker' \in [Workers -> Dispatch \cup {Off}],
           \A w \in Workers : worker'[w] # worker[w] =>
                /\ now >= ScheduledFor(m.type)
                /\ At(w, m) /\ At(w, m)' /\ worker'[w].step # "markSent",
           NEW paid \in Nat, faults' = faults + paid, faults' \in 0 .. MaxFaults,
           Cardinality(Trying(m)') \in Nat,
           Cardinality(Trying(m)') + ToCome(m)'
                <= Cardinality(Trying(m)) + ToCome(m) + paid
    PROVE  IInv'
<1>1. m \in DOMAIN row /\ RowHolds(m) /\ EntryHolds(m)
  BY DEF IInv, Tables
<1>2. DOMAIN queue' = DOMAIN queue /\ queue'[m] = job
      /\ \A n \in DOMAIN queue \ {m} : queue'[n] = queue[n]
  BY DEF Written
<1>3. EntryHolds(m)'
  BY <1>1, <1>2, EntryKept
<1>4. sent[m] \in Nat /\ sent'[m] = sent[m] /\ faults \in Nat
  BY <1>1, NotificationAssumption DEF RowHolds, IInv, Tables
<1>5. sent'[m] + Cardinality(Trying(m)') + ToCome(m)' <= Left(m) + paid
  <2>1. Cardinality(Trying(m)) \in Nat /\ ToCome(m) \in 0 .. 1 /\ ToCome(m)' \in 0 .. 1
    BY TryingFinite DEF ToCome
  <2> QED
    BY <1>4, <2>1 DEF Left
<1>6. Local(m)
  BY <1>2, <1>4 DEF Local
<1>7. ASSUME NEW w \in Workers, worker'[w] # worker[w]
      PROVE  WorkerHolds(w)'
  BY <1>2, <1>7 DEF WorkerHolds, At
<1>8. row'[m] = row[m] /\ row[m] \in Status /\ (m.channel \in DryRun => sent'[m] = 0)
  BY <1>1, <1>4 DEF RowHolds
<1> QED
  BY <1>1, <1>3, <1>4, <1>5, <1>6, <1>7, <1>8, StepAbout

LEMMA TakeHolds ==
    ASSUME IInv, NEW w \in Workers, NEW m \in DOMAIN queue, Take(w, m)
    PROVE  IInv'
<1>1. /\ worker[w] = Off /\ queue[m].state = "waiting" /\ queue[m].due <= now
      /\ queue' = [queue EXCEPT ![m] = Taken(queue[m], w)]
      /\ worker' = [worker EXCEPT ![w] = [step |-> "read", notice |-> m]]
      /\ UNCHANGED <<now, handler, row, sent, faults>>
  BY DEF Take
<1>2. EntryHolds(m) /\ m \in DOMAIN row /\ m \in Notice
  BY DEF IInv, Tables
<1>3. PICK job : job = Taken(queue[m], w)
  OBVIOUS
<1>4. SameEntry(job, queue[m]) /\ job.state = "active" /\ job.owner = w
  BY <1>1, <1>2, <1>3, TakenEntry DEF EntryHolds
<1>5. now >= ScheduledFor(m.type)
  <2>1. queue[m].due \in Nat /\ queue[m].due >= ScheduledFor(m.type) /\ now \in Nat
    BY <1>2, NotificationAssumption DEF EntryHolds, Job, IInv, Tables
  <2>2. ScheduledFor(m.type) \in 0 .. Horizon
    BY <1>2, Dates DEF Notice
  <2> QED
    BY <1>1, <2>1, <2>2, NotificationAssumption
<1>6. Written(queue', queue, m, job)
  BY <1>1, <1>3 DEF Written
<1>7. [step |-> "read", notice |-> m] \in Dispatch
  BY <1>2 DEF Dispatch
<1>8. worker' \in [Workers -> Dispatch \cup {Off}]
  BY <1>1, <1>7 DEF IInv, Tables
<1>9. /\ worker'[w] = [step |-> "read", notice |-> m]
      /\ \A v \in Workers \ {w} : worker'[v] = worker[v]
  BY <1>1 DEF IInv, Tables
<1>10. \A v \in Workers : worker'[v] # worker[v] =>
            At(v, m) /\ At(v, m)' /\ worker'[v].step # "markSent"
  BY <1>1, <1>9 DEF At
<1>11. Trying(m)' \subseteq Trying(m) \cup {w}
  BY <1>9 DEF Trying, AtWork
<1>12. Cardinality(Trying(m)') \in Nat
       /\ Cardinality(Trying(m)') <= Cardinality(Trying(m)) + 1
  BY <1>11, OneTriesMore
<1>13. ToCome(m) = 1
  BY <1>1 DEF ToCome
<1>14. ToCome(m)' = 0
  <2>1. queue'[m] = job
    BY <1>6 DEF Written
  <2>2. worker'[w] # Off /\ worker'[w].notice = m
    BY <1>9 DEF Off
  <2> QED
    BY <1>4, <2>1, <2>2 DEF ToCome, AtWork
<1>15. faults' = faults + 0 /\ faults' \in 0 .. MaxFaults
  BY <1>1, NoFailure
<1>16. Cardinality(Trying(m)') + ToCome(m)' <= Cardinality(Trying(m)) + ToCome(m) + 0
  BY <1>12, <1>13, <1>14, TryingFinite
<1> QED
  BY <1>1, <1>4, <1>5, <1>6, <1>8, <1>10, <1>12, <1>15, <1>16, QueueHolds

LEMMA DieHolds ==
    ASSUME IInv, NEW w \in Workers, Die(w)
    PROVE  IInv'
<1>1. /\ worker[w] # Off /\ Fault /\ worker' = [worker EXCEPT ![w] = Off]
      /\ UNCHANGED <<now, handler, row, queue, sent>>
  BY DEF Die
<1>2. PICK m : m = worker[w].notice
  OBVIOUS
<1>3. m \in DOMAIN queue /\ EntryHolds(m) /\ now >= ScheduledFor(m.type)
  BY <1>1, <1>2, AtNotice
<1>4. PICK job : job = queue[m]
  OBVIOUS
<1>5. SameEntry(job, queue[m])
  BY <1>3, <1>4 DEF EntryHolds, SameEntry
<1>6. Written(queue', queue, m, job)
  BY <1>1, <1>4 DEF Written
<1>7. /\ worker' \in [Workers -> Dispatch \cup {Off}]
      /\ worker'[w] = Off
      /\ \A v \in Workers \ {w} : worker'[v] = worker[v]
  BY <1>1 DEF IInv, Tables
<1>8. \A v \in Workers : worker'[v] # worker[v] =>
            At(v, m) /\ At(v, m)' /\ worker'[v].step # "markSent"
  BY <1>2, <1>7 DEF At, Off
<1>9. Trying(m)' \subseteq Trying(m)
  BY <1>7 DEF Trying, AtWork
<1>10. Cardinality(Trying(m)') \in Nat
       /\ Cardinality(Trying(m)') <= Cardinality(Trying(m))
  BY <1>9, FewerTry
<1>11. ToCome(m) \in 0 .. 1 /\ ToCome(m)' \in 0 .. 1
  BY DEF ToCome
<1>12. Cardinality(Trying(m)') + ToCome(m)' <= Cardinality(Trying(m)) + ToCome(m) + 1
  BY <1>10, <1>11, TryingFinite
<1>13. faults' = faults + 1 /\ faults' \in 0 .. MaxFaults
  BY <1>1, OneFailure
<1> QED
  BY <1>1, <1>3, <1>5, <1>6, <1>7, <1>8, <1>10, <1>12, <1>13, QueueHolds

LEMMA StalledHolds ==
    ASSUME IInv, NEW m \in DOMAIN queue, RecoverStalled(m) \/ LoseLock(m)
    PROVE  IInv'
<1>1. /\ queue[m].state = "active"
      /\ queue' = [queue EXCEPT ![m] = Released(queue[m])]
      /\ UNCHANGED <<now, handler, row, worker, sent>>
  BY DEF RecoverStalled, LoseLock, Stalled
<1>2. EntryHolds(m) /\ m \in Notice
  BY DEF IInv, Tables
<1>3. PICK job : job = Released(queue[m])
  OBVIOUS
<1>4. SameEntry(job, queue[m])
  BY <1>1, <1>2, <1>3, ReleasedEntry DEF EntryHolds
<1>5. Written(queue', queue, m, job)
  BY <1>1, <1>3 DEF Written
<1>6. Trying(m)' \subseteq Trying(m)
  BY <1>1 DEF Trying, AtWork
<1>7. Cardinality(Trying(m)') \in Nat
      /\ Cardinality(Trying(m)') <= Cardinality(Trying(m))
  BY <1>6, FewerTry
<1>8. ToCome(m) \in 0 .. 1 /\ ToCome(m)' \in 0 .. 1
  BY DEF ToCome
<1>9. worker' \in [Workers -> Dispatch \cup {Off}]
  BY <1>1 DEF IInv, Tables
<1>10. CASE RecoverStalled(m)
  <2>1. ToCome(m) = 1
    BY <1>10 DEF ToCome, RecoverStalled
  <2>2. Cardinality(Trying(m)') + ToCome(m)' <= Cardinality(Trying(m)) + ToCome(m) + 0
    BY <1>7, <1>8, <2>1, TryingFinite
  <2>3. faults' = faults + 0 /\ faults' \in 0 .. MaxFaults
    BY <1>10, NoFailure DEF RecoverStalled
  <2> QED
    BY <1>1, <1>4, <1>5, <1>7, <1>9, <2>2, <2>3, QueueHolds
<1>11. CASE LoseLock(m)
  <2>1. Cardinality(Trying(m)') + ToCome(m)' <= Cardinality(Trying(m)) + ToCome(m) + 1
    BY <1>7, <1>8, TryingFinite
  <2>2. faults' = faults + 1 /\ faults' \in 0 .. MaxFaults
    BY <1>11, OneFailure DEF LoseLock
  <2> QED
    BY <1>1, <1>4, <1>5, <1>7, <1>9, <2>1, <2>2, QueueHolds
<1> QED
  BY <1>10, <1>11

-----------------------------------------------------------------------------
(***************************************************************************)
(* The other steps: the clock, the readers, the handlers of events.        *)
(***************************************************************************)

LEMMA Elsewhere ==
    ASSUME IInv, Handlers', UNCHANGED <<queue, worker, sent>>,
           DOMAIN row' = DOMAIN row,
           \A n \in DOMAIN row : row'[n] \in {row[n], "READ"},
           now' \in 0 .. Horizon, now <= now',
           faults' \in 0 .. MaxFaults, faults <= faults'
    PROVE  IInv'
<1>1. /\ now \in Nat /\ now' \in Nat /\ faults \in Nat /\ faults' \in Nat
      /\ DOMAIN row \subseteq Notice /\ DOMAIN queue \subseteq DOMAIN row
  BY NotificationAssumption DEF IInv, Tables
<1>2. Tables'
  BY DEF IInv, Tables
<1>3. \A n \in DOMAIN queue' : EntryHolds(n)'
  BY DEF IInv, EntryHolds
<1>4. ASSUME NEW n \in DOMAIN row, now >= ScheduledFor(n.type)
      PROVE  now' >= ScheduledFor(n.type)
  <2>1. ScheduledFor(n.type) \in Nat
    BY <1>1, Dates, NotificationAssumption DEF Notice
  <2> QED
    BY <1>1, <1>4, <2>1
<1>5. \A w \in Workers : WorkerHolds(w)'
  BY <1>1, <1>4 DEF IInv, WorkerHolds
<1>6. ASSUME NEW n \in DOMAIN row
      PROVE  RowHolds(n)'
  <2>1. RowHolds(n)
    BY DEF IInv
  <2>2. Trying(n)' = Trying(n) /\ ToCome(n)' = ToCome(n)
    BY DEF Trying, ToCome, AtWork
  <2>3. Left(n)' = Left(n)
    BY <2>2 DEF Left
  <2>4. Left(n) \in Nat /\ Left(n) <= 1 + faults
    BY <2>1, TryingFinite, ToComeType DEF Left, RowHolds
  <2>5. Left(n)' <= 1 + faults'
    BY <1>1, <2>3, <2>4
  <2>6. row'[n] \in Status /\ (row'[n] = "SENT" => row[n] = "SENT")
    BY <2>1 DEF RowHolds, Status
  <2>7. sent'[n] = sent[n] /\ (sent[n] > 0 => now' >= ScheduledFor(n.type))
    BY <1>4, <2>1 DEF RowHolds
  <2> QED
    BY <2>1, <2>5, <2>6, <2>7 DEF RowHolds
<1>7. \A n \in DOMAIN row' : RowHolds(n)'
  BY <1>6
<1> QED
  BY <1>2, <1>3, <1>5, <1>7 DEF IInv

LEMMA ReadingHolds ==
    ASSUME IInv,
           \/ \E n \in DOMAIN row : MarkAsRead(n)
           \/ \E user \in Recipient : MarkAllAsRead(user)
    PROVE  IInv'
<1>1. /\ UNCHANGED <<now, handler, queue, worker, sent, faults>>
      /\ DOMAIN row' = DOMAIN row
      /\ \A n \in DOMAIN row : row'[n] \in {row[n], "READ"}
  <2>1. CASE \E n \in DOMAIN row : MarkAsRead(n)
    BY <2>1 DEF MarkAsRead
  <2>2. CASE \E user \in Recipient : MarkAllAsRead(user)
    BY <2>2 DEF MarkAllAsRead
  <2> QED
    BY <2>1, <2>2
<1>2. /\ now \in 0 .. Horizon /\ faults \in 0 .. MaxFaults
      /\ now' = now /\ faults' = faults
  BY <1>1 DEF IInv, Tables
<1>3. now' \in 0 .. Horizon /\ now <= now' /\ faults' \in 0 .. MaxFaults
      /\ faults' \in Nat /\ faults <= faults'
  BY <1>2, NotificationAssumption
<1>4. Handlers'
  BY <1>1, <1>3, HandlersKept
<1> QED
  BY <1>1, <1>3, <1>4, Elsewhere

LEMMA TickHolds ==
    ASSUME IInv, Tick
    PROVE  IInv'
<1>1. now < Horizon /\ now' = now + 1 /\ UNCHANGED <<handler, row, queue, worker, sent, faults>>
  BY DEF Tick
<1>2. now \in 0 .. Horizon /\ faults \in 0 .. MaxFaults /\ faults' = faults
  BY <1>1 DEF IInv, Tables
<1>3. now' \in 0 .. Horizon /\ now <= now' /\ faults' \in 0 .. MaxFaults
      /\ faults' \in Nat /\ faults <= faults'
  BY <1>1, <1>2, NotificationAssumption
<1>4. Handlers'
  BY <1>1, <1>3, HandlersKept
<1> QED
  BY <1>1, <1>3, <1>4, Elsewhere

\* A handler whose calls change in the memory of its process alone.
LEMMA HandlerHolds ==
    ASSUME IInv, UNCHANGED <<now, row, queue, worker, sent>>, Handlers',
           faults' = faults \/ Fault
    PROVE  IInv'
<1>1. now \in 0 .. Horizon /\ now <= now
  BY NotificationAssumption DEF IInv, Tables
<1>2. faults' \in 0 .. MaxFaults /\ faults <= faults'
  BY NotificationAssumption DEF IInv, Tables, Fault
<1> QED
  BY <1>1, <1>2, Elsewhere

LEMMA PublishHolds ==
    ASSUME IInv, NEW e \in Events, NEW kind \in Kinds, Publish(e, kind)
    PROVE  IInv'
<1>1. e \notin DOMAIN handler /\ UNCHANGED <<now, row, queue, worker, sent, faults>>
  BY DEF Publish
<1>2. PICK calls : calls = CallsOf("EVENT", FanoutOf(kind))
  OBVIOUS
<1>3. PICK new : new = [calls |-> calls, todo |-> {}, confirmed |-> kind = "BookingConfirmed"]
  OBVIOUS
<1>4. handler' = With(handler, e, new)
  BY <1>2, <1>3 DEF Publish
<1>5. calls \subseteq Call /\ \A c \in calls : c.step = "create"
  <2>1. \A f \in FanoutOf(kind) : f[1] \in Recipient /\ f[2] \in Seq(Channel) \ {<<>>}
    BY FanoutTypes DEF FanoutOf
  <2>2. "EVENT" \in Type
    BY DEF Type
  <2> QED
    BY <1>2, <2>1, <2>2, CallTypes
<1>6. new \in Handler /\ new.calls = calls
  BY <1>3, <1>5 DEF Handler
<1>7. /\ DOMAIN handler' = DOMAIN handler \cup {e}
      /\ \A d \in DOMAIN handler : handler'[d] = handler[d]
      /\ handler'[e] = new
  BY <1>1, <1>4, Extended DEF Longer
<1>8. AllQueued'
  <2>1. \A n \in DOMAIN row : handler'[n.event] = handler[n.event]
    BY <1>7 DEF IInv, Handlers
  <2>2. AllQueued
    BY DEF IInv, Handlers
  <2> QED
    BY <1>1, <2>1, <2>2 DEF AllQueued, NoticeOf
<1>9. Handlers'
  BY <1>1, <1>5, <1>6, <1>7, <1>8 DEF IInv, Handlers, NoticeOf
<1> QED
  BY <1>1, <1>9, HandlerHolds

\* A handler without calls takes up new ones.
LEMMA NewCalls ==
    ASSUME IInv, NEW e \in DOMAIN handler, handler[e].calls = {},
           UNCHANGED <<row, queue, faults>>,
           NEW next \in Handler, handler' = [handler EXCEPT ![e] = next],
           \A c \in next.calls : c.step = "create"
    PROVE  Handlers'
<1>1. /\ DOMAIN handler' = DOMAIN handler /\ handler'[e] = next
      /\ \A d \in DOMAIN handler \ {e} : handler'[d] = handler[d]
  OBVIOUS
<1>2. AllQueued'
  BY <1>1 DEF IInv, Handlers, AllQueued, NoticeOf
<1> QED
  BY <1>1, <1>2 DEF IInv, Handlers, NoticeOf

LEMMA PlanHolds ==
    ASSUME IInv, NEW e \in DOMAIN handler, PlanReminders(e)
    PROVE  IInv'
<1>1. handler[e].calls = {} /\ UNCHANGED <<now, row, queue, worker, sent, faults>>
  BY DEF PlanReminders
<1>2. PICK todo : todo = {label \in Labels : ScheduledFor(label) > now}
  OBVIOUS
<1>3. PICK next : next = [calls |-> {}, confirmed |-> FALSE, todo |-> todo]
  OBVIOUS
<1>4. todo \subseteq Type
  BY <1>2, NotificationAssumption DEF Type
<1>5. next \in Handler /\ next.calls = {}
  BY <1>3, <1>4 DEF Handler
<1>6. handler' = [handler EXCEPT ![e] = next]
  BY <1>2, <1>3 DEF PlanReminders
<1> QED
  BY <1>1, <1>5, <1>6, NewCalls, HandlerHolds

LEMMA RemindHolds ==
    ASSUME IInv, NEW e \in DOMAIN handler, Remind(e)
    PROVE  IInv'
<1>1. handler[e].calls = {} /\ UNCHANGED <<now, row, queue, worker, sent, faults>>
  BY DEF Remind
<1>2. handler[e].todo \subseteq Type
  BY DEF IInv, Handlers, Handler
<1>3. PICK label \in handler[e].todo :
        handler' = [handler EXCEPT ![e] =
            [calls |-> CallsOf(label, {"client", "professional"} \X {CH_APP_PUSH}),
             confirmed |-> FALSE, todo |-> handler[e].todo \ {label}]]
  BY DEF Remind
<1>4. PICK calls : calls = CallsOf(label, {"client", "professional"} \X {CH_APP_PUSH})
  OBVIOUS
<1>5. PICK next :
        next = [calls |-> calls, confirmed |-> FALSE, todo |-> handler[e].todo \ {label}]
  OBVIOUS
<1>6. calls \subseteq Call /\ \A c \in calls : c.step = "create"
  <2>1. \A f \in {"client", "professional"} \X {CH_APP_PUSH} :
            f[1] \in Recipient /\ f[2] \in Seq(Channel) \ {<<>>}
    BY Channels DEF Recipient
  <2> QED
    BY <1>2, <1>4, <2>1, CallTypes
<1>7. next \in Handler /\ next.calls = calls
  BY <1>2, <1>5, <1>6 DEF Handler
<1>8. handler' = [handler EXCEPT ![e] = next]
  BY <1>3, <1>4, <1>5
<1> QED
  BY <1>1, <1>6, <1>7, <1>8, NewCalls, HandlerHolds

\* After a failure a handler owes nothing.
LEMMA GivingUpHolds ==
    ASSUME IInv, NEW e \in DOMAIN handler,
           CrashHandler(e) \/ \E c \in handler[e].calls : FailCall(e, c)
    PROVE  IInv'
<1>1. Fault /\ UNCHANGED <<now, row, queue, worker, sent>>
  BY DEF CrashHandler, FailCall
<1>2. PICK calls \in SUBSET handler[e].calls :
        handler' = [handler EXCEPT ![e] =
            [calls |-> calls, todo |-> {}, confirmed |-> FALSE]]
  BY DEF CrashHandler, FailCall
<1>3. PICK next : next = [calls |-> calls, todo |-> {}, confirmed |-> FALSE]
  OBVIOUS
<1>4. handler[e] \in Handler
  BY DEF IInv, Handlers
<1>5. next \in Handler /\ next.calls \subseteq handler[e].calls
  BY <1>2, <1>3, <1>4 DEF Handler
<1>6. /\ DOMAIN handler' = DOMAIN handler /\ handler'[e] = next
      /\ \A d \in DOMAIN handler \ {e} : handler'[d] = handler[d]
  BY <1>2, <1>3
<1>7. AllQueued'
  <2>1. faults' # 0
    BY <1>1, NotificationAssumption DEF IInv, Tables, Fault
  <2> QED
    BY <2>1 DEF AllQueued
<1>8. Handlers'
  BY <1>1, <1>5, <1>6, <1>7 DEF IInv, Handlers, NoticeOf
<1> QED
  BY <1>1, <1>8, HandlerHolds

LEMMA Replacing ==
    ASSUME IInv, NEW e \in DOMAIN handler, NEW c, NEW next, next \subseteq Call,
           ReplaceCall(e, c, next)
    PROVE  /\ DOMAIN handler' = DOMAIN handler
           /\ handler'[e] \in Handler
           /\ handler'[e].calls = (handler[e].calls \ {c}) \cup next
           /\ \A d \in DOMAIN handler \ {e} : handler'[d] = handler[d]
<1>1. handler[e] \in Handler
  BY DEF IInv, Handlers
<1>2. PICK calls : calls = (handler[e].calls \ {c}) \cup next
  OBVIOUS
<1>3. handler' = [handler EXCEPT ![e] = [handler[e] EXCEPT !.calls = calls]]
  BY <1>2 DEF ReplaceCall
<1>4. calls \subseteq Call
  BY <1>1, <1>2 DEF Handler
<1>5. PICK new : new = [handler[e] EXCEPT !.calls = calls]
  OBVIOUS
<1>6. new \in Handler /\ new.calls = calls
  BY <1>1, <1>4, <1>5 DEF Handler
<1> QED
  BY <1>2, <1>3, <1>5, <1>6

\* A notification without an entry is nobody's yet.
LEMMA Untouched ==
    ASSUME IInv, NEW n, n \notin DOMAIN queue, UNCHANGED worker
    PROVE  Trying(n) = {} /\ Cardinality(Trying(n)') = 0
<1>1. Trying(n) = {}
  BY DEF IInv, WorkerHolds, Trying, AtWork
<1>2. Trying(n)' = Trying(n)
  BY DEF Trying, AtWork
<1> QED
  BY <1>1, <1>2, FS_EmptySet

\* What does not change at a notification whose entry, row and workers are left.
LEMMA LeftAlone ==
    ASSUME IInv, NEW n \in DOMAIN row, UNCHANGED <<now, worker, faults>>,
           row'[n] = row[n], sent'[n] = sent[n],
           n \in DOMAIN queue' <=> n \in DOMAIN queue,
           n \in DOMAIN queue => queue'[n] = queue[n]
    PROVE  RowHolds(n)'
<1>1. RowHolds(n)
  BY DEF IInv
<1>2. Trying(n)' = Trying(n) /\ ToCome(n)' = ToCome(n)
  BY DEF Trying, ToCome, AtWork
<1>3. Left(n)' = Left(n)
  BY <1>2 DEF Left
<1> QED
  BY <1>1, <1>3 DEF RowHolds

LEMMA CreateRowHolds ==
    ASSUME IInv, NEW e \in DOMAIN handler, NEW c \in handler[e].calls, CreateRow(e, c)
    PROVE  IInv'
<1>1. c.step = "create" /\ UNCHANGED <<now, queue, worker, faults>>
  BY DEF CreateRow
<1>2. c \in Call /\ e \in Events
  BY DEF IInv, Handlers, Handler
<1>3. PICK n : n = NoticeOf(e, c)
  OBVIOUS
<1>4. n \in Notice /\ n.event = e
  BY <1>2, <1>3, NoticeTypes
<1>5. PICK status : status = IF n.channel = "IN_APP" THEN "SENT" ELSE "PENDING"
  OBVIOUS
<1>6. row' = With(row, n, status) /\ sent' = With(sent, n, 0)
  BY <1>3, <1>5 DEF CreateRow
<1>7. PICK next : next = IF n.channel = "IN_APP" THEN NextChannel(c) ELSE {Awaiting(c)}
  OBVIOUS
<1>8. ReplaceCall(e, c, next)
  BY <1>3, <1>7 DEF CreateRow, Awaiting
<1>9. /\ next \subseteq Call
      /\ \A d \in next : d.step = "enqueue" => NoticeOf(e, d) = n
      /\ n.channel # "IN_APP" =>
            \E d \in next : d.step = "enqueue" /\ NoticeOf(e, d) = n
  BY <1>2, <1>3, <1>7, NextTypes, AwaitingTypes
<1>10. /\ DOMAIN handler' = DOMAIN handler
       /\ handler'[e] \in Handler
       /\ handler'[e].calls = (handler[e].calls \ {c}) \cup next
       /\ \A d \in DOMAIN handler \ {e} : handler'[d] = handler[d]
  BY <1>8, <1>9, Replacing
<1>11. /\ DOMAIN row' = DOMAIN row \cup {n}
       /\ \A x \in DOMAIN row : row'[x] = row[x]
       /\ n \notin DOMAIN row => row'[n] = status
  BY <1>6, Extended DEF Longer
<1>12. /\ DOMAIN sent' = DOMAIN sent \cup {n}
       /\ \A x \in DOMAIN sent : sent'[x] = sent[x]
       /\ n \notin DOMAIN sent => sent'[n] = 0
  BY <1>6, Extended DEF Longer
<1>13. DOMAIN sent = DOMAIN row /\ DOMAIN queue \subseteq DOMAIN row /\ DOMAIN row \subseteq Notice
  BY DEF IInv, Tables
<1>14. AllQueued'
  <2> SUFFICES ASSUME faults' = 0, NEW x \in DOMAIN row', x.channel # "IN_APP",
                      x \notin DOMAIN queue'
               PROVE  \E d \in handler'[x.event].calls :
                            d.step = "enqueue" /\ NoticeOf(x.event, d) = x
    BY DEF AllQueued, NoticeOf
  <2>1. CASE x \in DOMAIN row
    <3>1. PICK d \in handler[x.event].calls :
                d.step = "enqueue" /\ NoticeOf(x.event, d) = x
      BY <1>1, <2>1 DEF IInv, Handlers, AllQueued
    <3>2. x.event \in DOMAIN handler
      BY <2>1 DEF IInv, Handlers
    <3>3. d \in handler'[x.event].calls
      BY <1>1, <1>10, <3>1, <3>2
    <3> QED
      BY <3>1, <3>3
  <2>2. CASE x \notin DOMAIN row
    BY <1>4, <1>9, <1>10, <1>11, <2>2
  <2> QED
    BY <2>1, <2>2
<1>15. \A d \in DOMAIN handler' : \A b \in handler'[d].calls :
            b.step = "enqueue" => NoticeOf(d, b) \in DOMAIN row'
  BY <1>9, <1>10, <1>11 DEF IInv, Handlers
<1>16. Handlers'
  BY <1>4, <1>10, <1>11, <1>14, <1>15 DEF IInv, Handlers, NoticeOf
<1>17. Tables'
  BY <1>1, <1>4, <1>11, <1>12, <1>13 DEF IInv, Tables
<1>18. \A x \in DOMAIN queue' : EntryHolds(x)'
  BY <1>1 DEF IInv, EntryHolds
<1>19. \A w \in Workers : WorkerHolds(w)'
  BY <1>1, <1>12, <1>13 DEF IInv, WorkerHolds
<1>20. ASSUME NEW x \in DOMAIN row
       PROVE  RowHolds(x)'
  BY <1>1, <1>11, <1>12, <1>13, LeftAlone
<1>21. ASSUME n \notin DOMAIN row
       PROVE  RowHolds(n)'
  <2>1. n \notin DOMAIN queue /\ n \notin DOMAIN queue' /\ sent'[n] = 0
    BY <1>1, <1>12, <1>13, <1>21
  <2>2. row'[n] = status /\ status \in Status /\ (status = "SENT" => n.channel = "IN_APP")
    BY <1>5, <1>11, <1>21 DEF Status
  <2>3. Cardinality(Trying(n)') = 0
    BY <1>1, <2>1, Untouched
  <2>4. ToCome(n)' = 0
    BY <2>1 DEF ToCome
  <2>5. faults \in Nat /\ faults' = faults
    BY <1>1, NotificationAssumption DEF IInv, Tables
  <2>6. sent'[n] + Cardinality(Trying(n)') + ToCome(n)' = 0
    BY <2>1, <2>3, <2>4
  <2>7. 0 <= 1 + faults'
    BY <2>5
  <2> QED
    BY <2>1, <2>2, <2>6, <2>7 DEF RowHolds, Left, Answered
<1>22. \A x \in DOMAIN row' : RowHolds(x)'
  BY <1>11, <1>20, <1>21
<1> QED
  BY <1>16, <1>17, <1>18, <1>19, <1>22 DEF IInv

LEMMA NewEntry ==
    ASSUME NEW due \in Nat
    PROVE  /\ NewJob(due) \in Job
           /\ NewJob(due).state = "waiting" /\ NewJob(due).owner = "none"
           /\ NewJob(due).attempts = 0 /\ NewJob(due).due = due
BY DEF NewJob, Job

LEMMA EnqueueHolds ==
    ASSUME IInv, NEW e \in DOMAIN handler, NEW c \in handler[e].calls, Enqueue(e, c)
    PROVE  IInv'
<1>1. c.step = "enqueue" /\ UNCHANGED <<now, row, worker, sent, faults>>
  BY DEF Enqueue
<1>2. c \in Call /\ e \in Events
  BY DEF IInv, Handlers, Handler
<1>3. PICK n : n = NoticeOf(e, c)
  OBVIOUS
<1>4. n \in Notice /\ n.event = e /\ n.type = c.type /\ n \in DOMAIN row
  BY <1>1, <1>2, <1>3, NoticeTypes DEF IInv, Handlers
<1>5. PICK due : due = Max({now, ScheduledFor(c.type)})
  OBVIOUS
<1>6. due \in Nat /\ due >= ScheduledFor(n.type)
  <2>1. now \in Nat /\ ScheduledFor(c.type) \in Nat
    BY <1>2, Dates, NotificationAssumption DEF IInv, Tables, Call
  <2> QED
    BY <1>4, <1>5, <2>1, MaxOfTwo
<1>7. PICK job : job = NewJob(due)
  OBVIOUS
<1>8. job \in Job /\ job.state = "waiting" /\ job.owner = "none"
      /\ job.attempts = 0 /\ job.due = due
  BY <1>6, <1>7, NewEntry
<1>9. queue' = With(queue, n, job)
  BY <1>3, <1>5, <1>7 DEF Enqueue
<1>10. /\ DOMAIN queue' = DOMAIN queue \cup {n}
       /\ \A x \in DOMAIN queue : queue'[x] = queue[x]
       /\ n \notin DOMAIN queue => queue'[n] = job
  BY <1>9, Extended DEF Longer
<1>11. PICK next : next = NextChannel(c)
  OBVIOUS
<1>12. next \subseteq Call /\ \A d \in next : d.step = "create"
  BY <1>2, <1>11, NextTypes
<1>13. ReplaceCall(e, c, next)
  BY <1>11 DEF Enqueue
<1>14. /\ DOMAIN handler' = DOMAIN handler
       /\ handler'[e] \in Handler
       /\ handler'[e].calls = (handler[e].calls \ {c}) \cup next
       /\ \A d \in DOMAIN handler \ {e} : handler'[d] = handler[d]
  BY <1>12, <1>13, Replacing
<1>15. AllQueued'
  <2> SUFFICES ASSUME faults' = 0, NEW x \in DOMAIN row', x.channel # "IN_APP",
                      x \notin DOMAIN queue'
               PROVE  \E d \in handler'[x.event].calls :
                            d.step = "enqueue" /\ NoticeOf(x.event, d) = x
    BY DEF AllQueued, NoticeOf
  <2>1. x \in DOMAIN row /\ x \notin DOMAIN queue /\ x # n
    BY <1>1, <1>10
  <2>2. PICK d \in handler[x.event].calls :
                d.step = "enqueue" /\ NoticeOf(x.event, d) = x
    BY <1>1, <2>1 DEF IInv, Handlers, AllQueued
  <2>3. x.event \in DOMAIN handler
    BY <2>1 DEF IInv, Handlers
  <2>4. d \in handler'[x.event].calls
    BY <1>3, <1>14, <2>1, <2>2, <2>3
  <2> QED
    BY <2>2, <2>4
<1>16. \A d \in DOMAIN handler' : \A b \in handler'[d].calls :
            b.step = "enqueue" => NoticeOf(d, b) \in DOMAIN row'
  BY <1>1, <1>12, <1>14 DEF IInv, Handlers
<1>17. Handlers'
  BY <1>1, <1>14, <1>15, <1>16 DEF IInv, Handlers, NoticeOf
<1>18. Tables'
  BY <1>1, <1>4, <1>10 DEF IInv, Tables
<1>19. \A x \in DOMAIN queue' : EntryHolds(x)'
  <2>1. \A x \in DOMAIN queue : EntryHolds(x)'
    BY <1>10 DEF IInv, EntryHolds
  <2>2. n \notin DOMAIN queue => EntryHolds(n)'
    BY <1>6, <1>8, <1>10 DEF EntryHolds, Attempts
  <2> QED
    BY <1>10, <2>1, <2>2
<1>20. \A w \in Workers : WorkerHolds(w)'
  BY <1>1, <1>10 DEF IInv, WorkerHolds
<1>21. ASSUME NEW x \in DOMAIN row, x # n \/ n \in DOMAIN queue
       PROVE  RowHolds(x)'
  BY <1>1, <1>10, <1>21, LeftAlone
<1>22. ASSUME n \notin DOMAIN queue
       PROVE  RowHolds(n)'
  <2>1. RowHolds(n)
    BY <1>4 DEF IInv
  <2>2. sent[n] = 0
    BY <1>22, <2>1 DEF RowHolds
  <2>3. Cardinality(Trying(n)') = 0
    BY <1>1, <1>22, Untouched
  <2>4. ToCome(n)' \in 0 .. 1
    BY DEF ToCome
  <2>5. faults' \in Nat
    BY <1>18, NotificationAssumption DEF Tables
  <2>6. Left(n)' <= 1 + faults'
    BY <1>1, <2>2, <2>3, <2>4, <2>5 DEF Left
  <2> QED
    BY <1>1, <1>10, <2>1, <2>6 DEF RowHolds
<1>23. \A x \in DOMAIN row' : RowHolds(x)'
  BY <1>1, <1>21, <1>22
<1> QED
  BY <1>17, <1>18, <1>19, <1>20, <1>23 DEF IInv

-----------------------------------------------------------------------------
(***************************************************************************)
(* The invariant, and what follows from it.                                *)
(***************************************************************************)

LEMMA InitIInv == Init => IInv
<1> SUFFICES ASSUME Init
             PROVE  IInv
  OBVIOUS
<1>1. /\ now = 0 /\ handler = Nothing /\ row = Nothing /\ queue = Nothing
      /\ worker = [w \in Workers |-> Off] /\ sent = Nothing /\ faults = 0
  BY DEF Init
<1>2. DOMAIN Nothing = {}
  BY DEF Nothing
<1>3. Handlers
  BY <1>1, <1>2 DEF Handlers, AllQueued
<1>4. Tables
  BY <1>1, <1>2, NotificationAssumption DEF Tables
<1>5. \A w \in Workers : WorkerHolds(w)
  BY <1>1 DEF WorkerHolds
<1> QED
  BY <1>1, <1>2, <1>3, <1>4, <1>5 DEF IInv

LEMMA StutterIInv == IInv /\ UNCHANGED vars => IInv'
<1> SUFFICES ASSUME IInv, UNCHANGED vars
             PROVE  IInv'
  OBVIOUS
<1>1. UNCHANGED <<now, handler, row, queue, worker, sent, faults>>
  BY DEF vars
<1>2. now \in 0 .. Horizon /\ now <= now /\ faults \in 0 .. MaxFaults
      /\ faults' \in Nat /\ faults <= faults'
  BY <1>1, NotificationAssumption DEF IInv, Tables
<1>3. Handlers'
  BY <1>1, <1>2, HandlersKept
<1> QED
  BY <1>1, <1>2, <1>3, Elsewhere

LEMMA NextIInv == IInv /\ [Next]_vars => IInv'
<1> SUFFICES ASSUME IInv, [Next]_vars
             PROVE  IInv'
  OBVIOUS
<1>1. ASSUME NEW e \in Events, NEW kind \in Kinds, Publish(e, kind)
      PROVE  IInv'
  BY <1>1, PublishHolds
<1>2. ASSUME NEW e \in DOMAIN handler, HandlerStep(e)
      PROVE  IInv'
  BY <1>2, PlanHolds, RemindHolds, CreateRowHolds, EnqueueHolds, GivingUpHolds
     DEF HandlerStep
<1>3. ASSUME NEW w \in Workers, TakeNext(w) \/ WorkerStep(w)
      PROVE  IInv'
  BY <1>3, TakeHolds, ReadRowHolds, SendHolds, MarkHolds DEF TakeNext, WorkerStep
<1>4. ASSUME NEW w \in Workers, FailStatement(w) \/ Die(w)
      PROVE  IInv'
  BY <1>4, FailStatementHolds, DieHolds
<1>5. ASSUME Recover \/ \E n \in DOMAIN queue : LoseLock(n)
      PROVE  IInv'
  BY <1>5, StalledHolds DEF Recover
<1>6. ASSUME \/ \E n \in DOMAIN row : MarkAsRead(n)
             \/ \E user \in Recipient : MarkAllAsRead(user)
             \/ Tick
      PROVE  IInv'
  BY <1>6, ReadingHolds, TickHolds
<1>7. CASE UNCHANGED vars
  BY <1>7, StutterIInv
<1> QED
  BY <1>1, <1>2, <1>3, <1>4, <1>5, <1>6, <1>7 DEF Next

THEOREM AlwaysIInv == Spec => []IInv
BY InitIInv, NextIInv, PTL DEF Spec

-----------------------------------------------------------------------------

LEMMA IInvTypes == IInv => TypeOK
<1> SUFFICES ASSUME IInv
             PROVE  TypeOK
  OBVIOUS
<1>1. \A n \in DOMAIN queue : queue[n] \in Job
  BY DEF IInv, EntryHolds
<1>2. \A n \in DOMAIN row : row[n] \in Status /\ sent[n] \in Nat
  BY DEF IInv, RowHolds
<1>3. DOMAIN handler \subseteq Events /\ \A e \in DOMAIN handler : handler[e] \in Handler
  BY DEF IInv, Handlers
<1> QED
  BY <1>1, <1>2, <1>3 DEF IInv, Tables, TypeOK

\* What is left to deliver is never negative, so what was delivered is paid for.
LEMMA IInvPaid == IInv => ResentOnlyAfterFault
<1> SUFFICES ASSUME IInv, NEW n \in DOMAIN sent
             PROVE  sent[n] <= 1 + faults
  BY DEF ResentOnlyAfterFault
<1>1. RowHolds(n)
  BY DEF IInv, Tables
<1>2. /\ sent[n] \in Nat /\ Cardinality(Trying(n)) \in Nat /\ ToCome(n) \in 0 .. 1
      /\ faults \in Nat
  BY <1>1, TryingFinite, ToComeType, NotificationAssumption DEF RowHolds, IInv, Tables
<1>3. sent[n] + Cardinality(Trying(n)) + ToCome(n) <= 1 + faults
  BY <1>1 DEF RowHolds, Left
<1> QED
  BY <1>2, <1>3

LEMMA IInvRows == IInv => SentWasDelivered /\ NotBeforeItsDate
BY DEF IInv, Tables, RowHolds, Answered, SentWasDelivered, NotBeforeItsDate

\* Rows, entries, calls and workers are what they are declared to be: a call
\* goes on to the channel after, and an entry has as many attempts as BullMQ allows.
THEOREM TypeCorrect == Spec => []TypeOK
BY AlwaysIInv, IInvTypes, PTL

\* What is marked SENT on a live WhatsApp or SMS was delivered, and of a channel in
\* dry run nothing is, however many workers were at it and whatever stalled, was
\* retried or died.
THEOREM AlwaysDelivered == Spec => []SentWasDelivered
BY AlwaysIInv, IInvRows, PTL

\* A notification is delivered once, and once more for each failure at most.
THEOREM AlwaysPaidFor == Spec => []ResentOnlyAfterFault
BY AlwaysIInv, IInvPaid, PTL

\* No reminder is sent before its date.
THEOREM AlwaysInTime == Spec => []NotBeforeItsDate
BY AlwaysIInv, IInvRows, PTL

-----------------------------------------------------------------------------
(***************************************************************************)
(* What a handler that dies loses.  Two calls of a handler are not for the *)
(* same message and recipient, and no row is there for a message before    *)
(* its calls.                                                              *)
(***************************************************************************)

SameCall(c, d) == c.type = d.type /\ c.to = d.to
OneOfEach(calls) == \A c, d \in calls : SameCall(c, d) => c = d
LostOf(e, c) == \E n \in Lost : n.event = e /\ SameCall(n, c)

Planned(h, type) == type \in h.todo \/ (h.confirmed /\ type # "EVENT")

Apart ==
    /\ \A e \in DOMAIN handler :
        /\ OneOfEach(handler[e].calls)
        /\ handler[e].todo \subseteq Labels
        /\ \A c \in handler[e].calls : ~LostOf(e, c) /\ ~Planned(handler[e], c.type)
    /\ \A n \in DOMAIN row : ~Planned(handler[n.event], n.type)
    /\ \A m, n \in Lost : m.event = n.event /\ SameCall(m, n) => m = n

\* A recipient is named once for an event.
LEMMA OneFanout ==
    ASSUME NEW f \in Fanouts, NEW g \in Fanouts, f[1] = g[1], f[2] = g[2]
    PROVE  f = g
<1>1. CASE f \in BookingFanouts
  BY <1>1 DEF Fanouts, BookingFanouts, EndFanouts, AnswerFanouts, ProfessionalFanouts
<1>2. CASE f \in EndFanouts
  BY <1>2 DEF Fanouts, BookingFanouts, EndFanouts, AnswerFanouts, ProfessionalFanouts
<1>3. CASE f \in AnswerFanouts
  BY <1>3 DEF Fanouts, BookingFanouts, EndFanouts, AnswerFanouts, ProfessionalFanouts
<1>4. CASE f \in ProfessionalFanouts
  BY <1>4 DEF Fanouts, BookingFanouts, EndFanouts, AnswerFanouts, ProfessionalFanouts
<1> QED
  BY <1>1, <1>2, <1>3, <1>4 DEF Fanouts

LEMMA CallsOfEach ==
    ASSUME NEW type, NEW fanout, \A f, g \in fanout : f[1] = g[1] => f[2] = g[2]
    PROVE  /\ OneOfEach(CallsOf(type, fanout))
           /\ \A c \in CallsOf(type, fanout) : c.type = type /\ c.step = "create"
<1>1. ASSUME NEW c \in CallsOf(type, fanout)
      PROVE  \E f \in fanout :
               /\ c = [type |-> type, to |-> f[1], left |-> f[2], step |-> "create"]
               /\ c.type = type /\ c.to = f[1] /\ c.step = "create"
  BY DEF CallsOf
<1>2. ASSUME NEW c \in CallsOf(type, fanout), NEW d \in CallsOf(type, fanout), SameCall(c, d)
      PROVE  c = d
  <2>1. PICK f \in fanout :
          /\ c = [type |-> type, to |-> f[1], left |-> f[2], step |-> "create"]
          /\ c.to = f[1]
    BY <1>1
  <2>2. PICK g \in fanout :
          /\ d = [type |-> type, to |-> g[1], left |-> g[2], step |-> "create"]
          /\ d.to = g[1]
    BY <1>1
  <2>3. f[1] = g[1] /\ f[2] = g[2]
    BY <1>2, <2>1, <2>2 DEF SameCall
  <2> QED
    BY <2>1, <2>2, <2>3
<1> QED
  BY <1>1, <1>2 DEF OneOfEach

\* The tables keep their rows and entries, and the handlers stay.
LEMMA ApartStays ==
    ASSUME Apart, UNCHANGED handler, DOMAIN row' = DOMAIN row, DOMAIN queue' = DOMAIN queue
    PROVE  Apart'
<1>1. Lost' = Lost
  BY DEF Lost, Owed, NoticeOf
<1> QED
  BY <1>1 DEF Apart, LostOf, SameCall, OneOfEach, Planned

\* A handler that takes up calls it has not begun.
LEMMA ApartTakesUp ==
    ASSUME Apart, UNCHANGED <<row, queue>>, NEW e, NEW next,
           DOMAIN handler' = DOMAIN handler \cup {e}, handler'[e] = next,
           \A d \in DOMAIN handler \ {e} : handler'[d] = handler[d],
           \A n \in DOMAIN row : n.event \in DOMAIN handler,
           e \in DOMAIN handler => handler[e].calls = {},
           OneOfEach(next.calls), next.todo \subseteq Labels,
           \A c \in next.calls :
               /\ c.step = "create" /\ ~Planned(next, c.type)
               /\ \A n \in DOMAIN row : n.event = e => n.type # c.type,
           \A n \in DOMAIN row : n.event = e => ~Planned(next, n.type)
    PROVE  Apart'
<1>1. \A n \in DOMAIN row : Owed(n)' <=> Owed(n)
  <2> SUFFICES ASSUME NEW n \in DOMAIN row PROVE Owed(n)' <=> Owed(n)
    OBVIOUS
  <2>1. CASE n.event = e
    BY <2>1 DEF Owed, NoticeOf
  <2>2. CASE n.event # e
    BY <2>2 DEF Owed, NoticeOf
  <2> QED
    BY <2>1, <2>2
<1>2. Lost' = Lost
  BY <1>1 DEF Lost
<1>3. \A m, n \in Lost' : m.event = n.event /\ SameCall(m, n) => m = n
  BY <1>2 DEF Apart, SameCall
<1>4. \A n \in DOMAIN row' : ~Planned(handler'[n.event], n.type)
  BY DEF Apart
<1>5. ASSUME NEW d \in DOMAIN handler'
      PROVE  /\ OneOfEach(handler'[d].calls)
             /\ handler'[d].todo \subseteq Labels
             /\ \A c \in handler'[d].calls : ~LostOf(d, c)' /\ ~Planned(handler'[d], c.type)
  <2>1. CASE d = e
    BY <1>2, <2>1 DEF LostOf, SameCall, Lost
  <2>2. CASE d # e
    BY <1>2, <2>2 DEF LostOf, SameCall, Apart
  <2> QED
    BY <2>1, <2>2
<1> QED
  BY <1>3, <1>4, <1>5 DEF Apart, OneOfEach, SameCall, Planned, LostOf

LEMMA PublishApart ==
    ASSUME IInv, Apart, NEW e \in Events, NEW kind \in Kinds, Publish(e, kind)
    PROVE  Apart'
<1>1. e \notin DOMAIN handler /\ UNCHANGED <<row, queue>>
  BY DEF Publish
<1>2. PICK calls : calls = CallsOf("EVENT", FanoutOf(kind))
  OBVIOUS
<1>3. PICK next : next = [calls |-> calls, todo |-> {}, confirmed |-> kind = "BookingConfirmed"]
  OBVIOUS
<1>4. handler' = With(handler, e, next)
  BY <1>2, <1>3 DEF Publish
<1>5. /\ DOMAIN handler' = DOMAIN handler \cup {e}
      /\ \A d \in DOMAIN handler : handler'[d] = handler[d]
      /\ handler'[e] = next
  BY <1>1, <1>4, Extended DEF Longer
<1>6. \A f, g \in FanoutOf(kind) : f[1] = g[1] => f[2] = g[2]
  <2> SUFFICES ASSUME NEW f \in FanoutOf(kind), NEW g \in FanoutOf(kind), f[1] = g[1]
               PROVE  f[2] = g[2]
    OBVIOUS
  <2>1. PICK x \in Fanouts : x[1] = kind /\ f = <<x[2], x[3]>>
    BY DEF FanoutOf
  <2>2. PICK y \in Fanouts : y[1] = kind /\ g = <<y[2], y[3]>>
    BY DEF FanoutOf
  <2>3. x = y
    BY <2>1, <2>2, OneFanout
  <2> QED
    BY <2>1, <2>2, <2>3
<1>7. OneOfEach(calls) /\ \A c \in calls : c.type = "EVENT" /\ c.step = "create"
  BY <1>2, <1>6, CallsOfEach
<1>8. \A n \in DOMAIN row : n.event \in DOMAIN handler /\ n.event # e
  BY <1>1 DEF IInv, Handlers
<1>9. next.calls = calls /\ next.todo = {}
  BY <1>3
<1> QED
  BY <1>1, <1>5, <1>7, <1>8, <1>9, ApartTakesUp DEF Planned

LEMMA PlanApart ==
    ASSUME IInv, Apart, NEW e \in DOMAIN handler, PlanReminders(e)
    PROVE  Apart'
<1>1. handler[e].calls = {} /\ handler[e].confirmed /\ UNCHANGED <<row, queue>>
  BY DEF PlanReminders
<1>2. PICK todo \in SUBSET Labels :
        handler' = [handler EXCEPT ![e] = [calls |-> {}, confirmed |-> FALSE, todo |-> todo]]
  BY DEF PlanReminders
<1>3. PICK next : next = [calls |-> {}, confirmed |-> FALSE, todo |-> todo]
  OBVIOUS
<1>4. /\ DOMAIN handler' = DOMAIN handler \cup {e} /\ handler'[e] = next
      /\ \A d \in DOMAIN handler \ {e} : handler'[d] = handler[d]
  BY <1>2, <1>3
<1>5. \A n \in DOMAIN row : n.event = e => n.type \notin todo
  <2>1. \A n \in DOMAIN row : n.event = e => n.type = "EVENT"
    BY <1>1 DEF Apart, Planned
  <2> QED
    BY <1>2, <2>1, NotificationAssumption
<1>6. next.calls = {} /\ next.todo = todo /\ ~next.confirmed
  BY <1>3
<1>7. \A n \in DOMAIN row : n.event \in DOMAIN handler
  BY DEF IInv, Handlers
<1>8. OneOfEach(next.calls)
  BY <1>6 DEF OneOfEach
<1> QED
  BY <1>1, <1>4, <1>5, <1>6, <1>7, <1>8, ApartTakesUp DEF Planned

LEMMA RemindApart ==
    ASSUME IInv, Apart, NEW e \in DOMAIN handler, Remind(e)
    PROVE  Apart'
<1>1. handler[e].calls = {} /\ UNCHANGED <<row, queue>>
  BY DEF Remind
<1>2. PICK label \in handler[e].todo :
        handler' = [handler EXCEPT ![e] =
            [calls |-> CallsOf(label, {"client", "professional"} \X {CH_APP_PUSH}),
             confirmed |-> FALSE, todo |-> handler[e].todo \ {label}]]
  BY DEF Remind
<1>3. PICK calls : calls = CallsOf(label, {"client", "professional"} \X {CH_APP_PUSH})
  OBVIOUS
<1>4. PICK next :
        next = [calls |-> calls, confirmed |-> FALSE, todo |-> handler[e].todo \ {label}]
  OBVIOUS
<1>5. /\ DOMAIN handler' = DOMAIN handler \cup {e} /\ handler'[e] = next
      /\ \A d \in DOMAIN handler \ {e} : handler'[d] = handler[d]
  BY <1>2, <1>3, <1>4
<1>6. OneOfEach(calls) /\ \A c \in calls : c.type = label /\ c.step = "create"
  <2>1. \A f, g \in {"client", "professional"} \X {CH_APP_PUSH} : f[1] = g[1] => f[2] = g[2]
    OBVIOUS
  <2> QED
    BY <1>3, <2>1, CallsOfEach
<1>7. \A n \in DOMAIN row : n.event = e => n.type \notin handler[e].todo
  BY DEF Apart, Planned
<1>8. next.calls = calls /\ next.todo = handler[e].todo \ {label} /\ ~next.confirmed
  BY <1>4
<1>9. next.todo \subseteq Labels
  BY <1>8 DEF Apart
<1>10. \A n \in DOMAIN row : n.event \in DOMAIN handler
  BY DEF IInv, Handlers
<1> QED
  BY <1>1, <1>5, <1>6, <1>7, <1>8, <1>9, <1>10, ApartTakesUp DEF Planned

\* What is lost anew is what the calls that ended were at.
LEMMA GivingUpApart ==
    ASSUME IInv, Apart, NEW e \in DOMAIN handler,
           CrashHandler(e) \/ \E c \in handler[e].calls : FailCall(e, c)
    PROVE  Apart'
<1>1. UNCHANGED <<row, queue>>
  BY DEF CrashHandler, FailCall
<1>2. PICK calls \in SUBSET handler[e].calls :
        handler' = [handler EXCEPT ![e] =
            [calls |-> calls, todo |-> {}, confirmed |-> FALSE]]
  BY DEF CrashHandler, FailCall
<1>3. PICK next : next = [calls |-> calls, todo |-> {}, confirmed |-> FALSE]
  OBVIOUS
<1>4. /\ DOMAIN handler' = DOMAIN handler /\ handler'[e] = next
      /\ \A d \in DOMAIN handler \ {e} : handler'[d] = handler[d]
      /\ next.calls = calls /\ next.todo = {} /\ ~next.confirmed
  BY <1>2, <1>3
<1>5. ASSUME NEW n \in Lost'
      PROVE  \/ n \in Lost
             \/ /\ n.event = e
                /\ \E c \in handler[e].calls \ calls :
                        c.step = "enqueue" /\ NoticeOf(e, c) = n /\ SameCall(n, c)
  <2>1. n \in DOMAIN row /\ n.channel # "IN_APP" /\ n \notin DOMAIN queue /\ ~Owed(n)'
    BY <1>1 DEF Lost
  <2>2. CASE Owed(n)
    <3>1. PICK c \in handler[n.event].calls : c.step = "enqueue" /\ NoticeOf(n.event, c) = n
      BY <2>2 DEF Owed
    <3>2. c \notin handler'[n.event].calls
      BY <2>1, <3>1 DEF Owed, NoticeOf
    <3>3. n.event \in DOMAIN handler
      BY <2>1 DEF IInv, Handlers
    <3>4. n.event = e
      BY <1>4, <3>1, <3>2, <3>3
    <3>5. SameCall(n, c)
      BY <3>1 DEF NoticeOf, SameCall
    <3> QED
      BY <1>4, <3>1, <3>2, <3>4, <3>5
  <2>3. CASE ~Owed(n)
    BY <2>1, <2>3 DEF Lost
  <2> QED
    BY <2>2, <2>3
<1>6. OneOfEach(handler[e].calls) /\ \A c \in handler[e].calls : ~LostOf(e, c)
  BY DEF Apart
<1>7. ASSUME NEW m \in Lost', NEW n \in Lost', m.event = n.event, SameCall(m, n)
      PROVE  m = n
  <2>1. CASE m \in Lost /\ n \in Lost
    BY <1>7, <2>1 DEF Apart
  <2>2. ASSUME NEW x \in Lost', x \notin Lost, NEW y \in Lost', x.event = y.event, SameCall(x, y)
        PROVE  x = y
    <3>1. PICK c \in handler[e].calls : NoticeOf(e, c) = x /\ SameCall(x, c) /\ x.event = e
      BY <1>5, <2>2
    <3>2. y \notin Lost
      BY <1>6, <2>2, <3>1 DEF LostOf, SameCall
    <3>3. PICK d \in handler[e].calls : NoticeOf(e, d) = y /\ SameCall(y, d)
      BY <1>5, <2>2, <3>2
    <3>4. c = d
      BY <1>6, <2>2, <3>1, <3>3 DEF OneOfEach, SameCall
    <3> QED
      BY <3>1, <3>3, <3>4
  <2>3. SameCall(n, m)
    BY <1>7 DEF SameCall
  <2> QED
    BY <1>7, <2>1, <2>2, <2>3
<1>8. \A n \in DOMAIN row' : ~Planned(handler'[n.event], n.type)
  <2> SUFFICES ASSUME NEW n \in DOMAIN row PROVE ~Planned(handler'[n.event], n.type)
    BY <1>1
  <2>1. n.event \in DOMAIN handler
    BY DEF IInv, Handlers
  <2> QED
    BY <1>4, <2>1 DEF Apart, Planned
<1>9. ASSUME NEW d \in DOMAIN handler'
      PROVE  /\ OneOfEach(handler'[d].calls)
             /\ handler'[d].todo \subseteq Labels
             /\ \A c \in handler'[d].calls : ~LostOf(d, c)' /\ ~Planned(handler'[d], c.type)
  <2>1. CASE d = e
    <3>1. ASSUME NEW c \in calls, NEW n \in Lost', n.event = e, SameCall(n, c) PROVE FALSE
      <4>1. n \notin Lost
        BY <1>2, <1>6, <3>1 DEF LostOf
      <4>2. PICK b \in handler[e].calls \ calls : SameCall(n, b)
        BY <1>5, <4>1
      <4> QED
        BY <1>2, <1>6, <3>1, <4>2 DEF OneOfEach, SameCall
    <3>2. \A c \in calls : ~LostOf(e, c)'
      BY <3>1 DEF LostOf, SameCall
    <3> QED
      BY <1>2, <1>4, <1>6, <2>1, <3>2 DEF OneOfEach, Planned
  <2>2. CASE d # e
    <3>1. handler'[d] = handler[d] /\ d \in DOMAIN handler
      BY <1>4, <2>2
    <3>2. ASSUME NEW c \in handler[d].calls PROVE ~LostOf(d, c)'
      <4>1. ~LostOf(d, c)
        BY <3>1 DEF Apart
      <4>2. \A n \in Lost' : n.event = d => n \in Lost
        BY <1>5, <2>2
      <4> QED
        BY <4>1, <4>2 DEF LostOf, SameCall
    <3> QED
      BY <3>1, <3>2 DEF Apart
  <2> QED
    BY <2>1, <2>2
<1> QED
  BY <1>7, <1>8, <1>9 DEF Apart, OneOfEach, SameCall, Planned, LostOf

\* A call that goes on, whether it made a row or an entry.
LEMMA GoingOnApart ==
    ASSUME IInv, Apart, NEW e \in DOMAIN handler, NEW c \in handler[e].calls,
           NEW next, ReplaceCall(e, c, next), next \subseteq Call,
           \A d \in next : SameCall(d, c), \A a, b \in next : a = b,
           Lost' \subseteq Lost,
           \A n \in DOMAIN row' : n \in DOMAIN row \/ (n.event = e /\ n.type = c.type)
    PROVE  Apart'
<1>1. /\ DOMAIN handler' = DOMAIN handler
      /\ handler'[e].calls = (handler[e].calls \ {c}) \cup next
      /\ \A d \in DOMAIN handler \ {e} : handler'[d] = handler[d]
  BY Replacing
<1>2. handler'[e].todo = handler[e].todo /\ handler'[e].confirmed = handler[e].confirmed
  <2>1. handler[e] \in Handler
    BY DEF IInv, Handlers
  <2>2. PICK calls : calls = (handler[e].calls \ {c}) \cup next
    OBVIOUS
  <2>3. handler'[e] = [handler[e] EXCEPT !.calls = calls]
    BY <2>2 DEF ReplaceCall
  <2> QED
    BY <2>1, <2>3 DEF Handler
<1>3. \A d \in handler'[e].calls : \E b \in handler[e].calls :
        SameCall(d, b) /\ (d = b \/ (b = c /\ d \in next))
  BY <1>1 DEF SameCall
<1>4. OneOfEach(handler'[e].calls)
  <2> SUFFICES ASSUME NEW x \in handler'[e].calls, NEW y \in handler'[e].calls, SameCall(x, y)
               PROVE  x = y
    BY DEF OneOfEach
  <2>1. CASE x \in next /\ y \in next
    BY <2>1
  <2>2. CASE x \notin next /\ y \notin next
    BY <1>1, <2>2 DEF Apart, OneOfEach
  <2>3. CASE x \in next /\ y \notin next
    <3>1. y \in handler[e].calls /\ y # c /\ SameCall(y, c)
      BY <1>1, <2>3 DEF SameCall
    <3> QED
      BY <3>1 DEF Apart, OneOfEach
  <2>4. CASE x \notin next /\ y \in next
    <3>1. x \in handler[e].calls /\ x # c /\ SameCall(x, c)
      BY <1>1, <2>4 DEF SameCall
    <3> QED
      BY <3>1 DEF Apart, OneOfEach
  <2> QED
    BY <2>1, <2>2, <2>3, <2>4
<1>5. ASSUME NEW d \in DOMAIN handler', NEW x \in handler'[d].calls
      PROVE  \E b \in handler[d].calls : SameCall(x, b)
  BY <1>1, <1>3 DEF SameCall
<1>6. ASSUME NEW d \in DOMAIN handler', NEW x \in handler'[d].calls
      PROVE  ~LostOf(d, x)' /\ ~Planned(handler'[d], x.type)
  <2>1. PICK b \in handler[d].calls : SameCall(x, b)
    BY <1>5
  <2>2. ~LostOf(d, b) /\ ~Planned(handler[d], b.type)
    BY <1>1, <2>1 DEF Apart
  <2>3. Planned(handler'[d], x.type) => Planned(handler[d], b.type)
    BY <1>1, <1>2, <2>1 DEF Planned, SameCall
  <2>4. LostOf(d, x)' => LostOf(d, b)
    BY <2>1 DEF LostOf, SameCall
  <2> QED
    BY <2>2, <2>3, <2>4
<1>7. ASSUME NEW n \in DOMAIN row' PROVE ~Planned(handler'[n.event], n.type)
  <2>1. CASE n \in DOMAIN row
    <3>1. n.event \in DOMAIN handler /\ ~Planned(handler[n.event], n.type)
      BY <2>1 DEF IInv, Handlers, Apart
    <3> QED
      BY <1>1, <1>2, <3>1 DEF Planned
  <2>2. CASE n.event = e /\ n.type = c.type
    <3>1. ~Planned(handler[e], c.type)
      BY DEF Apart
    <3> QED
      BY <1>2, <2>2, <3>1 DEF Planned
  <2> QED
    BY <1>7, <2>1, <2>2
<1>8. \A d \in DOMAIN handler' :
        OneOfEach(handler'[d].calls) /\ handler'[d].todo \subseteq Labels
  BY <1>1, <1>2, <1>4 DEF Apart
<1>9. \A m, n \in Lost' : m.event = n.event /\ SameCall(m, n) => m = n
  BY DEF Apart
<1> QED
  BY <1>6, <1>7, <1>8, <1>9 DEF Apart, OneOfEach, SameCall, Planned, LostOf

\* The row that a call is at is its own: every other stays owed by whom it was.
LEMMA StillOwed ==
    ASSUME IInv, NEW e \in DOMAIN handler, NEW c \in handler[e].calls, NEW next,
           ReplaceCall(e, c, next), next \subseteq Call,
           NEW n \in DOMAIN row, Owed(n), c.step = "create" \/ NoticeOf(e, c) # n
    PROVE  Owed(n)'
<1>1. PICK d \in handler[n.event].calls : d.step = "enqueue" /\ NoticeOf(n.event, d) = n
  BY DEF Owed
<1>2. n.event \in DOMAIN handler
  BY DEF IInv, Handlers
<1>3. /\ handler'[e].calls = (handler[e].calls \ {c}) \cup next
      /\ \A b \in DOMAIN handler \ {e} : handler'[b] = handler[b]
  BY Replacing
<1>4. d \in handler'[n.event].calls
  BY <1>1, <1>2, <1>3
<1> QED
  BY <1>1, <1>4 DEF Owed, NoticeOf

LEMMA NextSame ==
    ASSUME NEW c \in Call
    PROVE  /\ \A d \in NextChannel(c) : SameCall(d, c)
           /\ \A a, b \in NextChannel(c) : a = b
           /\ SameCall(Awaiting(c), c)
BY DEF NextChannel, Call, SameCall, Awaiting

LEMMA CreateRowApart ==
    ASSUME IInv, Apart, NEW e \in DOMAIN handler, NEW c \in handler[e].calls, CreateRow(e, c)
    PROVE  Apart'
<1>1. c.step = "create" /\ UNCHANGED queue
  BY DEF CreateRow
<1>2. c \in Call /\ e \in Events
  BY DEF IInv, Handlers, Handler
<1>3. PICK n : n = NoticeOf(e, c)
  OBVIOUS
<1>4. n \in Notice /\ n.event = e /\ n.type = c.type
  BY <1>2, <1>3, NoticeTypes
<1>5. PICK status : status = IF n.channel = "IN_APP" THEN "SENT" ELSE "PENDING"
  OBVIOUS
<1>6. row' = With(row, n, status)
  BY <1>3, <1>5 DEF CreateRow
<1>7. DOMAIN row' = DOMAIN row \cup {n}
  BY <1>6, Extended DEF Longer
<1>8. PICK next : next = IF n.channel = "IN_APP" THEN NextChannel(c) ELSE {Awaiting(c)}
  OBVIOUS
<1>9. ReplaceCall(e, c, next)
  BY <1>3, <1>8 DEF CreateRow, Awaiting
<1>10. next \subseteq Call /\ (\A d \in next : SameCall(d, c)) /\ \A a, b \in next : a = b
  BY <1>2, <1>8, NextTypes, NextSame, AwaitingTypes
<1>11. Lost' \subseteq Lost
  <2> SUFFICES ASSUME NEW x \in Lost' PROVE x \in Lost
    OBVIOUS
  <2>1. x \in DOMAIN row' /\ x.channel # "IN_APP" /\ x \notin DOMAIN queue /\ ~Owed(x)'
    BY <1>1 DEF Lost
  <2>2. CASE x \in DOMAIN row
    <3>1. ~Owed(x)
      BY <1>1, <1>9, <1>10, <2>1, <2>2, StillOwed
    <3> QED
      BY <2>1, <2>2, <3>1 DEF Lost
  <2>3. CASE x = n
    <3>1. next = {Awaiting(c)}
      BY <1>8, <2>1, <2>3
    <3>2. Awaiting(c) \in handler'[e].calls
      BY <1>9, <1>10, <3>1, Replacing
    <3>3. Awaiting(c).step = "enqueue" /\ NoticeOf(e, Awaiting(c)) = n
      BY <1>2, <1>3, AwaitingTypes
    <3>4. Owed(x)'
      BY <1>4, <2>3, <3>2, <3>3 DEF Owed, NoticeOf
    <3> QED
      BY <2>1, <3>4
  <2> QED
    BY <1>7, <2>1, <2>2, <2>3
<1> QED
  BY <1>4, <1>7, <1>9, <1>10, <1>11, GoingOnApart

LEMMA EnqueueApart ==
    ASSUME IInv, Apart, NEW e \in DOMAIN handler, NEW c \in handler[e].calls, Enqueue(e, c)
    PROVE  Apart'
<1>1. UNCHANGED row
  BY DEF Enqueue
<1>2. c \in Call
  BY DEF IInv, Handlers, Handler
<1>3. PICK n : n = NoticeOf(e, c)
  OBVIOUS
<1>4. PICK job : queue' = With(queue, n, job)
  BY <1>3 DEF Enqueue
<1>5. DOMAIN queue' = DOMAIN queue \cup {n}
  BY <1>4, Extended DEF Longer
<1>6. PICK next : next = NextChannel(c)
  OBVIOUS
<1>7. ReplaceCall(e, c, next)
  BY <1>6 DEF Enqueue
<1>8. next \subseteq Call /\ (\A d \in next : SameCall(d, c)) /\ \A a, b \in next : a = b
  BY <1>2, <1>6, NextTypes, NextSame
<1>9. Lost' \subseteq Lost
  <2> SUFFICES ASSUME NEW x \in Lost' PROVE x \in Lost
    OBVIOUS
  <2>1. x \in DOMAIN row /\ x.channel # "IN_APP" /\ x \notin DOMAIN queue /\ x # n /\ ~Owed(x)'
    BY <1>1, <1>5 DEF Lost
  <2>2. ~Owed(x)
    BY <1>3, <1>7, <1>8, <2>1, StillOwed
  <2> QED
    BY <2>1, <2>2 DEF Lost
<1> QED
  BY <1>1, <1>7, <1>8, <1>9, GoingOnApart

LEMMA NextApart == IInv /\ Apart /\ [Next]_vars => Apart'
<1> SUFFICES ASSUME IInv, Apart, [Next]_vars
             PROVE  Apart'
  OBVIOUS
<1>1. ASSUME NEW e \in Events, NEW kind \in Kinds, Publish(e, kind)
      PROVE  Apart'
  BY <1>1, PublishApart
<1>2. ASSUME NEW e \in DOMAIN handler, HandlerStep(e)
      PROVE  Apart'
  BY <1>2, PlanApart, RemindApart, CreateRowApart, EnqueueApart, GivingUpApart
     DEF HandlerStep
<1>3. ASSUME NEW w \in Workers, TakeNext(w) \/ WorkerStep(w) \/ FailStatement(w) \/ Die(w)
      PROVE  Apart'
  BY <1>3, ApartStays
     DEF TakeNext, Take, WorkerStep, ReadRow, SendMessage, SendPush, Mark, Return, Leave,
         FailStatement, Throw, Die
<1>4. ASSUME Recover \/ \E n \in DOMAIN queue : LoseLock(n)
      PROVE  Apart'
  BY <1>4, ApartStays DEF Recover, RecoverStalled, LoseLock, Stalled
<1>5. ASSUME \/ \E n \in DOMAIN row : MarkAsRead(n)
             \/ \E user \in Recipient : MarkAllAsRead(user)
             \/ Tick
      PROVE  Apart'
  BY <1>5, ApartStays DEF MarkAsRead, MarkAllAsRead, Tick
<1>6. CASE UNCHANGED vars
  BY <1>6, ApartStays DEF vars
<1> QED
  BY <1>1, <1>2, <1>3, <1>4, <1>5, <1>6 DEF Next

\* Between the row of a notification and its entry, only a failure loses it, and it
\* loses no second notification of the same message to the same recipient.
THEOREM AlwaysQueued == Spec => []PendingIsQueued
<1>1. Init => Apart
  BY DEF Init, Nothing, Apart, Lost
<1>2. IInv /\ Apart => PendingIsQueued
  BY DEF IInv, Handlers, AllQueued, Apart, SameCall, PendingIsQueued, Lost, Owed
<1> QED
  BY <1>1, <1>2, NextApart, AlwaysIInv, PTL DEF Spec
=============================================================================
