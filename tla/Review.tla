------------------------------- MODULE Review -------------------------------
(***************************************************************************)
(* The reviews of one professional's completed bookings.  Each session     *)
(* holds a review of either side, kept hidden until both are in or the     *)
(* window of 48 hours has passed; the client's stars make the              *)
(* professional's rating.                                                  *)
(*                                                                         *)
(* Submissions, edits and saves of the profile are requests; the reveal of *)
(* expired sessions is a cron job that every API process runs.  A reveal   *)
(* is a READ COMMITTED transaction: its updates lock the rows they touch   *)
(* and show when it commits, its aggregate sees what others committed.     *)
(***************************************************************************)
EXTENDS Naturals, FiniteSets

CONSTANTS
    Sessions,       \* the review sessions, one per completed booking
    Slots,          \* requests the API can have in flight together
    Crons,          \* processes that run the scheduler
    Stars,          \* the ratings a client may give
    MaxInFlight,    \* bound on the requests and jobs at work together
    MaxDeaths       \* bound on the requests and jobs that die half-way

\* The ratings that the routes accept.
Rating == 1..5

ASSUME ReviewAssumption ==
    /\ IsFiniteSet(Sessions)
    /\ Stars \subseteq Rating
    /\ Slots \cap Crons = {}
    /\ MaxInFlight \in Nat
    /\ MaxDeaths \in Nat

Processes == Slots \cup Crons
Side == {"CLIENT", "PROFESSIONAL"}
Other(side) == IF side = "CLIENT" THEN "PROFESSIONAL" ELSE "CLIENT"

VARIABLES
    expired,        \* the sessions whose expiresAt has passed
    revealed,       \* the sessions with a revealedAt
    written,        \* the reviews that exist, as <<session, side>>
    edited,         \* the reviews with isEdited
    visible,        \* the reviews with isVisible
    stars,          \* the client's rating in each session, 0 for none
    score,          \* Professional.rating and reviewCount, as a sum and a count
    proc,           \* what each process is doing
    tx,             \* the open transaction of each process
    announced,      \* how often ReviewSessionRevealedEvent was published
    deaths,         \* how many requests and jobs died so far
    overlapped      \* history: whether one began while another was at work

tables == <<revealed, written, edited, visible, stars, score>>
vars == <<expired, tables, proc, tx, announced, deaths, overlapped>>

-----------------------------------------------------------------------------

Score == [sum : Nat, count : Nat]
NoScore == [sum |-> 0, count |-> 0]

Idle == [op |-> "Idle"]
NoTx == [step |-> "none"]

Submission == [op : {"Submit"}, session : Sessions, side : Side, both : BOOLEAN,
               step : {"insert", "reveal", "announce"}]
Edition == [op : {"Edit"}, session : Sessions, side : Side]
ProfileSave == [op : {"Save"}, seen : Score]
Job == [op : {"Cron"}, todo : SUBSET Sessions, empty : SUBSET Sessions,
        done : SUBSET Sessions]

Transaction == [step : {"marked"}, session : Sessions, rows : SUBSET (Sessions \X Side)]
                \cup [step : {"tallied"}, session : Sessions,
                      rows : SUBSET (Sessions \X Side), tally : Score]

TypeOK ==
    /\ expired \in SUBSET Sessions
    /\ revealed \in SUBSET Sessions
    /\ {written, edited, visible} \subseteq SUBSET (Sessions \X Side)
    /\ stars \in [Sessions -> Stars \cup {0}]
    /\ score \in Score
    /\ proc \in [Processes ->
                    Submission \cup Edition \cup ProfileSave \cup Job \cup {Idle}]
    /\ tx \in [Processes -> Transaction \cup {NoTx}]
    /\ announced \in [Sessions -> Nat]
    /\ deaths \in 0..MaxDeaths
    /\ overlapped \in BOOLEAN

Init ==
    /\ expired = {}
    /\ revealed = {}
    /\ written = {}
    /\ edited = {}
    /\ visible = {}
    /\ stars = [s \in Sessions |-> 0]
    /\ score = NoScore
    /\ proc = [p \in Processes |-> Idle]
    /\ tx = [p \in Processes |-> NoTx]
    /\ announced = [s \in Sessions |-> 0]
    /\ deaths = 0
    /\ overlapped = FALSE

-----------------------------------------------------------------------------

Busy == {p \in Processes : proc[p] # Idle}

\* A process takes up a request or a job.
Start(p, work) ==
    /\ proc[p] = Idle
    /\ Cardinality(Busy) < MaxInFlight
    /\ proc' = [proc EXCEPT ![p] = work]
    /\ overlapped' = (overlapped \/ Busy # {})
    /\ UNCHANGED <<expired, tables, tx, announced, deaths>>

\* A process goes on, after a step that leaves the tables to its caller.
Continue(p, work) ==
    /\ proc' = [proc EXCEPT ![p] = work]
    /\ UNCHANGED <<expired, announced, deaths, overlapped>>

\* The aggregate a reveal computes, over the client reviews that it can see: the
\* sum of their stars, which are counted one by one, and how many there are.
Tally(rows) ==
    LET reviewed == {s \in Sessions : <<s, "CLIENT">> \in rows}
    IN  [sum |-> Cardinality({g \in reviewed \X Rating : g[2] <= stars[g[1]]}),
         count |-> Cardinality(reviewed)]

\* A row that an open transaction has updated: other updates of it wait.
Locked(s) == \E p \in Processes : tx[p] # NoTx /\ tx[p].session = s
LockedRow(s, side) ==
    \E p \in Processes : tx[p] # NoTx /\ <<s, side>> \in tx[p].rows

-----------------------------------------------------------------------------
(***************************************************************************)
(* SubmitReviewHandler.                                                    *)
(***************************************************************************)

\* Defective variant: one review is enough to reveal.
ReadToSubmitSome(p, s, side) ==
    /\ p \in Slots
    /\ s \notin expired
    /\ s \notin revealed
    /\ <<s, side>> \notin written
    /\ Start(p, [op |-> "Submit", session |-> s, side |-> side,
                 both |-> TRUE, step |-> "insert"])

ReadToSubmit(p, s, side) ==
    /\ p \in Slots
    /\ s \notin expired
    /\ s \notin revealed
    /\ <<s, side>> \notin written
    /\ Start(p, [op |-> "Submit", session |-> s, side |-> side,
                 both |-> <<s, Other(side)>> \in written, step |-> "insert"])

\* The insertion, then, if the other side's review was there when the session
\* was read, the reveal.
InsertReview(p, n) ==
    /\ proc[p].op = "Submit"
    /\ proc[p].step = "insert"
    /\ LET s == proc[p].session
           side == proc[p].side
       IN  /\ <<s, side>> \notin written
           /\ written' = written \cup {<<s, side>>}
           /\ stars' = IF side = "CLIENT" THEN [stars EXCEPT ![s] = n] ELSE stars
    /\ Continue(p, IF proc[p].both THEN [proc[p] EXCEPT !.step = "reveal"] ELSE Idle)
    /\ UNCHANGED <<revealed, edited, visible, score, tx>>

\* (sessionId, reviewerType) is unique: the second insertion fails.
FailToInsert(p) ==
    /\ proc[p].op = "Submit"
    /\ proc[p].step = "insert"
    /\ <<proc[p].session, proc[p].side>> \in written
    /\ Continue(p, Idle)
    /\ UNCHANGED <<tables, tx>>

(***************************************************************************)
(* EditReviewHandler.  That the review is younger than 30 minutes is left  *)
(* to the environment: a request may arrive in time, or not at all.        *)
(***************************************************************************)

ReadToEdit(p, s, side) ==
    /\ p \in Slots
    /\ <<s, side>> \in written \ (edited \cup visible)
    /\ s \notin revealed
    /\ Start(p, [op |-> "Edit", session |-> s, side |-> side])

WriteEdited(p, n) ==
    /\ proc[p].op = "Edit"
    /\ LET s == proc[p].session
           side == proc[p].side
       IN  /\ ~LockedRow(s, side)
           /\ edited' = edited \cup {<<s, side>>}
           /\ stars' = IF side = "CLIENT" THEN [stars EXCEPT ![s] = n] ELSE stars
    /\ Continue(p, Idle)
    /\ UNCHANGED <<revealed, written, visible, score, tx>>

(***************************************************************************)
(* Any handler that loads the professional's aggregate and saves it whole: *)
(* the rating and the count are among the columns it writes back.          *)
(***************************************************************************)

LoadProfile(p) ==
    /\ p \in Slots
    /\ Start(p, [op |-> "Save", seen |-> score])

SaveProfile(p) ==
    /\ proc[p].op = "Save"
    /\ score' = proc[p].seen
    /\ Continue(p, Idle)
    /\ UNCHANGED <<revealed, written, edited, visible, stars, tx>>

-----------------------------------------------------------------------------
(***************************************************************************)
(* The reveal: the same transaction in SubmitReviewHandler and in the job. *)
(***************************************************************************)

\* A submission that saw both reviews, or a job at the next session of its list.
AtReveal(p, s) ==
    \/ proc[p].op = "Submit" /\ proc[p].step = "reveal" /\ proc[p].session = s
    \/ proc[p].op = "Cron" /\ proc[p].done = {} /\ s \in proc[p].todo \ proc[p].empty

\* Defective variant: only the reviews the submission found are made visible.
MarkOthersVisible(p, s) ==
    /\ AtReveal(p, s)
    /\ tx[p] = NoTx
    /\ ~Locked(s)
    /\ tx' = [tx EXCEPT ![p] =
                [step |-> "marked", session |-> s,
                 rows |-> {w \in written :
                            /\ w[1] = s
                            /\ proc[p].op = "Submit" => w[2] = Other(proc[p].side)}]]
    /\ UNCHANGED <<expired, tables, proc, announced, deaths, overlapped>>

MarkVisible(p, s) ==
    /\ AtReveal(p, s)
    /\ tx[p] = NoTx
    /\ ~Locked(s)
    /\ tx' = [tx EXCEPT ![p] = [step |-> "marked", session |-> s,
                               rows |-> {w \in written : w[1] = s}]]
    /\ UNCHANGED <<expired, tables, proc, announced, deaths, overlapped>>

\* Defective variants: the aggregate forgets that a review must show, or runs
\* outside the transaction.
TallyWritten(p) ==
    /\ tx[p].step = "marked"
    /\ tx' = [tx EXCEPT ![p] =
                [step |-> "tallied", session |-> tx[p].session,
                 rows |-> tx[p].rows, tally |-> Tally(written)]]
    /\ UNCHANGED <<expired, tables, proc, announced, deaths, overlapped>>

TallyOutside(p) ==
    /\ tx[p].step = "marked"
    /\ tx' = [tx EXCEPT ![p] =
                [step |-> "tallied", session |-> tx[p].session,
                 rows |-> tx[p].rows, tally |-> Tally(visible)]]
    /\ UNCHANGED <<expired, tables, proc, announced, deaths, overlapped>>

\* The session gets its date; the aggregate sees what is committed by now and
\* the transaction's own updates.
TallyVisible(p) ==
    /\ tx[p].step = "marked"
    /\ tx' = [tx EXCEPT ![p] =
                [step |-> "tallied", session |-> tx[p].session,
                 rows |-> tx[p].rows, tally |-> Tally(visible \cup tx[p].rows)]]
    /\ UNCHANGED <<expired, tables, proc, announced, deaths, overlapped>>

\* Defective variant: a step that no handler knows.
RevealedForGood(work, s) ==
    IF work.op = "Submit"
    THEN [work EXCEPT !.step = "revealed"]
    ELSE [work EXCEPT !.todo = @ \ {s}, !.done = {s}]

Revealed(work, s) ==
    IF work.op = "Submit"
    THEN [work EXCEPT !.step = "announce"]
    ELSE [work EXCEPT !.todo = @ \ {s}, !.done = {s}]

\* The update of the professional, and the commit.
CommitReveal(p) ==
    /\ tx[p].step = "tallied"
    /\ visible' = visible \cup tx[p].rows
    /\ revealed' = revealed \cup {tx[p].session}
    /\ score' = tx[p].tally
    /\ tx' = [tx EXCEPT ![p] = NoTx]
    /\ Continue(p, Revealed(proc[p], tx[p].session))
    /\ UNCHANGED <<written, edited, stars>>

Announce(p, s) ==
    /\ \/ proc[p].op = "Submit" /\ proc[p].step = "announce" /\ proc[p].session = s
       \/ proc[p].op = "Cron" /\ s \in proc[p].done
    /\ announced' = [announced EXCEPT ![s] = @ + 1]
    /\ proc' = [proc EXCEPT ![p] =
                    IF @.op = "Submit" \/ @.todo = {} THEN Idle
                    ELSE [@ EXCEPT !.done = {}]]
    /\ UNCHANGED <<expired, tables, tx, deaths, overlapped>>

(***************************************************************************)
(* ReviewSchedulerService.revealExpiredSessions.                           *)
(***************************************************************************)

JobOver(found) ==
    [op |-> "Cron", todo |-> found, done |-> {},
     empty |-> {s \in found : \A side \in Side : <<s, side>> \notin written}]

\* Defective variants: the query forgets that a session may be revealed, or
\* leaves out the sessions without a review.
StartJobAgain(c) ==
    /\ c \in Crons
    /\ expired # {}
    /\ Start(c, JobOver(expired))

StartJobReviewed(c) ==
    /\ c \in Crons
    /\ \E w \in written : w[1] \in expired \ revealed
    /\ Start(c, JobOver({s \in expired \ revealed : \E w \in written : w[1] = s}))

\* One query: the expired sessions without a date, with their reviews.
StartJob(c) ==
    /\ c \in Crons
    /\ expired \ revealed # {}
    /\ Start(c, JobOver(expired \ revealed))

\* A session that had no review gets its date without a transaction or an event.
RevealEmpty(c, s) ==
    /\ proc[c].op = "Cron"
    /\ proc[c].done = {}
    /\ s \in proc[c].todo \cap proc[c].empty
    /\ tx[c] = NoTx
    /\ \A p \in Processes : tx[p].step = "tallied" => tx[p].session # s
    /\ revealed' = revealed \cup {s}
    /\ Continue(c, IF proc[c].todo = {s} THEN Idle
                   ELSE [proc[c] EXCEPT !.todo = @ \ {s}])
    /\ UNCHANGED <<written, edited, visible, stars, score, tx>>

-----------------------------------------------------------------------------

\* The 48 hours of a session pass.
Expire(s) ==
    /\ s \notin expired
    /\ expired' = expired \cup {s}
    /\ UNCHANGED <<tables, proc, tx, announced, deaths, overlapped>>

\* A crash or a failed statement: an open transaction is rolled back.
Die(p) ==
    /\ proc[p] # Idle
    /\ deaths < MaxDeaths
    /\ deaths' = deaths + 1
    /\ proc' = [proc EXCEPT ![p] = Idle]
    /\ tx' = [tx EXCEPT ![p] = NoTx]
    /\ UNCHANGED <<expired, tables, announced, overlapped>>

Take(p) ==
    \/ \E s \in Sessions, side \in Side : ReadToSubmit(p, s, side) \/ ReadToEdit(p, s, side)
    \/ LoadProfile(p)

Proceed(p) ==
    \/ \E n \in Stars : InsertReview(p, n) \/ WriteEdited(p, n)
    \/ FailToInsert(p)
    \/ SaveProfile(p)
    \/ \E s \in Sessions : MarkVisible(p, s) \/ RevealEmpty(p, s) \/ Announce(p, s)
    \/ TallyVisible(p)
    \/ CommitReveal(p)

Next ==
    \/ \E p \in Processes : Take(p) \/ Proceed(p) \/ StartJob(p) \/ Die(p)
    \/ \E s \in Sessions : Expire(s)

Spec == Init /\ [][Next]_vars

\* Node runs the continuation of every statement, the database grants a lock
\* that is released, and cron starts the job every ten minutes.
Fairness == \A p \in Processes : WF_vars(Proceed(p)) /\ WF_vars(StartJob(p))

FairSpec == Spec /\ Fairness

-----------------------------------------------------------------------------
(***************************************************************************)
(* Properties that hold whatever the interleaving.                         *)
(***************************************************************************)

\* The reviews of a session are blind: nothing of it shows before both sides
\* have written, or the window has passed.
BlindUntilDue ==
    \A s \in revealed \cup {v[1] : v \in visible} :
        s \in expired \/ {<<s, side>> : side \in Side} \subseteq written

\* A review stays hidden in a revealed session only when the window passed
\* while it was being submitted.
HiddenOnlyLate ==
    \A w \in written \ visible : w[1] \in revealed => w[1] \in expired

\* The professional's count never includes a review that nobody can see.
CountsOnlyVisible ==
    score.count <= Cardinality({s \in Sessions : <<s, "CLIENT">> \in visible})

\* With every process fair: an expired session is revealed in the end.
ExpiredIsRevealed == \A s \in Sessions : s \in expired ~> s \in revealed

(***************************************************************************)
(* Properties of one request or job at a time: they hold until one begins  *)
(* while another is at work, whatever dies.                                *)
(***************************************************************************)

AtRest == Busy = {} /\ ~overlapped

\* Between requests the professional's rating and count are those of the
\* reviews that show.
SerialScore == AtRest => score = Tally(visible)

\* Between requests nothing of a revealed session is hidden.
SerialNothingHidden ==
    AtRest => \A w \in written : w[1] \in revealed => w \in visible

\* A reveal is published at most once.
SerialAnnouncedOnce ==
    ~overlapped => \A s \in Sessions : announced[s] <= 1

\* Together: a reveal shows everything, counts what shows and is announced once.
SerialReveal == SerialScore /\ SerialNothingHidden /\ SerialAnnouncedOnce
=============================================================================
