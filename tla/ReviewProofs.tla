---------------------------- MODULE ReviewProofs ----------------------------
(***************************************************************************)
(* Proofs about Review: whatever the interleaving and whatever dies, a     *)
(* review shows only when it is due, one that stays hidden in a revealed   *)
(* session came in late, and the professional's count never exceeds what   *)
(* shows; until two requests or jobs overlap, the rating is that of what   *)
(* shows, nothing revealed is hidden and a reveal is announced once.       *)
(***************************************************************************)
EXTENDS Review, FiniteSetTheorems, TLAPS

-----------------------------------------------------------------------------
(***************************************************************************)
(* The inductive invariant.                                                *)
(***************************************************************************)

BothIn(s, rows) == {<<s, "CLIENT">>, <<s, "PROFESSIONAL">>} \subseteq rows

ReviewedIn(rows) == {s \in Sessions : <<s, "CLIENT">> \in rows}

Counts(total, rows) ==
    /\ total.count \in Nat
    /\ total.count <= Cardinality(ReviewedIn(rows))

Tables ==
    /\ expired \subseteq Sessions
    /\ revealed \subseteq Sessions
    /\ written \subseteq Sessions \X Side
    /\ visible \subseteq written

\* What shows is due, and a session revealed before its time shows both sides.
Shown ==
    /\ \A v \in visible : v[1] \in expired \/ BothIn(v[1], written)
    /\ \A s \in revealed : s \in expired \/ BothIn(s, visible)

\* What a process carries between two steps is still true of the tables.
WorkHolds(p) ==
    /\ proc[p].op \in {"Idle", "Submit", "Edit", "Save", "Cron"}
    /\ proc[p].op = "Submit" =>
        /\ proc[p] \in Submission
        /\ proc[p].both =>
            <<proc[p].session, Other(proc[p].side)>> \in written
        /\ proc[p].step # "insert" => BothIn(proc[p].session, written)
    /\ proc[p].op = "Edit" => proc[p] \in Edition
    /\ proc[p].op = "Save" => Counts(proc[p].seen, visible)
    /\ proc[p].op = "Cron" => proc[p] \in Job /\ proc[p].todo \subseteq expired

\* An open transaction shows the reviews of one session, which is due.
TxHolds(p) ==
    /\ tx[p].step \in {"none", "marked", "tallied"}
    /\ tx[p].step # "none" =>
        /\ tx[p].session \in Sessions
        /\ AtReveal(p, tx[p].session)
        /\ tx[p].rows \subseteq {w \in written : w[1] = tx[p].session}
        /\ tx[p].session \in expired \/ BothIn(tx[p].session, tx[p].rows)
    /\ tx[p].step = "tallied" => Counts(tx[p].tally, visible \cup tx[p].rows)

Domains ==
    /\ proc = [p \in Processes |-> proc[p]]
    /\ tx = [p \in Processes |-> tx[p]]

IInv ==
    /\ Tables
    /\ Shown
    /\ Counts(score, visible)
    /\ Domains
    /\ \A p \in Processes : WorkHolds(p) /\ TxHolds(p)

-----------------------------------------------------------------------------
(***************************************************************************)
(* Counting.                                                               *)
(***************************************************************************)

\* More rows, at least as many reviewed sessions.
LEMMA ReviewedGrows ==
    ASSUME NEW A, NEW B, A \subseteq B
    PROVE  /\ Cardinality(ReviewedIn(A)) \in Nat
           /\ Cardinality(ReviewedIn(A)) <= Cardinality(ReviewedIn(B))
           /\ Cardinality(ReviewedIn(B)) \in Nat
<1>1. ReviewedIn(A) \subseteq ReviewedIn(B) /\ ReviewedIn(B) \subseteq Sessions
  BY DEF ReviewedIn
<1>2. IsFiniteSet(Sessions)
  BY ReviewAssumption
<1>3. IsFiniteSet(ReviewedIn(B))
  BY <1>1, <1>2, FS_Subset
<1>4. /\ IsFiniteSet(ReviewedIn(A))
      /\ Cardinality(ReviewedIn(A)) <= Cardinality(ReviewedIn(B))
  BY <1>1, <1>3, FS_Subset
<1> QED
  BY <1>3, <1>4, FS_CardinalityType

\* What counted some rows counts any larger set of them.
LEMMA CountsGrow ==
    ASSUME NEW A, NEW B, A \subseteq B, NEW total, Counts(total, A)
    PROVE  Counts(total, B)
BY ReviewedGrows DEF Counts

\* The aggregate of a reveal counts the rows it was given.
LEMMA TallyCounts ==
    ASSUME NEW rows
    PROVE  Counts(Tally(rows), rows)
<1>1. Tally(rows).count = Cardinality(ReviewedIn(rows))
  BY DEF Tally, ReviewedIn
<1>2. Cardinality(ReviewedIn(rows)) \in Nat
  BY ReviewedGrows
<1> QED
  BY <1>1, <1>2 DEF Counts

-----------------------------------------------------------------------------
(***************************************************************************)
(* What a step leaves true of the processes that do not take it.           *)
(***************************************************************************)

\* The tables only grow.
Grows ==
    /\ expired \subseteq expired'
    /\ written \subseteq written'
    /\ visible \subseteq visible'

\* What an idle process carries, and a transaction that is not open.
LEMMA AtRestHolds ==
    ASSUME NEW p \in Processes
    PROVE  /\ proc[p] = Idle => WorkHolds(p)
           /\ tx[p] = NoTx => TxHolds(p)
BY DEF Idle, NoTx, WorkHolds, TxHolds

LEMMA WorkStays ==
    ASSUME NEW p \in Processes, WorkHolds(p), Grows, proc'[p] = proc[p]
    PROVE  WorkHolds(p)'
<1>1. proc[p].op = "Save" => Counts(proc[p].seen, visible')
  BY CountsGrow DEF WorkHolds, Grows
<1>2. BothIn(proc[p].session, written) => BothIn(proc[p].session, written')
  BY DEF Grows, BothIn
<1> QED
  BY <1>1, <1>2 DEF WorkHolds, Grows, Counts

LEMMA TxStays ==
    ASSUME NEW p \in Processes, TxHolds(p), Grows, tx'[p] = tx[p], proc'[p] = proc[p]
    PROVE  TxHolds(p)'
<1>1. tx[p].step = "tallied" => Counts(tx[p].tally, visible' \cup tx[p].rows)
  <2>1. visible \cup tx[p].rows \subseteq visible' \cup tx[p].rows
    BY DEF Grows
  <2> QED
    BY <2>1, CountsGrow DEF TxHolds
<1>2. tx[p].step # "none" => AtReveal(p, tx[p].session)'
  BY DEF TxHolds, AtReveal
<1> QED
  BY <1>1, <1>2 DEF TxHolds, Grows, Counts, BothIn

\* A step of one process: the others keep what they hold.
LEMMA OneStep ==
    ASSUME IInv, NEW p \in Processes, Grows, Domains',
           \A q \in Processes \ {p} : proc'[q] = proc[q] /\ tx'[q] = tx[q],
           Tables', Shown', Counts(score, visible)', WorkHolds(p)', TxHolds(p)'
    PROVE  IInv'
<1>1. ASSUME NEW q \in Processes
      PROVE  WorkHolds(q)' /\ TxHolds(q)'
  <2>1. CASE q = p
    BY <2>1
  <2>2. CASE q # p
    BY <2>2, WorkStays, TxStays DEF IInv
  <2> QED
    BY <2>1, <2>2
<1> QED
  BY <1>1 DEF IInv

\* A step that leaves the tables alone.
LEMMA TablesStay ==
    ASSUME IInv, UNCHANGED <<expired, revealed, written, visible, score>>
    PROVE  Grows /\ Tables' /\ Shown' /\ Counts(score, visible)'
BY DEF IInv, Grows, Tables, Shown, Counts, BothIn, ReviewedIn

\* A step that only replaces the work of one process.
LEMMA NewWork ==
    ASSUME IInv, NEW p \in Processes, NEW work,
           UNCHANGED <<expired, revealed, written, visible, score, tx>>,
           proc' = [proc EXCEPT ![p] = work], WorkHolds(p)', TxHolds(p)'
    PROVE  IInv'
<1>1. Domains'
  BY DEF IInv, Domains
<1>2. \A q \in Processes \ {p} : proc'[q] = proc[q] /\ tx'[q] = tx[q]
  BY DEF IInv, Domains
<1> QED
  BY <1>1, <1>2, TablesStay, OneStep

\* A transaction is open only at a reveal.
LEMMA NoTxElsewhere ==
    ASSUME IInv, NEW p \in Processes, \A s \in Sessions : ~AtReveal(p, s)
    PROVE  tx[p].step = "none"
BY DEF IInv, TxHolds

LEMMA NoTxStays ==
    ASSUME IInv, NEW p \in Processes, tx[p].step = "none", tx'[p] = tx[p]
    PROVE  TxHolds(p)'
BY DEF TxHolds

-----------------------------------------------------------------------------
(***************************************************************************)
(* Each action preserves the invariant.                                    *)
(***************************************************************************)

LEMMA InitEstablishes == Init => IInv
<1> SUFFICES ASSUME Init PROVE IInv
  OBVIOUS
<1>1. Tables /\ Shown /\ Domains
  BY DEF Init, Tables, Shown, Domains
<1>2. Counts(score, visible)
  BY ReviewedGrows DEF Init, Counts, NoScore
<1>3. \A p \in Processes : proc[p] = Idle /\ tx[p] = NoTx
  BY DEF Init
<1> QED
  BY <1>1, <1>2, <1>3, AtRestHolds DEF IInv

\* A request or a job begins: it holds what it read.
LEMMA StartHolds ==
    ASSUME IInv, NEW p \in Processes, NEW work, Start(p, work), WorkHolds(p)'
    PROVE  IInv'
<1>1. /\ proc[p] = Idle
      /\ proc' = [proc EXCEPT ![p] = work]
      /\ UNCHANGED <<expired, revealed, written, visible, score, tx>>
  BY DEF Start, tables
<1>2. TxHolds(p)'
  <2>1. \A s \in Sessions : ~AtReveal(p, s)
    BY <1>1 DEF AtReveal, Idle
  <2> QED
    BY <1>1, <2>1, NoTxElsewhere, NoTxStays
<1> QED
  BY <1>1, <1>2, NewWork

LEMMA Started ==
    ASSUME IInv, NEW p \in Processes, NEW work, Start(p, work)
    PROVE  proc'[p] = work /\ UNCHANGED <<expired, revealed, written, visible, score>>
BY DEF IInv, Domains, Start, tables

LEMMA TakeStep ==
    ASSUME IInv, NEW p \in Processes, Take(p)
    PROVE  IInv'
<1>1. ASSUME NEW s \in Sessions, NEW side \in Side, ReadToSubmit(p, s, side)
      PROVE  IInv'
  <2> DEFINE work == [op |-> "Submit", session |-> s, side |-> side,
                      both |-> <<s, Other(side)>> \in written, step |-> "insert"]
  <2>1. Start(p, work)
    BY <1>1 DEF ReadToSubmit
  <2>2. proc'[p] = work /\ written' = written
    BY <2>1, Started
  <2>3. (<<s, Other(side)>> \in written) \in BOOLEAN
    OBVIOUS
  <2>4. work \in Submission
    BY <2>3 DEF Submission
  <2>5. WorkHolds(p)'
    <3> HIDE DEF work
    <3>1. /\ work.op = "Submit" /\ work.step = "insert" /\ work.session = s
          /\ work.side = side /\ work.both = (<<s, Other(side)>> \in written)
      BY DEF work
    <3> QED
      BY <2>2, <2>4, <3>1 DEF WorkHolds
  <2> HIDE DEF work
  <2> QED
    BY <2>1, <2>5, StartHolds
<1>2. ASSUME NEW s \in Sessions, NEW side \in Side, ReadToEdit(p, s, side)
      PROVE  IInv'
  <2> DEFINE work == [op |-> "Edit", session |-> s, side |-> side]
  <2>1. Start(p, work)
    BY <1>2 DEF ReadToEdit
  <2>2. proc'[p] = work
    BY <2>1, Started
  <2>3. WorkHolds(p)'
    BY <2>2 DEF WorkHolds, Edition
  <2> HIDE DEF work
  <2> QED
    BY <2>1, <2>3, StartHolds
<1>3. ASSUME LoadProfile(p)
      PROVE  IInv'
  <2> DEFINE work == [op |-> "Save", seen |-> score]
  <2>1. Start(p, work)
    BY <1>3 DEF LoadProfile
  <2>2. proc'[p] = work /\ visible' = visible /\ Counts(score, visible)
    BY <2>1, Started DEF IInv
  <2>3. WorkHolds(p)'
    BY <2>2 DEF WorkHolds, Counts
  <2> HIDE DEF work
  <2> QED
    BY <2>1, <2>3, StartHolds
<1> QED
  BY <1>1, <1>2, <1>3 DEF Take

LEMMA JobStep ==
    ASSUME IInv, NEW c \in Processes, StartJob(c)
    PROVE  IInv'
<1> DEFINE found == expired \ revealed
           none == {s \in found : \A side \in Side : <<s, side>> \notin written}
           work == [op |-> "Cron", todo |-> found, done |-> {}, empty |-> none]
<1>1. Start(c, work)
  BY DEF StartJob, JobOver
<1>2. proc'[c] = work /\ expired' = expired
  BY <1>1, Started
<1>3. found \subseteq Sessions /\ none \subseteq Sessions /\ found \subseteq expired
  BY DEF IInv, Tables
<1>4. work \in Job
  <2> HIDE DEF found, none
  <2> QED
    BY <1>3 DEF Job
<1>5. WorkHolds(c)'
  <2> HIDE DEF found, none
  <2> QED
    BY <1>2, <1>3, <1>4 DEF WorkHolds
<1> HIDE DEF work
<1> QED
  BY <1>1, <1>5, StartHolds

\* A session is not due, and yet not blind: both sides have written, so that
\* no insertion is left.
LEMMA InsertStep ==
    ASSUME IInv, NEW p \in Processes, NEW n \in Stars, InsertReview(p, n)
    PROVE  IInv'
<1> DEFINE s == proc[p].session
           side == proc[p].side
           work == IF proc[p].both THEN [proc[p] EXCEPT !.step = "reveal"] ELSE Idle
<1>1. /\ proc[p].op = "Submit"
      /\ proc[p].step = "insert"
      /\ written' = written \cup {<<s, side>>}
      /\ proc' = [proc EXCEPT ![p] = work]
      /\ UNCHANGED <<expired, revealed, visible, score, tx>>
  BY DEF InsertReview, Continue
<1>2. /\ proc[p] \in Submission
      /\ s \in Sessions
      /\ side \in Side
      /\ proc[p].both \in BOOLEAN
      /\ proc[p].both => <<s, Other(side)>> \in written
  BY <1>1 DEF IInv, WorkHolds, Submission
<1>3. Grows
  BY <1>1 DEF Grows
<1>4. Domains' /\ proc'[p] = work
      /\ \A q \in Processes \ {p} : proc'[q] = proc[q] /\ tx'[q] = tx[q]
  <2> HIDE DEF work
  <2> QED
    BY <1>1 DEF IInv, Domains
<1>5. Tables' /\ Shown' /\ Counts(score, visible)'
  BY <1>1, <1>2 DEF IInv, Tables, Shown, BothIn, Counts, ReviewedIn
<1>6. WorkHolds(p)'
  <2>1. CASE proc[p].both
    <3> DEFINE next == [proc[p] EXCEPT !.step = "reveal"]
    <3>1. proc'[p] = next
      BY <1>4, <2>1
    <3>2. next \in Submission /\ next.op = "Submit" /\ next.session = s
          /\ next.side = side
      BY <1>2 DEF Submission
    <3>3. <<s, side>> \in written' /\ <<s, Other(side)>> \in written'
      BY <1>1, <1>2, <2>1
    <3>4. BothIn(s, written')
      BY <1>2, <3>3 DEF BothIn, Side, Other
    <3> HIDE DEF next, s, side
    <3> QED
      BY <3>1, <3>2, <3>3, <3>4 DEF WorkHolds
  <2>2. CASE ~proc[p].both
    BY <1>4, <2>2 DEF WorkHolds, Idle
  <2> QED
    BY <2>1, <2>2
<1>7. TxHolds(p)'
  <2>1. \A r \in Sessions : ~AtReveal(p, r)
    BY <1>1 DEF AtReveal
  <2> QED
    BY <1>1, <2>1, NoTxElsewhere, NoTxStays
<1> HIDE DEF work
<1> QED
  BY <1>3, <1>4, <1>5, <1>6, <1>7, OneStep

\* A step that ends the work of a process outside a reveal and changes none of
\* the tables that the invariant is about.
LEMMA DoneStep ==
    ASSUME IInv, NEW p \in Processes, \A s \in Sessions : ~AtReveal(p, s),
           proc' = [proc EXCEPT ![p] = Idle],
           UNCHANGED <<expired, revealed, written, visible, score, tx>>
    PROVE  IInv'
<1>1. WorkHolds(p)'
  BY DEF IInv, Domains, WorkHolds, Idle
<1>2. TxHolds(p)'
  BY NoTxElsewhere, NoTxStays
<1> QED
  BY <1>1, <1>2, NewWork

LEMMA FailStep ==
    ASSUME IInv, NEW p \in Processes, FailToInsert(p)
    PROVE  IInv'
BY DoneStep DEF FailToInsert, Continue, tables, AtReveal

LEMMA EditStep ==
    ASSUME IInv, NEW p \in Processes, NEW n \in Stars, WriteEdited(p, n)
    PROVE  IInv'
<1>1. /\ proc[p].op = "Edit"
      /\ proc' = [proc EXCEPT ![p] = Idle]
      /\ UNCHANGED <<expired, revealed, written, visible, score, tx>>
  BY DEF WriteEdited, Continue
<1>2. \A s \in Sessions : ~AtReveal(p, s)
  BY <1>1 DEF AtReveal
<1> QED
  BY <1>1, <1>2, DoneStep

\* A stale score is written back, but never one that counts too much.
LEMMA SaveStep ==
    ASSUME IInv, NEW p \in Processes, SaveProfile(p)
    PROVE  IInv'
<1>1. /\ proc[p].op = "Save"
      /\ proc' = [proc EXCEPT ![p] = Idle]
      /\ score' = proc[p].seen
      /\ UNCHANGED <<expired, revealed, written, visible, tx>>
  BY DEF SaveProfile, Continue
<1>2. Grows /\ Tables' /\ Shown'
  BY <1>1 DEF IInv, Grows, Tables, Shown, BothIn
<1>3. Counts(score, visible)'
  BY <1>1 DEF IInv, WorkHolds, Counts
<1>4. Domains' /\ proc'[p] = Idle
      /\ \A q \in Processes \ {p} : proc'[q] = proc[q] /\ tx'[q] = tx[q]
  BY <1>1 DEF IInv, Domains
<1>5. WorkHolds(p)'
  BY <1>4 DEF WorkHolds, Idle
<1>6. TxHolds(p)'
  <2>1. \A s \in Sessions : ~AtReveal(p, s)
    BY <1>1 DEF AtReveal
  <2> QED
    BY <1>1, <2>1, NoTxElsewhere, NoTxStays
<1> QED
  BY <1>2, <1>3, <1>4, <1>5, <1>6, OneStep

-----------------------------------------------------------------------------
(***************************************************************************)
(* The reveal.                                                             *)
(***************************************************************************)

\* Who comes to a reveal comes to one that is due.
LEMMA RevealIsDue ==
    ASSUME IInv, NEW p \in Processes, NEW s, AtReveal(p, s)
    PROVE  s \in Sessions /\ (s \in expired \/ BothIn(s, written))
<1>1. CASE proc[p].op = "Submit" /\ proc[p].step = "reveal" /\ proc[p].session = s
  BY <1>1 DEF IInv, WorkHolds, Submission
<1>2. CASE proc[p].op = "Cron" /\ s \in proc[p].todo
  BY <1>2 DEF IInv, Tables, WorkHolds
<1> QED
  BY <1>1, <1>2 DEF AtReveal

\* A step inside a transaction, which no table shows yet.
LEMMA TxStep ==
    ASSUME IInv, NEW p \in Processes, NEW open,
           UNCHANGED <<expired, revealed, written, visible, score, proc>>,
           tx' = [tx EXCEPT ![p] = open], TxHolds(p)'
    PROVE  IInv'
<1>1. Domains' /\ \A q \in Processes \ {p} : proc'[q] = proc[q] /\ tx'[q] = tx[q]
  BY DEF IInv, Domains
<1>2. Grows /\ Tables' /\ Shown' /\ Counts(score, visible)'
  BY TablesStay
<1>3. WorkHolds(p)'
  BY <1>2, WorkStays DEF IInv
<1> QED
  BY <1>1, <1>2, <1>3, OneStep

LEMMA MarkStep ==
    ASSUME IInv, NEW p \in Processes, NEW s \in Sessions, MarkVisible(p, s)
    PROVE  IInv'
<1> DEFINE rows == {w \in written : w[1] = s}
           open == [step |-> "marked", session |-> s, rows |-> rows]
<1>1. /\ AtReveal(p, s)
      /\ tx' = [tx EXCEPT ![p] = open]
      /\ UNCHANGED <<expired, revealed, written, visible, score, proc>>
  BY DEF MarkVisible, tables
<1>2. BothIn(s, written) => BothIn(s, rows)
  BY DEF BothIn
<1>3. s \in expired \/ BothIn(s, rows)
  BY <1>1, <1>2, RevealIsDue
<1>4. AtReveal(p, s)'
  BY <1>1 DEF AtReveal
<1>5. tx'[p] = open
  <2> HIDE DEF open
  <2> QED
    BY <1>1 DEF IInv, Domains
<1>6. TxHolds(p)'
  BY <1>1, <1>3, <1>4, <1>5 DEF TxHolds, BothIn
<1> HIDE DEF open
<1> QED
  BY <1>1, <1>6, TxStep

LEMMA TallyStep ==
    ASSUME IInv, NEW p \in Processes, TallyVisible(p)
    PROVE  IInv'
<1> DEFINE total == Tally(visible \cup tx[p].rows)
           open == [step |-> "tallied", session |-> tx[p].session,
                    rows |-> tx[p].rows, tally |-> total]
<1>1. /\ tx[p].step = "marked"
      /\ tx' = [tx EXCEPT ![p] = open]
      /\ UNCHANGED <<expired, revealed, written, visible, score, proc>>
  BY DEF TallyVisible, tables
<1>2. Counts(total, visible \cup tx[p].rows)
  BY TallyCounts
<1>3. tx'[p] = open
  <2> HIDE DEF open
  <2> QED
    BY <1>1 DEF IInv, Domains
<1>4. /\ tx[p].session \in Sessions
      /\ AtReveal(p, tx[p].session)
      /\ tx[p].rows \subseteq {w \in written : w[1] = tx[p].session}
      /\ tx[p].session \in expired \/ BothIn(tx[p].session, tx[p].rows)
  BY <1>1 DEF IInv, TxHolds
<1>5. AtReveal(p, tx[p].session)'
  BY <1>1, <1>3, <1>4 DEF AtReveal
<1>6. TxHolds(p)'
  <2> HIDE DEF total
  <2>1. /\ tx'[p].step = "tallied"
        /\ tx'[p].session = tx[p].session
        /\ tx'[p].rows = tx[p].rows
        /\ tx'[p].tally = total
    BY <1>3
  <2>2. Counts(tx[p].tally, visible \cup tx[p].rows)'
    BY <1>1, <1>2, <2>1 DEF Counts
  <2>3. /\ tx'[p].session \in Sessions
        /\ tx'[p].rows \subseteq {w \in written' : w[1] = tx'[p].session}
    BY <1>1, <1>4, <2>1
  <2>4. tx'[p].session \in expired' \/ BothIn(tx[p].session, tx[p].rows)'
    BY <1>1, <1>4, <2>1 DEF BothIn
  <2> QED
    BY <1>5, <2>1, <2>2, <2>3, <2>4 DEF TxHolds
<1> HIDE DEF open
<1> QED
  BY <1>1, <1>6, TxStep

\* What a job goes on with, after each of its steps, is a job again.
LEMMA JobShorter ==
    ASSUME NEW work \in Job, NEW s, NEW next,
           next = [work EXCEPT !.todo = work.todo \ {s}]
    PROVE  next \in Job /\ next.op = "Cron" /\ next.todo = work.todo \ {s}
<1>1. work.todo \ {s} \in SUBSET Sessions
  BY DEF Job
<1> QED
  BY <1>1 DEF Job

LEMMA JobRevealed ==
    ASSUME NEW work \in Job, NEW s \in Sessions, NEW next,
           next = [work EXCEPT !.todo = work.todo \ {s}, !.done = {s}]
    PROVE  next \in Job /\ next.op = "Cron" /\ next.todo = work.todo \ {s}
<1>1. /\ work.todo \ {s} \in SUBSET Sessions
      /\ {s} \in SUBSET Sessions
  BY DEF Job
<1> QED
  BY <1>1 DEF Job

LEMMA JobAnnounced ==
    ASSUME NEW work \in Job, NEW next, next = [work EXCEPT !.done = {}]
    PROVE  next \in Job /\ next.op = "Cron" /\ next.todo = work.todo
BY DEF Job

LEMMA CommitStep ==
    ASSUME IInv, NEW p \in Processes, CommitReveal(p)
    PROVE  IInv'
<1> DEFINE s == tx[p].session
           rows == tx[p].rows
           work == Revealed(proc[p], s)
<1>1. /\ tx[p].step = "tallied"
      /\ visible' = visible \cup rows
      /\ revealed' = revealed \cup {s}
      /\ score' = tx[p].tally
      /\ tx' = [tx EXCEPT ![p] = NoTx]
      /\ proc' = [proc EXCEPT ![p] = work]
      /\ UNCHANGED <<expired, written>>
  BY DEF CommitReveal, Continue
<1>2. /\ s \in Sessions
      /\ AtReveal(p, s)
      /\ rows \subseteq {w \in written : w[1] = s}
      /\ s \in expired \/ BothIn(s, rows)
      /\ Counts(tx[p].tally, visible \cup rows)
  BY <1>1 DEF IInv, TxHolds
<1>3. Grows
  BY <1>1 DEF Grows
<1>4. /\ Domains'
      /\ proc'[p] = work /\ tx'[p] = NoTx
      /\ \A q \in Processes \ {p} : proc'[q] = proc[q] /\ tx'[q] = tx[q]
  <2> HIDE DEF work
  <2> QED
    BY <1>1 DEF IInv, Domains
<1>5. Tables'
  BY <1>1, <1>2 DEF IInv, Tables
<1>6. Shown'
  <2>1. s \in expired \/ BothIn(s, written)
    BY <1>2, RevealIsDue
  <2>2. ASSUME NEW v \in visible'
        PROVE  v[1] \in expired' \/ BothIn(v[1], written')
    <3>1. CASE v \in visible
      BY <1>1, <3>1 DEF IInv, Shown
    <3>2. CASE v \in rows
      <4>1. v[1] = s
        BY <1>2, <3>2
      <4> HIDE DEF s, rows
      <4> QED
        BY <1>1, <2>1, <4>1
    <3> QED
      BY <1>1, <3>1, <3>2
  <2>3. ASSUME NEW r \in revealed'
        PROVE  r \in expired' \/ BothIn(r, visible')
    BY <1>1, <1>2 DEF IInv, Shown, BothIn
  <2> QED
    BY <2>2, <2>3 DEF Shown, BothIn
<1>7. Counts(score, visible)'
  BY <1>1, <1>2 DEF Counts, ReviewedIn
<1>8. WorkHolds(p)'
  <2>1. CASE proc[p].op = "Submit"
    <3>1. /\ proc[p] \in Submission
          /\ proc[p].session = s
          /\ proc[p].both => <<s, Other(proc[p].side)>> \in written
          /\ BothIn(s, written)
      BY <1>2, <2>1 DEF IInv, WorkHolds, AtReveal
    <3>2. work = [proc[p] EXCEPT !.step = "announce"]
      BY <2>1 DEF Revealed
    <3>3. /\ work \in Submission
          /\ work.op = "Submit"
          /\ work.session = s
          /\ work.side = proc[p].side
          /\ work.both = proc[p].both
      BY <3>1, <3>2 DEF Submission
    <3> HIDE DEF work, s
    <3>4. BothIn(s, written')
      BY <1>1, <3>1
    <3> QED
      BY <1>1, <1>4, <3>1, <3>3, <3>4 DEF WorkHolds
  <2>2. CASE proc[p].op = "Cron"
    <3>1. proc[p] \in Job /\ proc[p].todo \subseteq expired
      BY <2>2 DEF IInv, WorkHolds
    <3>2. work = [proc[p] EXCEPT !.todo = proc[p].todo \ {s}, !.done = {s}]
      BY <2>2 DEF Revealed
    <3>3. s \in Sessions
      BY <1>2
    <3> HIDE DEF work, s
    <3>4. work \in Job /\ work.op = "Cron" /\ work.todo = proc[p].todo \ {s}
      BY <3>1, <3>2, <3>3, JobRevealed
    <3> QED
      BY <1>1, <1>4, <3>1, <3>4 DEF WorkHolds
  <2> QED
    BY <1>2, <2>1, <2>2 DEF AtReveal
<1>9. TxHolds(p)'
  BY <1>4 DEF TxHolds, NoTx
<1> HIDE DEF work
<1> QED
  BY <1>3, <1>4, <1>5, <1>6, <1>7, <1>8, <1>9, OneStep

LEMMA AnnounceStep ==
    ASSUME IInv, NEW p \in Processes, NEW s \in Sessions, Announce(p, s)
    PROVE  IInv'
<1> DEFINE work == IF proc[p].op = "Submit" \/ proc[p].todo = {} THEN Idle
                   ELSE [proc[p] EXCEPT !.done = {}]
<1>1. /\ \/ proc[p].op = "Submit" /\ proc[p].step = "announce"
         \/ proc[p].op = "Cron" /\ s \in proc[p].done
      /\ proc' = [proc EXCEPT ![p] = work]
      /\ UNCHANGED <<expired, revealed, written, visible, score, tx>>
  BY DEF Announce, tables
<1>2. proc'[p] = work
  <2> HIDE DEF work
  <2> QED
    BY <1>1 DEF IInv, Domains
<1>3. WorkHolds(p)'
  <2>1. CASE work = Idle
    <3> HIDE DEF work
    <3> QED
      BY <1>2, <2>1 DEF WorkHolds, Idle
  <2>2. CASE proc[p].op = "Cron" /\ work = [proc[p] EXCEPT !.done = {}]
    <3>1. proc[p] \in Job /\ proc[p].todo \subseteq expired
      BY <2>2 DEF IInv, WorkHolds
    <3>2. work \in Job /\ work.op = "Cron" /\ work.todo = proc[p].todo
      BY <2>2, <3>1, JobAnnounced
    <3> HIDE DEF work
    <3> QED
      BY <1>1, <1>2, <3>1, <3>2 DEF WorkHolds
  <2> QED
    BY <1>1, <2>1, <2>2
<1>4. TxHolds(p)'
  <2>1. \A r \in Sessions : ~AtReveal(p, r)
    BY <1>1 DEF AtReveal
  <2> QED
    BY <1>1, <2>1, NoTxElsewhere, NoTxStays
<1> HIDE DEF work
<1> QED
  BY <1>1, <1>3, <1>4, NewWork

LEMMA EmptyStep ==
    ASSUME IInv, NEW c \in Processes, NEW s \in Sessions, RevealEmpty(c, s)
    PROVE  IInv'
<1> DEFINE work == IF proc[c].todo = {s} THEN Idle
                   ELSE [proc[c] EXCEPT !.todo = proc[c].todo \ {s}]
<1>1. /\ proc[c].op = "Cron"
      /\ s \in proc[c].todo
      /\ tx[c] = NoTx
      /\ revealed' = revealed \cup {s}
      /\ proc' = [proc EXCEPT ![c] = work]
      /\ UNCHANGED <<expired, written, visible, score, tx>>
  BY DEF RevealEmpty, Continue
<1>2. proc[c] \in Job /\ proc[c].todo \subseteq expired
  BY <1>1 DEF IInv, WorkHolds
<1>3. Grows /\ Counts(score, visible)'
  BY <1>1 DEF IInv, Grows, Counts, ReviewedIn
<1>4. Tables' /\ Shown'
  BY <1>1, <1>2 DEF IInv, Tables, Shown, BothIn
<1>5. /\ Domains' /\ proc'[c] = work
      /\ \A q \in Processes \ {c} : proc'[q] = proc[q] /\ tx'[q] = tx[q]
  <2> HIDE DEF work
  <2> QED
    BY <1>1 DEF IInv, Domains
<1>6. WorkHolds(c)'
  <2>1. CASE work = Idle
    <3> HIDE DEF work
    <3> QED
      BY <1>5, <2>1 DEF WorkHolds, Idle
  <2>2. CASE work = [proc[c] EXCEPT !.todo = proc[c].todo \ {s}]
    <3>1. work \in Job /\ work.op = "Cron" /\ work.todo = proc[c].todo \ {s}
      BY <1>2, <2>2, JobShorter
    <3> HIDE DEF work
    <3> QED
      BY <1>1, <1>2, <1>5, <3>1 DEF WorkHolds
  <2> QED
    BY <2>1, <2>2
<1>7. TxHolds(c)'
  BY <1>1 DEF TxHolds, NoTx
<1> HIDE DEF work
<1> QED
  BY <1>3, <1>4, <1>5, <1>6, <1>7, OneStep

-----------------------------------------------------------------------------

LEMMA ProceedStep ==
    ASSUME IInv, NEW p \in Processes, Proceed(p)
    PROVE  IInv'
BY InsertStep, EditStep, FailStep, SaveStep, MarkStep, EmptyStep, AnnounceStep,
   TallyStep, CommitStep DEF Proceed

\* An open transaction dies with its process; what is committed stays.
LEMMA DieStep ==
    ASSUME IInv, NEW p \in Processes, Die(p)
    PROVE  IInv'
<1>1. /\ proc' = [proc EXCEPT ![p] = Idle]
      /\ tx' = [tx EXCEPT ![p] = NoTx]
      /\ UNCHANGED <<expired, revealed, written, visible, score>>
  BY DEF Die, tables
<1>2. /\ Domains' /\ proc'[p] = Idle /\ tx'[p] = NoTx
      /\ \A q \in Processes \ {p} : proc'[q] = proc[q] /\ tx'[q] = tx[q]
  BY <1>1 DEF IInv, Domains
<1>3. WorkHolds(p)' /\ TxHolds(p)'
  BY <1>2 DEF WorkHolds, TxHolds, Idle, NoTx
<1> QED
  BY <1>1, <1>2, <1>3, TablesStay, OneStep

LEMMA ExpireStep ==
    ASSUME IInv, NEW s \in Sessions, Expire(s)
    PROVE  IInv'
<1>1. /\ expired' = expired \cup {s}
      /\ UNCHANGED <<revealed, written, visible, score, proc, tx>>
  BY DEF Expire, tables
<1>2. Grows /\ Tables' /\ Shown' /\ Counts(score, visible)' /\ Domains'
  BY <1>1 DEF IInv, Grows, Tables, Shown, BothIn, Counts, ReviewedIn, Domains
<1>3. \A q \in Processes : WorkHolds(q)' /\ TxHolds(q)'
  BY <1>1, <1>2, WorkStays, TxStays DEF IInv
<1> QED
  BY <1>2, <1>3 DEF IInv

LEMMA StutterStep ==
    ASSUME IInv, UNCHANGED vars
    PROVE  IInv'
<1>1. UNCHANGED <<expired, revealed, written, visible, score, proc, tx>>
  BY DEF vars, tables
<1>2. Domains' /\ \A q \in Processes : WorkHolds(q)' /\ TxHolds(q)'
  BY <1>1, TablesStay, WorkStays, TxStays DEF IInv, Domains
<1> QED
  BY <1>1, <1>2, TablesStay DEF IInv

LEMMA NextPreserves == IInv /\ [Next]_vars => IInv'
<1> SUFFICES ASSUME IInv, [Next]_vars PROVE IInv'
  OBVIOUS
<1>1. ASSUME NEW p \in Processes, Take(p) \/ Proceed(p) \/ StartJob(p) \/ Die(p)
      PROVE  IInv'
  BY <1>1, TakeStep, ProceedStep, JobStep, DieStep
<1>2. ASSUME NEW s \in Sessions, Expire(s)
      PROVE  IInv'
  BY <1>2, ExpireStep
<1>3. CASE UNCHANGED vars
  BY <1>3, StutterStep
<1> QED
  BY <1>1, <1>2, <1>3 DEF Next

LEMMA AlwaysIInv == Spec => []IInv
<1>1. Init => IInv
  BY InitEstablishes
<1>2. IInv /\ [Next]_vars => IInv'
  BY NextPreserves
<1> QED
  BY <1>1, <1>2, PTL DEF Spec

-----------------------------------------------------------------------------
(***************************************************************************)
(* The theorems.                                                           *)
(***************************************************************************)

\* Reviews are blind: for any sessions, requests and jobs, whatever their
\* interleaving and whichever die, nothing of a session shows, and the session
\* gets no date, before both sides have written or its 48 hours have passed
\* (SubmitReviewHandler and ReviewSchedulerService).
THEOREM AlwaysBlind == Spec => []BlindUntilDue
<1>1. IInv => BlindUntilDue
  <2> SUFFICES ASSUME IInv, NEW s \in revealed \cup {v[1] : v \in visible},
                      s \notin expired
               PROVE  {<<s, side>> : side \in Side} \subseteq written
    BY DEF BlindUntilDue
  <2>1. CASE s \in revealed
    <3>1. BothIn(s, visible) /\ visible \subseteq written
      BY <2>1 DEF IInv, Shown, Tables
    <3> QED
      BY <3>1 DEF BothIn, Side
  <2>2. CASE s \in {v[1] : v \in visible}
    <3>1. BothIn(s, written)
      BY <2>2 DEF IInv, Shown
    <3> QED
      BY <3>1 DEF BothIn, Side
  <2> QED
    BY <2>1, <2>2
<1> QED
  BY <1>1, AlwaysIInv, PTL

\* A review that nobody can see although its session is revealed came in when
\* the 48 hours had passed: a reveal before that hides nothing, whatever was
\* inserted while it ran.
THEOREM AlwaysShown == Spec => []HiddenOnlyLate
<1>1. IInv => HiddenOnlyLate
  <2> SUFFICES ASSUME IInv, NEW w \in written \ visible, w[1] \in revealed,
                      w[1] \notin expired
               PROVE  FALSE
    BY DEF HiddenOnlyLate
  <2>1. w \in Sessions \X Side
    BY DEF IInv, Tables
  <2>2. PICK s \in Sessions, side \in Side : w = <<s, side>>
    BY <2>1
  <2>3. BothIn(s, visible)
    BY <2>2 DEF IInv, Shown
  <2> QED
    BY <2>2, <2>3 DEF BothIn, Side
<1> QED
  BY <1>1, AlwaysIInv, PTL

\* The professional's reviewCount never exceeds the client reviews that show,
\* though handlers that load the aggregate write stale counts back.
THEOREM AlwaysCountsVisible == Spec => []CountsOnlyVisible
<1>1. IInv => CountsOnlyVisible
  BY DEF IInv, Counts, ReviewedIn, CountsOnlyVisible
<1> QED
  BY <1>1, AlwaysIInv, PTL

-----------------------------------------------------------------------------
(***************************************************************************)
(* Types.  A reveal gives its process a step of the kind of work it has,   *)
(* which is why the types need the invariant above: what is at a reveal is *)
(* a submission or a job.                                                  *)
(***************************************************************************)

Work == Submission \cup Edition \cup ProfileSave \cup Job \cup {Idle}
Rows == SUBSET (Sessions \X Side)

\* The sum of the stars and their number are natural numbers.
LEMMA TallyType ==
    ASSUME NEW rows
    PROVE  Tally(rows) \in Score
<1> DEFINE reviewed == {s \in Sessions : <<s, "CLIENT">> \in rows}
           given == {g \in reviewed \X Rating : g[2] <= stars[g[1]]}
<1>1. IsFiniteSet(reviewed)
  BY FS_Subset, ReviewAssumption
<1>2. IsFiniteSet(Rating)
  <2>1. Rating \in SUBSET Nat /\ \A n \in Rating : n <= 5
    BY DEF Rating
  <2> QED
    BY <2>1, FS_BoundedSetOfNaturals
<1>3. IsFiniteSet(given)
  <2>1. IsFiniteSet(reviewed \X Rating)
    BY <1>1, <1>2, FS_Product
  <2> QED
    BY <2>1, FS_Subset
<1>4. Tally(rows) = [sum |-> Cardinality(given), count |-> Cardinality(reviewed)]
  BY DEF Tally
<1> HIDE DEF given, reviewed
<1> QED
  BY <1>1, <1>3, <1>4, FS_CardinalityType DEF Score

\* The kinds of work are told apart by their operation.
LEMMA WorkKinds ==
    ASSUME TypeOK, NEW p \in Processes
    PROVE  /\ proc[p] \in Work
           /\ proc[p].op = "Submit" => proc[p] \in Submission
           /\ proc[p].op = "Edit" => proc[p] \in Edition
           /\ proc[p].op = "Save" => proc[p] \in ProfileSave
           /\ proc[p].op = "Cron" => proc[p] \in Job
BY DEF TypeOK, Work, Submission, Edition, ProfileSave, Job, Idle

\* And open transactions by their step.
LEMMA TxKinds ==
    ASSUME TypeOK, NEW p \in Processes, tx[p].step \in {"marked", "tallied"}
    PROVE  /\ tx[p].session \in Sessions
           /\ tx[p].rows \in Rows
           /\ tx[p].step = "tallied" => tx[p].tally \in Score
BY DEF TypeOK, Transaction, NoTx, Rows

\* It is enough to look at what a step changes.
LEMMA Typed ==
    ASSUME TypeOK, NEW p \in Processes, NEW work \in Work,
           NEW open \in Transaction \cup {NoTx},
           \/ proc' = [proc EXCEPT ![p] = work]
           \/ proc' = proc,
           \/ tx' = [tx EXCEPT ![p] = open]
           \/ tx' = tx,
           expired' \in SUBSET Sessions,
           revealed' \in SUBSET Sessions,
           {written', edited', visible'} \subseteq Rows,
           stars' \in [Sessions -> Stars \cup {0}],
           score' \in Score,
           announced' \in [Sessions -> Nat],
           deaths' \in 0..MaxDeaths,
           overlapped' \in BOOLEAN
    PROVE  TypeOK'
<1>1. /\ proc \in [Processes -> Work]
      /\ tx \in [Processes -> Transaction \cup {NoTx}]
  BY DEF TypeOK, Work
<1>2. proc' \in [Processes -> Work]
  BY <1>1
<1>3. tx' \in [Processes -> Transaction \cup {NoTx}]
  BY <1>1
<1> QED
  BY <1>2, <1>3 DEF TypeOK, Work, Rows

LEMMA InitType == Init => TypeOK
<1> SUFFICES ASSUME Init PROVE TypeOK
  OBVIOUS
<1>1. score \in Score /\ deaths \in 0..MaxDeaths
  BY ReviewAssumption DEF Init, NoScore, Score
<1>2. /\ proc \in [Processes -> {Idle}]
      /\ tx \in [Processes -> {NoTx}]
  BY DEF Init
<1>3. /\ proc \in [Processes ->
                    Submission \cup Edition \cup ProfileSave \cup Job \cup {Idle}]
      /\ tx \in [Processes -> Transaction \cup {NoTx}]
  BY <1>2
<1>4. /\ {written, edited, visible} \subseteq SUBSET (Sessions \X Side)
      /\ stars \in [Sessions -> Stars \cup {0}]
      /\ announced \in [Sessions -> Nat]
  BY DEF Init
<1> QED
  BY <1>1, <1>3, <1>4 DEF Init, TypeOK

\* A request or a job begins.
LEMMA StartType ==
    ASSUME TypeOK, NEW p \in Processes, NEW work \in Work, Start(p, work)
    PROVE  TypeOK'
<1>1. overlapped' \in BOOLEAN
  BY DEF Start, TypeOK
<1>2. NoTx \in Transaction \cup {NoTx}
  OBVIOUS
<1> QED
  BY <1>1, <1>2, Typed DEF Start, tables, TypeOK, Rows

\* What a process takes up.
LEMMA TakeType ==
    ASSUME TypeOK, NEW p \in Processes, Take(p) \/ StartJob(p)
    PROVE  TypeOK'
<1>1. ASSUME NEW s \in Sessions, NEW side \in Side, ReadToSubmit(p, s, side)
      PROVE  TypeOK'
  <2> DEFINE work == [op |-> "Submit", session |-> s, side |-> side,
                      both |-> <<s, Other(side)>> \in written, step |-> "insert"]
  <2>1. (<<s, Other(side)>> \in written) \in BOOLEAN
    OBVIOUS
  <2>2. work \in Work /\ Start(p, work)
    BY <1>1, <2>1 DEF ReadToSubmit, Work, Submission
  <2> HIDE DEF work
  <2> QED
    BY <2>2, StartType
<1>2. ASSUME NEW s \in Sessions, NEW side \in Side, ReadToEdit(p, s, side)
      PROVE  TypeOK'
  BY <1>2, StartType DEF ReadToEdit, Work, Edition
<1>3. CASE LoadProfile(p)
  <2>1. score \in Score
    BY DEF TypeOK
  <2> QED
    BY <1>3, <2>1, StartType DEF LoadProfile, Work, ProfileSave
<1>4. CASE StartJob(p)
  <2> DEFINE found == expired \ revealed
             none == {s \in found : \A side \in Side : <<s, side>> \notin written}
             work == [op |-> "Cron", todo |-> found, done |-> {}, empty |-> none]
  <2>1. found \in SUBSET Sessions /\ none \in SUBSET Sessions
    BY DEF TypeOK
  <2>2. Start(p, work)
    BY <1>4 DEF StartJob, JobOver
  <2> HIDE DEF found, none
  <2>3. work \in Work
    BY <2>1 DEF Work, Job
  <2> HIDE DEF work
  <2> QED
    BY <2>2, <2>3, StartType
<1> QED
  BY <1>1, <1>2, <1>3, <1>4 DEF Take

\* How a process goes on.
LEMMA ProceedType ==
    ASSUME TypeOK, IInv, NEW p \in Processes, Proceed(p)
    PROVE  TypeOK'
<1> USE DEF Rows
<1>1. /\ Idle \in Work
      /\ NoTx \in Transaction \cup {NoTx}
      /\ expired \in SUBSET Sessions
      /\ revealed \in SUBSET Sessions
      /\ {written, edited, visible} \subseteq Rows
      /\ stars \in [Sessions -> Stars \cup {0}]
      /\ score \in Score
      /\ announced \in [Sessions -> Nat]
      /\ deaths \in 0..MaxDeaths
      /\ overlapped \in BOOLEAN
  BY DEF TypeOK, Work
<1>2. ASSUME NEW n \in Stars, InsertReview(p, n)
      PROVE  TypeOK'
  <2> DEFINE work == IF proc[p].both THEN [proc[p] EXCEPT !.step = "reveal"] ELSE Idle
  <2>1. proc[p] \in Submission /\ proc[p].session \in Sessions /\ proc[p].side \in Side
    BY <1>2, WorkKinds DEF InsertReview, Submission
  <2>2. work \in Work
    BY <2>1 DEF Work, Submission
  <2>3. /\ written' \in Rows
        /\ stars' \in [Sessions -> Stars \cup {0}]
    BY <1>1, <1>2, <2>1 DEF InsertReview
  <2>4. /\ proc' = [proc EXCEPT ![p] = work]
        /\ UNCHANGED <<expired, announced, deaths, overlapped>>
        /\ UNCHANGED <<revealed, edited, visible, score, tx>>
    BY <1>2 DEF InsertReview, Continue
  <2> HIDE DEF work
  <2> QED
    BY <1>1, <2>2, <2>3, <2>4, Typed
<1>3. ASSUME NEW n \in Stars, WriteEdited(p, n)
      PROVE  TypeOK'
  <2>1. proc[p].session \in Sessions /\ proc[p].side \in Side
    BY <1>3, WorkKinds DEF WriteEdited, Edition
  <2>2. /\ edited' \in Rows
        /\ stars' \in [Sessions -> Stars \cup {0}]
    BY <1>1, <1>3, <2>1 DEF WriteEdited
  <2> QED
    BY <1>1, <1>3, <2>2, Typed DEF WriteEdited, Continue
<1>4. CASE FailToInsert(p)
  BY <1>1, <1>4, Typed DEF FailToInsert, Continue, tables
<1>5. CASE SaveProfile(p)
  <2>1. proc[p].seen \in Score
    BY <1>5, WorkKinds DEF SaveProfile, ProfileSave
  <2> QED
    BY <1>1, <1>5, <2>1, Typed DEF SaveProfile, Continue
<1>6. ASSUME NEW s \in Sessions, MarkVisible(p, s)
      PROVE  TypeOK'
  <2> DEFINE rows == {w \in written : w[1] = s}
             open == [step |-> "marked", session |-> s, rows |-> rows]
  <2>1. rows \in Rows
    BY <1>1
  <2>2. /\ tx' = [tx EXCEPT ![p] = open]
        /\ UNCHANGED <<expired, tables, proc, announced, deaths, overlapped>>
    BY <1>6 DEF MarkVisible
  <2> HIDE DEF rows
  <2>3. open \in Transaction \cup {NoTx}
    BY <2>1 DEF Transaction
  <2> HIDE DEF open
  <2> QED
    BY <1>1, <2>2, <2>3, Typed DEF tables
<1>7. CASE TallyVisible(p)
  <2> DEFINE total == Tally(visible \cup tx[p].rows)
             open == [step |-> "tallied", session |-> tx[p].session,
                      rows |-> tx[p].rows, tally |-> total]
  <2>1. total \in Score
    BY TallyType
  <2>2. tx[p].session \in Sessions /\ tx[p].rows \in Rows
    BY <1>7, TxKinds DEF TallyVisible
  <2>3. /\ tx' = [tx EXCEPT ![p] = open]
        /\ UNCHANGED <<expired, tables, proc, announced, deaths, overlapped>>
    BY <1>7 DEF TallyVisible
  <2> HIDE DEF total
  <2>4. open \in Transaction \cup {NoTx}
    BY <2>1, <2>2 DEF Transaction
  <2> HIDE DEF open
  <2> QED
    BY <1>1, <2>3, <2>4, Typed DEF tables
<1>8. CASE CommitReveal(p)
  <2> DEFINE s == tx[p].session
             work == Revealed(proc[p], s)
  <2>1. /\ s \in Sessions
        /\ tx[p].rows \in Rows
        /\ tx[p].tally \in Score
        /\ AtReveal(p, s)
    BY <1>8, TxKinds DEF CommitReveal, IInv, TxHolds
  <2>2. work \in Work
    <3> HIDE DEF s
    <3>1. CASE proc[p].op = "Submit"
      BY <3>1, WorkKinds DEF Revealed, Work, Submission
    <3>2. CASE proc[p].op = "Cron"
      <4>1. proc[p] \in Job
        BY <3>2, WorkKinds
      <4>2. work = [proc[p] EXCEPT !.todo = proc[p].todo \ {s}, !.done = {s}]
        BY <3>2 DEF Revealed
      <4> HIDE DEF work
      <4> QED
        BY <2>1, <4>1, <4>2, JobRevealed DEF Work
    <3> QED
      BY <2>1, <3>1, <3>2 DEF AtReveal
  <2>3. /\ visible' \in Rows
        /\ revealed' \in SUBSET Sessions
    BY <1>1, <1>8, <2>1 DEF CommitReveal
  <2>4. /\ proc' = [proc EXCEPT ![p] = work]
        /\ tx' = [tx EXCEPT ![p] = NoTx]
        /\ score' = tx[p].tally
        /\ UNCHANGED <<expired, announced, deaths, overlapped>>
        /\ UNCHANGED <<written, edited, stars>>
    BY <1>8 DEF CommitReveal, Continue
  <2> HIDE DEF work
  <2> QED
    BY <1>1, <2>1, <2>2, <2>3, <2>4, Typed
<1>9. ASSUME NEW s \in Sessions, Announce(p, s)
      PROVE  TypeOK'
  <2> DEFINE work == IF proc[p].op = "Submit" \/ proc[p].todo = {} THEN Idle
                     ELSE [proc[p] EXCEPT !.done = {}]
  <2>1. work \in Work
    <3>1. CASE proc[p].op = "Submit"
      BY <1>1, <3>1
    <3>2. CASE proc[p].op = "Cron"
      BY <1>1, <3>2, WorkKinds, JobAnnounced DEF Work
    <3> QED
      BY <1>9, <3>1, <3>2 DEF Announce
  <2>2. /\ announced' \in [Sessions -> Nat]
        /\ proc' = [proc EXCEPT ![p] = work]
        /\ UNCHANGED <<expired, tables, tx, deaths, overlapped>>
    BY <1>1, <1>9 DEF Announce
  <2> HIDE DEF work
  <2> QED
    BY <1>1, <2>1, <2>2, Typed DEF tables
<1>10. ASSUME NEW s \in Sessions, RevealEmpty(p, s)
       PROVE  TypeOK'
  <2> DEFINE work == IF proc[p].todo = {s} THEN Idle
                     ELSE [proc[p] EXCEPT !.todo = proc[p].todo \ {s}]
  <2>1. work \in Work
    BY <1>1, <1>10, WorkKinds, JobShorter DEF RevealEmpty, Work
  <2>2. /\ revealed' \in SUBSET Sessions
        /\ proc' = [proc EXCEPT ![p] = work]
        /\ UNCHANGED <<expired, announced, deaths, overlapped>>
        /\ UNCHANGED <<written, edited, visible, stars, score, tx>>
    BY <1>1, <1>10 DEF RevealEmpty, Continue
  <2> HIDE DEF work
  <2> QED
    BY <1>1, <2>1, <2>2, Typed
<1> QED
  BY <1>2, <1>3, <1>4, <1>5, <1>6, <1>7, <1>8, <1>9, <1>10 DEF Proceed

\* Every step keeps the types.
LEMMA StepType ==
    ASSUME TypeOK, IInv, [Next]_vars
    PROVE  TypeOK'
<1>1. ASSUME NEW p \in Processes, Die(p)
      PROVE  TypeOK'
  <2>1. Idle \in Work /\ NoTx \in Transaction \cup {NoTx}
    BY DEF Work
  <2>2. deaths' \in 0..MaxDeaths
    BY <1>1, ReviewAssumption DEF Die, TypeOK
  <2> QED
    BY <1>1, <2>1, <2>2, Typed DEF Die, tables, TypeOK, Rows
<1>2. ASSUME NEW s \in Sessions, Expire(s)
      PROVE  TypeOK'
  <2>1. expired' \in SUBSET Sessions
    BY <1>2 DEF Expire, TypeOK
  <2> QED
    BY <1>2, <2>1 DEF Expire, tables, TypeOK
<1>3. CASE UNCHANGED vars
  BY <1>3 DEF vars, tables, TypeOK
<1> QED
  BY <1>1, <1>2, <1>3, TakeType, ProceedType DEF Next

\* A score, in the table, in a handler's memory or in an open transaction, is a
\* sum and a count; a job and a submission stay what they are at every step.
THEOREM TypeCorrect == Spec => []TypeOK
<1>1. TypeOK /\ IInv /\ [Next]_vars => TypeOK' /\ IInv'
  BY StepType, NextPreserves
<1> QED
  BY <1>1, InitType, InitEstablishes, PTL DEF Spec

-----------------------------------------------------------------------------
(***************************************************************************)
(* One request or job at a time: until two overlap, what one reads stays   *)
(* true until it ends, whatever dies and whatever expires meanwhile.       *)
(***************************************************************************)

\* Tally, of any rows with any stars.
Total(rows, given) ==
    LET reviewed == {s \in Sessions : <<s, "CLIENT">> \in rows}
    IN  [sum |-> Cardinality({g \in reviewed \X Rating : g[2] <= given[g[1]]}),
         count |-> Cardinality(reviewed)]

LEMMA TallyIsTotal == \A rows : Tally(rows) = Total(rows, stars)
BY DEF Tally, Total

\* The stars of a review that is not among the rows do not count.
LEMMA TotalAgrees ==
    ASSUME NEW rows, NEW given, NEW changed,
           \A s \in Sessions : <<s, "CLIENT">> \in rows => changed[s] = given[s]
    PROVE  Total(rows, changed) = Total(rows, given)
<1> DEFINE reviewed == {s \in Sessions : <<s, "CLIENT">> \in rows}
<1>1. \A g \in reviewed \X Rating : g[2] <= changed[g[1]] <=> g[2] <= given[g[1]]
  OBVIOUS
<1>2. {g \in reviewed \X Rating : g[2] <= changed[g[1]]}
        = {g \in reviewed \X Rating : g[2] <= given[g[1]]}
  BY <1>1
<1> QED
  BY <1>2 DEF Total

Alone == \A p, q \in Busy : p = q

\* The rating is that of what shows, and what is revealed shows and is announced
\* once, or not yet.
Settled ==
    /\ score = Total(visible, stars)
    /\ \A w \in written : w[1] \in revealed => w \in visible
    /\ \A s \in Sessions : announced[s] <= 1 /\ (announced[s] > 0 => s \in revealed)

\* What a process holds in memory, or in its transaction, is what the tables say.
Fresh(p) ==
    /\ proc[p].op = "Submit" =>
        /\ proc[p].step = "announce" => /\ proc[p].session \in revealed
                                        /\ announced[proc[p].session] = 0
        /\ proc[p].step # "announce" => proc[p].session \notin revealed
    /\ proc[p].op = "Edit" => <<proc[p].session, proc[p].side>> \notin visible
    /\ proc[p].op = "Save" => proc[p].seen = score
    /\ proc[p].op = "Cron" =>
        /\ \A s \in proc[p].todo : s \notin revealed
        /\ \A s \in proc[p].done : s \in revealed /\ announced[s] = 0
        /\ \A w \in written : w[1] \notin proc[p].empty
    /\ tx[p].step # "none" => tx[p].rows = {w \in written : w[1] = tx[p].session}
    /\ tx[p].step = "tallied" => tx[p].tally = Total(visible \cup tx[p].rows, stars)

OneAtATime == ~overlapped => Alone /\ Settled /\ \A p \in Processes : Fresh(p)

SerialInv == TypeOK /\ IInv /\ OneAtATime

\* The one at work is alone.
LEMMA OthersIdle ==
    ASSUME OneAtATime, ~overlapped, NEW p \in Processes, proc[p] # Idle
    PROVE  /\ \A q \in Processes \ {p} : proc[q] = Idle
           /\ Settled
           /\ Fresh(p)
BY DEF OneAtATime, Alone, Busy

\* A process that is idle after a step holds nothing.
LEMMA IdleIsFresh ==
    ASSUME IInv', NEW p \in Processes, proc'[p] = Idle
    PROVE  Fresh(p)'
<1>1. \A s \in Sessions : ~AtReveal(p, s)'
  BY DEF AtReveal, Idle
<1>2. tx'[p].step = "none"
  BY <1>1 DEF IInv, TxHolds
<1> QED
  BY <1>2 DEF Fresh, Idle

\* It is enough to look at the one at work.
LEMMA OneAtWork ==
    ASSUME IInv', NEW p \in Processes,
           \A q \in Processes \ {p} : proc'[q] = Idle, Settled', Fresh(p)'
    PROVE  OneAtATime'
<1>1. \A q \in Processes : Fresh(q)'
  BY IdleIsFresh
<1>2. Alone'
  BY DEF Alone, Busy
<1> QED
  BY <1>1, <1>2 DEF OneAtATime

\* A step that leaves alone the tables and what was announced.
LEMMA SettledStays ==
    ASSUME Settled, UNCHANGED <<revealed, written, visible, stars, score, announced>>
    PROVE  Settled'
BY DEF Settled

\* What is not yet revealed was not announced.
LEMMA NotAnnounced ==
    ASSUME TypeOK, Settled, NEW s \in Sessions \ revealed
    PROVE  announced[s] = 0
BY DEF TypeOK, Settled

\* A process that takes up a request or a job, while no other is at work.
LEMMA StartAlone ==
    ASSUME SerialInv, IInv', NEW p \in Processes, NEW work, Start(p, work), ~overlapped'
    PROVE  /\ proc'[p] = work
           /\ tx'[p].step = "none"
           /\ UNCHANGED <<expired, tables, announced>>
           /\ Fresh(p)' => OneAtATime'
<1>1. /\ ~overlapped
      /\ Busy = {}
      /\ proc[p] = Idle
      /\ proc' = [proc EXCEPT ![p] = work]
      /\ UNCHANGED <<expired, tables, tx, announced>>
  BY DEF Start
<1>2. /\ proc'[p] = work
      /\ \A q \in Processes \ {p} : proc'[q] = proc[q]
  BY <1>1 DEF SerialInv, TypeOK
<1>3. \A q \in Processes : proc[q] = Idle
  BY <1>1 DEF Busy
<1>4. tx[p].step = "none"
  <2>1. \A s \in Sessions : ~AtReveal(p, s)
    BY <1>1 DEF AtReveal, Idle
  <2> QED
    BY <2>1, NoTxElsewhere DEF SerialInv
<1>5. Settled'
  BY <1>1, SettledStays DEF SerialInv, OneAtATime, tables
<1> QED
  BY <1>1, <1>2, <1>3, <1>4, <1>5, OneAtWork

\* What it reads is what the tables say.
LEMMA TakeAlone ==
    ASSUME SerialInv, IInv', NEW p \in Processes, Take(p) \/ StartJob(p), ~overlapped'
    PROVE  OneAtATime'
<1>1. ASSUME NEW s \in Sessions, NEW side \in Side, ReadToSubmit(p, s, side)
      PROVE  OneAtATime'
  <2> DEFINE work == [op |-> "Submit", session |-> s, side |-> side,
                      both |-> <<s, Other(side)>> \in written, step |-> "insert"]
  <2>1. Start(p, work) /\ s \notin revealed
    BY <1>1 DEF ReadToSubmit
  <2>2. work.op = "Submit" /\ work.step = "insert" /\ work.session = s
    OBVIOUS
  <2> HIDE DEF work
  <2>3. proc'[p] = work /\ tx'[p].step = "none" /\ revealed' = revealed
    BY <2>1, StartAlone DEF tables
  <2>4. Fresh(p)'
    BY <2>1, <2>2, <2>3 DEF Fresh
  <2> QED
    BY <2>1, <2>4, StartAlone
<1>2. ASSUME NEW s \in Sessions, NEW side \in Side, ReadToEdit(p, s, side)
      PROVE  OneAtATime'
  <2> DEFINE work == [op |-> "Edit", session |-> s, side |-> side]
  <2>1. Start(p, work) /\ <<s, side>> \notin visible
    BY <1>2 DEF ReadToEdit
  <2>2. work.op = "Edit" /\ work.session = s /\ work.side = side
    OBVIOUS
  <2> HIDE DEF work
  <2>3. proc'[p] = work /\ tx'[p].step = "none" /\ visible' = visible
    BY <2>1, StartAlone DEF tables
  <2>4. Fresh(p)'
    BY <2>1, <2>2, <2>3 DEF Fresh
  <2> QED
    BY <2>1, <2>4, StartAlone
<1>3. CASE LoadProfile(p)
  <2> DEFINE work == [op |-> "Save", seen |-> score]
  <2>1. Start(p, work)
    BY <1>3 DEF LoadProfile
  <2>2. work.op = "Save" /\ work.seen = score
    OBVIOUS
  <2> HIDE DEF work
  <2>3. proc'[p] = work /\ tx'[p].step = "none" /\ score' = score
    BY <2>1, StartAlone DEF tables
  <2>4. Fresh(p)'
    BY <2>2, <2>3 DEF Fresh
  <2> QED
    BY <2>1, <2>4, StartAlone
<1>4. CASE StartJob(p)
  <2> DEFINE found == expired \ revealed
             none == {s \in found : \A side \in Side : <<s, side>> \notin written}
             work == [op |-> "Cron", todo |-> found, done |-> {}, empty |-> none]
  <2>1. Start(p, work)
    BY <1>4 DEF StartJob, JobOver
  <2>2. work.op = "Cron" /\ work.todo = found /\ work.done = {} /\ work.empty = none
    OBVIOUS
  <2>3. \A w \in written : w[1] \notin none
    BY DEF SerialInv, TypeOK
  <2> HIDE DEF work
  <2>4. proc'[p] = work /\ tx'[p].step = "none" /\ revealed' = revealed /\ written' = written
    BY <2>1, StartAlone DEF tables
  <2>5. Fresh(p)'
    BY <2>2, <2>3, <2>4 DEF Fresh
  <2> QED
    BY <2>1, <2>5, StartAlone
<1> QED
  BY <1>1, <1>2, <1>3, <1>4 DEF Take

\* What it writes is what they will say.
LEMMA ProceedAlone ==
    ASSUME SerialInv, IInv', NEW p \in Processes, Proceed(p), ~overlapped'
    PROVE  OneAtATime'
<1>1. /\ TypeOK
      /\ proc \in [Processes -> Work]
      /\ tx \in [Processes -> Transaction \cup {NoTx}]
      /\ stars \in [Sessions -> Stars \cup {0}]
      /\ visible \subseteq written /\ written \subseteq Sessions \X Side
  BY DEF SerialInv, TypeOK, Work, IInv, Tables
<1>2. /\ ~overlapped
      /\ proc[p] # Idle
      /\ \A q \in Processes \ {p} : proc'[q] = proc[q]
  <2>1. /\ overlapped' = overlapped
        /\ \A q \in Processes \ {p} : proc'[q] = proc[q]
    BY <1>1 DEF Proceed, InsertReview, WriteEdited, FailToInsert, SaveProfile, MarkVisible,
                RevealEmpty, Announce, TallyVisible, CommitReveal, Continue
  <2>2. ASSUME proc[p] = Idle PROVE FALSE
    <3>1. proc[p].op = "Idle" /\ \A s \in Sessions : ~AtReveal(p, s)
      BY <2>2 DEF AtReveal, Idle
    <3>2. tx[p].step = "none"
      BY <3>1, NoTxElsewhere DEF SerialInv
    <3> QED
      BY <3>1, <3>2 DEF Proceed, InsertReview, WriteEdited, FailToInsert, SaveProfile,
                        MarkVisible, RevealEmpty, Announce, TallyVisible, CommitReveal
  <2> QED
    BY <2>1, <2>2
<1>3. Settled /\ Fresh(p)
  BY <1>2, OthersIdle DEF SerialInv
<1>4. ASSUME Settled', Fresh(p)' PROVE OneAtATime'
  BY <1>2, <1>4, OthersIdle, OneAtWork DEF SerialInv
<1>5. ASSUME Settled', proc' = [proc EXCEPT ![p] = Idle] PROVE OneAtATime'
  BY <1>1, <1>4, <1>5, IdleIsFresh
<1>6. ASSUME \A s \in Sessions : ~AtReveal(p, s), tx' = tx PROVE tx'[p].step = "none"
  BY <1>6, NoTxElsewhere DEF SerialInv
<1>7. ASSUME NEW n \in Stars, InsertReview(p, n)
      PROVE  OneAtATime'
  <2> DEFINE s == proc[p].session
             side == proc[p].side
             work == IF proc[p].both THEN [proc[p] EXCEPT !.step = "reveal"] ELSE Idle
  <2>1. /\ proc[p].op = "Submit"
        /\ proc[p].step = "insert"
        /\ <<s, side>> \notin written
        /\ written' = written \cup {<<s, side>>}
        /\ stars' = IF side = "CLIENT" THEN [stars EXCEPT ![s] = n] ELSE stars
        /\ proc' = [proc EXCEPT ![p] = work]
        /\ UNCHANGED <<revealed, visible, score, tx, announced>>
    BY <1>7 DEF InsertReview, Continue
  <2>2. proc[p] \in Submission /\ s \notin revealed
    BY <1>1, <1>3, <2>1, WorkKinds DEF Fresh
  <2>3. Total(visible, stars') = Total(visible, stars)
    <3>1. \A t \in Sessions : <<t, "CLIENT">> \in visible => stars'[t] = stars[t]
      BY <1>1, <2>1
    <3> QED
      BY <3>1, TotalAgrees
  <2>4. Settled'
    BY <1>3, <2>1, <2>2, <2>3 DEF Settled
  <2>5. CASE work = Idle
    BY <1>5, <2>1, <2>4, <2>5
  <2>6. CASE work = [proc[p] EXCEPT !.step = "reveal"]
    <3>1. /\ proc'[p] = work
          /\ work.op = "Submit" /\ work.step = "reveal" /\ work.session = s
      BY <1>1, <2>1, <2>2, <2>6 DEF Submission
    <3>2. tx'[p].step = "none"
      BY <1>6, <2>1 DEF AtReveal
    <3> HIDE DEF work, s
    <3>3. Fresh(p)'
      BY <2>1, <2>2, <3>1, <3>2 DEF Fresh
    <3> QED
      BY <1>4, <2>4, <3>3
  <2> QED
    BY <2>5, <2>6
<1>8. ASSUME NEW n \in Stars, WriteEdited(p, n)
      PROVE  OneAtATime'
  <2> DEFINE s == proc[p].session
             side == proc[p].side
  <2>1. /\ proc[p].op = "Edit"
        /\ stars' = IF side = "CLIENT" THEN [stars EXCEPT ![s] = n] ELSE stars
        /\ proc' = [proc EXCEPT ![p] = Idle]
        /\ UNCHANGED <<revealed, written, visible, score, announced>>
    BY <1>8 DEF WriteEdited, Continue
  <2>2. <<s, side>> \notin visible
    BY <1>3, <2>1 DEF Fresh
  <2>3. Total(visible, stars') = Total(visible, stars)
    <3>1. \A t \in Sessions : <<t, "CLIENT">> \in visible => stars'[t] = stars[t]
      BY <1>1, <2>1, <2>2
    <3> QED
      BY <3>1, TotalAgrees
  <2>4. Settled'
    BY <1>3, <2>1, <2>3 DEF Settled
  <2> QED
    BY <1>5, <2>1, <2>4
<1>9. CASE FailToInsert(p)
  BY <1>3, <1>5, <1>9, SettledStays DEF FailToInsert, Continue, tables
<1>10. CASE SaveProfile(p)
  BY <1>3, <1>5, <1>10, SettledStays DEF SaveProfile, Continue, Fresh
<1>11. ASSUME NEW s \in Sessions, MarkVisible(p, s)
       PROVE  OneAtATime'
  <2>1. /\ tx'[p].step = "marked"
        /\ tx'[p].session = s
        /\ tx'[p].rows = {w \in written : w[1] = s}
        /\ UNCHANGED <<expired, tables, proc, announced>>
    BY <1>1, <1>11 DEF MarkVisible
  <2>2. Settled' /\ Fresh(p)'
    BY <1>3, <2>1, SettledStays DEF tables, Fresh
  <2> QED
    BY <1>4, <2>2
<1>12. CASE TallyVisible(p)
  <2>1. /\ tx[p].step = "marked"
        /\ tx'[p].step = "tallied"
        /\ tx'[p].session = tx[p].session
        /\ tx'[p].rows = tx[p].rows
        /\ tx'[p].tally = Total(visible \cup tx[p].rows, stars)
        /\ UNCHANGED <<expired, tables, proc, announced>>
    BY <1>1, <1>12, TallyIsTotal DEF TallyVisible
  <2>2. Settled' /\ Fresh(p)'
    BY <1>3, <2>1, SettledStays DEF tables, Fresh
  <2> QED
    BY <1>4, <2>2
<1>13. CASE CommitReveal(p)
  <2> DEFINE s == tx[p].session
             rows == tx[p].rows
             work == Revealed(proc[p], s)
  <2>1. /\ tx[p].step = "tallied"
        /\ visible' = visible \cup rows
        /\ revealed' = revealed \cup {s}
        /\ score' = tx[p].tally
        /\ tx'[p].step = "none"
        /\ proc'[p] = work
        /\ UNCHANGED <<written, stars, announced>>
    <3> HIDE DEF work
    <3> QED
      BY <1>1, <1>13 DEF CommitReveal, Continue, NoTx, work
  <2>2. /\ s \in Sessions
        /\ AtReveal(p, s)
        /\ rows = {w \in written : w[1] = s}
        /\ tx[p].tally = Total(visible \cup rows, stars)
    BY <1>3, <2>1 DEF SerialInv, IInv, TxHolds, Fresh
  <2>3. s \notin revealed
    BY <1>3, <2>2 DEF Fresh, AtReveal
  <2>4. announced[s] = 0
    BY <1>1, <1>3, <2>2, <2>3, NotAnnounced
  <2>5. Settled'
    BY <1>3, <2>1, <2>2 DEF Settled
  <2>6. CASE proc[p].op = "Submit"
    <3>1. /\ proc[p] \in Submission /\ proc[p].session = s
          /\ work = [proc[p] EXCEPT !.step = "announce"]
      BY <1>1, <2>2, <2>6, WorkKinds DEF AtReveal, Revealed
    <3>2. work.op = "Submit" /\ work.step = "announce" /\ work.session = s
      BY <3>1 DEF Submission
    <3> HIDE DEF work, s
    <3>3. Fresh(p)'
      BY <2>1, <2>4, <3>2 DEF Fresh
    <3> QED
      BY <1>4, <2>5, <3>3
  <2>7. CASE proc[p].op = "Cron"
    <3>1. proc[p] \in Job
      BY <1>1, <2>7, WorkKinds
    <3>2. /\ work.op = "Cron" /\ work.todo = proc[p].todo \ {s}
          /\ work.done = {s} /\ work.empty = proc[p].empty
      BY <2>7, <3>1 DEF Revealed, Job
    <3> HIDE DEF work, s
    <3>3. Fresh(p)'
      BY <1>3, <2>1, <2>4, <2>7, <3>2 DEF Fresh
    <3> QED
      BY <1>4, <2>5, <3>3
  <2> QED
    BY <2>2, <2>6, <2>7 DEF AtReveal
<1>14. ASSUME NEW s \in Sessions, Announce(p, s)
       PROVE  OneAtATime'
  <2> DEFINE work == IF proc[p].op = "Submit" \/ proc[p].todo = {} THEN Idle
                     ELSE [proc[p] EXCEPT !.done = {}]
  <2>1. /\ \/ proc[p].op = "Submit" /\ proc[p].step = "announce" /\ proc[p].session = s
           \/ proc[p].op = "Cron" /\ s \in proc[p].done
        /\ announced' = [announced EXCEPT ![s] = @ + 1]
        /\ proc' = [proc EXCEPT ![p] = work]
        /\ UNCHANGED <<expired, tables, tx>>
    BY <1>14 DEF Announce
  <2>2. s \in revealed /\ announced[s] = 0
    BY <1>3, <2>1 DEF Fresh
  <2>3. \A t \in Sessions : announced'[t] = IF t = s THEN 1 ELSE announced[t]
    BY <1>1, <2>1, <2>2 DEF TypeOK
  <2>4. Settled'
    BY <1>3, <2>1, <2>2, <2>3 DEF Settled, tables
  <2>5. CASE work = Idle
    BY <1>5, <2>1, <2>4, <2>5
  <2>6. CASE proc[p].op = "Cron" /\ work = [proc[p] EXCEPT !.done = {}]
    <3>1. proc[p] \in Job
      BY <1>1, <2>6, WorkKinds
    <3>2. /\ proc'[p] = work
          /\ work.op = "Cron" /\ work.todo = proc[p].todo
          /\ work.done = {} /\ work.empty = proc[p].empty
      BY <1>1, <2>1, <2>6, <3>1 DEF Job
    <3>3. tx'[p].step = "none"
      BY <1>6, <2>1 DEF AtReveal
    <3> HIDE DEF work
    <3>4. Fresh(p)'
      BY <1>3, <2>1, <2>6, <3>2, <3>3 DEF Fresh, tables
    <3> QED
      BY <1>4, <2>4, <3>4
  <2> QED
    BY <2>1, <2>5, <2>6
<1>15. ASSUME NEW s \in Sessions, RevealEmpty(p, s)
       PROVE  OneAtATime'
  <2> DEFINE work == IF proc[p].todo = {s} THEN Idle
                     ELSE [proc[p] EXCEPT !.todo = proc[p].todo \ {s}]
  <2>1. /\ proc[p].op = "Cron"
        /\ proc[p].done = {}
        /\ s \in proc[p].todo \cap proc[p].empty
        /\ tx[p] = NoTx
        /\ revealed' = revealed \cup {s}
        /\ proc' = [proc EXCEPT ![p] = work]
        /\ UNCHANGED <<written, visible, stars, score, tx, announced>>
    BY <1>15 DEF RevealEmpty, Continue
  <2>2. \A w \in written : w[1] # s
    BY <1>3, <2>1 DEF Fresh
  <2>3. Settled'
    BY <1>3, <2>1, <2>2 DEF Settled
  <2>4. CASE work = Idle
    BY <1>5, <2>1, <2>3, <2>4
  <2>5. CASE work = [proc[p] EXCEPT !.todo = proc[p].todo \ {s}]
    <3>1. proc[p] \in Job
      BY <1>1, <2>1, WorkKinds
    <3>2. /\ proc'[p] = work
          /\ work.op = "Cron" /\ work.todo = proc[p].todo \ {s}
          /\ work.done = {} /\ work.empty = proc[p].empty
      BY <1>1, <2>1, <2>5, <3>1 DEF Job
    <3> HIDE DEF work
    <3>3. Fresh(p)'
      BY <1>3, <2>1, <3>2 DEF Fresh, NoTx
    <3> QED
      BY <1>4, <2>3, <3>3
  <2> QED
    BY <2>4, <2>5
<1> QED
  BY <1>7, <1>8, <1>9, <1>10, <1>11, <1>12, <1>13, <1>14, <1>15 DEF Proceed

\* Every step keeps the invariant; what dies or expires changes nothing of it.
LEMMA SerialStep ==
    ASSUME SerialInv, [Next]_vars
    PROVE  SerialInv'
<1>1. TypeOK' /\ IInv'
  BY StepType, NextPreserves DEF SerialInv
<1>2. SUFFICES ASSUME ~overlapped' PROVE OneAtATime'
  BY <1>1 DEF SerialInv, OneAtATime
<1>3. ASSUME NEW p \in Processes, Take(p) \/ Proceed(p) \/ StartJob(p)
      PROVE  OneAtATime'
  BY <1>1, <1>2, <1>3, TakeAlone, ProceedAlone
<1>4. ASSUME NEW p \in Processes, Die(p)
      PROVE  OneAtATime'
  <2>1. /\ ~overlapped
        /\ proc[p] # Idle
        /\ \A q \in Processes \ {p} : proc'[q] = proc[q]
        /\ proc'[p] = Idle
        /\ UNCHANGED <<revealed, written, visible, stars, score, announced>>
    BY <1>2, <1>4 DEF Die, tables, SerialInv, TypeOK
  <2>2. Settled' /\ Fresh(p)'
    BY <1>1, <2>1, OthersIdle, SettledStays, IdleIsFresh DEF SerialInv
  <2> QED
    BY <1>1, <2>1, <2>2, OthersIdle, OneAtWork DEF SerialInv
<1>5. ASSUME UNCHANGED <<tables, proc, tx, announced, overlapped>>
      PROVE  OneAtATime'
  <2>1. Alone /\ Settled /\ \A p \in Processes : Fresh(p)
    BY <1>2, <1>5 DEF SerialInv, OneAtATime
  <2>2. Settled'
    BY <1>5, <2>1, SettledStays DEF tables
  <2>3. Alone' /\ \A p \in Processes : Fresh(p)'
    BY <1>5, <2>1 DEF Alone, Busy, Fresh, tables
  <2> QED
    BY <2>2, <2>3 DEF OneAtATime
<1> QED
  BY <1>3, <1>4, <1>5 DEF Next, Expire, vars

\* Nothing is written, counted or announced at first.
LEMMA InitSerial == Init => SerialInv
<1> SUFFICES ASSUME Init PROVE SerialInv
  OBVIOUS
<1>1. /\ TypeOK /\ IInv
      /\ \A p \in Processes : proc[p] = Idle /\ tx[p] = NoTx
  BY InitType, InitEstablishes DEF Init
<1>2. Total({}, stars) = NoScore
  <2>1. Total({}, stars) = [sum |-> Cardinality({}), count |-> Cardinality({})]
    BY DEF Total
  <2> QED
    BY <2>1, FS_EmptySet DEF NoScore
<1>3. Alone /\ Settled
  BY <1>1, <1>2 DEF Init, Alone, Busy, Settled
<1>4. \A p \in Processes : Fresh(p)
  BY <1>1 DEF Fresh, Idle, NoTx
<1> QED
  BY <1>1, <1>3, <1>4 DEF SerialInv, OneAtATime

\* Until one request or job begins while another is at work, and wherever one dies:
\* between them the rating and the count are those of the reviews that show, nothing
\* of a revealed session is hidden, and a reveal is announced at most once.
THEOREM AlwaysSerialReveal == Spec => []SerialReveal
<1>1. SerialInv => SerialReveal
  BY TallyIsTotal
     DEF SerialInv, OneAtATime, Settled, SerialReveal, SerialScore, SerialNothingHidden,
         SerialAnnouncedOnce, AtRest
<1>2. SerialInv /\ [Next]_vars => SerialInv'
  BY SerialStep
<1> QED
  BY <1>1, <1>2, InitSerial, PTL DEF Spec
=============================================================================
