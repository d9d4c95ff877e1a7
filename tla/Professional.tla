----------------------------- MODULE Professional -----------------------------
(***************************************************************************)
(* The aggregate of one professional: its status, its pauses, and as much  *)
(* of the profile as the jobs look at.                                     *)
(*                                                                         *)
(* A handler loads the aggregate, changes it in memory and saves it whole; *)
(* the three jobs do the same with what their query returned; the          *)
(* eligibility refresh reads and updates two columns.  Any of them may run *)
(* between the read and the write of another.                              *)
(*                                                                         *)
(* Time is a clock from the registration on.                               *)
(***************************************************************************)
EXTENDS Naturals, FiniteSets

CONSTANTS
    Slots,          \* requests, and jobs of other processes, in flight together
    Ops,            \* the operations they ask for
    Jobs,           \* the jobs of the scheduler, which every process runs
    Dates,          \* the dates a pause may last until
    Grace,          \* the 72 hours an incomplete profile is left alone
    Horizon,        \* bound on the clock
    MaxInFlight     \* bound on the requests and jobs at work together

StatusOp == {"Verify", "Reject", "Resubmit", "Suspend", "Reactivate"}
PauseOp == {"Pause", "PauseUntil", "Resume"}
ProfileOp == {"UpdateProfile", "SetPrimaryImage", "SetAvailability",
              "RemoveAvailability", "Edit"}
Job == {"autoVerify", "autoReject", "reactivatePauses"}

ASSUME ProfessionalAssumption ==
    /\ Ops \subseteq StatusOp \cup PauseOp \cup ProfileOp
    /\ Jobs \subseteq Job
    /\ Slots \cap Jobs = {}
    /\ Dates \subseteq Nat \ {0}
    /\ Grace \in Nat /\ Horizon \in Nat
    /\ MaxInFlight \in Nat

Processes == Slots \cup Jobs

VARIABLES
    now,            \* the clock
    pro,            \* the professional's row, and what there is beside it
    proc            \* what each request and job is doing

vars == <<now, pro, proc>>

-----------------------------------------------------------------------------

ProfessionalStatus == {"PENDING", "ACTIVE", "SUSPENDED", "REJECTED"}

\* bookingsPausedUntil is 0 for null.  The profile is "filled" when nothing is missing
\* of agency name, image, bio, category and active service, "blank" when only the
\* bio is an empty text; there is a day of availability, or none.
Profile == {"empty", "blank", "filled"}
Aggregate == [status : ProfessionalStatus, isVerified : BOOLEAN,
              rejectionReason : BOOLEAN, isAcceptingBookings : BOOLEAN,
              bookingsPausedUntil : Dates \cup {0},
              profile : Profile, availability : BOOLEAN]

Idle == [step |-> "idle"]
Saving == [step : {"save"}, op : Ops \cup Jobs, seen : Aggregate]
Refreshing == [step : {"refresh"}]
            \cup [step : {"write"}, eligible : BOOLEAN, paused : BOOLEAN]

TypeOK ==
    /\ now \in 0..Horizon
    /\ pro \in Aggregate
    /\ proc \in [Processes -> Saving \cup Refreshing \cup {Idle}]

\* The registration of a professional creates the row.
Init ==
    /\ now = 0
    /\ pro = [status |-> "PENDING", isVerified |-> FALSE, rejectionReason |-> FALSE,
              isAcceptingBookings |-> TRUE, bookingsPausedUntil |-> 0,
              profile |-> "empty", availability |-> FALSE]
    /\ proc = [p \in Processes |-> Idle]

-----------------------------------------------------------------------------
(***************************************************************************)
(* The methods of ProfessionalEntity, as the set of their results: none    *)
(* when the method throws.                                                 *)
(***************************************************************************)

\* Defective variant: a verification that forgets the reason.
VerifiedKeepingReason(p) ==
    {IF p.isVerified THEN p ELSE [p EXCEPT !.isVerified = TRUE, !.status = "ACTIVE"]}

Verified(p) ==
    {IF p.isVerified THEN p
     ELSE [p EXCEPT !.isVerified = TRUE, !.status = "ACTIVE", !.rejectionReason = FALSE]}

Rejected(p) ==
    IF p.isVerified THEN {}
    ELSE {[p EXCEPT !.status = "REJECTED", !.rejectionReason = TRUE]}

\* Defective variant: anyone may resubmit.
ResubmittedAnyway(p) ==
    {[p EXCEPT !.status = "PENDING", !.isVerified = FALSE, !.rejectionReason = FALSE]}

Resubmitted(p) ==
    IF p.status # "REJECTED" THEN {}
    ELSE {[p EXCEPT !.status = "PENDING", !.rejectionReason = FALSE]}

Suspended(p) == {[p EXCEPT !.status = "SUSPENDED"]}
Reactivated(p) == IF p.isVerified THEN {[p EXCEPT !.status = "ACTIVE"]} ELSE {}

\* Defective variant: a date that is off by one.
PausedLonger(p, until) ==
    {[p EXCEPT !.isAcceptingBookings = FALSE, !.bookingsPausedUntil = until + 1]}

Paused(p, until) ==
    {[p EXCEPT !.isAcceptingBookings = FALSE, !.bookingsPausedUntil = until]}
Resumed(p) == {[p EXCEPT !.isAcceptingBookings = TRUE, !.bookingsPausedUntil = 0]}

\* Verify, and the job that verifies, call verify; and so on.  An update of the
\* profile, or of the services, may complete the profile, blank it or take from it;
\* a new primary image can only complete it; other edits (fees, other images, the
\* gallery, the listing) change nothing that is followed here.
Changed(op, p) ==
    CASE op \in {"Verify", "autoVerify"}       -> Verified(p)
      [] op \in {"Reject", "autoReject"}       -> Rejected(p)
      [] op = "Resubmit"                       -> Resubmitted(p)
      [] op = "Suspend"                        -> Suspended(p)
      [] op = "Reactivate"                     -> Reactivated(p)
      [] op = "Pause"                          -> Paused(p, 0)
      [] op = "PauseUntil"                     -> UNION {Paused(p, d) : d \in Dates}
      [] op \in {"Resume", "reactivatePauses"} -> Resumed(p)
      [] op = "UpdateProfile"      -> {[p EXCEPT !.profile = x] : x \in Profile}
      [] op = "SetPrimaryImage"    -> {[p EXCEPT !.profile = x] :
                                        x \in {p.profile, "filled", "blank"}}
      [] op = "SetAvailability"    -> {[p EXCEPT !.availability = TRUE]}
      [] op = "RemoveAvailability" -> {[p EXCEPT !.availability = FALSE]}
      [] op = "Edit"               -> {p}

\* The operations that end in a refresh.
Refreshes == {"UpdateProfile"}

-----------------------------------------------------------------------------
(***************************************************************************)
(* ProfessionalRepository.save.  The status and the pause are written as   *)
(* they are in memory.  What was missing of the profile, or blank, may     *)
(* have been added since, and is then left as it is found or overwritten;  *)
(* days that were not there are left alone, those that were are written    *)
(* back.                                                                   *)
(***************************************************************************)
AtMost(profile) ==
    CASE profile = "filled" -> Profile
      [] profile = "blank"  -> {"empty", "blank"}
      [] profile = "empty"  -> {"empty"}

ProfileAfter(q) == IF q.profile = "empty" THEN AtMost(pro.profile) ELSE {q.profile}
AvailabilityAfter(q) ==
    IF pro.availability THEN {q.availability, TRUE} ELSE {q.availability}

Write(q) ==
    \E x \in ProfileAfter(q), a \in AvailabilityAfter(q) :
        pro' = [q EXCEPT !.profile = x, !.availability = a]

Busy == {p \in Processes : proc[p] # Idle}

\* A process takes up a request or a job.
Load(p, op) ==
    /\ proc[p] = Idle
    /\ Cardinality(Busy) < MaxInFlight
    /\ Changed(op, pro) # {}
    /\ proc' = [proc EXCEPT ![p] = [step |-> "save", op |-> op, seen |-> pro]]
    /\ UNCHANGED <<now, pro>>

Save(p) ==
    /\ proc[p].step = "save"
    /\ \E q \in Changed(proc[p].op, proc[p].seen) : Write(q)
    /\ proc' = [proc EXCEPT ![p] =
                    IF proc[p].op \in Refreshes THEN [step |-> "refresh"] ELSE Idle]
    /\ UNCHANGED now

\* ProfessionalEligibilityService.refresh: its query, and its update.  The user's
\* first name and a salon's address, which count too, are not followed, nor is the
\* listing, which it opens and closes.
ReadEligible(p) ==
    /\ proc[p].step = "refresh"
    /\ \E known \in BOOLEAN :
        proc' = [proc EXCEPT ![p] =
                    [step |-> "write",
                     eligible |-> known /\ pro.profile = "filled",
                     paused |-> pro.bookingsPausedUntil > now]]
    /\ UNCHANGED <<now, pro>>

WriteEligible(p) ==
    /\ proc[p].step = "write"
    /\ pro' = [pro EXCEPT !.isAcceptingBookings = proc[p].eligible /\ ~proc[p].paused]
    /\ proc' = [proc EXCEPT ![p] = Idle]
    /\ UNCHANGED now

\* A change of the user's name refreshes too.
RenameUser(p) ==
    /\ p \in Slots
    /\ proc[p] = Idle
    /\ Cardinality(Busy) < MaxInFlight
    /\ proc' = [proc EXCEPT ![p] = [step |-> "refresh"]]
    /\ UNCHANGED <<now, pro>>

\* One statement, without a refresh.
RemoveAvatar ==
    /\ pro' = [pro EXCEPT !.profile = "empty"]
    /\ UNCHANGED <<now, proc>>

-----------------------------------------------------------------------------
(***************************************************************************)
(* ProfessionalSchedulerService: the queries of the three jobs.            *)
(***************************************************************************)

Unverified(p) == p.status = "PENDING" /\ ~p.isVerified

\* Defective variant: only those who are still within the grace period.
EligibleForAutoVerificationInTime(p) ==
    Unverified(p) /\ p.profile # "empty" /\ p.availability /\ now < Grace

\* A blank bio is not null.
EligibleForAutoVerification(p) ==
    Unverified(p) /\ p.profile # "empty" /\ p.availability

IncompleteAfterGracePeriod(p) ==
    Unverified(p) /\ now >= Grace /\ p.profile # "filled"

\* Defective variants: pauses whatever their date, pauses of the verified only.
AnyBookingPause(p) == ~p.isAcceptingBookings /\ p.bookingsPausedUntil # 0

ExpiredPauseOfVerified(p) ==
    /\ p.isVerified /\ ~p.isAcceptingBookings
    /\ p.bookingsPausedUntil # 0 /\ p.bookingsPausedUntil <= now

ExpiredBookingPause(p) ==
    ~p.isAcceptingBookings /\ p.bookingsPausedUntil # 0 /\ p.bookingsPausedUntil <= now

StartJob(p, j) ==
    /\ \/ j = "autoVerify" /\ EligibleForAutoVerification(pro)
       \/ j = "autoReject" /\ IncompleteAfterGracePeriod(pro)
       \/ j = "reactivatePauses" /\ ExpiredBookingPause(pro)
    /\ Load(p, j)

-----------------------------------------------------------------------------

\* A crash or a failed statement: what is left of a request never runs.  (A job has
\* one write: one that dies before it has done nothing, and is started again.  The
\* process that goes on under a job's own name is one that does not die.)
Die(p) ==
    /\ p \in Slots
    /\ proc[p] # Idle
    /\ proc' = [proc EXCEPT ![p] = Idle]
    /\ UNCHANGED <<now, pro>>

Tick ==
    /\ now < Horizon
    /\ now' = now + 1
    /\ UNCHANGED <<pro, proc>>

Proceed(p) == Save(p) \/ ReadEligible(p) \/ WriteEligible(p)

Next ==
    \/ \E p \in Slots : RenameUser(p) \/ \E op \in Ops : Load(p, op)
    \/ RemoveAvatar
    \/ \E j \in Jobs : \E p \in Slots \cup {j} : StartJob(p, j)
    \/ \E p \in Processes : Proceed(p) \/ Die(p)
    \/ Tick

Spec == Init /\ [][Next]_vars

\* Node runs the continuation of every statement, and cron starts each job on its
\* own clock, every 5 or 10 minutes or every hour, whatever else is at work: only
\* MaxInFlight makes a job wait here, hence the strong fairness.
Fairness ==
    /\ \A p \in Processes : WF_vars(Proceed(p))
    /\ \A j \in Jobs : SF_vars(StartJob(j, j))

FairSpec == Spec /\ Fairness

-----------------------------------------------------------------------------
(***************************************************************************)
(* The status.                                                             *)
(***************************************************************************)

Consistent(p) ==
    /\ p.status = "ACTIVE" => p.isVerified
    /\ p.status \in {"PENDING", "REJECTED"} => ~p.isVerified
    /\ p.status = "REJECTED" => p.rejectionReason
    /\ p.status = "PENDING" \/ p.isVerified => ~p.rejectionReason

\* What the status, the flag and the reason say of a professional agree: verified
\* is what ACTIVE needs and what PENDING and REJECTED exclude; who is rejected is
\* told why, who is pending or active is not.
StatusConsistent == Consistent(pro)

\* The moves an administrator, the professional and the jobs may make.
Moves == {<<"PENDING", "ACTIVE">>, <<"PENDING", "REJECTED">>, <<"PENDING", "SUSPENDED">>,
          <<"REJECTED", "PENDING">>, <<"REJECTED", "ACTIVE">>, <<"REJECTED", "SUSPENDED">>,
          <<"ACTIVE", "SUSPENDED">>, <<"SUSPENDED", "ACTIVE">>}

StaleSave(p) ==
    /\ proc[p].step = "save"
    /\ <<proc[p].seen.status, proc[p].seen.isVerified>> # <<pro.status, pro.isVerified>>
    /\ proc'[p] # proc[p]

\* The status moves along Moves; a suspended professional who was never verified
\* may be rejected, too.  Only the save of an aggregate loaded before the last move
\* does anything else: who is verified stays it, a suspension lasts.
StatusUnlessStale ==
    [][\/ pro'.status = pro.status /\ pro'.isVerified = pro.isVerified
       \/ <<pro.status, pro'.status>> \in Moves /\ (pro.isVerified => pro'.isVerified)
       \/ ~pro.isVerified /\ <<pro.status, pro'.status>> = <<"SUSPENDED", "REJECTED">>
       \/ \E p \in Processes : StaleSave(p)]_vars

\* With fair jobs: a pending professional with a complete profile and a day of
\* availability does not wait for ever.
CompleteIsDecided ==
    LET complete == pro.profile = "filled" /\ pro.availability
    IN  pro.status = "PENDING" /\ complete ~> pro.status # "PENDING" \/ ~complete

(***************************************************************************)
(* The pauses.                                                             *)
(***************************************************************************)

\* A date ahead is taken from a pause only by the professional, who pauses anew or
\* resumes, or by the save of an aggregate loaded before the pause: no job ends a
\* pause early, and the refresh does not touch its date.
TimedPauseLasts ==
    [][pro.bookingsPausedUntil > now /\ pro'.bookingsPausedUntil # pro.bookingsPausedUntil
        => \E p \in Processes :
            /\ proc[p].step = "save" /\ proc'[p] # proc[p]
            /\ \/ proc[p].op \in PauseOp
               \/ proc[p].seen.bookingsPausedUntil # pro.bookingsPausedUntil]_vars

\* With fair jobs: a pause whose date has passed ends.
ExpiredPauseEnds ==
    LET over == pro.bookingsPausedUntil \in 1..now
    IN  over /\ ~pro.isAcceptingBookings ~> ~over \/ pro.isAcceptingBookings
=============================================================================
