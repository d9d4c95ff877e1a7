-------------------------- MODULE ProfessionalProofs --------------------------
(***************************************************************************)
(* What Professional guarantees for all sets of requests, jobs and dates,  *)
(* and every bound.                                                        *)
(***************************************************************************)
EXTENDS Professional, TLAPS

\* What a process is about to write is as consistent as what is written.
SeenConsistent ==
    \A p \in Processes : proc[p].step = "save" => Consistent(proc[p].seen)

IInv == TypeOK /\ StatusConsistent /\ SeenConsistent

-----------------------------------------------------------------------------
(***************************************************************************)
(* The methods of the entity, and the save.                                *)
(***************************************************************************)

\* A pause sets its two columns, and only them.
LEMMA ChangedGate ==
    ASSUME NEW op, op \in {"Pause", "PauseUntil", "Resume", "reactivatePauses"},
           NEW p \in Aggregate, NEW q \in Changed(op, p)
    PROVE  /\ q \in Aggregate
           /\ q.status = p.status /\ q.isVerified = p.isVerified
           /\ q.rejectionReason = p.rejectionReason
<1>1. \A d \in Dates \cup {0} : \A r \in Paused(p, d) :
          /\ r \in Aggregate
          /\ r.status = p.status /\ r.isVerified = p.isVerified
          /\ r.rejectionReason = p.rejectionReason
  BY DEF Paused, Aggregate
<1>2. CASE op = "Pause"
  BY <1>1, <1>2 DEF Changed
<1>3. CASE op = "PauseUntil"
  <2>1. Changed(op, p) = UNION {Paused(p, d) : d \in Dates}
    BY <1>3 DEF Changed
  <2>2. PICK d \in Dates : q \in Paused(p, d)
    BY <2>1
  <2> QED BY <1>1, <2>2
<1>4. CASE op \in {"Resume", "reactivatePauses"}
  BY <1>4 DEF Changed, Resumed, Aggregate
<1> QED BY <1>2, <1>3, <1>4

\* A method makes an aggregate of an aggregate.
LEMMA ChangedType ==
    ASSUME NEW op \in Ops \cup Jobs, NEW p \in Aggregate, NEW q \in Changed(op, p)
    PROVE  q \in Aggregate
<1>1. op \in StatusOp \cup PauseOp \cup ProfileOp \cup Job
  BY ProfessionalAssumption
<1>2. CASE op \in {"Verify", "autoVerify", "Reject", "autoReject"}
  BY <1>2 DEF Changed, Verified, Rejected, Aggregate, ProfessionalStatus
<1>3. CASE op \in {"Resubmit", "Suspend", "Reactivate"}
  BY <1>3 DEF Changed, Resubmitted, Suspended, Reactivated, Aggregate, ProfessionalStatus
<1>4. CASE op \in {"Pause", "PauseUntil", "Resume", "reactivatePauses"}
  BY <1>4, ChangedGate
<1>5. CASE op \in {"UpdateProfile", "SetPrimaryImage"}
  BY <1>5 DEF Changed, Profile, Aggregate
<1>6. CASE op \in {"SetAvailability", "RemoveAvailability", "Edit"}
  BY <1>6 DEF Changed, Aggregate
<1> QED BY <1>1, <1>2, <1>3, <1>4, <1>5, <1>6 DEF StatusOp, PauseOp, ProfileOp, Job

\* Every method keeps an aggregate consistent, whichever it was called on.
LEMMA ChangedConsistent ==
    ASSUME NEW op \in Ops \cup Jobs, NEW p \in Aggregate, NEW q \in Changed(op, p),
           Consistent(p)
    PROVE  Consistent(q)
<1>1. op \in StatusOp \cup PauseOp \cup ProfileOp \cup Job
  BY ProfessionalAssumption
<1>2. CASE op \in {"Verify", "autoVerify", "Reject", "autoReject"}
  BY <1>2 DEF Changed, Verified, Rejected, Aggregate, ProfessionalStatus, Consistent
<1>3. CASE op \in {"Resubmit", "Suspend", "Reactivate"}
  BY <1>3 DEF Changed, Resubmitted, Suspended, Reactivated, Aggregate,
              ProfessionalStatus, Consistent
<1>4. CASE op \in {"Pause", "PauseUntil", "Resume", "reactivatePauses"}
  BY <1>4, ChangedGate DEF Consistent
<1>5. CASE op \in ProfileOp
  BY <1>5 DEF Changed, Profile, ProfileOp, Aggregate, Consistent
<1> QED BY <1>1, <1>2, <1>3, <1>4, <1>5 DEF StatusOp, PauseOp, Job

\* From an aggregate whose status is consistent, a method makes one of Moves, or
\* rejects who was suspended before being verified, or leaves the status alone.
LEMMA ChangedMoves ==
    ASSUME NEW op \in Ops \cup Jobs, NEW p \in Aggregate, NEW q \in Changed(op, p),
           Consistent(p)
    PROVE  \/ q.status = p.status /\ q.isVerified = p.isVerified
           \/ <<p.status, q.status>> \in Moves /\ (p.isVerified => q.isVerified)
           \/ ~p.isVerified /\ <<p.status, q.status>> = <<"SUSPENDED", "REJECTED">>
<1>1. op \in StatusOp \cup PauseOp \cup ProfileOp \cup Job
  BY ProfessionalAssumption
<1>2. CASE op \in {"Verify", "autoVerify", "Reject", "autoReject"}
  BY <1>2 DEF Changed, Verified, Rejected, Aggregate, ProfessionalStatus, Consistent, Moves
<1>3. CASE op \in {"Resubmit", "Suspend", "Reactivate"}
  BY <1>3 DEF Changed, Resubmitted, Suspended, Reactivated, Aggregate,
              ProfessionalStatus, Consistent, Moves
<1>4. CASE op \in {"Pause", "PauseUntil", "Resume", "reactivatePauses"}
  BY <1>4, ChangedGate
<1>5. CASE op \in ProfileOp
  BY <1>5 DEF Changed, Profile, ProfileOp, Aggregate
<1> QED BY <1>1, <1>2, <1>3, <1>4, <1>5 DEF StatusOp, PauseOp, Job

\* The date of a pause is changed by the professional's operations and by the job
\* that ends it, by nothing else.
LEMMA ChangedPause ==
    ASSUME NEW op \in Ops \cup Jobs, NEW p \in Aggregate, NEW q \in Changed(op, p),
           op \notin PauseOp, op # "reactivatePauses"
    PROVE  q.bookingsPausedUntil = p.bookingsPausedUntil
<1>1. op \in StatusOp \cup ProfileOp \cup {"autoVerify", "autoReject"}
  BY ProfessionalAssumption DEF Job
<1>2. CASE op \in {"Verify", "autoVerify", "Reject", "autoReject"}
  BY <1>2 DEF Changed, Verified, Rejected, Aggregate
<1>3. CASE op \in {"Resubmit", "Suspend", "Reactivate"}
  BY <1>3 DEF Changed, Resubmitted, Suspended, Reactivated, Aggregate
<1>4. CASE op \in ProfileOp
  BY <1>4 DEF Changed, ProfileOp, Aggregate
<1> QED BY <1>1, <1>2, <1>3, <1>4 DEF StatusOp

\* A save writes the status and the pause as they are in memory.
LEMMA WrittenColumns ==
    ASSUME NEW q \in Aggregate, pro \in Aggregate, Write(q)
    PROVE  /\ pro' \in Aggregate
           /\ pro'.status = q.status /\ pro'.isVerified = q.isVerified
           /\ pro'.rejectionReason = q.rejectionReason
           /\ pro'.bookingsPausedUntil = q.bookingsPausedUntil
<1>1. ProfileAfter(q) \subseteq Profile
  BY DEF ProfileAfter, AtMost, Profile, Aggregate
<1>2. AvailabilityAfter(q) \subseteq BOOLEAN
  BY DEF AvailabilityAfter, Aggregate
<1>3. PICK x \in Profile, a \in BOOLEAN :
          pro' = [q EXCEPT !.profile = x, !.availability = a]
  BY <1>1, <1>2 DEF Write
<1> QED BY <1>3 DEF Aggregate

-----------------------------------------------------------------------------
(***************************************************************************)
(* The inductive invariant.  A method is called on an aggregate that was   *)
(* loaded earlier, so what is consistent must be what each process holds,  *)
(* and not only the row.                                                   *)
(***************************************************************************)

\* The registration leaves an aggregate that is consistent, and nothing in flight.
LEMMA InitIInv == Init => IInv
<1> SUFFICES ASSUME Init PROVE IInv
  OBVIOUS
<1>1. TypeOK
  BY ProfessionalAssumption DEF Init, TypeOK, Aggregate, ProfessionalStatus, Profile
<1>2. StatusConsistent
  BY DEF Init, StatusConsistent, Consistent
<1>3. SeenConsistent
  BY DEF Init, SeenConsistent, Idle
<1> QED BY <1>1, <1>2, <1>3 DEF IInv

\* A load holds what is written.
LEMMA LoadIInv ==
    ASSUME IInv, NEW p \in Processes, NEW op \in Ops \cup Jobs, Load(p, op)
    PROVE  IInv'
<1>1. TypeOK'
  BY DEF IInv, TypeOK, Load, Saving
<1>2. StatusConsistent'
  BY DEF IInv, StatusConsistent, Consistent, Load
<1>3. SeenConsistent'
  BY DEF IInv, TypeOK, StatusConsistent, SeenConsistent, Consistent, Load
<1> QED BY <1>1, <1>2, <1>3 DEF IInv

\* A save writes what a method made of it.
LEMMA SaveIInv ==
    ASSUME IInv, NEW p \in Processes, Save(p)
    PROVE  IInv'
<1> DEFINE op == proc[p].op
           seen == proc[p].seen
<1>1. op \in Ops \cup Jobs /\ seen \in Aggregate /\ Consistent(seen)
  BY DEF IInv, TypeOK, SeenConsistent, Save, Saving, Refreshing, Idle
<1>2. PICK q \in Changed(op, seen) : Write(q)
  BY DEF Save
<1>3. q \in Aggregate /\ Consistent(q)
  BY <1>1, ChangedType, ChangedConsistent
<1>4. /\ pro' \in Aggregate
      /\ pro'.status = q.status /\ pro'.isVerified = q.isVerified
      /\ pro'.rejectionReason = q.rejectionReason
  BY <1>2, <1>3, WrittenColumns DEF IInv, TypeOK
<1>5. TypeOK'
  BY <1>4 DEF IInv, TypeOK, Save, Refreshing
<1>6. StatusConsistent'
  BY <1>3, <1>4 DEF StatusConsistent, Consistent
<1>7. SeenConsistent'
  BY DEF IInv, TypeOK, SeenConsistent, Consistent, Save, Idle
<1> QED BY <1>5, <1>6, <1>7 DEF IInv

\* The refresh, and what ends a request, leave the status alone.
LEMMA RefreshIInv ==
    ASSUME IInv, NEW p \in Processes,
           ReadEligible(p) \/ WriteEligible(p) \/ RenameUser(p) \/ Die(p)
    PROVE  IInv'
<1>1. CASE ReadEligible(p)
  <2>1. TypeOK'
    BY <1>1 DEF IInv, TypeOK, ReadEligible, Refreshing
  <2>2. StatusConsistent' /\ SeenConsistent'
    BY <1>1 DEF IInv, TypeOK, StatusConsistent, SeenConsistent, Consistent, ReadEligible
  <2> QED BY <2>1, <2>2 DEF IInv
<1>2. CASE WriteEligible(p)
  <2>1. proc[p].eligible \in BOOLEAN /\ proc[p].paused \in BOOLEAN
    BY <1>2 DEF IInv, TypeOK, WriteEligible, Saving, Refreshing, Idle
  <2>2. TypeOK'
    BY <1>2, <2>1 DEF IInv, TypeOK, WriteEligible, Aggregate
  <2>3. StatusConsistent' /\ SeenConsistent'
    BY <1>2 DEF IInv, TypeOK, StatusConsistent, SeenConsistent, Consistent,
                WriteEligible, Aggregate, Idle
  <2> QED BY <2>2, <2>3 DEF IInv
<1>3. CASE RenameUser(p) \/ Die(p)
  <2>1. TypeOK'
    BY <1>3 DEF IInv, TypeOK, RenameUser, Die, Refreshing
  <2>2. StatusConsistent' /\ SeenConsistent'
    BY <1>3 DEF IInv, TypeOK, StatusConsistent, SeenConsistent, Consistent,
                RenameUser, Die, Idle
  <2> QED BY <2>1, <2>2 DEF IInv
<1> QED BY <1>1, <1>2, <1>3

\* Every step keeps the invariant.
LEMMA NextIInv == IInv /\ [Next]_vars => IInv'
<1> SUFFICES ASSUME IInv, [Next]_vars PROVE IInv'
  OBVIOUS
<1>1. ASSUME NEW p \in Slots, NEW op \in Ops, Load(p, op) PROVE IInv'
  BY <1>1, LoadIInv DEF Processes
<1>2. ASSUME NEW j \in Jobs, NEW p \in Slots \cup {j}, StartJob(p, j) PROVE IInv'
  BY <1>2, LoadIInv DEF Processes, StartJob
<1>3. ASSUME NEW p \in Processes, Save(p) PROVE IInv'
  BY <1>3, SaveIInv
<1>4. ASSUME NEW p \in Processes,
             ReadEligible(p) \/ WriteEligible(p) \/ RenameUser(p) \/ Die(p)
      PROVE IInv'
  BY <1>4, RefreshIInv
<1>5. CASE RemoveAvatar
  <2>1. TypeOK'
    BY <1>5 DEF IInv, TypeOK, RemoveAvatar, Aggregate, Profile
  <2>2. StatusConsistent' /\ SeenConsistent'
    BY <1>5 DEF IInv, TypeOK, StatusConsistent, SeenConsistent, Consistent,
                RemoveAvatar, Aggregate
  <2> QED BY <2>1, <2>2 DEF IInv
<1>6. CASE Tick
  <2>1. TypeOK'
    BY <1>6, ProfessionalAssumption DEF IInv, TypeOK, Tick
  <2>2. StatusConsistent' /\ SeenConsistent'
    BY <1>6 DEF IInv, StatusConsistent, SeenConsistent, Consistent, Tick
  <2> QED BY <2>1, <2>2 DEF IInv
<1>7. CASE UNCHANGED vars
  BY <1>7 DEF vars, IInv, TypeOK, StatusConsistent, SeenConsistent, Consistent
<1> QED BY <1>1, <1>2, <1>3, <1>4, <1>5, <1>6, <1>7 DEF Next, Proceed, Processes

\* The variables keep their types: the dates of the pauses, and the clock, are those
\* that a request may ask for.
THEOREM TypeCorrect == Spec => []TypeOK
BY InitIInv, NextIInv, PTL DEF Spec, IInv

\* Whatever interleaves, the status, the flag and the reason of a professional agree.
THEOREM AlwaysConsistent == Spec => []StatusConsistent
BY InitIInv, NextIInv, PTL DEF Spec, IInv

-----------------------------------------------------------------------------
(***************************************************************************)
(* The changes of the status.                                              *)
(***************************************************************************)

StatusStep ==
    \/ pro'.status = pro.status /\ pro'.isVerified = pro.isVerified
    \/ <<pro.status, pro'.status>> \in Moves /\ (pro.isVerified => pro'.isVerified)
    \/ ~pro.isVerified /\ <<pro.status, pro'.status>> = <<"SUSPENDED", "REJECTED">>
    \/ \E p \in Processes : StaleSave(p)

\* A save whose aggregate is still what is written makes one of Moves.
LEMMA SaveMoves ==
    ASSUME IInv, NEW p \in Processes, Save(p)
    PROVE  StatusStep
<1> DEFINE op == proc[p].op
           seen == proc[p].seen
<1>1. op \in Ops \cup Jobs /\ seen \in Aggregate /\ Consistent(seen)
  BY DEF IInv, TypeOK, SeenConsistent, Save, Saving, Refreshing, Idle
<1>2. PICK q \in Changed(op, seen) : Write(q)
  BY DEF Save
<1>3. q \in Aggregate
  BY <1>1, ChangedType
<1>4. pro'.status = q.status /\ pro'.isVerified = q.isVerified
  BY <1>2, <1>3, WrittenColumns DEF IInv, TypeOK
<1>5. proc'[p] # proc[p]
  BY DEF IInv, TypeOK, Save, Idle
<1>6. CASE <<seen.status, seen.isVerified>> # <<pro.status, pro.isVerified>>
  BY <1>5, <1>6 DEF StatusStep, StaleSave, Save
<1>7. CASE seen.status = pro.status /\ seen.isVerified = pro.isVerified
  BY <1>1, <1>4, <1>7, ChangedMoves DEF StatusStep
<1> QED BY <1>6, <1>7

\* Only the save of an aggregate loaded before the last move makes the status do
\* anything but the moves of an administrator, the professional and the jobs.
THEOREM OnlyStaleSavesStray == Spec => StatusUnlessStale
<1>1. IInv /\ [Next]_vars => [StatusStep]_vars
  <2> SUFFICES ASSUME IInv, Next PROVE StatusStep \/ UNCHANGED vars
    OBVIOUS
  <2>1. ASSUME NEW p \in Processes, Save(p) PROVE StatusStep
    BY <2>1, SaveMoves
  <2>2. ASSUME NEW p \in Processes, WriteEligible(p) PROVE StatusStep
    BY <2>2 DEF WriteEligible, StatusStep, IInv, TypeOK, Aggregate
  <2>3. CASE RemoveAvatar
    BY <2>3 DEF RemoveAvatar, StatusStep, IInv, TypeOK, Aggregate
  <2>4. ASSUME UNCHANGED pro PROVE StatusStep
    BY <2>4 DEF StatusStep
  <2> QED
    BY <2>1, <2>2, <2>3, <2>4 DEF Next, Load, StartJob, Proceed, ReadEligible,
       RenameUser, Die, Tick, Processes
<1> QED BY <1>1, InitIInv, NextIInv, PTL DEF Spec, StatusUnlessStale, StatusStep

-----------------------------------------------------------------------------
(***************************************************************************)
(* The changes of a pause.                                                 *)
(***************************************************************************)

\* The date of a pause, null being 0, can be compared with the clock.
LEMMA PauseIsADate == ASSUME NEW a \in Aggregate PROVE a.bookingsPausedUntil \in Nat
<1>1. a.bookingsPausedUntil \in Dates \cup {0}
  BY DEF Aggregate
<1>2. \A d \in Dates \cup {0} : d \in Nat
  <2>1. \A d \in Dates : d \in Nat
    BY ProfessionalAssumption
  <2> QED BY <2>1
<1> QED BY <1>1, <1>2

\* The job that ends pauses holds only what had run out when it was loaded.
PauseWasOver ==
    \A p \in Processes :
        proc[p].step = "save" /\ proc[p].op = "reactivatePauses"
            => proc[p].seen.bookingsPausedUntil <= now

\* The clock does not turn back, and no request runs the job's operation.
LEMMA NextPauseWasOver == IInv /\ PauseWasOver /\ [Next]_vars => PauseWasOver'
<1> SUFFICES ASSUME IInv, PauseWasOver, [Next]_vars PROVE PauseWasOver'
  OBVIOUS
<1>1. ASSUME NEW p \in Slots, NEW op \in Ops, Load(p, op) PROVE PauseWasOver'
  <2>1. op # "reactivatePauses"
    BY ProfessionalAssumption DEF StatusOp, PauseOp, ProfileOp
  <2> QED BY <1>1, <2>1 DEF Load, PauseWasOver, IInv, TypeOK, Processes
<1>2. ASSUME NEW j \in Jobs, NEW p \in Slots \cup {j}, StartJob(p, j) PROVE PauseWasOver'
  <2>1. j = "reactivatePauses" => pro.bookingsPausedUntil <= now
    BY <1>2 DEF StartJob, ExpiredBookingPause
  <2> QED BY <1>2, <2>1 DEF StartJob, Load, PauseWasOver, IInv, TypeOK, Processes
<1>3. ASSUME NEW p \in Processes,
             Save(p) \/ ReadEligible(p) \/ WriteEligible(p) \/ RenameUser(p) \/ Die(p)
      PROVE PauseWasOver'
  BY <1>3 DEF Save, ReadEligible, WriteEligible, RenameUser, Die, PauseWasOver, IInv,
              TypeOK, Idle
<1>4. CASE RemoveAvatar \/ UNCHANGED vars
  BY <1>4 DEF RemoveAvatar, vars, PauseWasOver
<1>5. CASE Tick
  <2>1. ASSUME NEW p \in Processes, proc[p].step = "save"
        PROVE proc[p].seen.bookingsPausedUntil \in Nat
    <3>1. proc[p].seen \in Aggregate
      BY <2>1 DEF IInv, TypeOK, Saving, Refreshing, Idle
    <3> QED BY <3>1, PauseIsADate
  <2> QED BY <1>5, <2>1, ProfessionalAssumption DEF Tick, PauseWasOver, IInv, TypeOK
<1> QED BY <1>1, <1>2, <1>3, <1>4, <1>5 DEF Next, Proceed, Processes

PauseStep ==
    pro.bookingsPausedUntil > now /\ pro'.bookingsPausedUntil # pro.bookingsPausedUntil
        => \E p \in Processes :
            /\ proc[p].step = "save" /\ proc'[p] # proc[p]
            /\ \/ proc[p].op \in PauseOp
               \/ proc[p].seen.bookingsPausedUntil # pro.bookingsPausedUntil

\* A save takes a date ahead only from a pause it did not load, or at the
\* professional's request.
LEMMA SavePauses ==
    ASSUME IInv, PauseWasOver, NEW p \in Processes, Save(p)
    PROVE  PauseStep
<1> DEFINE op == proc[p].op
           seen == proc[p].seen
<1>1. op \in Ops \cup Jobs /\ seen \in Aggregate
  BY DEF IInv, TypeOK, Save, Saving, Refreshing, Idle
<1>2. PICK q \in Changed(op, seen) : Write(q)
  BY DEF Save
<1>3. q \in Aggregate
  BY <1>1, ChangedType
<1>4. pro'.bookingsPausedUntil = q.bookingsPausedUntil
  BY <1>2, <1>3, WrittenColumns DEF IInv, TypeOK
<1>5. proc[p].step = "save" /\ proc'[p] # proc[p]
  BY DEF IInv, TypeOK, Save, Idle
<1>6. CASE op \in PauseOp \/ seen.bookingsPausedUntil # pro.bookingsPausedUntil
  BY <1>5, <1>6 DEF PauseStep
<1>7. CASE op \notin PauseOp /\ seen.bookingsPausedUntil = pro.bookingsPausedUntil
  <2>1. CASE op = "reactivatePauses"
    <3>1. pro.bookingsPausedUntil <= now
      BY <1>5, <1>7, <2>1 DEF PauseWasOver
    <3>2. pro.bookingsPausedUntil \in Nat /\ now \in Nat
      BY PauseIsADate, ProfessionalAssumption DEF IInv, TypeOK
    <3> QED BY <3>1, <3>2 DEF PauseStep
  <2>2. CASE op # "reactivatePauses"
    BY <1>1, <1>4, <1>7, <2>2, ChangedPause DEF PauseStep
  <2> QED BY <2>1, <2>2
<1> QED BY <1>6, <1>7

\* No job ends a pause early and the refresh leaves its date alone: a date ahead is
\* given up only at the professional's request, or by a save that did not know it.
THEOREM TimedPausesLast == Spec => TimedPauseLasts
<1>1. Init => PauseWasOver
  BY DEF Init, PauseWasOver, Idle
<1>2. IInv /\ PauseWasOver /\ [Next]_vars => [PauseStep]_vars
  <2> SUFFICES ASSUME IInv, PauseWasOver, Next PROVE PauseStep \/ UNCHANGED vars
    OBVIOUS
  <2>1. ASSUME NEW p \in Processes, Save(p) PROVE PauseStep
    BY <2>1, SavePauses
  <2>2. ASSUME NEW p \in Processes, WriteEligible(p) PROVE PauseStep
    BY <2>2 DEF WriteEligible, PauseStep, IInv, TypeOK, Aggregate
  <2>3. CASE RemoveAvatar
    BY <2>3 DEF RemoveAvatar, PauseStep, IInv, TypeOK, Aggregate
  <2>4. ASSUME UNCHANGED pro PROVE PauseStep
    BY <2>4 DEF PauseStep
  <2> QED
    BY <2>1, <2>2, <2>3, <2>4 DEF Next, Load, StartJob, Proceed, ReadEligible,
       RenameUser, Die, Tick, Processes
<1> QED
  BY <1>1, <1>2, InitIInv, NextIInv, NextPauseWasOver, PTL
  DEF Spec, TimedPauseLasts, PauseStep
=============================================================================
