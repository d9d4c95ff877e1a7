------------------------------ MODULE Schedule ------------------------------
(***************************************************************************)
(* The calendar of one professional: which starts are offered, which are   *)
(* accepted, and of which overlaps the creation and the confirmation of a  *)
(* booking warn.  The code never refuses an overlap, it only reports it.   *)
(*                                                                         *)
(* The code keeps instants in milliseconds and durations in minutes, and   *)
(* compares sometimes the ones, sometimes the others.  Here an instant is  *)
(* counted in ticks from the midnight of the first day, and a minute is    *)
(* "Minute" of them.  The working hours are the same every day and the     *)
(* professional may change them at any time.                               *)
(***************************************************************************)
EXTENDS Integers

CONSTANTS
    Bookings,       \* identifiers booking rows may get
    Slots,          \* requests the API can have in flight together
    Days,           \* the number of days looked at
    DayLength,      \* minutes of a day
    Minute,         \* ticks of a minute, the 60000 of the code
    Durations,      \* total durations of the services a client may choose, in minutes
    Buffer,         \* Professional.travelBufferMin
    SlotStep,       \* SLOT_STEP_MIN
    HoursChoices    \* the working hours the professional may set

\* Availability rows of a day: work and break are intervals of minutes, and
\* "hasBreak" says that both break columns are set.
Hours == [open : BOOLEAN, workStart : Nat, workEnd : Nat,
          hasBreak : BOOLEAN, breakStart : Nat, breakEnd : Nat]

ASSUME ScheduleAssumption ==
    /\ Days \in Nat \ {0}
    /\ DayLength \in Nat \ {0}
    /\ Minute \in Nat \ {0}
    /\ Durations \subseteq Nat \ {0}
    /\ Buffer \in Nat
    /\ SlotStep \in Nat \ {0}
    /\ HoursChoices \subseteq Hours
    /\ HoursChoices # {}
    /\ \A h \in HoursChoices : h.workEnd <= DayLength    \* the entity's 23:59

VARIABLES
    booking,        \* the table of bookings
    hours,          \* the working hours in force
    req,            \* what each slot is doing
    told,           \* history: the overlaps the confirmations of a booking reported
    together        \* history: the pairs whose confirmations were in flight together

vars == <<booking, hours, req, told, together>>

-----------------------------------------------------------------------------

\* A number of minutes, in ticks.
Ticks(min) == min * Minute

\* Instants a booking may start at: @IsDateString accepts any, seconds and all.
Starts == 0 .. Ticks(Days * DayLength) - 1

\* The day of an instant, and the minute that getUTCHours() * 60 +
\* getUTCMinutes() makes of it: its seconds are dropped.
DayOf(t) == (t \div Minute) \div DayLength
MinuteOf(t) == (t \div Minute) % DayLength

\* The instant of a minute of a day, the scheduledAt of a slot offered.
SlotAt(day, minute) == Ticks(day * DayLength + minute)

Status == {"ABSENT", "PENDING", "CONFIRMED", "CLOSED"}

Row == [status : Status, start : Starts, dur : Durations \cup {0}]
NoRow == [status |-> "ABSENT", start |-> 0, dur |-> 0]

Idle == [op |-> "Idle"]
Request == [op : {"Confirm"}, booking : Bookings, seen : SUBSET Bookings]
            \cup [op : {"Create"}, booking : Bookings, start : Starts, dur : Durations]
            \cup {Idle}

TypeOK ==
    /\ booking \in [Bookings -> Row]
    /\ hours \in HoursChoices
    /\ req \in [Slots -> Request]
    /\ told \in [Bookings -> SUBSET Bookings]
    /\ together \subseteq SUBSET Bookings

Init ==
    /\ booking = [b \in Bookings |-> NoRow]
    /\ hours \in HoursChoices
    /\ req = [r \in Slots |-> Idle]
    /\ told = [b \in Bookings |-> {}]
    /\ together = {}

-----------------------------------------------------------------------------
(***************************************************************************)
(* The tests on intervals, as the code writes them.                        *)
(***************************************************************************)

\* Two half-open intervals, the test every handler uses.
Meet(start1, end1, start2, end2) == start1 < end2 /\ start2 < end1

\* validateBookingSlot, in minutes.
Accepted(h, start, dur) ==
    LET from == MinuteOf(start)
        to   == MinuteOf(start) + dur
    IN  /\ h.open
        /\ from >= h.workStart
        /\ to <= h.workEnd
        /\ h.hasBreak => ~Meet(from, to, h.breakStart, h.breakEnd)

Confirmed == {b \in Bookings : booking[b].status = "CONFIRMED"}

\* The instant a booking ends, and the one its travel buffer ends.
EndOf(b) == booking[b].start + Ticks(booking[b].dur)
FreeAgain(b) == booking[b].start + Ticks(booking[b].dur + Buffer)

\* Defective variant: the buffer is forgotten where the candidates are fetched.
CreationOverlapsUnbuffered(start, dur) ==
    {b \in Confirmed :
        /\ booking[b].start \in start - Ticks(dur) .. start + Ticks(dur)
        /\ Meet(start, start + Ticks(dur), booking[b].start, FreeAgain(b))}

\* findOverlappingBookings: the candidates start in a window that reaches back
\* by the duration of the new booking and the buffer.  All of it in ticks.
CreationOverlaps(start, dur) ==
    {b \in Confirmed :
        /\ booking[b].start \in start - Ticks(dur + Buffer) .. start + Ticks(dur)
        /\ Meet(start, start + Ticks(dur), booking[b].start, FreeAgain(b))}

\* Defective variants: only the candidates that start with the booking or during
\* it, and every candidate of the window with no test of its end.
ConfirmationOverlapsAfter(b) ==
    {c \in Confirmed \ {b} :
        /\ booking[c].start >= booking[b].start
        /\ booking[c].start < EndOf(b)
        /\ Meet(booking[c].start, EndOf(c), booking[b].start, EndOf(b))}

ConfirmationCandidates(b) ==
    {c \in Confirmed \ {b} :
        /\ booking[c].start >= booking[b].start - Ticks(booking[b].dur)
        /\ booking[c].start < EndOf(b)}

\* ConfirmBookingHandler: the same without the buffer.
ConfirmationOverlaps(b) ==
    {c \in Confirmed \ {b} :
        /\ booking[c].start >= booking[b].start - Ticks(booking[b].dur)
        /\ booking[c].start < EndOf(b)
        /\ Meet(booking[c].start, EndOf(c), booking[b].start, EndOf(b))}

\* Defective variant: a slot is offered when it does not start during the break.
OfferedLoosely(h, dur) ==
    {minute \in h.workStart .. h.workEnd - dur :
        /\ h.open
        /\ (minute - h.workStart) % SlotStep = 0
        /\ h.hasBreak => ~(minute \in h.breakStart .. h.breakEnd - 1)}

\* GetAvailableSlotsHandler: the minutes of a day at which it offers a slot.
Offered(h, dur) ==
    {minute \in h.workStart .. h.workEnd - dur :
        /\ h.open
        /\ (minute - h.workStart) % SlotStep = 0
        /\ h.hasBreak => ~Meet(minute, minute + dur, h.breakStart, h.breakEnd)}

\* Defective variant: the buffer is forgotten where the slots are counted.
CountedUnbuffered(day, minute, dur) ==
    {b \in Confirmed :
        /\ DayOf(booking[b].start) = day
        /\ Meet(minute, minute + dur, MinuteOf(booking[b].start),
                MinuteOf(booking[b].start) + booking[b].dur)}

\* The confirmed bookings it counts for a slot: those of the same day only, and
\* in minutes.
Counted(day, minute, dur) ==
    {b \in Confirmed :
        /\ DayOf(booking[b].start) = day
        /\ Meet(minute, minute + dur, MinuteOf(booking[b].start),
                MinuteOf(booking[b].start) + booking[b].dur + Buffer)}

-----------------------------------------------------------------------------

\* The client's request is checked against the hours; the row comes later.
ReadToCreate(r, b, start, dur) ==
    /\ req[r] = Idle
    /\ booking[b].status = "ABSENT"
    /\ \A q \in Slots : req[q].op = "Create" => req[q].booking # b
    /\ Accepted(hours, start, dur)
    /\ req' = [req EXCEPT ![r] = [op |-> "Create", booking |-> b,
                                  start |-> start, dur |-> dur]]
    /\ UNCHANGED <<booking, hours, told, together>>

\* Defective variant: the end of the booking stored as its duration.
InsertEnd(r) ==
    /\ req[r].op = "Create"
    /\ booking' = [booking EXCEPT ![req[r].booking] =
                    [status |-> "PENDING", start |-> req[r].start,
                     dur |-> req[r].start + Ticks(req[r].dur)]]
    /\ req' = [req EXCEPT ![r] = Idle]
    /\ UNCHANGED <<hours, told, together>>

Insert(r) ==
    /\ req[r].op = "Create"
    /\ booking' = [booking EXCEPT ![req[r].booking] =
                    [status |-> "PENDING", start |-> req[r].start, dur |-> req[r].dur]]
    /\ req' = [req EXCEPT ![r] = Idle]
    /\ UNCHANGED <<hours, told, together>>

\* The professional's handler looks for conflicts, then confirms all the same.
ReadToConfirm(r, b) ==
    /\ req[r] = Idle
    /\ booking[b].status = "PENDING"
    /\ req' = [req EXCEPT ![r] = [op |-> "Confirm", booking |-> b,
                                  seen |-> ConfirmationOverlaps(b)]]
    /\ together' = together \cup
        {{b, req[q].booking} : q \in {p \in Slots : req[p].op = "Confirm"}}
    /\ UNCHANGED <<booking, hours, told>>

WriteConfirmed(r) ==
    /\ req[r].op = "Confirm"
    /\ booking' = [booking EXCEPT ![req[r].booking].status = "CONFIRMED"]
    /\ told' = [told EXCEPT ![req[r].booking] = @ \cup req[r].seen]
    /\ req' = [req EXCEPT ![r] = Idle]
    /\ UNCHANGED <<hours, together>>

\* Rejection, cancellation, completion, no-show: see module Booking.
Close(b) ==
    /\ booking[b].status \in {"PENDING", "CONFIRMED"}
    /\ booking' = [booking EXCEPT ![b].status = "CLOSED"]
    /\ UNCHANGED <<hours, req, told, together>>

SetHours(h) ==
    /\ hours' = h
    /\ UNCHANGED <<booking, req, told, together>>

Next ==
    \/ \E r \in Slots, b \in Bookings :
        \/ \E start \in Starts, dur \in Durations : ReadToCreate(r, b, start, dur)
        \/ ReadToConfirm(r, b)
    \/ \E r \in Slots : Insert(r) \/ WriteConfirmed(r)
    \/ \E b \in Bookings : Close(b)
    \/ \E h \in HoursChoices : SetHours(h)

Spec == Init /\ [][Next]_vars

-----------------------------------------------------------------------------

\* What is offered is what is accepted: every start GetAvailableSlotsHandler
\* offers passes validateBookingSlot, and of the minutes of a day that pass it,
\* every one on the grid of SLOT_STEP_MIN is offered.
OfferedIsAccepted ==
    \A day \in 0 .. Days - 1, dur \in Durations :
        Offered(hours, dur) =
            {minute \in 0 .. DayLength - 1 :
                /\ Accepted(hours, SlotAt(day, minute), dur)
                /\ (minute - hours.workStart) % SlotStep = 0}

\* A booking shares time with another, its travel buffer included.
Touches(b, start, dur) ==
    (start .. start + Ticks(dur) - 1) \cap (booking[b].start .. FreeAgain(b) - 1) # {}

\* The creation warns of every confirmed booking that touches the new one, at
\* whatever instant each begins, except those that began earlier than the new
\* one's own duration and buffer before it.
CreationCounts ==
    \A start \in Starts, dur \in Durations :
        CreationOverlaps(start, dur) =
            {b \in Confirmed : /\ Touches(b, start, dur)
                               /\ booking[b].start >= start - Ticks(dur + Buffer)}

\* The query counts these for a slot too, and misses two other kinds: those of the
\* day before, whose buffer reaches past midnight, and those that began on a
\* second and run less than a whole minute into the slot, for it drops seconds.
QueryCounts ==
    \A day \in 0 .. Days - 1, minute \in 0 .. DayLength - 1, dur \in Durations :
        Counted(day, minute, dur) =
            {b \in Confirmed : /\ Touches(b, SlotAt(day, minute), dur)
                               /\ DayOf(booking[b].start) = day
                               /\ FreeAgain(b) >= SlotAt(day, minute) + Minute}

\* The two counts of overlaps a client is shown differ in these ways only.
CountsDiffer == CreationCounts /\ QueryCounts

\* Two bookings share time, buffers left out.
Overlap(b, c) == Meet(booking[b].start, EndOf(b), booking[c].start, EndOf(c))

\* One began too early for the window of the other's confirmation.
TooEarlyFor(c, b) == booking[c].start < booking[b].start - Ticks(booking[b].dur)

\* Two confirmed bookings that overlap were reported to the professional when
\* the second was confirmed, unless the two confirmations ran together or one
\* of the two began more than the other's duration before it.
OverlapIsTold ==
    \A b, c \in Confirmed :
        b # c /\ Overlap(b, c) =>
            \/ b \in told[c]
            \/ c \in told[b]
            \/ {b, c} \in together
            \/ TooEarlyFor(b, c)
            \/ TooEarlyFor(c, b)

\* A warning is never a false alarm: what a confirmation reported does overlap,
\* though it may have been closed since.
NoFalseAlarm == \A b \in Bookings : \A c \in told[b] : Overlap(b, c)

\* Together: a confirmation warns of the overlaps it can see, and of no other.
WarningsAreRight == OverlapIsTold /\ NoFalseAlarm
=============================================================================
