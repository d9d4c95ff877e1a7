--------------------------- MODULE ScheduleProofs ---------------------------
(***************************************************************************)
(* Proofs about Schedule, for any precision of the clock, length of day,   *)
(* durations, buffer, grid and hours: the slots offered are those          *)
(* accepted, the two counts of overlaps differ in the known ways only, and *)
(* a confirmation warns of what it can see and of nothing else.            *)
(***************************************************************************)
EXTENDS Schedule, TLAPS

-----------------------------------------------------------------------------
(***************************************************************************)
(* Minutes and ticks.  Later proofs know Ticks by these lemmas only.       *)
(***************************************************************************)

LEMMA TicksType ==
    /\ \A n \in Int : Ticks(n) \in Int
    /\ \A n \in Nat : Ticks(n) \in Nat
    /\ \A n \in Nat \ {0} : Ticks(n) >= Minute
BY ScheduleAssumption DEF Ticks

LEMMA TicksPlus ==
    ASSUME NEW a \in Int, NEW b \in Int
    PROVE  Ticks(a + b) = Ticks(a) + Ticks(b)
BY ScheduleAssumption DEF Ticks

\* An instant within a minute comes before another minute as its minute does.
LEMMA TicksOrder ==
    ASSUME NEW a \in Int, NEW b \in Int, NEW f \in 0 .. Minute - 1
    PROVE  Ticks(a) + f < Ticks(b) <=> a < b
<1>1. Minute \in Nat \ {0}
  BY ScheduleAssumption
<1>2. ASSUME a < b
      PROVE  Ticks(a) + f < Ticks(b)
  <2>1. PICK k \in Nat \ {0} : b = a + k
    <3>1. b - a \in Nat \ {0} /\ b = a + (b - a)
      BY <1>2
    <3> QED
      BY <3>1
  <2>2. Ticks(b) = Ticks(a) + Ticks(k) /\ Ticks(k) >= Minute
    <3>1. k \in Int
      BY <2>1
    <3>2. Ticks(b) = Ticks(a) + Ticks(k)
      BY <2>1, <3>1, TicksPlus
    <3> QED
      BY <2>1, <3>2, TicksType
  <2>3. Ticks(a) \in Int /\ Ticks(k) \in Int
    BY TicksType
  <2> QED
    BY <1>1, <2>2, <2>3
<1>3. ASSUME ~(a < b)
      PROVE  ~(Ticks(a) + f < Ticks(b))
  <2>1. PICK k \in Nat : a = b + k
    <3>1. a - b \in Nat /\ a = b + (a - b)
      BY <1>3
    <3> QED
      BY <3>1
  <2>2. Ticks(a) = Ticks(b) + Ticks(k)
    BY <2>1, TicksPlus
  <2>3. Ticks(b) \in Int /\ Ticks(k) \in Nat
    BY TicksType
  <2> QED
    BY <1>1, <2>2, <2>3
<1> QED
  BY <1>2, <1>3

\* A number is its quotient and its remainder.
LEMMA Division ==
    ASSUME NEW d \in Nat \ {0}, NEW t \in Int
    PROVE  /\ t \div d \in Int
           /\ t % d \in 0 .. d - 1
           /\ t = (t \div d) * d + (t % d)
OBVIOUS

LEMMA Quotient ==
    ASSUME NEW d \in Nat \ {0}, NEW q \in Int, NEW r \in 0 .. d - 1, NEW t \in Int,
           t = q * d + r
    PROVE  t \div d = q /\ t % d = r
OBVIOUS

\* An instant is its day, its minute, and what is left of it.
LEMMA DayAndMinute ==
    ASSUME NEW t \in Int
    PROVE  /\ DayOf(t) \in Int
           /\ MinuteOf(t) \in 0 .. DayLength - 1
           /\ \E f \in 0 .. Minute - 1 : t = SlotAt(DayOf(t), MinuteOf(t)) + f
<1> DEFINE m == t \div Minute
<1>1. m \in Int /\ t % Minute \in 0 .. Minute - 1 /\ t = Ticks(m) + (t % Minute)
  BY Division, ScheduleAssumption DEF Ticks
<1> HIDE DEF m
<1>2. /\ m \div DayLength \in Int
      /\ m % DayLength \in 0 .. DayLength - 1
      /\ m = (m \div DayLength) * DayLength + (m % DayLength)
  BY <1>1, Division, ScheduleAssumption
<1>3. DayOf(t) = m \div DayLength /\ MinuteOf(t) = m % DayLength
  BY DEF DayOf, MinuteOf, m
<1>4. t = SlotAt(DayOf(t), MinuteOf(t)) + (t % Minute)
  BY <1>1, <1>2, <1>3 DEF SlotAt
<1> QED
  BY <1>1, <1>2, <1>3, <1>4

\* The minute of a slot is read as it was given.
LEMMA SlotMinute ==
    ASSUME NEW day \in Int, NEW minute \in 0 .. DayLength - 1
    PROVE  SlotAt(day, minute) \in Int /\ MinuteOf(SlotAt(day, minute)) = minute
<1> DEFINE m == day * DayLength + minute
<1>1. day * DayLength \in Int /\ minute \in Int
  BY ScheduleAssumption
<1>2. m \in Int
  BY <1>1
<1>3. m % DayLength = minute
  BY <1>2, Quotient, ScheduleAssumption
<1> HIDE DEF m
<1>4. Ticks(m) \in Int /\ Ticks(m) = m * Minute + 0 /\ 0 \in 0 .. Minute - 1
  BY <1>2, TicksType, ScheduleAssumption DEF Ticks
<1>5. Ticks(m) \div Minute = m
  BY <1>2, <1>4, Quotient, ScheduleAssumption
<1>6. SlotAt(day, minute) = Ticks(m)
  BY DEF SlotAt, m
<1> QED
  BY <1>3, <1>4, <1>5, <1>6 DEF MinuteOf

-----------------------------------------------------------------------------
(***************************************************************************)
(* The inductive invariant.                                                *)
(***************************************************************************)

Exists(b) == booking[b].status # "ABSENT"

\* A row has the start and the duration of a request that was accepted.
RowsAreReal == \A b \in Bookings : Exists(b) => booking[b].dur \in Durations

Confirming(r, b) == req[r].op = "Confirm" /\ req[r].booking = b

\* A creation has its id for itself until it inserts the row.
IdsFree ==
    \A r \in Slots : req[r].op = "Create" =>
        /\ ~Exists(req[r].booking)
        /\ \A q \in Slots \ {r} : req[q].op = "Create" =>
                req[q].booking # req[r].booking

\* Two confirmations in flight are known to have met.
InFlightMet ==
    \A r, q \in Slots : \A b, c \in Bookings :
        r # q /\ Confirming(r, b) /\ Confirming(q, c) => {b, c} \in together

\* What a confirmation saw overlaps its booking.
SeenOverlaps ==
    \A r \in Slots : \A b \in Bookings : Confirming(r, b) =>
        /\ Exists(b)
        /\ \A c \in req[r].seen : Exists(c) /\ Overlap(b, c)

\* A confirmation saw every overlap there is by now, except those that were
\* confirmed meanwhile and those out of the window.
SeenAll ==
    \A r \in Slots : \A b, c \in Bookings :
        /\ Confirming(r, b)
        /\ booking[c].status = "CONFIRMED"
        /\ b # c
        /\ Overlap(b, c)
        => \/ c \in req[r].seen
           \/ {b, c} \in together
           \/ TooEarlyFor(c, b)

ToldExists ==
    \A b \in Bookings : \A c \in told[b] : Exists(b) /\ Exists(c)

IInv ==
    /\ TypeOK
    /\ RowsAreReal
    /\ IdsFree
    /\ InFlightMet
    /\ SeenOverlaps
    /\ SeenAll
    /\ ToldExists
    /\ WarningsAreRight

-----------------------------------------------------------------------------
(***************************************************************************)
(* The tests on intervals.                                                 *)
(***************************************************************************)

LEMMA HoursType ==
    ASSUME TypeOK
    PROVE  /\ hours \in Hours
           /\ hours.workStart \in Nat
           /\ hours.workEnd \in 0 .. DayLength
           /\ hours.breakStart \in Nat
           /\ hours.breakEnd \in Nat
<1>1. hours \in Hours /\ hours.workEnd <= DayLength
  BY ScheduleAssumption DEF TypeOK
<1>2. hours.workStart \in Nat /\ hours.workEnd \in Nat
      /\ hours.breakStart \in Nat /\ hours.breakEnd \in Nat
  BY <1>1 DEF Hours
<1> QED
  BY <1>1, <1>2, ScheduleAssumption

LEMMA RowType ==
    ASSUME TypeOK, NEW b \in Bookings
    PROVE  /\ booking[b].status \in Status
           /\ booking[b].start \in Nat
           /\ booking[b].start \in Starts
           /\ booking[b].dur \in Nat
<1>1. Durations \cup {0} \subseteq Nat /\ Starts \subseteq Nat
  BY ScheduleAssumption DEF Starts
<1>2. /\ booking[b].status \in Status
      /\ booking[b].start \in Starts
      /\ booking[b].dur \in Durations \cup {0}
  BY DEF TypeOK, Row
<1> QED
  BY <1>1, <1>2

LEMMA ConfirmedRow ==
    ASSUME IInv, NEW b \in Confirmed
    PROVE  /\ b \in Bookings
           /\ booking[b].start \in Nat
           /\ booking[b].dur \in Nat \ {0}
           /\ FreeAgain(b) \in Nat
           /\ booking[b].start < FreeAgain(b)
<1>1. b \in Bookings /\ booking[b].status = "CONFIRMED"
  BY DEF Confirmed
<1>2. booking[b].dur \in Durations
  BY <1>1 DEF IInv, RowsAreReal, Exists
<1>3. booking[b].start \in Nat /\ booking[b].dur \in Nat \ {0}
  BY <1>1, <1>2, RowType, ScheduleAssumption DEF IInv
<1>4. booking[b].dur + Buffer \in Nat \ {0}
  BY <1>3, ScheduleAssumption
<1>5. Ticks(booking[b].dur + Buffer) \in Nat \ {0}
  BY <1>4, TicksType, ScheduleAssumption
<1> QED
  BY <1>1, <1>3, <1>5 DEF FreeAgain

\* Half-open intervals that are not empty meet when they have a tick in common.
LEMMA MeetIsShared ==
    ASSUME NEW s \in Int, NEW e \in Int, NEW u \in Int, NEW f \in Int, s < e, u < f
    PROVE  Meet(s, e, u, f) <=> (s .. e - 1) \cap (u .. f - 1) # {}
<1>1. ASSUME Meet(s, e, u, f)
      PROVE  (s .. e - 1) \cap (u .. f - 1) # {}
  <2>1. CASE s <= u
    <3>1. u \in s .. e - 1 /\ u \in u .. f - 1
      BY <1>1, <2>1 DEF Meet
    <3> QED
      BY <3>1
  <2>2. CASE u < s
    <3>1. s \in s .. e - 1 /\ s \in u .. f - 1
      BY <1>1, <2>2 DEF Meet
    <3> QED
      BY <3>1
  <2> QED
    BY <2>1, <2>2
<1>2. ASSUME NEW t \in (s .. e - 1) \cap (u .. f - 1)
      PROVE  Meet(s, e, u, f)
  <2>1. t \in Int /\ s <= t /\ t <= e - 1 /\ u <= t /\ t <= f - 1
    OBVIOUS
  <2> QED
    BY <2>1 DEF Meet
<1> QED
  BY <1>1, <1>2

LEMMA TouchesIsMeet ==
    ASSUME IInv, NEW b \in Confirmed, NEW start \in Int, NEW dur \in Nat \ {0}
    PROVE  Touches(b, start, dur) <=>
            Meet(start, start + Ticks(dur), booking[b].start, FreeAgain(b))
<1> DEFINE u == booking[b].start
           e == start + Ticks(dur)
<1>1. u \in Int /\ FreeAgain(b) \in Int /\ u < FreeAgain(b)
  BY ConfirmedRow
<1>2. e \in Int /\ start < e
  <2>1. Ticks(dur) \in Int /\ Ticks(dur) > 0
    BY TicksType, ScheduleAssumption
  <2> QED
    BY <2>1
<1>3. Touches(b, start, dur) <=> (start .. e - 1) \cap (u .. FreeAgain(b) - 1) # {}
  BY <1>1, <1>2, TicksType DEF Touches
<1> HIDE DEF u, e
<1>4. Meet(start, e, u, FreeAgain(b)) <=>
        (start .. e - 1) \cap (u .. FreeAgain(b) - 1) # {}
  BY <1>1, <1>2, MeetIsShared
<1> QED
  BY <1>3, <1>4 DEF u, e

\* The slots offered, and those accepted.
LEMMA OfferIsRight == IInv => OfferedIsAccepted
<1> SUFFICES ASSUME IInv, NEW day \in 0 .. Days - 1, NEW dur \in Durations
             PROVE  Offered(hours, dur) =
                      {minute \in 0 .. DayLength - 1 :
                        /\ Accepted(hours, SlotAt(day, minute), dur)
                        /\ (minute - hours.workStart) % SlotStep = 0}
  BY DEF OfferedIsAccepted
<1>1. dur \in Nat \ {0} /\ DayLength \in Nat /\ day \in Int
  BY ScheduleAssumption
<1>2. hours.workStart \in Nat /\ hours.workEnd \in 0 .. DayLength
  BY HoursType DEF IInv
<1>3. hours.workStart .. hours.workEnd - dur \subseteq 0 .. DayLength - 1
  BY <1>1, <1>2
<1>4. ASSUME NEW m \in 0 .. DayLength - 1
      PROVE  MinuteOf(SlotAt(day, m)) = m
  BY <1>1, SlotMinute
<1>5. ASSUME NEW m \in 0 .. DayLength - 1
      PROVE  m \in hours.workStart .. hours.workEnd - dur
                <=> m >= hours.workStart /\ m + dur <= hours.workEnd
  BY <1>1, <1>2
<1>6. ASSUME NEW m \in 0 .. DayLength - 1
      PROVE  Accepted(hours, SlotAt(day, m), dur) <=>
                /\ hours.open
                /\ m \in hours.workStart .. hours.workEnd - dur
                /\ hours.hasBreak => ~Meet(m, m + dur, hours.breakStart, hours.breakEnd)
  BY <1>4, <1>5 DEF Accepted
<1> QED
  BY <1>3, <1>6 DEF Offered

\* What the creation finds.
LEMMA CreationIsRight == IInv => CreationCounts
<1> SUFFICES ASSUME IInv, NEW start \in Starts, NEW dur \in Durations
             PROVE  CreationOverlaps(start, dur) =
                        {b \in Confirmed :
                            /\ Touches(b, start, dur)
                            /\ booking[b].start >= start - Ticks(dur + Buffer)}
  BY DEF CreationCounts
<1>1. start \in Int /\ dur \in Nat \ {0} /\ dur + Buffer \in Int
  BY ScheduleAssumption DEF Starts
<1>2. Ticks(dur) \in Int /\ Ticks(dur + Buffer) \in Int
  BY <1>1, TicksType
<1>3. ASSUME NEW b \in Confirmed
      PROVE  /\ booking[b].start \in start - Ticks(dur + Buffer) .. start + Ticks(dur)
             /\ Meet(start, start + Ticks(dur), booking[b].start, FreeAgain(b))
             <=> /\ Touches(b, start, dur)
                 /\ booking[b].start >= start - Ticks(dur + Buffer)
  <2>1. booking[b].start \in Int
    BY ConfirmedRow
  <2>2. Touches(b, start, dur) <=>
          Meet(start, start + Ticks(dur), booking[b].start, FreeAgain(b))
    BY <1>1, TouchesIsMeet
  <2> QED
    BY <1>1, <1>2, <2>1, <2>2 DEF Meet
<1> QED
  BY <1>3 DEF CreationOverlaps

\* What the query counts, a booking of the day at a time.
LEMMA CountedOne ==
    ASSUME IInv, NEW day \in Int, NEW minute \in 0 .. DayLength - 1,
           NEW dur \in Durations, NEW b \in Confirmed, DayOf(booking[b].start) = day
    PROVE  Meet(minute, minute + dur, MinuteOf(booking[b].start),
                MinuteOf(booking[b].start) + booking[b].dur + Buffer)
           <=> /\ Touches(b, SlotAt(day, minute), dur)
               /\ FreeAgain(b) >= SlotAt(day, minute) + Minute
<1> DEFINE start == SlotAt(day, minute)
           base  == day * DayLength
           from  == MinuteOf(booking[b].start)
           total == booking[b].dur + Buffer
<1>1. /\ dur \in Nat \ {0} /\ minute \in Int /\ start \in Int /\ base \in Int
      /\ Minute \in Nat \ {0}
  BY SlotMinute, ScheduleAssumption
<1>2. booking[b].start \in Int /\ booking[b].dur \in Nat /\ total \in Int
  BY ConfirmedRow, ScheduleAssumption
<1>3. from \in Int
  BY <1>2, DayAndMinute, ScheduleAssumption
<1>4. PICK f \in 0 .. Minute - 1 : booking[b].start = Ticks(base + from) + f
  BY <1>2, DayAndMinute DEF SlotAt
<1>5. start = Ticks(base + minute)
  BY DEF SlotAt
<1>6. FreeAgain(b) = booking[b].start + Ticks(total)
  BY DEF FreeAgain
<1>7. Touches(b, start, dur) <=>
        start < FreeAgain(b) /\ booking[b].start < start + Ticks(dur)
  BY <1>1, TouchesIsMeet DEF Meet
<1> HIDE DEF start, base, from, total
<1>8. /\ base + minute \in Int /\ base + from \in Int
      /\ base + (minute + dur) \in Int /\ base + (from + total) \in Int
      /\ base + (minute + dur) = (base + minute) + dur
      /\ base + (from + total) = (base + from) + total
  BY <1>1, <1>2, <1>3
<1>9. /\ Ticks(base + minute) \in Int /\ Ticks(base + from) \in Int
      /\ Ticks(dur) \in Int /\ Ticks(total) \in Int
      /\ Ticks(base + (minute + dur)) = Ticks(base + minute) + Ticks(dur)
      /\ Ticks(base + (from + total)) = Ticks(base + from) + Ticks(total)
  BY <1>1, <1>2, <1>8, TicksPlus, TicksType
<1>10. booking[b].start < start + Ticks(dur) <=> from < minute + dur
  <2>1. Ticks(base + from) + f < Ticks(base + (minute + dur))
            <=> base + from < base + (minute + dur)
    BY <1>8, TicksOrder
  <2> QED
    BY <1>1, <1>3, <1>4, <1>5, <1>9, <2>1
<1>11. FreeAgain(b) >= start + Minute <=> minute < from + total
  <2>1. PICK g \in 0 .. Minute - 1 : g = Minute - 1 - f
    <3>1. Minute - 1 - f \in 0 .. Minute - 1
      BY <1>1
    <3> QED
      BY <3>1
  <2>2. Ticks(base + minute) + g < Ticks(base + (from + total))
            <=> base + minute < base + (from + total)
    BY <1>8, TicksOrder
  <2>3. FreeAgain(b) = Ticks(base + (from + total)) + f
    BY <1>4, <1>6, <1>9
  <2>4. FreeAgain(b) >= start + Minute
            <=> Ticks(base + minute) + g < Ticks(base + (from + total))
    BY <1>1, <1>5, <1>8, <1>9, <2>1, <2>3, TicksType
  <2> QED
    BY <1>1, <1>2, <1>3, <2>2, <2>4
<1>12. FreeAgain(b) >= start + Minute => start < FreeAgain(b)
  BY <1>1, ConfirmedRow
<1>13. from + total = from + booking[b].dur + Buffer
  BY <1>2, <1>3, ScheduleAssumption DEF total
<1>14. Meet(minute, minute + dur, from, from + booking[b].dur + Buffer)
        <=> Touches(b, start, dur) /\ FreeAgain(b) >= start + Minute
  BY <1>7, <1>10, <1>11, <1>12, <1>13 DEF Meet
<1> QED
  BY <1>14 DEF start, from

LEMMA QueryIsRight == IInv => QueryCounts
<1> SUFFICES ASSUME IInv, NEW day \in 0 .. Days - 1,
                    NEW minute \in 0 .. DayLength - 1, NEW dur \in Durations
             PROVE  Counted(day, minute, dur) =
                        {b \in Confirmed :
                            /\ Touches(b, SlotAt(day, minute), dur)
                            /\ DayOf(booking[b].start) = day
                            /\ FreeAgain(b) >= SlotAt(day, minute) + Minute}
  BY DEF QueryCounts
<1>1. day \in Int
  OBVIOUS
<1> QED
  BY <1>1, CountedOne DEF Counted

LEMMA CountsAreRight == IInv => CountsDiffer
BY CreationIsRight, QueryIsRight DEF CountsDiffer

-----------------------------------------------------------------------------
(***************************************************************************)
(* Steps.                                                                  *)
(***************************************************************************)

\* No step changes the time of a row that exists.
Kept ==
    \A b \in Bookings : Exists(b) =>
        /\ Exists(b)'
        /\ booking'[b].start = booking[b].start
        /\ booking'[b].dur = booking[b].dur

LEMMA OverlapKept ==
    ASSUME Kept, NEW b \in Bookings, NEW c \in Bookings, Exists(b), Exists(c)
    PROVE  Overlap(b, c)' <=> Overlap(b, c)
BY DEF Kept, Overlap, Meet, EndOf

LEMMA TooEarlyKept ==
    ASSUME Kept, NEW b \in Bookings, NEW c \in Bookings, Exists(b), Exists(c)
    PROVE  TooEarlyFor(c, b)' <=> TooEarlyFor(c, b)
BY DEF Kept, TooEarlyFor

LEMMA OverlapSymmetric ==
    ASSUME NEW b, NEW c
    PROVE  Overlap(b, c) <=> Overlap(c, b)
BY DEF Overlap, Meet

\* A row that is CONFIRMED exists.
LEMMA ConfirmedExists ==
    ASSUME NEW b \in Confirmed
    PROVE  b \in Bookings /\ booking[b].status = "CONFIRMED" /\ Exists(b)
BY DEF Confirmed, Exists

\* What was reported stays right as long as rows keep their times.
LEMMA AlarmsKept ==
    ASSUME IInv, Kept, NEW b \in Bookings, NEW c \in told[b]
    PROVE  Overlap(b, c)' /\ Exists(b)' /\ Exists(c)'
<1>1. c \in Bookings
  BY DEF IInv, TypeOK
<1>2. Exists(b) /\ Exists(c) /\ Overlap(b, c)
  BY DEF IInv, WarningsAreRight, ToldExists, NoFalseAlarm
<1> QED
  BY <1>1, <1>2, OverlapKept DEF Kept

\* A step that confirms nothing, and begins no confirmation.
LEMMA QuietStep ==
    ASSUME IInv, TypeOK', RowsAreReal', IdsFree', Kept, Confirmed' \subseteq Confirmed,
           UNCHANGED <<told, together>>,
           \A r \in Slots, b \in Bookings :
                Confirming(r, b)' => Confirming(r, b) /\ req'[r] = req[r]
    PROVE  IInv'
<1>1. InFlightMet'
  BY DEF IInv, InFlightMet
<1>2. SeenOverlaps'
  <2> SUFFICES ASSUME NEW r \in Slots, NEW b \in Bookings, Confirming(r, b)'
               PROVE  /\ Exists(b)'
                      /\ \A c \in req'[r].seen : Exists(c)' /\ Overlap(b, c)'
    BY DEF SeenOverlaps
  <2>1. Confirming(r, b) /\ req'[r] = req[r]
    OBVIOUS
  <2>2. Exists(b) /\ \A c \in req[r].seen : Exists(c) /\ Overlap(b, c)
    BY <2>1 DEF IInv, SeenOverlaps
  <2>3. req[r].seen \subseteq Bookings
    BY <2>1 DEF IInv, TypeOK, Request, Confirming, Idle
  <2> QED
    BY <2>1, <2>2, <2>3, OverlapKept DEF Kept
<1>3. SeenAll'
  <2> SUFFICES ASSUME NEW r \in Slots, NEW b \in Bookings, NEW c \in Bookings,
                      Confirming(r, b)', booking'[c].status = "CONFIRMED", b # c,
                      Overlap(b, c)'
               PROVE  \/ c \in req'[r].seen
                      \/ {b, c} \in together'
                      \/ TooEarlyFor(c, b)'
    BY DEF SeenAll
  <2>1. Confirming(r, b) /\ req'[r] = req[r]
    OBVIOUS
  <2>2. c \in Confirmed
    BY DEF Confirmed
  <2>3. Exists(b) /\ Exists(c)
    BY <2>1, <2>2, ConfirmedExists DEF IInv, SeenOverlaps
  <2>4. Overlap(b, c)
    BY <2>3, OverlapKept
  <2>5. \/ c \in req[r].seen
        \/ {b, c} \in together
        \/ TooEarlyFor(c, b)
    BY <2>1, <2>2, <2>4, ConfirmedExists DEF IInv, SeenAll
  <2> QED
    BY <2>1, <2>3, <2>5, TooEarlyKept
<1>4. ToldExists'
  BY AlarmsKept DEF ToldExists
<1>5. ASSUME NEW b \in Confirmed', NEW c \in Confirmed', b # c, Overlap(b, c)'
      PROVE  \/ b \in told'[c]
             \/ c \in told'[b]
             \/ {b, c} \in together'
             \/ TooEarlyFor(b, c)'
             \/ TooEarlyFor(c, b)'
  <2>1. b \in Confirmed /\ c \in Confirmed
    OBVIOUS
  <2>2. b \in Bookings /\ c \in Bookings /\ Exists(b) /\ Exists(c)
    BY <2>1, ConfirmedExists
  <2>3. Overlap(b, c)
    BY <1>5, <2>2, OverlapKept
  <2>4. \/ b \in told[c]
        \/ c \in told[b]
        \/ {b, c} \in together
        \/ TooEarlyFor(b, c)
        \/ TooEarlyFor(c, b)
    BY <1>5, <2>1, <2>3 DEF IInv, WarningsAreRight, OverlapIsTold
  <2> QED
    BY <2>2, <2>4, TooEarlyKept
<1>6. OverlapIsTold'
  BY <1>5 DEF OverlapIsTold
<1>7. NoFalseAlarm'
  BY AlarmsKept DEF NoFalseAlarm
<1>8. WarningsAreRight'
  BY <1>6, <1>7 DEF WarningsAreRight
<1> QED
  BY <1>1, <1>2, <1>3, <1>4, <1>8 DEF IInv

LEMMA CreateRead ==
    ASSUME IInv, NEW r \in Slots, NEW b \in Bookings, NEW start \in Starts,
           NEW dur \in Durations, ReadToCreate(r, b, start, dur)
    PROVE  IInv'
<1> DEFINE work == [op |-> "Create", booking |-> b, start |-> start, dur |-> dur]
<1>1. /\ ~Exists(b)
      /\ \A q \in Slots : req[q].op = "Create" => req[q].booking # b
      /\ req' = [req EXCEPT ![r] = work]
      /\ UNCHANGED <<booking, hours, told, together>>
  BY DEF ReadToCreate, Exists
<1>2. work \in Request
  BY DEF Request
<1>3. TypeOK'
  <2> HIDE DEF work
  <2> QED
    BY <1>1, <1>2 DEF IInv, TypeOK
<1>4. req'[r] = work /\ \A q \in Slots \ {r} : req'[q] = req[q]
  <2> HIDE DEF work
  <2> QED
    BY <1>1 DEF IInv, TypeOK
<1>5. work.op = "Create" /\ work.booking = b
  OBVIOUS
<1> HIDE DEF work
<1>6. IdsFree'
  BY <1>1, <1>4, <1>5 DEF IInv, IdsFree, Exists
<1>7. RowsAreReal' /\ Kept /\ Confirmed' \subseteq Confirmed
  BY <1>1 DEF IInv, RowsAreReal, Kept, Confirmed, Exists
<1>8. \A q \in Slots, c \in Bookings :
        Confirming(q, c)' => Confirming(q, c) /\ req'[q] = req[q]
  BY <1>4, <1>5 DEF Confirming
<1> QED
  BY <1>1, <1>3, <1>6, <1>7, <1>8, QuietStep

LEMMA InsertStep ==
    ASSUME IInv, NEW r \in Slots, Insert(r)
    PROVE  IInv'
<1> DEFINE b == req[r].booking
           row == [status |-> "PENDING", start |-> req[r].start, dur |-> req[r].dur]
<1>1. /\ req[r].op = "Create"
      /\ booking' = [booking EXCEPT ![b] = row]
      /\ req' = [req EXCEPT ![r] = Idle]
      /\ UNCHANGED <<hours, told, together>>
  BY DEF Insert
<1>2. b \in Bookings /\ req[r].start \in Starts /\ req[r].dur \in Durations
  BY <1>1 DEF IInv, TypeOK, Request, Idle
<1>3. row \in Row /\ row.status = "PENDING" /\ row.dur \in Durations
  BY <1>2 DEF Row, Status
<1>4. ~Exists(b) /\ \A q \in Slots \ {r} : req[q].op = "Create" => req[q].booking # b
  BY <1>1 DEF IInv, IdsFree
<1> HIDE DEF b, row
<1>5. TypeOK'
  BY <1>1, <1>2, <1>3 DEF IInv, TypeOK, Request
<1>6. /\ req'[r] = Idle /\ \A q \in Slots \ {r} : req'[q] = req[q]
      /\ booking'[b] = row /\ \A c \in Bookings \ {b} : booking'[c] = booking[c]
  BY <1>1, <1>2 DEF IInv, TypeOK
<1>7. RowsAreReal' /\ Kept /\ Confirmed' \subseteq Confirmed
  BY <1>3, <1>4, <1>6 DEF IInv, RowsAreReal, Kept, Confirmed, Exists
<1>8. IdsFree'
  <2> SUFFICES ASSUME NEW q \in Slots, req'[q].op = "Create"
               PROVE  /\ ~Exists(req[q].booking)'
                      /\ \A p \in Slots \ {q} : req'[p].op = "Create" =>
                            req'[p].booking # req'[q].booking
    BY DEF IdsFree
  <2>1. q # r /\ req'[q] = req[q]
    BY <1>6 DEF Idle
  <2>2. /\ ~Exists(req[q].booking) /\ req[q].booking # b
        /\ req[q].booking \in Bookings
    BY <1>4, <2>1 DEF IInv, IdsFree, TypeOK, Request, Idle
  <2>3. ~Exists(req[q].booking)'
    BY <1>6, <2>1, <2>2 DEF Exists
  <2>4. \A p \in Slots \ {q} : req'[p].op = "Create" => p # r /\ req'[p] = req[p]
    BY <1>6 DEF Idle
  <2> QED
    BY <2>1, <2>3, <2>4 DEF IInv, IdsFree
<1>9. \A q \in Slots, c \in Bookings :
        Confirming(q, c)' => Confirming(q, c) /\ req'[q] = req[q]
  BY <1>6 DEF Confirming, Idle
<1> QED
  BY <1>1, <1>5, <1>7, <1>8, <1>9, QuietStep

LEMMA CloseStep ==
    ASSUME IInv, NEW b \in Bookings, Close(b)
    PROVE  IInv'
<1> DEFINE row == [booking[b] EXCEPT !.status = "CLOSED"]
<1>1. /\ booking[b].status \in {"PENDING", "CONFIRMED"}
      /\ booking' = [booking EXCEPT ![b] = row]
      /\ UNCHANGED <<hours, req, told, together>>
  BY DEF Close
<1>2. booking[b] \in Row
  BY DEF IInv, TypeOK
<1>3. /\ row \in Row /\ row.status = "CLOSED"
      /\ row.start = booking[b].start /\ row.dur = booking[b].dur
  BY <1>2 DEF Row, Status
<1> HIDE DEF row
<1>4. TypeOK'
  BY <1>1, <1>3 DEF IInv, TypeOK
<1>5. booking'[b] = row /\ \A c \in Bookings \ {b} : booking'[c] = booking[c]
  BY <1>1 DEF IInv, TypeOK
<1>6. RowsAreReal' /\ Kept /\ Confirmed' \subseteq Confirmed
  BY <1>1, <1>3, <1>5 DEF IInv, RowsAreReal, Kept, Confirmed, Exists
<1>7. IdsFree'
  <2>1. \A q \in Slots : req[q].op = "Create" =>
            req[q].booking \in Bookings /\ req[q].booking # b
    BY <1>1 DEF IInv, IdsFree, Exists, TypeOK, Request, Idle
  <2> QED
    BY <1>1, <1>5, <2>1 DEF IInv, IdsFree, Exists
<1>8. \A q \in Slots, c \in Bookings :
        Confirming(q, c)' => Confirming(q, c) /\ req'[q] = req[q]
  BY <1>1 DEF Confirming
<1> QED
  BY <1>1, <1>4, <1>6, <1>7, <1>8, QuietStep

\* A change of the hours, and no change at all.
LEMMA HoursStep ==
    ASSUME IInv, hours' \in HoursChoices, UNCHANGED <<booking, req, told, together>>
    PROVE  IInv'
<1>1. TypeOK' /\ RowsAreReal' /\ IdsFree' /\ Kept /\ Confirmed' \subseteq Confirmed
  BY DEF IInv, TypeOK, RowsAreReal, IdsFree, Kept, Confirmed, Exists
<1>2. \A q \in Slots, c \in Bookings :
        Confirming(q, c)' => Confirming(q, c) /\ req'[q] = req[q]
  BY DEF Confirming
<1> QED
  BY <1>1, <1>2, QuietStep

-----------------------------------------------------------------------------

\* A confirmation begins: it sees what overlaps, and meets those in flight.
LEMMA ConfirmRead ==
    ASSUME IInv, NEW r \in Slots, NEW b \in Bookings, ReadToConfirm(r, b)
    PROVE  IInv'
<1> DEFINE seen == ConfirmationOverlaps(b)
           work == [op |-> "Confirm", booking |-> b, seen |-> seen]
           met == {{b, req[q].booking} : q \in {p \in Slots : req[p].op = "Confirm"}}
<1>1. /\ req[r] = Idle
      /\ booking[b].status = "PENDING"
      /\ req' = [req EXCEPT ![r] = work]
      /\ together' = together \cup met
      /\ UNCHANGED <<booking, hours, told>>
  BY DEF ReadToConfirm
<1>2. seen \subseteq Bookings
  BY DEF ConfirmationOverlaps, Confirmed
<1>3. work \in Request
  <2> HIDE DEF seen
  <2> QED
    BY <1>2 DEF Request
<1>4. met \subseteq SUBSET Bookings
  BY DEF IInv, TypeOK, Request, Idle
<1>5. work.op = "Confirm" /\ work.booking = b /\ work.seen = seen
  OBVIOUS
<1>6. \A q \in Slots, c \in Bookings : Confirming(q, c) => {b, c} \in together'
  BY <1>1 DEF Confirming
<1> HIDE DEF work, met, seen
<1>7. TypeOK'
  BY <1>1, <1>3, <1>4 DEF IInv, TypeOK
<1>8. req'[r] = work /\ \A q \in Slots \ {r} : req'[q] = req[q]
  BY <1>1 DEF IInv, TypeOK
<1>9. ~Confirming(r, b) /\ \A q \in Slots, c \in Bookings :
            Confirming(q, c)' =>
                /\ q = r => c = b
                /\ q # r => Confirming(q, c) /\ req'[q] = req[q]
  BY <1>1, <1>5, <1>8 DEF Confirming, Idle
<1>10. RowsAreReal' /\ IdsFree'
  BY <1>1, <1>5, <1>8 DEF IInv, RowsAreReal, IdsFree, Exists
<1>11. InFlightMet'
  <2> SUFFICES ASSUME NEW p \in Slots, NEW q \in Slots,
                      NEW c \in Bookings, NEW d \in Bookings,
                      p # q, Confirming(p, c)', Confirming(q, d)'
               PROVE  {c, d} \in together'
    BY DEF InFlightMet
  <2>1. CASE p = r
    <3>1. c = b /\ Confirming(q, d)
      BY <1>9, <2>1
    <3> QED
      BY <1>6, <3>1
  <2>2. CASE q = r
    <3>1. d = b /\ Confirming(p, c) /\ {c, d} = {d, c}
      BY <1>9, <2>2
    <3> QED
      BY <1>6, <3>1
  <2>3. CASE p # r /\ q # r
    BY <1>1, <1>9, <2>3 DEF IInv, InFlightMet
  <2> QED
    BY <2>1, <2>2, <2>3
<1>12. \A c \in seen : c \in Confirmed /\ Overlap(b, c)
  BY DEF seen, ConfirmationOverlaps, Overlap, EndOf, Meet
<1>13. \A c, d \in Bookings :
            /\ Exists(c)' <=> Exists(c)
            /\ Overlap(c, d)' <=> Overlap(c, d)
            /\ TooEarlyFor(c, d)' <=> TooEarlyFor(c, d)
  BY <1>1 DEF Exists, Overlap, EndOf, Meet, TooEarlyFor
<1>14. SeenOverlaps'
  <2> SUFFICES ASSUME NEW q \in Slots, NEW d \in Bookings, Confirming(q, d)'
               PROVE  /\ Exists(d)'
                      /\ \A c \in req'[q].seen : Exists(c)' /\ Overlap(d, c)'
    BY DEF SeenOverlaps
  <2>1. CASE q = r
    <3>1. d = b /\ req'[q].seen = seen
      BY <1>5, <1>8, <1>9, <2>1
    <3> QED
      BY <1>1, <1>2, <1>12, <1>13, <3>1, ConfirmedExists DEF Exists
  <2>2. CASE q # r
    <3>1. Confirming(q, d) /\ req'[q] = req[q]
      BY <1>9, <2>2
    <3>2. Exists(d) /\ \A c \in req[q].seen : Exists(c) /\ Overlap(d, c)
      BY <3>1 DEF IInv, SeenOverlaps
    <3>3. req[q].seen \subseteq Bookings
      BY <3>1 DEF IInv, TypeOK, Request, Confirming, Idle
    <3> QED
      BY <1>13, <3>1, <3>2, <3>3
  <2> QED
    BY <2>1, <2>2
<1>15. SeenAll'
  <2> SUFFICES ASSUME NEW q \in Slots, NEW d \in Bookings, NEW c \in Bookings,
                      Confirming(q, d)', booking'[c].status = "CONFIRMED", d # c,
                      Overlap(d, c)'
               PROVE  \/ c \in req'[q].seen
                      \/ {d, c} \in together'
                      \/ TooEarlyFor(c, d)'
    BY DEF SeenAll
  <2>1. c \in Confirmed /\ Overlap(d, c)
    BY <1>1, <1>13 DEF Confirmed
  <2>2. CASE q = r
    <3>1. d = b /\ req'[q].seen = seen
      BY <1>5, <1>8, <1>9, <2>2
    <3>2. c \in Bookings /\ booking[c].start \in Int /\ booking[b].start \in Int
      BY RowType DEF IInv
    <3>3. Ticks(booking[b].dur) \in Int
      BY RowType, TicksType DEF IInv
    <3>4. \/ TooEarlyFor(c, b)
          \/ booking[c].start >= booking[b].start - Ticks(booking[b].dur)
      BY <3>2, <3>3 DEF TooEarlyFor
    <3>5. ASSUME booking[c].start >= booking[b].start - Ticks(booking[b].dur)
          PROVE  c \in seen
      BY <2>1, <3>1, <3>5 DEF seen, ConfirmationOverlaps, Overlap, Meet
    <3> QED
      BY <1>13, <3>1, <3>4, <3>5
  <2>3. CASE q # r
    <3>1. Confirming(q, d) /\ req'[q] = req[q]
      BY <1>9, <2>3
    <3> QED
      BY <1>1, <1>13, <2>1, <3>1, ConfirmedExists DEF IInv, SeenAll
  <2> QED
    BY <2>2, <2>3
<1>16. ToldExists' /\ NoFalseAlarm'
  <2>1. told \in [Bookings -> SUBSET Bookings]
    BY DEF IInv, TypeOK
  <2> QED
    BY <1>1, <1>13, <2>1 DEF IInv, WarningsAreRight, ToldExists, NoFalseAlarm
<1>17. OverlapIsTold'
  BY <1>1, <1>13 DEF IInv, WarningsAreRight, OverlapIsTold, Confirmed
<1> QED
  BY <1>7, <1>10, <1>11, <1>14, <1>15, <1>16, <1>17 DEF IInv, WarningsAreRight

\* A confirmation is written: it reports what it saw.
LEMMA ConfirmWrite ==
    ASSUME IInv, NEW r \in Slots, WriteConfirmed(r)
    PROVE  IInv'
<1> DEFINE b == req[r].booking
           seen == req[r].seen
           row == [booking[b] EXCEPT !.status = "CONFIRMED"]
<1>1. /\ req[r].op = "Confirm"
      /\ booking' = [booking EXCEPT ![b] = row]
      /\ told' = [told EXCEPT ![b] = told[b] \cup seen]
      /\ req' = [req EXCEPT ![r] = Idle]
      /\ UNCHANGED <<hours, together>>
  BY DEF WriteConfirmed
<1>2. b \in Bookings /\ seen \subseteq Bookings
  BY <1>1 DEF IInv, TypeOK, Request, Idle
<1>3. Confirming(r, b)
  BY <1>1 DEF Confirming
<1>4. Exists(b) /\ \A c \in seen : Exists(c) /\ Overlap(b, c)
  BY <1>2, <1>3 DEF IInv, SeenOverlaps
<1>5. booking[b] \in Row
  BY <1>2 DEF IInv, TypeOK
<1>6. /\ row \in Row /\ row.status = "CONFIRMED"
      /\ row.start = booking[b].start /\ row.dur = booking[b].dur
  BY <1>5 DEF Row, Status
<1> HIDE DEF b, seen, row
<1>7. TypeOK'
  BY <1>1, <1>2, <1>6 DEF IInv, TypeOK, Request
<1>8. /\ req'[r] = Idle /\ \A q \in Slots \ {r} : req'[q] = req[q]
      /\ booking'[b] = row /\ \A c \in Bookings \ {b} : booking'[c] = booking[c]
      /\ told'[b] = told[b] \cup seen /\ \A c \in Bookings \ {b} : told'[c] = told[c]
  BY <1>1, <1>2 DEF IInv, TypeOK
<1>9. RowsAreReal' /\ Kept /\ Confirmed' \subseteq Confirmed \cup {b}
  BY <1>4, <1>6, <1>8 DEF IInv, RowsAreReal, Kept, Confirmed, Exists
<1>10. \A q \in Slots, c \in Bookings :
        Confirming(q, c)' => q # r /\ Confirming(q, c) /\ req'[q] = req[q]
  BY <1>8 DEF Confirming, Idle
<1>11. IdsFree'
  <2> SUFFICES ASSUME NEW q \in Slots, req'[q].op = "Create"
               PROVE  /\ ~Exists(req[q].booking)'
                      /\ req'[q] = req[q]
                      /\ \A p \in Slots \ {q} : req'[p].op = "Create" =>
                            req'[p].booking # req'[q].booking
    BY DEF IdsFree, Exists
  <2>1. q # r /\ req'[q] = req[q]
    BY <1>8 DEF Idle
  <2>2. ~Exists(req[q].booking) /\ req[q].booking \in Bookings
    BY <2>1 DEF IInv, IdsFree, TypeOK, Request, Idle
  <2>3. ~Exists(req[q].booking)'
    BY <1>4, <1>8, <2>1, <2>2 DEF Exists
  <2>4. \A p \in Slots \ {q} : req'[p].op = "Create" => p # r /\ req'[p] = req[p]
    BY <1>8 DEF Idle
  <2> QED
    BY <2>1, <2>3, <2>4 DEF IInv, IdsFree
<1>12. InFlightMet'
  BY <1>1, <1>10 DEF IInv, InFlightMet
<1>13. SeenOverlaps'
  <2> SUFFICES ASSUME NEW q \in Slots, NEW d \in Bookings, Confirming(q, d)'
               PROVE  /\ Exists(d)'
                      /\ \A c \in req'[q].seen : Exists(c)' /\ Overlap(d, c)'
    BY DEF SeenOverlaps
  <2>1. Confirming(q, d) /\ req'[q] = req[q]
    BY <1>10
  <2>2. Exists(d) /\ \A c \in req[q].seen : Exists(c) /\ Overlap(d, c)
    BY <2>1 DEF IInv, SeenOverlaps
  <2>3. req[q].seen \subseteq Bookings
    BY <2>1 DEF IInv, TypeOK, Request, Confirming, Idle
  <2> QED
    BY <1>9, <2>1, <2>2, <2>3, OverlapKept DEF Kept
<1>14. SeenAll'
  <2> SUFFICES ASSUME NEW q \in Slots, NEW d \in Bookings, NEW c \in Bookings,
                      Confirming(q, d)', booking'[c].status = "CONFIRMED", d # c,
                      Overlap(d, c)'
               PROVE  \/ c \in req'[q].seen
                      \/ {d, c} \in together'
                      \/ TooEarlyFor(c, d)'
    BY DEF SeenAll
  <2>1. q # r /\ Confirming(q, d) /\ req'[q] = req[q]
    BY <1>10
  <2>2. CASE c = b
    <3>1. {d, c} \in together
      BY <1>3, <2>1, <2>2 DEF IInv, InFlightMet
    <3> QED
      BY <1>1, <3>1
  <2>3. CASE c # b
    <3>1. c \in Confirmed
      BY <1>8, <2>3 DEF Confirmed
    <3>2. Exists(d) /\ Exists(c)
      BY <2>1, <3>1, ConfirmedExists DEF IInv, SeenOverlaps
    <3>3. Overlap(d, c)
      BY <1>9, <3>2, OverlapKept
    <3>4. \/ c \in req[q].seen
          \/ {d, c} \in together
          \/ TooEarlyFor(c, d)
      BY <2>1, <3>1, <3>3, ConfirmedExists DEF IInv, SeenAll
    <3> QED
      BY <1>1, <1>9, <2>1, <3>2, <3>4, TooEarlyKept
  <2> QED
    BY <2>2, <2>3
<1>15. \A d \in Bookings : \A c \in told'[d] :
            Exists(d)' /\ Exists(c)' /\ Overlap(d, c)'
  <2> SUFFICES ASSUME NEW d \in Bookings, NEW c \in told'[d]
               PROVE  Exists(d)' /\ Exists(c)' /\ Overlap(d, c)'
    OBVIOUS
  <2>1. CASE c \in told[d]
    BY <1>9, <2>1, AlarmsKept
  <2>2. CASE d = b /\ c \in seen
    BY <1>2, <1>4, <1>9, <2>2, OverlapKept DEF Kept
  <2> QED
    BY <1>8, <2>1, <2>2
<1>16. OverlapIsTold'
  <2>1. ASSUME NEW c \in Confirmed, b # c, Overlap(b, c)
        PROVE  \/ c \in told'[b]
               \/ {b, c} \in together'
               \/ TooEarlyFor(c, b)
    <3>1. c \in Bookings /\ Exists(c)
      BY ConfirmedExists
    <3>2. \/ c \in seen
          \/ {b, c} \in together
          \/ TooEarlyFor(c, b)
      BY <1>2, <1>3, <2>1, ConfirmedExists DEF IInv, SeenAll, seen
    <3> QED
      BY <1>1, <1>2, <1>8, <3>2
  <2> SUFFICES ASSUME NEW c \in Confirmed', NEW d \in Confirmed', c # d, Overlap(c, d)'
               PROVE  \/ c \in told'[d]
                      \/ d \in told'[c]
                      \/ {c, d} \in together'
                      \/ TooEarlyFor(c, d)'
                      \/ TooEarlyFor(d, c)'
    BY DEF OverlapIsTold
  <2>2. /\ c \in Bookings /\ d \in Bookings
        /\ c # b => c \in Confirmed
        /\ d # b => d \in Confirmed
        /\ Exists(c) /\ Exists(d)
    BY <1>2, <1>4, <1>9, ConfirmedExists
  <2>3. Overlap(c, d) /\ Overlap(d, c)
    BY <1>9, <2>2, OverlapKept, OverlapSymmetric
  <2>4. CASE c = b
    BY <1>9, <2>1, <2>2, <2>3, <2>4, TooEarlyKept
  <2>5. CASE d = b
    <3>1. {c, d} = {d, c}
      OBVIOUS
    <3> QED
      BY <1>9, <2>1, <2>2, <2>3, <2>5, <3>1, TooEarlyKept
  <2>6. CASE c # b /\ d # b
    <3>1. c \in Confirmed /\ d \in Confirmed
      BY <2>2, <2>6
    <3>2. \/ c \in told[d]
          \/ d \in told[c]
          \/ {c, d} \in together
          \/ TooEarlyFor(c, d)
          \/ TooEarlyFor(d, c)
      BY <2>3, <3>1 DEF IInv, WarningsAreRight, OverlapIsTold
    <3> QED
      BY <1>1, <1>8, <1>9, <2>2, <2>6, <3>2, TooEarlyKept
  <2> QED
    BY <2>4, <2>5, <2>6
<1>17. ToldExists' /\ NoFalseAlarm'
  BY <1>15 DEF ToldExists, NoFalseAlarm
<1> QED
  BY <1>7, <1>9, <1>11, <1>12, <1>13, <1>14, <1>16, <1>17 DEF IInv, WarningsAreRight

-----------------------------------------------------------------------------

LEMMA InitEstablishes == Init => IInv
<1> SUFFICES ASSUME Init PROVE IInv
  OBVIOUS
<1>1. /\ booking = [b \in Bookings |-> NoRow]
      /\ hours \in HoursChoices
      /\ req = [r \in Slots |-> Idle]
      /\ told = [b \in Bookings |-> {}]
      /\ together = {}
  BY DEF Init
<1>2. 0 \in Starts
  <2>1. Days * DayLength \in Nat \ {0}
    BY ScheduleAssumption
  <2>2. Ticks(Days * DayLength) \in Nat \ {0}
    BY <2>1, TicksType, ScheduleAssumption
  <2> QED
    BY <2>2 DEF Starts
<1>3. NoRow \in Row /\ NoRow.status = "ABSENT"
  BY <1>2 DEF NoRow, Row, Status
<1>4. TypeOK
  BY <1>1, <1>3 DEF TypeOK, Request
<1>5. \A b \in Bookings : booking[b].status = "ABSENT" /\ told[b] = {}
  BY <1>1, <1>3
<1>6. \A r \in Slots : req[r].op = "Idle"
  BY <1>1 DEF Idle
<1>7. RowsAreReal /\ IdsFree /\ InFlightMet /\ SeenOverlaps /\ SeenAll /\ ToldExists
  BY <1>5, <1>6 DEF RowsAreReal, IdsFree, InFlightMet, SeenOverlaps, SeenAll,
                    ToldExists, Confirming, Exists
<1>8. OverlapIsTold /\ NoFalseAlarm
  BY <1>5 DEF OverlapIsTold, NoFalseAlarm, Confirmed
<1> QED
  BY <1>4, <1>7, <1>8 DEF IInv, WarningsAreRight

LEMMA NextPreserves == IInv /\ [Next]_vars => IInv'
<1> SUFFICES ASSUME IInv, [Next]_vars PROVE IInv'
  OBVIOUS
<1>1. ASSUME NEW r \in Slots, NEW b \in Bookings, NEW start \in Starts,
             NEW dur \in Durations, ReadToCreate(r, b, start, dur)
      PROVE  IInv'
  BY <1>1, CreateRead
<1>2. ASSUME NEW r \in Slots, NEW b \in Bookings, ReadToConfirm(r, b)
      PROVE  IInv'
  BY <1>2, ConfirmRead
<1>3. ASSUME NEW r \in Slots, Insert(r) \/ WriteConfirmed(r)
      PROVE  IInv'
  BY <1>3, InsertStep, ConfirmWrite
<1>4. ASSUME NEW b \in Bookings, Close(b)
      PROVE  IInv'
  BY <1>4, CloseStep
<1>5. ASSUME NEW h \in HoursChoices, SetHours(h)
      PROVE  IInv'
  BY <1>5, HoursStep DEF SetHours
<1>6. CASE UNCHANGED vars
  <2>1. hours' \in HoursChoices /\ UNCHANGED <<booking, req, told, together>>
    BY <1>6 DEF vars, IInv, TypeOK
  <2> QED
    BY <2>1, HoursStep
<1> QED
  BY <1>1, <1>2, <1>3, <1>4, <1>5, <1>6 DEF Next

LEMMA AlwaysIInv == Spec => []IInv
<1>1. Init => IInv
  BY InitEstablishes
<1>2. IInv /\ [Next]_vars => IInv'
  BY NextPreserves
<1> QED
  BY <1>1, <1>2, PTL DEF Spec

-----------------------------------------------------------------------------
(***************************************************************************)
(* The theorems.                                                           *)
(***************************************************************************)

\* Every row has a start and a duration of the calendar, every request in flight
\* is one of the handlers'.
THEOREM TypeCorrect == Spec => []TypeOK
<1>1. IInv => TypeOK
  BY DEF IInv
<1> QED
  BY <1>1, AlwaysIInv, PTL

\* Whatever the hours, durations and grid: GetAvailableSlotsHandler offers of a
\* day exactly the starts on its grid that validateBookingSlot accepts.
THEOREM AlwaysOfferedIsAccepted == Spec => []OfferedIsAccepted
BY OfferIsRight, AlwaysIInv, PTL

\* Whatever is booked, at whatever instants: findOverlappingBookings finds the
\* bookings that touch the new one from its window on, GetAvailableSlotsHandler
\* those of the same day that run a whole minute into the slot.
THEOREM AlwaysCountsDiffer == Spec => []CountsDiffer
BY CountsAreRight, AlwaysIInv, PTL

\* ConfirmBookingHandler, however many run at once: each overlap of confirmed
\* bookings was reported, but for those of confirmations that met in flight and
\* those out of the window; and nothing else was reported.
THEOREM AlwaysWarned == Spec => []WarningsAreRight
<1>1. IInv => WarningsAreRight
  BY DEF IInv
<1> QED
  BY <1>1, AlwaysIInv, PTL
=============================================================================
