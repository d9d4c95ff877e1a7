------------------------------ MODULE MCSchedule ------------------------------
(***************************************************************************)
(* Instances of Schedule for TLC: a few minutes of two ticks each.         *)
(***************************************************************************)
EXTENDS Schedule, TLC

AllDay == [open |-> TRUE, workStart |-> 0, workEnd |-> DayLength,
           hasBreak |-> FALSE, breakStart |-> 0, breakEnd |-> 0]
WithBreak == [open |-> TRUE, workStart |-> 1, workEnd |-> DayLength,
              hasBreak |-> TRUE, breakStart |-> DayLength - 3, breakEnd |-> DayLength - 1]
DayOff == [open |-> FALSE, workStart |-> 1, workEnd |-> DayLength - 1,
           hasBreak |-> FALSE, breakStart |-> 0, breakEnd |-> 0]

EveryHours == {AllDay, WithBreak, DayOff}

Symmetry == Permutations(Slots) \cup Permutations(Bookings)
=============================================================================
