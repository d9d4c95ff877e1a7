--------------------------- MODULE MCBookingEvents ---------------------------
(***************************************************************************)
(* Instances of BookingEvents for TLC.                                     *)
(***************************************************************************)
EXTENDS BookingEvents, TLC

CONSTANTS b1, b2, s1, s2

OneBooking  == {b1}
TwoBookings == {b1, b2}
OneService  == {s1}
TwoServices == {s1, s2}

\* Each booking is for a service of its own when there are two.
AllForS1 == [b \in Bookings |-> s1]
OneEach  == [b \in Bookings |-> IF b = b1 THEN s1 ELSE s2]

SlotSymmetry == Permutations(Slots)
=============================================================================
