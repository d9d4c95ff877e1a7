------------------------------ MODULE MCBooking ------------------------------
(***************************************************************************)
(* Instances of Booking for TLC.                                           *)
(***************************************************************************)
EXTENDS Booking, TLC

CONSTANTS b1, s1

OneBooking == {b1}
OneService == {s1}
AllForS1   == [b \in Bookings |-> s1]

SlotSymmetry == Permutations(Slots)
=============================================================================
