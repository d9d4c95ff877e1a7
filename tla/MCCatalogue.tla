------------------------------ MODULE MCCatalogue ------------------------------
(***************************************************************************)
(* Instances of Catalogue for TLC.                                         *)
(***************************************************************************)
EXTENDS Catalogue, TLC

\* A long day and a late one; a break that lies in the first only.
LongAndLate == {<<0, 4>>, <<2, 4>>}
EarlyBreak == {<<1, 2>>}

\* Requests, names and days only matter by being different.
Alike == Permutations(Slots) \cup Permutations(Days)
=============================================================================
