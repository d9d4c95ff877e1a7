-------------------------------- MODULE MCPause --------------------------------
(***************************************************************************)
(* Professional with a history variable, for the promise about pauses.     *)
(***************************************************************************)
EXTENDS MCProfessional

VARIABLE asked      \* what the professional asked for last: a pause without a date?

AskedInit == Init /\ asked = FALSE

AskedNext ==
    /\ Next
    /\ asked' = IF \E p \in Slots : Save(p) /\ proc[p].op \in PauseOp
                THEN \E p \in Slots : Save(p) /\ proc[p].op = "Pause"
                ELSE asked

AskedSpec == AskedInit /\ [][AskedNext]_<<vars, asked>>

\* "If no date is given, the pause is indefinite" (professional.entity.ts:258): who
\* asked for such a pause, and not for anything else since, takes no bookings.
PauseIsIndefinite == asked => ~pro.isAcceptingBookings
=============================================================================
