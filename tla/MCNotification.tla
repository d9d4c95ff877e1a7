---------------------------- MODULE MCNotification ----------------------------
(***************************************************************************)
(* An instance of Notification for TLC.                                    *)
(***************************************************************************)
EXTENDS Notification

BothReminders == {"RAPPEL_24H", "RAPPEL_2H"}
=============================================================================
