------------------------ MODULE MCNotificationManager ------------------------
(***************************************************************************)
(* Instances of NotificationManager for TLC.  With a limit of one, two     *)
(* contexts are still entered at a time: both pass the check of the limit  *)
(* before either is in the table.                                          *)
(***************************************************************************)
EXTENDS NotificationManager
=============================================================================
