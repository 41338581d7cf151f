--------------------------- MODULE MCAdminReminders ---------------------------
(* Small instances of AdminReminders for TLC.                              *)
EXTENDS AdminReminders, TLC
==============================================================================
