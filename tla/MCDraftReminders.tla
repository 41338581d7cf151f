--------------------------- MODULE MCDraftReminders ---------------------------
(* Small instances of DraftReminders for TLC.                              *)
EXTENDS DraftReminders
==============================================================================
