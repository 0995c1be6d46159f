---------------------------- MODULE MCReminders ----------------------------
(* The run checks a liveness property, which symmetry does not preserve; *)
(* the instance is in the cfg file.                                       *)
EXTENDS Reminders
=============================================================================
