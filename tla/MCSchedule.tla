------------------------------ MODULE MCSchedule ------------------------------
(* Instances of RefreshScheduler for TLC. *)
EXTENDS ScheduleSafety
=============================================================================
