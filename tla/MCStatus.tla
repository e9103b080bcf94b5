------------------------------ MODULE MCStatus ------------------------------
(***************************************************************************)
(* The values of the constants for the run of the waiting command, which   *)
(* are those of the scheduler.                                             *)
(***************************************************************************)
EXTENDS MCScheduler, RequestStatus
=============================================================================
