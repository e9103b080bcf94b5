----------------------------- MODULE MCPolling -----------------------------
(***************************************************************************)
(* The values of the constants for the model-checking runs.                *)
(***************************************************************************)
EXTENDS Polling

TwoWorkers == {"w1", "w2"}
=============================================================================
