----------------------------- MODULE MCWakeResume -----------------------------
(* Instances of the wake and its resumption for TLC.                       *)
EXTENDS WakeResumeProperties
=============================================================================
