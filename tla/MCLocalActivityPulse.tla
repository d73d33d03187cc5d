------------------------ MODULE MCLocalActivityPulse ------------------------
(* Instances of the local activity pulse for TLC.                          *)
EXTENDS LocalActivityPulseProperties
=============================================================================
