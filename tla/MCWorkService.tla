--------------------------- MODULE MCWorkService ----------------------------
(* Instances of the service process for TLC.                               *)
EXTENDS WorkServiceProperties
=============================================================================
