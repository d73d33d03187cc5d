------------------------- MODULE MCAutonomousPulse -------------------------
(* Instances of the autonomous cognition pulse for TLC.                    *)
EXTENDS AutonomousPulseProperties
=============================================================================
