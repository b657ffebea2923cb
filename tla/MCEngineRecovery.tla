------------------------- MODULE MCEngineRecovery --------------------------
(* Instances of EngineRecovery for TLC.                                     *)
EXTENDS EngineRecovery
=============================================================================
