------------------------- MODULE MCTrainValidation --------------------------
(* Instances of TrainValidation for TLC; the .cfg files give the constants. *)
EXTENDS TrainValidation
=============================================================================
