------------------------- MODULE MCCheckpointStore --------------------------
(* Instances of CheckpointStore for TLC; the .cfg files give the constants. *)
EXTENDS CheckpointStore
=============================================================================
