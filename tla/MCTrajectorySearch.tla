------------------------ MODULE MCTrajectorySearch -------------------------
(* Instances of TrajectorySearch for TLC.                                   *)
EXTENDS TrajectorySearch

(* Terminal evaluations with a beam of one, so that frontier nodes wait for *)
(* later rounds; ground truth in sandboxes, whose leftovers a sweep does    *)
(* not know; and ground truth with its gate for a beam of two parents.      *)
MCConfigs ==
  { [ gt |-> FALSE, gate |-> FALSE, beam |-> 1, container |-> "docker" ],
    [ gt |-> TRUE, gate |-> FALSE, beam |-> 1, container |-> "singularity" ],
    [ gt |-> TRUE, gate |-> TRUE, beam |-> 2, container |-> "docker" ] }
=============================================================================
