-------------------------- MODULE MCPolicyVersion ---------------------------
(* Instances of PolicyVersion for TLC; the .cfg files give the constants.   *)
EXTENDS PolicyVersion, TLC

CONSTANTS e1, e2, w1, w2

(* Engines, and rollout processes, are interchangeable.                    *)
Symmetry == Permutations({e1, e2}) \cup Permutations({w1, w2})
=============================================================================
