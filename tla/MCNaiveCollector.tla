-------------------------- MODULE MCNaiveCollector --------------------------
(* Instances of NaiveCollector for TLC; the .cfg files give the constants.  *)
EXTENDS NaiveCollector
=============================================================================
