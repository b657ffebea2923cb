--------------------------- MODULE MCLanesCollector ---------------------------
(* An instance of LanesCollector for TLC; the bounds are in the cfg.        *)
EXTENDS LanesCollector
=============================================================================
