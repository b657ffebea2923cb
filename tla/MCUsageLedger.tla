--------------------------- MODULE MCUsageLedger ----------------------------
(* UsageLedger with two sources, one of which may be sampled twice, and    *)
(* three jobs.                                                             *)
EXTENDS UsageLedger, TLC
=============================================================================
