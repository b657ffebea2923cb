-------------------------- MODULE MCParallelSearch --------------------------
(* Instances of ParallelSearch for TLC.                                     *)
EXTENDS ParallelSearch

Depth2 ==
  [ m |-> 2, k |-> 1, p |-> 2, limit |-> 2, workers |-> 3, depth2 |-> TRUE,
    kinds |-> Kinds, terminal |-> FALSE, gtOnSubmit |-> FALSE,
    skipLaneC |-> FALSE ]

RootOnly == [ Depth2 EXCEPT !.depth2 = FALSE, !.kinds = {"root"} ]

(* depth2 as the launcher sets it; a resampled beam group of three with    *)
(* three parents; a root group that runs to the end, without a judge; and  *)
(* one whose submitted branches are rewarded by the evaluator.             *)
MCConfigs ==
  { Depth2,
    [ Depth2 EXCEPT !.m = 3, !.p = 3, !.workers = 2, !.kinds = {"beam"} ],
    [ RootOnly EXCEPT !.terminal = TRUE, !.skipLaneC = TRUE ],
    [ RootOnly EXCEPT !.gtOnSubmit = TRUE ] }
=============================================================================
