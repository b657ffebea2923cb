----------------------------- MODULE DataSource -----------------------------
(***************************************************************************)
(* The source-instance cursor of slime/rollout/data_source.py.             *)
(*                                                                         *)
(* RolloutDataSource hands out prompt groups in a fixed order.  Its cursor *)
(* counts the source instances ever drawn; validation is due every         *)
(* Interval instances, and the cursor may not move past such a boundary    *)
(* until validation of that boundary has been scheduled.  The budget ends  *)
(* the run.  Nothing here is concurrent: the methods run inside the        *)
(* single-threaded RolloutManager actor, which TrainValidation models.     *)
(***************************************************************************)
EXTENDS Integers

CONSTANTS
  DatasetSize, (* prompts in the dataset: one epoch                       *)
  Budget,      (* --train-instance-budget                                 *)
  Interval     (* --eval-instance-interval                                *)

(* The launcher refuses anything else for these three.                     *)
ASSUME DataSourceAssumption ==
  /\ DatasetSize \in Nat \ {0}
  /\ Budget \in Nat \ {0}
  /\ Interval \in Nat \ {0}

VARIABLES
  sample_group_index, (* source instances drawn so far: the cursor        *)
  sample_offset,      (* position inside the current epoch                *)
  epoch_id,           (* which shuffle of the dataset is in use           *)
  scheduled,          (* last_validation_scheduled_attempt                *)
  completed           (* last_validation_attempt                          *)

sourceVars ==
  << sample_group_index, sample_offset, epoch_id, scheduled, completed >>

(* What save() writes and load() restores.                                 *)
CheckpointState ==
  [ sample_group_index |-> sample_group_index,
    sample_offset      |-> sample_offset,
    epoch_id           |-> epoch_id,
    scheduled          |-> scheduled,
    completed          |-> completed ]

SourceInit ==
  /\ sample_group_index = 0
  /\ sample_offset = 0
  /\ epoch_id = 0
  /\ scheduled = 0
  /\ completed = 0

-----------------------------------------------------------------------------
(* Definitions named "Bug..." are plausible slips in the definition that    *)
(* follows them.  Nothing uses them: PROJECT.json names the property that  *)
(* each of them would break.                                               *)

(* The last validation boundary at or before a cursor value.               *)
BoundaryAt(attempted) == (attempted \div Interval) * Interval

BugBoundaryOneLate == BoundaryAt(sample_group_index) > scheduled + Interval

(* get_samples raises TrainingValidationBoundaryReached.                   *)
BoundaryPending == BoundaryAt(sample_group_index) > scheduled

(* get_samples raises ValueError: one request may not span a boundary that *)
(* is not scheduled yet.                                                   *)
WouldCrossBoundary(n) ==
  LET next == BoundaryAt(sample_group_index) + Interval
  IN  /\ next > scheduled
      /\ sample_group_index + n > next

(* get_samples raises TrainingInstanceBudgetExhausted.                     *)
BudgetExhausted(n) == sample_group_index + n > Budget

(* get_samples(n) when it returns n groups.  A request that runs off the   *)
(* end of the dataset takes its remainder from the next epoch's shuffle.   *)
GetSamples(n) ==
  /\ ~ BoundaryPending
  /\ ~ WouldCrossBoundary(n)
  /\ ~ BudgetExhausted(n)
  /\ IF sample_offset + n <= DatasetSize
     THEN /\ sample_offset' = sample_offset + n
          /\ UNCHANGED epoch_id
     ELSE /\ sample_offset' = n - (DatasetSize - sample_offset)
          /\ epoch_id' = epoch_id + 1
  /\ sample_group_index' = sample_group_index + n
  /\ UNCHANGED << scheduled, completed >>

(* The two cursors move only forward, and only inside what was drawn: the  *)
(* guards are the ValueErrors of the two methods.                          *)
MayMarkScheduled(attempted) ==
  /\ attempted <= sample_group_index
  /\ attempted >= completed

MayAcknowledge(attempted, scheduledNow) ==
  /\ attempted <= sample_group_index
  /\ attempted <= scheduledNow

Later(a, b) == IF a >= b THEN a ELSE b

BugLoadKeepsEpoch(state) ==
  /\ sample_group_index' = state.sample_group_index
  /\ sample_offset' = state.sample_offset
  /\ scheduled' = state.scheduled
  /\ UNCHANGED epoch_id

BugLoadForgetsScheduled(state) ==
  /\ sample_group_index' = state.sample_group_index
  /\ sample_offset' = state.sample_offset
  /\ epoch_id' = state.epoch_id
  /\ scheduled' = 0

(* load(): every cursor comes back from the file.                          *)
LoadSource(state) ==
  /\ sample_group_index' = state.sample_group_index
  /\ sample_offset' = state.sample_offset
  /\ epoch_id' = state.epoch_id
  /\ scheduled' = state.scheduled

=============================================================================
