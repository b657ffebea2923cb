-------------------------- MODULE TrainValidation ---------------------------
(***************************************************************************)
(* Source-attempt validation: RolloutManager and AsyncValidationManager of *)
(* slime/ray/rollout.py on top of the DataSource cursor.                   *)
(*                                                                         *)
(* The manager is one Ray actor that runs generate(), save(), load() and   *)
(* drain_train_validations() one at a time.  While it runs generate(), a   *)
(* second actor evaluates the boundaries the manager has dispatched, in    *)
(* the order it received them.  The manager learns of a finished pass only *)
(* when it polls.  The job can be killed between any two steps; it then    *)
(* starts again from the last saved cursor and without the second actor's  *)
(* work.                                                                   *)
(***************************************************************************)
EXTENDS DataSource, FiniteSets

CONSTANT Defer (* --defer-instance-validation: no validation actor         *)

ASSUME DeferAssumption == Defer \in BOOLEAN

VARIABLES
  pc,       (* what the manager is doing: "idle" between calls            *)
  refs,     (* _train_validation_refs: boundaries dispatched, not reaped  *)
  finished, (* those of refs whose pass has ended, for good or ill        *)
  staged,   (* the cursor last written next to a checkpoint, uncommitted  *)
  saved     (* the cursor of the newest committed checkpoint              *)

durableVars == << staged, saved >>
managerVars == << pc, refs, finished, durableVars >>
vars == << sourceVars, managerVars >>

Init ==
  /\ SourceInit
  /\ pc = "idle"
  /\ refs = {}
  /\ finished = {}
  /\ staged = CheckpointState
  /\ saved = CheckpointState

-----------------------------------------------------------------------------
(* _poll_train_validations: walk the dispatched boundaries in order and    *)
(* stop at the first that has not finished.                                *)
Reapable ==
  { a \in refs : \A b \in refs : b <= a => b \in finished }

Poll ==
  /\ completed' \in Reapable \cup {completed}
  /\ \A a \in Reapable \cup {completed} : a <= completed'
  /\ refs' = refs \ Reapable
  /\ finished' = finished \ Reapable

(* _schedule_train_validation for a boundary the manager has not handled.  *)
(* Scheduling unlocks the cursor.  Deferred validation, and a dispatch     *)
(* that raises, acknowledge the boundary on the spot.                      *)
ScheduleTrainValidation(attempted) ==
  /\ attempted > completed
  /\ attempted \notin refs
  /\ MayMarkScheduled(attempted)
  /\ scheduled' = Later(scheduled, attempted)
  /\ \/ /\ ~ Defer
        /\ refs' = refs \cup {attempted}
        /\ UNCHANGED completed
     \/ /\ MayAcknowledge(attempted, scheduled')
        /\ completed' = Later(completed, attempted)
        /\ UNCHANGED refs
  /\ UNCHANGED << sample_group_index, sample_offset, epoch_id, finished >>

-----------------------------------------------------------------------------
(* generate() enters and polls before it asks the collector for a batch.   *)
StartGenerate ==
  /\ pc = "idle"
  /\ pc' = "generate"
  /\ Poll
  /\ UNCHANGED << sample_group_index, sample_offset, epoch_id, scheduled,
                  durableVars >>

(* The collector draws one source group.                                   *)
Draw ==
  /\ pc = "generate"
  /\ GetSamples(1)
  /\ UNCHANGED managerVars

(* get_samples, or the collector's check before it returns a full batch,   *)
(* raised TrainingValidationBoundaryReached: generate() schedules that     *)
(* boundary and asks the collector again.                                  *)
ReachBoundary ==
  /\ pc = "generate"
  /\ BoundaryPending
  /\ sample_group_index = BoundaryAt(sample_group_index)
  /\ ScheduleTrainValidation(BoundaryAt(sample_group_index))
  /\ UNCHANGED << pc, durableVars >>

(* The collector returned a full batch; no boundary may be outstanding.    *)
ReturnBatch ==
  /\ pc = "generate"
  /\ ~ BoundaryPending
  /\ pc' = "idle"
  /\ Poll
  /\ UNCHANGED << sample_group_index, sample_offset, epoch_id, scheduled,
                  durableVars >>

(* The collector gave up because the budget is spent.                      *)
ReturnBudgetSignal ==
  /\ pc = "generate"
  /\ ~ BoundaryPending
  /\ BudgetExhausted(1)
  /\ pc' = "idle"
  /\ UNCHANGED << sourceVars, refs, finished, durableVars >>

-----------------------------------------------------------------------------
BugSkipWhenScheduled ==
  /\ pc = "idle"
  /\ sample_group_index <= scheduled
  /\ pc' = "done"
  /\ UNCHANGED << sourceVars, refs, finished, durableVars >>

(* The driver left its loop: the final validation is skipped when the last *)
(* boundary was acknowledged already.                                      *)
SkipDrain ==
  /\ pc = "idle"
  /\ sample_group_index <= completed
  /\ pc' = "done"
  /\ UNCHANGED << sourceVars, refs, finished, durableVars >>

(* drain_train_validations: poll, then schedule the final cursor if that   *)
(* is still needed ...                                                     *)
StartDrain ==
  /\ pc = "idle"
  /\ sample_group_index > completed
  /\ pc' = "poll"
  /\ Poll
  /\ UNCHANGED << sample_group_index, sample_offset, epoch_id, scheduled,
                  durableVars >>

BugScheduleFinalUnlessBusy ==
  /\ pc = "poll"
  /\ IF sample_group_index > completed /\ refs = {}
     THEN ScheduleTrainValidation(sample_group_index)
     ELSE UNCHANGED << sourceVars, refs, finished >>
  /\ pc' = "drain"
  /\ UNCHANGED durableVars

ScheduleFinal ==
  /\ pc = "poll"
  /\ IF sample_group_index > completed /\ sample_group_index \notin refs
     THEN ScheduleTrainValidation(sample_group_index)
     ELSE UNCHANGED << sourceVars, refs, finished >>
  /\ pc' = "drain"
  /\ UNCHANGED durableVars

(* ... then wait for every dispatched boundary, in order.                  *)
DrainOne ==
  /\ pc = "drain"
  /\ \E a \in refs :
       /\ \A b \in refs : a <= b
       /\ a \in finished
       /\ MayAcknowledge(a, scheduled)
       /\ completed' = Later(completed, a)
       /\ refs' = refs \ {a}
       /\ finished' = finished \ {a}
  /\ UNCHANGED << sample_group_index, sample_offset, epoch_id, scheduled,
                  pc, durableVars >>

FinishDrain ==
  /\ pc = "drain"
  /\ refs = {}
  /\ completed >= sample_group_index
  /\ pc' = "done"
  /\ UNCHANGED << sourceVars, refs, finished, durableVars >>

-----------------------------------------------------------------------------
(* save(staged=True) queues behind generate(), so it runs between calls.   *)
Stage ==
  /\ pc \in {"idle", "done"}
  /\ staged' = CheckpointState
  /\ UNCHANGED << sourceVars, pc, refs, finished, saved >>

(* The driver publishes the staged cursor once the model is durable, which *)
(* may be in the middle of the next generate().                            *)
Commit ==
  /\ saved' = staged
  /\ UNCHANGED << sourceVars, pc, refs, finished, staged >>

(* The validation actor ends its oldest pass: a result, an error result,   *)
(* or the actor's death, which the manager treats alike.                   *)
FinishValidation ==
  /\ \E a \in refs \ finished :
       /\ \A b \in refs \ finished : a <= b
       /\ finished' = finished \cup {a}
  /\ UNCHANGED << sourceVars, pc, refs, durableVars >>

BugLoadReplays ==
  /\ LoadSource(saved)
  /\ completed' = saved.completed
  /\ refs' = {}
  /\ finished' = {}
  /\ pc' = "idle"
  /\ staged' = saved
  /\ UNCHANGED saved

(* The job dies and load() restores the checkpoint.  A pass that had been  *)
(* scheduled but not acknowledged is not run again under newer weights.    *)
CrashAndLoad ==
  /\ LoadSource(saved)
  /\ completed' = IF ~ Defer /\ saved.scheduled > saved.completed
                  THEN saved.scheduled
                  ELSE saved.completed
  /\ refs' = {}
  /\ finished' = {}
  /\ pc' = "idle"
  /\ staged' = saved
  /\ UNCHANGED saved

(* What the manager does on behalf of the driver that is waiting for it.   *)
ManagerStep ==
  \/ StartGenerate \/ Draw \/ ReachBoundary \/ ReturnBatch
  \/ ReturnBudgetSignal
  \/ SkipDrain \/ StartDrain \/ ScheduleFinal \/ DrainOne \/ FinishDrain

Next ==
  ManagerStep \/ Stage \/ Commit \/ FinishValidation \/ CrashAndLoad

Spec == Init /\ [][Next]_vars

(* The driver always waits on some manager call until the job is done, and *)
(* a validation pass runs under a wall-clock limit, so both keep moving.   *)
FairSpec == Spec /\ WF_vars(ManagerStep) /\ WF_vars(FinishValidation)

-----------------------------------------------------------------------------
Cursors ==
  [ sample_group_index : 0 .. Budget, sample_offset : 0 .. DatasetSize,
    epoch_id : Nat, scheduled : 0 .. Budget, completed : 0 .. Budget ]

(* Every variable holds a value of its kind.                               *)
TypeOK ==
  /\ CheckpointState \in Cursors
  /\ pc \in {"idle", "generate", "poll", "drain", "done"}
  /\ refs \subseteq 1 .. Budget
  /\ finished \subseteq refs
  /\ staged \in Cursors
  /\ saved \in Cursors

(* A cursor is acknowledged only after it was scheduled and scheduled only *)
(* after it was drawn, and a source instance past an unscheduled boundary  *)
(* was never drawn.                                                        *)
CursorsOrdered(c) ==
  /\ c.completed <= c.scheduled
  /\ c.scheduled <= c.sample_group_index
  /\ BoundaryAt(c.sample_group_index) > c.scheduled
       => BoundaryAt(c.sample_group_index) = c.sample_group_index

(* The ValueErrors of mark_validation_scheduled and acknowledge_validation *)
(* and the RuntimeError of generate() ("must be raised at its exact source *)
(* cursor") are unreachable, now and after a restart from either file.     *)
BoundariesExact ==
  /\ CursorsOrdered(CheckpointState)
  /\ CursorsOrdered(staged)
  /\ CursorsOrdered(saved)

(* Source instance number g is the same prompt in every life of the run:   *)
(* the cursor alone fixes the epoch and the position in its shuffle.       *)
PromptAt(c) ==
  c.sample_group_index = c.epoch_id * DatasetSize + c.sample_offset

SamePromptAfterRestart ==
  PromptAt(CheckpointState) /\ PromptAt(staged) /\ PromptAt(saved)

(* A boundary that stops generate() can always be scheduled, so the retry  *)
(* loop around the collector never spins on it.                            *)
BoundaryCanBeScheduled ==
  pc = "generate" /\ BoundaryPending
    => /\ BoundaryAt(sample_group_index) > completed
       /\ BoundaryAt(sample_group_index) \notin refs

(* Draining ends with the requested cursor acknowledged, whatever passes   *)
(* failed before: the RuntimeError at its end is unreachable.              *)
DrainReachesCursor ==
  pc = "drain" /\ refs = {} => completed >= sample_group_index

(* A boundary that was ever scheduled in the restored history is not given *)
(* to the validation actor again ("do not replay old validation under a    *)
(* newer policy").                                                         *)
NoReplayedValidation ==
  [][\A a \in refs' \ refs : a > scheduled]_vars

(* Every scheduled boundary is acknowledged in the end, unless a restart   *)
(* takes the cursor back to before it was scheduled.                       *)
ScheduledIsAcknowledged ==
  \A b \in 1 .. Budget :
    (scheduled >= b) ~> (completed >= b \/ scheduled < b)

=============================================================================
