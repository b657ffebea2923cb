-------------------------- MODULE CheckpointStore ---------------------------
(***************************************************************************)
(* The files of a training run under --save-dir and everybody who touches  *)
(* them:                                                                   *)
(*   - the driver of slime/train_async.py stages the data cursor, saves    *)
(*     the model, publishes the cursor and prunes old checkpoints;         *)
(*   - the rollout manager, running generate() meanwhile, marks the        *)
(*     checkpoint whose weights serve a validation boundary;               *)
(*   - the exporter process converts marked checkpoints to HF format, pass *)
(*     by pass, until the launcher tells it that the driver has ended;     *)
(*   - the launcher (grpo.py --auto-resume) picks the recovery point when  *)
(*     the job comes back from a crash.                                    *)
(* One step is one file operation, so a crash falls between any two.       *)
(*                                                                         *)
(* A checkpoint is identified by its rollout id.  Its contents are stamped *)
(* with the life (the job incarnation) that trained the weights, because a *)
(* resumed run trains the same ids again and gets different weights.       *)
(***************************************************************************)
EXTENDS Integers, FiniteSets, FiniteSetsExt

CONSTANTS
  NumRollout,   (* --num-rollout                                          *)
  SaveInterval, (* --save-interval                                        *)
  Retain,       (* --checkpoint-retain-latest; 0 never prunes             *)
  RequireExhaustion, (* --require-train-instance-budget-exhaustion        *)
  ReleaseSource, (* --release-source-marker, which the launcher sets      *)
  MaxLives      (* bound: job incarnations                                *)

ASSUME StoreAssumption ==
  /\ {NumRollout, SaveInterval, MaxLives} \subseteq Nat \ {0}
  /\ Retain \in Nat
  /\ {RequireExhaustion, ReleaseSource} \subseteq BOOLEAN

Ids == 0 .. NumRollout - 1
Stamps == 0 .. MaxLives   (* 0: there is no such file                      *)

VARIABLES
  pc,        (* where the driver of the current life stands               *)
  life,      (* the current job incarnation                               *)
  last,      (* last_completed_rollout_id                                 *)
  stamp,     (* the life in which update "last" was trained               *)
  version,   (* observed_policy_version: checkpoint the engines serve     *)
  generating, (* a generate() call is in flight                           *)
  terminal,  (* terminal_source_budget_reached                            *)
  targets,   (* to_remove of _prune_training_checkpoints                  *)
  exporter,  (* where the exporter process of this life stands            *)
  stop,      (* the stop file exists                                      *)
  listed,    (* the checkpoints its current or last pass has found marked *)
  todo,      (* those of them the pass has not come to                    *)
  pending,   (* those of them it could not export                         *)
  model,     (* iter_N directories                                        *)
  intact,    (* directories with all of their contents                    *)
  tracker,   (* latest_checkpointed_iteration.txt; -1 when missing        *)
  data,      (* global_dataset_state_dict_N.pt                            *)
  staged,    (* global_dataset_state_dict_N.pt.staged                     *)
  marked,    (* directories that hold a validation marker                 *)
  hf,        (* published HF exports                                      *)
  owed       (* marked at some time and not exported yet                  *)

driverVars == << last, stamp, terminal, targets >>
pairVars == << model, intact, tracker, data, staged >>
passVars == << exporter, stop, listed, todo, pending >>
exportVars == << passVars, hf, owed >>
vars == << pc, life, driverVars, version, generating, pairVars, marked,
           exportVars >>

Init ==
  /\ pc = "down" /\ life = 1
  /\ last = -1 /\ stamp = 0 /\ version = -1
  /\ generating = FALSE /\ terminal = FALSE
  /\ targets = {}
  /\ exporter = "idle" /\ stop = FALSE
  /\ listed = {} /\ todo = {} /\ pending = {}
  /\ model = [ i \in Ids |-> 0 ] /\ intact = {} /\ tracker = -1
  /\ data = [ i \in Ids |-> 0 ] /\ staged = [ i \in Ids |-> 0 ]
  /\ marked = {}
  /\ hf = [ i \in Ids |-> 0 ] /\ owed = {}

-----------------------------------------------------------------------------
Directories == { i \in Ids : model[i] # 0 }

(* Definitions named "Bug..." are plausible slips in the definition that    *)
(* follows them.  Nothing uses them: PROJECT.json names the property that  *)
(* each of them would break.                                               *)

BugCompleteWithoutData == { i \in Directories : i <= tracker }

(* _complete_checkpoint_ids, up to what the tracker names: a directory and *)
(* a cursor file.  Nobody looks inside the directory.                      *)
CompleteIds == { i \in Directories : data[i] # 0 /\ i <= tracker }

(* What --auto-resume would pick now; -1 when there is nothing to pick.    *)
ResumePoint == Max(CompleteIds \cup {-1})

(* should_run_periodic_action for the save interval.  A run that names its *)
(* --num-rollout has no epoch trigger.                                     *)
ShouldSave(r) == (r + 1) % SaveInterval = 0 \/ r = NumRollout - 1

(* A last update that leaves the required budget unspent is not saved: the *)
(* run is going to be refused anyway.                                      *)
SaveNow(r, atBudget) ==
  /\ ShouldSave(r)
  /\ RequireExhaustion /\ r = NumRollout - 1 => atBudget

(* completed_new_update                                                    *)
TrainedHere == stamp = life

-----------------------------------------------------------------------------
(* The launcher.  No tracker is a fresh run; a tracker without any pair is *)
(* refused; otherwise the tracker is moved back to the chosen pair, the    *)
(* model is loaded and broadcast, and the first generate() is launched.    *)
Start ==
  /\ pc = "down"
  /\ IF tracker # -1 /\ CompleteIds = {}
     THEN /\ pc' = "refused"
          /\ UNCHANGED << last, stamp, version, generating, tracker >>
     ELSE /\ last' = ResumePoint
          /\ version' = ResumePoint
          /\ tracker' = ResumePoint
          /\ stamp' = IF ResumePoint = -1 THEN 0 ELSE model[ResumePoint]
          /\ pc' = "loop"
          /\ generating' = (ResumePoint + 1 < NumRollout)
  /\ terminal' = FALSE
  /\ UNCHANGED << life, targets, model, intact, data, staged, marked,
                  exportVars >>

UpdatesLeft == last + 1 < NumRollout

(* A batch is in hand: stage the cursor if this update will be saved, then *)
(* launch the next generate().  The batch may have spent the budget.       *)
TakeBatch ==
  /\ pc = "loop"
  /\ UpdatesLeft
  /\ terminal' \in IF RequireExhaustion THEN BOOLEAN ELSE {FALSE}
  /\ staged' = IF SaveNow(last + 1, terminal')
               THEN [ staged EXCEPT ![last + 1] = life ]
               ELSE staged
  /\ generating' = (~ terminal' /\ last + 2 < NumRollout)
  /\ pc' = "train"
  /\ UNCHANGED << life, last, stamp, version, targets, model, intact,
                  tracker, data, marked, exportVars >>

(* The budget signal came instead of a batch, or a resumed run has no      *)
(* update left to do.  _require_final_instance_budget_exhaustion raises if *)
(* the budget was to be spent and is not.                                  *)
LeaveLoop ==
  /\ pc = "loop"
  /\ generating' = FALSE
  /\ \/ pc' = "final"
     \/ RequireExhaustion /\ ~ UpdatesLeft /\ pc' = "failed"
  /\ UNCHANGED << life, driverVars, version, pairVars, marked, exportVars >>

Train ==
  /\ pc = "train"
  /\ last' = last + 1
  /\ stamp' = life
  /\ pc' = IF SaveNow(last + 1, terminal) THEN "save" ELSE "update"
  /\ UNCHANGED << life, version, generating, terminal, targets, pairVars,
                  marked, exportVars >>

(* save_model: the directory fills up, then the tracker names it.          *)
SaveModelBegin ==
  /\ pc = "save"
  /\ model' = [ model EXCEPT ![last] = stamp ]
  /\ intact' = intact \ {last}
  /\ pc' = "saving"
  /\ UNCHANGED << life, driverVars, version, generating, tracker, data,
                  staged, marked, exportVars >>

SaveModelEnd ==
  /\ pc = "saving"
  /\ intact' = intact \cup {last}
  /\ pc' = "track"
  /\ UNCHANGED << life, driverVars, version, generating, model, tracker,
                  data, staged, marked, exportVars >>

WriteTracker ==
  /\ pc = "track"
  /\ tracker' = last
  /\ pc' = "commit"
  /\ UNCHANGED << life, driverVars, version, generating, model, intact,
                  data, staged, marked, exportVars >>

(* _commit_checkpoint_dataset_state: os.replace publishes the cursor.      *)
CommitData ==
  /\ pc = "commit"
  /\ staged[last] # 0
  /\ tracker = last
  /\ model[last] # 0
  /\ data' = [ data EXCEPT ![last] = staged[last] ]
  /\ staged' = [ staged EXCEPT ![last] = 0 ]
  /\ pc' = "prune"
  /\ UNCHANGED << life, driverVars, version, generating, model, intact,
                  tracker, marked, exportVars >>

-----------------------------------------------------------------------------
(* _prune_training_checkpoints: all targets are chosen before the first is *)
(* deleted.  Fail closed unless the pair just committed is the newest.     *)
Newest(n) == { i \in Directories :
                 Cardinality({ j \in Directories : j > i }) < n }

BugPrunesNewest ==
  IF Retain > 0 /\ data[tracker] # 0 /\ Newest(1) = {tracker}
  THEN Newest(Cardinality(Directories) - Retain) \ marked
  ELSE {}

BugPrunesMarked ==
  IF Retain > 0 /\ data[tracker] # 0 /\ Newest(1) = {tracker}
  THEN Directories \ Newest(Retain)
  ELSE {}

Prunable ==
  IF Retain > 0 /\ data[tracker] # 0 /\ Newest(1) = {tracker}
  THEN Directories \ (Newest(Retain) \cup marked)
  ELSE {}

ChooseTargets ==
  /\ pc = "prune"
  /\ targets' = Prunable
  /\ pc' = "delete"
  /\ UNCHANGED << life, last, stamp, terminal, version, generating, pairVars,
                  marked, exportVars >>

(* Oldest target first: rmtree empties and removes the directory ...       *)
RemoveContents ==
  /\ pc = "delete"
  /\ targets # {}
  /\ intact' = intact \ {Min(targets)}
  /\ pc' = "rmtree"
  /\ UNCHANGED << life, driverVars, version, generating, model, tracker,
                  data, staged, marked, exportVars >>

RemoveDirectory ==
  /\ pc = "rmtree"
  /\ model' = [ model EXCEPT ![Min(targets)] = 0 ]
  /\ marked' = marked \ {Min(targets)}
  /\ pc' = "unlink"
  /\ UNCHANGED << life, driverVars, version, generating, intact, tracker,
                  data, staged, exportVars >>

(* ... then its cursor is unlinked.                                        *)
RemoveData ==
  /\ pc = "unlink"
  /\ data' = [ data EXCEPT ![Min(targets)] = 0 ]
  /\ targets' = targets \ {Min(targets)}
  /\ pc' = "delete"
  /\ UNCHANGED << life, last, stamp, terminal, version, generating, model,
                  intact, tracker, staged, marked, exportVars >>

(* Inside the loop the new weights are broadcast next; after it the driver *)
(* is done.  "version" tells the two apart: it still names an older update.*)
EndPrune ==
  /\ pc = "delete"
  /\ targets = {}
  /\ pc' = IF version = last THEN "done" ELSE "update"
  /\ UNCHANGED << life, driverVars, version, generating, pairVars, marked,
                  exportVars >>

(* The driver waits for the prefetched generate() before it broadcasts.    *)
(* A terminal batch ends the loop, and so does the last update, which      *)
(* fails a run that had to spend its budget first.                         *)
UpdateWeights ==
  /\ pc = "update"
  /\ generating' = FALSE
  /\ version' = last
  /\ \/ terminal /\ pc' = "final"
     \/ ~ terminal /\ last < NumRollout - 1 /\ pc' = "loop"
     \/ /\ ~ terminal /\ last = NumRollout - 1
        /\ pc' = IF RequireExhaustion THEN "failed" ELSE "final"
  /\ UNCHANGED << life, driverVars, pairVars, marked, exportVars >>

(* After the final validation the cursor is written once more, with the    *)
(* model only if this update was not saved.  A life without a new update   *)
(* refreshes the cursor of the pair it resumed from, if there is one.      *)
FinalSave ==
  /\ pc = "final"
  /\ IF TrainedHere \/ (last >= 0 /\ tracker = last /\ model[last] # 0)
     THEN /\ staged' = [ staged EXCEPT ![last] = stamp ]
          /\ pc' = IF TrainedHere /\ ~ SaveNow(last, terminal)
                   THEN "save" ELSE "commit"
     ELSE /\ pc' = "done"
          /\ UNCHANGED staged
  /\ UNCHANGED << life, driverVars, version, generating, model, intact,
                  tracker, data, marked, exportVars >>

-----------------------------------------------------------------------------
(* _schedule_train_validation, from generate() or from the final drain. A  *)
(* directory that is not there is only worth a warning.                    *)
Mark ==
  /\ generating \/ pc = "final"
  /\ version \in Directories
  /\ marked' = marked \cup {version}
  /\ owed' = IF hf[version] = 0 THEN owed \cup {version} ELSE owed
  /\ UNCHANGED << pc, life, driverVars, version, generating, pairVars,
                  passVars, hf >>

(* export_validation_checkpoints.py, which the launcher starts before the  *)
(* driver.  A pass lists the marked checkpoints once and takes them in     *)
(* order of their ids; what is marked meanwhile is for the next pass.      *)
Current == Min(todo)

ListMarked ==
  /\ exporter = "idle"
  /\ exporter' = "pass"
  /\ listed' = marked /\ todo' = marked
  /\ UNCHANGED << pc, life, driverVars, version, generating, pairVars,
                  marked, stop, pending, hf, owed >>

(* _export_one converts next to the destination ...                        *)
Convert ==
  /\ exporter = "pass"
  /\ todo # {}
  /\ hf[Current] = 0 /\ Current \in intact
  /\ exporter' = "convert"
  /\ UNCHANGED << pc, life, driverVars, version, generating, pairVars,
                  marked, stop, listed, todo, pending, hf, owed >>

(* ... and publishes by os.replace.                                        *)
Publish ==
  /\ exporter = "convert"
  /\ Current \in intact
  /\ hf' = [ hf EXCEPT ![Current] = model[Current] ]
  /\ owed' = owed \ {Current}
  /\ exporter' = "pass"
  /\ UNCHANGED << pc, life, driverVars, version, generating, pairVars,
                  marked, stop, listed, todo, pending >>

(* Its files are missing, or the converter fails on them: the export is    *)
(* deferred to the next pass.                                              *)
Defer ==
  /\ \/ exporter = "convert"
     \/ /\ exporter = "pass" /\ todo # {}
        /\ hf[Current] = 0 /\ Current \notin intact
  /\ pending' = pending \cup {Current}
  /\ todo' = todo \ {Current}
  /\ exporter' = "pass"
  /\ UNCHANGED << pc, life, driverVars, version, generating, pairVars,
                  marked, stop, listed, hf, owed >>

(* An export that is complete, from this pass or an earlier one, makes its *)
(* source eligible for normal retention.                                   *)
ReleaseMarkers ==
  /\ exporter = "pass"
  /\ todo # {}
  /\ hf[Current] # 0
  /\ marked' = IF ReleaseSource THEN marked \ {Current} ELSE marked
  /\ todo' = todo \ {Current}
  /\ UNCHANGED << pc, life, driverVars, version, generating, pairVars,
                  exporter, stop, listed, pending, hf, owed >>

(* Bug: the stop file is looked at after every checkpoint.                 *)
BugEndPass ==
  /\ exporter = "pass"
  /\ stop \/ todo = {}
  /\ exporter' = IF stop THEN "over" ELSE "idle"
  /\ listed' = IF stop THEN listed ELSE {}
  /\ pending' = IF stop THEN pending ELSE {}
  /\ UNCHANGED << pc, life, driverVars, version, generating, pairVars,
                  marked, stop, todo, hf, owed >>

(* With the stop file there, a pass is the last one, whatever it could not *)
(* export and whatever was marked while it ran.                            *)
EndPass ==
  /\ exporter = "pass"
  /\ todo = {}
  /\ exporter' = IF stop THEN "over" ELSE "idle"
  /\ listed' = IF stop THEN listed ELSE {}
  /\ pending' = IF stop THEN pending ELSE {}
  /\ UNCHANGED << pc, life, driverVars, version, generating, pairVars,
                  marked, stop, todo, hf, owed >>

-----------------------------------------------------------------------------
Ended == {"refused", "failed", "done"}

(* A step of the driver raises.                                            *)
DriverRaises ==
  /\ pc \notin Ended
  /\ pc' = "failed"
  /\ generating' = FALSE
  /\ targets' = {}
  /\ UNCHANGED << life, last, stamp, terminal, version, pairVars, marked,
                  exportVars >>

(* The launcher touches the stop file when the driver has ended, however,  *)
(* and waits for the exporter.                                             *)
TouchStop ==
  /\ pc \in Ended
  /\ ~ stop
  /\ stop' = TRUE
  /\ UNCHANGED << pc, life, driverVars, version, generating, pairVars,
                  marked, exporter, listed, todo, pending, hf, owed >>

(* The job is killed with everything in it, or has failed; it is requeued  *)
(* and the launcher starts over, without the stop file.                    *)
Crash ==
  /\ pc \in {"refused", "done"} => exporter # "over"
  /\ life < MaxLives
  /\ life' = life + 1
  /\ pc' = "down"
  /\ generating' = FALSE
  /\ targets' = {}
  /\ exporter' = "idle" /\ stop' = FALSE
  /\ listed' = {} /\ todo' = {} /\ pending' = {}
  /\ UNCHANGED << last, stamp, terminal, version, pairVars, marked, hf,
                  owed >>

Driver ==
  \/ Start \/ TakeBatch \/ LeaveLoop \/ Train
  \/ SaveModelBegin \/ SaveModelEnd \/ WriteTracker \/ CommitData
  \/ ChooseTargets \/ RemoveContents \/ RemoveDirectory \/ RemoveData
  \/ EndPrune \/ UpdateWeights \/ FinalSave

Exporter ==
  \/ ListMarked \/ Convert \/ Publish \/ Defer \/ ReleaseMarkers \/ EndPass

Next == Driver \/ Mark \/ Exporter \/ TouchStop \/ DriverRaises \/ Crash

Spec == Init /\ [][Next]_vars

(* The driver and the exporter are loops that never wait for each other,   *)
(* and the launcher waits for one and then for the other.  That a          *)
(* conversion succeeds is not assumed.                                     *)
FairSpec ==
  Spec /\ WF_vars(Driver) /\ WF_vars(Exporter) /\ WF_vars(TouchStop)

-----------------------------------------------------------------------------
(* Every variable holds a value of its kind.                               *)
TypeOK ==
  /\ pc \in {"down", "refused", "loop", "train", "save", "saving", "track",
             "commit", "prune", "delete", "rmtree", "unlink", "update",
             "final", "failed", "done"}
  /\ life \in 1 .. MaxLives
  /\ last \in Ids \cup {-1}
  /\ version \in Ids \cup {-1}
  /\ tracker \in Ids \cup {-1}
  /\ exporter \in {"idle", "pass", "convert", "over"}
  /\ stamp \in Stamps
  /\ {generating, terminal, stop} \subseteq BOOLEAN
  /\ {model, data, staged, hf} \subseteq [ Ids -> Stamps ]
  /\ intact \subseteq Directories
  /\ targets \subseteq Ids
  /\ todo \cup pending \subseteq listed /\ listed \subseteq Ids
  /\ marked \subseteq Directories
  /\ owed \subseteq Ids

(* Whenever the job dies, what --auto-resume would pick is a directory     *)
(* with all its contents and the cursor that was staged for exactly those  *)
(* weights, never a half-written or half-deleted directory and never the   *)
(* cursor of another life.                                                 *)
ResumePointIntact ==
  ResumePoint # -1 =>
    /\ ResumePoint \in intact
    /\ data[ResumePoint] = model[ResumePoint]

(* No file operation, and no crash or restart, takes the recovery point    *)
(* back: a committed update is never lost.                                 *)
ResumePointNeverFalls == [][ResumePoint' >= ResumePoint]_vars

(* "Keep validation checkpoints": a checkpoint that was marked stays whole *)
(* until its HF export has been published, and an export has the weights   *)
(* of the checkpoint it is named after, never those of another life.       *)
MarkedIsKept ==
  /\ owed \subseteq intact
  /\ \A i \in Directories : hf[i] \in {0, model[i]}

(* What the exporter gives up: the last pass failed on it, or had made its *)
(* list when the checkpoint was marked.                                    *)
GivenUp(i) == exporter = "over" /\ (i \in pending \/ i \notin listed)

(* Every marked checkpoint is exported in the end, in this life or a later *)
(* one, or is one of those.                                                *)
MarkedIsExported ==
  \A i \in Ids : (i \in owed) ~> (hf[i] # 0 \/ GivenUp(i))

(* "Dataset-state files paired with removed checkpoints are removed at the *)
(* same time": outside the prune loop no cursor is left without its model. *)
NoOrphanedData ==
  pc = "loop" => { i \in Ids : data[i] # 0 } \subseteq Directories

=============================================================================
